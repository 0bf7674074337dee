---------------------------- MODULE HazardPointer ----------------------------
(***************************************************************************)
(* The class HazardPointer<T> of src/thread-safe-queue.cpp: protect(),     *)
(* remove(), real_remove() and cleanup(), one action per atomic access.    *)
(*                                                                         *)
(* Besides the usual hazard slots the class runs a handshake between two   *)
(* counters: a thread publishes a hazard only while it is counted in       *)
(* protect_count and has then seen free_count = 0, and a thread looks at   *)
(* the slots only while it is counted in free_count and has then seen      *)
(* protect_count = 0.                                                      *)
(*                                                                         *)
(* The module has no Next of its own: its client composes the actions      *)
(* below with its own (ThreadSafeQueue), passing LoadPointer and           *)
(* ReloadPointer the current value of the pointer being protected.         *)
(***************************************************************************)
EXTENDS Integers, FiniteSets

CONSTANTS
    threadnum,  \* number of threads, the first constructor argument
    Addr,       \* memory addresses an Element may occupy
    Null        \* nullptr

dimention == 3                     \* hazard slots per thread
Threads   == 0 .. threadnum - 1
Slots     == 0 .. dimention * threadnum - 1
SlotOf(t, num) == t * dimention + num

ASSUME ThreadnumAssumption == threadnum \in Nat \ {0}
ASSUME NullAssumption == Null \notin Addr
ASSUME AddrAssumption == IsFiniteSet(Addr)

VARIABLES
    stored_pointers,     \* the hazard slots
    pointers_to_delete,  \* thread_local: retired, not yet deleted
    protect_count,
    free_count,
    live,                \* addresses currently allocated (the heap)
    stage,               \* where each thread is inside this class
    slot,                \* local: the slot protect() is to fill
    old_value,           \* local of protect(): the pointer it returns
    registered,          \* local of real_remove(): registered_pointers
    cursor               \* local: the loop index of the scans

sharedVars == <<stored_pointers, pointers_to_delete, protect_count,
                free_count, live>>
localVars  == <<slot, old_value, registered, cursor>>
hpVars     == <<stored_pointers, pointers_to_delete, protect_count,
                free_count, live, stage, slot, old_value, registered, cursor>>

Protecting == {"enter", "check", "load", "store", "reload", "leave", "backoff"}
Removing   == {"announce", "wait", "scan", "delete", "retract"}
Stages     == Protecting \cup Removing \cup
              {"out", "protected", "clear", "removed"}

HPTypeOK ==
    /\ stored_pointers \in [Slots -> Addr \cup {Null}]
    /\ pointers_to_delete \in [Threads -> SUBSET Addr]
    /\ protect_count \in Int
    /\ free_count \in Int
    /\ live \in SUBSET Addr
    /\ stage \in [Threads -> Stages]
    /\ slot \in [Threads -> 0 .. dimention - 1]
    /\ old_value \in [Threads -> Addr \cup {Null}]
    /\ registered \in [Threads -> SUBSET Addr]
    /\ cursor \in [Threads -> Nat]

HPInit ==
    /\ stored_pointers = [i \in Slots |-> Null]
    /\ pointers_to_delete = [t \in Threads |-> {}]
    /\ protect_count = 0
    /\ free_count = 0
    /\ stage = [t \in Threads |-> "out"]
    /\ slot = [t \in Threads |-> 0]
    /\ old_value = [t \in Threads |-> Null]
    /\ registered = [t \in Threads |-> {}]
    /\ cursor = [t \in Threads |-> 0]

Step(t, from, to) ==
    /\ stage[t] = from
    /\ stage' = [stage EXCEPT ![t] = to]

-----------------------------------------------------------------------------
(* protect() *)

CallProtect(t, num) ==
    /\ stage' = [stage EXCEPT ![t] = "enter"]
    /\ slot' = [slot EXCEPT ![t] = num]
    /\ UNCHANGED <<sharedVars, old_value, registered, cursor>>

EnterProtect(t) ==
    /\ Step(t, "enter", "check")
    /\ protect_count' = protect_count + 1
    /\ UNCHANGED <<stored_pointers, pointers_to_delete, free_count, live, localVars>>

(* Mutant: protect() does not look at free_count.                           *)
CheckFreeSkipped(t) ==
    /\ Step(t, "check", "load")
    /\ UNCHANGED <<sharedVars, localVars>>

CheckFree(t) ==
    /\ Step(t, "check", IF free_count = 0 THEN "load" ELSE "backoff")
    /\ UNCHANGED <<sharedVars, localVars>>

LoadPointer(t, value) ==
    /\ Step(t, "load", "store")
    /\ old_value' = [old_value EXCEPT ![t] = value]
    /\ UNCHANGED <<sharedVars, slot, registered, cursor>>

StoreHazard(t) ==
    /\ Step(t, "store", "reload")
    /\ stored_pointers' = [stored_pointers EXCEPT ![SlotOf(t, slot[t])] = old_value[t]]
    /\ UNCHANGED <<pointers_to_delete, protect_count, free_count, live, localVars>>

ReloadPointer(t, value) ==
    /\ Step(t, "reload", IF value = old_value[t] THEN "leave" ELSE "load")
    /\ UNCHANGED <<sharedVars, localVars>>

LeaveProtect(t) ==
    /\ Step(t, "leave", "protected")
    /\ protect_count' = protect_count - 1
    /\ UNCHANGED <<stored_pointers, pointers_to_delete, free_count, live, localVars>>

(* Mutant: the second fetch_add(-1) of protect() is forgotten.              *)
BackOffStillCounted(t) ==
    /\ Step(t, "backoff", "enter")
    /\ UNCHANGED <<sharedVars, localVars>>

BackOff(t) ==
    /\ Step(t, "backoff", "enter")
    /\ protect_count' = protect_count - 1
    /\ UNCHANGED <<stored_pointers, pointers_to_delete, free_count, live, localVars>>

-----------------------------------------------------------------------------
(* remove(), real_remove() and cleanup() *)

CallRemove(t, pointer) ==
    /\ stage' = [stage EXCEPT ![t] = "announce"]
    /\ pointers_to_delete' = [pointers_to_delete EXCEPT ![t] = @ \cup {pointer}]
    /\ UNCHANGED <<stored_pointers, protect_count, free_count, live, localVars>>

CallCleanup(t) ==
    /\ stage' = [stage EXCEPT ![t] = "clear"]
    /\ cursor' = [cursor EXCEPT ![t] = 0]
    /\ UNCHANGED <<sharedVars, slot, old_value, registered>>

ClearSlot(t) ==
    /\ Step(t, "clear", IF cursor[t] + 1 < dimention THEN "clear" ELSE "announce")
    /\ stored_pointers' = [stored_pointers EXCEPT ![SlotOf(t, cursor[t])] = Null]
    /\ cursor' = [cursor EXCEPT ![t] = IF @ + 1 < dimention THEN @ + 1 ELSE 0]
    /\ UNCHANGED <<pointers_to_delete, protect_count, free_count, live,
                   slot, old_value, registered>>

Announce(t) ==
    /\ Step(t, "announce", "wait")
    /\ free_count' = free_count + 1
    /\ UNCHANGED <<stored_pointers, pointers_to_delete, protect_count, live, localVars>>

(* Mutant: real_remove() does not wait for the threads in protect().        *)
AwaitProtectorsSkipped(t) ==
    /\ Step(t, "wait", "scan")
    /\ registered' = [registered EXCEPT ![t] = {}]
    /\ cursor' = [cursor EXCEPT ![t] = 0]
    /\ UNCHANGED <<sharedVars, slot, old_value>>

AwaitProtectors(t) ==
    /\ Step(t, "wait", "scan")
    /\ ~(protect_count > 0)
    /\ registered' = [registered EXCEPT ![t] = {}]
    /\ cursor' = [cursor EXCEPT ![t] = 0]
    /\ UNCHANGED <<sharedVars, slot, old_value>>

ScanSlot(t) ==
    /\ Step(t, "scan", IF cursor[t] + 1 < dimention * threadnum THEN "scan" ELSE "delete")
    /\ registered' = [registered EXCEPT ![t] = @ \cup ({stored_pointers[cursor[t]]} \ {Null})]
    /\ cursor' = [cursor EXCEPT ![t] = IF @ + 1 < dimention * threadnum THEN @ + 1 ELSE 0]
    /\ UNCHANGED <<sharedVars, slot, old_value>>

(* Mutant: registered_pointers is ignored.                                  *)
DeleteAll(t) ==
    /\ Step(t, "delete", "retract")
    /\ live' = live \ pointers_to_delete[t]
    /\ pointers_to_delete' = [pointers_to_delete EXCEPT ![t] = {}]
    /\ registered' = [registered EXCEPT ![t] = {}]
    /\ UNCHANGED <<stored_pointers, protect_count, free_count, slot, old_value, cursor>>

(* Mutant: what was deleted is not erased from pointers_to_delete.          *)
DeleteWithoutErase(t) ==
    /\ Step(t, "delete", "retract")
    /\ live' = live \ (pointers_to_delete[t] \ registered[t])
    /\ registered' = [registered EXCEPT ![t] = {}]
    /\ UNCHANGED <<stored_pointers, pointers_to_delete, protect_count, free_count,
                   slot, old_value, cursor>>

(* The loop over old_pointers_to_delete, whose addresses only t knows, is   *)
(* one step.                                                                *)
DeleteUnregistered(t) ==
    /\ Step(t, "delete", "retract")
    /\ live' = live \ (pointers_to_delete[t] \ registered[t])
    /\ pointers_to_delete' = [pointers_to_delete EXCEPT ![t] = @ \cap registered[t]]
    /\ registered' = [registered EXCEPT ![t] = {}]
    /\ UNCHANGED <<stored_pointers, protect_count, free_count, slot, old_value, cursor>>

(* Mutant: real_remove() leaves itself counted in free_count.               *)
RetractStillCounted(t) ==
    /\ Step(t, "retract", "removed")
    /\ UNCHANGED <<sharedVars, localVars>>

Retract(t) ==
    /\ Step(t, "retract", "removed")
    /\ free_count' = free_count - 1
    /\ UNCHANGED <<stored_pointers, pointers_to_delete, protect_count, live, localVars>>

-----------------------------------------------------------------------------
(* What every step inside the class, other than a call, looks like when    *)
(* the pointer being protected currently holds the given value.            *)
ProtectStep(t, value) ==
    \/ EnterProtect(t)
    \/ CheckFree(t)
    \/ LoadPointer(t, value)
    \/ StoreHazard(t)
    \/ ReloadPointer(t, value)
    \/ LeaveProtect(t)
    \/ BackOff(t)

RemoveStep(t) ==
    \/ ClearSlot(t)
    \/ Announce(t)
    \/ AwaitProtectors(t)
    \/ ScanSlot(t)
    \/ DeleteUnregistered(t)
    \/ Retract(t)

(* The handshake of protect() and real_remove() (lines 40-47 and 63-66):   *)
(* while one thread publishes a hazard, no other thread is between its     *)
(* wait loop and the end of its deletions.                                 *)
HandshakeExclusion ==
    \A t, u \in Threads :
        ~ /\ stage[t] \in {"load", "store", "reload"}
          /\ stage[u] \in {"scan", "delete", "retract"}
=============================================================================
