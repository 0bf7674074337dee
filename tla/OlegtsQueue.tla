----------------------------- MODULE OlegtsQueue -----------------------------
(***************************************************************************)
(* LockFreeQueue<T> of src/lock-free-queue-with-olegts-ref-counting.cpp,   *)
(* the author's own variant of RefCountQueue: three counted pointers lead  *)
(* to a node (head, tail and the next of its predecessor), and a reference *)
(* is held by a guard object, CountedNodePtrCopyGuard, whose destructor    *)
(* gives it back.  After the threads are joined the destructor pops what   *)
(* is left and frees the last node; main() then asserts that every node    *)
(* made was deleted.                                                       *)
(*                                                                         *)
(* As in RefCountQueue a retry loop that computes its new value afresh is  *)
(* its successful round.  ref_counter is the number of nodes in live.      *)
(***************************************************************************)
EXTENDS Integers, Sequences, FiniteSets

CONSTANTS
    Threads,
    Main,        \* the thread that runs the destructor
    Addr,        \* addresses a Node may occupy
    Null,
    Value,
    NoValue,     \* the empty unique_ptr
    Calls,       \* what the threads may be asked to do
    MaxExternal  \* bound: how far failing pops may drive an external_count

Call == [op : {"push"}, value : Value] \cup [op : {"pop"}]
Push(v) == [op |-> "push", value |-> v]
Pop == [op |-> "pop"]

CountedNodePtr == [external_count : Nat, ptr : Addr \cup {Null}]
Counted(count, p) == [external_count |-> count, ptr |-> p]
NullPtr == Counted(0, Null)

(* A thread holds two references at most, and internal_count tells fewer    *)
(* than 2^30 apart.                                                         *)
ASSUME ThreadsAssumption ==
    IsFiniteSet(Threads) /\ 2 * Cardinality(Threads) < 2^30
ASSUME MainAssumption == Main \in Threads
ASSUME NullAssumption == Null \notin Addr
ASSUME ValueAssumption == NoValue \notin Value
ASSUME CallsAssumption == Calls \subseteq [Threads -> Seq(Call)]
(* Each Push() allocates its own value (line 127).                          *)
ASSUME DistinctAssumption ==
    \A script \in Calls : \A t, u \in Threads :
        \A i \in DOMAIN script[t], j \in DOMAIN script[u] :
            /\ script[t][i].op = "push" /\ script[u][j].op = "push"
            /\ script[t][i].value = script[u][j].value
            => t = u /\ i = j
ASSUME MaxExternalAssumption == MaxExternal \in Nat

VARIABLES
    head, tail, data, next, internal_count, external_counters, live,
    pc, todo,
    new_next,    \* local of Push()
    old_ptr,     \* tail_copy in Push(), head_copy in Pop(): a guard
    old_next,    \* next_copy in Pop(): a guard; in Push() what tail is moved to
    unlinked,    \* the counted pointer taken off tail, or off a node's next
    taken,       \* local res of Pop()
    results,     \* what the pops of each thread returned, oldest first
    destructor   \* how far ~LockFreeQueue() is

nodeVars  == <<data, next, internal_count, external_counters, live>>
localVars == <<new_next, old_ptr, old_next, unlinked, taken>>
vars == <<head, tail, nodeVars, pc, todo, localVars, results, destructor>>

PushPc == {"push_guard", "push_data", "push_link", "push_help", "push_tail",
           "push_help_tail", "push_free", "push_help_free", "push_release",
           "push_help_release"}
PopPc == {"pop_guard", "pop_empty", "pop_guard_next", "pop_move", "pop_take", "pop_unlink",
          "pop_free_head", "pop_free_next", "pop_release_next", "pop_release",
          "pop_fail_release_next", "pop_fail_release"}
Pc == PushPc \cup PopPc \cup {"idle"}

(* The constructor has freed one of the dummy's three external counters.    *)
Init ==
    \E dummy \in Addr :
        /\ head = Counted(1, dummy)
        /\ tail = Counted(1, dummy)
        /\ data = [n \in Addr |-> NoValue]
        /\ next = [n \in Addr |-> NullPtr]
        /\ internal_count = [n \in Addr |-> 0]
        /\ external_counters = [n \in Addr |-> IF n = dummy THEN 2 ELSE 3]
        /\ live = {dummy}
        /\ pc = [t \in Threads |-> "idle"]
        /\ todo \in Calls
        /\ new_next = [t \in Threads |-> NullPtr]
        /\ old_ptr = [t \in Threads |-> NullPtr]
        /\ old_next = [t \in Threads |-> NullPtr]
        /\ unlinked = [t \in Threads |-> NullPtr]
        /\ taken = [t \in Threads |-> NoValue]
        /\ results = [t \in Threads |-> <<>>]
        /\ destructor = "waiting"

Goto(t, from, to) ==
    /\ pc[t] = from
    /\ pc' = [pc EXCEPT ![t] = to]

(* A 30 bit signed and a 2 bit unsigned field.                              *)
InternalCounts == -(2^29) .. (2^29 - 1)
AsSigned30(i) == ((i + 2^29) % (2^30)) - 2^29
AsUnsigned2(i) == i % 4

(* Mutant: a node is deleted as soon as no counted pointer leads to it.     *)
SettleEarly(n, references, counters) ==
    LET internal == AsSigned30(internal_count[n] + references)
        external == AsUnsigned2(external_counters[n] + counters)
    IN  /\ internal_count' = [internal_count EXCEPT ![n] = internal]
        /\ external_counters' = [external_counters EXCEPT ![n] = external]
        /\ live' = IF external = 0 THEN live \ {n} ELSE live
        /\ UNCHANGED <<data, next>>

(* An update of NodeCounter that deletes the node when both counts are 0.   *)
Settle(n, references, counters) ==
    LET internal == AsSigned30(internal_count[n] + references)
        external == AsUnsigned2(external_counters[n] + counters)
    IN  /\ internal_count' = [internal_count EXCEPT ![n] = internal]
        /\ external_counters' = [external_counters EXCEPT ![n] = external]
        /\ live' = IF internal = 0 /\ external = 0 THEN live \ {n} ELSE live
        /\ UNCHANGED <<data, next>>

ReleaseGuard(copied) == Settle(copied.ptr, -1, 0)
(* Mutant: the reference the pointer itself started with is counted too.    *)
FreeExternalCounterOffByOne(old) == Settle(old.ptr, old.external_count, -1)

FreeExternalCounter(old) == Settle(old.ptr, old.external_count - 1, -1)

Return(t) ==
    /\ pc' = [pc EXCEPT ![t] = "idle"]
    /\ todo' = [todo EXCEPT ![t] = Tail(@)]
    /\ new_next' = [new_next EXCEPT ![t] = NullPtr]
    /\ old_ptr' = [old_ptr EXCEPT ![t] = NullPtr]
    /\ old_next' = [old_next EXCEPT ![t] = NullPtr]
    /\ unlinked' = [unlinked EXCEPT ![t] = NullPtr]
    /\ taken' = [taken EXCEPT ![t] = NoValue]

Constructed(n) ==
    /\ live' = live \cup {n}
    /\ data' = [data EXCEPT ![n] = NoValue]
    /\ internal_count' = [internal_count EXCEPT ![n] = 0]
    /\ external_counters' = [external_counters EXCEPT ![n] = 3]

-----------------------------------------------------------------------------
(* Push()                                                                   *)

PushCall(t) ==
    /\ todo[t] # <<>>
    /\ Head(todo[t]).op = "push"
    /\ Goto(t, "idle", "push_guard")
    /\ \E n \in Addr \ live :
          /\ Constructed(n)
          /\ next' = [next EXCEPT ![n] = NullPtr]
          /\ new_next' = [new_next EXCEPT ![t] = Counted(1, n)]
    /\ UNCHANGED <<head, tail, todo, old_ptr, old_next, unlinked, taken, results, destructor>>

PushGuard(t) ==
    /\ Goto(t, "push_guard", "push_data")
    /\ tail' = [tail EXCEPT !.external_count = @ + 1]
    /\ old_ptr' = [old_ptr EXCEPT ![t] = tail']
    /\ UNCHANGED <<head, nodeVars, todo, new_next, old_next, unlinked, taken, results,
                   destructor>>

PushData(t) ==
    LET node == old_ptr[t].ptr
        free == data[node] = NoValue
    IN  /\ Goto(t, "push_data", IF free THEN "push_link" ELSE "push_help")
        /\ data' = IF free THEN [data EXCEPT ![node] = Head(todo[t]).value] ELSE data
        /\ UNCHANGED <<head, tail, next, internal_count, external_counters, live, todo,
                       localVars, results, destructor>>

(* Lines 138-143.  A node that was popped has {1, nullptr} for its next, to *)
(* which nothing can be linked any more.                                    *)
PushLink(t) ==
    LET node == old_ptr[t].ptr
        mine == new_next[t]
        free == next[node] = NullPtr
    IN  /\ Goto(t, "push_link", "push_tail")
        /\ next' = IF free THEN [next EXCEPT ![node] = mine] ELSE next
        /\ live' = IF free THEN live ELSE live \ {mine.ptr}
        /\ old_next' = [old_next EXCEPT ![t] = IF free THEN mine ELSE next[node]]
        /\ UNCHANGED <<head, tail, data, internal_count, external_counters, todo, new_next,
                       old_ptr, unlinked, taken, results, destructor>>

(* Lines 148-153: the helper gives its node away and makes another.         *)
PushHelpLink(t) ==
    /\ Goto(t, "push_help", "push_help_tail")
    /\ next[old_ptr[t].ptr] = NullPtr
    /\ \E n \in Addr \ live :
          /\ Constructed(n)
          /\ next' = [next EXCEPT ![n] = NullPtr, ![old_ptr[t].ptr] = new_next[t]]
          /\ new_next' = [new_next EXCEPT ![t].ptr = n]
    /\ old_next' = [old_next EXCEPT ![t] = new_next[t]]
    /\ UNCHANGED <<head, tail, todo, old_ptr, unlinked, taken, results, destructor>>

PushHelpLinked(t) ==
    /\ Goto(t, "push_help", "push_help_tail")
    /\ next[old_ptr[t].ptr] # NullPtr
    /\ old_next' = [old_next EXCEPT ![t] = next[old_ptr[t].ptr]]
    /\ UNCHANGED <<head, tail, nodeVars, todo, new_next, old_ptr, unlinked, taken, results,
                   destructor>>

SetNewTail(t, from, moved, overtaken) ==
    LET same == tail.ptr = old_ptr[t].ptr
    IN  /\ Goto(t, from, IF same THEN moved ELSE overtaken)
        /\ tail' = IF same THEN Counted(1, old_next[t].ptr) ELSE tail
        /\ unlinked' = IF same THEN [unlinked EXCEPT ![t] = tail] ELSE unlinked
        /\ UNCHANGED <<head, nodeVars, todo, new_next, old_ptr, old_next, taken, results,
                       destructor>>

PushTail(t) == SetNewTail(t, "push_tail", "push_free", "push_release")
PushHelpTail(t) == SetNewTail(t, "push_help_tail", "push_help_free", "push_help_release")

PushFree(t) ==
    /\ \/ Goto(t, "push_free", "push_release")
       \/ Goto(t, "push_help_free", "push_help_release")
    /\ FreeExternalCounter(unlinked[t])
    /\ unlinked' = [unlinked EXCEPT ![t] = NullPtr]
    /\ UNCHANGED <<head, tail, todo, new_next, old_ptr, old_next, taken, results, destructor>>

PushHelpRelease(t) ==
    /\ Goto(t, "push_help_release", "push_guard")
    /\ ReleaseGuard(old_ptr[t])
    /\ UNCHANGED <<head, tail, todo, localVars, results, destructor>>

PushReturn(t) ==
    /\ pc[t] = "push_release"
    /\ ReleaseGuard(old_ptr[t])
    /\ Return(t)
    /\ UNCHANGED <<head, tail, results, destructor>>

-----------------------------------------------------------------------------
(* Pop()                                                                    *)

PopCall(t) ==
    /\ todo[t] # <<>>
    /\ Head(todo[t]).op = "pop"
    /\ Goto(t, "idle", "pop_guard")
    /\ UNCHANGED <<head, tail, nodeVars, todo, localVars, results, destructor>>

(* The bound of RefCountQueue: see there.                                   *)
WithinBound(t) ==
    \/ head.external_count < MaxExternal
    \/ \A u \in Threads \ {t} : pc[u] \in PopPc => old_ptr[u] # head

PopGuard(t) ==
    /\ WithinBound(t)
    /\ Goto(t, "pop_guard", "pop_empty")
    /\ head' = [head EXCEPT !.external_count = @ + 1]
    /\ old_ptr' = [old_ptr EXCEPT ![t] = head']
    /\ UNCHANGED <<tail, nodeVars, todo, new_next, old_next, unlinked, taken, results,
                   destructor>>

PopCheckEmpty(t) ==
    /\ Goto(t, "pop_empty",
            IF old_ptr[t].ptr = tail.ptr THEN "pop_release" ELSE "pop_guard_next")
    /\ UNCHANGED <<head, tail, nodeVars, todo, localVars, results, destructor>>

(* The constructor of next_copy: a null pointer is copied but not counted.  *)
PopGuardNext(t) ==
    LET node == old_ptr[t].ptr
        counted == [next[node] EXCEPT !.external_count = @ + 1]
    IN  /\ pc[t] = "pop_guard_next"
        /\ IF next[node].ptr = Null
           THEN /\ pc' = [pc EXCEPT ![t] = "pop_fail_release"]
                /\ UNCHANGED <<next, old_next>>
           ELSE /\ pc' = [pc EXCEPT ![t] = "pop_move"]
                /\ next' = [next EXCEPT ![node] = counted]
                /\ old_next' = [old_next EXCEPT ![t] = counted]
        /\ UNCHANGED <<head, tail, data, internal_count, external_counters, live, todo,
                       new_next, old_ptr, unlinked, taken, results, destructor>>

(* Mutant: the head is moved with a store.                                  *)
PopMoveByStore(t) ==
    /\ Goto(t, "pop_move", "pop_take")
    /\ head' = Counted(1, old_next[t].ptr)
    /\ UNCHANGED <<tail, nodeVars, todo, localVars, results, destructor>>

PopMove(t) ==
    /\ Goto(t, "pop_move",
            IF head = old_ptr[t] THEN "pop_take" ELSE "pop_fail_release_next")
    /\ head' = IF head = old_ptr[t] THEN Counted(1, old_next[t].ptr) ELSE head
    /\ UNCHANGED <<tail, nodeVars, todo, localVars, results, destructor>>

PopTake(t) ==
    /\ Goto(t, "pop_take", "pop_unlink")
    /\ taken' = [taken EXCEPT ![t] = data[old_ptr[t].ptr]]
    /\ data' = [data EXCEPT ![old_ptr[t].ptr] = NoValue]
    /\ UNCHANGED <<head, tail, next, internal_count, external_counters, live, todo, new_next,
                   old_ptr, old_next, unlinked, results, destructor>>

PopUnlink(t) ==
    /\ Goto(t, "pop_unlink", "pop_free_head")
    /\ unlinked' = [unlinked EXCEPT ![t] = next[old_ptr[t].ptr]]
    /\ next' = [next EXCEPT ![old_ptr[t].ptr] = Counted(1, Null)]
    /\ UNCHANGED <<head, tail, data, internal_count, external_counters, live, todo, new_next,
                   old_ptr, old_next, taken, results, destructor>>

PopFreeHead(t) ==
    /\ Goto(t, "pop_free_head", "pop_free_next")
    /\ FreeExternalCounter(old_ptr[t])
    /\ UNCHANGED <<head, tail, todo, localVars, results, destructor>>

PopFreeNext(t) ==
    /\ Goto(t, "pop_free_next", "pop_release_next")
    /\ FreeExternalCounter(unlinked[t])
    /\ UNCHANGED <<head, tail, todo, localVars, results, destructor>>

(* The guards are destroyed in reverse order, before a return as before     *)
(* another round.                                                           *)
PopReleaseNext(t) ==
    /\ \/ Goto(t, "pop_release_next", "pop_release")
       \/ Goto(t, "pop_fail_release_next", "pop_fail_release")
    /\ ReleaseGuard(old_next[t])
    /\ UNCHANGED <<head, tail, todo, localVars, results, destructor>>

PopRetry(t) ==
    /\ Goto(t, "pop_fail_release", "pop_guard")
    /\ ReleaseGuard(old_ptr[t])
    /\ UNCHANGED <<head, tail, todo, localVars, results, destructor>>

PopReturn(t) ==
    /\ pc[t] = "pop_release"
    /\ ReleaseGuard(old_ptr[t])
    /\ results' = [results EXCEPT ![t] = Append(@, taken[t])]
    /\ Return(t)
    /\ UNCHANGED <<head, tail, destructor>>

-----------------------------------------------------------------------------
(* ~LockFreeQueue(), once all threads are joined                            *)

Idle == \A t \in Threads : pc[t] = "idle" /\ todo[t] = <<>>

DestructorStarts ==
    /\ destructor = "waiting"
    /\ Idle
    /\ destructor' = "popping"
    /\ todo' = [todo EXCEPT ![Main] = <<Pop>>]
    /\ UNCHANGED <<head, tail, nodeVars, pc, localVars, results>>

DestructorPopped ==
    /\ destructor = "popping"
    /\ Idle
    /\ IF results[Main][Len(results[Main])] = NoValue
       THEN destructor' = "free_head" /\ UNCHANGED todo
       ELSE todo' = [todo EXCEPT ![Main] = <<Pop>>] /\ UNCHANGED destructor
    /\ UNCHANGED <<head, tail, nodeVars, pc, localVars, results>>

DestructorFrees ==
    /\ \/ /\ destructor = "free_head"
          /\ destructor' = "free_tail"
          /\ FreeExternalCounter(head)
       \/ /\ destructor = "free_tail"
          /\ destructor' = "end"
          /\ FreeExternalCounter(tail)
    /\ UNCHANGED <<head, tail, pc, todo, localVars, results>>

-----------------------------------------------------------------------------
PushStep(t) ==
    \/ PushCall(t) \/ PushGuard(t) \/ PushData(t) \/ PushLink(t) \/ PushHelpLink(t)
    \/ PushHelpLinked(t) \/ PushTail(t) \/ PushHelpTail(t) \/ PushFree(t)
    \/ PushHelpRelease(t) \/ PushReturn(t)

PopStep(t) ==
    \/ PopCall(t) \/ PopGuard(t) \/ PopCheckEmpty(t) \/ PopGuardNext(t) \/ PopMove(t)
    \/ PopTake(t) \/ PopUnlink(t) \/ PopFreeHead(t) \/ PopFreeNext(t) \/ PopReleaseNext(t)
    \/ PopRetry(t) \/ PopReturn(t)

Ended == destructor = "end"

Next ==
    \/ \E t \in Threads : PushStep(t) \/ PopStep(t)
    \/ DestructorStarts \/ DestructorPopped \/ DestructorFrees
    \/ Ended /\ UNCHANGED vars

Spec == Init /\ [][Next]_vars
-----------------------------------------------------------------------------
(* Properties.                                                              *)

(* The head guard, whose count the thread has not given back yet.           *)
GuardsOld(t) == pc[t] \notin {"idle", "push_guard", "pop_guard"}

(* The next guard of Pop().                                                 *)
GuardsNext(t) ==
    pc[t] \in {"pop_move", "pop_take", "pop_unlink", "pop_free_head", "pop_free_next",
               "pop_release_next", "pop_fail_release_next"}

(* A pointer taken off the queue whose external count is still to be added. *)
Unsettled(t) ==
    CASE pc[t] \in {"push_free", "push_help_free", "pop_free_next"} -> {unlinked[t]}
      [] pc[t] \in {"pop_take", "pop_unlink"} -> {old_ptr[t]}
      [] pc[t] = "pop_free_head" -> {old_ptr[t], unlinked[t]}
      [] OTHER -> {}

(* The values have their types; the counts are those of the bit fields of   *)
(* NodeCounter.                                                             *)
TypeOK ==
    /\ head \in CountedNodePtr
    /\ tail \in CountedNodePtr
    /\ next \in [Addr -> CountedNodePtr]
    /\ data \in [Addr -> Value \cup {NoValue}]
    /\ internal_count \in [Addr -> InternalCounts]
    /\ external_counters \in [Addr -> 0 .. 3]
    /\ live \subseteq Addr
    /\ pc \in [Threads -> Pc]
    /\ todo \in [Threads -> Seq(Call)]
    /\ new_next \in [Threads -> CountedNodePtr]
    /\ old_ptr \in [Threads -> CountedNodePtr]
    /\ old_next \in [Threads -> CountedNodePtr]
    /\ unlinked \in [Threads -> CountedNodePtr]
    /\ taken \in [Threads -> Value \cup {NoValue}]
    /\ results \in [Threads -> Seq(Value \cup {NoValue})]
    /\ destructor \in {"waiting", "popping", "free_head", "free_tail", "end"}

(* Nobody ever reaches a deleted node: not through a guard, not through a   *)
(* pointer it has yet to settle, not from the head or the tail, which the   *)
(* destructor settles last.                                                 *)
NoUseAfterFree ==
    /\ TypeOK
    /\ \A t \in Threads :
          /\ GuardsOld(t) => old_ptr[t].ptr \in live
          /\ GuardsNext(t) => old_next[t].ptr \in live
          /\ \A pointer \in Unsettled(t) : pointer.ptr \in live
    /\ destructor \notin {"free_tail", "end"} => head.ptr \in live
    /\ destructor # "end" => tail.ptr \in live

(* main() asserts it (line 228): when the queue is destroyed every node     *)
(* that was made has been deleted, whoever of the threads that shared it    *)
(* was the last to give its count back.                                     *)
AllDeleted == Ended => live = {}

Popped(t) == {results[t][i] : i \in DOMAIN results[t]} \ {NoValue}

(* No value is returned by two pops, and a pop that moved the head has a    *)
(* value to return, although a slow pusher may hold the node.               *)
PoppedOnce ==
    /\ \A t, u \in Threads : t # u => Popped(t) \cap Popped(u) = {}
    /\ \A t \in Threads : \A i, j \in DOMAIN results[t] :
          results[t][i] = results[t][j] => i = j \/ results[t][i] = NoValue
    /\ \A t \in Threads : pc[t] = "pop_free_head" => taken[t] # NoValue
=============================================================================
