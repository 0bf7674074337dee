--------------------------- MODULE ThreadSafeQueue ---------------------------
(***************************************************************************)
(* The class ThreadSafeQueue of src/thread-safe-queue.cpp and the main()   *)
(* that drives it: a Michael-Scott queue whose nodes are reclaimed through *)
(* HazardPointer.  Every thread runs its script of calls, then             *)
(* cleanup_locals(); once all are joined the destructor frees what is      *)
(* left.  operator new may return any address that is not allocated, so    *)
(* an address comes back as soon as it has been deleted.                   *)
(***************************************************************************)
EXTENDS HazardPointer, Sequences

CONSTANTS
    Value,      \* the ints that are enqueued
    Calls,      \* what main() may ask for: per thread, the calls it makes
    WeakFails   \* whether compare_exchange_weak may fail spuriously

Call == [op : {"enqueue"}, value : Value] \cup [op : {"dequeue"}]
Enq(v) == [op |-> "enqueue", value |-> v]
Deq == [op |-> "dequeue"]
Empty == -1                       \* what dequeue() returns on an empty queue
Unset == 0                        \* stored_value of a new Element

ASSUME ValueAssumption == Value \subseteq Nat \ {0}
ASSUME CallsAssumption == Calls \subseteq [Threads -> Seq(Call)]
ASSUME WeakFailsAssumption == WeakFails \in BOOLEAN

VARIABLES
    head, tail,
    next,          \* Element::next
    stored_value,  \* Element::stored_value
    pc,            \* where each thread is inside ThreadSafeQueue
    todo,          \* the calls a thread has still to make
    new_element,   \* local of enqueue()
    node,          \* local t of enqueue(), h of dequeue()
    succ,          \* local t_next of enqueue(), h_next of dequeue()
    result,        \* what the last dequeue() returned
    to_delete      \* local of the destructor

queueVars == <<head, tail, next, stored_value>>
callVars  == <<pc, todo, new_element, node, succ, result, to_delete>>
vars == <<hpVars, queueVars, callVars>>

EnqueuePc == {"enq_protect", "enq_next", "enq_help", "enq_link", "enq_swing"}
DequeuePc == {"deq_protect_head", "deq_protect_next", "deq_check", "deq_tail",
              "deq_help", "deq_move", "deq_remove"}
Pc == EnqueuePc \cup DequeuePc \cup {"idle", "cleanup", "joined", "destroying", "destroyed"}

Init ==
    \E dummy \in Addr :
        /\ HPInit
        /\ live = {dummy}
        /\ head = dummy
        /\ tail = dummy
        /\ next = [a \in Addr |-> Null]
        /\ stored_value = [a \in Addr |-> Unset]
        /\ pc = [t \in Threads |-> "idle"]
        /\ todo \in Calls
        /\ new_element = [t \in Threads |-> Null]
        /\ node = [t \in Threads |-> Null]
        /\ succ = [t \in Threads |-> Null]
        /\ result = [t \in Threads |-> Empty]
        /\ to_delete = Null

Goto(t, from, to) ==
    /\ pc[t] = from
    /\ pc' = [pc EXCEPT ![t] = to]

(* A weak compare-exchange of a cell holding actual: succeeded tells        *)
(* whether it stored the new value.                                         *)
Exchanges(actual, expected, succeeded) ==
    \/ succeeded /\ actual = expected
    \/ ~succeeded /\ (actual # expected \/ WeakFails)

-----------------------------------------------------------------------------
(* enqueue() *)

Enqueue(t) ==
    /\ Goto(t, "idle", "enq_protect")
    /\ todo[t] # <<>>
    /\ Head(todo[t]).op = "enqueue"
    /\ \E e \in Addr \ live :
          /\ stage' = [stage EXCEPT ![t] = "enter"]
          /\ slot' = [slot EXCEPT ![t] = 0]
          /\ live' = live \cup {e}
          /\ next' = [next EXCEPT ![e] = Null]
          /\ stored_value' = [stored_value EXCEPT ![e] = Head(todo[t]).value]
          /\ new_element' = [new_element EXCEPT ![t] = e]
    /\ UNCHANGED <<stored_pointers, pointers_to_delete, protect_count, free_count,
                   old_value, registered, cursor, head, tail, todo, node, succ,
                   result, to_delete>>

EnqueueProtected(t) ==
    /\ Goto(t, "enq_protect", "enq_next")
    /\ Step(t, "protected", "out")
    /\ node' = [node EXCEPT ![t] = old_value[t]]
    /\ UNCHANGED <<sharedVars, localVars, queueVars, todo, new_element, succ,
                   result, to_delete>>

(* Mutant: the test of line 121 is inverted.                                *)
EnqueueNextInverted(t) ==
    /\ Goto(t, "enq_next", IF next[node[t]] # Null THEN "enq_link" ELSE "enq_help")
    /\ succ' = [succ EXCEPT ![t] = next[node[t]]]
    /\ UNCHANGED <<hpVars, queueVars, todo, new_element, node, result, to_delete>>

EnqueueNext(t) ==
    /\ Goto(t, "enq_next", IF next[node[t]] = Null THEN "enq_link" ELSE "enq_help")
    /\ succ' = [succ EXCEPT ![t] = next[node[t]]]
    /\ UNCHANGED <<hpVars, queueVars, todo, new_element, node, result, to_delete>>

EnqueueHelp(t) ==
    /\ Goto(t, "enq_help", "enq_protect")
    /\ CallProtect(t, 0)
    /\ \E ok \in BOOLEAN :
          /\ Exchanges(tail, node[t], ok)
          /\ tail' = IF ok THEN succ[t] ELSE tail
    /\ UNCHANGED <<head, next, stored_value, todo, new_element, node, succ,
                   result, to_delete>>

(* Mutant: the Element is linked with a store.                              *)
EnqueueLinkByStore(t) ==
    /\ Goto(t, "enq_link", "enq_swing")
    /\ next' = [next EXCEPT ![node[t]] = new_element[t]]
    /\ UNCHANGED <<hpVars, head, tail, stored_value, todo, new_element, node, succ,
                   result, to_delete>>

EnqueueLink(t) ==
    /\ Goto(t, "enq_link", "enq_swing")
    /\ Exchanges(next[node[t]], Null, TRUE)
    /\ next' = [next EXCEPT ![node[t]] = new_element[t]]
    /\ UNCHANGED <<hpVars, head, tail, stored_value, todo, new_element, node, succ,
                   result, to_delete>>

EnqueueRetry(t) ==
    /\ Goto(t, "enq_link", "enq_protect")
    /\ Exchanges(next[node[t]], Null, FALSE)
    /\ CallProtect(t, 0)
    /\ UNCHANGED <<queueVars, todo, new_element, node, succ, result, to_delete>>

(* Mutant: tail is moved with a store.                                      *)
EnqueueSwingByStore(t) ==
    /\ Goto(t, "enq_swing", "idle")
    /\ tail' = new_element[t]
    /\ todo' = [todo EXCEPT ![t] = Tail(@)]
    /\ new_element' = [new_element EXCEPT ![t] = Null]
    /\ node' = [node EXCEPT ![t] = Null]
    /\ succ' = [succ EXCEPT ![t] = Null]
    /\ UNCHANGED <<hpVars, head, next, stored_value, result, to_delete>>

EnqueueSwing(t) ==
    /\ Goto(t, "enq_swing", "idle")
    /\ \E ok \in BOOLEAN :
          /\ Exchanges(tail, node[t], ok)
          /\ tail' = IF ok THEN new_element[t] ELSE tail
    /\ todo' = [todo EXCEPT ![t] = Tail(@)]
    /\ new_element' = [new_element EXCEPT ![t] = Null]
    /\ node' = [node EXCEPT ![t] = Null]
    /\ succ' = [succ EXCEPT ![t] = Null]
    /\ UNCHANGED <<hpVars, head, next, stored_value, result, to_delete>>

-----------------------------------------------------------------------------
(* dequeue() *)

Dequeue(t) ==
    /\ Goto(t, "idle", "deq_protect_head")
    /\ todo[t] # <<>>
    /\ Head(todo[t]).op = "dequeue"
    /\ CallProtect(t, 1)
    /\ UNCHANGED <<queueVars, todo, new_element, node, succ, result, to_delete>>

DequeueHeadProtected(t) ==
    /\ Goto(t, "deq_protect_head", "deq_protect_next")
    /\ stage[t] = "protected"
    /\ CallProtect(t, 2)
    /\ node' = [node EXCEPT ![t] = old_value[t]]
    /\ UNCHANGED <<queueVars, todo, new_element, succ, result, to_delete>>

DequeueNextProtected(t) ==
    /\ Goto(t, "deq_protect_next", "deq_check")
    /\ Step(t, "protected", "out")
    /\ succ' = [succ EXCEPT ![t] = old_value[t]]
    /\ UNCHANGED <<sharedVars, localVars, queueVars, todo, new_element, node,
                   result, to_delete>>

Return(t, value) ==
    /\ result' = [result EXCEPT ![t] = value]
    /\ todo' = [todo EXCEPT ![t] = Tail(@)]
    /\ node' = [node EXCEPT ![t] = Null]
    /\ succ' = [succ EXCEPT ![t] = Null]

DequeueRecheck(t) ==
    /\ node[t] = head
    /\ succ[t] # Null
    /\ Goto(t, "deq_check", "deq_tail")
    /\ UNCHANGED <<hpVars, queueVars, todo, new_element, node, succ, result, to_delete>>

DequeueStale(t) ==
    /\ node[t] # head
    /\ Goto(t, "deq_check", "deq_protect_head")
    /\ CallProtect(t, 1)
    /\ UNCHANGED <<queueVars, todo, new_element, node, succ, result, to_delete>>

DequeueEmpty(t) ==
    /\ node[t] = head
    /\ succ[t] = Null
    /\ Goto(t, "deq_check", "idle")
    /\ Return(t, Empty)
    /\ UNCHANGED <<hpVars, queueVars, new_element, to_delete>>

(* Mutant: head moves without a look at tail.                               *)
DequeueTailSkipped(t) ==
    /\ Goto(t, "deq_tail", "deq_move")
    /\ UNCHANGED <<hpVars, queueVars, todo, new_element, node, succ, result, to_delete>>

DequeueTail(t) ==
    /\ Goto(t, "deq_tail", IF node[t] = tail THEN "deq_help" ELSE "deq_move")
    /\ UNCHANGED <<hpVars, queueVars, todo, new_element, node, succ, result, to_delete>>

DequeueHelp(t) ==
    /\ Goto(t, "deq_help", "deq_protect_head")
    /\ CallProtect(t, 1)
    /\ \E ok \in BOOLEAN :
          /\ Exchanges(tail, node[t], ok)
          /\ tail' = IF ok THEN succ[t] ELSE tail
    /\ UNCHANGED <<head, next, stored_value, todo, new_element, node, succ,
                   result, to_delete>>

(* Mutant: head is moved with a store.                                      *)
DequeueMoveByStore(t) ==
    /\ Goto(t, "deq_move", "deq_remove")
    /\ head' = succ[t]
    /\ CallRemove(t, node[t])
    /\ UNCHANGED <<tail, next, stored_value, todo, new_element, node, succ,
                   result, to_delete>>

(* The successful exchange of head with the insertion into the thread's own *)
(* pointers_to_delete, which no other thread sees.                          *)
DequeueMove(t) ==
    /\ Goto(t, "deq_move", "deq_remove")
    /\ Exchanges(head, node[t], TRUE)
    /\ head' = succ[t]
    /\ CallRemove(t, node[t])
    /\ UNCHANGED <<tail, next, stored_value, todo, new_element, node, succ,
                   result, to_delete>>

DequeueRetry(t) ==
    /\ Goto(t, "deq_move", "deq_protect_head")
    /\ Exchanges(head, node[t], FALSE)
    /\ CallProtect(t, 1)
    /\ UNCHANGED <<queueVars, todo, new_element, node, succ, result, to_delete>>

DequeueReturn(t) ==
    /\ Goto(t, "deq_remove", "idle")
    /\ Step(t, "removed", "out")
    /\ Return(t, stored_value[succ[t]])
    /\ UNCHANGED <<sharedVars, localVars, queueVars, new_element, to_delete>>

-----------------------------------------------------------------------------
(* cleanup_locals() at the end of each thread, the joins, the destructor    *)

CleanupLocals(t) ==
    /\ Goto(t, "idle", "cleanup")
    /\ todo[t] = <<>>
    /\ CallCleanup(t)
    /\ UNCHANGED <<queueVars, todo, new_element, node, succ, result, to_delete>>

Join(t) ==
    /\ Goto(t, "cleanup", "joined")
    /\ Step(t, "removed", "out")
    /\ UNCHANGED <<sharedVars, localVars, queueVars, todo, new_element, node, succ,
                   result, to_delete>>

Destroy ==
    /\ \A t \in Threads : pc[t] = "joined"
    /\ pc' = [t \in Threads |-> "destroying"]
    /\ to_delete' = head
    /\ UNCHANGED <<hpVars, queueVars, todo, new_element, node, succ, result>>

DestroyNode ==
    /\ \A t \in Threads : pc[t] = "destroying"
    /\ to_delete # Null
    /\ live' = live \ {to_delete}
    /\ to_delete' = next[to_delete]
    /\ UNCHANGED <<stored_pointers, pointers_to_delete, protect_count, free_count,
                   stage, localVars, queueVars, pc, todo, new_element, node, succ,
                   result>>

Destroyed ==
    /\ \A t \in Threads : pc[t] = "destroying"
    /\ to_delete = Null
    /\ pc' = [t \in Threads |-> "destroyed"]
    /\ UNCHANGED <<hpVars, queueVars, todo, new_element, node, succ, result, to_delete>>

-----------------------------------------------------------------------------
(* The atomic whose value protect() reads, by the call being made.          *)
Protected(t) ==
    CASE pc[t] = "enq_protect"      -> tail
      [] pc[t] = "deq_protect_head" -> head
      [] pc[t] = "deq_protect_next" -> next[node[t]]

HazardStep(t) ==
    /\ \/ /\ pc[t] \in {"enq_protect", "deq_protect_head", "deq_protect_next"}
          /\ ProtectStep(t, Protected(t))
       \/ RemoveStep(t)
    /\ UNCHANGED <<queueVars, callVars>>

EnqueueStep(t) ==
    \/ Enqueue(t) \/ EnqueueProtected(t) \/ EnqueueNext(t) \/ EnqueueHelp(t)
    \/ EnqueueLink(t) \/ EnqueueRetry(t) \/ EnqueueSwing(t)

DequeueStep(t) ==
    \/ Dequeue(t) \/ DequeueHeadProtected(t) \/ DequeueNextProtected(t)
    \/ DequeueRecheck(t) \/ DequeueStale(t) \/ DequeueEmpty(t) \/ DequeueTail(t)
    \/ DequeueHelp(t) \/ DequeueMove(t) \/ DequeueRetry(t) \/ DequeueReturn(t)

ThreadStep(t) ==
    HazardStep(t) \/ EnqueueStep(t) \/ DequeueStep(t) \/ CleanupLocals(t) \/ Join(t)

DestructorStep == Destroy \/ DestroyNode \/ Destroyed

Finished == (\A t \in Threads : pc[t] = "destroyed") /\ UNCHANGED vars

Next == (\E t \in Threads : ThreadStep(t)) \/ DestructorStep \/ Finished

Spec == Init /\ [][Next]_vars
-----------------------------------------------------------------------------
(* Properties.                                                              *)

TypeOK ==
    /\ HPTypeOK
    /\ head \in Addr
    /\ tail \in Addr
    /\ next \in [Addr -> Addr \cup {Null}]
    /\ stored_value \in [Addr -> Value \cup {Unset}]
    /\ pc \in [Threads -> Pc]
    /\ todo \in [Threads -> Seq(Call)]
    /\ new_element \in [Threads -> Addr \cup {Null}]
    /\ node \in [Threads -> Addr \cup {Null}]
    /\ succ \in [Threads -> Addr \cup {Null}]
    /\ result \in [Threads -> Value \cup {Unset, Empty}]
    /\ to_delete \in Addr \cup {Null}

(* The Element whose members the next step of t in the code reads or may    *)
(* write, if any (lines 120, 126, 138, 154 and 168).                        *)
Dereferenced(t) ==
    IF \/ pc[t] \in {"enq_next", "enq_link"}
       \/ pc[t] = "deq_protect_next" /\ stage[t] \in {"load", "reload"}
    THEN {node[t]}
    ELSE IF pc[t] = "deq_remove" /\ stage[t] = "removed" THEN {succ[t]}
    ELSE IF pc[t] = "destroying" THEN {to_delete} \ {Null}
    ELSE {}

(* No call ever touches an Element that has been deleted: what a thread     *)
(* reads through was protected, or is still in the queue, although other    *)
(* threads retire and delete nodes at any moment.                           *)
NoUseAfterFree == \A t \in Threads : Dereferenced(t) \subseteq live

(* The Elements met from the given one on, and those met as a set.          *)
Walk(first, link) ==
    LET at[i \in 0 .. Cardinality(Addr)] ==
            IF i = 0 THEN first
            ELSE IF at[i - 1] = Null THEN Null ELSE link[at[i - 1]]
    IN  at

Chain(first) ==
    LET at == Walk(first, next) IN {at[i] : i \in 0 .. Cardinality(Addr)} \ {Null}

Destructing == \E t \in Threads : pc[t] \in {"destroying", "destroyed"}

InQueue == Chain(IF Destructing THEN to_delete ELSE head)

Private(t) == IF pc[t] \in EnqueuePc \ {"enq_swing"} THEN {new_element[t]} ELSE {}

(* Every allocated Element belongs to exactly one place: the queue, the     *)
(* pointers_to_delete of one thread, or the enqueue() that is about to link *)
(* it.  So nothing is deleted twice or leaks while the threads run, and     *)
(* after the destructor only what some thread still held in its             *)
(* pointers_to_delete is left.                                              *)
MemoryPartition ==
    /\ live = InQueue \cup UNION {pointers_to_delete[t] \cup Private(t) : t \in Threads}
    /\ \A t \in Threads :
          /\ pointers_to_delete[t] \cap InQueue = {}
          /\ Private(t) \cap (InQueue \cup pointers_to_delete[t]) = {}
          /\ \A u \in Threads \ {t} :
                /\ pointers_to_delete[t] \cap (pointers_to_delete[u] \cup Private(u)) = {}
                /\ Private(t) \cap Private(u) = {}

(* tail may lag behind the last Element but never falls out of the queue:   *)
(* head does not overtake it (the test of line 148).                        *)
TailInQueue == ~Destructing => tail \in Chain(head)

(* head and tail only ever move to the successor of the Element they point  *)
(* to.  A compare-exchange that succeeds on an address which was deleted    *)
(* and allocated again in the meantime would break this.                    *)
AdvanceByOne ==
    [][ /\ head' # head => head' = next[head]
        /\ tail' # tail => tail' = next[tail] ]_vars

(* real_remove() deletes an Element only while no slot holds it, although   *)
(* it read the slots one by one and long before (lines 68-80): the          *)
(* handshake lets no protect() publish in between.                          *)
DeletesOnlyUnhazarded ==
    [][ ~Destructing =>
          \A a \in live \ live' : \A i \in Slots : stored_pointers[i] # a ]_vars

-----------------------------------------------------------------------------
(* Fairness.                                                                *)

(* Every thread that can move moves eventually; the destructor runs.        *)
Fairness ==
    /\ \A t \in Threads : WF_vars(ThreadStep(t))
    /\ WF_vars(DestructorStep)

AllReturn == \A t \in Threads : pc[t] = "destroyed"

(* If a waiting remover is lucky, that is, if one of its loads of            *)
(* protect_count sees 0 when it is 0 again and again, then every call       *)
(* returns, every thread is joined and the destructor ends.                 *)
LuckyRemovers == \A t \in Threads : SF_vars(AwaitProtectors(t) /\ HazardStep(t))
Termination == LuckyRemovers => <>AllReturn

(* If the program does not end, it is because a real_remove() waits for     *)
(* protect_count to become 0 for ever: nothing else in the class blocks.    *)
OnlyRemoversStarve == <>AllReturn \/ \E t \in Threads : <>[](stage[t] = "wait")

(* As long as the threads take steps calls return, whichever threads they   *)
(* are: with finitely many calls, all of them do.  This is what README.md   *)
(* line 3 and the file's queue are called: lock-free.                       *)
Progress == WF_vars(Next)
LockFree == <>AllReturn
=============================================================================
