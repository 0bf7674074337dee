---------------------------- MODULE RefCountQueue ----------------------------
(***************************************************************************)
(* LockFreeQueue<T> of src/lock-free-queue-with-ref-counting.cpp, the      *)
(* queue that the thread pools of the repository copy.  A pointer carries  *)
(* the number of references taken through it (external_count), a node the  *)
(* number given back minus those settled (internal_count) and how many     *)
(* counted pointers still lead to it (external_counters).                  *)
(*                                                                         *)
(* A loop that retries a compare-exchange until it succeeds and computes   *)
(* its new value afresh is its successful round: the other rounds change   *)
(* nothing.  The bit fields keep their widths.                             *)
(***************************************************************************)
EXTENDS Integers, Sequences, FiniteSets

CONSTANTS
    Threads,
    Addr,        \* addresses a Node may occupy
    Null,
    Value,       \* what is pushed
    NoValue,     \* the empty unique_ptr
    Calls,       \* what the threads may be asked to do
    MaxExternal  \* bound: how far failing pops may drive an external_count

Call == [op : {"push"}, value : Value] \cup [op : {"pop"}]
Push(v) == [op |-> "push", value |-> v]
Pop == [op |-> "pop"]

CountedNodePtr == [external_count : Nat, ptr : Addr \cup {Null}]
Counted(count, p) == [external_count |-> count, ptr |-> p]
NullPtr == Counted(0, Null)
InternalWrap == 2^30
ExternalWrap == 4

(* Fewer threads than internal_count can count references.                  *)
ASSUME ThreadsAssumption ==
    IsFiniteSet(Threads) /\ Cardinality(Threads) < InternalWrap - 2
ASSUME AddrAssumption == IsFiniteSet(Addr)
ASSUME NullAssumption == Null \notin Addr
ASSUME ValueAssumption == NoValue \notin Value
ASSUME CallsAssumption == Calls \subseteq [Threads -> Seq(Call)]
(* Each push() allocates its own value (line 94).                           *)
ASSUME DistinctAssumption ==
    \A script \in Calls : \A t, u \in Threads :
        \A i \in DOMAIN script[t], j \in DOMAIN script[u] :
            /\ script[t][i].op = "push" /\ script[u][j].op = "push"
            /\ script[t][i].value = script[u][j].value
            => t = u /\ i = j
ASSUME MaxExternalAssumption == MaxExternal \in Nat

VARIABLES
    head, tail,         \* the atomics of the queue
    data, next,         \* per node
    internal_count, external_counters,
    live,               \* the nodes allocated
    first,              \* the node of the constructor
    pc, todo,
    new_next,           \* local of push()
    old_ptr,            \* local old_tail of push(), old_head of pop()
    target,             \* local: what push() moves tail to, what pop() moves head to
    taken,              \* local res of pop()
    results             \* what the pops of each thread returned, oldest first

nodeVars  == <<data, next, internal_count, external_counters, live>>
localVars == <<new_next, old_ptr, target, taken>>
vars == <<head, tail, nodeVars, first, pc, todo, localVars, results>>

PushPc == {"push_acquire", "push_data", "push_link", "push_help", "push_tail",
           "push_help_tail", "push_free", "push_release", "push_help_free",
           "push_help_release"}
PopPc == {"pop_acquire", "pop_empty", "pop_next", "pop_move", "pop_take", "pop_free",
          "pop_release", "pop_release_empty"}
Pc == PushPc \cup PopPc \cup {"idle"}

Init ==
    \E dummy \in Addr :
        /\ head = Counted(2, dummy)
        /\ tail = Counted(2, dummy)
        /\ data = [n \in Addr |-> NoValue]
        /\ next = [n \in Addr |-> NullPtr]
        /\ internal_count = [n \in Addr |-> 0]
        /\ external_counters = [n \in Addr |-> 2]
        /\ live = {dummy}
        /\ first = dummy
        /\ pc = [t \in Threads |-> "idle"]
        /\ todo \in Calls
        /\ new_next = [t \in Threads |-> NullPtr]
        /\ old_ptr = [t \in Threads |-> NullPtr]
        /\ target = [t \in Threads |-> NullPtr]
        /\ taken = [t \in Threads |-> NoValue]
        /\ results = [t \in Threads |-> <<>>]

Goto(t, from, to) ==
    /\ pc[t] = from
    /\ pc' = [pc EXCEPT ![t] = to]

(* The values of the node variables after new Node() at n.                  *)
NodeConstructed(n) ==
    /\ data' = [data EXCEPT ![n] = NoValue]
    /\ next' = [next EXCEPT ![n] = NullPtr]
    /\ internal_count' = [internal_count EXCEPT ![n] = 0]
    /\ external_counters' = [external_counters EXCEPT ![n] = 2]

(* Mutant: external_counters is not looked at.                              *)
SettleEarly(n, references, counters) ==
    LET internal == (internal_count[n] + references) % InternalWrap
        external == (external_counters[n] + counters) % ExternalWrap
    IN  /\ internal_count' = [internal_count EXCEPT ![n] = internal]
        /\ external_counters' = [external_counters EXCEPT ![n] = external]
        /\ live' = IF internal = 0 THEN live \ {n} ELSE live
        /\ UNCHANGED <<data, next>>

(* An update of NodeCounter that deletes the node when both counts are 0.   *)
Settle(n, references, counters) ==
    LET internal == (internal_count[n] + references) % InternalWrap
        external == (external_counters[n] + counters) % ExternalWrap
    IN  /\ internal_count' = [internal_count EXCEPT ![n] = internal]
        /\ external_counters' = [external_counters EXCEPT ![n] = external]
        /\ live' = IF internal = 0 /\ external = 0 THEN live \ {n} ELSE live
        /\ UNCHANGED <<data, next>>

ReleaseRef(n) == Settle(n, -1, 0)

(* Mutant: the reference of the caller itself is forgotten.                 *)
FreeExternalCounterOffByOne(old) == Settle(old.ptr, old.external_count - 1, -1)

FreeExternalCounter(old) == Settle(old.ptr, old.external_count - 2, -1)

Forget(t) ==
    /\ new_next' = [new_next EXCEPT ![t] = NullPtr]
    /\ old_ptr' = [old_ptr EXCEPT ![t] = NullPtr]
    /\ target' = [target EXCEPT ![t] = NullPtr]
    /\ taken' = [taken EXCEPT ![t] = NoValue]

-----------------------------------------------------------------------------
(* push()                                                                   *)

PushCall(t) ==
    /\ todo[t] # <<>>
    /\ Head(todo[t]).op = "push"
    /\ Goto(t, "idle", "push_acquire")
    /\ \E n \in Addr \ live :
          /\ live' = live \cup {n}
          /\ NodeConstructed(n)
          /\ new_next' = [new_next EXCEPT ![t] = Counted(1, n)]
    /\ UNCHANGED <<head, tail, first, todo, old_ptr, target, taken, results>>

PushAcquire(t) ==
    /\ Goto(t, "push_acquire", "push_data")
    /\ tail' = [tail EXCEPT !.external_count = @ + 1]
    /\ old_ptr' = [old_ptr EXCEPT ![t] = tail']
    /\ UNCHANGED <<head, nodeVars, first, todo, new_next, target, taken, results>>

PushData(t) ==
    LET node == old_ptr[t].ptr
        free == data[node] = NoValue
    IN  /\ Goto(t, "push_data", IF free THEN "push_link" ELSE "push_help")
        /\ data' = IF free THEN [data EXCEPT ![node] = Head(todo[t]).value] ELSE data
        /\ UNCHANGED <<head, tail, next, internal_count, external_counters, live, first,
                       todo, localVars, results>>

(* Mutant: the node that could not be linked is not deleted.                *)
PushLinkLeaky(t) ==
    LET node == old_ptr[t].ptr
        mine == new_next[t]
        free == next[node] = NullPtr
    IN  /\ Goto(t, "push_link", "push_tail")
        /\ next' = IF free THEN [next EXCEPT ![node] = mine] ELSE next
        /\ target' = [target EXCEPT ![t] = IF free THEN mine ELSE next[node]]
        /\ new_next' = [new_next EXCEPT ![t] = IF free THEN mine ELSE next[node]]
        /\ UNCHANGED <<head, tail, data, internal_count, external_counters, live, first,
                       todo, old_ptr, taken, results>>

(* Lines 104-108: the node that could not be linked is deleted.             *)
PushLink(t) ==
    LET node == old_ptr[t].ptr
        mine == new_next[t]
        free == next[node] = NullPtr
    IN  /\ Goto(t, "push_link", "push_tail")
        /\ next' = IF free THEN [next EXCEPT ![node] = mine] ELSE next
        /\ live' = IF free THEN live ELSE live \ {mine.ptr}
        /\ target' = [target EXCEPT ![t] = IF free THEN mine ELSE next[node]]
        /\ new_next' = [new_next EXCEPT ![t] = IF free THEN mine ELSE next[node]]
        /\ UNCHANGED <<head, tail, data, internal_count, external_counters, first, todo,
                       old_ptr, taken, results>>

(* Lines 113-117: the helper gives its node away and makes another.         *)
PushHelpLink(t) ==
    /\ Goto(t, "push_help", "push_help_tail")
    /\ next[old_ptr[t].ptr] = NullPtr
    /\ \E n \in Addr \ live :
          /\ live' = live \cup {n}
          /\ data' = [data EXCEPT ![n] = NoValue]
          /\ next' = [next EXCEPT ![n] = NullPtr, ![old_ptr[t].ptr] = new_next[t]]
          /\ internal_count' = [internal_count EXCEPT ![n] = 0]
          /\ external_counters' = [external_counters EXCEPT ![n] = 2]
          /\ new_next' = [new_next EXCEPT ![t].ptr = n]
    /\ target' = [target EXCEPT ![t] = new_next[t]]
    /\ UNCHANGED <<head, tail, first, todo, old_ptr, taken, results>>

PushHelpLinked(t) ==
    /\ Goto(t, "push_help", "push_help_tail")
    /\ next[old_ptr[t].ptr] # NullPtr
    /\ target' = [target EXCEPT ![t] = next[old_ptr[t].ptr]]
    /\ UNCHANGED <<head, tail, nodeVars, first, todo, new_next, old_ptr, taken, results>>

(* set_new_tail(): the exchange succeeds as long as tail still leads to the *)
(* node, whatever its count.  (The old tail keeps the node it had when the  *)
(* exchange fails: current_tail_ptr.)                                       *)
SetNewTail(t, from, moved, overtaken) ==
    LET same == tail.ptr = old_ptr[t].ptr
    IN  /\ Goto(t, from, IF same THEN moved ELSE overtaken)
        /\ tail' = IF same THEN target[t] ELSE tail
        /\ old_ptr' = IF same THEN [old_ptr EXCEPT ![t] = tail] ELSE old_ptr
        /\ UNCHANGED <<head, nodeVars, first, todo, new_next, target, taken, results>>

PushTail(t) == SetNewTail(t, "push_tail", "push_free", "push_release")
PushHelpTail(t) == SetNewTail(t, "push_help_tail", "push_help_free", "push_help_release")

PushHelpFree(t) ==
    /\ Goto(t, "push_help_free", "push_acquire")
    /\ FreeExternalCounter(old_ptr[t])
    /\ UNCHANGED <<head, tail, first, todo, localVars, results>>

PushHelpRelease(t) ==
    /\ Goto(t, "push_help_release", "push_acquire")
    /\ ReleaseRef(old_ptr[t].ptr)
    /\ UNCHANGED <<head, tail, first, todo, localVars, results>>

PushReturn(t) ==
    /\ \/ pc[t] = "push_free" /\ FreeExternalCounter(old_ptr[t])
       \/ pc[t] = "push_release" /\ ReleaseRef(old_ptr[t].ptr)
    /\ pc' = [pc EXCEPT ![t] = "idle"]
    /\ todo' = [todo EXCEPT ![t] = Tail(@)]
    /\ Forget(t)
    /\ UNCHANGED <<head, tail, first, results>>

-----------------------------------------------------------------------------
(* pop()                                                                    *)

PopCall(t) ==
    /\ todo[t] # <<>>
    /\ Head(todo[t]).op = "pop"
    /\ Goto(t, "idle", "pop_acquire")
    /\ UNCHANGED <<head, tail, nodeVars, first, todo, localVars, results>>

(* Two pops can make each other fail for ever, counting head up each time.  *)
(* The bound stops that: beyond it a pop waits while another one still      *)
(* holds the current head and so will not fail.                             *)
WithinBound(t) ==
    \/ head.external_count < MaxExternal
    \/ \A u \in Threads \ {t} : pc[u] \in PopPc => old_ptr[u] # head

PopAcquire(t) ==
    /\ WithinBound(t)
    /\ Goto(t, "pop_acquire", "pop_empty")
    /\ head' = [head EXCEPT !.external_count = @ + 1]
    /\ old_ptr' = [old_ptr EXCEPT ![t] = head']
    /\ UNCHANGED <<tail, nodeVars, first, todo, new_next, target, taken, results>>

PopCheckEmpty(t) ==
    /\ Goto(t, "pop_empty",
            IF old_ptr[t].ptr = tail.ptr THEN "pop_release_empty" ELSE "pop_next")
    /\ UNCHANGED <<head, tail, nodeVars, first, todo, localVars, results>>

PopNext(t) ==
    /\ Goto(t, "pop_next", "pop_move")
    /\ target' = [target EXCEPT ![t] = next[old_ptr[t].ptr]]
    /\ UNCHANGED <<head, tail, nodeVars, first, todo, new_next, old_ptr, taken, results>>

(* Mutant: head is moved with a store.                                      *)
PopMoveByStore(t) ==
    /\ Goto(t, "pop_move", "pop_take")
    /\ head' = target[t]
    /\ UNCHANGED <<tail, nodeVars, first, todo, localVars, results>>

PopMove(t) ==
    /\ Goto(t, "pop_move", IF head = old_ptr[t] THEN "pop_take" ELSE "pop_release")
    /\ head' = IF head = old_ptr[t] THEN target[t] ELSE head
    /\ UNCHANGED <<tail, nodeVars, first, todo, localVars, results>>

PopTake(t) ==
    /\ Goto(t, "pop_take", "pop_free")
    /\ taken' = [taken EXCEPT ![t] = data[old_ptr[t].ptr]]
    /\ data' = [data EXCEPT ![old_ptr[t].ptr] = NoValue]
    /\ UNCHANGED <<head, tail, next, internal_count, external_counters, live, first, todo,
                   new_next, old_ptr, target, results>>

PopRelease(t) ==
    /\ Goto(t, "pop_release", "pop_acquire")
    /\ ReleaseRef(old_ptr[t].ptr)
    /\ UNCHANGED <<head, tail, first, todo, localVars, results>>

PopReturn(t) ==
    /\ \/ pc[t] = "pop_free" /\ FreeExternalCounter(old_ptr[t])
       \/ pc[t] = "pop_release_empty" /\ ReleaseRef(old_ptr[t].ptr)
    /\ pc' = [pc EXCEPT ![t] = "idle"]
    /\ todo' = [todo EXCEPT ![t] = Tail(@)]
    /\ results' = [results EXCEPT ![t] = Append(@, taken[t])]
    /\ Forget(t)
    /\ UNCHANGED <<head, tail, first>>

-----------------------------------------------------------------------------
PushStep(t) ==
    \/ PushCall(t) \/ PushAcquire(t) \/ PushData(t) \/ PushLink(t) \/ PushHelpLink(t)
    \/ PushHelpLinked(t) \/ PushTail(t) \/ PushHelpTail(t) \/ PushHelpFree(t)
    \/ PushHelpRelease(t) \/ PushReturn(t)

PopStep(t) ==
    \/ PopCall(t) \/ PopAcquire(t) \/ PopCheckEmpty(t) \/ PopNext(t) \/ PopMove(t)
    \/ PopTake(t) \/ PopRelease(t) \/ PopReturn(t)

Done == \A t \in Threads : pc[t] = "idle" /\ todo[t] = <<>>

Next == (\E t \in Threads : PushStep(t) \/ PopStep(t)) \/ (Done /\ UNCHANGED vars)

Spec == Init /\ [][Next]_vars
FairSpec == Spec /\ \A t \in Threads : WF_vars(PushStep(t) \/ PopStep(t))
-----------------------------------------------------------------------------
(* Properties.                                                              *)

TypeOK ==
    /\ head \in CountedNodePtr
    /\ tail \in CountedNodePtr
    /\ data \in [Addr -> Value \cup {NoValue}]
    /\ next \in [Addr -> CountedNodePtr]
    /\ internal_count \in [Addr -> 0 .. InternalWrap - 1]
    /\ external_counters \in [Addr -> 0 .. ExternalWrap - 1]
    /\ live \subseteq Addr
    /\ first \in Addr
    /\ pc \in [Threads -> Pc]
    /\ todo \in [Threads -> Seq(Call)]
    /\ new_next \in [Threads -> CountedNodePtr]
    /\ old_ptr \in [Threads -> CountedNodePtr]
    /\ target \in [Threads -> CountedNodePtr]
    /\ taken \in [Threads -> Value \cup {NoValue}]
    /\ results \in [Threads -> Seq(Value \cup {NoValue})]

(* A thread in the middle of a call still has the reference it counted.     *)
HoldsReference(t) == pc[t] \notin {"idle", "push_acquire", "pop_acquire"}

(* No call touches a node that has been deleted, whichever of the threads   *)
(* that share it gives its reference back last.                             *)
NoUseAfterFree == TypeOK /\ \A t \in Threads : HoldsReference(t) => old_ptr[t].ptr \in live

(* The threads that moved tail, or head, off the node n and are still to    *)
(* settle the references that were counted through it.                      *)
TailMovers(n) == {t \in Threads : pc[t] \in {"push_free", "push_help_free"} /\ old_ptr[t].ptr = n}
HeadMovers(n) == {t \in Threads : pc[t] \in {"pop_take", "pop_free"} /\ old_ptr[t].ptr = n}

Holders(n) == {t \in Threads : HoldsReference(t) /\ old_ptr[t].ptr = n}

Through(pointer, n) == IF pointer.ptr = n THEN pointer.external_count - 1 ELSE 0

Unsettled(movers, n) ==
    IF movers = {} THEN 0 ELSE Through(old_ptr[CHOOSE t \in movers : TRUE], n)

(* The two halves of the count of a node, and what they should come to.  The *)
(* node of the constructor starts with one too many in both of its pointers  *)
(* (line 61).                                                                *)
References(n) ==
    internal_count[n] + Through(head, n) + Through(tail, n)
        + Unsettled(TailMovers(n), n) + Unsettled(HeadMovers(n), n)

Held(n) == Cardinality(Holders(n)) + (IF n = first THEN 2 ELSE 0)

Balanced(n) ==
    /\ \A t, u \in TailMovers(n) : t = u
    /\ \A t, u \in HeadMovers(n) : t = u
    /\ References(n) % InternalWrap = Held(n) % InternalWrap

(* Two threads never settle the same pointer, and the two halves of the      *)
(* count of a node always add up to the references held, in the width of     *)
(* internal_count: those counted through head, tail or a pointer taken off   *)
(* them and not settled yet, minus those given back.                         *)
ReferenceBalance == \A n \in live : Balanced(n)

(* The nodes met from the given one on, and those met as a set.             *)
Walk(n, link) ==
    LET at[i \in 0 .. Cardinality(Addr)] ==
            IF i = 0 THEN n ELSE IF at[i - 1] = Null THEN Null ELSE link[at[i - 1]].ptr
    IN  at

Chain(n) == LET at == Walk(n, next) IN {at[i] : i \in 0 .. Cardinality(Addr)} \ {Null}

(* When all calls have returned every node that left the queue has been     *)
(* deleted, except the node of the constructor, which never is.             *)
OnlyFirstLeaks == Done => live = Chain(head.ptr) \cup {first}

Popped(t) == {results[t][i] : i \in DOMAIN results[t]} \ {NoValue}

(* No value is returned by two pops, and every pop that took a node got a   *)
(* value: a consumer is never handed what another one has already.          *)
PoppedOnce ==
    /\ \A t, u \in Threads : t # u => Popped(t) \cap Popped(u) = {}
    /\ \A t \in Threads : \A i, j \in DOMAIN results[t] :
          results[t][i] = results[t][j] => i = j \/ results[t][i] = NoValue
    /\ \A t \in Threads : pc[t] = "pop_free" => taken[t] # NoValue

(* When all calls have returned, every value that was pushed was popped or  *)
(* is still in the queue.                                                   *)
Queued == {data[n] : n \in Chain(head.ptr)} \ {NoValue}
NothingLost ==
    Done => \A v \in Value : v \in Queued \cup UNION {Popped(t) : t \in Threads}
=============================================================================
