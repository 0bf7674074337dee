------------------------- MODULE RefCountQueueProofs -------------------------
(***************************************************************************)
(* Proofs about RefCountQueue, for every number of threads, of addresses   *)
(* and of calls.                                                           *)
(*                                                                         *)
(* A node is Private to the push() that made it, then Linked.  head and    *)
(* tail each pass it once; Sides says how many of the two are still to     *)
(* come: 2 Ahead of both, 1 between them (Passed), 0 out of the queue.     *)
(***************************************************************************)
EXTENDS RefCountQueue, FiniteSetTheorems, WellFoundedInduction, TLAPS

(* A node still known to one thread alone.                                  *)
PrivatePc == PushPc \ {"push_tail", "push_free", "push_release"}
Private == {new_next[t].ptr : t \in {u \in Threads : pc[u] \in PrivatePc}}
Linked == live \ Private

(* The pointers of the queue that have not been moved off n: a mover has    *)
(* moved its one and is still to say so in external_counters.               *)
One(movers) == IF movers = {} THEN 0 ELSE 1
Sides(n) == external_counters[n] - One(TailMovers(n)) - One(HeadMovers(n))

Ahead  == {n \in Linked : Sides(n) = 2}
Passed == {n \in Linked : Sides(n) = 1}
Nodes  == Ahead \cup Passed

(* Nobody but its owner has a private node, and nothing happened to it.      *)
PrivateInv ==
    \A t \in Threads : pc[t] \in PrivatePc =>
        LET p == new_next[t].ptr
        IN  /\ new_next[t] = Counted(1, p)
            /\ p \in live
            /\ next[p] = NullPtr
            /\ data[p] = NoValue
            /\ internal_count[p] = 0
            /\ external_counters[p] = 2
            /\ \A u \in Threads : pc[u] \in PrivatePc /\ new_next[u].ptr = p => u = t

(* What a call holds is not deleted, and the first node never is.           *)
HoldsInv ==
    /\ first \in live
    /\ \A t \in Threads : HoldsReference(t) => old_ptr[t].ptr \in Linked

(* Who moved a pointer off a node is still to take it from its               *)
(* external_counters, and the node whose counts are both 0 is gone.         *)
SidesInv ==
    \A n \in Linked :
        /\ Sides(n) \in 0 .. 2
        /\ TailMovers(n) # {} => Sides(n) \in 0 .. 1
        /\ HeadMovers(n) # {} => Sides(n) = 0
        /\ internal_count[n] # 0 \/ external_counters[n] # 0

(* head and tail are on the list, whose links never change; behind tail is at *)
(* most one node; a node that head can leave has its value.                 *)
ListInv ==
    /\ head.ptr \in Nodes
    /\ tail.ptr \in Ahead
    /\ head.ptr \in Ahead => head.ptr = tail.ptr
    /\ head.external_count >= 1 /\ tail.external_count >= 1
    /\ \A n \in Ahead : n = tail.ptr \/ n = next[tail.ptr].ptr
    /\ next[tail.ptr] # NullPtr => next[tail.ptr].ptr \in Ahead \ {tail.ptr}
    /\ \A n \in Ahead \ {tail.ptr} : next[n] = NullPtr
    /\ \A n \in Nodes : next[n] # NullPtr =>
          next[n] = Counted(1, next[n].ptr) /\ next[n].ptr \in Nodes \ {head.ptr}
    /\ \A m, n \in Nodes : next[m] = next[n] /\ next[m] # NullPtr => m = n
    /\ \A n \in Linked \ Ahead : next[n] # NullPtr
    /\ \A n \in Passed : data[n] # NoValue

(* What a call knows of the node it holds, program point by program point.   *)
LocalOf(t) ==
    LET n == old_ptr[t].ptr
    IN  /\ HoldsReference(t) /\ n \in Ahead => n = tail.ptr
        /\ pc[t] \in {"pop_next", "pop_move"} => n \notin Ahead
        /\ pc[t] \in {"pop_move", "push_tail", "push_help_tail"} => target[t] = next[n]
        /\ pc[t] \in {"push_tail", "push_help_tail"} => target[t] # NullPtr
        /\ pc[t] \in {"push_link", "push_help", "push_tail", "push_help_tail"} /\ n \in Nodes
              => data[n] # NoValue
        /\ pc[t] = "pop_take" => data[n] # NoValue
        /\ HoldsReference(t) => old_ptr[t].external_count >= 1
        /\ pc[t] \in PushPc => todo[t] # <<>> /\ Head(todo[t]).op = "push"
        /\ pc[t] \in PopPc => todo[t] # <<>>

LocalInv == \A t \in Threads : LocalOf(t)

MemoryInv == TypeOK /\ PrivateInv /\ HoldsInv /\ SidesInv /\ ListInv /\ LocalInv /\ ReferenceBalance

-----------------------------------------------------------------------------
(* The arithmetic of the counts.                                            *)
LEMMA WrapValue == InternalWrap = 1073741824
BY SMT DEF InternalWrap

LEMMA Wraps == InternalWrap \in Nat \ {0} /\ InternalWrap > 4 /\ ExternalWrap = 4
BY SMT DEF InternalWrap, ExternalWrap

(* Two counts that agree still agree when both move alike.                  *)
LEMMA CountsMove ==
    ASSUME NEW a \in Int, NEW b \in Int, NEW c \in Int, NEW d \in Int,
           a % InternalWrap = b % InternalWrap, c - a = d - b
    PROVE  c % InternalWrap = d % InternalWrap
<1>1. PICK k \in Int : c = a + k /\ d = b + k
  <2>1. c - a \in Int /\ c = a + (c - a) /\ d = b + (c - a)
    BY SMT
  <2> QED
    BY <2>1
<1>2. (a + k) % InternalWrap = (b + k) % InternalWrap
  BY WrapValue, SMT
<1> QED
  BY <1>1, <1>2

LEMMA CountsRange == \A a \in Int : a % InternalWrap \in 0 .. InternalWrap - 1
BY Wraps, SMT

LEMMA CountsFold ==
    ASSUME NEW a \in Int, NEW x \in Int
    PROVE  ((a % InternalWrap) + x) % InternalWrap = (a + x) % InternalWrap
BY WrapValue, SMT

LEMMA CountsSmall == \A a \in 0 .. InternalWrap - 1 : a % InternalWrap = a
BY Wraps, SMT

-----------------------------------------------------------------------------
LEMMA TypeInit == Init => TypeOK
<1> SUFFICES ASSUME Init PROVE TypeOK
  OBVIOUS
<1>1. InternalWrap \in Nat \ {0} /\ 2 \in 0 .. ExternalWrap - 1 /\ 0 \in 0 .. InternalWrap - 1
  BY Wraps
<1>2. NullPtr \in CountedNodePtr /\ \A n \in Addr : Counted(2, n) \in CountedNodePtr
  BY DEF NullPtr, Counted, CountedNodePtr
<1>3. "idle" \in Pc
  BY DEF Pc
<1>4. todo \in [Threads -> Seq(Call)]
  BY CallsAssumption DEF Init
<1> QED
  BY <1>1, <1>2, <1>3, <1>4 DEF Init, TypeOK

(* The kinds of changes that keep the types.                                *)
LEMMA SettleType ==
    ASSUME TypeOK, NEW n \in Addr, NEW r \in Int, NEW c \in Int, Settle(n, r, c)
    PROVE  /\ data' = data /\ next' = next
           /\ internal_count' = [internal_count EXCEPT ![n] = (internal_count[n] + r) % InternalWrap]
           /\ external_counters' = [external_counters EXCEPT ![n] = (external_counters[n] + c) % ExternalWrap]
           /\ internal_count' \in [Addr -> 0 .. InternalWrap - 1]
           /\ external_counters' \in [Addr -> 0 .. ExternalWrap - 1]
           /\ live' \subseteq Addr
           /\ live' = IF internal_count'[n] = 0 /\ external_counters'[n] = 0 THEN live \ {n} ELSE live
<1>1. internal_count \in [Addr -> 0 .. InternalWrap - 1] /\ external_counters \in [Addr -> 0 .. ExternalWrap - 1]
      /\ live \subseteq Addr
  BY DEF TypeOK
<1>2. (internal_count[n] + r) % InternalWrap \in 0 .. InternalWrap - 1
  BY <1>1, CountsRange
<1>3. (external_counters[n] + c) % ExternalWrap \in 0 .. ExternalWrap - 1
  BY <1>1, Wraps
<1>4. /\ internal_count' = [internal_count EXCEPT ![n] = (internal_count[n] + r) % InternalWrap]
      /\ external_counters' = [external_counters EXCEPT ![n] = (external_counters[n] + c) % ExternalWrap]
      /\ live' = IF (internal_count[n] + r) % InternalWrap = 0 /\ (external_counters[n] + c) % ExternalWrap = 0
                 THEN live \ {n} ELSE live
      /\ data' = data /\ next' = next
  BY DEF Settle
<1> QED
  BY <1>1, <1>2, <1>3, <1>4

LEMMA NullPtrType == NullPtr \in CountedNodePtr /\ \A n \in Addr : Counted(1, n) \in CountedNodePtr
BY DEF NullPtr, Counted, CountedNodePtr

LEMMA TypeStep ==
    ASSUME TypeOK, NEW t \in Threads, PushStep(t) \/ PopStep(t),
           HoldsReference(t) => old_ptr[t].ptr \in Addr,
           pc[t] \in PushPc => todo[t] # <<>> /\ Head(todo[t]).op = "push",
           pc[t] \in PopPc => todo[t] # <<>>
    PROVE  TypeOK'
<1> USE DEF Goto
<1>0. /\ todo[t] \in Seq(Call) /\ pc \in [Threads -> Pc] /\ old_ptr[t] \in CountedNodePtr
      /\ head \in CountedNodePtr /\ tail \in CountedNodePtr /\ results[t] \in Seq(Value \cup {NoValue})
      /\ 0 \in 0 .. InternalWrap - 1 /\ 2 \in 0 .. ExternalWrap - 1
  BY Wraps DEF TypeOK
<1>1. \A p \in CountedNodePtr : p.external_count \in Nat /\ [p EXCEPT !.external_count = @ + 1] \in CountedNodePtr
  BY DEF CountedNodePtr
<1>2. \A p \in CountedNodePtr : \A n \in Addr : [p EXCEPT !.ptr = n] \in CountedNodePtr
  BY DEF CountedNodePtr
<1>3. CASE PushCall(t)
  <2>1. pc' \in [Threads -> Pc]
    BY <1>3, <1>0 DEF PushCall, Pc, PushPc
  <2> QED
    BY <2>1, <1>3, <1>0, NullPtrType DEF PushCall, TypeOK, NodeConstructed
<1>4. CASE PushAcquire(t)
  <2>1. pc' \in [Threads -> Pc]
    BY <1>4, <1>0 DEF PushAcquire, Pc, PushPc
  <2> QED
    BY <2>1, <1>4, <1>0, <1>1 DEF PushAcquire, TypeOK, nodeVars
<1>5. CASE PushData(t)
  <2>1. pc' \in [Threads -> Pc]
    BY <1>5, <1>0 DEF PushData, Pc, PushPc
  <2>2. Head(todo[t]).value \in Value
    <3>1. Head(todo[t]) \in Call /\ Head(todo[t]).op = "push"
      BY <1>5, <1>0 DEF PushData, PushPc
    <3> QED
      BY <3>1 DEF Call
  <2> QED
    BY <2>1, <2>2, <1>5, <1>0 DEF PushData, TypeOK, localVars
<1>6. CASE PushLink(t)
  <2>1. pc' \in [Threads -> Pc]
    BY <1>6, <1>0 DEF PushLink, Pc, PushPc
  <2>2. old_ptr[t].ptr \in Addr
    BY <1>6 DEF PushLink, HoldsReference
  <2> QED
    BY <2>1, <2>2, <1>6, <1>0 DEF PushLink, TypeOK
<1>7. CASE PushHelpLink(t)
  <2>1. pc' \in [Threads -> Pc]
    BY <1>7, <1>0 DEF PushHelpLink, Pc, PushPc
  <2>2. old_ptr[t].ptr \in Addr
    BY <1>7 DEF PushHelpLink, HoldsReference
  <2>3. new_next[t] \in CountedNodePtr /\ next \in [Addr -> CountedNodePtr]
    BY DEF TypeOK
  <2>4. PICK n \in Addr : /\ live' = live \cup {n}
          /\ data' = [data EXCEPT ![n] = NoValue]
          /\ next' = [next EXCEPT ![n] = NullPtr, ![old_ptr[t].ptr] = new_next[t]]
          /\ internal_count' = [internal_count EXCEPT ![n] = 0]
          /\ external_counters' = [external_counters EXCEPT ![n] = 2]
          /\ new_next' = [new_next EXCEPT ![t].ptr = n]
    BY <1>7 DEF PushHelpLink
  <2>5. next' \in [Addr -> CountedNodePtr]
    BY <2>3, <2>4, NullPtrType
  <2>6. new_next' \in [Threads -> CountedNodePtr]
    BY <2>4, <2>3, <1>2 DEF TypeOK
  <2>7. target' \in [Threads -> CountedNodePtr]
    BY <2>3, <1>7 DEF TypeOK, PushHelpLink
  <2>8. data' \in [Addr -> Value \cup {NoValue}] /\ internal_count' \in [Addr -> 0 .. InternalWrap - 1]
        /\ external_counters' \in [Addr -> 0 .. ExternalWrap - 1] /\ live' \subseteq Addr
    BY <2>4, <1>0 DEF TypeOK
  <2> QED
    BY <2>1, <2>5, <2>6, <2>7, <2>8, <1>7 DEF PushHelpLink, TypeOK
<1>8. CASE PushHelpLinked(t)
  <2>1. pc' \in [Threads -> Pc]
    BY <1>8, <1>0 DEF PushHelpLinked, Pc, PushPc
  <2>2. old_ptr[t].ptr \in Addr
    BY <1>8 DEF PushHelpLinked, HoldsReference
  <2> QED
    BY <2>1, <2>2, <1>8, <1>0 DEF PushHelpLinked, TypeOK, nodeVars
<1>9. CASE PushTail(t) \/ PushHelpTail(t)
  <2>1. pc' \in [Threads -> Pc]
    BY <1>9, <1>0 DEF PushTail, PushHelpTail, SetNewTail, Pc, PushPc
  <2>2. target[t] \in CountedNodePtr
    BY DEF TypeOK
  <2> QED
    BY <2>1, <2>2, <1>9, <1>0 DEF PushTail, PushHelpTail, SetNewTail, TypeOK, nodeVars
<1>10. ASSUME HoldsReference(t), FreeExternalCounter(old_ptr[t]) \/ ReleaseRef(old_ptr[t].ptr)
       PROVE  /\ data' = data /\ next' = next /\ live' \subseteq Addr
              /\ internal_count' \in [Addr -> 0 .. InternalWrap - 1]
              /\ external_counters' \in [Addr -> 0 .. ExternalWrap - 1]
  <2>1. old_ptr[t].ptr \in Addr
    BY <1>10
  <2>2. old_ptr[t].external_count - 2 \in Int
    BY <1>0 DEF CountedNodePtr
  <2> QED
    BY <2>1, <2>2, <1>10, SettleType DEF FreeExternalCounter, ReleaseRef
<1>11. CASE PushHelpFree(t) \/ PushHelpRelease(t)
  <2>1. pc' \in [Threads -> Pc] /\ HoldsReference(t)
    BY <1>11, <1>0 DEF PushHelpFree, PushHelpRelease, Pc, PushPc, HoldsReference
  <2> QED
    BY <2>1, <1>10, <1>11 DEF PushHelpFree, PushHelpRelease, TypeOK, localVars
<1>12. \A q \in {"idle"} : [pc EXCEPT ![t] = q] \in [Threads -> Pc]
  BY <1>0 DEF Pc
<1>13. /\ todo[t] # <<>> => [todo EXCEPT ![t] = Tail(@)] \in [Threads -> Seq(Call)]
       /\ taken[t] \in Value \cup {NoValue}
       /\ [results EXCEPT ![t] = Append(@, taken[t])] \in [Threads -> Seq(Value \cup {NoValue})]
  BY <1>0 DEF TypeOK
<1>14. Forget(t) => /\ new_next' \in [Threads -> CountedNodePtr] /\ old_ptr' \in [Threads -> CountedNodePtr]
                    /\ target' \in [Threads -> CountedNodePtr] /\ taken' \in [Threads -> Value \cup {NoValue}]
  BY NullPtrType DEF Forget, TypeOK
<1>15. CASE PushReturn(t)
  <2>1. pc' \in [Threads -> Pc] /\ HoldsReference(t) /\ todo[t] # <<>> /\ Forget(t)
    BY <1>15, <1>0, <1>12 DEF PushReturn, PushPc, HoldsReference
  <2> QED
    BY <2>1, <1>10, <1>13, <1>14, <1>15 DEF PushReturn, TypeOK
<1>16. CASE PopCall(t)
  <2>1. pc' \in [Threads -> Pc]
    BY <1>16, <1>0 DEF PopCall, Pc, PopPc
  <2> QED
    BY <2>1, <1>16 DEF PopCall, TypeOK, nodeVars, localVars
<1>17. CASE PopAcquire(t)
  <2>1. pc' \in [Threads -> Pc]
    BY <1>17, <1>0 DEF PopAcquire, Pc, PopPc
  <2> QED
    BY <2>1, <1>17, <1>0, <1>1 DEF PopAcquire, TypeOK, nodeVars
<1>18. CASE PopCheckEmpty(t)
  <2>1. pc' \in [Threads -> Pc]
    BY <1>18, <1>0 DEF PopCheckEmpty, Pc, PopPc
  <2> QED
    BY <2>1, <1>18 DEF PopCheckEmpty, TypeOK, nodeVars, localVars
<1>19. CASE PopNext(t)
  <2>1. pc' \in [Threads -> Pc]
    BY <1>19, <1>0 DEF PopNext, Pc, PopPc
  <2>2. old_ptr[t].ptr \in Addr
    BY <1>19 DEF PopNext, HoldsReference
  <2> QED
    BY <2>1, <2>2, <1>19, <1>0 DEF PopNext, TypeOK, nodeVars
<1>20. CASE PopMove(t)
  <2>1. pc' \in [Threads -> Pc]
    BY <1>20, <1>0 DEF PopMove, Pc, PopPc
  <2>2. target[t] \in CountedNodePtr
    BY DEF TypeOK
  <2> QED
    BY <2>1, <2>2, <1>20, <1>0 DEF PopMove, TypeOK, nodeVars, localVars
<1>21. CASE PopTake(t)
  <2>1. pc' \in [Threads -> Pc]
    BY <1>21, <1>0 DEF PopTake, Pc, PopPc
  <2>2. old_ptr[t].ptr \in Addr
    BY <1>21 DEF PopTake, HoldsReference
  <2> QED
    BY <2>1, <2>2, <1>21, <1>0 DEF PopTake, TypeOK
<1>22. CASE PopRelease(t)
  <2>1. pc' \in [Threads -> Pc] /\ HoldsReference(t)
    BY <1>22, <1>0 DEF PopRelease, Pc, PopPc, HoldsReference
  <2> QED
    BY <2>1, <1>10, <1>22 DEF PopRelease, TypeOK, localVars
<1>23. CASE PopReturn(t)
  <2>1. pc' \in [Threads -> Pc] /\ HoldsReference(t) /\ todo[t] # <<>> /\ Forget(t)
    BY <1>23, <1>0, <1>12 DEF PopReturn, PopPc, HoldsReference
  <2> QED
    BY <2>1, <1>10, <1>13, <1>14, <1>23 DEF PopReturn, TypeOK
<1> QED
  BY <1>3, <1>4, <1>5, <1>6, <1>7, <1>8, <1>9, <1>11, <1>15, <1>16, <1>17, <1>18, <1>19, <1>20,
     <1>21, <1>22, <1>23 DEF PushStep, PopStep

-----------------------------------------------------------------------------
(* The steps by what they do to the list and to the counts.  Whether a      *)
(* thread holds a node, or has moved a pointer off one, is in its pc.       *)
MovesTail == {"push_free", "push_help_free"}
MovesHead == {"pop_take", "pop_free"}
Outside == {"idle", "push_acquire", "pop_acquire"}

Others(t) ==
    \A u \in Threads \ {t} :
        /\ pc'[u] = pc[u] /\ todo'[u] = todo[u] /\ results'[u] = results[u]
        /\ new_next'[u] = new_next[u] /\ old_ptr'[u] = old_ptr[u]
        /\ target'[u] = target[u] /\ taken'[u] = taken[u]

Counts == <<internal_count, external_counters, live>>

(* Nothing but the place of t and the data of nodes.                        *)
Quiet(t) ==
    /\ UNCHANGED <<head, tail, next, Counts, first, new_next, old_ptr>>
    /\ \A S \in {PrivatePc, MovesTail, MovesHead, Outside} : pc'[t] \in S <=> pc[t] \in S

(* A new node, which only t knows.                                          *)
Allocates(t, n) ==
    /\ n \in Addr \ live
    /\ live' = live \cup {n}
    /\ NodeConstructed(n)
    /\ new_next'[t] = Counted(1, n)
    /\ pc[t] \in Outside \ PrivatePc /\ pc'[t] \in Outside \cap PrivatePc
    /\ UNCHANGED <<head, tail, first, old_ptr>>

(* A reference counted through tail, or through head.                       *)
Enters(t, pointer) ==
    /\ pc[t] \in Outside /\ pc'[t] \notin Outside \cup MovesTail \cup MovesHead
    /\ pc'[t] \in PrivatePc <=> pc[t] \in PrivatePc
    /\ old_ptr'[t] = Counted(pointer.external_count + 1, pointer.ptr)
    /\ UNCHANGED <<next, data, Counts, first, new_next>>

(* The node that could not be linked.                                       *)
Drops(t) ==
    /\ pc[t] = "push_link" /\ pc'[t] \notin Outside \cup PrivatePc \cup MovesTail \cup MovesHead
    /\ live' = live \ {new_next[t].ptr}
    /\ next[old_ptr[t].ptr] # NullPtr
    /\ UNCHANGED <<head, tail, next, data, internal_count, external_counters, first, old_ptr>>

Links(t) ==
    /\ pc[t] \in {"push_link", "push_help"} /\ pc'[t] \notin Outside \cup MovesTail \cup MovesHead
    /\ next[old_ptr[t].ptr] = NullPtr
    /\ UNCHANGED <<head, tail, first, old_ptr>>
    /\ \/ /\ next' = [next EXCEPT ![old_ptr[t].ptr] = new_next[t]]
          /\ pc'[t] \notin PrivatePc
          /\ UNCHANGED <<data, Counts>>
       \/ \E n \in Addr \ live :
             /\ live' = live \cup {n}
             /\ data' = [data EXCEPT ![n] = NoValue]
             /\ next' = [next EXCEPT ![n] = NullPtr, ![old_ptr[t].ptr] = new_next[t]]
             /\ internal_count' = [internal_count EXCEPT ![n] = 0]
             /\ external_counters' = [external_counters EXCEPT ![n] = 2]
             /\ new_next'[t] = Counted(new_next[t].external_count, n)
             /\ pc'[t] \in PrivatePc

TailMoves(t) ==
    /\ pc[t] \in {"push_tail", "push_help_tail"} /\ pc'[t] \in MovesTail
    /\ pc'[t] \in PrivatePc <=> pc[t] \in PrivatePc
    /\ tail.ptr = old_ptr[t].ptr
    /\ tail' = target[t]
    /\ old_ptr' = [old_ptr EXCEPT ![t] = tail]
    /\ UNCHANGED <<head, next, data, Counts, first, new_next>>

HeadMoves(t) ==
    /\ pc[t] = "pop_move" /\ pc'[t] = "pop_take"
    /\ head = old_ptr[t]
    /\ head' = target[t]
    /\ UNCHANGED <<tail, next, data, Counts, first, new_next, old_ptr>>

(* A reference given back: the nodes the call holds are forgotten.          *)
Leaves(t) ==
    /\ pc[t] \notin Outside /\ pc'[t] \in Outside
    /\ pc'[t] \in PrivatePc <=> pc[t] \in PrivatePc
    /\ pc[t] \in PrivatePc => new_next'[t] = new_next[t]
    /\ UNCHANGED <<head, tail, first>>
    /\ IF pc[t] \in MovesTail \cup MovesHead THEN FreeExternalCounter(old_ptr[t])
       ELSE ReleaseRef(old_ptr[t].ptr)

Step(t) ==
    /\ Others(t)
    /\ \/ Quiet(t)
       \/ \E n \in Addr : Allocates(t, n)
       \/ Enters(t, tail) /\ tail' = old_ptr'[t] /\ head' = head
       \/ Enters(t, head) /\ head' = old_ptr'[t] /\ tail' = tail
       \/ Drops(t)
       \/ Links(t)
       \/ TailMoves(t)
       \/ HeadMoves(t)
       \/ Leaves(t)

LEMMA StepKinds ==
    ASSUME TypeOK, NEW t \in Threads, PushStep(t) \/ PopStep(t)
    PROVE  Step(t)
<1> USE DEF Goto
<1>0. /\ pc \in [Threads -> Pc] /\ todo \in [Threads -> Seq(Call)] /\ old_ptr \in [Threads -> CountedNodePtr]
      /\ new_next \in [Threads -> CountedNodePtr] /\ target \in [Threads -> CountedNodePtr]
      /\ taken \in [Threads -> Value \cup {NoValue}] /\ results \in [Threads -> Seq(Value \cup {NoValue})]
  BY DEF TypeOK
<1>1. /\ \A p \in CountedNodePtr : [p EXCEPT !.external_count = @ + 1] = Counted(p.external_count + 1, p.ptr)
      /\ \A p \in CountedNodePtr, n \in Addr : [p EXCEPT !.ptr = n] = Counted(p.external_count, n)
  BY DEF CountedNodePtr, Counted
<1>2. /\ PrivatePc = {"push_acquire", "push_data", "push_link", "push_help", "push_help_tail",
                      "push_help_free", "push_help_release"}
  BY DEF PrivatePc, PushPc
<1>3. CASE PushCall(t)
  <2>1. Others(t)
    BY <1>0, <1>3 DEF PushCall, Others
  <2>2. PICK n \in Addr : Allocates(t, n)
    BY <1>0, <1>2, <1>3 DEF PushCall, Allocates, Outside
  <2> QED
    BY <2>1, <2>2 DEF Step
<1>4. CASE PushAcquire(t)
  <2>1. Others(t)
    BY <1>0, <1>4 DEF PushAcquire, Others
  <2>2. Enters(t, tail) /\ tail' = old_ptr'[t] /\ head' = head
    BY <1>0, <1>1, <1>2, <1>4 DEF PushAcquire, Enters, Outside, MovesTail, MovesHead, Counts, nodeVars, TypeOK
  <2> QED
    BY <2>1, <2>2 DEF Step
<1>5. CASE PushData(t)
  <2>1. Others(t)
    BY <1>0, <1>5 DEF PushData, Others, localVars
  <2>2. Quiet(t)
    BY <1>0, <1>2, <1>5 DEF PushData, Quiet, Outside, MovesTail, MovesHead, Counts, localVars
  <2> QED
    BY <2>1, <2>2 DEF Step
<1>6. CASE PushLink(t)
  <2>1. Others(t)
    BY <1>0, <1>6 DEF PushLink, Others
  <2>2. Drops(t) \/ Links(t)
    BY <1>0, <1>2, <1>6 DEF PushLink, Drops, Links, Outside, MovesTail, MovesHead, Counts
  <2> QED
    BY <2>1, <2>2 DEF Step
<1>7. CASE PushHelpLink(t)
  <2>1. Others(t)
    BY <1>0, <1>7 DEF PushHelpLink, Others
  <2>2. Links(t)
    <3>1. PICK n \in Addr \ live : /\ live' = live \cup {n}
          /\ data' = [data EXCEPT ![n] = NoValue]
          /\ next' = [next EXCEPT ![n] = NullPtr, ![old_ptr[t].ptr] = new_next[t]]
          /\ internal_count' = [internal_count EXCEPT ![n] = 0]
          /\ external_counters' = [external_counters EXCEPT ![n] = 2]
          /\ new_next' = [new_next EXCEPT ![t].ptr = n]
      BY <1>7 DEF PushHelpLink
    <3>2. new_next'[t] = Counted(new_next[t].external_count, n)
      BY <3>1, <1>0, <1>1
    <3>3. /\ pc[t] \in {"push_link", "push_help"} /\ pc'[t] \notin Outside \cup MovesTail \cup MovesHead
          /\ pc'[t] \in PrivatePc
          /\ next[old_ptr[t].ptr] = NullPtr
          /\ UNCHANGED <<head, tail, first, old_ptr>>
      BY <1>0, <1>2, <1>7 DEF PushHelpLink, Outside, MovesTail, MovesHead
    <3> QED
      BY <3>1, <3>2, <3>3 DEF Links
  <2> QED
    BY <2>1, <2>2 DEF Step
<1>8. CASE PushHelpLinked(t)
  <2>1. Others(t)
    BY <1>0, <1>8 DEF PushHelpLinked, Others, nodeVars
  <2>2. Quiet(t)
    BY <1>0, <1>2, <1>8 DEF PushHelpLinked, Quiet, Outside, MovesTail, MovesHead, Counts, nodeVars
  <2> QED
    BY <2>1, <2>2 DEF Step
<1>9. CASE PushTail(t) \/ PushHelpTail(t)
  <2>1. Others(t)
    BY <1>0, <1>9 DEF PushTail, PushHelpTail, SetNewTail, Others
  <2>2. CASE tail.ptr = old_ptr[t].ptr
    <3>1. TailMoves(t)
      BY <1>0, <1>2, <1>9, <2>2 DEF PushTail, PushHelpTail, SetNewTail, TailMoves, MovesTail, Counts, nodeVars
    <3> QED
      BY <2>1, <3>1 DEF Step
  <2>3. CASE tail.ptr # old_ptr[t].ptr
    <3>1. Quiet(t)
      BY <1>0, <1>2, <1>9, <2>3 DEF PushTail, PushHelpTail, SetNewTail, Quiet, MovesTail, MovesHead, Outside, Counts, nodeVars
    <3> QED
      BY <2>1, <3>1 DEF Step
  <2> QED
    BY <2>2, <2>3
<1>10. CASE PushHelpFree(t) \/ PushHelpRelease(t)
  <2>1. Others(t)
    BY <1>0, <1>10 DEF PushHelpFree, PushHelpRelease, Others, localVars
  <2>2. Leaves(t)
    BY <1>0, <1>2, <1>10 DEF PushHelpFree, PushHelpRelease, Leaves, MovesTail, MovesHead, Outside, localVars
  <2> QED
    BY <2>1, <2>2 DEF Step
<1>11. CASE PushReturn(t)
  <2>1. Others(t)
    BY <1>0, <1>11 DEF PushReturn, Forget, Others
  <2>2. Leaves(t)
    BY <1>0, <1>2, <1>11 DEF PushReturn, Leaves, MovesTail, MovesHead, Outside
  <2> QED
    BY <2>1, <2>2 DEF Step
<1>12. CASE PopCall(t)
  <2>1. Others(t)
    BY <1>0, <1>12 DEF PopCall, Others, localVars
  <2>2. Quiet(t)
    BY <1>0, <1>2, <1>12 DEF PopCall, Quiet, MovesTail, MovesHead, Outside, Counts, nodeVars, localVars
  <2> QED
    BY <2>1, <2>2 DEF Step
<1>13. CASE PopAcquire(t)
  <2>1. Others(t)
    BY <1>0, <1>13 DEF PopAcquire, Others
  <2>2. Enters(t, head) /\ head' = old_ptr'[t] /\ tail' = tail
    BY <1>0, <1>1, <1>2, <1>13 DEF PopAcquire, Enters, Outside, MovesTail, MovesHead, Counts, nodeVars, TypeOK
  <2> QED
    BY <2>1, <2>2 DEF Step
<1>14. CASE PopCheckEmpty(t)
  <2>1. Others(t)
    BY <1>0, <1>14 DEF PopCheckEmpty, Others, localVars
  <2>2. Quiet(t)
    BY <1>0, <1>2, <1>14 DEF PopCheckEmpty, Quiet, MovesTail, MovesHead, Outside, Counts, nodeVars, localVars
  <2> QED
    BY <2>1, <2>2 DEF Step
<1>15. CASE PopNext(t)
  <2>1. Others(t)
    BY <1>0, <1>15 DEF PopNext, Others
  <2>2. Quiet(t)
    BY <1>0, <1>2, <1>15 DEF PopNext, Quiet, MovesTail, MovesHead, Outside, Counts, nodeVars
  <2> QED
    BY <2>1, <2>2 DEF Step
<1>16. CASE PopMove(t)
  <2>1. Others(t)
    BY <1>0, <1>16 DEF PopMove, Others, localVars
  <2>2. CASE head = old_ptr[t]
    <3>1. HeadMoves(t)
      BY <1>0, <1>16, <2>2 DEF PopMove, HeadMoves, Counts, nodeVars, localVars
    <3> QED
      BY <2>1, <3>1 DEF Step
  <2>3. CASE head # old_ptr[t]
    <3>1. Quiet(t)
      BY <1>0, <1>2, <1>16, <2>3 DEF PopMove, Quiet, MovesTail, MovesHead, Outside, Counts, nodeVars, localVars
    <3> QED
      BY <2>1, <3>1 DEF Step
  <2> QED
    BY <2>2, <2>3
<1>17. CASE PopTake(t)
  <2>1. Others(t)
    BY <1>0, <1>17 DEF PopTake, Others
  <2>2. Quiet(t)
    BY <1>0, <1>2, <1>17 DEF PopTake, Quiet, MovesTail, MovesHead, Outside, Counts
  <2> QED
    BY <2>1, <2>2 DEF Step
<1>18. CASE PopRelease(t)
  <2>1. Others(t)
    BY <1>0, <1>18 DEF PopRelease, Others, localVars
  <2>2. Leaves(t)
    BY <1>0, <1>2, <1>18 DEF PopRelease, Leaves, MovesTail, MovesHead, Outside, localVars
  <2> QED
    BY <2>1, <2>2 DEF Step
<1>19. CASE PopReturn(t)
  <2>1. Others(t)
    BY <1>0, <1>19 DEF PopReturn, Forget, Others
  <2>2. Leaves(t)
    BY <1>0, <1>2, <1>19 DEF PopReturn, Leaves, MovesTail, MovesHead, Outside
  <2> QED
    BY <2>1, <2>2 DEF Step
<1> QED
  BY <1>3, <1>4, <1>5, <1>6, <1>7, <1>8, <1>9, <1>10, <1>11, <1>12, <1>13, <1>14, <1>15, <1>16, <1>17,
     <1>18, <1>19 DEF PushStep, PopStep

-----------------------------------------------------------------------------
(* What a step of t does to the sets of threads and of nodes.               *)
LEMMA PcSets ==
    /\ MovesTail \cap Outside = {} /\ MovesHead \cap Outside = {} /\ MovesTail \cap MovesHead = {}
    /\ MovesHead \cap PrivatePc = {}
    /\ \A q \in {"push_link", "push_help", "push_tail", "push_help_tail", "pop_move"} :
          q \notin Outside /\ q \notin MovesTail /\ q \notin MovesHead
    /\ {"push_link", "push_help", "push_help_tail"} \subseteq PrivatePc
    /\ "push_tail" \notin PrivatePc /\ "pop_move" \notin PrivatePc /\ "pop_take" \notin PrivatePc
BY DEF MovesTail, MovesHead, Outside, PrivatePc, PushPc

LEMMA ThreadSets ==
    ASSUME NEW n
    PROVE  /\ TailMovers(n) = {u \in Threads : pc[u] \in MovesTail /\ old_ptr[u].ptr = n}
           /\ HeadMovers(n) = {u \in Threads : pc[u] \in MovesHead /\ old_ptr[u].ptr = n}
           /\ Holders(n) = {u \in Threads : pc[u] \notin Outside /\ old_ptr[u].ptr = n}
BY DEF TailMovers, HeadMovers, Holders, HoldsReference, MovesTail, MovesHead, Outside

LEMMA MoversStay ==
    ASSUME NEW t \in Threads, Others(t), NEW n,
           (pc'[t] \in MovesTail /\ old_ptr'[t].ptr = n) <=> (pc[t] \in MovesTail /\ old_ptr[t].ptr = n),
           (pc'[t] \in MovesHead /\ old_ptr'[t].ptr = n) <=> (pc[t] \in MovesHead /\ old_ptr[t].ptr = n)
    PROVE  TailMovers(n)' = TailMovers(n) /\ HeadMovers(n)' = HeadMovers(n)
BY DEF TailMovers, HeadMovers, MovesTail, MovesHead, Others

LEMMA HoldersStay ==
    ASSUME NEW t \in Threads, Others(t), NEW n,
           (pc'[t] \notin Outside /\ old_ptr'[t].ptr = n) <=> (pc[t] \notin Outside /\ old_ptr[t].ptr = n)
    PROVE  Holders(n)' = Holders(n)
BY DEF Holders, HoldsReference, Outside, Others

LEMMA HoldersGrow ==
    ASSUME NEW t \in Threads, Others(t), NEW n, pc[t] \in Outside, pc'[t] \notin Outside
    PROVE  /\ Holders(n)' = Holders(n) \cup (IF n = old_ptr'[t].ptr THEN {t} ELSE {})
           /\ t \notin Holders(n)
BY DEF Holders, HoldsReference, Outside, Others

(* The private nodes of the others, and of t.                               *)
PrivateOf(t) == IF pc[t] \in PrivatePc THEN {new_next[t].ptr} ELSE {}

LEMMA PrivateStep ==
    ASSUME PrivateInv, NEW t \in Threads, Others(t)
    PROVE  /\ Private = (Private \ PrivateOf(t)) \cup PrivateOf(t)
           /\ Private' = (Private \ PrivateOf(t)) \cup PrivateOf(t)'
BY DEF PrivateInv, Private, PrivateOf, Others

LEMMA Private1 ==
    ASSUME TypeOK, PrivateInv, HoldsInv, ListInv
    PROVE  /\ Private \subseteq live /\ live \subseteq Addr /\ Linked \subseteq live
           /\ \A t \in Threads : pc[t] \in PrivatePc => new_next[t].ptr \in Private
           /\ \A t \in Threads : pc[t] \notin Outside => old_ptr[t].ptr \in Linked
           /\ \A a \in Private : /\ next[a] = NullPtr /\ data[a] = NoValue
                                 /\ internal_count[a] = 0 /\ external_counters[a] = 2
           /\ \A n : n \notin Linked => TailMovers(n) = {} /\ HeadMovers(n) = {} /\ Holders(n) = {}
           /\ head.ptr \in Linked /\ tail.ptr \in Linked
<1>1. Private \subseteq live /\ live \subseteq Addr /\ Linked \subseteq live
  BY DEF TypeOK, PrivateInv, Private, Linked
<1>2. \A t \in Threads : pc[t] \in PrivatePc => new_next[t].ptr \in Private
  BY DEF Private
<1>3. \A t \in Threads : pc[t] \notin Outside => old_ptr[t].ptr \in Linked
  BY DEF HoldsInv, HoldsReference, Outside
<1>4. \A a \in Private : /\ next[a] = NullPtr /\ data[a] = NoValue
                         /\ internal_count[a] = 0 /\ external_counters[a] = 2
  BY DEF PrivateInv, Private
<1>5. \A n : n \notin Linked => TailMovers(n) = {} /\ HeadMovers(n) = {} /\ Holders(n) = {}
  BY <1>3, ThreadSets, PcSets
<1>6. head.ptr \in Linked /\ tail.ptr \in Linked
  BY DEF ListInv, Nodes, Ahead, Passed
<1> QED
  BY <1>1, <1>2, <1>3, <1>4, <1>5, <1>6

LEMMA SidesStep ==
    ASSUME NEW n, TailMovers(n)' = TailMovers(n), HeadMovers(n)' = HeadMovers(n),
           external_counters'[n] = external_counters[n]
    PROVE  Sides(n)' = Sides(n)
BY DEF Sides, One

(* The steps that keep the sets of movers, and so the sides of the nodes.   *)
LEMMA QuietSets ==
    ASSUME PrivateInv, NEW t \in Threads, Others(t), Quiet(t)
    PROVE  /\ Private' = Private /\ Linked' = Linked
           /\ \A n : /\ TailMovers(n)' = TailMovers(n) /\ HeadMovers(n)' = HeadMovers(n)
                     /\ Holders(n)' = Holders(n)
<1>1. /\ pc'[t] \in PrivatePc <=> pc[t] \in PrivatePc
      /\ pc'[t] \in MovesTail <=> pc[t] \in MovesTail
      /\ pc'[t] \in MovesHead <=> pc[t] \in MovesHead
      /\ pc'[t] \in Outside <=> pc[t] \in Outside
      /\ old_ptr' = old_ptr /\ new_next' = new_next /\ live' = live
  BY DEF Quiet, Counts
<1>2. PrivateOf(t)' = PrivateOf(t)
  BY <1>1 DEF PrivateOf
<1>3. Private' = Private
  BY <1>2, PrivateStep
<1>4. ASSUME NEW n PROVE /\ TailMovers(n)' = TailMovers(n) /\ HeadMovers(n)' = HeadMovers(n)
                         /\ Holders(n)' = Holders(n)
  BY <1>1, MoversStay, HoldersStay
<1> QED
  BY <1>1, <1>3, <1>4 DEF Linked

LEMMA AllocatesSets ==
    ASSUME TypeOK, PrivateInv, HoldsInv, ListInv, NEW t \in Threads, Others(t), NEW e \in Addr, Allocates(t, e)
    PROVE  /\ Private' = Private \cup {e} /\ Linked' = Linked /\ e \notin Linked
           /\ \A n : /\ TailMovers(n)' = TailMovers(n) /\ HeadMovers(n)' = HeadMovers(n)
                     /\ Holders(n)' = Holders(n)
<1>1. /\ pc'[t] \in PrivatePc /\ pc[t] \notin PrivatePc /\ pc[t] \in Outside /\ pc'[t] \in Outside
      /\ pc'[t] \notin MovesTail /\ pc'[t] \notin MovesHead /\ pc[t] \notin MovesTail /\ pc[t] \notin MovesHead
      /\ old_ptr' = old_ptr /\ new_next'[t].ptr = e /\ live' = live \cup {e} /\ e \notin live
  BY PcSets DEF Allocates, Counted
<1>2. PrivateOf(t)' = {e} /\ PrivateOf(t) = {}
  BY <1>1 DEF PrivateOf
<1>3. Private' = Private \cup {e} /\ Private \subseteq live
  BY <1>2, PrivateStep, Private1
<1>4. ASSUME NEW n PROVE /\ TailMovers(n)' = TailMovers(n) /\ HeadMovers(n)' = HeadMovers(n)
                         /\ Holders(n)' = Holders(n)
  BY <1>1, MoversStay, HoldersStay
<1> QED
  BY <1>1, <1>3, <1>4 DEF Linked

LEMMA EntersSets ==
    ASSUME PrivateInv, NEW t \in Threads, Others(t), NEW p, Enters(t, p)
    PROVE  /\ Private' = Private /\ Linked' = Linked
           /\ \A n : /\ TailMovers(n)' = TailMovers(n) /\ HeadMovers(n)' = HeadMovers(n)
                     /\ Holders(n)' = Holders(n) \cup (IF n = p.ptr THEN {t} ELSE {})
                     /\ t \notin Holders(n)
<1>1. /\ pc'[t] \in PrivatePc <=> pc[t] \in PrivatePc
      /\ pc[t] \in Outside /\ pc'[t] \notin Outside
      /\ pc'[t] \notin MovesTail /\ pc'[t] \notin MovesHead /\ pc[t] \notin MovesTail /\ pc[t] \notin MovesHead
      /\ new_next' = new_next /\ live' = live /\ old_ptr'[t].ptr = p.ptr
  BY PcSets DEF Enters, Counts, Counted
<1>2. PrivateOf(t)' = PrivateOf(t)
  BY <1>1 DEF PrivateOf
<1>3. Private' = Private
  BY <1>2, PrivateStep
<1>4. ASSUME NEW n PROVE /\ TailMovers(n)' = TailMovers(n) /\ HeadMovers(n)' = HeadMovers(n)
                         /\ Holders(n)' = Holders(n) \cup (IF n = p.ptr THEN {t} ELSE {})
                         /\ t \notin Holders(n)
  BY <1>1, MoversStay, HoldersGrow
<1> QED
  BY <1>1, <1>3, <1>4 DEF Linked

LEMMA DropsSets ==
    ASSUME TypeOK, PrivateInv, HoldsInv, ListInv, NEW t \in Threads, Others(t), Drops(t)
    PROVE  /\ Private' = Private \ {new_next[t].ptr} /\ Linked' = Linked
           /\ \A n : /\ TailMovers(n)' = TailMovers(n) /\ HeadMovers(n)' = HeadMovers(n)
                     /\ Holders(n)' = Holders(n)
<1>1. /\ pc[t] = "push_link" /\ pc'[t] \notin PrivatePc /\ pc'[t] \notin Outside
      /\ pc'[t] \notin MovesTail /\ pc'[t] \notin MovesHead
      /\ old_ptr' = old_ptr /\ live' = live \ {new_next[t].ptr}
  BY DEF Drops
<1>2. /\ pc[t] \in PrivatePc /\ pc[t] \notin Outside /\ pc[t] \notin MovesTail /\ pc[t] \notin MovesHead
  BY <1>1, PcSets
<1>3. PrivateOf(t)' = {} /\ PrivateOf(t) = {new_next[t].ptr}
  BY <1>1, <1>2 DEF PrivateOf
<1>4. Private' = Private \ {new_next[t].ptr}
  BY <1>3, PrivateStep
<1>5. new_next[t].ptr \in Private
  BY <1>2 DEF Private
<1>6. Linked' = Linked
  BY <1>1, <1>4, <1>5 DEF Linked
<1>7. ASSUME NEW n PROVE /\ TailMovers(n)' = TailMovers(n) /\ HeadMovers(n)' = HeadMovers(n)
                         /\ Holders(n)' = Holders(n)
  BY <1>1, <1>2, MoversStay, HoldersStay
<1> QED
  BY <1>4, <1>6, <1>7

LEMMA LinksSets ==
    ASSUME TypeOK, PrivateInv, HoldsInv, ListInv, NEW t \in Threads, Others(t), Links(t)
    PROVE  /\ new_next[t].ptr \in Private
           /\ Linked' = Linked \cup {new_next[t].ptr}
           /\ Private' = (Private \ {new_next[t].ptr}) \cup PrivateOf(t)'
           /\ PrivateOf(t)' \cap live = {}
           /\ \A n : /\ TailMovers(n)' = TailMovers(n) /\ HeadMovers(n)' = HeadMovers(n)
                     /\ Holders(n)' = Holders(n)
<1>1. /\ pc[t] \in {"push_link", "push_help"} /\ pc'[t] \notin Outside
      /\ pc'[t] \notin MovesTail /\ pc'[t] \notin MovesHead
      /\ old_ptr' = old_ptr
  BY DEF Links
<1>2. /\ pc[t] \in PrivatePc /\ pc[t] \notin Outside /\ pc[t] \notin MovesTail /\ pc[t] \notin MovesHead
  BY <1>1, PcSets
<1>3. PrivateOf(t) = {new_next[t].ptr}
  BY <1>2 DEF PrivateOf
<1>4. Private' = (Private \ {new_next[t].ptr}) \cup PrivateOf(t)'
  BY <1>3, PrivateStep
<1>5. new_next[t].ptr \in Private /\ Private \subseteq live
  BY <1>2, Private1 DEF Private
<1>6. ASSUME NEW n PROVE /\ TailMovers(n)' = TailMovers(n) /\ HeadMovers(n)' = HeadMovers(n)
                         /\ Holders(n)' = Holders(n)
  BY <1>1, <1>2, MoversStay, HoldersStay
<1>7. CASE live' = live /\ pc'[t] \notin PrivatePc
  <2>1. PrivateOf(t)' = {}
    BY <1>7 DEF PrivateOf
  <2>2. Linked' = Linked \cup {new_next[t].ptr}
    BY <2>1, <1>4, <1>5, <1>7 DEF Linked
  <2> QED
    BY <2>1, <2>2, <1>4, <1>5, <1>6
<1>8. ASSUME NEW n \in Addr \ live, live' = live \cup {n}, new_next'[t].ptr = n, pc'[t] \in PrivatePc
      PROVE  PrivateOf(t)' \cap live = {} /\ Linked' = Linked \cup {new_next[t].ptr}
  <2>1. PrivateOf(t)' = {n}
    BY <1>8 DEF PrivateOf
  <2> QED
    BY <2>1, <1>4, <1>5, <1>8 DEF Linked
<1>9. (live' = live /\ pc'[t] \notin PrivatePc)
      \/ \E n \in Addr \ live : live' = live \cup {n} /\ new_next'[t].ptr = n /\ pc'[t] \in PrivatePc
  <2>1. \A c, n : Counted(c, n).ptr = n
    BY DEF Counted
  <2> QED
    BY <2>1 DEF Links, Counts
<1> QED
  BY <1>4, <1>5, <1>6, <1>7, <1>8, <1>9

LEMMA TailMovesSets ==
    ASSUME TypeOK, PrivateInv, NEW t \in Threads, Others(t), TailMoves(t)
    PROVE  /\ Private' = Private /\ Linked' = Linked
           /\ \A n : /\ TailMovers(n)' = TailMovers(n) \cup (IF n = tail.ptr THEN {t} ELSE {})
                     /\ HeadMovers(n)' = HeadMovers(n)
                     /\ Holders(n)' = Holders(n)
                     /\ t \notin TailMovers(n)
<1>1. /\ pc[t] \in {"push_tail", "push_help_tail"} /\ pc'[t] \in MovesTail
      /\ pc'[t] \in PrivatePc <=> pc[t] \in PrivatePc
      /\ tail.ptr = old_ptr[t].ptr
      /\ old_ptr' = [old_ptr EXCEPT ![t] = tail] /\ new_next' = new_next /\ live' = live
  BY DEF TailMoves, Counts
<1>2. /\ pc[t] \notin Outside /\ pc[t] \notin MovesTail /\ pc[t] \notin MovesHead
      /\ pc'[t] \notin Outside /\ pc'[t] \notin MovesHead
  BY <1>1, PcSets
<1>3. old_ptr'[t].ptr = old_ptr[t].ptr
  BY <1>1 DEF TypeOK
<1>4. PrivateOf(t)' = PrivateOf(t)
  BY <1>1 DEF PrivateOf
<1>5. Private' = Private
  BY <1>4, PrivateStep
<1>6. ASSUME NEW n PROVE HeadMovers(n)' = HeadMovers(n)
  BY <1>2 DEF HeadMovers, MovesHead, Others
<1>7. ASSUME NEW n PROVE Holders(n)' = Holders(n)
  BY <1>2, <1>3, HoldersStay
<1>8. ASSUME NEW n PROVE /\ TailMovers(n)' = TailMovers(n) \cup (IF n = tail.ptr THEN {t} ELSE {})
                         /\ t \notin TailMovers(n)
  BY <1>1, <1>2, <1>3 DEF TailMovers, MovesTail, Others
<1> QED
  BY <1>1, <1>5, <1>6, <1>7, <1>8 DEF Linked

LEMMA HeadMovesSets ==
    ASSUME TypeOK, PrivateInv, NEW t \in Threads, Others(t), HeadMoves(t)
    PROVE  /\ Private' = Private /\ Linked' = Linked
           /\ \A n : /\ HeadMovers(n)' = HeadMovers(n) \cup (IF n = head.ptr THEN {t} ELSE {})
                     /\ TailMovers(n)' = TailMovers(n)
                     /\ Holders(n)' = Holders(n)
                     /\ t \notin HeadMovers(n)
<1>1. /\ pc[t] = "pop_move" /\ pc'[t] = "pop_take" /\ head = old_ptr[t]
      /\ old_ptr' = old_ptr /\ new_next' = new_next /\ live' = live
  BY DEF HeadMoves, Counts
<1>2. PrivateOf(t)' = PrivateOf(t)
  BY <1>1, PcSets DEF PrivateOf
<1>3. Private' = Private
  BY <1>2, PrivateStep
<1>4. ASSUME NEW n PROVE TailMovers(n)' = TailMovers(n)
  BY <1>1 DEF TailMovers, Others
<1>5. ASSUME NEW n PROVE Holders(n)' = Holders(n)
  BY <1>1, HoldersStay DEF Outside
<1>6. ASSUME NEW n PROVE /\ HeadMovers(n)' = HeadMovers(n) \cup (IF n = head.ptr THEN {t} ELSE {})
                         /\ t \notin HeadMovers(n)
  BY <1>1 DEF HeadMovers, Others
<1> QED
  BY <1>1, <1>3, <1>4, <1>5, <1>6 DEF Linked

LEMMA LeavesSets ==
    ASSUME TypeOK, PrivateInv, HoldsInv, ListInv, NEW t \in Threads, Others(t), Leaves(t)
    PROVE  /\ Private' = Private
           /\ old_ptr[t].ptr \in Linked /\ old_ptr[t].ptr \in Addr
           /\ t \in Holders(old_ptr[t].ptr)
           /\ \A n : /\ TailMovers(n)' = TailMovers(n) \ {t}
                     /\ HeadMovers(n)' = HeadMovers(n) \ {t}
                     /\ Holders(n)' = Holders(n) \ {t}
<1>1. /\ pc[t] \notin Outside /\ pc'[t] \in Outside
      /\ pc'[t] \in PrivatePc <=> pc[t] \in PrivatePc
      /\ pc[t] \in PrivatePc => new_next'[t] = new_next[t]
  BY DEF Leaves
<1>2. PrivateOf(t)' = PrivateOf(t)
  BY <1>1 DEF PrivateOf
<1>3. Private' = Private
  BY <1>2, PrivateStep
<1>4. ASSUME NEW n PROVE /\ TailMovers(n)' = TailMovers(n) \ {t}
                         /\ HeadMovers(n)' = HeadMovers(n) \ {t}
                         /\ Holders(n)' = Holders(n) \ {t}
  BY <1>1 DEF TailMovers, HeadMovers, Holders, HoldsReference, Outside, Others
<1>5. old_ptr[t].ptr \in Linked /\ Linked \subseteq Addr
  BY <1>1, Private1
<1>6. t \in Holders(old_ptr[t].ptr)
  BY <1>1, ThreadSets
<1> QED
  BY <1>3, <1>4, <1>5, <1>6

-----------------------------------------------------------------------------
(* What each part of the invariant needs of a step.                         *)
LEMMA PrivateStays ==
    ASSUME PrivateInv, NEW t \in Threads, Others(t),
           \A a \in Private \ PrivateOf(t) :
              /\ a \in live' /\ next'[a] = next[a] /\ data'[a] = data[a]
              /\ internal_count'[a] = internal_count[a] /\ external_counters'[a] = external_counters[a],
           pc'[t] \in PrivatePc =>
              LET p == new_next'[t].ptr
              IN  /\ new_next'[t] = Counted(1, p) /\ p \in live' /\ p \notin Private \ PrivateOf(t)
                  /\ next'[p] = NullPtr /\ data'[p] = NoValue
                  /\ internal_count'[p] = 0 /\ external_counters'[p] = 2
    PROVE  PrivateInv'
<1>1. \A u \in Threads \ {t} : pc[u] \in PrivatePc => new_next[u].ptr \in Private \ PrivateOf(t)
  BY DEF PrivateInv, Private, PrivateOf
<1>2. ASSUME NEW u \in Threads, pc'[u] \in PrivatePc
      PROVE  LET p == new_next'[u].ptr
             IN  /\ new_next'[u] = Counted(1, p) /\ p \in live'
                 /\ next'[p] = NullPtr /\ data'[p] = NoValue
                 /\ internal_count'[p] = 0 /\ external_counters'[p] = 2
  <2>1. CASE u = t
    BY <2>1, <1>2
  <2>2. CASE u # t
    <3>1. pc[u] \in PrivatePc /\ new_next'[u] = new_next[u] /\ pc'[u] = pc[u]
      BY <1>2, <2>2 DEF Others
    <3> QED
      BY <3>1, <1>1, <2>2 DEF PrivateInv
  <2> QED
    BY <2>1, <2>2
<1>3. ASSUME NEW u \in Threads, NEW v \in Threads, pc'[u] \in PrivatePc, pc'[v] \in PrivatePc,
             new_next'[u].ptr = new_next'[v].ptr
      PROVE  u = v
  <2>1. CASE u = t \/ v = t
    BY <2>1, <1>1, <1>3 DEF Others
  <2>2. CASE u # t /\ v # t
    BY <2>2, <1>3 DEF Others, PrivateInv
  <2> QED
    BY <2>1, <2>2
<1> QED
  BY <1>2, <1>3 DEF PrivateInv

LEMMA HoldsStays ==
    ASSUME HoldsInv, NEW t \in Threads, Others(t), first' = first, first \in live',
           Linked \subseteq Linked', pc'[t] \notin Outside => old_ptr'[t].ptr \in Linked'
    PROVE  HoldsInv'
<1>1. ASSUME NEW u \in Threads, pc'[u] \notin Outside PROVE old_ptr'[u].ptr \in Linked'
  BY <1>1 DEF HoldsInv, HoldsReference, Outside, Others
<1> QED
  BY <1>1 DEF HoldsInv, HoldsReference, Outside

LEMMA NodeSets == Nodes = Ahead \cup Passed
BY DEF Nodes

LEMMA SidesStay ==
    ASSUME SidesInv, Linked' = Linked,
           \A n \in Linked : /\ TailMovers(n)' = TailMovers(n) /\ HeadMovers(n)' = HeadMovers(n)
                             /\ internal_count'[n] = internal_count[n]
                             /\ external_counters'[n] = external_counters[n]
    PROVE  SidesInv' /\ Ahead' = Ahead /\ Passed' = Passed
<1>1. \A n \in Linked : Sides(n)' = Sides(n)
  BY SidesStep
<1>2. Ahead' = Ahead
  BY <1>1 DEF Ahead
<1>3. Passed' = Passed
  BY <1>1 DEF Passed
<1>4. SidesInv'
  BY <1>1 DEF SidesInv
<1> QED
  BY <1>2, <1>3, <1>4

LEMMA ReferenceTypes ==
    ASSUME TypeOK, NEW n
    PROVE  /\ TailMovers(n) \subseteq Threads /\ HeadMovers(n) \subseteq Threads /\ Holders(n) \subseteq Threads
           /\ \A p \in CountedNodePtr : Through(p, n) \in Int
           /\ Unsettled(TailMovers(n), n) \in Int /\ Unsettled(HeadMovers(n), n) \in Int
           /\ IsFiniteSet(Holders(n)) /\ Cardinality(Holders(n)) \in Nat
           /\ Cardinality(Holders(n)) < InternalWrap - 2
           /\ n \in Addr => References(n) \in Int
           /\ Held(n) \in Int
<1>1. TailMovers(n) \subseteq Threads /\ HeadMovers(n) \subseteq Threads /\ Holders(n) \subseteq Threads
  BY DEF TailMovers, HeadMovers, Holders
<1>2. \A p \in CountedNodePtr : Through(p, n) \in Int
  BY DEF Through, CountedNodePtr
<1>3. \A M \in SUBSET Threads : Unsettled(M, n) \in Int
  BY <1>2 DEF Unsettled, TypeOK
<1>4. Unsettled(TailMovers(n), n) \in Int /\ Unsettled(HeadMovers(n), n) \in Int
  BY <1>1, <1>3
<1>5. /\ IsFiniteSet(Holders(n)) /\ Cardinality(Holders(n)) \in Nat
      /\ Cardinality(Holders(n)) <= Cardinality(Threads) /\ Cardinality(Threads) \in Nat
  BY <1>1, ThreadsAssumption, FS_Subset, FS_CardinalityType
<1>6. Cardinality(Holders(n)) < InternalWrap - 2
  BY <1>5, ThreadsAssumption, Wraps
<1>7. n \in Addr => References(n) \in Int
  BY <1>2, <1>4, Wraps DEF References, TypeOK
<1>8. Held(n) \in Int
  BY <1>5 DEF Held
<1> QED
  BY <1>1, <1>2, <1>4, <1>5, <1>6, <1>7, <1>8

LEMMA ReferenceInts == TypeOK => \A n \in Addr : References(n) \in Int /\ Held(n) \in Int
BY ReferenceTypes

LEMMA ReferenceIntsNext == TypeOK' => \A n \in Addr : References(n)' \in Int /\ Held(n)' \in Int
<1>1. TypeOK' => (\A n \in Addr : References(n) \in Int /\ Held(n) \in Int)'
  BY ReferenceInts, PTL
<1> QED
  BY <1>1

LEMMA UnsettledStays ==
    ASSUME NEW n, TailMovers(n)' = TailMovers(n), HeadMovers(n)' = HeadMovers(n),
           \A u \in TailMovers(n) \cup HeadMovers(n) : old_ptr'[u] = old_ptr[u]
    PROVE  /\ Unsettled(TailMovers(n), n)' = Unsettled(TailMovers(n), n)
           /\ Unsettled(HeadMovers(n), n)' = Unsettled(HeadMovers(n), n)
BY DEF Unsettled, Through

(* The movers of other threads keep their pointers.                         *)
LEMMA MoversKeep ==
    ASSUME NEW t \in Threads, Others(t), NEW n, t \notin TailMovers(n) \cup HeadMovers(n)
    PROVE  \A u \in TailMovers(n) \cup HeadMovers(n) : old_ptr'[u] = old_ptr[u]
BY DEF Others, TailMovers, HeadMovers

(* A count balanced before stays so when both sides change by the same.     *)
LEMMA BalanceMoves ==
    ASSUME TypeOK, TypeOK', NEW n \in Addr, Balanced(n),
           References(n)' - References(n) = Held(n)' - Held(n),
           \A t, u \in TailMovers(n)' : t = u,
           \A t, u \in HeadMovers(n)' : t = u
    PROVE  Balanced(n)'
<1>1. References(n) \in Int /\ Held(n) \in Int
  BY ReferenceTypes
<1>2. References(n)' \in Int /\ Held(n)' \in Int
  BY ReferenceIntsNext
<1>3. References(n) % InternalWrap = Held(n) % InternalWrap
  BY DEF Balanced
<1>4. References(n)' % InternalWrap = Held(n)' % InternalWrap
  BY <1>1, <1>2, <1>3, CountsMove
<1>5. (InternalWrap)' = InternalWrap
  BY DEF InternalWrap
<1> QED
  BY <1>4, <1>5 DEF Balanced

LEMMA BalanceStays ==
    ASSUME TypeOK, TypeOK', NEW t \in Threads, Others(t), NEW n \in Addr, Balanced(n),
           TailMovers(n)' = TailMovers(n), HeadMovers(n)' = HeadMovers(n),
           t \in TailMovers(n) \cup HeadMovers(n) => old_ptr'[t] = old_ptr[t],
           Holders(n)' = Holders(n), first' = first, internal_count'[n] = internal_count[n],
           head' = head, tail' = tail
    PROVE  Balanced(n)'
<1>1. \A u \in TailMovers(n) \cup HeadMovers(n) : old_ptr'[u] = old_ptr[u]
  BY DEF Others, TailMovers, HeadMovers
<1>2. /\ Unsettled(TailMovers(n), n)' = Unsettled(TailMovers(n), n)
      /\ Unsettled(HeadMovers(n), n)' = Unsettled(HeadMovers(n), n)
  BY <1>1, UnsettledStays
<1>3. References(n)' = References(n)
  BY <1>2 DEF References, Through
<1>4. Held(n)' = Held(n)
  BY DEF Held
<1>5. (\A v, u \in TailMovers(n)' : v = u) /\ (\A v, u \in HeadMovers(n)' : v = u)
  BY DEF Balanced
<1>6. References(n) % InternalWrap = Held(n) % InternalWrap
  BY DEF Balanced
<1> QED
  BY <1>3, <1>4, <1>5, <1>6 DEF Balanced

-----------------------------------------------------------------------------
(* The list as the step leaves it.                                          *)
ListStays ==
    /\ Linked' \subseteq Linked
    /\ Ahead' = Ahead /\ Passed' = Passed
    /\ head'.ptr = head.ptr /\ tail'.ptr = tail.ptr
    /\ \A n \in Linked : next'[n] = next[n]

ListGrows(t) ==
    LET o == old_ptr[t].ptr
        m == new_next[t].ptr
    IN  /\ m \in Addr \ Linked
        /\ o = tail.ptr /\ next[o] = NullPtr
        /\ Linked' = Linked \cup {m} /\ Ahead' = Ahead \cup {m} /\ Passed' = Passed
        /\ head' = head /\ tail' = tail
        /\ next'[m] = NullPtr /\ next'[o] = Counted(1, m) /\ \A n \in Linked \ {o} : next'[n] = next[n]

TailSteps(t) ==
    /\ tail.ptr = old_ptr[t].ptr
    /\ tail' = target[t] /\ head' = head
    /\ Linked' = Linked /\ Ahead' = Ahead \ {tail.ptr} /\ Passed' = Passed \cup {tail.ptr}
    /\ next' = next

HeadSteps(t) ==
    /\ head.ptr = old_ptr[t].ptr
    /\ target[t] = next[head.ptr] /\ head.ptr \notin Ahead
    /\ head' = target[t] /\ tail' = tail
    /\ Linked' = Linked /\ Ahead' = Ahead /\ Passed' = Passed \ {head.ptr}
    /\ next' = next

MemoryNext == PrivateInv' /\ HoldsInv' /\ SidesInv' /\ ReferenceBalance'

LEMMA QuietKeeps ==
    ASSUME MemoryInv, TypeOK', NEW t \in Threads, Others(t), Quiet(t),
           \A a \in Private : data'[a] = data[a]
    PROVE  MemoryNext /\ ListStays
<1>1. /\ TypeOK /\ PrivateInv /\ HoldsInv /\ SidesInv /\ ListInv /\ ReferenceBalance
  BY DEF MemoryInv
<1>2. /\ head' = head /\ tail' = tail /\ next' = next /\ internal_count' = internal_count
      /\ external_counters' = external_counters /\ live' = live /\ first' = first
      /\ new_next' = new_next /\ old_ptr' = old_ptr
      /\ pc'[t] \in PrivatePc <=> pc[t] \in PrivatePc
      /\ pc'[t] \in Outside <=> pc[t] \in Outside
  BY DEF Quiet, Counts
<1>3. /\ Private' = Private /\ Linked' = Linked
      /\ \A n : /\ TailMovers(n)' = TailMovers(n) /\ HeadMovers(n)' = HeadMovers(n)
                /\ Holders(n)' = Holders(n)
  BY <1>1, QuietSets
<1>4. /\ Private \subseteq live /\ live \subseteq Addr /\ first \in live
      /\ pc[t] \in PrivatePc => new_next[t].ptr \in Private
      /\ pc[t] \notin Outside => old_ptr[t].ptr \in Linked
  BY <1>1, Private1 DEF HoldsInv
<1>5. PrivateInv'
  BY <1>1, <1>2, <1>4, PrivateStays DEF PrivateOf, PrivateInv
<1>6. HoldsInv'
  BY <1>1, <1>2, <1>3, <1>4, HoldsStays
<1>7. SidesInv' /\ Ahead' = Ahead /\ Passed' = Passed
  BY <1>1, <1>2, <1>3, SidesStay
<1>8. ReferenceBalance'
  <2>1. ASSUME NEW n \in live PROVE Balanced(n)'
    BY <1>1, <1>2, <1>3, <1>4, BalanceStays DEF ReferenceBalance
  <2> QED
    BY <2>1, <1>2 DEF ReferenceBalance
<1> QED
  BY <1>2, <1>3, <1>5, <1>6, <1>7, <1>8 DEF MemoryNext, ListStays

(* A node that is new has no references, whatever its address held before.  *)
LEMMA FreshBalance ==
    ASSUME MemoryInv, TypeOK', NEW e \in Addr \ live, internal_count'[e] = 0,
           head' = head, tail' = tail, first' = first,
           TailMovers(e)' = TailMovers(e), HeadMovers(e)' = HeadMovers(e), Holders(e)' = Holders(e)
    PROVE  Balanced(e)'
<1>1. /\ TypeOK /\ PrivateInv /\ HoldsInv /\ ListInv
  BY DEF MemoryInv
<1>2. TailMovers(e) = {} /\ HeadMovers(e) = {} /\ Holders(e) = {} /\ head.ptr # e /\ tail.ptr # e /\ first # e
  BY <1>1, Private1 DEF HoldsInv
<1>3. References(e)' = 0
  BY <1>2 DEF References, Through, Unsettled
<1>4. Held(e)' = 0
  BY <1>2, FS_EmptySet DEF Held
<1> QED
  BY <1>2, <1>3, <1>4 DEF Balanced

LEMMA AllocatesKeeps ==
    ASSUME MemoryInv, TypeOK', NEW t \in Threads, Others(t), NEW e \in Addr, Allocates(t, e)
    PROVE  MemoryNext /\ ListStays
<1>1. /\ TypeOK /\ PrivateInv /\ HoldsInv /\ SidesInv /\ ListInv /\ ReferenceBalance
  BY DEF MemoryInv
<1>2. /\ head' = head /\ tail' = tail /\ first' = first /\ old_ptr' = old_ptr
      /\ e \notin live /\ live' = live \cup {e}
      /\ data' = [data EXCEPT ![e] = NoValue]
      /\ next' = [next EXCEPT ![e] = NullPtr]
      /\ internal_count' = [internal_count EXCEPT ![e] = 0]
      /\ external_counters' = [external_counters EXCEPT ![e] = 2]
      /\ new_next'[t] = Counted(1, e) /\ new_next'[t].ptr = e
      /\ pc[t] \notin PrivatePc /\ pc'[t] \in Outside
  BY DEF Allocates, NodeConstructed, Counted
<1>3. /\ Private' = Private \cup {e} /\ Linked' = Linked /\ e \notin Linked
      /\ \A n : /\ TailMovers(n)' = TailMovers(n) /\ HeadMovers(n)' = HeadMovers(n)
                /\ Holders(n)' = Holders(n)
  BY <1>1, AllocatesSets
<1>4. /\ Private \subseteq live /\ live \subseteq Addr /\ first \in live /\ Linked \subseteq live
  BY <1>1, Private1 DEF HoldsInv
<1>5. /\ \A n \in Addr : n # e => /\ next'[n] = next[n] /\ data'[n] = data[n]
                                  /\ internal_count'[n] = internal_count[n]
                                  /\ external_counters'[n] = external_counters[n]
      /\ next'[e] = NullPtr /\ data'[e] = NoValue /\ internal_count'[e] = 0 /\ external_counters'[e] = 2
  BY <1>1, <1>2 DEF TypeOK
<1>6. PrivateInv'
  BY <1>1, <1>2, <1>4, <1>5, PrivateStays
<1>7. HoldsInv'
  BY <1>1, <1>2, <1>3, <1>4, HoldsStays
<1>8. \A n \in Linked : n \in Addr /\ n # e
  BY <1>2, <1>4
<1>9. SidesInv' /\ Ahead' = Ahead /\ Passed' = Passed
  BY <1>1, <1>3, <1>5, <1>8, SidesStay
<1>10. ASSUME NEW n \in live PROVE Balanced(n)'
  BY <1>1, <1>2, <1>3, <1>4, <1>5, BalanceStays DEF ReferenceBalance
<1>11. Balanced(e)'
  BY <1>2, <1>3, <1>5, FreshBalance
<1>12. ReferenceBalance'
  BY <1>2, <1>10, <1>11 DEF ReferenceBalance
<1> QED
  BY <1>2, <1>3, <1>5, <1>6, <1>7, <1>8, <1>9, <1>12 DEF MemoryNext, ListStays

LEMMA ReferencesMove ==
    ASSUME NEW n, NEW k \in Int, internal_count'[n] = internal_count[n],
           Unsettled(TailMovers(n), n)' = Unsettled(TailMovers(n), n),
           Unsettled(HeadMovers(n), n)' = Unsettled(HeadMovers(n), n),
           internal_count[n] \in Int, Through(head, n) \in Int, Through(tail, n) \in Int,
           Unsettled(TailMovers(n), n) \in Int, Unsettled(HeadMovers(n), n) \in Int,
           Through(head, n)' \in Int, Through(tail, n)' \in Int,
           Through(head, n)' + Through(tail, n)' = Through(head, n) + Through(tail, n) + k
    PROVE  References(n)' = References(n) + k
<1>1. References(n)' = internal_count[n] + Through(head, n)' + Through(tail, n)'
         + Unsettled(TailMovers(n), n) + Unsettled(HeadMovers(n), n)
  BY DEF References
<1>2. References(n) = internal_count[n] + Through(head, n) + Through(tail, n)
         + Unsettled(TailMovers(n), n) + Unsettled(HeadMovers(n), n)
  BY DEF References
<1> QED
  BY <1>1, <1>2

LEMMA EntersKeeps ==
    ASSUME MemoryInv, TypeOK', NEW t \in Threads, Others(t),
           \/ Enters(t, tail) /\ tail' = old_ptr'[t] /\ head' = head
           \/ Enters(t, head) /\ head' = old_ptr'[t] /\ tail' = tail
    PROVE  MemoryNext /\ ListStays
<1>1. /\ TypeOK /\ PrivateInv /\ HoldsInv /\ SidesInv /\ ListInv /\ ReferenceBalance
  BY DEF MemoryInv
<1>2. PICK p : /\ Enters(t, p) /\ p \in {head, tail} /\ p \in CountedNodePtr
               /\ \/ p = tail /\ tail' = old_ptr'[t] /\ head' = head
                  \/ p = head /\ head' = old_ptr'[t] /\ tail' = tail
  BY <1>1 DEF TypeOK
<1>3. /\ next' = next /\ data' = data /\ internal_count' = internal_count
      /\ external_counters' = external_counters /\ live' = live /\ first' = first
      /\ new_next' = new_next
      /\ pc'[t] \in PrivatePc <=> pc[t] \in PrivatePc
      /\ old_ptr'[t].ptr = p.ptr /\ old_ptr'[t].external_count = p.external_count + 1
      /\ pc[t] \in Outside
  BY <1>2 DEF Enters, Counts, Counted
<1>4. /\ Private' = Private /\ Linked' = Linked
      /\ \A n : /\ TailMovers(n)' = TailMovers(n) /\ HeadMovers(n)' = HeadMovers(n)
                /\ Holders(n)' = Holders(n) \cup (IF n = p.ptr THEN {t} ELSE {})
                /\ t \notin Holders(n)
  BY <1>1, <1>2, EntersSets
<1>5. /\ Private \subseteq live /\ live \subseteq Addr /\ first \in live /\ p.ptr \in Linked
      /\ pc[t] \in PrivatePc => new_next[t].ptr \in Private
  BY <1>1, <1>2, Private1 DEF HoldsInv
<1>6. PrivateInv'
  BY <1>1, <1>3, <1>5, PrivateStays DEF PrivateOf, PrivateInv
<1>7. HoldsInv'
  BY <1>1, <1>3, <1>4, <1>5, HoldsStays
<1>8. SidesInv' /\ Ahead' = Ahead /\ Passed' = Passed
  BY <1>1, <1>3, <1>4, SidesStay
<1>9. ASSUME NEW n \in live PROVE Balanced(n)'
  <2>1. t \notin TailMovers(n) \cup HeadMovers(n)
    BY <1>3, ThreadSets, PcSets
  <2>2. /\ Unsettled(TailMovers(n), n)' = Unsettled(TailMovers(n), n)
        /\ Unsettled(HeadMovers(n), n)' = Unsettled(HeadMovers(n), n)
    BY <2>1, <1>4, MoversKeep, UnsettledStays
  <2>3. /\ Through(head, n) \in Int /\ Through(tail, n) \in Int /\ internal_count[n] \in Int
        /\ Unsettled(TailMovers(n), n) \in Int /\ Unsettled(HeadMovers(n), n) \in Int
        /\ IsFiniteSet(Holders(n)) /\ Cardinality(Holders(n)) \in Nat
    BY <1>1, <1>5, ReferenceTypes, Wraps DEF TypeOK
  <2>4. Through(head, n)' + Through(tail, n)'
           = Through(head, n) + Through(tail, n) + (IF n = p.ptr THEN 1 ELSE 0)
    BY <1>1, <1>2, <1>3, <2>3 DEF Through, CountedNodePtr
  <2>5. Cardinality(Holders(n)') = Cardinality(Holders(n)) + (IF n = p.ptr THEN 1 ELSE 0)
    <3>1. CASE n = p.ptr
      <4>1. Holders(n)' = Holders(n) \cup {t} /\ t \notin Holders(n)
        BY <3>1, <1>4
      <4> QED
        BY <3>1, <4>1, <2>3, FS_AddElement
    <3>2. CASE n # p.ptr
      <4>1. Holders(n)' = Holders(n)
        BY <3>2, <1>4
      <4> QED
        BY <3>2, <4>1, <2>3
    <3> QED
      BY <3>1, <3>2
  <2>6. /\ \A v, u \in TailMovers(n)' : v = u
        /\ \A v, u \in HeadMovers(n)' : v = u
    BY <1>4, <1>1 DEF ReferenceBalance, Balanced
  <2>7. Through(head, n)' \in Int /\ Through(tail, n)' \in Int
    BY DEF Through, TypeOK, CountedNodePtr
  <2>8. References(n)' = References(n) + (IF n = p.ptr THEN 1 ELSE 0)
    <3>1. (IF n = p.ptr THEN 1 ELSE 0) \in Int
      OBVIOUS
    <3> QED
      BY <1>3, <2>2, <2>3, <2>4, <2>7, <3>1, ReferencesMove
  <2>9. Held(n)' = Held(n) + (IF n = p.ptr THEN 1 ELSE 0)
    BY <1>3, <2>3, <2>5 DEF Held
  <2>10. References(n) \in Int /\ Held(n) \in Int /\ n \in Addr
    BY <1>1, <1>5, ReferenceTypes
  <2>11. References(n)' - References(n) = Held(n)' - Held(n)
    BY <2>8, <2>9, <2>10
  <2> QED
    BY <1>1, <2>6, <2>10, <2>11, BalanceMoves DEF ReferenceBalance
<1>10. ReferenceBalance'
  BY <1>3, <1>9 DEF ReferenceBalance
<1>11. head'.ptr = head.ptr /\ tail'.ptr = tail.ptr
  BY <1>2, <1>3
<1> QED
  BY <1>3, <1>4, <1>6, <1>7, <1>8, <1>10, <1>11 DEF MemoryNext, ListStays

LEMMA DropsKeeps ==
    ASSUME MemoryInv, TypeOK', NEW t \in Threads, Others(t), Drops(t)
    PROVE  MemoryNext /\ ListStays
<1>1. /\ TypeOK /\ PrivateInv /\ HoldsInv /\ SidesInv /\ ListInv /\ ReferenceBalance
  BY DEF MemoryInv
<1>2. /\ head' = head /\ tail' = tail /\ next' = next /\ data' = data /\ internal_count' = internal_count
      /\ external_counters' = external_counters /\ first' = first /\ old_ptr' = old_ptr
      /\ live' = live \ {new_next[t].ptr}
      /\ pc[t] = "push_link" /\ pc'[t] \notin PrivatePc
  BY DEF Drops
<1>3. /\ Private' = Private \ {new_next[t].ptr} /\ Linked' = Linked
      /\ \A n : /\ TailMovers(n)' = TailMovers(n) /\ HeadMovers(n)' = HeadMovers(n)
                /\ Holders(n)' = Holders(n)
  BY <1>1, DropsSets
<1>4. /\ Private \subseteq live /\ live \subseteq Addr /\ pc[t] \in PrivatePc /\ pc[t] \notin Outside
      /\ new_next[t].ptr \in Private /\ old_ptr[t].ptr \in Linked /\ PrivateOf(t) = {new_next[t].ptr}
  BY <1>1, <1>2, Private1, PcSets DEF PrivateOf
<1>5. PrivateInv'
  BY <1>1, <1>2, <1>4, PrivateStays
<1>6. first \in live'
  <2>1. first \in live /\ internal_count[new_next[t].ptr] = 0 /\ external_counters[new_next[t].ptr] = 2
    BY <1>1, <1>4, Private1 DEF HoldsInv
  <2>2. Balanced(new_next[t].ptr)
    BY <1>1, <1>4 DEF ReferenceBalance
  <2>3. /\ TailMovers(new_next[t].ptr) = {} /\ HeadMovers(new_next[t].ptr) = {}
        /\ Holders(new_next[t].ptr) = {} /\ head.ptr # new_next[t].ptr /\ tail.ptr # new_next[t].ptr
    BY <1>1, <1>4, Private1 DEF Linked
  <2>4. References(new_next[t].ptr) = 0
    BY <2>1, <2>3 DEF References, Through, Unsettled
  <2>5. Held(new_next[t].ptr) = IF new_next[t].ptr = first THEN 2 ELSE 0
    BY <2>3, FS_EmptySet DEF Held
  <2>6. 0 % InternalWrap = 0 /\ 2 % InternalWrap = 2
    BY CountsSmall, Wraps
  <2> QED
    BY <2>1, <2>2, <2>4, <2>5, <2>6, <1>2 DEF Balanced
<1>7. HoldsInv'
  BY <1>1, <1>2, <1>3, <1>4, <1>6, HoldsStays
<1>8. SidesInv' /\ Ahead' = Ahead /\ Passed' = Passed
  BY <1>1, <1>2, <1>3, SidesStay
<1>9. ReferenceBalance'
  <2>1. ASSUME NEW n \in live PROVE Balanced(n)'
    BY <1>1, <1>2, <1>3, <1>4, BalanceStays DEF ReferenceBalance
  <2> QED
    BY <2>1, <1>2 DEF ReferenceBalance
<1> QED
  BY <1>2, <1>3, <1>5, <1>7, <1>8, <1>9 DEF MemoryNext, ListStays

LEMMA LinksKeeps ==
    ASSUME MemoryInv, TypeOK', NEW t \in Threads, Others(t), Links(t)
    PROVE  MemoryNext /\ ListGrows(t)
<1> DEFINE o == old_ptr[t].ptr
<1>0. PICK m : m = new_next[t].ptr
  OBVIOUS
<1>1. /\ TypeOK /\ PrivateInv /\ HoldsInv /\ SidesInv /\ ListInv /\ LocalInv /\ ReferenceBalance
  BY DEF MemoryInv
<1>2. /\ pc[t] \in {"push_link", "push_help"} /\ pc'[t] \notin Outside
      /\ head' = head /\ tail' = tail /\ first' = first /\ old_ptr' = old_ptr /\ next[o] = NullPtr
  BY DEF Links
<1>3. /\ m \in Private
      /\ Linked' = Linked \cup {m}
      /\ Private' = (Private \ {m}) \cup PrivateOf(t)'
      /\ PrivateOf(t)' \cap live = {}
      /\ \A n : /\ TailMovers(n)' = TailMovers(n) /\ HeadMovers(n)' = HeadMovers(n)
                /\ Holders(n)' = Holders(n)
  BY <1>0, <1>1, LinksSets
<1>4. /\ pc[t] \in PrivatePc /\ pc[t] \notin Outside /\ PrivateOf(t) = {m}
  BY <1>0, <1>2, PcSets DEF PrivateOf
<1>5. /\ Private \subseteq live /\ live \subseteq Addr /\ o \in Linked /\ Linked \subseteq live
      /\ m \in Addr \ Linked /\ first \in live /\ new_next[t] = Counted(1, m)
      /\ next[m] = NullPtr /\ data[m] = NoValue /\ internal_count[m] = 0 /\ external_counters[m] = 2
      /\ TailMovers(m) = {} /\ HeadMovers(m) = {}
  BY <1>0, <1>1, <1>3, <1>4, Private1 DEF HoldsInv, PrivateInv, Linked
<1>6. o \in Ahead /\ o = tail.ptr
  BY <1>1, <1>2, <1>4, <1>5 DEF ListInv, LocalInv, LocalOf, HoldsReference, Outside
<1>7. PICK F \in SUBSET (Addr \ live) :
         /\ F = PrivateOf(t)'
         /\ live' = live \cup F
         /\ \A n \in Addr : n \notin F \cup {o} => next'[n] = next[n]
         /\ next'[o] = Counted(1, m)
         /\ \A n \in Addr \ F : /\ data'[n] = data[n] /\ internal_count'[n] = internal_count[n]
                                /\ external_counters'[n] = external_counters[n]
         /\ \A n \in F : /\ next'[n] = NullPtr /\ data'[n] = NoValue /\ internal_count'[n] = 0
                         /\ external_counters'[n] = 2 /\ new_next'[t] = Counted(1, n)
  <2>1. CASE /\ next' = [next EXCEPT ![o] = new_next[t]]
             /\ pc'[t] \notin PrivatePc
             /\ UNCHANGED <<data, Counts>>
    <3>1. PrivateOf(t)' = {}
      BY <2>1 DEF PrivateOf
    <3>2. \A n \in Addr : n # o => next'[n] = next[n]
      BY <2>1, <1>1 DEF TypeOK
    <3>3. next'[o] = Counted(1, m)
      BY <2>1, <1>1, <1>5 DEF TypeOK
    <3>4. data' = data /\ internal_count' = internal_count /\ external_counters' = external_counters /\ live' = live
      BY <2>1 DEF Counts
    <3> QED
      BY <3>1, <3>2, <3>3, <3>4
  <2>2. ASSUME NEW n \in Addr \ live, live' = live \cup {n},
               data' = [data EXCEPT ![n] = NoValue],
               next' = [next EXCEPT ![n] = NullPtr, ![o] = new_next[t]],
               internal_count' = [internal_count EXCEPT ![n] = 0],
               external_counters' = [external_counters EXCEPT ![n] = 2],
               new_next'[t] = Counted(new_next[t].external_count, n),
               pc'[t] \in PrivatePc
        PROVE  /\ PrivateOf(t)' = {n}
               /\ \A k \in Addr : k \notin {n, o} => next'[k] = next[k]
               /\ next'[o] = Counted(1, m)
               /\ \A k \in Addr \ {n} : /\ data'[k] = data[k] /\ internal_count'[k] = internal_count[k]
                                      /\ external_counters'[k] = external_counters[k]
               /\ next'[n] = NullPtr /\ data'[n] = NoValue /\ internal_count'[n] = 0
               /\ external_counters'[n] = 2 /\ new_next'[t] = Counted(1, n)
    <3>1. new_next'[t] = Counted(1, n) /\ new_next'[t].ptr = n
      BY <1>5, <2>2 DEF Counted
    <3>2. PrivateOf(t)' = {n}
      BY <2>2, <3>1 DEF PrivateOf
    <3>3. n # o
      BY <1>5, <2>2
    <3>4. /\ \A k \in Addr : k \notin {n, o} => next'[k] = next[k]
          /\ next'[o] = Counted(1, m) /\ next'[n] = NullPtr
      BY <1>1, <1>5, <2>2, <3>3 DEF TypeOK
    <3>5. /\ \A k \in Addr \ {n} : /\ data'[k] = data[k] /\ internal_count'[k] = internal_count[k]
                                 /\ external_counters'[k] = external_counters[k]
          /\ data'[n] = NoValue /\ internal_count'[n] = 0 /\ external_counters'[n] = 2
      BY <1>1, <2>2 DEF TypeOK
    <3> QED
      BY <3>1, <3>2, <3>4, <3>5
  <2>3. ASSUME NEW n \in Addr \ live, live' = live \cup {n},
               data' = [data EXCEPT ![n] = NoValue],
               next' = [next EXCEPT ![n] = NullPtr, ![o] = new_next[t]],
               internal_count' = [internal_count EXCEPT ![n] = 0],
               external_counters' = [external_counters EXCEPT ![n] = 2],
               new_next'[t] = Counted(new_next[t].external_count, n),
               pc'[t] \in PrivatePc
        PROVE  \E F \in SUBSET (Addr \ live) :
         /\ F = PrivateOf(t)'
         /\ live' = live \cup F
         /\ \A k \in Addr : k \notin F \cup {o} => next'[k] = next[k]
         /\ next'[o] = Counted(1, m)
         /\ \A k \in Addr \ F : /\ data'[k] = data[k] /\ internal_count'[k] = internal_count[k]
                                /\ external_counters'[k] = external_counters[k]
         /\ \A k \in F : /\ next'[k] = NullPtr /\ data'[k] = NoValue /\ internal_count'[k] = 0
                         /\ external_counters'[k] = 2 /\ new_next'[t] = Counted(1, k)
    <3> WITNESS {n} \in SUBSET (Addr \ live)
    <3> QED
      BY <2>2, <2>3
  <2> QED
    BY <2>1, <2>3 DEF Links
<1>8. PrivateInv'
  <2>1. \A a \in Private \ PrivateOf(t) :
              /\ a \in live' /\ next'[a] = next[a] /\ data'[a] = data[a]
              /\ internal_count'[a] = internal_count[a] /\ external_counters'[a] = external_counters[a]
    BY <1>5, <1>7 DEF Linked
  <2>2. ASSUME pc'[t] \in PrivatePc
        PROVE  LET p == new_next'[t].ptr
               IN  /\ new_next'[t] = Counted(1, p) /\ p \in live' /\ p \notin Private \ PrivateOf(t)
                   /\ next'[p] = NullPtr /\ data'[p] = NoValue
                   /\ internal_count'[p] = 0 /\ external_counters'[p] = 2
    <3>1. new_next'[t].ptr \in F
      BY <1>7, <2>2 DEF PrivateOf
    <3> QED
      BY <3>1, <1>5, <1>7
  <2> QED
    BY <1>1, <2>1, <2>2, PrivateStays
<1>9. HoldsInv'
  BY <1>1, <1>2, <1>3, <1>5, <1>7, HoldsStays
<1>10. /\ external_counters'[m] = 2
       /\ \A n \in Linked : /\ external_counters'[n] = external_counters[n]
                            /\ internal_count'[n] = internal_count[n]
                            /\ n \notin F
       /\ next'[m] = NullPtr /\ m \notin F
  BY <1>3, <1>5, <1>7
<1>11. Sides(m)' = 2 /\ \A n \in Linked : Sides(n)' = Sides(n)
  <2>1. \A n \in Linked : Sides(n)' = Sides(n)
    BY <1>3, <1>10, SidesStep
  <2>2. Sides(m)' = 2
    BY <1>3, <1>5, <1>10 DEF Sides, One
  <2> QED
    BY <2>1, <2>2
<1>12. Ahead' = Ahead \cup {m}
  BY <1>3, <1>11 DEF Ahead
<1>13. Passed' = Passed
  BY <1>3, <1>11 DEF Passed
<1>14. SidesInv'
  <2>1. ASSUME NEW n \in Linked \cup {m}
        PROVE  /\ Sides(n)' \in 0 .. 2
               /\ TailMovers(n)' # {} => Sides(n)' \in 0 .. 1
               /\ HeadMovers(n)' # {} => Sides(n)' = 0
               /\ internal_count'[n] # 0 \/ external_counters'[n] # 0
    BY <1>1, <1>3, <1>5, <1>10, <1>11 DEF SidesInv
  <2> QED
    BY <2>1, <1>3 DEF SidesInv
<1>15. ReferenceBalance'
  <2>1. ASSUME NEW n \in live PROVE Balanced(n)'
    BY <1>1, <1>2, <1>3, <1>5, <1>7, BalanceStays DEF ReferenceBalance
  <2>2. ASSUME NEW n \in F PROVE Balanced(n)'
    BY <1>2, <1>3, <1>7, FreshBalance
  <2> QED
    BY <2>1, <2>2, <1>7 DEF ReferenceBalance
<1>16. \A n \in Linked \ {o} : next'[n] = next[n]
  BY <1>5, <1>7, <1>10
<1> QED
  BY <1>0, <1>2, <1>3, <1>5, <1>6, <1>7, <1>8, <1>9, <1>10, <1>12, <1>13, <1>14, <1>15, <1>16 DEF MemoryNext, ListGrows

LEMMA TailMovesKeeps ==
    ASSUME MemoryInv, TypeOK', NEW t \in Threads, Others(t), TailMoves(t)
    PROVE  MemoryNext /\ TailSteps(t)
<1>0. PICK o : o = tail.ptr
  OBVIOUS
<1>1. /\ TypeOK /\ PrivateInv /\ HoldsInv /\ SidesInv /\ ListInv /\ LocalInv /\ ReferenceBalance
  BY DEF MemoryInv
<1>2. /\ pc[t] \in {"push_tail", "push_help_tail"} /\ pc'[t] \in MovesTail
      /\ pc'[t] \in PrivatePc <=> pc[t] \in PrivatePc
      /\ o = old_ptr[t].ptr
      /\ tail' = target[t] /\ head' = head
      /\ old_ptr' = [old_ptr EXCEPT ![t] = tail] /\ new_next' = new_next /\ live' = live
      /\ next' = next /\ data' = data /\ internal_count' = internal_count
      /\ external_counters' = external_counters /\ first' = first
  BY <1>0 DEF TailMoves, Counts
<1>3. /\ Private' = Private /\ Linked' = Linked
      /\ \A n : /\ TailMovers(n)' = TailMovers(n) \cup (IF n = o THEN {t} ELSE {})
                /\ HeadMovers(n)' = HeadMovers(n)
                /\ Holders(n)' = Holders(n)
                /\ t \notin TailMovers(n)
  BY <1>0, <1>1, TailMovesSets
<1>4. /\ Private \subseteq live /\ live \subseteq Addr /\ first \in live /\ o \in Linked /\ o \in Addr
      /\ pc[t] \in PrivatePc => new_next[t].ptr \in Private
      /\ pc[t] \notin MovesHead /\ pc[t] \notin Outside
      /\ old_ptr'[t] = tail /\ o \in Ahead /\ o \in live
  BY <1>0, <1>1, <1>2, Private1, PcSets DEF HoldsInv, TypeOK, ListInv
<1>5. target[t] = next[o] /\ next[o] # NullPtr /\ next[o].ptr # o /\ next[o].external_count = 1
  <2>1. target[t] = next[o] /\ next[o] # NullPtr
    BY <1>1, <1>2 DEF LocalInv, LocalOf
  <2>2. o \in Nodes /\ next[o].ptr # o
    BY <2>1, <1>0, <1>1, <1>4 DEF ListInv, Nodes
  <2>3. next[o] = Counted(1, next[o].ptr)
    BY <2>1, <2>2, <1>1 DEF ListInv
  <2>4. \A n : Counted(1, n).external_count = 1
    BY DEF Counted
  <2>5. next[o].external_count = 1
    BY <2>3, <2>4
  <2> QED
    BY <2>1, <2>2, <2>5
<1>6. Sides(o) = 2 /\ TailMovers(o) = {} /\ HeadMovers(o) = {} /\ external_counters[o] = 2
  <2>1. Sides(o) = 2
    BY <1>4 DEF Ahead
  <2>2. TailMovers(o) = {} /\ HeadMovers(o) = {}
    BY <2>1, <1>1, <1>4 DEF SidesInv
  <2> QED
    BY <2>1, <2>2, <1>1, <1>4, Wraps DEF Sides, One, TypeOK
<1>7. TailMovers(o)' = {t} /\ HeadMovers(o)' = {}
  BY <1>3, <1>6
<1>8. Sides(o)' = 1 /\ \A n \in Linked \ {o} : Sides(n)' = Sides(n)
  <2>1. Sides(o)' = 1
    BY <1>2, <1>6, <1>7 DEF Sides, One
  <2>2. \A n \in Linked \ {o} : Sides(n)' = Sides(n)
    BY <1>2, <1>3, SidesStep
  <2> QED
    BY <2>1, <2>2
<1>9. Ahead' = Ahead \ {o}
  BY <1>3, <1>4, <1>8 DEF Ahead
<1>10. Passed' = Passed \cup {o}
  BY <1>3, <1>4, <1>8 DEF Passed
<1>11. SidesInv'
  <2>1. ASSUME NEW n \in Linked
        PROVE  /\ Sides(n)' \in 0 .. 2
               /\ TailMovers(n)' # {} => Sides(n)' \in 0 .. 1
               /\ HeadMovers(n)' # {} => Sides(n)' = 0
               /\ internal_count'[n] # 0 \/ external_counters'[n] # 0
    <3>1. CASE n = o
      BY <3>1, <1>2, <1>6, <1>7, <1>8
    <3>2. CASE n # o
      BY <3>2, <1>1, <1>2, <1>3, <1>8 DEF SidesInv
    <3> QED
      BY <3>1, <3>2
  <2> QED
    BY <2>1, <1>3 DEF SidesInv
<1>12. PrivateInv'
  BY <1>1, <1>2, <1>4, PrivateStays DEF PrivateOf, PrivateInv
<1>13. HoldsInv'
  <2>1. old_ptr'[t].ptr \in Linked' /\ first \in live' /\ Linked \subseteq Linked'
    <3>1. old_ptr'[t].ptr = o
      <4>1. old_ptr'[t] = tail
        BY <1>4
      <4> QED
        BY <4>1, <1>0
    <3>2. o \in Linked' /\ Linked' = Linked
      BY <1>3, <1>4
    <3>3. first \in live'
      BY <1>2, <1>4
    <3> QED
      BY <3>1, <3>2, <3>3
  <2> QED
    BY <2>1, <1>1, <1>2, HoldsStays
<1>14. ASSUME NEW n \in live, n # o PROVE Balanced(n)'
  <2>1. TailMovers(n)' = TailMovers(n) /\ HeadMovers(n)' = HeadMovers(n) /\ t \notin TailMovers(n) \cup HeadMovers(n)
    BY <1>3, <1>4, <1>14, ThreadSets
  <2>2. /\ Unsettled(TailMovers(n), n)' = Unsettled(TailMovers(n), n)
        /\ Unsettled(HeadMovers(n), n)' = Unsettled(HeadMovers(n), n)
    BY <2>1, MoversKeep, UnsettledStays
  <2>3. Through(tail, n) = 0 /\ Through(tail, n)' = 0 /\ Through(head, n)' = Through(head, n)
    BY <1>0, <1>2, <1>5, <1>14 DEF Through
  <2>4. References(n)' = References(n) /\ Held(n)' = Held(n)
    BY <1>2, <1>3, <2>2, <2>3 DEF References, Held
  <2> QED
    BY <1>1, <2>1, <2>4 DEF Balanced, ReferenceBalance
<1>15. Balanced(o)'
  <2>1. Unsettled(TailMovers(o), o) = 0 /\ Unsettled(HeadMovers(o), o) = 0 /\ Unsettled(HeadMovers(o), o)' = 0
    BY <1>6, <1>7 DEF Unsettled
  <2>2. Unsettled(TailMovers(o), o)' = Through(tail, o)
    <3>1. (CHOOSE u \in {t} : TRUE) = t
      OBVIOUS
    <3> QED
      BY <1>4, <1>7, <3>1 DEF Unsettled, Through
  <2>3. Through(tail, o)' = 0 /\ Through(head, o)' = Through(head, o)
    BY <1>2, <1>5 DEF Through
  <2>4. internal_count[o] \in Int /\ Through(head, o) \in Int /\ Through(tail, o) \in Int
    BY <1>1, <1>4, ReferenceTypes, Wraps DEF TypeOK
  <2>5. References(o)' = internal_count[o] + Through(head, o) + 0 + Through(tail, o) + 0
    BY <1>2, <2>1, <2>2, <2>3 DEF References
  <2>6. References(o) = internal_count[o] + Through(head, o) + Through(tail, o) + 0 + 0
    BY <2>1 DEF References
  <2>7. References(o)' = References(o)
    BY <2>4, <2>5, <2>6
  <2>8. Held(o)' = Held(o)
    BY <1>2, <1>3 DEF Held
  <2> QED
    BY <1>1, <1>4, <1>7, <2>7, <2>8 DEF Balanced, ReferenceBalance
<1>16. ReferenceBalance'
  BY <1>2, <1>14, <1>15 DEF ReferenceBalance
<1> QED
  BY <1>0, <1>2, <1>3, <1>9, <1>10, <1>11, <1>12, <1>13, <1>16 DEF MemoryNext, TailSteps

LEMMA HeadMovesKeeps ==
    ASSUME MemoryInv, TypeOK', NEW t \in Threads, Others(t), HeadMoves(t)
    PROVE  MemoryNext /\ HeadSteps(t)
<1>0. PICK o : o = head.ptr
  OBVIOUS
<1>1. /\ TypeOK /\ PrivateInv /\ HoldsInv /\ SidesInv /\ ListInv /\ LocalInv /\ ReferenceBalance
  BY DEF MemoryInv
<1>2. /\ pc[t] = "pop_move" /\ pc'[t] = "pop_take" /\ head = old_ptr[t] /\ o = old_ptr[t].ptr
      /\ head' = target[t] /\ tail' = tail
      /\ old_ptr' = old_ptr /\ new_next' = new_next /\ live' = live
      /\ next' = next /\ data' = data /\ internal_count' = internal_count
      /\ external_counters' = external_counters /\ first' = first
  BY <1>0 DEF HeadMoves, Counts
<1>3. /\ Private' = Private /\ Linked' = Linked
      /\ \A n : /\ HeadMovers(n)' = HeadMovers(n) \cup (IF n = o THEN {t} ELSE {})
                /\ TailMovers(n)' = TailMovers(n)
                /\ Holders(n)' = Holders(n)
                /\ t \notin HeadMovers(n)
  BY <1>0, <1>1, HeadMovesSets
<1>4. /\ Private \subseteq live /\ live \subseteq Addr /\ first \in live /\ o \in Linked /\ o \in Addr
      /\ pc[t] \notin PrivatePc /\ pc'[t] \notin PrivatePc
      /\ pc[t] \notin MovesTail /\ pc[t] \notin Outside
      /\ o \in Nodes /\ o \notin Ahead /\ o \in Passed /\ o \in live
  BY <1>0, <1>1, <1>2, Private1, PcSets DEF HoldsInv, ListInv, LocalInv, LocalOf, Nodes
<1>5. target[t] = next[o] /\ next[o] # NullPtr /\ next[o].ptr # o /\ next[o].external_count = 1
  <2>1. target[t] = next[o]
    BY <1>1, <1>2 DEF LocalInv, LocalOf
  <2>2. next[o] # NullPtr
    BY <1>1, <1>4 DEF ListInv
  <2>3. next[o] = Counted(1, next[o].ptr) /\ next[o].ptr # head.ptr
    BY <2>2, <1>1, <1>4 DEF ListInv
  <2>4. \A n : Counted(1, n).external_count = 1
    BY DEF Counted
  <2>5. next[o].external_count = 1
    BY <2>3, <2>4
  <2> QED
    BY <2>1, <2>2, <2>3, <2>5, <1>0
<1>6. Sides(o) = 1 /\ HeadMovers(o) = {}
  <2>1. Sides(o) = 1
    BY <1>4 DEF Passed
  <2> QED
    BY <2>1, <1>1, <1>4 DEF SidesInv
<1>7. HeadMovers(o)' = {t} /\ TailMovers(o)' = TailMovers(o)
  BY <1>3, <1>6
<1>8. Sides(o)' = 0 /\ \A n \in Linked \ {o} : Sides(n)' = Sides(n)
  <2>1. Sides(o)' = 0
    BY <1>1, <1>2, <1>4, <1>6, <1>7, Wraps DEF Sides, One, TypeOK
  <2>2. \A n \in Linked \ {o} : Sides(n)' = Sides(n)
    BY <1>2, <1>3, SidesStep
  <2> QED
    BY <2>1, <2>2
<1>9. Ahead' = Ahead
  BY <1>3, <1>4, <1>8 DEF Ahead
<1>10. Passed' = Passed \ {o}
  BY <1>3, <1>4, <1>8 DEF Passed
<1>11. SidesInv'
  <2>1. ASSUME NEW n \in Linked
        PROVE  /\ Sides(n)' \in 0 .. 2
               /\ TailMovers(n)' # {} => Sides(n)' \in 0 .. 1
               /\ HeadMovers(n)' # {} => Sides(n)' = 0
               /\ internal_count'[n] # 0 \/ external_counters'[n] # 0
    <3>1. CASE n = o
      BY <3>1, <1>1, <1>2, <1>7, <1>8 DEF SidesInv
    <3>2. CASE n # o
      BY <3>2, <1>1, <1>2, <1>3, <1>8 DEF SidesInv
    <3> QED
      BY <3>1, <3>2
  <2> QED
    BY <2>1, <1>3 DEF SidesInv
<1>12. PrivateInv'
  BY <1>1, <1>2, <1>4, PrivateStays DEF PrivateOf, PrivateInv
<1>13. HoldsInv'
  BY <1>0, <1>1, <1>2, <1>3, <1>4, HoldsStays
<1>14. ASSUME NEW n \in live, n # o PROVE Balanced(n)'
  <2>1. TailMovers(n)' = TailMovers(n) /\ HeadMovers(n)' = HeadMovers(n)
    BY <1>3, <1>14
  <2>2. /\ Unsettled(TailMovers(n), n)' = Unsettled(TailMovers(n), n)
        /\ Unsettled(HeadMovers(n), n)' = Unsettled(HeadMovers(n), n)
    BY <2>1, <1>2, UnsettledStays
  <2>3. Through(head, n) = 0 /\ Through(head, n)' = 0 /\ Through(tail, n)' = Through(tail, n)
    BY <1>0, <1>2, <1>5, <1>14 DEF Through
  <2>4. References(n)' = References(n) /\ Held(n)' = Held(n)
    BY <1>2, <1>3, <2>2, <2>3 DEF References, Held
  <2> QED
    BY <1>1, <2>1, <2>4 DEF Balanced, ReferenceBalance
<1>15. Balanced(o)'
  <2>1. Unsettled(HeadMovers(o), o) = 0 /\ Unsettled(TailMovers(o), o)' = Unsettled(TailMovers(o), o)
    BY <1>2, <1>6, <1>7 DEF Unsettled, Through
  <2>2. Unsettled(HeadMovers(o), o)' = Through(head, o)
    <3>1. (CHOOSE u \in {t} : TRUE) = t
      OBVIOUS
    <3> QED
      BY <1>2, <1>7, <3>1 DEF Unsettled, Through
  <2>3. Through(head, o)' = 0 /\ Through(tail, o)' = Through(tail, o)
    BY <1>2, <1>5 DEF Through
  <2>4. internal_count[o] \in Int /\ Through(head, o) \in Int /\ Through(tail, o) \in Int
        /\ Unsettled(TailMovers(o), o) \in Int
    BY <1>1, <1>4, ReferenceTypes, Wraps DEF TypeOK
  <2>5. References(o)' = internal_count[o] + 0 + Through(tail, o) + Unsettled(TailMovers(o), o) + Through(head, o)
    BY <1>2, <2>1, <2>2, <2>3 DEF References
  <2>6. References(o) = internal_count[o] + Through(head, o) + Through(tail, o) + Unsettled(TailMovers(o), o) + 0
    BY <2>1 DEF References
  <2>7. References(o)' = References(o)
    BY <2>4, <2>5, <2>6
  <2>8. Held(o)' = Held(o)
    BY <1>2, <1>3 DEF Held
  <2> QED
    BY <1>1, <1>4, <1>7, <2>7, <2>8 DEF Balanced, ReferenceBalance
<1>16. ReferenceBalance'
  BY <1>2, <1>14, <1>15 DEF ReferenceBalance
<1>17. target[t] = next[head.ptr] /\ head.ptr \notin Ahead
  BY <1>1, <1>2 DEF LocalInv, LocalOf
<1> QED
  BY <1>0, <1>2, <1>3, <1>9, <1>10, <1>11, <1>12, <1>13, <1>16, <1>17 DEF MemoryNext, HeadSteps

LEMMA LeavesKeeps ==
    ASSUME MemoryInv, TypeOK', NEW t \in Threads, Others(t), Leaves(t)
    PROVE  MemoryNext /\ ListStays
<1>0. PICK o : o = old_ptr[t].ptr
  OBVIOUS
<1>1. /\ TypeOK /\ PrivateInv /\ HoldsInv /\ SidesInv /\ ListInv /\ LocalInv /\ ReferenceBalance
  BY DEF MemoryInv
<1>2. /\ pc[t] \notin Outside /\ pc'[t] \in Outside
      /\ pc'[t] \in PrivatePc <=> pc[t] \in PrivatePc
      /\ pc[t] \in PrivatePc => new_next'[t] = new_next[t]
      /\ head' = head /\ tail' = tail /\ first' = first
  BY DEF Leaves
<1>3. /\ Private' = Private
      /\ o \in Linked /\ o \in Addr
      /\ t \in Holders(o)
      /\ \A n : /\ TailMovers(n)' = TailMovers(n) \ {t}
                /\ HeadMovers(n)' = HeadMovers(n) \ {t}
                /\ Holders(n)' = Holders(n) \ {t}
  BY <1>0, <1>1, LeavesSets
<1>4. /\ Private \subseteq live /\ live \subseteq Addr /\ first \in live /\ Linked \subseteq live
      /\ o \in live /\ o \notin Private /\ head.ptr \in Linked /\ tail.ptr \in Linked
      /\ pc[t] \in PrivatePc => new_next[t].ptr \in Private
  BY <1>1, <1>3, Private1 DEF HoldsInv, Linked
<1>5. old_ptr[t].external_count \in Int /\ Through(old_ptr[t], o) = old_ptr[t].external_count - 1
  BY <1>0, <1>1 DEF TypeOK, CountedNodePtr, Through
<1>6. PICK r \in Int, c \in {-1, 0} :
         /\ Settle(o, r, c)
         /\ \/ pc[t] \in MovesTail \cup MovesHead /\ r = old_ptr[t].external_count - 2 /\ c = -1
            \/ pc[t] \notin MovesTail \cup MovesHead /\ r = -1 /\ c = 0
  <2>1. CASE pc[t] \in MovesTail \cup MovesHead
    <3>1. old_ptr[t].external_count - 2 \in Int /\ Settle(o, old_ptr[t].external_count - 2, -1)
      BY <1>0, <1>5, <2>1 DEF Leaves, FreeExternalCounter
    <3> QED
      BY <2>1, <3>1
  <2>2. CASE pc[t] \notin MovesTail \cup MovesHead
    <3>1. Settle(o, -1, 0)
      BY <1>0, <2>2 DEF Leaves, ReleaseRef
    <3> QED
      BY <2>2, <3>1
  <2> QED
    BY <2>1, <2>2
<1>7. /\ data' = data /\ next' = next
      /\ internal_count' = [internal_count EXCEPT ![o] = (internal_count[o] + r) % InternalWrap]
      /\ external_counters' = [external_counters EXCEPT ![o] = (external_counters[o] + c) % ExternalWrap]
      /\ live' = IF internal_count'[o] = 0 /\ external_counters'[o] = 0 THEN live \ {o} ELSE live
  <2>1. c \in Int
    BY <1>6
  <2> QED
    BY <1>1, <1>3, <1>6, <2>1, SettleType
<1>8. /\ \A n \in Addr : n # o => /\ internal_count'[n] = internal_count[n]
                                  /\ external_counters'[n] = external_counters[n]
      /\ internal_count'[o] = (internal_count[o] + r) % InternalWrap
      /\ external_counters'[o] = (external_counters[o] + c) % ExternalWrap
      /\ external_counters[o] \in 0 .. 3 /\ internal_count[o] \in Int
  BY <1>1, <1>3, <1>7, Wraps DEF TypeOK
<1>9. /\ t \in TailMovers(o) <=> pc[t] \in MovesTail
      /\ t \in HeadMovers(o) <=> pc[t] \in MovesHead
      /\ \A n : n # o => t \notin TailMovers(n) \cup HeadMovers(n) /\ t \notin Holders(n)
  BY <1>0, ThreadSets
<1>10. Balanced(o) /\ \A n \in live : Balanced(n)
  BY <1>1, <1>4 DEF ReferenceBalance
<1>11. /\ pc[t] \in MovesTail => TailMovers(o) = {t} /\ TailMovers(o)' = {} /\ HeadMovers(o)' = HeadMovers(o)
       /\ pc[t] \in MovesHead => HeadMovers(o) = {t} /\ HeadMovers(o)' = {} /\ TailMovers(o)' = TailMovers(o)
       /\ pc[t] \notin MovesTail \cup MovesHead =>
             TailMovers(o)' = TailMovers(o) /\ HeadMovers(o)' = HeadMovers(o)
  <2>1. (\A v, u \in TailMovers(o) : v = u) /\ (\A v, u \in HeadMovers(o) : v = u)
    BY <1>10 DEF Balanced
  <2>2. TailMovers(o)' = TailMovers(o) \ {t} /\ HeadMovers(o)' = HeadMovers(o) \ {t}
    BY <1>3
  <2>3. pc[t] \in MovesTail => t \in TailMovers(o) /\ t \notin HeadMovers(o)
    BY <1>9, PcSets
  <2>4. pc[t] \in MovesHead => t \in HeadMovers(o) /\ t \notin TailMovers(o)
    BY <1>9, PcSets
  <2>5. pc[t] \notin MovesTail \cup MovesHead => t \notin HeadMovers(o) /\ t \notin TailMovers(o)
    BY <1>9
  <2> QED
    BY <2>1, <2>2, <2>3, <2>4, <2>5
<1>12. external_counters'[o] = external_counters[o] + c
  <2>1. Sides(o) \in 0 .. 2
    BY <1>1, <1>3 DEF SidesInv
  <2>2. c = -1 => external_counters[o] >= 1
    <3>1. One(TailMovers(o)) \in {0, 1} /\ One(HeadMovers(o)) \in {0, 1}
      BY DEF One
    <3>2. c = -1 => One(TailMovers(o)) = 1 \/ One(HeadMovers(o)) = 1
      BY <1>6, <1>11 DEF One
    <3> QED
      BY <2>1, <3>1, <3>2, <1>8 DEF Sides
  <2> QED
    BY <2>2, <1>6, <1>8, Wraps
<1>13. Sides(o)' = Sides(o)
  <2>1. One(TailMovers(o)) \in {0, 1} /\ One(HeadMovers(o)) \in {0, 1}
    BY DEF One
  <2>2. One(TailMovers(o)') + One(HeadMovers(o)') = One(TailMovers(o)) + One(HeadMovers(o)) + c
    BY <1>6, <1>11, <2>1, PcSets DEF One
  <2>3. One(TailMovers(o)') \in {0, 1} /\ One(HeadMovers(o)') \in {0, 1}
    BY DEF One
  <2>4. Sides(o)' = external_counters'[o] - One(TailMovers(o)') - One(HeadMovers(o)')
    BY DEF Sides, One
  <2>5. Sides(o) = external_counters[o] - One(TailMovers(o)) - One(HeadMovers(o))
    BY DEF Sides
  <2> QED
    <3>1. \A e, a, b, x, y, k \in Int : x + y = a + b + k => e + k - x - y = e - a - b
      OBVIOUS
    <3>2. external_counters[o] \in Int /\ c \in Int
      BY <1>6, <1>8
    <3> QED
      BY <1>12, <2>1, <2>2, <2>3, <2>4, <2>5, <3>1, <3>2
<1>14. \A n \in Linked \ {o} : Sides(n)' = Sides(n)
  <2>1. ASSUME NEW n \in Linked \ {o} PROVE Sides(n)' = Sides(n)
    BY <1>3, <1>4, <1>8, <1>9, SidesStep
  <2> QED
    BY <2>1
<1>15. Held(o)' = Held(o) - 1 /\ Held(o) \in Int
  <2>1. IsFiniteSet(Holders(o)) /\ Cardinality(Holders(o)) \in Nat
    BY <1>1, ReferenceTypes
  <2>2. Cardinality(Holders(o)') = Cardinality(Holders(o)) - 1
    <3>1. Holders(o)' = Holders(o) \ {t}
      BY <1>3
    <3> QED
      BY <3>1, <2>1, <1>3, FS_RemoveElement
  <2> QED
    BY <2>1, <2>2, <1>2 DEF Held
<1>16. References(o)' % InternalWrap = (References(o) - 1) % InternalWrap /\ References(o) \in Int
  <2>1. PICK h, l, b, d, x, y : /\ h = Through(head, o) /\ l = Through(tail, o)
                                /\ b = Unsettled(TailMovers(o), o) /\ d = Unsettled(HeadMovers(o), o)
                                /\ x = Unsettled(TailMovers(o), o)' /\ y = Unsettled(HeadMovers(o), o)'
    OBVIOUS
  <2>2. h \in Int /\ l \in Int /\ b \in Int /\ d \in Int /\ References(o) \in Int
    BY <1>1, <1>3, <2>1, ReferenceTypes DEF TypeOK
  <2>3. x \in Int /\ y \in Int /\ r + x + y = b + d - 1
    <3>1. CASE pc[t] \in MovesTail
      <4>1. (CHOOSE u \in {t} : TRUE) = t
        OBVIOUS
      <4>2. b = old_ptr[t].external_count - 1 /\ x = 0
        BY <3>1, <4>1, <2>1, <1>5, <1>11 DEF Unsettled
      <4>3. y = d
        <5>1. HeadMovers(o)' = HeadMovers(o) /\ t \notin HeadMovers(o)
          BY <3>1, <1>9, <1>11, PcSets
        <5>2. \A u \in HeadMovers(o) : old_ptr'[u] = old_ptr[u]
          BY <5>1 DEF Others, HeadMovers
        <5> QED
          BY <5>1, <5>2, <2>1 DEF Unsettled, Through
      <4>4. r = old_ptr[t].external_count - 2
        BY <3>1, <1>6
      <4> QED
        BY <4>2, <4>3, <4>4, <2>2, <1>5
    <3>2. CASE pc[t] \in MovesHead
      <4>1. (CHOOSE u \in {t} : TRUE) = t
        OBVIOUS
      <4>2. d = old_ptr[t].external_count - 1 /\ y = 0
        BY <3>2, <4>1, <2>1, <1>5, <1>11 DEF Unsettled
      <4>3. x = b
        <5>1. TailMovers(o)' = TailMovers(o) /\ t \notin TailMovers(o)
          BY <3>2, <1>9, <1>11, PcSets
        <5>2. \A u \in TailMovers(o) : old_ptr'[u] = old_ptr[u]
          BY <5>1 DEF Others, TailMovers
        <5> QED
          BY <5>1, <5>2, <2>1 DEF Unsettled, Through
      <4>4. r = old_ptr[t].external_count - 2
        BY <3>2, <1>6
      <4> QED
        BY <4>2, <4>3, <4>4, <2>2, <1>5
    <3>3. CASE pc[t] \notin MovesTail \cup MovesHead
      <4>1. t \notin TailMovers(o) \cup HeadMovers(o)
        BY <3>3, <1>9
      <4>2. x = b /\ y = d
        BY <3>3, <4>1, <1>11, <2>1, MoversKeep, UnsettledStays
      <4>3. r = -1
        BY <3>3, <1>6
      <4> QED
        BY <4>2, <4>3, <2>2
    <3> QED
      BY <3>1, <3>2, <3>3
  <2>4. References(o)' = ((internal_count[o] + r) % InternalWrap) + h + l + x + y
    BY <1>2, <1>8, <2>1 DEF References, Through
  <2>5. References(o) = internal_count[o] + h + l + b + d
    BY <2>1 DEF References
  <2>6. (internal_count[o] + r) % InternalWrap \in Int /\ internal_count[o] + r \in Int /\ h + l + x + y \in Int
    <3>1. internal_count[o] + r \in Int /\ h + l + x + y \in Int
      BY <1>6, <1>8, <2>2, <2>3
    <3>2. \A k \in 0 .. InternalWrap - 1 : k \in Int
      BY Wraps
    <3> QED
      BY <3>1, <3>2, CountsRange
  <2>7. (((internal_count[o] + r) % InternalWrap) + (h + l + x + y)) % InternalWrap
           = (internal_count[o] + r + (h + l + x + y)) % InternalWrap
    BY <2>6, CountsFold
  <2>8. internal_count[o] + r + (h + l + x + y) = References(o) - 1
    BY <1>6, <1>8, <2>2, <2>3, <2>5
  <2>9. References(o)' = ((internal_count[o] + r) % InternalWrap) + (h + l + x + y)
    BY <2>2, <2>3, <2>4, <2>6
  <2> QED
    BY <2>2, <2>7, <2>8, <2>9
<1>17. Balanced(o)'
  <2>1. References(o) % InternalWrap = Held(o) % InternalWrap
    BY <1>10 DEF Balanced
  <2>2. References(o) - 1 \in Int /\ Held(o) - 1 \in Int /\ (References(o) - 1) - References(o) = (Held(o) - 1) - Held(o)
    BY <1>15, <1>16
  <2>3. (References(o) - 1) % InternalWrap = (Held(o) - 1) % InternalWrap
    BY <2>1, <2>2, <1>15, <1>16, CountsMove
  <2>4. (\A v, u \in TailMovers(o)' : v = u) /\ (\A v, u \in HeadMovers(o)' : v = u)
    BY <1>3, <1>10 DEF Balanced
  <2> QED
    BY <2>3, <2>4, <1>15, <1>16 DEF Balanced
<1>18. ASSUME NEW n \in live, n # o PROVE Balanced(n)'
  <2>1. TailMovers(n)' = TailMovers(n) /\ HeadMovers(n)' = HeadMovers(n) /\ Holders(n)' = Holders(n)
        /\ t \notin TailMovers(n) \cup HeadMovers(n)
    BY <1>3, <1>9, <1>18
  <2> QED
    BY <2>1, <1>1, <1>2, <1>4, <1>8, <1>10, <1>18, BalanceStays
(* The node is deleted only when nothing leads to it any more.              *)
<1>19. ASSUME internal_count'[o] = 0, external_counters'[o] = 0
       PROVE  Sides(o) = 0 /\ Holders(o)' = {} /\ o # first
  <2>1. One(TailMovers(o)') \in {0, 1} /\ One(HeadMovers(o)') \in {0, 1}
    BY DEF One
  <2>2. Sides(o)' = external_counters'[o] - One(TailMovers(o)') - One(HeadMovers(o)')
    BY DEF Sides, One
  <2>3. Sides(o) \in 0 .. 2
    BY <1>1, <1>3 DEF SidesInv
  <2>4. Sides(o) = 0 /\ One(TailMovers(o)') = 0 /\ One(HeadMovers(o)') = 0
    BY <2>1, <2>2, <2>3, <1>13, <1>19
  <2>5. TailMovers(o)' = {} /\ HeadMovers(o)' = {}
    BY <2>4 DEF One
  <2>6. head.ptr # o /\ tail.ptr # o
    BY <2>4, <1>1 DEF ListInv, Nodes, Ahead, Passed
  <2>7. References(o)' = 0
    <3>1. Through(head, o)' = 0 /\ Through(tail, o)' = 0
      BY <2>6, <1>2 DEF Through
    <3>2. Unsettled(TailMovers(o), o)' = 0 /\ Unsettled(HeadMovers(o), o)' = 0
      BY <2>5 DEF Unsettled
    <3> QED
      BY <3>1, <3>2, <1>19 DEF References
  <2>8. References(o)' % InternalWrap = Held(o)' % InternalWrap
    BY <1>17 DEF Balanced
  <2>9. /\ IsFiniteSet(Holders(o)) /\ Cardinality(Holders(o)) \in Nat
        /\ Cardinality(Holders(o)) < InternalWrap - 2
        /\ IsFiniteSet(Holders(o)')
    BY <1>1, <1>3, ReferenceTypes, FS_Subset
  <2>10. Cardinality(Holders(o)') \in Nat /\ Cardinality(Holders(o)') < InternalWrap - 2
    <3>1. Cardinality(Holders(o)') <= Cardinality(Holders(o)) /\ Cardinality(Holders(o)') \in Nat
      BY <1>3, <2>9, FS_Subset, FS_CardinalityType
    <3> QED
      BY <3>1, <2>9, Wraps
  <2>11. Held(o)' = Cardinality(Holders(o)') + (IF o = first THEN 2 ELSE 0)
    BY <1>2 DEF Held
  <2>12. Held(o)' \in 0 .. InternalWrap - 1
    BY <2>10, <2>11, Wraps
  <2>13. Held(o)' = 0
    BY <2>7, <2>8, <2>12, CountsSmall, Wraps
  <2>14. Cardinality(Holders(o)') = 0 /\ o # first
    BY <2>10, <2>11, <2>13
  <2> QED
    BY <2>4, <2>9, <2>14, FS_EmptySet
<1>20. /\ live' \subseteq live /\ live \ {o} \subseteq live' /\ first \in live'
       /\ o \notin live' <=> internal_count'[o] = 0 /\ external_counters'[o] = 0
  BY <1>4, <1>7, <1>19
<1>21. Linked' \subseteq Linked /\ Linked \ {o} \subseteq Linked' /\ (o \in Linked' <=> o \in live')
  BY <1>3, <1>20 DEF Linked
<1>22. o \notin Linked' => Sides(o) = 0
  BY <1>19, <1>20, <1>21
<1>23. \A n \in Linked' : Sides(n)' = Sides(n)
  BY <1>13, <1>14, <1>21
<1>24. Ahead' = Ahead
  BY <1>21, <1>22, <1>23 DEF Ahead
<1>25. Passed' = Passed
  BY <1>21, <1>22, <1>23 DEF Passed
<1>26. SidesInv'
  <2>1. ASSUME NEW n \in Linked'
        PROVE  /\ Sides(n)' \in 0 .. 2
               /\ TailMovers(n)' # {} => Sides(n)' \in 0 .. 1
               /\ HeadMovers(n)' # {} => Sides(n)' = 0
               /\ internal_count'[n] # 0 \/ external_counters'[n] # 0
    <3>1. /\ n \in Linked /\ Sides(n)' = Sides(n) /\ n \in Addr
          /\ TailMovers(n)' \subseteq TailMovers(n) /\ HeadMovers(n)' \subseteq HeadMovers(n)
      BY <1>3, <1>4, <1>21, <1>23
    <3>2. internal_count'[n] # 0 \/ external_counters'[n] # 0
      BY <3>1, <1>1, <1>8, <1>20, <1>21 DEF SidesInv
    <3> QED
      BY <3>1, <3>2, <1>1 DEF SidesInv
  <2> QED
    BY <2>1 DEF SidesInv
<1>27. PrivateInv'
  <2>1. \A a \in Private : /\ a \in live' /\ next'[a] = next[a] /\ data'[a] = data[a]
                           /\ internal_count'[a] = internal_count[a]
                           /\ external_counters'[a] = external_counters[a]
    BY <1>4, <1>7, <1>8, <1>20
  <2>2. pc[t] \in PrivatePc =>
              LET p == new_next[t].ptr
              IN  /\ new_next[t] = Counted(1, p) /\ p \in Private
                  /\ next[p] = NullPtr /\ data[p] = NoValue
                  /\ internal_count[p] = 0 /\ external_counters[p] = 2
    BY <1>1, <1>4 DEF PrivateInv
  <2>3. pc'[t] \in PrivatePc =>
              LET p == new_next'[t].ptr
              IN  /\ new_next'[t] = Counted(1, p) /\ p \in live' /\ p \notin Private \ PrivateOf(t)
                  /\ next'[p] = NullPtr /\ data'[p] = NoValue
                  /\ internal_count'[p] = 0 /\ external_counters'[p] = 2
    BY <1>2, <2>1, <2>2 DEF PrivateOf
  <2> QED
    BY <1>1, <2>1, <2>3, PrivateStays
<1>28. HoldsInv'
  <2>1. ASSUME NEW u \in Threads, pc'[u] \notin Outside PROVE old_ptr'[u].ptr \in Linked'
    <3>1. u # t /\ pc[u] \notin Outside /\ old_ptr'[u] = old_ptr[u]
      BY <1>2, <2>1 DEF Others
    <3>2. old_ptr[u].ptr \in Linked
      BY <3>1, <1>1, Private1
    <3>3. CASE old_ptr[u].ptr = o
      <4>1. u \in Holders(o)'
        BY <3>1, <3>3, <1>3, ThreadSets
      <4> QED
        BY <4>1, <3>1, <3>3, <1>19, <1>20, <1>21
    <3> QED
      BY <3>1, <3>2, <3>3, <1>21
  <2> QED
    BY <2>1, <1>2, <1>20 DEF HoldsInv, HoldsReference, Outside
<1>29. ReferenceBalance'
  BY <1>17, <1>18, <1>20 DEF ReferenceBalance
<1> QED
  BY <1>2, <1>7, <1>21, <1>24, <1>25, <1>26, <1>27, <1>28, <1>29 DEF MemoryNext, ListStays

-----------------------------------------------------------------------------
(* The list stays a list.                                                   *)
LEMMA CountedFields ==
    /\ \A n : Counted(1, n).ptr = n /\ Counted(1, n).external_count = 1
    /\ NullPtr.ptr = Null
    /\ \A n : Counted(1, n) # NullPtr
<1>1. \A n : Counted(1, n).ptr = n /\ Counted(1, n).external_count = 1
  BY DEF Counted
<1>2. NullPtr.ptr = Null /\ NullPtr.external_count = 0
  BY DEF NullPtr, Counted
<1>3. \A n : Counted(1, n) # NullPtr
  BY <1>1, <1>2
<1> QED
  BY <1>1, <1>2, <1>3

LEMMA StaysList ==
    ASSUME TypeOK, ListInv, ListStays, \A n \in Passed : data'[n] # NoValue,
           head'.external_count >= 1, tail'.external_count >= 1
    PROVE  ListInv'
<1>1. /\ Linked' \subseteq Linked
      /\ Ahead' = Ahead /\ Passed' = Passed /\ Nodes' = Nodes /\ Nodes \subseteq Linked
      /\ head'.ptr = head.ptr /\ tail'.ptr = tail.ptr
      /\ \A n \in Linked : next'[n] = next[n]
      /\ tail.ptr \in Linked
  BY DEF ListStays, Nodes, ListInv, Ahead, Passed
<1>2. Ahead \subseteq Nodes
  BY DEF Nodes
<1>3. /\ head'.ptr \in Nodes' /\ tail'.ptr \in Ahead'
      /\ head'.ptr \in Ahead' => head'.ptr = tail'.ptr
  BY <1>1 DEF ListInv
<1>4. /\ \A n \in Ahead' : n = tail'.ptr \/ n = next'[tail'.ptr].ptr
      /\ next'[tail'.ptr] # NullPtr => next'[tail'.ptr].ptr \in Ahead' \ {tail'.ptr}
      /\ \A n \in Ahead' \ {tail'.ptr} : next'[n] = NullPtr
  <2>1. next'[tail'.ptr] = next[tail.ptr]
    BY <1>1
  <2>2. \A n \in Ahead : next'[n] = next[n]
    BY <1>1, <1>2
  <2> QED
    BY <2>1, <2>2, <1>1 DEF ListInv
<1>5. \A n \in Nodes : next'[n] = next[n]
  BY <1>1
<1>6. /\ \A n \in Nodes' : next'[n] # NullPtr =>
            next'[n] = Counted(1, next'[n].ptr) /\ next'[n].ptr \in Nodes' \ {head'.ptr}
      /\ \A k, n \in Nodes' : next'[k] = next'[n] /\ next'[k] # NullPtr => k = n
  BY <1>1, <1>5 DEF ListInv
<1>7. \A n \in Linked' \ Ahead' : next'[n] # NullPtr
  BY <1>1 DEF ListInv
<1>8. \A n \in Passed' : data'[n] # NoValue
  BY <1>1
<1> QED
  BY <1>3, <1>4, <1>6, <1>7, <1>8 DEF ListInv

LEMMA GrowsList ==
    ASSUME TypeOK, ListInv, NEW t \in Threads, ListGrows(t), Linked \subseteq Addr,
           \A n \in Linked : data'[n] = data[n]
    PROVE  ListInv'
<1>0. PICK m, o : m = new_next[t].ptr /\ o = tail.ptr
  OBVIOUS
<1>1. /\ m \in Addr \ Linked
      /\ next[o] = NullPtr
      /\ Linked' = Linked \cup {m} /\ Ahead' = Ahead \cup {m} /\ Passed' = Passed
      /\ head' = head /\ tail' = tail
      /\ next'[m] = NullPtr /\ next'[o] = Counted(1, m) /\ \A n \in Linked \ {o} : next'[n] = next[n]
  BY <1>0 DEF ListGrows
<1>2. /\ Nodes' = Nodes \cup {m} /\ Nodes \subseteq Linked /\ Ahead \subseteq Linked /\ Passed \subseteq Linked
      /\ Nodes = Ahead \cup Passed /\ head.ptr \in Nodes /\ o \in Ahead /\ o \in Nodes /\ head.ptr # m /\ o # m
  BY <1>0, <1>1 DEF Nodes, ListInv, Ahead, Passed
<1>3. Ahead = {o}
  <2>1. ASSUME NEW n \in Ahead PROVE n = o
    <3>1. n = o \/ n = Null
      BY <1>0, <1>1, CountedFields DEF ListInv
    <3>2. n # Null
      BY <1>2, NullAssumption
    <3> QED
      BY <3>1, <3>2
  <2> QED
    BY <2>1, <1>2
<1>4. /\ head'.ptr \in Nodes' /\ tail'.ptr \in Ahead'
      /\ head'.ptr \in Ahead' => head'.ptr = tail'.ptr
      /\ head'.external_count >= 1 /\ tail'.external_count >= 1
  BY <1>0, <1>1, <1>2, <1>3 DEF ListInv
<1>5. /\ \A n \in Ahead' : n = tail'.ptr \/ n = next'[tail'.ptr].ptr
      /\ next'[tail'.ptr].ptr \in Ahead' \ {tail'.ptr}
      /\ \A n \in Ahead' \ {tail'.ptr} : next'[n] = NullPtr
  BY <1>0, <1>1, <1>2, <1>3, CountedFields
<1>6. \A n \in Nodes' : n = m \/ n = o \/ (n \in Nodes /\ n \in Linked \ {o})
  BY <1>2
<1>7. ASSUME NEW n \in Nodes', next'[n] # NullPtr
      PROVE  next'[n] = Counted(1, next'[n].ptr) /\ next'[n].ptr \in Nodes' \ {head'.ptr}
  <2>1. CASE n = m
    BY <2>1, <1>1, <1>7
  <2>2. CASE n = o
    BY <2>2, <1>1, <1>2, CountedFields
  <2>3. CASE n \in Nodes /\ n \in Linked \ {o}
    BY <2>3, <1>1, <1>2, <1>7 DEF ListInv
  <2> QED
    BY <2>1, <2>2, <2>3, <1>6
<1>8. ASSUME NEW k \in Nodes', NEW n \in Nodes', next'[k] = next'[n], next'[k] # NullPtr
      PROVE  k = n
  <2>1. ASSUME NEW a \in Nodes, a # o PROVE next'[a] # Counted(1, m) /\ next'[a] = next[a]
    <3>1. next'[a] = next[a]
      BY <2>1, <1>1, <1>2
    <3>2. CASE next[a] = NullPtr
      BY <3>1, <3>2, CountedFields
    <3>3. CASE next[a] # NullPtr
      <4>1. next[a].ptr \in Nodes
        BY <3>3 DEF ListInv
      <4> QED
        BY <3>1, <4>1, <1>1, <1>2, CountedFields
    <3> QED
      BY <3>2, <3>3, <3>1
  <2>2. k # m /\ n # m
    BY <1>1, <1>8
  <2>3. CASE k = o \/ n = o
    BY <2>1, <2>2, <2>3, <1>1, <1>6, <1>8
  <2>4. CASE k # o /\ n # o
    BY <2>1, <2>2, <2>4, <1>6, <1>8 DEF ListInv
  <2> QED
    BY <2>3, <2>4
<1>9. \A n \in Linked' \ Ahead' : next'[n] # NullPtr
  BY <1>1, <1>2, <1>3 DEF ListInv
<1>10. \A n \in Passed' : data'[n] # NoValue
  <2>1. \A n \in Passed : data[n] # NoValue
    BY DEF ListInv
  <2> QED
    BY <2>1, <1>1, <1>2
<1> QED
  BY <1>4, <1>5, <1>7, <1>8, <1>9, <1>10 DEF ListInv

LEMMA TailStepsList ==
    ASSUME TypeOK, ListInv, NEW t \in Threads, TailSteps(t),
           target[t] = next[tail.ptr], target[t] # NullPtr, data[tail.ptr] # NoValue, data' = data
    PROVE  ListInv'
<1>0. PICK m, o : m = next[tail.ptr].ptr /\ o = tail.ptr
  OBVIOUS
<1>1. /\ tail' = next[o] /\ next[o] # NullPtr /\ data[o] # NoValue /\ tail'.ptr = m
      /\ head' = head /\ next' = next
      /\ Linked' = Linked /\ Ahead' = Ahead \ {o} /\ Passed' = Passed \cup {o}
  BY <1>0 DEF TailSteps
<1>2. /\ Nodes \subseteq Linked /\ Nodes = Ahead \cup Passed /\ o \in Ahead /\ Nodes' = Nodes
      /\ Nodes' = Ahead' \cup Passed'
  BY <1>0, <1>1 DEF Nodes, ListInv, Ahead, Passed
<1>3. m \in Ahead \ {o} /\ next[m] = NullPtr /\ Ahead' = {m}
  BY <1>0, <1>1, <1>2 DEF ListInv
<1>4. tail'.external_count >= 1
  <2>1. next[o] = Counted(1, m)
    BY <1>0, <1>1, <1>2 DEF ListInv
  <2> QED
    BY <1>1, <2>1, CountedFields
<1>5. /\ head'.ptr \in Nodes' /\ tail'.ptr \in Ahead'
      /\ head'.ptr \in Ahead' => head'.ptr = tail'.ptr
      /\ head'.external_count >= 1
  BY <1>1, <1>2, <1>3 DEF ListInv
<1>6. /\ \A n \in Ahead' : n = tail'.ptr \/ n = next'[tail'.ptr].ptr
      /\ next'[tail'.ptr] = NullPtr
      /\ \A n \in Ahead' \ {tail'.ptr} : next'[n] = NullPtr
  BY <1>1, <1>3
<1>7. /\ \A n \in Nodes' : next'[n] # NullPtr =>
            next'[n] = Counted(1, next'[n].ptr) /\ next'[n].ptr \in Nodes' \ {head'.ptr}
      /\ \A k, n \in Nodes' : next'[k] = next'[n] /\ next'[k] # NullPtr => k = n
  BY <1>1, <1>2 DEF ListInv
<1>8. \A n \in Linked' \ Ahead' : next'[n] # NullPtr
  BY <1>1, <1>2 DEF ListInv
<1>9. \A n \in Passed' : data'[n] # NoValue
  BY <1>1 DEF ListInv
<1> QED
  BY <1>4, <1>5, <1>6, <1>7, <1>8, <1>9 DEF ListInv

LEMMA HeadStepsList ==
    ASSUME TypeOK, ListInv, NEW t \in Threads, HeadSteps(t), data' = data
    PROVE  ListInv'
<1>0. PICK m, o : m = next[head.ptr].ptr /\ o = head.ptr
  OBVIOUS
<1>1. /\ head' = next[o] /\ head'.ptr = m /\ o \notin Ahead
      /\ tail' = tail /\ next' = next
      /\ Linked' = Linked /\ Ahead' = Ahead /\ Passed' = Passed \ {o}
  BY <1>0 DEF HeadSteps
<1>2. /\ Nodes \subseteq Linked /\ Nodes = Ahead \cup Passed /\ o \in Nodes
      /\ Nodes' = Ahead' \cup Passed'
  BY <1>0 DEF Nodes, ListInv, Ahead, Passed
<1>3. Nodes' = Nodes \ {o}
  BY <1>1, <1>2
<1>4. next[o] # NullPtr /\ next[o] = Counted(1, m) /\ m \in Nodes \ {o} /\ next[o].external_count = 1
  <2>1. next[o] # NullPtr
    BY <1>1, <1>2 DEF ListInv
  <2>2. next[o] = Counted(1, m) /\ m \in Nodes \ {o}
    BY <2>1, <1>0, <1>2 DEF ListInv
  <2> QED
    BY <2>1, <2>2, CountedFields
<1>5. m \in Ahead => m = tail.ptr
  <2>1. ASSUME m \in Ahead, m # tail.ptr PROVE FALSE
    <3>1. m = next[tail.ptr].ptr /\ tail.ptr \in Ahead
      BY <2>1 DEF ListInv
    <3>2. next[tail.ptr] # NullPtr
      BY <2>1, <3>1, <1>2, <1>4, CountedFields, NullAssumption DEF Nodes, Ahead, Linked, Passed, TypeOK
    <3>3. next[tail.ptr] = Counted(1, m)
      BY <3>1, <3>2, <1>2 DEF ListInv
    <3>4. tail.ptr = o
      BY <3>1, <3>2, <3>3, <1>2, <1>4 DEF ListInv
    <3> QED
      BY <3>1, <3>4, <1>1
  <2> QED
    BY <2>1
<1>6. /\ head'.ptr \in Nodes' /\ tail'.ptr \in Ahead'
      /\ head'.ptr \in Ahead' => head'.ptr = tail'.ptr
      /\ head'.external_count >= 1 /\ tail'.external_count >= 1
  BY <1>1, <1>3, <1>4, <1>5 DEF ListInv
<1>7. /\ \A n \in Ahead' : n = tail'.ptr \/ n = next'[tail'.ptr].ptr
      /\ next'[tail'.ptr] # NullPtr => next'[tail'.ptr].ptr \in Ahead' \ {tail'.ptr}
      /\ \A n \in Ahead' \ {tail'.ptr} : next'[n] = NullPtr
  BY <1>1 DEF ListInv
<1>8. ASSUME NEW n \in Nodes', next'[n] # NullPtr
      PROVE  next'[n] = Counted(1, next'[n].ptr) /\ next'[n].ptr \in Nodes' \ {head'.ptr}
  <2>1. n \in Nodes /\ n # o /\ next'[n] = next[n]
    BY <1>1, <1>3, <1>8
  <2>2. next[n] = Counted(1, next[n].ptr) /\ next[n].ptr \in Nodes \ {o}
    BY <1>0, <1>8, <2>1 DEF ListInv
  <2>3. next[n].ptr # m
    BY <1>2, <1>4, <1>8, <2>1, <2>2 DEF ListInv
  <2> QED
    BY <2>1, <2>2, <2>3, <1>1, <1>3
<1>9. \A k, n \in Nodes' : next'[k] = next'[n] /\ next'[k] # NullPtr => k = n
  BY <1>1, <1>3 DEF ListInv
<1>10. \A n \in Linked' \ Ahead' : next'[n] # NullPtr
  BY <1>1 DEF ListInv
<1>11. \A n \in Passed' : data'[n] # NoValue
  BY <1>1 DEF ListInv
<1> QED
  BY <1>6, <1>7, <1>8, <1>9, <1>10, <1>11 DEF ListInv

-----------------------------------------------------------------------------
(* A node in the list loses its value to the thread that moved head off it. *)
DataKeeps(t) == \A n \in Linked : data[n] # NoValue /\ data'[n] = NoValue => t \in HeadMovers(n)

ListSteps(t) == ListStays \/ ListGrows(t) \/ TailSteps(t) \/ HeadSteps(t)

LEMMA DataStep ==
    ASSUME MemoryInv, NEW t \in Threads, PushStep(t) \/ PopStep(t)
    PROVE  /\ DataKeeps(t)
           /\ Quiet(t) => \A a \in Private : data'[a] = data[a]
<1> USE DEF Goto
<1>1. /\ TypeOK /\ LocalInv /\ Linked \subseteq Addr /\ Linked \subseteq live /\ Private \subseteq Addr
      /\ data \in [Addr -> Value \cup {NoValue}] /\ Linked \cap Private = {}
      /\ \A u \in Threads : pc[u] \notin Outside => old_ptr[u].ptr \in Linked
  BY Private1 DEF MemoryInv, TypeOK, Linked
<1>2. CASE data' = data
  BY <1>2 DEF DataKeeps
<1>3. ASSUME NEW e \in Addr \ live, data' = [data EXCEPT ![e] = NoValue], live' = live \cup {e}
      PROVE  /\ DataKeeps(t)
             /\ ~ Quiet(t)
  BY <1>1, <1>3 DEF DataKeeps, Quiet, Counts
<1>4. CASE PushCall(t) \/ PushHelpLink(t)
  <2>1. \E e \in Addr \ live : data' = [data EXCEPT ![e] = NoValue] /\ live' = live \cup {e}
    BY <1>4 DEF PushCall, PushHelpLink, NodeConstructed
  <2> QED
    BY <2>1, <1>3
<1>5. CASE PushData(t)
  <2>1. old_ptr[t].ptr \in Linked /\ Head(todo[t]).value # NoValue
    <3>1. pc[t] = "push_data" /\ pc[t] \notin Outside /\ pc[t] \in PushPc
      BY <1>5 DEF PushData, Outside, PushPc
    <3>2. todo[t] # <<>> /\ Head(todo[t]).op = "push" /\ todo[t] \in Seq(Call)
      BY <1>1, <3>1 DEF LocalInv, LocalOf, TypeOK
    <3>3. Head(todo[t]) \in Call
      BY <3>2
    <3>4. Head(todo[t]).value \in Value
      BY <3>2, <3>3 DEF Call
    <3> QED
      BY <1>1, <3>1, <3>4, ValueAssumption
  <2>2. \/ data' = data
        \/ data' = [data EXCEPT ![old_ptr[t].ptr] = Head(todo[t]).value]
    BY <1>5 DEF PushData
  <2> QED
    BY <2>1, <2>2, <1>1, <1>2 DEF DataKeeps
<1>6. CASE PopTake(t)
  <2>1. /\ pc[t] = "pop_take" /\ old_ptr[t].ptr \in Linked
        /\ data' = [data EXCEPT ![old_ptr[t].ptr] = NoValue]
    BY <1>1, <1>6 DEF PopTake, Outside
  <2>2. t \in HeadMovers(old_ptr[t].ptr)
    BY <2>1 DEF HeadMovers
  <2> QED
    BY <2>1, <2>2, <1>1 DEF DataKeeps
<1>7. CASE ~ (PushCall(t) \/ PushHelpLink(t) \/ PushData(t) \/ PopTake(t))
  <2>1. data' = data
    BY <1>7 DEF PushStep, PopStep, PushAcquire, PushLink, PushHelpLinked, PushTail, PushHelpTail, SetNewTail,
                PushHelpFree, PushHelpRelease, PushReturn, PopCall, PopAcquire, PopCheckEmpty, PopNext, PopMove,
                PopRelease, PopReturn, FreeExternalCounter, ReleaseRef, Settle, nodeVars
  <2> QED
    BY <2>1, <1>2
<1> QED
  BY <1>4, <1>5, <1>6, <1>7

(* Every step keeps the memory, and does one of four things to the list.    *)
LEMMA StepKeeps ==
    ASSUME MemoryInv, TypeOK', NEW t \in Threads, PushStep(t) \/ PopStep(t)
    PROVE  MemoryNext /\ ListSteps(t) /\ ListInv'
<1>1. Step(t) /\ Others(t)
  BY StepKinds DEF MemoryInv, Step
<1>2. /\ TypeOK /\ PrivateInv /\ HoldsInv /\ SidesInv /\ ListInv /\ LocalInv
      /\ Linked \subseteq Addr /\ tail.ptr \in Linked /\ head.ptr \in Linked
      /\ \A u \in Threads : pc[u] \notin Outside => old_ptr[u].ptr \in Linked
  BY Private1 DEF MemoryInv
<1>3. /\ DataKeeps(t)
      /\ Quiet(t) => \A a \in Private : data'[a] = data[a]
  BY DataStep
<1>4. /\ head.external_count >= 1 /\ tail.external_count >= 1
      /\ head.external_count \in Nat /\ tail.external_count \in Nat
      /\ \A n \in Passed : data[n] # NoValue
  BY <1>2 DEF ListInv, TypeOK, CountedNodePtr
<1>5. \A n \in Passed : data'[n] # NoValue
  <2>1. \A n \in Passed : n \in Linked /\ Sides(n) = 1
    BY DEF Passed
  <2>2. \A n \in Linked : t \in HeadMovers(n) => Sides(n) = 0
    BY <1>2 DEF SidesInv
  <2> QED
    BY <2>1, <2>2, <1>3, <1>4 DEF DataKeeps
<1>6. CASE Quiet(t)
  <2>1. MemoryNext /\ ListStays
    BY <1>1, <1>3, <1>6, QuietKeeps
  <2>2. head' = head /\ tail' = tail
    BY <1>6 DEF Quiet
  <2> QED
    BY <2>1, <2>2, <1>2, <1>4, <1>5, StaysList DEF ListSteps
<1>7. CASE \E n \in Addr : Allocates(t, n)
  <2>1. MemoryNext /\ ListStays
    BY <1>1, <1>7, AllocatesKeeps
  <2>2. head' = head /\ tail' = tail
    BY <1>7 DEF Allocates
  <2> QED
    BY <2>1, <2>2, <1>2, <1>4, <1>5, StaysList DEF ListSteps
<1>8. CASE \/ Enters(t, tail) /\ tail' = old_ptr'[t] /\ head' = head
           \/ Enters(t, head) /\ head' = old_ptr'[t] /\ tail' = tail
  <2>1. MemoryNext /\ ListStays
    BY <1>1, <1>8, EntersKeeps
  <2>2. head'.external_count >= 1 /\ tail'.external_count >= 1
    <3>1. \A k, n : Counted(k, n).external_count = k
      BY DEF Counted
    <3> QED
      BY <3>1, <1>4, <1>8 DEF Enters
  <2> QED
    BY <2>1, <2>2, <1>2, <1>5, StaysList DEF ListSteps
<1>9. CASE Drops(t)
  <2>1. MemoryNext /\ ListStays
    BY <1>1, <1>9, DropsKeeps
  <2>2. head' = head /\ tail' = tail
    BY <1>9 DEF Drops
  <2> QED
    BY <2>1, <2>2, <1>2, <1>4, <1>5, StaysList DEF ListSteps
<1>10. CASE Leaves(t)
  <2>1. MemoryNext /\ ListStays
    BY <1>1, <1>10, LeavesKeeps
  <2>2. head' = head /\ tail' = tail
    BY <1>10 DEF Leaves
  <2> QED
    BY <2>1, <2>2, <1>2, <1>4, <1>5, StaysList DEF ListSteps
<1>11. CASE Links(t)
  <2>1. MemoryNext /\ ListGrows(t)
    BY <1>1, <1>11, LinksKeeps
  <2>2. \A n \in Linked : data'[n] = data[n]
    BY <1>2, <1>11 DEF Links, TypeOK, Linked
  <2> QED
    BY <2>1, <2>2, <1>2, GrowsList DEF ListSteps
<1>12. CASE TailMoves(t)
  <2>1. MemoryNext /\ TailSteps(t)
    BY <1>1, <1>12, TailMovesKeeps
  <2>2. pc[t] \in {"push_tail", "push_help_tail"} /\ tail.ptr = old_ptr[t].ptr /\ data' = data
    BY <1>12 DEF TailMoves
  <2>3. tail.ptr \in Nodes
    BY <1>2 DEF ListInv, Nodes
  <2>4. target[t] = next[tail.ptr] /\ target[t] # NullPtr /\ data[tail.ptr] # NoValue
    BY <1>2, <2>2, <2>3 DEF LocalInv, LocalOf
  <2> QED
    BY <2>1, <2>2, <2>4, <1>2, TailStepsList DEF ListSteps
<1>13. CASE HeadMoves(t)
  <2>1. MemoryNext /\ HeadSteps(t)
    BY <1>1, <1>13, HeadMovesKeeps
  <2>2. data' = data
    BY <1>13 DEF HeadMoves
  <2> QED
    BY <2>1, <2>2, <1>2, HeadStepsList DEF ListSteps
<1> QED
  BY <1>1, <1>6, <1>7, <1>8, <1>9, <1>10, <1>11, <1>12, <1>13 DEF Step

-----------------------------------------------------------------------------
(* What the threads know of the nodes they hold.                            *)
LEMMA HeldNodes ==
    ASSUME MemoryInv, NEW t \in Threads, ListSteps(t), DataKeeps(t)
    PROVE  /\ \A n \in Linked : n \in Ahead' => n \in Ahead /\ (n = tail.ptr => n = tail'.ptr \/ TailSteps(t))
           /\ \A n \in Linked : n \in Nodes' => n \in Nodes
           /\ \A n \in Linked : next[n] # NullPtr => next'[n] = next[n]
           /\ \A n \in Nodes' \cap Linked : data[n] # NoValue => data'[n] # NoValue
           /\ \A n \in Linked : n = tail.ptr => n \notin Ahead' \/ n = tail'.ptr
<1>1. /\ TypeOK /\ ListInv /\ SidesInv /\ Nodes = Ahead \cup Passed
      /\ Ahead \subseteq Linked /\ tail.ptr \in Ahead
  BY DEF MemoryInv, Nodes, ListInv, Ahead
<1>2. Nodes' = Ahead' \cup Passed'
  BY DEF Nodes
<1>3. \A n \in Linked : n \in Ahead' => n \in Ahead
  BY DEF ListSteps, ListStays, ListGrows, TailSteps, HeadSteps
<1>4. \A n \in Linked : n \in Nodes' => n \in Nodes
  BY <1>1, <1>2 DEF ListSteps, ListStays, ListGrows, TailSteps, HeadSteps
<1>5. \A n \in Linked : next[n] # NullPtr => next'[n] = next[n]
  BY <1>1 DEF ListSteps, ListStays, ListGrows, TailSteps, HeadSteps
<1>6. \A n \in Nodes' \cap Linked : data[n] # NoValue => data'[n] # NoValue
  <2>1. \A n \in Nodes : Sides(n) # 0
    BY DEF Nodes, Ahead, Passed
  <2>2. \A n \in Linked : t \in HeadMovers(n) => Sides(n) = 0
    BY <1>1 DEF SidesInv
  <2> QED
    BY <2>1, <2>2, <1>4 DEF DataKeeps
<1>7. \A n \in Linked : n = tail.ptr => n \notin Ahead' \/ n = tail'.ptr
  BY <1>1 DEF ListSteps, ListStays, ListGrows, TailSteps, HeadSteps
<1> QED
  BY <1>3, <1>4, <1>5, <1>6, <1>7

LEMMA OthersLocal ==
    ASSUME MemoryInv, NEW t \in Threads, Others(t), ListSteps(t), DataKeeps(t), NEW u \in Threads, u # t
    PROVE  LocalOf(u)'
<1>0. PICK n : n = old_ptr[u].ptr
  OBVIOUS
<1>1. /\ pc'[u] = pc[u] /\ old_ptr'[u] = old_ptr[u] /\ target'[u] = target[u] /\ todo'[u] = todo[u]
      /\ old_ptr'[u].ptr = n
  BY <1>0 DEF Others
<1>2. LocalOf(u) /\ TypeOK /\ ListInv /\ SidesInv
  BY DEF MemoryInv, LocalInv
<1>3. HoldsReference(u) => n \in Linked
  BY <1>0 DEF MemoryInv, HoldsInv
<1>4. /\ \A q \in {"pop_next", "pop_move", "pop_take", "push_link", "push_help", "push_tail", "push_help_tail"} :
            q \notin {"idle", "push_acquire", "pop_acquire"}
      /\ HoldsReference(u)' <=> HoldsReference(u)
  BY <1>1 DEF HoldsReference
<1>5. HoldsReference(u) /\ n \in Ahead' => n = tail'.ptr
  BY <1>0, <1>2, <1>3, HeldNodes DEF LocalOf
<1>6. pc[u] \in {"pop_next", "pop_move"} => n \notin Ahead'
  BY <1>0, <1>2, <1>3, <1>4, HeldNodes DEF LocalOf, HoldsReference
<1>7. /\ pc[u] \in {"pop_move", "push_tail", "push_help_tail"} => target[u] = next'[n]
      /\ pc[u] \in {"push_tail", "push_help_tail"} => target[u] # NullPtr
  <2>1. CASE pc[u] \in {"pop_move", "push_tail", "push_help_tail"}
    <3>1. n \in Linked /\ target[u] = next[n]
      BY <2>1, <1>0, <1>2, <1>3, <1>4 DEF LocalOf, HoldsReference
    <3>2. next[n] # NullPtr
      BY <2>1, <3>1, <1>0, <1>2 DEF LocalOf, ListInv
    <3> QED
      BY <3>1, <3>2, HeldNodes
  <2>2. CASE pc[u] \notin {"pop_move", "push_tail", "push_help_tail"}
    BY <2>2
  <2> QED
    BY <2>1, <2>2
<1>8. pc[u] \in {"push_link", "push_help", "push_tail", "push_help_tail"} /\ n \in Nodes' => data'[n] # NoValue
  <2>1. SUFFICES ASSUME pc[u] \in {"push_link", "push_help", "push_tail", "push_help_tail"}, n \in Nodes'
                 PROVE  data'[n] # NoValue
    OBVIOUS
  <2>2. n \in Linked
    BY <2>1, <1>3, <1>4 DEF HoldsReference
  <2>3. n \in Nodes
    BY <2>1, <2>2, HeldNodes
  <2>4. data[n] # NoValue
    BY <2>1, <2>3, <1>0, <1>2 DEF LocalOf
  <2> QED
    BY <2>1, <2>2, <2>4, HeldNodes
<1>9. pc[u] = "pop_take" => data'[n] # NoValue
  <2>1. SUFFICES ASSUME pc[u] = "pop_take" PROVE data'[n] # NoValue
    OBVIOUS
  <2>2. n \in Linked /\ data[n] # NoValue /\ u \in HeadMovers(n)
    BY <2>1, <1>0, <1>2, <1>3, <1>4 DEF LocalOf, HoldsReference, HeadMovers
  <2>3. t \notin HeadMovers(n)
    <3>1. Balanced(n)
      BY <2>2 DEF MemoryInv, ReferenceBalance, Linked
    <3> QED
      BY <3>1, <2>2 DEF Balanced
  <2> QED
    BY <2>2, <2>3 DEF DataKeeps
<1>10. /\ HoldsReference(u) => old_ptr[u].external_count >= 1
       /\ pc[u] \in PushPc => todo[u] # <<>> /\ Head(todo[u]).op = "push"
       /\ pc[u] \in PopPc => todo[u] # <<>>
  BY <1>2 DEF LocalOf
<1> QED
  BY <1>1, <1>4, <1>5, <1>6, <1>7, <1>8, <1>9, <1>10 DEF LocalOf

LEMMA OwnLocal ==
    ASSUME MemoryInv, TypeOK', NEW t \in Threads, PushStep(t) \/ PopStep(t), ListSteps(t), DataKeeps(t),
           ListInv'
    PROVE  LocalOf(t)'
<1> USE DEF Goto
<1>1. /\ TypeOK /\ LocalOf(t) /\ ListInv
      /\ pc \in [Threads -> Pc] /\ old_ptr \in [Threads -> CountedNodePtr]
      /\ target \in [Threads -> CountedNodePtr] /\ new_next \in [Threads -> CountedNodePtr]
  BY DEF MemoryInv, LocalInv, TypeOK
<1>2. pc[t] \notin Outside => old_ptr[t].ptr \in Linked
  BY Private1 DEF MemoryInv
<1>3. /\ \A n \in Linked : n \in Ahead' => n \in Ahead
      /\ \A n \in Linked : n \in Nodes' => n \in Nodes
      /\ \A n \in Linked : next[n] # NullPtr => next'[n] = next[n]
      /\ \A n \in Nodes' \cap Linked : data[n] # NoValue => data'[n] # NoValue
      /\ \A n \in Linked : n = tail.ptr => n \notin Ahead' \/ n = tail'.ptr
  BY HeldNodes
<1>4. tail'.ptr \in Ahead' /\ tail.ptr \in Linked /\ head.ptr \in Linked
      /\ head'.external_count >= 1 /\ tail'.external_count >= 1
      /\ head.external_count >= 1 /\ tail.external_count >= 1
  BY Private1 DEF ListInv, MemoryInv
<1>5. /\ pc[t] \in PushPc => todo[t] # <<>> /\ Head(todo[t]).op = "push"
      /\ pc[t] \in PopPc => todo[t] # <<>>
      /\ HoldsReference(t) => old_ptr[t].external_count >= 1
      /\ pc[t] \notin Outside /\ old_ptr[t].ptr \in Ahead => old_ptr[t].ptr = tail.ptr
  BY <1>1 DEF LocalOf, HoldsReference, Outside
(* The conjuncts by place.                                                  *)
<1>6. ASSUME pc'[t] \in Outside,
             pc'[t] = "push_acquire" => todo'[t] # <<>> /\ Head(todo'[t]).op = "push",
             pc'[t] = "pop_acquire" => todo'[t] # <<>>
      PROVE  LocalOf(t)'
  BY <1>6 DEF LocalOf, HoldsReference, Outside, PushPc, PopPc
<1>7. ASSUME pc[t] \notin Outside, pc'[t] \notin Outside, todo' = todo, old_ptr'[t] = old_ptr[t],
             pc[t] \in PushPc <=> pc'[t] \in PushPc, pc[t] \in PopPc <=> pc'[t] \in PopPc
      PROVE  /\ HoldsReference(t)' /\ old_ptr'[t].ptr \in Ahead' => old_ptr'[t].ptr = tail'.ptr
             /\ HoldsReference(t)' => old_ptr'[t].external_count >= 1
             /\ pc'[t] \in PushPc => todo'[t] # <<>> /\ Head(todo'[t]).op = "push"
             /\ pc'[t] \in PopPc => todo'[t] # <<>>
  <2>1. HoldsReference(t)' /\ old_ptr'[t].ptr \in Ahead' => old_ptr'[t].ptr = tail'.ptr
    BY <1>2, <1>3, <1>5, <1>7
  <2>2. HoldsReference(t)
    BY <1>7 DEF HoldsReference, Outside
  <2> QED
    BY <2>1, <2>2, <1>5, <1>7
<1>8. CASE PushCall(t)
  <2>1. pc'[t] = "push_acquire" /\ todo' = todo /\ todo[t] # <<>> /\ Head(todo[t]).op = "push"
    BY <1>1, <1>8 DEF PushCall
  <2> QED
    BY <2>1, <1>6 DEF Outside
<1>9. CASE PushAcquire(t)
  <2>1. /\ pc[t] = "push_acquire" /\ pc'[t] = "push_data" /\ todo' = todo /\ old_ptr'[t] = tail'
    BY <1>1, <1>9 DEF PushAcquire
  <2> QED
    BY <2>1, <1>4, <1>5 DEF LocalOf, PushPc, PopPc
<1>10. CASE PushData(t)
  <2>1. /\ pc[t] = "push_data" /\ pc'[t] \in {"push_link", "push_help"} /\ todo' = todo
        /\ old_ptr'[t] = old_ptr[t]
    BY <1>1, <1>10 DEF PushData, localVars
  <2>2. data'[old_ptr[t].ptr] # NoValue
    <3>1. old_ptr[t].ptr \in Addr /\ data \in [Addr -> Value \cup {NoValue}]
      BY <1>1, <1>2, <2>1 DEF Linked, TypeOK, Outside
    <3>2. Head(todo[t]).value # NoValue
      <4>1. todo[t] # <<>> /\ Head(todo[t]).op = "push" /\ todo[t] \in Seq(Call)
        BY <2>1, <1>1, <1>5 DEF PushPc, TypeOK
      <4>2. Head(todo[t]) \in Call
        BY <4>1
      <4>3. Head(todo[t]).value \in Value
        BY <4>1, <4>2 DEF Call
      <4> QED
        BY <4>3, ValueAssumption
    <3> QED
      BY <3>1, <3>2, <1>10 DEF PushData
  <2> QED
    BY <2>1, <2>2, <1>7 DEF LocalOf, PushPc, PopPc, Outside
<1>11. CASE PushLink(t)
  <2>1. /\ pc[t] = "push_link" /\ pc'[t] = "push_tail" /\ todo' = todo /\ old_ptr'[t] = old_ptr[t]
    BY <1>1, <1>11 DEF PushLink
  <2>2. old_ptr[t].ptr \in Linked /\ old_ptr[t].ptr \in Addr /\ next \in [Addr -> CountedNodePtr]
    BY <1>1, <1>2, <2>1 DEF Linked, TypeOK, Outside
  <2>3. new_next[t] # NullPtr
    BY <2>1, CountedFields DEF MemoryInv, PrivateInv, PrivatePc, PushPc
  <2>4. target'[t] = next'[old_ptr[t].ptr] /\ target'[t] # NullPtr
    BY <1>1, <1>11, <2>2, <2>3 DEF PushLink
  <2>5. old_ptr[t].ptr \in Nodes' => data'[old_ptr[t].ptr] # NoValue
    BY <1>1, <1>3, <2>1, <2>2 DEF LocalOf
  <2> QED
    BY <2>1, <2>4, <2>5, <1>7 DEF LocalOf, PushPc, PopPc, Outside
<1>12. CASE PushHelpLink(t) \/ PushHelpLinked(t)
  <2>1. /\ pc[t] = "push_help" /\ pc'[t] = "push_help_tail" /\ todo' = todo /\ old_ptr'[t] = old_ptr[t]
    BY <1>1, <1>12 DEF PushHelpLink, PushHelpLinked
  <2>2. old_ptr[t].ptr \in Linked /\ old_ptr[t].ptr \in Addr /\ next \in [Addr -> CountedNodePtr]
        /\ Linked \subseteq live
    BY <1>1, <1>2, <2>1 DEF Linked, TypeOK, Outside
  <2>3. new_next[t] # NullPtr
    BY <2>1, CountedFields DEF MemoryInv, PrivateInv, PrivatePc, PushPc
  <2>4. target'[t] = next'[old_ptr[t].ptr] /\ target'[t] # NullPtr
    <3>1. CASE PushHelpLink(t)
      <4>1. PICK n \in Addr \ live : next' = [next EXCEPT ![n] = NullPtr, ![old_ptr[t].ptr] = new_next[t]]
        BY <3>1 DEF PushHelpLink
      <4>2. next'[old_ptr[t].ptr] = new_next[t]
        BY <4>1, <2>2
      <4>3. target'[t] = new_next[t]
        BY <3>1, <1>1 DEF PushHelpLink
      <4> QED
        BY <4>2, <4>3, <2>3
    <3>2. CASE PushHelpLinked(t)
      BY <3>2, <1>1 DEF PushHelpLinked, nodeVars
    <3> QED
      BY <3>1, <3>2, <1>12
  <2>5. old_ptr[t].ptr \in Nodes' => data'[old_ptr[t].ptr] # NoValue
    BY <1>1, <1>3, <2>1, <2>2 DEF LocalOf
  <2> QED
    BY <2>1, <2>4, <2>5, <1>7 DEF LocalOf, PushPc, PopPc, Outside
<1>13. CASE PushTail(t) \/ PushHelpTail(t)
  <2>1. /\ pc[t] \in {"push_tail", "push_help_tail"} /\ todo' = todo
        /\ pc'[t] \in {"push_free", "push_help_free", "push_release", "push_help_release"}
    BY <1>1, <1>13 DEF PushTail, PushHelpTail, SetNewTail
  <2>2. CASE tail.ptr # old_ptr[t].ptr
    <3>1. old_ptr'[t] = old_ptr[t]
      BY <1>13, <2>2 DEF PushTail, PushHelpTail, SetNewTail
    <3> QED
      BY <2>1, <3>1, <1>7 DEF LocalOf, PushPc, PopPc, Outside
  <2>3. CASE tail.ptr = old_ptr[t].ptr
    <3>1. old_ptr'[t] = tail /\ tail' = target[t]
      BY <1>1, <1>13, <2>3 DEF PushTail, PushHelpTail, SetNewTail
    <3>2. tail.ptr \in Ahead /\ tail.ptr \notin Ahead'
      <4>1. tail'.ptr # tail.ptr
        BY <1>1, <2>1, <2>3, <3>1 DEF LocalOf, ListInv
      <4> QED
        BY <4>1, <1>1, <1>3, <1>4 DEF ListInv
    <3>3. todo[t] # <<>> /\ Head(todo[t]).op = "push"
      BY <2>1, <1>5 DEF PushPc
    <3> QED
      BY <2>1, <3>1, <3>2, <3>3, <1>4 DEF LocalOf, PushPc, PopPc
  <2> QED
    BY <2>2, <2>3
<1>14. CASE PushHelpFree(t) \/ PushHelpRelease(t)
  <2>1. /\ pc[t] \in PushPc /\ pc'[t] = "push_acquire" /\ todo' = todo
    BY <1>1, <1>14 DEF PushHelpFree, PushHelpRelease, PushPc
  <2> QED
    BY <2>1, <1>5, <1>6 DEF Outside
<1>15. CASE PushReturn(t) \/ PopReturn(t)
  <2>1. pc'[t] = "idle"
    BY <1>1, <1>15 DEF PushReturn, PopReturn
  <2> QED
    BY <2>1, <1>6 DEF Outside
<1>16. CASE PopCall(t)
  <2>1. pc'[t] = "pop_acquire" /\ todo' = todo /\ todo[t] # <<>>
    BY <1>1, <1>16 DEF PopCall
  <2> QED
    BY <2>1, <1>6 DEF Outside
<1>17. CASE PopAcquire(t)
  <2>1. /\ pc[t] = "pop_acquire" /\ pc'[t] = "pop_empty" /\ todo' = todo /\ old_ptr'[t] = head'
        /\ head'.ptr = head.ptr /\ tail' = tail
    BY <1>1, <1>17 DEF PopAcquire, TypeOK, CountedNodePtr
  <2>2. head.ptr \in Ahead' => head.ptr = tail.ptr
    BY <1>1, <1>3, <1>4 DEF ListInv
  <2> QED
    BY <2>1, <2>2, <1>4, <1>5 DEF LocalOf, PushPc, PopPc
<1>18. CASE PopCheckEmpty(t)
  <2>1. /\ pc[t] = "pop_empty" /\ todo' = todo /\ old_ptr'[t] = old_ptr[t] /\ tail' = tail
        /\ \/ pc'[t] = "pop_release_empty"
           \/ pc'[t] = "pop_next" /\ old_ptr[t].ptr # tail.ptr
    BY <1>1, <1>18 DEF PopCheckEmpty, localVars
  <2>2. old_ptr[t].ptr # tail.ptr => old_ptr[t].ptr \notin Ahead'
    BY <2>1, <1>2, <1>3, <1>5 DEF Outside
  <2> QED
    BY <2>1, <2>2, <1>7 DEF LocalOf, PushPc, PopPc, Outside
<1>19. CASE PopNext(t)
  <2>1. /\ pc[t] = "pop_next" /\ pc'[t] = "pop_move" /\ todo' = todo /\ old_ptr'[t] = old_ptr[t]
        /\ target'[t] = next'[old_ptr[t].ptr]
    BY <1>1, <1>19 DEF PopNext, nodeVars
  <2>2. old_ptr[t].ptr \notin Ahead'
    BY <2>1, <1>1, <1>2, <1>3 DEF Outside, LocalOf
  <2> QED
    BY <2>1, <2>2, <1>7 DEF LocalOf, PushPc, PopPc, Outside
<1>20. CASE PopMove(t)
  <2>1. /\ pc[t] = "pop_move" /\ todo' = todo /\ old_ptr'[t] = old_ptr[t] /\ data' = data
        /\ \/ pc'[t] = "pop_release"
           \/ pc'[t] = "pop_take" /\ old_ptr[t] = head
    BY <1>1, <1>20 DEF PopMove, nodeVars, localVars
  <2>2. old_ptr[t] = head => data[old_ptr[t].ptr] # NoValue
    <3>1. old_ptr[t].ptr \notin Ahead
      BY <2>1, <1>1 DEF LocalOf
    <3>2. old_ptr[t] = head => old_ptr[t].ptr \in Passed
      BY <3>1, <1>1 DEF ListInv, Nodes
    <3> QED
      BY <3>2, <1>1 DEF ListInv
  <2> QED
    BY <2>1, <2>2, <1>7 DEF LocalOf, PushPc, PopPc, Outside
<1>21. CASE PopTake(t)
  <2>1. /\ pc[t] = "pop_take" /\ pc'[t] = "pop_free" /\ todo' = todo /\ old_ptr'[t] = old_ptr[t]
    BY <1>1, <1>21 DEF PopTake
  <2> QED
    BY <2>1, <1>7 DEF LocalOf, PushPc, PopPc, Outside
<1>22. CASE PopRelease(t)
  <2>1. /\ pc[t] \in PopPc /\ pc'[t] = "pop_acquire" /\ todo' = todo
    BY <1>1, <1>22 DEF PopRelease, PopPc
  <2> QED
    BY <2>1, <1>5, <1>6 DEF Outside
<1> QED
  BY <1>8, <1>9, <1>10, <1>11, <1>12, <1>13, <1>14, <1>15, <1>16, <1>17, <1>18, <1>19, <1>20, <1>21, <1>22
     DEF PushStep, PopStep

-----------------------------------------------------------------------------
LEMMA MemoryInit == Init => MemoryInv
<1> SUFFICES ASSUME Init PROVE MemoryInv
  OBVIOUS
<1>1. PICK d \in Addr :
        /\ head = Counted(2, d) /\ tail = Counted(2, d) /\ live = {d} /\ first = d
        /\ data = [n \in Addr |-> NoValue] /\ next = [n \in Addr |-> NullPtr]
        /\ internal_count = [n \in Addr |-> 0] /\ external_counters = [n \in Addr |-> 2]
        /\ pc = [t \in Threads |-> "idle"]
  BY DEF Init
<1>2. /\ head.ptr = d /\ tail.ptr = d /\ head.external_count = 2 /\ tail.external_count = 2
      /\ next[d] = NullPtr /\ external_counters[d] = 2 /\ internal_count[d] = 0
  BY <1>1 DEF Counted
<1>3. \A t \in Threads : pc[t] = "idle" /\ pc[t] \notin PushPc /\ pc[t] \notin PopPc /\ pc[t] \notin PrivatePc
  BY <1>1 DEF PushPc, PopPc, PrivatePc
<1>4. /\ \A n : TailMovers(n) = {} /\ HeadMovers(n) = {} /\ Holders(n) = {}
      /\ \A t \in Threads : ~ HoldsReference(t)
  BY <1>3 DEF TailMovers, HeadMovers, Holders, HoldsReference
<1>5. Private = {} /\ Linked = {d}
  BY <1>1, <1>3 DEF Private, Linked
<1>6. Sides(d) = 2
  BY <1>2, <1>4 DEF Sides, One
<1>7. Ahead = {d} /\ Passed = {} /\ Nodes = {d}
  BY <1>5, <1>6 DEF Ahead, Passed, Nodes
<1>8. PrivateInv /\ HoldsInv
  BY <1>1, <1>3, <1>4 DEF PrivateInv, HoldsInv
<1>9. SidesInv
  BY <1>2, <1>4, <1>5, <1>6 DEF SidesInv
<1>10. ListInv
  BY <1>2, <1>5, <1>7 DEF ListInv
<1>11. LocalInv
  BY <1>3, <1>4 DEF LocalInv, LocalOf
<1>12. ReferenceBalance
  <2>1. References(d) = 2
    BY <1>2, <1>4 DEF References, Unsettled, Through
  <2>2. Held(d) = 2
    BY <1>1, <1>4, FS_EmptySet DEF Held
  <2> QED
    BY <2>1, <2>2, <1>1, <1>4 DEF ReferenceBalance, Balanced
<1> QED
  BY <1>8, <1>9, <1>10, <1>11, <1>12, TypeInit DEF MemoryInv

LEMMA MemoryStutters == MemoryInv /\ UNCHANGED vars => MemoryInv'
<1> SUFFICES ASSUME MemoryInv, UNCHANGED vars PROVE MemoryInv'
  OBVIOUS
<1>1. /\ head' = head /\ tail' = tail /\ data' = data /\ next' = next /\ internal_count' = internal_count
      /\ external_counters' = external_counters /\ live' = live /\ first' = first /\ pc' = pc /\ todo' = todo
      /\ new_next' = new_next /\ old_ptr' = old_ptr /\ target' = target /\ taken' = taken /\ results' = results
  BY DEF vars, nodeVars, localVars
<1>2. /\ Private' = Private /\ Linked' = Linked
      /\ \A n : TailMovers(n)' = TailMovers(n) /\ HeadMovers(n)' = HeadMovers(n) /\ Holders(n)' = Holders(n)
      /\ \A t : HoldsReference(t)' <=> HoldsReference(t)
  BY <1>1 DEF Private, Linked, TailMovers, HeadMovers, Holders, HoldsReference
<1>3. \A n : Sides(n)' = Sides(n)
  BY <1>1, <1>2 DEF Sides, One
<1>4. Ahead' = Ahead /\ Passed' = Passed /\ Nodes' = Nodes
  BY <1>2, <1>3 DEF Ahead, Passed, Nodes
<1>5. TypeOK'
  BY <1>1 DEF MemoryInv, TypeOK
<1>6. PrivateInv' /\ HoldsInv'
  BY <1>1, <1>2 DEF MemoryInv, PrivateInv, HoldsInv
<1>7. SidesInv'
  BY <1>1, <1>2, <1>3 DEF MemoryInv, SidesInv
<1>8. ListInv'
  BY <1>1, <1>2, <1>4 DEF MemoryInv, ListInv
<1>9. LocalInv'
  BY <1>1, <1>2, <1>4 DEF MemoryInv, LocalInv, LocalOf
<1>10. ReferenceBalance'
  <2>1. \A n : References(n)' = References(n) /\ Held(n)' = Held(n)
    <3>1. ASSUME NEW n PROVE References(n)' = References(n) /\ Held(n)' = Held(n)
      <4>1. /\ Unsettled(TailMovers(n), n)' = Unsettled(TailMovers(n), n)
            /\ Unsettled(HeadMovers(n), n)' = Unsettled(HeadMovers(n), n)
        BY <1>1, <1>2, UnsettledStays
      <4> QED
        BY <1>1, <1>2, <4>1 DEF References, Held, Through
    <3> QED
      BY <3>1
  <2> QED
    BY <2>1, <1>1, <1>2 DEF MemoryInv, ReferenceBalance, Balanced
<1> QED
  BY <1>5, <1>6, <1>7, <1>8, <1>9, <1>10 DEF MemoryInv

LEMMA MemoryStep == MemoryInv /\ [Next]_vars => MemoryInv'
<1> SUFFICES ASSUME MemoryInv, [Next]_vars PROVE MemoryInv'
  OBVIOUS
<1>1. CASE UNCHANGED vars
  BY <1>1, MemoryStutters
<1>2. ASSUME NEW t \in Threads, PushStep(t) \/ PopStep(t) PROVE MemoryInv'
  <2>1. /\ TypeOK /\ LocalOf(t)
        /\ HoldsReference(t) => old_ptr[t].ptr \in Addr
    BY DEF MemoryInv, LocalInv, HoldsInv, Linked, TypeOK
  <2>2. TypeOK'
    BY <1>2, <2>1, TypeStep DEF LocalOf
  <2>3. MemoryNext /\ ListSteps(t) /\ ListInv' /\ DataKeeps(t) /\ Others(t)
    BY <1>2, <2>1, <2>2, StepKeeps, DataStep, StepKinds DEF Step
  <2>4. LocalInv'
    <3>1. ASSUME NEW u \in Threads PROVE LocalOf(u)'
      BY <1>2, <2>2, <2>3, OthersLocal, OwnLocal
    <3> QED
      BY <3>1 DEF LocalInv
  <2> QED
    BY <2>2, <2>3, <2>4 DEF MemoryInv, MemoryNext
<1> QED
  BY <1>1, <1>2 DEF Next

LEMMA Memory == Spec => []MemoryInv
BY MemoryInit, MemoryStep, PTL DEF Spec

(* No call touches a node that another one has deleted.                     *)
THEOREM NoUse == Spec => []NoUseAfterFree
<1>1. MemoryInv => NoUseAfterFree
  BY DEF MemoryInv, HoldsInv, NoUseAfterFree, Linked
<1> QED
  BY <1>1, Memory, PTL

(* The counts of a node always add up to the references that are held.      *)
THEOREM Balance == Spec => []ReferenceBalance
<1>1. MemoryInv => ReferenceBalance
  BY DEF MemoryInv
<1> QED
  BY <1>1, Memory, PTL

-----------------------------------------------------------------------------
(* The order of the nodes of the queue: link leads from start through the n *)
(* addresses of q, then to Null.                                            *)
Leads(start, link, n, q) ==
    /\ start = q[1]
    /\ \A i \in 1 .. n : link[q[i]].ptr = IF i = n THEN Null ELSE q[i + 1]

Ordered(n, q) ==
    /\ n \in Nat \ {0}
    /\ q \in [1 .. n -> Addr]
    /\ Leads(head.ptr, next, n, q)
    /\ {q[i] : i \in 1 .. n} = Nodes
    /\ \A i, j \in 1 .. n : q[i] = q[j] => i = j

OrderInv == \E n \in Nat \ {0} : \E q \in [1 .. n -> Addr] : Ordered(n, q)

Longer(n, q, a) == [i \in 1 .. n + 1 |-> IF i = n + 1 THEN a ELSE q[i]]
Shorter(n, q)   == [i \in 1 .. n - 1 |-> q[i + 1]]

(* What the kinds of steps do to the sequence.                              *)
LEMMA OrderStays ==
    ASSUME NEW n, NEW q, Ordered(n, q), Nodes' = Nodes, head'.ptr = head.ptr,
           \A a \in Nodes : next'[a] = next[a]
    PROVE  Ordered(n, q)'
<1>1. \A i \in 1 .. n : next'[q[i]] = next[q[i]]
  BY DEF Ordered
<1> QED
  BY <1>1 DEF Ordered, Leads

LEMMA OrderGrows ==
    ASSUME TypeOK, ListInv, Linked \subseteq Addr, NEW n, NEW q, Ordered(n, q), NEW t \in Threads, ListGrows(t),
           NEW e, e = new_next[t].ptr
    PROVE  Ordered(n + 1, Longer(n, q, e))'
<1> DEFINE r == Longer(n, q, e)
<1>0. PICK o : o = old_ptr[t].ptr
  OBVIOUS
<1>1. /\ n \in Nat \ {0} /\ q \in [1 .. n -> Addr] /\ {q[i] : i \in 1 .. n} = Nodes
      /\ head.ptr = q[1]
      /\ \A i \in 1 .. n : next[q[i]].ptr = IF i = n THEN Null ELSE q[i + 1]
      /\ \A i, j \in 1 .. n : q[i] = q[j] => i = j
  BY DEF Ordered, Leads
<1>2. /\ Nodes' = Nodes \cup {e} /\ head' = head
      /\ o \in Nodes /\ e \in Addr \ Nodes
      /\ next[o].ptr = Null /\ next'[e].ptr = Null /\ next'[o].ptr = e
      /\ \A a \in Nodes \ {o} : next'[a] = next[a]
  <2>1. Nodes \subseteq Linked
    BY DEF Nodes, Ahead, Passed
  <2>2. /\ e \in Addr \ Linked /\ o = tail.ptr /\ next[o] = NullPtr /\ head' = head
        /\ Ahead' = Ahead \cup {e} /\ Passed' = Passed
        /\ next'[e] = NullPtr /\ next'[o] = Counted(1, e) /\ \A a \in Linked \ {o} : next'[a] = next[a]
    BY <1>0 DEF ListGrows
  <2>3. o \in Nodes
    BY <2>2 DEF ListInv, Nodes
  <2> QED
    BY <2>1, <2>2, <2>3, CountedFields DEF Nodes
<1>3. o = q[n]
  <2>1. PICK i \in 1 .. n : o = q[i]
    BY <1>1, <1>2
  <2>2. i = n
    <3> SUFFICES ASSUME i # n PROVE FALSE
      OBVIOUS
    <3>1. q[i + 1] = Null /\ i + 1 \in 1 .. n
      BY <1>1, <1>2, <2>1
    <3> QED
      BY <3>1, <1>1, NullAssumption
  <2> QED
    BY <2>1, <2>2
<1>4. r \in [1 .. n + 1 -> Addr] /\ \A i \in 1 .. n : r[i] = q[i] /\ r[n + 1] = e
  BY <1>1, <1>2 DEF Longer
<1>5. \A i \in 1 .. n : q[i] # e /\ q[i] \in Nodes
  BY <1>1, <1>2
<1>6. \A i \in 1 .. n : next'[q[i]].ptr = IF i = n THEN e ELSE q[i + 1]
  <2> SUFFICES ASSUME NEW i \in 1 .. n PROVE next'[q[i]].ptr = IF i = n THEN e ELSE q[i + 1]
    OBVIOUS
  <2>1. CASE i = n
    BY <2>1, <1>2, <1>3
  <2>2. CASE i # n
    <3>1. q[i] # o
      BY <2>2, <1>1, <1>3
    <3> QED
      BY <3>1, <2>2, <1>1, <1>2, <1>5
  <2> QED
    BY <2>1, <2>2
<1>7. {r[i] : i \in 1 .. n + 1} = Nodes'
  <2>1. n + 1 \in 1 .. n + 1 /\ r[n + 1] = e
    <3>1. 1 \in 1 .. n
      BY <1>1
    <3> QED
      BY <3>1, <1>1, <1>4
  <2>2. ASSUME NEW i \in 1 .. n + 1 PROVE r[i] \in Nodes \cup {e}
    <3>1. CASE i = n + 1
      BY <3>1, <2>1
    <3>2. CASE i \in 1 .. n
      BY <3>2, <1>1, <1>4
    <3> QED
      BY <3>1, <3>2, <1>1
  <2>3. ASSUME NEW a \in Nodes PROVE \E i \in 1 .. n + 1 : r[i] = a
    <3>1. PICK i \in 1 .. n : q[i] = a
      BY <1>1
    <3>2. r[i] = a /\ i \in 1 .. n + 1
      BY <3>1, <1>1, <1>4
    <3> QED
      BY <3>2
  <2> QED
    BY <2>1, <2>2, <2>3, <1>2
<1>8. \A i, j \in 1 .. n + 1 : r[i] = r[j] => i = j
  <2> SUFFICES ASSUME NEW i \in 1 .. n + 1, NEW j \in 1 .. n + 1, r[i] = r[j] PROVE i = j
    OBVIOUS
  <2>1. \A k \in 1 .. n + 1 : k \in 1 .. n \/ k = n + 1
    BY <1>1
  <2> QED
    BY <2>1, <1>1, <1>4, <1>5
<1>9. \A i \in 1 .. n + 1 : next'[r[i]].ptr = IF i = n + 1 THEN Null ELSE r[i + 1]
  <2> SUFFICES ASSUME NEW i \in 1 .. n + 1
               PROVE  next'[r[i]].ptr = IF i = n + 1 THEN Null ELSE r[i + 1]
    OBVIOUS
  <2>1. CASE i = n + 1
    BY <2>1, <1>1, <1>2, <1>4
  <2>2. CASE i = n
    BY <2>2, <1>1, <1>4, <1>6
  <2>3. CASE i \in 1 .. n - 1
    <3>1. i \in 1 .. n /\ i + 1 \in 1 .. n /\ i # n /\ i # n + 1
      BY <2>3, <1>1
    <3> QED
      BY <3>1, <1>4, <1>6
  <2> QED
    BY <2>1, <2>2, <2>3, <1>1
<1>10. head'.ptr = r[1] /\ n + 1 \in Nat \ {0}
  BY <1>1, <1>2, <1>4
<1> HIDE DEF r
<1>11. Leads(head'.ptr, next', n + 1, r)
  BY <1>9, <1>10 DEF Leads
<1>12. Ordered(n + 1, r)'
  BY <1>4, <1>7, <1>8, <1>10, <1>11 DEF Ordered
<1> QED
  BY <1>12 DEF r

LEMMA OrderShrinks ==
    ASSUME ListInv, NEW n, NEW q, Ordered(n, q), NEW t \in Threads, HeadSteps(t)
    PROVE  Ordered(n - 1, Shorter(n, q))'
<1> DEFINE r == Shorter(n, q)
<1>0. PICK o : o = head.ptr
  OBVIOUS
<1>1. /\ n \in Nat \ {0} /\ q \in [1 .. n -> Addr] /\ {q[i] : i \in 1 .. n} = Nodes
      /\ o = q[1]
      /\ \A i \in 1 .. n : next[q[i]].ptr = IF i = n THEN Null ELSE q[i + 1]
      /\ \A i, j \in 1 .. n : q[i] = q[j] => i = j
  BY <1>0 DEF Ordered, Leads
<1>2. Nodes' = Nodes \ {o} /\ head'.ptr = next[o].ptr /\ next' = next /\ next[o].ptr \in Addr
  <2>1. /\ head' = next[o] /\ o \notin Ahead /\ next' = next
        /\ Ahead' = Ahead /\ Passed' = Passed \ {o}
    BY <1>0 DEF HeadSteps
  <2>2. o \in Nodes /\ o \in Linked \ Ahead
    BY <1>0, <2>1 DEF ListInv, Nodes, Passed
  <2>3. next[o].ptr \in Nodes
    BY <2>2 DEF ListInv
  <2>4. next[o].ptr \in Addr
    BY <1>1, <2>3
  <2> QED
    BY <2>1, <2>4 DEF Nodes
<1>3. n > 1 /\ n - 1 \in Nat \ {0}
  BY <1>1, <1>2, NullAssumption
<1>4. /\ r \in [1 .. n - 1 -> Addr]
      /\ \A i \in 1 .. n - 1 : r[i] = q[i + 1] /\ i + 1 \in 1 .. n
  BY <1>1, <1>3 DEF Shorter
<1>5. head'.ptr = r[1]
  BY <1>1, <1>2, <1>3, <1>4
<1>6. \A i \in 1 .. n - 1 : next'[r[i]].ptr = IF i = n - 1 THEN Null ELSE r[i + 1]
  <2> SUFFICES ASSUME NEW i \in 1 .. n - 1
               PROVE  next'[r[i]].ptr = IF i = n - 1 THEN Null ELSE r[i + 1]
    OBVIOUS
  <2>1. next'[r[i]].ptr = IF i + 1 = n THEN Null ELSE q[i + 2]
    BY <1>1, <1>2, <1>4
  <2>2. i # n - 1 => i + 1 \in 1 .. n - 1 /\ r[i + 1] = q[i + 2]
    BY <1>3, <1>4
  <2> QED
    BY <2>1, <2>2, <1>1, <1>3
<1>7. \A i, j \in 1 .. n - 1 : r[i] = r[j] => i = j
  <2> SUFFICES ASSUME NEW i \in 1 .. n - 1, NEW j \in 1 .. n - 1, r[i] = r[j] PROVE i = j
    OBVIOUS
  <2>1. i + 1 = j + 1
    BY <1>1, <1>4
  <2> QED
    BY <2>1
<1>8. {r[i] : i \in 1 .. n - 1} = Nodes'
  <2>1. \A i \in 1 .. n - 1 : r[i] \in Nodes /\ r[i] # o
    BY <1>1, <1>3, <1>4
  <2>2. ASSUME NEW a \in Nodes', a \notin {r[i] : i \in 1 .. n - 1} PROVE FALSE
    <3>1. PICK j \in 1 .. n : a = q[j]
      BY <1>1, <1>2
    <3>2. j # 1
      BY <1>1, <1>2, <3>1
    <3>3. j - 1 \in 1 .. n - 1 /\ (j - 1) + 1 = j
      BY <1>1, <3>2
    <3>4. r[j - 1] = q[j]
      BY <1>4, <3>3
    <3> QED
      BY <2>2, <3>1, <3>3, <3>4
  <2> QED
    BY <2>1, <2>2, <1>2
<1> HIDE DEF r
<1>9. Leads(head'.ptr, next', n - 1, r)
  BY <1>5, <1>6 DEF Leads
<1>10. Ordered(n - 1, r)'
  BY <1>3, <1>4, <1>7, <1>8, <1>9 DEF Ordered
<1> QED
  BY <1>10 DEF r

(* So every step keeps the nodes in order.                                  *)
LEMMA InitOrder == Init => OrderInv
<1> SUFFICES ASSUME Init PROVE OrderInv
  OBVIOUS
<1>1. PICK d \in Addr :
        /\ head = Counted(2, d) /\ live = {d}
        /\ next = [n \in Addr |-> NullPtr] /\ external_counters = [n \in Addr |-> 2]
        /\ pc = [t \in Threads |-> "idle"]
  BY DEF Init
<1>2. \A t \in Threads : pc[t] = "idle" /\ pc[t] \notin PrivatePc
  BY <1>1 DEF PushPc, PrivatePc
<1>3. /\ TailMovers(d) = {} /\ HeadMovers(d) = {} /\ Private = {} /\ Linked = {d}
  BY <1>1, <1>2 DEF TailMovers, HeadMovers, Private, Linked
<1>4. Sides(d) = 2
  BY <1>1, <1>3 DEF Sides, One
<1>5. Nodes = {d} /\ head.ptr = d /\ next[d].ptr = Null
  BY <1>1, <1>3, <1>4 DEF Ahead, Passed, Nodes, Counted, NullPtr
<1> DEFINE q == [i \in 1 .. 1 |-> d]
<1>6. q \in [1 .. 1 -> Addr] /\ q[1] = d /\ \A i \in 1 .. 1 : i = 1
  OBVIOUS
<1>7. Leads(head.ptr, next, 1, q)
  BY <1>5, <1>6 DEF Leads
<1>8. {q[i] : i \in 1 .. 1} = Nodes
  BY <1>5
<1>9. Ordered(1, q)
  BY <1>6, <1>7, <1>8 DEF Ordered
<1> HIDE DEF q
<1>10. 1 \in Nat \ {0} /\ \E r \in [1 .. 1 -> Addr] : Ordered(1, r)
  BY <1>6, <1>9
<1> QED
  BY <1>10 DEF OrderInv

LEMMA NextOrder == MemoryInv /\ OrderInv /\ [Next]_vars => OrderInv'
<1> SUFFICES ASSUME MemoryInv, OrderInv, [Next]_vars PROVE OrderInv'
  OBVIOUS
<1>1. PICK n \in Nat \ {0} : \E q \in [1 .. n -> Addr] : Ordered(n, q)
  BY DEF OrderInv
<1>2. PICK q \in [1 .. n -> Addr] : Ordered(n, q)
  BY <1>1
<1>3. ASSUME NEW m, NEW r, Ordered(m, r)' PROVE OrderInv'
  BY <1>3 DEF OrderInv, Ordered
<1>4. TypeOK /\ ListInv /\ TypeOK' /\ Linked \subseteq Addr /\ Nodes \subseteq Linked
  BY MemoryStep DEF MemoryInv, TypeOK, Linked, Nodes, Ahead, Passed
<1>5. CASE UNCHANGED vars
  <2>1. /\ Private' = Private /\ Linked' = Linked
        /\ \A a : TailMovers(a)' = TailMovers(a) /\ HeadMovers(a)' = HeadMovers(a)
    BY <1>5 DEF vars, nodeVars, localVars, Private, Linked, TailMovers, HeadMovers
  <2>2. \A a : Sides(a)' = Sides(a)
    BY <1>5, <2>1 DEF Sides, One, vars, nodeVars
  <2>3. Nodes' = Nodes
    BY <2>1, <2>2 DEF Ahead, Passed, Nodes
  <2> QED
    BY <2>3, <1>2, <1>3, <1>5, OrderStays DEF vars, nodeVars
<1>6. ASSUME NEW t \in Threads, ListSteps(t) PROVE OrderInv'
  <2>1. CASE ListStays
    <3>1. Nodes' = Nodes /\ head'.ptr = head.ptr /\ \A a \in Nodes : next'[a] = next[a]
      BY <2>1, <1>4 DEF ListStays, Nodes
    <3> QED
      BY <3>1, <1>2, <1>3, OrderStays
  <2>2. CASE ListGrows(t)
    BY <2>2, <1>2, <1>3, <1>4, OrderGrows
  <2>3. CASE TailSteps(t)
    <3>1. Nodes' = Nodes /\ head'.ptr = head.ptr /\ \A a \in Nodes : next'[a] = next[a]
      BY <2>3, <1>4 DEF TailSteps, Nodes, ListInv
    <3> QED
      BY <3>1, <1>2, <1>3, OrderStays
  <2>4. CASE HeadSteps(t)
    BY <2>4, <1>2, <1>3, <1>4, OrderShrinks
  <2> QED
    BY <1>6, <2>1, <2>2, <2>3, <2>4 DEF ListSteps
<1>7. ASSUME NEW t \in Threads, PushStep(t) \/ PopStep(t) PROVE OrderInv'
  BY <1>4, <1>6, <1>7, StepKeeps
<1> QED
  BY <1>5, <1>7 DEF Next

LEMMA OrderInvariance == Spec => [](MemoryInv /\ OrderInv)
BY InitOrder, NextOrder, MemoryInit, MemoryStep, PTL DEF Spec

-----------------------------------------------------------------------------
(* A nonempty set of naturals has a least element.                          *)
LEMMA LeastNatural ==
    ASSUME NEW S \in SUBSET Nat, S # {}
    PROVE  \E x \in S : \A y \in S : x <= y
<1>1. \E x \in S : \A y \in S : ~(<<y, x>> \in OpToRel(<, Nat))
  BY NatLessThanWellFounded, WFMin
<1>2. ASSUME NEW x \in Nat, NEW y \in Nat, ~(<<y, x>> \in OpToRel(<, Nat))
      PROVE  x <= y
  BY <1>2 DEF OpToRel
<1> QED
  BY <1>1, <1>2

(* Walk meets the addresses of q, in their order, and then Null: its        *)
(* equation has one solution, since two would differ at a least index.      *)
Met(n, q) == [i \in 0 .. Cardinality(Addr) |-> IF i < n THEN q[i + 1] ELSE Null]

LEMMA WalkMeets ==
    ASSUME NEW start, NEW link, NEW n \in Nat \ {0}, NEW q \in [1 .. n -> Addr],
           Leads(start, link, n, q)
    PROVE  Walk(start, link) = Met(n, q)
<1> DEFINE C == Cardinality(Addr)
           Along(g) == g = [i \in 0 .. C |->
               IF i = 0 THEN start ELSE IF g[i - 1] = Null THEN Null ELSE link[g[i - 1]].ptr]
<1>1. C \in Nat
  BY AddrAssumption, FS_CardinalityType
<1>2. Walk(start, link) = CHOOSE g : Along(g)
  BY DEF Walk
<1>3. Along(Met(n, q))
  <2> SUFFICES ASSUME NEW i \in 0 .. C
               PROVE  Met(n, q)[i] =
                   IF i = 0 THEN start
                   ELSE IF Met(n, q)[i - 1] = Null THEN Null ELSE link[Met(n, q)[i - 1]].ptr
    BY DEF Met
  <2>1. CASE i = 0
    BY <2>1, <1>1 DEF Met, Leads
  <2>2. CASE i # 0
    <3>1. i - 1 \in 0 .. C /\ (i - 1) + 1 = i
      BY <2>2, <1>1
    <3>2. CASE i - 1 < n
      <4>1. i \in 1 .. n /\ Met(n, q)[i - 1] = q[i] /\ q[i] # Null
        BY <3>1, <3>2, <2>2, NullAssumption DEF Met
      <4>2. Met(n, q)[i] = IF i = n THEN Null ELSE q[i + 1]
        BY <4>1, <1>1 DEF Met
      <4> QED
        BY <4>1, <4>2, <2>2 DEF Leads
    <3>3. CASE ~(i - 1 < n)
      BY <3>1, <3>3, <2>2, <1>1 DEF Met
    <3> QED
      BY <3>2, <3>3
  <2> QED
    BY <2>1, <2>2
<1>4. ASSUME NEW g, Along(g) PROVE g = Met(n, q)
  <2>1. /\ \A i \in 0 .. C : g[i] = IF i = 0 THEN start
               ELSE IF g[i - 1] = Null THEN Null ELSE link[g[i - 1]].ptr
        /\ g = [i \in 0 .. C |-> g[i]]
    <3> DEFINE value(i) == IF i = 0 THEN start
                           ELSE IF g[i - 1] = Null THEN Null ELSE link[g[i - 1]].ptr
    <3>1. g = [i \in 0 .. C |-> value(i)]
      BY <1>4
    <3> HIDE DEF value
    <3>2. \A i \in 0 .. C : g[i] = value(i)
      BY <3>1
    <3>3. g = [i \in 0 .. C |-> g[i]]
      BY <3>1
    <3> QED
      BY <3>2, <3>3 DEF value
  <2>2. \A i \in 0 .. C : Met(n, q)[i] = IF i = 0 THEN start
           ELSE IF Met(n, q)[i - 1] = Null THEN Null ELSE link[Met(n, q)[i - 1]].ptr
    BY <1>3
  <2> DEFINE Differ == {i \in 0 .. C : g[i] # Met(n, q)[i]}
  <2>3. Differ = {}
    <3> SUFFICES ASSUME Differ # {} PROVE FALSE
      OBVIOUS
    <3>1. Differ \in SUBSET Nat
      BY <1>1
    <3>2. PICK i \in Differ : \A j \in Differ : i <= j
      BY <3>1, LeastNatural
    <3>3. i # 0
      BY <2>1, <2>2, <3>2
    <3>4. i - 1 \in 0 .. C /\ i - 1 \notin Differ
      BY <1>1, <3>1, <3>2, <3>3
    <3>5. g[i - 1] = Met(n, q)[i - 1]
      BY <3>4
    <3> QED
      BY <2>1, <2>2, <3>2, <3>3, <3>5
  <2> QED
    BY <2>1, <2>3 DEF Met
<1> HIDE DEF Along
<1>5. Along(CHOOSE g : Along(g))
  BY <1>3
<1> QED
  BY <1>2, <1>4, <1>5

(* There are no more nodes than addresses, so the walk from head meets      *)
(* exactly the nodes of the queue.                                          *)
LEMMA NoMoreThanAddr ==
    ASSUME NEW n \in Nat, NEW q \in [1 .. n -> Addr],
           \A i, j \in 1 .. n : q[i] = q[j] => i = j
    PROVE  n <= Cardinality(Addr)
<1>1. q \in Injection(1 .. n, Addr)
  BY DEF Injection, IsInjective
<1>2. Cardinality(1 .. n) <= Cardinality(Addr)
  BY <1>1, AddrAssumption, FS_Injection
<1> QED
  BY <1>2, FS_Interval

LEMMA ChainIsNodes == OrderInv => Chain(head.ptr) = Nodes
<1> SUFFICES ASSUME NEW n \in Nat \ {0}, NEW q \in [1 .. n -> Addr], Ordered(n, q)
             PROVE  Chain(head.ptr) = Nodes
  BY DEF OrderInv
<1> DEFINE C == Cardinality(Addr)
<1>1. C \in Nat /\ n <= C
  BY AddrAssumption, FS_CardinalityType, NoMoreThanAddr DEF Ordered
<1>2. Walk(head.ptr, next) = Met(n, q)
  BY WalkMeets DEF Ordered
<1>3. Chain(head.ptr) = {Met(n, q)[i] : i \in 0 .. C} \ {Null}
  BY <1>2 DEF Chain
<1>4. \A i \in 0 .. C : Met(n, q)[i] = IF i < n THEN q[i + 1] ELSE Null
  BY DEF Met
<1>5. \A i \in 0 .. C : i < n => i + 1 \in 1 .. n
  BY <1>1
<1>6. \A j \in 1 .. n : j - 1 \in 0 .. C /\ j - 1 < n /\ Met(n, q)[j - 1] = q[j] /\ q[j] # Null
  BY <1>1, <1>4, NullAssumption
<1>7. {Met(n, q)[i] : i \in 0 .. C} \ {Null} = {q[j] : j \in 1 .. n}
  <2>1. ASSUME NEW i \in 0 .. C, Met(n, q)[i] # Null
        PROVE  Met(n, q)[i] \in {q[j] : j \in 1 .. n}
    BY <2>1, <1>4, <1>5
  <2>2. ASSUME NEW j \in 1 .. n
        PROVE  q[j] \in {Met(n, q)[i] : i \in 0 .. C} \ {Null}
    BY <1>6
  <2> QED
    BY <2>1, <2>2
<1> QED
  BY <1>3, <1>7 DEF Ordered

(* When nothing runs, a node that has left the queue has been given all its *)
(* references back, so its last holder deleted it: only the node of the     *)
(* constructor starts with references nobody will give back.                *)
THEOREM NoLeak == Spec => []OnlyFirstLeaks
<1>1. ASSUME MemoryInv, OrderInv PROVE OnlyFirstLeaks
  <2> SUFFICES ASSUME Done PROVE live = Nodes \cup {first}
    BY <1>1, ChainIsNodes DEF OnlyFirstLeaks
  <2>1. TypeOK /\ HoldsInv /\ SidesInv /\ ListInv /\ ReferenceBalance
    BY <1>1 DEF MemoryInv
  <2>2. \A t \in Threads : pc[t] = "idle" /\ pc[t] \notin PrivatePc
    BY DEF Done, PrivatePc, PushPc
  <2>3. /\ Private = {} /\ Linked = live
        /\ \A n : TailMovers(n) = {} /\ HeadMovers(n) = {} /\ Holders(n) = {}
    BY <2>2 DEF Private, Linked, TailMovers, HeadMovers, Holders, HoldsReference
  <2>4. Nodes \cup {first} \subseteq live
    BY <2>1, <2>3 DEF HoldsInv, Nodes, Ahead, Passed
  <2>5. ASSUME NEW n \in live, n \notin Nodes, n # first PROVE FALSE
    <3>1. n \in Linked /\ n \in Addr /\ internal_count[n] \in 0 .. InternalWrap - 1
          /\ external_counters[n] \in Int
      BY <2>1, <2>3 DEF TypeOK
    <3>2. Sides(n) = external_counters[n]
      BY <2>3, <3>1 DEF Sides, One
    <3>3. external_counters[n] = 0
      <4>1. Sides(n) \in 0 .. 2 /\ Sides(n) # 1 /\ Sides(n) # 2
        BY <2>1, <2>5, <3>1 DEF SidesInv, Nodes, Ahead, Passed
      <4> QED
        BY <3>2, <4>1
    <3>4. head.ptr # n /\ tail.ptr # n
      BY <2>1, <2>5 DEF ListInv, Nodes
    <3>5. References(n) = internal_count[n]
      BY <2>3, <3>1, <3>4 DEF References, Through, Unsettled
    <3>6. Held(n) = 0
      BY <2>3, <2>5, FS_EmptySet DEF Held
    <3>7. internal_count[n] % InternalWrap = 0 % InternalWrap
      BY <2>1, <3>5, <3>6 DEF ReferenceBalance, Balanced
    <3>8. 0 \in 0 .. InternalWrap - 1
      BY Wraps
    <3>9. internal_count[n] = 0
      BY <3>1, <3>7, <3>8, CountsSmall
    <3> QED
      BY <2>1, <3>1, <3>3, <3>9 DEF SidesInv
  <2> QED
    BY <2>4, <2>5
<1> QED
  BY <1>1, OrderInvariance, PTL

-----------------------------------------------------------------------------
(* Where a value is: still to be stored by a push(), in a node, in the hands *)
(* of a pop() or returned.                                                  *)
Stored == {"push_link", "push_tail", "push_free", "push_release"}
Pending(t) == {i \in DOMAIN todo[t] : todo[t][i].op = "push" /\ ~ (i = 1 /\ pc[t] \in Stored)}

ToStore(v)  == UNION {{<<"todo", t, i>> : i \in {j \in Pending(t) : todo[t][j].value = v}} : t \in Threads}
InNodes(v)  == {<<"data", n, 0>> : n \in {m \in Addr : data[m] = v}}
InHands(v)  == {<<"taken", t, 0>> : t \in {u \in Threads : taken[u] = v}}
Returned(v) == UNION {{<<"results", t, i>> : i \in {j \in DOMAIN results[t] : results[t][j] = v}} : t \in Threads}
Places(v)   == ToStore(v) \cup InNodes(v) \cup InHands(v) \cup Returned(v)

Alone(v) == \A p, q \in Places(v) : p = q

ValueInv ==
    /\ \A v \in Value : Alone(v)
    /\ \A t \in Threads : pc[t] = "pop_free" => taken[t] # NoValue

LEMMA PlacesOf == \A v, p :
    p \in Places(v) <=>
        \/ \E t \in Threads : \E i \in DOMAIN todo[t] :
              /\ p = <<"todo", t, i>> /\ todo[t][i].op = "push" /\ todo[t][i].value = v
              /\ ~ (i = 1 /\ pc[t] \in Stored)
        \/ \E n \in Addr : p = <<"data", n, 0>> /\ data[n] = v
        \/ \E t \in Threads : p = <<"taken", t, 0>> /\ taken[t] = v
        \/ \E t \in Threads : \E i \in DOMAIN results[t] : p = <<"results", t, i>> /\ results[t][i] = v
<1> TAKE v, p
<1>1. p \in ToStore(v)
      <=> \E t \in Threads : \E i \in DOMAIN todo[t] :
              /\ p = <<"todo", t, i>> /\ todo[t][i].op = "push" /\ todo[t][i].value = v
              /\ ~ (i = 1 /\ pc[t] \in Stored)
  <2>1. \A t : \A i : i \in Pending(t) <=> /\ i \in DOMAIN todo[t] /\ todo[t][i].op = "push"
                                            /\ ~ (i = 1 /\ pc[t] \in Stored)
    BY DEF Pending
  <2> QED
    BY <2>1 DEF ToStore
<1>2. p \in Returned(v)
      <=> \E t \in Threads : \E i \in DOMAIN results[t] : p = <<"results", t, i>> /\ results[t][i] = v
  BY DEF Returned
<1>3. p \in InNodes(v)
      <=> \E n \in Addr : p = <<"data", n, 0>> /\ data[n] = v
  BY DEF InNodes
<1>4. p \in InHands(v)
      <=> \E t \in Threads : p = <<"taken", t, 0>> /\ taken[t] = v
  BY DEF InHands
<1> QED
  BY <1>1, <1>2, <1>3, <1>4 DEF Places

LEMMA PlacesNext == \A v, p :
    p \in Places(v)' <=>
        \/ \E t \in Threads : \E i \in DOMAIN todo'[t] :
              /\ p = <<"todo", t, i>> /\ todo'[t][i].op = "push" /\ todo'[t][i].value = v
              /\ ~ (i = 1 /\ pc'[t] \in Stored)
        \/ \E n \in Addr : p = <<"data", n, 0>> /\ data'[n] = v
        \/ \E t \in Threads : p = <<"taken", t, 0>> /\ taken'[t] = v
        \/ \E t \in Threads : \E i \in DOMAIN results'[t] : p = <<"results", t, i>> /\ results'[t][i] = v
<1> TAKE v, p
<1>1. p \in ToStore(v)'
      <=> \E t \in Threads : \E i \in DOMAIN todo'[t] :
              /\ p = <<"todo", t, i>> /\ todo'[t][i].op = "push" /\ todo'[t][i].value = v
              /\ ~ (i = 1 /\ pc'[t] \in Stored)
  <2>1. \A t : \A i : i \in Pending(t)' <=> /\ i \in DOMAIN todo'[t] /\ todo'[t][i].op = "push"
                                            /\ ~ (i = 1 /\ pc'[t] \in Stored)
    BY DEF Pending
  <2> QED
    BY <2>1 DEF ToStore
<1>2. p \in Returned(v)'
      <=> \E t \in Threads : \E i \in DOMAIN results'[t] : p = <<"results", t, i>> /\ results'[t][i] = v
  BY DEF Returned
<1>3. p \in InNodes(v)'
      <=> \E n \in Addr : p = <<"data", n, 0>> /\ data'[n] = v
  BY DEF InNodes
<1>4. p \in InHands(v)'
      <=> \E t \in Threads : p = <<"taken", t, 0>> /\ taken'[t] = v
  BY DEF InHands
<1> QED
  BY <1>1, <1>2, <1>3, <1>4 DEF Places

(* Steps that put no value anywhere.                                        *)
LEMMA ValuesStay ==
    ASSUME NEW v \in Value, Alone(v), todo' = todo, results' = results,
           \A n \in Addr : data'[n] = data[n] \/ data'[n] = NoValue,
           \A t \in Threads : taken'[t] = taken[t] \/ taken'[t] = NoValue,
           \A t \in Threads : pc'[t] \in Stored <=> pc[t] \in Stored
    PROVE  Alone(v)'
<1>1. v # NoValue
  BY ValueAssumption
<1>2. Places(v)' \subseteq Places(v)
  BY <1>1, PlacesOf, PlacesNext
<1> QED
  BY <1>2 DEF Alone

(* push() stores its value in a node, pop() takes the value of a node.      *)
LEMMA ValueStored ==
    ASSUME NEW v \in Value, Alone(v), NEW t \in Threads, NEW n \in Addr,
           todo' = todo, results' = results, taken' = taken,
           todo[t] \in Seq(Call), todo[t] # <<>>, Head(todo[t]).op = "push",
           data' = [data EXCEPT ![n] = Head(todo[t]).value],
           pc[t] \notin Stored, pc'[t] \in Stored, \A u \in Threads \ {t} : pc'[u] = pc[u],
           data \in [Addr -> Value \cup {NoValue}]
    PROVE  Alone(v)'
<1>0. 1 \in DOMAIN todo[t] /\ Head(todo[t]) = todo[t][1]
  OBVIOUS
<1> DEFINE From(p) == IF p = <<"data", n, 0>> THEN <<"todo", t, 1>> ELSE p
<1>1. ASSUME NEW p \in Places(v)' PROVE From(p) \in Places(v) /\ p # <<"todo", t, 1>>
  <2>1. CASE \E u \in Threads : \E i \in DOMAIN todo'[u] :
              /\ p = <<"todo", u, i>> /\ todo'[u][i].op = "push" /\ todo'[u][i].value = v
              /\ ~ (i = 1 /\ pc'[u] \in Stored)
    <3>0. PICK u \in Threads : \E i \in DOMAIN todo[u] :
              /\ p = <<"todo", u, i>> /\ todo[u][i].op = "push" /\ todo[u][i].value = v
              /\ ~ (i = 1 /\ pc'[u] \in Stored)
      BY <2>1
    <3>1. PICK i \in DOMAIN todo[u] :
              /\ p = <<"todo", u, i>> /\ todo[u][i].op = "push" /\ todo[u][i].value = v
              /\ ~ (i = 1 /\ pc'[u] \in Stored)
      BY <3>0
    <3>2. ~ (i = 1 /\ pc[u] \in Stored) /\ ~ (u = t /\ i = 1)
      BY <3>1
    <3>3. p \in Places(v)
      BY <3>1, <3>2, PlacesOf
    <3> QED
      BY <3>1, <3>2, <3>3
  <2>2. CASE \E m \in Addr : p = <<"data", m, 0>> /\ data'[m] = v
    <3>1. PICK m \in Addr : p = <<"data", m, 0>> /\ data'[m] = v
      BY <2>2
    <3>2. CASE m = n
      <4>1. todo[t][1].value = v /\ From(p) = <<"todo", t, 1>>
        BY <3>1, <3>2, <1>0
      <4>2. <<"todo", t, 1>> \in Places(v)
        BY <4>1, <1>0, PlacesOf
      <4> QED
        BY <4>1, <4>2, <3>1
    <3>3. CASE m # n
      <4>1. data[m] = v /\ From(p) = p
        BY <3>1, <3>3
      <4> QED
        BY <4>1, <3>1, PlacesOf
    <3> QED
      BY <3>2, <3>3
  <2>3. CASE \/ \E u \in Threads : p = <<"taken", u, 0>> /\ taken'[u] = v
             \/ \E u \in Threads : \E i \in DOMAIN results'[u] : p = <<"results", u, i>> /\ results'[u][i] = v
    <3>1. p \in Places(v)
      BY <2>3, PlacesOf
    <3>2. p # <<"data", n, 0>> /\ p # <<"todo", t, 1>>
      BY <2>3
    <3> QED
      BY <3>1, <3>2
  <2> QED
    BY <2>1, <2>2, <2>3, PlacesNext
<1>2. ASSUME NEW p \in Places(v)', NEW q \in Places(v)' PROVE p = q
  <2>1. From(p) = From(q)
    BY <1>1 DEF Alone
  <2> QED
    BY <1>1, <2>1
<1> QED
  BY <1>2 DEF Alone

LEMMA ValueTaken ==
    ASSUME NEW v \in Value, Alone(v), NEW t \in Threads, NEW n \in Addr,
           todo' = todo, results' = results, taken' = [taken EXCEPT ![t] = data[n]],
           data' = [data EXCEPT ![n] = NoValue],
           taken \in [Threads -> Value \cup {NoValue}],
           \A u \in Threads : pc'[u] \in Stored <=> pc[u] \in Stored,
           data \in [Addr -> Value \cup {NoValue}]
    PROVE  Alone(v)'
<1> DEFINE From(p) == IF p = <<"taken", t, 0>> THEN <<"data", n, 0>> ELSE p
<1>0. v # NoValue
  BY ValueAssumption
<1>1. ASSUME NEW p \in Places(v)' PROVE From(p) \in Places(v) /\ p # <<"data", n, 0>>
  <2>1. CASE \E m \in Addr : p = <<"data", m, 0>> /\ data'[m] = v
    <3>1. PICK m \in Addr : p = <<"data", m, 0>> /\ data'[m] = v
      BY <2>1
    <3>2. m # n /\ data[m] = v
      BY <3>1, <1>0
    <3> QED
      BY <3>1, <3>2, PlacesOf
  <2>2. CASE \E u \in Threads : p = <<"taken", u, 0>> /\ taken'[u] = v
    <3>1. PICK u \in Threads : p = <<"taken", u, 0>> /\ taken'[u] = v
      BY <2>2
    <3>2. CASE u = t
      <4>1. data[n] = v /\ From(p) = <<"data", n, 0>>
        BY <3>1, <3>2
      <4>2. <<"data", n, 0>> \in Places(v)
        BY <4>1, PlacesOf
      <4> QED
        BY <4>1, <4>2, <3>1
    <3>3. CASE u # t
      <4>1. taken[u] = v /\ From(p) = p
        BY <3>1, <3>3
      <4> QED
        BY <4>1, <3>1, PlacesOf
    <3> QED
      BY <3>2, <3>3
  <2>3. CASE \/ \E u \in Threads : \E i \in DOMAIN todo'[u] :
                    /\ p = <<"todo", u, i>> /\ todo'[u][i].op = "push" /\ todo'[u][i].value = v
                    /\ ~ (i = 1 /\ pc'[u] \in Stored)
             \/ \E u \in Threads : \E i \in DOMAIN results'[u] : p = <<"results", u, i>> /\ results'[u][i] = v
    <3>1. p \in Places(v)
      BY <2>3, PlacesOf
    <3>2. p # <<"data", n, 0>> /\ p # <<"taken", t, 0>>
      BY <2>3
    <3> QED
      BY <3>1, <3>2
  <2> QED
    BY <2>1, <2>2, <2>3, PlacesNext
<1>2. ASSUME NEW p \in Places(v)', NEW q \in Places(v)' PROVE p = q
  <2>1. From(p) = From(q)
    BY <1>1 DEF Alone
  <2> QED
    BY <1>1, <2>1
<1> QED
  BY <1>2 DEF Alone

LEMMA TailIndex ==
    ASSUME NEW S, NEW s \in Seq(S), s # <<>>, NEW i \in DOMAIN Tail(s)
    PROVE  i \in Nat \ {0} /\ i + 1 \in DOMAIN s /\ Tail(s)[i] = s[i + 1]
OBVIOUS

(* A call returns: the calls left move up, and a pop() hands its value over. *)
LEMMA ValueReturned ==
    ASSUME TypeOK, NEW v \in Value, Alone(v), NEW t \in Threads,
           data' = data, todo[t] # <<>>, todo' = [todo EXCEPT ![t] = Tail(@)],
           taken' = [taken EXCEPT ![t] = NoValue],
           \/ results' = results
           \/ results' = [results EXCEPT ![t] = Append(@, taken[t])],
           pc'[t] \notin Stored, \A u \in Threads \ {t} : pc'[u] = pc[u]
    PROVE  Alone(v)'
<1>0. /\ v # NoValue /\ todo \in [Threads -> Seq(Call)] /\ results \in [Threads -> Seq(Value \cup {NoValue})]
      /\ taken \in [Threads -> Value \cup {NoValue}]
  BY ValueAssumption DEF TypeOK
<1>1. PICK l \in Nat : l = Len(results[t])
  BY <1>0
<1> DEFINE From(p) == IF p[1] = "todo" /\ p[2] = t THEN <<"todo", t, p[3] + 1>>
                      ELSE IF p = <<"results", t, l + 1>> THEN <<"taken", t, 0>> ELSE p
<1>2. ASSUME NEW p \in Places(v)'
      PROVE  /\ From(p) \in Places(v)
             /\ p # <<"taken", t, 0>>
             /\ p[1] = "todo" /\ p[2] = t => \E i \in Nat : p = <<"todo", t, i>>
  <2>1. CASE \E u \in Threads : \E i \in DOMAIN todo'[u] :
              /\ p = <<"todo", u, i>> /\ todo'[u][i].op = "push" /\ todo'[u][i].value = v
              /\ ~ (i = 1 /\ pc'[u] \in Stored)
    <3>0. PICK u \in Threads : \E i \in DOMAIN todo'[u] :
              /\ p = <<"todo", u, i>> /\ todo'[u][i].op = "push" /\ todo'[u][i].value = v
              /\ ~ (i = 1 /\ pc'[u] \in Stored)
      BY <2>1
    <3>1. PICK i \in DOMAIN todo'[u] :
              /\ p = <<"todo", u, i>> /\ todo'[u][i].op = "push" /\ todo'[u][i].value = v
              /\ ~ (i = 1 /\ pc'[u] \in Stored)
      BY <3>0
    <3>2. CASE u = t
      <4>1. todo'[t] = Tail(todo[t]) /\ todo[t] \in Seq(Call)
        BY <1>0
      <4>2. /\ i \in Nat \ {0} /\ i + 1 \in DOMAIN todo[t] /\ todo'[t][i] = todo[t][i + 1]
        <5>1. todo'[t] = Tail(todo[t]) /\ i \in DOMAIN Tail(todo[t])
          BY <4>1, <3>1, <3>2
        <5>2. i \in Nat \ {0} /\ i + 1 \in DOMAIN todo[t] /\ Tail(todo[t])[i] = todo[t][i + 1]
          BY <4>1, <5>1, TailIndex
        <5> QED
          BY <5>1, <5>2
      <4>3. From(p) = <<"todo", t, i + 1>> /\ i + 1 # 1
        BY <3>1, <3>2, <4>2
      <4>4. <<"todo", t, i + 1>> \in Places(v)
        BY <3>1, <3>2, <4>2, <4>3, PlacesOf
      <4> QED
        BY <3>1, <3>2, <4>2, <4>3, <4>4
    <3>3. CASE u # t
      <4>1. todo'[u] = todo[u] /\ pc'[u] = pc[u]
        BY <1>0, <3>3
      <4>2. From(p) = p
        BY <3>1, <3>3
      <4>3. /\ i \in DOMAIN todo[u] /\ p = <<"todo", u, i>> /\ todo[u][i].op = "push"
            /\ todo[u][i].value = v /\ ~ (i = 1 /\ pc[u] \in Stored)
        BY <3>1, <4>1
      <4>4. p \in Places(v)
        BY <4>3, PlacesOf
      <4> QED
        BY <3>1, <3>3, <4>2, <4>4
    <3> QED
      BY <3>2, <3>3
  <2>2. CASE \E n \in Addr : p = <<"data", n, 0>> /\ data'[n] = v
    <3>1. p \in Places(v)
      BY <2>2, PlacesOf
    <3> QED
      BY <2>2, <3>1
  <2>3. CASE \E u \in Threads : p = <<"taken", u, 0>> /\ taken'[u] = v
    <3>1. PICK u \in Threads : p = <<"taken", u, 0>> /\ taken'[u] = v
      BY <2>3
    <3>2. u # t /\ taken[u] = v
      BY <3>1, <1>0
    <3>3. p \in Places(v)
      BY <3>1, <3>2, PlacesOf
    <3> QED
      BY <3>1, <3>2, <3>3
  <2>4. CASE \E u \in Threads : \E i \in DOMAIN results'[u] : p = <<"results", u, i>> /\ results'[u][i] = v
    <3>0. PICK u \in Threads : \E i \in DOMAIN results'[u] : p = <<"results", u, i>> /\ results'[u][i] = v
      BY <2>4
    <3>1. PICK i \in DOMAIN results'[u] : p = <<"results", u, i>> /\ results'[u][i] = v
      BY <3>0
    <3>2. CASE u = t /\ i = l + 1
      <4>1. taken[t] = v
        <5>1. results[t] \in Seq(Value \cup {NoValue}) /\ taken[t] \in Value \cup {NoValue}
          BY <1>0
        <5>2. CASE results' = results
          BY <5>1, <5>2, <3>1, <3>2, <1>1
        <5>3. CASE results' = [results EXCEPT ![t] = Append(@, taken[t])]
          BY <5>1, <5>3, <3>1, <3>2, <1>0, <1>1
        <5> QED
          BY <5>2, <5>3
      <4>2. From(p) = <<"taken", t, 0>>
        BY <3>1, <3>2
      <4>3. <<"taken", t, 0>> \in Places(v)
        BY <4>1, PlacesOf
      <4> QED
        BY <3>1, <4>2, <4>3
    <3>3. CASE ~ (u = t /\ i = l + 1)
      <4>1. i \in DOMAIN results[u] /\ results[u][i] = v
        <5>1. results[u] \in Seq(Value \cup {NoValue}) /\ results[t] \in Seq(Value \cup {NoValue})
              /\ taken[t] \in Value \cup {NoValue}
          BY <1>0
        <5>2. CASE results' = results
          BY <5>2, <3>1
        <5>3. CASE results' = [results EXCEPT ![t] = Append(@, taken[t])]
          <6>1. CASE u # t
            BY <6>1, <5>3, <3>1, <1>0
          <6>2. CASE u = t
            BY <6>2, <5>1, <5>3, <3>1, <3>3, <1>0, <1>1
          <6> QED
            BY <6>1, <6>2
        <5> QED
          BY <5>2, <5>3
      <4>2. From(p) = p
        BY <3>1, <3>3
      <4>3. p \in Places(v)
        BY <3>1, <4>1, PlacesOf
      <4> QED
        BY <3>1, <4>2, <4>3
    <3> QED
      BY <3>2, <3>3
  <2> QED
    BY <2>1, <2>2, <2>3, <2>4, PlacesNext
<1>3. ASSUME NEW p \in Places(v)', NEW q \in Places(v)' PROVE p = q
  <2>1. From(p) = From(q)
    BY <1>2 DEF Alone
  <2>2. CASE p[1] = "todo" /\ p[2] = t
    <3>1. PICK i \in Nat : p = <<"todo", t, i>>
      BY <1>2, <2>2
    <3>2. From(q) = <<"todo", t, i + 1>>
      BY <2>1, <3>1
    <3>3. q[1] = "todo" /\ q[2] = t
      BY <3>2
    <3>4. PICK j \in Nat : q = <<"todo", t, j>>
      BY <1>2, <3>3
    <3> QED
      BY <3>1, <3>2, <3>4
  <2>3. CASE q[1] = "todo" /\ q[2] = t
    <3>1. PICK i \in Nat : q = <<"todo", t, i>>
      BY <1>2, <2>3
    <3>2. From(p) = <<"todo", t, i + 1>>
      BY <2>1, <3>1
    <3>3. p[1] = "todo" /\ p[2] = t
      BY <3>2
    <3> QED
      BY <3>3, <2>2
  <2>4. CASE ~ (p[1] = "todo" /\ p[2] = t) /\ ~ (q[1] = "todo" /\ q[2] = t)
    BY <2>1, <2>4, <1>2
  <2> QED
    BY <2>2, <2>3, <2>4
<1> QED
  BY <1>3 DEF Alone

LEMMA InitValues == Init => ValueInv
<1> SUFFICES ASSUME Init PROVE ValueInv
  OBVIOUS
<1>1. /\ todo \in Calls /\ data = [n \in Addr |-> NoValue] /\ pc = [t \in Threads |-> "idle"]
      /\ taken = [t \in Threads |-> NoValue] /\ results = [t \in Threads |-> <<>>]
  BY DEF Init
<1>2. ASSUME NEW v \in Value, NEW p \in Places(v)
      PROVE  \E t \in Threads : \E i \in DOMAIN todo[t] :
                p = <<"todo", t, i>> /\ todo[t][i].op = "push" /\ todo[t][i].value = v
  <2>1. v # NoValue
    BY ValueAssumption
  <2>2. \A t \in Threads : DOMAIN results[t] = {}
    BY <1>1
  <2> QED
    BY <1>1, <2>1, <2>2, PlacesOf
<1>3. \A t, u \in Threads : \A i \in DOMAIN todo[t], j \in DOMAIN todo[u] :
        /\ todo[t][i].op = "push" /\ todo[u][j].op = "push" /\ todo[t][i].value = todo[u][j].value
        => t = u /\ i = j
  BY <1>1, DistinctAssumption
<1>4. ASSUME NEW v \in Value, NEW p \in Places(v), NEW q \in Places(v) PROVE p = q
  BY <1>2, <1>3
<1> QED
  BY <1>1, <1>4 DEF ValueInv, Alone

LEMMA NextValues == MemoryInv /\ ValueInv /\ [Next]_vars => ValueInv'
<1> SUFFICES ASSUME MemoryInv, ValueInv, [Next]_vars PROVE ValueInv'
  OBVIOUS
<1>0. /\ TypeOK /\ TypeOK' /\ LocalInv /\ HoldsInv /\ \A v \in Value : Alone(v)
      /\ \A t \in Threads : pc[t] = "pop_free" => taken[t] # NoValue
      /\ pc \in [Threads -> Pc] /\ taken \in [Threads -> Value \cup {NoValue}]
      /\ data \in [Addr -> Value \cup {NoValue}] /\ todo \in [Threads -> Seq(Call)]
      /\ results \in [Threads -> Seq(Value \cup {NoValue})]
  BY MemoryStep DEF MemoryInv, ValueInv, TypeOK
(* The steps that move no value.                                            *)
<1>1. ASSUME todo' = todo, results' = results, taken' = taken,
             \A n \in Addr : data'[n] = data[n] \/ data'[n] = NoValue,
             \A u \in Threads : pc'[u] \in Stored <=> pc[u] \in Stored,
             \A u \in Threads : pc'[u] = "pop_free" => pc[u] = "pop_free"
      PROVE  ValueInv'
  <2>1. ASSUME NEW v \in Value PROVE Alone(v)'
    BY <1>0, <1>1, ValuesStay
  <2> QED
    BY <2>1, <1>0, <1>1 DEF ValueInv
<1>2. CASE UNCHANGED vars
  BY <1>1, <1>2 DEF vars, nodeVars, localVars
<1>3. ASSUME NEW t \in Threads, PushStep(t) \/ PopStep(t) PROVE ValueInv'
  <2> USE DEF Goto
  <2>1. /\ \A u \in Threads \ {t} : pc'[u] = pc[u]
        /\ pc[t] \in PushPc => todo[t] # <<>> /\ Head(todo[t]).op = "push"
        /\ pc[t] \in PopPc => todo[t] # <<>>
        /\ HoldsReference(t) => old_ptr[t].ptr \in Addr
    BY <1>0, <1>3, StepKinds DEF Step, Others, LocalInv, LocalOf, HoldsInv, Linked, TypeOK
  <2>2. ASSUME todo' = todo, results' = results, taken' = taken,
               \A n \in Addr : data'[n] = data[n] \/ data'[n] = NoValue,
               pc'[t] \in Stored <=> pc[t] \in Stored, pc'[t] # "pop_free"
        PROVE  ValueInv'
    BY <1>1, <2>1, <2>2
  <2>3. CASE PushCall(t)
    <3>1. \A n \in Addr : data'[n] = data[n] \/ data'[n] = NoValue
      BY <1>0, <2>3 DEF PushCall, NodeConstructed
    <3> QED
      BY <3>1, <1>0, <2>2, <2>3 DEF PushCall, Stored
  <2>4. CASE PushHelpLink(t)
    <3>1. \A n \in Addr : data'[n] = data[n] \/ data'[n] = NoValue
      BY <1>0, <2>4 DEF PushHelpLink
    <3> QED
      BY <3>1, <1>0, <2>2, <2>4 DEF PushHelpLink, Stored
  <2>5. CASE PushAcquire(t) \/ PushLink(t) \/ PushHelpLinked(t)
    BY <1>0, <2>2, <2>5 DEF PushAcquire, PushLink, PushHelpLinked, nodeVars, Stored
  <2>6. CASE PushTail(t) \/ PushHelpTail(t)
    BY <1>0, <2>2, <2>6 DEF PushTail, PushHelpTail, SetNewTail, nodeVars, Stored
  <2>7. CASE PushHelpFree(t) \/ PushHelpRelease(t) \/ PopRelease(t)
    BY <1>0, <2>2, <2>7 DEF PushHelpFree, PushHelpRelease, PopRelease, FreeExternalCounter, ReleaseRef, Settle,
       localVars, Stored
  <2>8. CASE PopCall(t) \/ PopAcquire(t) \/ PopCheckEmpty(t) \/ PopNext(t) \/ PopMove(t)
    BY <1>0, <2>2, <2>8 DEF PopCall, PopAcquire, PopCheckEmpty, PopNext, PopMove, nodeVars, localVars, Stored
  <2>9. CASE PushData(t)
    <3>1. /\ pc[t] = "push_data" /\ todo' = todo /\ results' = results /\ taken' = taken
          /\ old_ptr[t].ptr \in Addr
      BY <2>1, <2>9 DEF PushData, localVars, HoldsReference
    <3>2. CASE data[old_ptr[t].ptr] # NoValue
      <4>1. data' = data /\ pc'[t] = "push_help"
        BY <1>0, <2>9, <3>2 DEF PushData
      <4> QED
        BY <3>1, <4>1, <2>2 DEF Stored
    <3>3. CASE data[old_ptr[t].ptr] = NoValue
      <4>1. data' = [data EXCEPT ![old_ptr[t].ptr] = Head(todo[t]).value] /\ pc'[t] = "push_link"
        BY <1>0, <2>9, <3>3 DEF PushData
      <4>2. /\ todo[t] \in Seq(Call) /\ todo[t] # <<>> /\ Head(todo[t]).op = "push"
            /\ pc[t] \notin Stored /\ pc'[t] \in Stored
        BY <1>0, <2>1, <3>1, <4>1 DEF PushPc, Stored
      <4>3. ASSUME NEW v \in Value PROVE Alone(v)'
        BY <1>0, <2>1, <3>1, <4>1, <4>2, ValueStored
      <4>4. \A u \in Threads : pc'[u] = "pop_free" => taken'[u] # NoValue
        BY <1>0, <2>1, <3>1, <4>1
      <4> QED
        BY <4>3, <4>4 DEF ValueInv
    <3> QED
      BY <3>2, <3>3
  <2>10. CASE PopTake(t)
    <3>1. /\ pc[t] = "pop_take" /\ pc'[t] = "pop_free" /\ todo' = todo /\ results' = results
          /\ old_ptr[t].ptr \in Addr
          /\ taken' = [taken EXCEPT ![t] = data[old_ptr[t].ptr]]
          /\ data' = [data EXCEPT ![old_ptr[t].ptr] = NoValue]
      BY <1>0, <2>1, <2>10 DEF PopTake, HoldsReference
    <3>2. \A u \in Threads : pc'[u] \in Stored <=> pc[u] \in Stored
      BY <2>1, <3>1 DEF Stored
    <3>3. ASSUME NEW v \in Value PROVE Alone(v)'
      BY <1>0, <3>1, <3>2, ValueTaken
    <3>4. data[old_ptr[t].ptr] # NoValue
      BY <1>0, <3>1 DEF LocalInv, LocalOf
    <3>5. \A u \in Threads : pc'[u] = "pop_free" => taken'[u] # NoValue
      BY <1>0, <2>1, <3>1, <3>4
    <3> QED
      BY <3>3, <3>5 DEF ValueInv
  <2>11. CASE PushReturn(t) \/ PopReturn(t)
    <3>1. /\ pc'[t] = "idle" /\ pc[t] \in PushPc \cup PopPc /\ HoldsReference(t) /\ Forget(t)
          /\ todo' = [todo EXCEPT ![t] = Tail(@)]
          /\ results' = results \/ results' = [results EXCEPT ![t] = Append(@, taken[t])]
          /\ FreeExternalCounter(old_ptr[t]) \/ ReleaseRef(old_ptr[t].ptr)
      BY <1>0, <2>11 DEF PushReturn, PopReturn, PushPc, PopPc, HoldsReference
    <3>2. data' = data /\ taken' = [taken EXCEPT ![t] = NoValue] /\ todo[t] # <<>> /\ pc'[t] \notin Stored
      BY <2>1, <3>1 DEF FreeExternalCounter, ReleaseRef, Settle, Forget, Stored
    <3>3. ASSUME NEW v \in Value PROVE Alone(v)'
      BY <1>0, <2>1, <3>1, <3>2, ValueReturned
    <3>4. \A u \in Threads : pc'[u] = "pop_free" => taken'[u] # NoValue
      BY <1>0, <2>1, <3>1, <3>2
    <3> QED
      BY <3>3, <3>4 DEF ValueInv
  <2> QED
    BY <1>3, <2>3, <2>4, <2>5, <2>6, <2>7, <2>8, <2>9, <2>10, <2>11 DEF PushStep, PopStep
<1> QED
  BY <1>2, <1>3 DEF Next

(* However the pops race, a value is returned once, and a pop that moved    *)
(* head past a node finds the value of that node in it.                     *)
THEOREM Once == Spec => []PoppedOnce
<1>1. ASSUME MemoryInv, ValueInv PROVE PoppedOnce
  <2>1. /\ results \in [Threads -> Seq(Value \cup {NoValue})]
        /\ \A t \in Threads : pc[t] = "pop_free" => taken[t] # NoValue
    BY <1>1 DEF MemoryInv, TypeOK, ValueInv
  <2>2. ASSUME NEW t \in Threads, NEW u \in Threads, NEW i \in DOMAIN results[t], NEW j \in DOMAIN results[u],
               results[t][i] = results[u][j], results[t][i] # NoValue
        PROVE  t = u /\ i = j
    <3>1. PICK v : v = results[t][i]
      OBVIOUS
    <3>2. v \in Value
      <4>1. results[t] \in Seq(Value \cup {NoValue})
        BY <2>1
      <4>2. results[t][i] \in Value \cup {NoValue}
        BY <4>1
      <4> QED
        BY <4>2, <2>2, <3>1
    <3>3. <<"results", t, i>> \in Places(v) /\ <<"results", u, j>> \in Places(v)
      BY <2>2, <3>1, PlacesOf
    <3>4. <<"results", t, i>> = <<"results", u, j>>
      BY <1>1, <3>2, <3>3 DEF ValueInv, Alone
    <3> QED
      BY <3>4
  <2>3. ASSUME NEW t \in Threads, NEW u \in Threads, t # u PROVE Popped(t) \cap Popped(u) = {}
    BY <2>2, <2>3 DEF Popped
  <2>4. ASSUME NEW t \in Threads, NEW i \in DOMAIN results[t], NEW j \in DOMAIN results[t],
               results[t][i] = results[t][j]
        PROVE  i = j \/ results[t][i] = NoValue
    BY <2>2, <2>4
  <2> QED
    BY <2>1, <2>3, <2>4 DEF PoppedOnce
<1>2. Init => MemoryInv /\ ValueInv
  BY MemoryInit, InitValues
<1>3. MemoryInv /\ ValueInv /\ [Next]_vars => (MemoryInv /\ ValueInv)'
  BY MemoryStep, NextValues
<1> QED
  BY <1>1, <1>2, <1>3, PTL DEF Spec
=============================================================================
