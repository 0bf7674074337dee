--------------------------- MODULE OlegtsQueueProofs ---------------------------
(***************************************************************************)
(* Proofs about OlegtsQueue, for every number of threads, of addresses and *)
(* of calls.                                                               *)
(*                                                                         *)
(* The invariant speaks of things the state does not hold any more: of the *)
(* nodes that were linked (linked) in which order (rank), and, per node,   *)
(* what has been counted through each of the three pointers that lead to   *)
(* it (by_tail, by_head, by_next): the external_count of that pointer, 1   *)
(* before the pointer gets there, 0 once it has been settled.              *)
(***************************************************************************)
EXTENDS OlegtsQueue, FiniteSetTheorems, TLAPS

(* A node still known to one thread alone.                                  *)
PrivatePc == PushPc \ {"push_tail", "push_free", "push_release"}
(* Who has taken a pointer off a node and is still to settle it.            *)
MovesTail == {"push_free", "push_help_free"}
MovesHead == {"pop_take", "pop_unlink", "pop_free_head"}
MovesNext == {"pop_free_head", "pop_free_next"}

HoldsOld(n)  == {t \in Threads : GuardsOld(t) /\ old_ptr[t].ptr = n}
HoldsNext(n) == {t \in Threads : GuardsNext(t) /\ old_next[t].ptr = n}
Held(n) == Cardinality(HoldsOld(n)) + Cardinality(HoldsNext(n))

(* The references a pointer has counted, and the pointer itself.            *)
References(counted) == IF counted = 0 THEN 0 ELSE counted - 1
Pointer(counted) == IF counted = 0 THEN 0 ELSE 1

(* Nobody but its owner has a private node, and nothing happened to it.     *)
PrivateInv(linked) ==
    /\ linked \subseteq live
    /\ \A t \in Threads : pc[t] \in PrivatePc =>
          LET p == new_next[t].ptr
          IN  /\ new_next[t] = Counted(1, p)
              /\ p \in live \ linked
              /\ next[p] = NullPtr
              /\ data[p] = NoValue
              /\ internal_count[p] = 0
              /\ external_counters[p] = 3
              /\ \A u \in Threads : pc[u] \in PrivatePc /\ new_next[u].ptr = p => u = t
    /\ \A n \in live \ linked : \E t \in Threads : pc[t] \in PrivatePc /\ new_next[t].ptr = n

(* What a guard leads to is not deleted.                                    *)
HoldsInv(linked) ==
    \A t \in Threads :
        /\ GuardsOld(t) => old_ptr[t].ptr \in linked
        /\ GuardsNext(t) => old_next[t].ptr \in linked

(* The list.  The head is not ahead of the tail, and the tail is at most    *)
(* one node behind the last.                                                *)
OrderInv(rank, linked) ==
    /\ rank \in [Addr -> Int]
    /\ \A m, n \in linked : rank[m] = rank[n] => m = n
    /\ head.ptr \in linked /\ tail.ptr \in linked
    /\ rank[head.ptr] <= rank[tail.ptr]
    /\ \A n \in linked : rank[n] <= rank[tail.ptr] + 1

(* Who linked a node behind the tail is about to move the tail there.       *)
Overdue == \E t \in Threads : pc[t] \in {"push_tail", "push_help_tail"} /\ old_ptr[t].ptr = tail.ptr
LagInv(rank, linked) == \A n \in linked : rank[n] > rank[tail.ptr] => Overdue

(* Links lead to the following node until the pop that moved the head past  *)
(* the node cuts them, and a node that the tail has passed has its value.   *)
Uncut(n) == \E t \in Threads : pc[t] \in {"pop_take", "pop_unlink"} /\ old_ptr[t].ptr = n
ListInv(rank, linked) ==
    \A n \in linked :
        /\ next[n].ptr # Null => next[n].ptr \in linked /\ rank[next[n].ptr] = rank[n] + 1
        /\ next[n] = NullPtr => \A m \in linked : rank[m] <= rank[n]
        /\ next[n].ptr = Null /\ next[n] # NullPtr => rank[n] < rank[head.ptr]
        /\ rank[n] < rank[head.ptr] => next[n] = Counted(1, Null) \/ Uncut(n)
        /\ rank[head.ptr] <= rank[n] /\ rank[n] < rank[tail.ptr] => data[n] # NoValue

(* The three pointers to a node.  Each is unsettled in one place at most.   *)
TailTaken(n) == \E t \in Threads : pc[t] \in MovesTail /\ unlinked[t].ptr = n
TailInv(rank, linked, by_tail) ==
    /\ by_tail \in [Addr -> Nat]
    /\ tail.external_count >= 1 /\ by_tail[tail.ptr] = tail.external_count
    /\ \A n \in linked : rank[n] > rank[tail.ptr] => by_tail[n] = 1
    /\ \A n \in linked : rank[n] < rank[tail.ptr] => by_tail[n] = 0 \/ TailTaken(n)
    /\ \A t \in Threads : pc[t] \in MovesTail =>
          /\ unlinked[t].external_count >= 1
          /\ by_tail[unlinked[t].ptr] = unlinked[t].external_count
          /\ unlinked[t].ptr = old_ptr[t].ptr
          /\ rank[old_ptr[t].ptr] < rank[tail.ptr]
          /\ \A u \in Threads : pc[u] \in MovesTail /\ unlinked[u].ptr = unlinked[t].ptr => u = t

HeadTaken(n) == \E t \in Threads : pc[t] \in MovesHead /\ old_ptr[t].ptr = n
HeadInv(rank, linked, by_head) ==
    /\ by_head \in [Addr -> Nat]
    /\ head.external_count >= 1 /\ by_head[head.ptr] = head.external_count
    /\ \A n \in linked : rank[n] > rank[head.ptr] => by_head[n] = 1
    /\ \A n \in linked : rank[n] < rank[head.ptr] => by_head[n] = 0 \/ HeadTaken(n)
    /\ \A t \in Threads : pc[t] \in MovesHead =>
          /\ old_ptr[t].external_count >= 1
          /\ by_head[old_ptr[t].ptr] = old_ptr[t].external_count
          /\ rank[old_ptr[t].ptr] < rank[head.ptr]
          /\ \A u \in Threads : pc[u] \in MovesHead /\ old_ptr[u].ptr = old_ptr[t].ptr => u = t

LinkedTo(linked, n) == \E p \in linked : next[p].ptr = n
NextTaken(n) == \E t \in Threads : pc[t] \in MovesNext /\ unlinked[t].ptr = n
NextInv(linked, by_next) ==
    /\ by_next \in [Addr -> Nat]
    /\ \A p \in linked : next[p].ptr # Null =>
          next[p].external_count >= 1 /\ by_next[next[p].ptr] = next[p].external_count
    /\ \A n \in linked : by_next[n] = 0 \/ LinkedTo(linked, n) \/ NextTaken(n)
    /\ \A t \in Threads : pc[t] \in MovesNext =>
          /\ unlinked[t].external_count >= 1
          /\ by_next[unlinked[t].ptr] = unlinked[t].external_count
          /\ unlinked[t].ptr = old_next[t].ptr
          /\ next[old_ptr[t].ptr] = Counted(1, Null)
          /\ \A u \in Threads : pc[u] \in MovesNext /\ unlinked[u].ptr = unlinked[t].ptr => u = t

(* What the counts of a node come to, in the width of internal_count.       *)
Wrap == 2^30
Outstanding(n, by_tail, by_head, by_next) ==
    References(by_tail[n]) + References(by_head[n]) + References(by_next[n])
Pointers(n, by_tail, by_head, by_next) ==
    Pointer(by_tail[n]) + Pointer(by_head[n]) + Pointer(by_next[n])
BalanceInv(linked, by_tail, by_head, by_next) ==
    \A n \in linked :
        /\ (internal_count[n] + Outstanding(n, by_tail, by_head, by_next) - Held(n)) % Wrap = 0
        /\ external_counters[n] = Pointers(n, by_tail, by_head, by_next)
        /\ internal_count[n] # 0 \/ external_counters[n] # 0

(* What a call knows of the nodes it holds, program point by program point. *)
LocalOf(rank, t) ==
    LET o == old_ptr[t].ptr
        s == old_next[t].ptr
    IN  /\ GuardsOld(t) => rank[o] <= rank[tail.ptr]
        /\ GuardsOld(t) /\ pc[t] \in PopPc => rank[o] <= rank[head.ptr]
        /\ pc[t] \in {"pop_guard_next", "pop_move"} => rank[o] < rank[tail.ptr]
        /\ GuardsNext(t) => rank[s] = rank[o] + 1
        /\ pc[t] \in {"pop_take", "pop_unlink"} => next[o].ptr = s
        /\ pc[t] = "pop_take" => data[o] # NoValue
        /\ pc[t] \in {"pop_unlink", "pop_free_head", "pop_free_next", "pop_release_next"}
              => taken[t] # NoValue
        /\ pc[t] \in {"push_link", "push_help", "push_tail", "push_help_tail"}
              /\ rank[o] >= rank[head.ptr] => data[o] # NoValue
        /\ pc[t] \in {"push_tail", "push_help_tail"} /\ rank[o] >= rank[head.ptr]
              => next[o].ptr = s /\ s # Null
        /\ pc[t] \in PushPc => todo[t] # <<>> /\ Head(todo[t]).op = "push"
        /\ pc[t] \in PopPc => todo[t] # <<>>
LocalInv(rank) == \A t \in Threads : LocalOf(rank, t)

(* The nodes that were linked and are not deleted yet, and who holds them.  *)
Listed(rank, linked, by_tail, by_head, by_next) ==
    /\ HoldsInv(linked) /\ OrderInv(rank, linked) /\ LagInv(rank, linked) /\ ListInv(rank, linked)
    /\ TailInv(rank, linked, by_tail) /\ HeadInv(rank, linked, by_head) /\ NextInv(linked, by_next)

MemoryInv(rank, linked, by_tail, by_head, by_next) ==
    /\ PrivateInv(linked)
    /\ Listed(rank, linked, by_tail, by_head, by_next)
    /\ BalanceInv(linked, by_tail, by_head, by_next)
    /\ LocalInv(rank)

(* The witnesses are found anew in every step.                              *)
Memory ==
    \E rank, linked, by_tail, by_head, by_next : MemoryInv(rank, linked, by_tail, by_head, by_next)

-----------------------------------------------------------------------------
(* The arithmetic of internal_count.                                        *)
Half == 2^29

LEMMA HalfValue == Half = 536870912
BY SMT DEF Half

LEMMA WrapValue == Wrap = 1073741824
BY SMT DEF Wrap

LEMMA SignedValue == \A i : AsSigned30(i) = ((i + 536870912) % 1073741824) - 536870912
BY SMT DEF AsSigned30

LEMMA CountsAre == \A i : i \in InternalCounts <=> i \in Int /\ -Half <= i /\ i < Half
<1>1. InternalCounts = -Half .. (Half - 1)
  BY DEF InternalCounts, Half
<1>2. Half \in Nat
  BY HalfValue, SMT
<1>3. ASSUME NEW h \in Nat PROVE \A i : i \in -h .. (h - 1) <=> i \in Int /\ -h <= i /\ i < h
  BY SMT
<1> QED
  BY <1>1, <1>2, <1>3, Zenon

LEMMA Counts0 == 0 \in InternalCounts /\ InternalCounts \subseteq Int
BY CountsAre, HalfValue, SMT

LEMMA SignedIs ==
    ASSUME NEW i \in Int
    PROVE  /\ AsSigned30(i) \in InternalCounts
           /\ \E k \in Int : AsSigned30(i) = i + k * 1073741824
           /\ i % Wrap = 0 <=> AsSigned30(i) = 0
<1>1. AsSigned30(i) \in InternalCounts
  BY CountsAre, HalfValue, SignedValue, SMT
<1>2. PICK r \in Int : r = (i + 536870912) % 1073741824
  BY SMT
<1>3. PICK d \in Int : d = (i + 536870912) \div 1073741824
  BY SMT
<1>4. i + 536870912 = d * 1073741824 + r
  BY <1>2, <1>3, SMT
<1>5. AsSigned30(i) = i + (0 - d) * 1073741824
  BY <1>2, <1>4, SignedValue, SMT
<1>6. 0 - d \in Int
  BY SMT
<1>7. i % Wrap = 0 <=> AsSigned30(i) = 0
  BY SignedValue, WrapValue, SMT
<1> QED
  BY <1>1, <1>5, <1>6, <1>7, SMT

LEMMA CountsZero == \A i \in InternalCounts : i % Wrap = 0 => i = 0
BY CountsAre, HalfValue, WrapValue, SMT

(* Counts that come to nothing still do when what they count moves along.   *)
LEMMA CountsMove ==
    ASSUME NEW a \in Int, NEW b \in Int, NEW k \in Int, a % Wrap = 0, b = a + k * 1073741824
    PROVE  b % Wrap = 0
BY WrapValue, SMT

LEMMA CountsSmall ==
    ASSUME NEW a \in Nat, a < Wrap, (0 - a) % Wrap = 0
    PROVE  a = 0
BY WrapValue, SMT

LEMMA UnsignedIs == \A i \in 0 .. 3 : AsUnsigned2(i) = i
BY SMT DEF AsUnsigned2

-----------------------------------------------------------------------------
LEMMA CountedTypes ==
    /\ NullPtr \in CountedNodePtr
    /\ \A n \in Addr \cup {Null} : Counted(1, n) \in CountedNodePtr
    /\ \A p \in CountedNodePtr : p.external_count \in Nat /\ p.ptr \in Addr \cup {Null}
    /\ \A p \in CountedNodePtr :
          /\ [p EXCEPT !.external_count = @ + 1] \in CountedNodePtr
          /\ [p EXCEPT !.external_count = @ + 1] = Counted(p.external_count + 1, p.ptr)
    /\ \A p \in CountedNodePtr : \A n \in Addr :
          /\ [p EXCEPT !.ptr = n] \in CountedNodePtr
          /\ [p EXCEPT !.ptr = n] = Counted(p.external_count, n)
BY DEF NullPtr, Counted, CountedNodePtr

LEMMA CountedFields ==
    /\ \A c, n : Counted(c, n).external_count = c /\ Counted(c, n).ptr = n
    /\ NullPtr.ptr = Null /\ NullPtr.external_count = 0
    /\ \A n : Counted(1, n) # NullPtr
BY DEF Counted, NullPtr

LEMMA TypeInit == Init => TypeOK
<1> SUFFICES ASSUME Init PROVE TypeOK
  OBVIOUS
<1>1. "idle" \in Pc
  BY DEF Pc
<1>2. todo \in [Threads -> Seq(Call)]
  BY CallsAssumption DEF Init
<1>3. \A n \in Addr : Counted(1, n) \in CountedNodePtr
  BY CountedTypes
<1> QED
  BY <1>1, <1>2, <1>3, CountedTypes, Counts0 DEF Init, TypeOK

LEMMA SettleType ==
    ASSUME TypeOK, NEW n \in Addr, NEW r \in Int, NEW c \in Int, Settle(n, r, c)
    PROVE  /\ data' = data /\ next' = next
           /\ internal_count' = [internal_count EXCEPT ![n] = AsSigned30(internal_count[n] + r)]
           /\ external_counters' = [external_counters EXCEPT ![n] = AsUnsigned2(external_counters[n] + c)]
           /\ internal_count' \in [Addr -> InternalCounts]
           /\ external_counters' \in [Addr -> 0 .. 3]
           /\ live' \subseteq live
           /\ live' = IF internal_count'[n] = 0 /\ external_counters'[n] = 0 THEN live \ {n} ELSE live
<1>1. internal_count \in [Addr -> InternalCounts] /\ external_counters \in [Addr -> 0 .. 3]
  BY DEF TypeOK
<1>2. AsSigned30(internal_count[n] + r) \in InternalCounts
  <2>1. internal_count[n] \in Int
    <3>1. internal_count[n] \in InternalCounts
      BY <1>1
    <3> QED
      BY <3>1, Counts0
  <2>2. internal_count[n] + r \in Int
    BY <2>1
  <2> QED
    BY <2>2, SignedIs
<1>3. AsUnsigned2(external_counters[n] + c) \in 0 .. 3
  <2>1. external_counters[n] + c \in Int
    BY <1>1
  <2> QED
    BY <2>1 DEF AsUnsigned2
<1>4. /\ internal_count' = [internal_count EXCEPT ![n] = AsSigned30(internal_count[n] + r)]
      /\ external_counters' = [external_counters EXCEPT ![n] = AsUnsigned2(external_counters[n] + c)]
      /\ live' = IF AsSigned30(internal_count[n] + r) = 0 /\ AsUnsigned2(external_counters[n] + c) = 0
                 THEN live \ {n} ELSE live
      /\ data' = data /\ next' = next
  BY DEF Settle
<1> QED
  BY <1>1, <1>2, <1>3, <1>4

(* A step of a call leaves the locals of the other threads alone.           *)
Others(t) ==
    \A u \in Threads \ {t} :
        /\ pc'[u] = pc[u] /\ todo'[u] = todo[u] /\ results'[u] = results[u]
        /\ new_next'[u] = new_next[u] /\ old_ptr'[u] = old_ptr[u] /\ old_next'[u] = old_next[u]
        /\ unlinked'[u] = unlinked[u] /\ taken'[u] = taken[u]

LEMMA OthersStep ==
    ASSUME TypeOK, NEW t \in Threads, PushStep(t) \/ PopStep(t)
    PROVE  Others(t) /\ destructor' = destructor
<1> USE DEF Others, Goto, TypeOK, localVars
<1>1. CASE PushCall(t) \/ PushGuard(t) \/ PushData(t) \/ PushLink(t)
  BY <1>1 DEF PushCall, PushGuard, PushData, PushLink
<1>2. CASE PushHelpLink(t) \/ PushHelpLinked(t)
  BY <1>2 DEF PushHelpLink, PushHelpLinked
<1>3. CASE PushTail(t) \/ PushHelpTail(t) \/ PushFree(t) \/ PushHelpRelease(t)
  BY <1>3 DEF PushTail, PushHelpTail, SetNewTail, PushFree, PushHelpRelease
<1>4. CASE PushReturn(t) \/ PopReturn(t)
  BY <1>4 DEF PushReturn, PopReturn, Return
<1>5. CASE PopCall(t) \/ PopGuard(t) \/ PopCheckEmpty(t) \/ PopGuardNext(t)
  BY <1>5 DEF PopCall, PopGuard, PopCheckEmpty, PopGuardNext
<1>6. CASE PopMove(t) \/ PopTake(t) \/ PopUnlink(t) \/ PopFreeHead(t)
  BY <1>6 DEF PopMove, PopTake, PopUnlink, PopFreeHead
<1>7. CASE PopFreeNext(t) \/ PopReleaseNext(t) \/ PopRetry(t)
  BY <1>7 DEF PopFreeNext, PopReleaseNext, PopRetry
<1> QED
  BY <1>1, <1>2, <1>3, <1>4, <1>5, <1>6, <1>7 DEF PushStep, PopStep

(* What a thread must know for its step to keep the types.                  *)
Knows(t) ==
    /\ GuardsOld(t) => old_ptr[t].ptr \in Addr
    /\ GuardsNext(t) => old_next[t].ptr \in Addr
    /\ pc[t] \in MovesTail \cup MovesNext => unlinked[t].ptr \in Addr
    /\ pc[t] \in PushPc => todo[t] # <<>> /\ Head(todo[t]).op = "push"
    /\ pc[t] \in PopPc => todo[t] # <<>>

LEMMA SettleTypes ==
    ASSUME TypeOK, NEW p \in CountedNodePtr, p.ptr \in Addr, ReleaseGuard(p) \/ FreeExternalCounter(p)
    PROVE  /\ data' = data /\ next' = next /\ live' \subseteq Addr
           /\ internal_count' \in [Addr -> InternalCounts]
           /\ external_counters' \in [Addr -> 0 .. 3]
<1>1. p.external_count - 1 \in Int
  BY CountedTypes
<1>2. live \subseteq Addr
  BY DEF TypeOK
<1> QED
  BY <1>1, <1>2, SettleType DEF ReleaseGuard, FreeExternalCounter

LEMMA TypePush ==
    ASSUME TypeOK, NEW t \in Threads, PushStep(t), Knows(t)
    PROVE  TypeOK'
<1> USE DEF Goto
<1>0. /\ todo[t] \in Seq(Call) /\ pc \in [Threads -> Pc] /\ old_ptr[t] \in CountedNodePtr
      /\ old_next[t] \in CountedNodePtr /\ unlinked[t] \in CountedNodePtr /\ new_next[t] \in CountedNodePtr
      /\ head \in CountedNodePtr /\ tail \in CountedNodePtr /\ results[t] \in Seq(Value \cup {NoValue})
      /\ 0 \in InternalCounts /\ 3 \in 0 .. 3 /\ next \in [Addr -> CountedNodePtr]
  BY Counts0 DEF TypeOK
<1>p. \A q \in PushPc \cup {"idle"} : [pc EXCEPT ![t] = q] \in [Threads -> Pc]
  BY <1>0 DEF Pc
<1>q. {"push_guard", "push_data", "push_link", "push_help", "push_tail", "push_help_tail", "push_free",
       "push_help_free", "push_release", "push_help_release"} = PushPc
  BY DEF PushPc
<1>3. CASE PushCall(t)
  <2>1. pc' \in [Threads -> Pc]
    BY <1>3, <1>p, <1>q DEF PushCall
  <2> QED
    BY <2>1, <1>3, <1>0, CountedTypes DEF PushCall, TypeOK, Constructed
<1>4. CASE PushGuard(t)
  <2>1. pc' \in [Threads -> Pc]
    BY <1>4, <1>p, <1>q DEF PushGuard
  <2> QED
    BY <2>1, <1>4, <1>0, CountedTypes DEF PushGuard, TypeOK, nodeVars
<1>5. CASE PushData(t)
  <2>1. pc' \in [Threads -> Pc]
    BY <1>5, <1>p, <1>q DEF PushData
  <2>2. Head(todo[t]).value \in Value
    <3>1. Head(todo[t]) \in Call /\ Head(todo[t]).op = "push"
      BY <1>5, <1>0, <1>q DEF PushData, Knows
    <3> QED
      BY <3>1 DEF Call
  <2> QED
    BY <2>1, <2>2, <1>5, <1>0 DEF PushData, TypeOK, localVars
<1>6. CASE PushLink(t)
  <2>1. pc' \in [Threads -> Pc]
    BY <1>6, <1>p, <1>q DEF PushLink
  <2>2. old_ptr[t].ptr \in Addr
    BY <1>6 DEF PushLink, GuardsOld, Knows
  <2> QED
    BY <2>1, <2>2, <1>6, <1>0 DEF PushLink, TypeOK
<1>7. CASE PushHelpLink(t)
  <2>1. pc' \in [Threads -> Pc]
    BY <1>7, <1>p, <1>q DEF PushHelpLink
  <2>2. old_ptr[t].ptr \in Addr
    BY <1>7 DEF PushHelpLink, GuardsOld, Knows
  <2>4. PICK n \in Addr : /\ Constructed(n)
          /\ next' = [next EXCEPT ![n] = NullPtr, ![old_ptr[t].ptr] = new_next[t]]
          /\ new_next' = [new_next EXCEPT ![t].ptr = n]
    BY <1>7 DEF PushHelpLink
  <2>5. next' \in [Addr -> CountedNodePtr]
    BY <2>4, <1>0, CountedTypes
  <2>6. new_next' \in [Threads -> CountedNodePtr]
    BY <2>4, <1>0, CountedTypes DEF TypeOK
  <2>7. old_next' \in [Threads -> CountedNodePtr]
    BY <1>0, <1>7 DEF TypeOK, PushHelpLink
  <2>8. data' \in [Addr -> Value \cup {NoValue}] /\ internal_count' \in [Addr -> InternalCounts]
        /\ external_counters' \in [Addr -> 0 .. 3] /\ live' \subseteq Addr
    BY <2>4, <1>0 DEF TypeOK, Constructed
  <2> QED
    BY <2>1, <2>5, <2>6, <2>7, <2>8, <1>7 DEF PushHelpLink, TypeOK
<1>8. CASE PushHelpLinked(t)
  <2>1. pc' \in [Threads -> Pc]
    BY <1>8, <1>p, <1>q DEF PushHelpLinked
  <2>2. old_ptr[t].ptr \in Addr
    BY <1>8 DEF PushHelpLinked, GuardsOld, Knows
  <2> QED
    BY <2>1, <2>2, <1>8, <1>0 DEF PushHelpLinked, TypeOK, nodeVars
<1>9. CASE PushTail(t) \/ PushHelpTail(t)
  <2>1. pc' \in [Threads -> Pc]
    BY <1>9, <1>p, <1>q DEF PushTail, PushHelpTail, SetNewTail
  <2>2. Counted(1, old_next[t].ptr) \in CountedNodePtr
    BY <1>0, CountedTypes
  <2> QED
    BY <2>1, <2>2, <1>9, <1>0 DEF PushTail, PushHelpTail, SetNewTail, TypeOK, nodeVars
<1>10. CASE PushFree(t)
  <2>1. pc' \in [Threads -> Pc]
    BY <1>10, <1>p, <1>q DEF PushFree
  <2>2. unlinked[t].ptr \in Addr
    BY <1>10 DEF PushFree, Knows, MovesTail
  <2>3. /\ next' = next /\ data' = data /\ live' \subseteq Addr
        /\ internal_count' \in [Addr -> InternalCounts] /\ external_counters' \in [Addr -> 0 .. 3]
    BY <2>2, <1>0, <1>10, SettleTypes DEF PushFree
  <2> QED
    BY <2>1, <2>3, <1>10, CountedTypes DEF PushFree, TypeOK
<1>11. CASE PushHelpRelease(t) \/ PushReturn(t)
  <2>1. pc' \in [Threads -> Pc]
    BY <1>11, <1>p, <1>q DEF PushHelpRelease, PushReturn, Return
  <2>2. old_ptr[t].ptr \in Addr
    BY <1>11 DEF PushHelpRelease, PushReturn, Knows, GuardsOld
  <2>3. /\ next' = next /\ data' = data /\ live' \subseteq Addr
        /\ internal_count' \in [Addr -> InternalCounts] /\ external_counters' \in [Addr -> 0 .. 3]
    BY <2>2, <1>0, <1>11, SettleTypes DEF PushHelpRelease, PushReturn
  <2>4. todo' \in [Threads -> Seq(Call)]
    <3>1. pc[t] \in PushPc => [todo EXCEPT ![t] = Tail(@)] \in [Threads -> Seq(Call)]
      BY <1>0 DEF Knows, TypeOK
    <3> QED
      BY <3>1, <1>11, <1>q DEF PushHelpRelease, PushReturn, Return, TypeOK
  <2>5. CASE PushHelpRelease(t)
    BY <2>1, <2>3, <2>4, <2>5 DEF PushHelpRelease, TypeOK, localVars
  <2>6. CASE PushReturn(t)
    BY <2>1, <2>3, <2>4, <2>6, CountedTypes DEF PushReturn, Return, TypeOK
  <2> QED
    BY <1>11, <2>5, <2>6
<1> QED
  BY <1>3, <1>4, <1>5, <1>6, <1>7, <1>8, <1>9, <1>10, <1>11 DEF PushStep

LEMMA TypePop ==
    ASSUME TypeOK, NEW t \in Threads, PopStep(t), Knows(t)
    PROVE  TypeOK'
<1> USE DEF Goto
<1>0. /\ todo[t] \in Seq(Call) /\ pc \in [Threads -> Pc] /\ old_ptr[t] \in CountedNodePtr
      /\ old_next[t] \in CountedNodePtr /\ unlinked[t] \in CountedNodePtr /\ taken[t] \in Value \cup {NoValue}
      /\ head \in CountedNodePtr /\ tail \in CountedNodePtr /\ results[t] \in Seq(Value \cup {NoValue})
      /\ next \in [Addr -> CountedNodePtr]
  BY DEF TypeOK
<1>p. \A q \in PopPc \cup {"idle"} : [pc EXCEPT ![t] = q] \in [Threads -> Pc]
  BY <1>0 DEF Pc
<1>q. {"pop_guard", "pop_empty", "pop_guard_next", "pop_move", "pop_take", "pop_unlink", "pop_free_head",
       "pop_free_next", "pop_release_next", "pop_release", "pop_fail_release_next", "pop_fail_release"} = PopPc
  BY DEF PopPc
<1>3. CASE PopCall(t)
  <2>1. pc' \in [Threads -> Pc]
    BY <1>3, <1>p, <1>q DEF PopCall
  <2> QED
    BY <2>1, <1>3 DEF PopCall, TypeOK, nodeVars, localVars
<1>4. CASE PopGuard(t)
  <2>1. pc' \in [Threads -> Pc]
    BY <1>4, <1>p, <1>q DEF PopGuard
  <2> QED
    BY <2>1, <1>4, <1>0, CountedTypes DEF PopGuard, TypeOK, nodeVars
<1>5. CASE PopCheckEmpty(t)
  <2>1. pc' \in [Threads -> Pc]
    BY <1>5, <1>p, <1>q DEF PopCheckEmpty
  <2> QED
    BY <2>1, <1>5 DEF PopCheckEmpty, TypeOK, nodeVars, localVars
<1>6. CASE PopGuardNext(t)
  <2>1. pc' \in [Threads -> Pc]
    BY <1>6, <1>p, <1>q DEF PopGuardNext
  <2>2. old_ptr[t].ptr \in Addr
    BY <1>6 DEF PopGuardNext, GuardsOld, Knows
  <2>3. [next[old_ptr[t].ptr] EXCEPT !.external_count = @ + 1] \in CountedNodePtr
    BY <2>2, <1>0, CountedTypes
  <2> QED
    BY <2>1, <2>3, <1>6, <1>0 DEF PopGuardNext, TypeOK
<1>7. CASE PopMove(t)
  <2>1. pc' \in [Threads -> Pc]
    BY <1>7, <1>p, <1>q DEF PopMove
  <2>2. Counted(1, old_next[t].ptr) \in CountedNodePtr
    BY <1>0, CountedTypes
  <2> QED
    BY <2>1, <2>2, <1>7 DEF PopMove, TypeOK, nodeVars, localVars
<1>8. CASE PopTake(t)
  <2>1. pc' \in [Threads -> Pc]
    BY <1>8, <1>p, <1>q DEF PopTake
  <2>2. old_ptr[t].ptr \in Addr
    BY <1>8 DEF PopTake, GuardsOld, Knows
  <2> QED
    BY <2>1, <2>2, <1>8 DEF PopTake, TypeOK
<1>9. CASE PopUnlink(t)
  <2>1. pc' \in [Threads -> Pc]
    BY <1>9, <1>p, <1>q DEF PopUnlink
  <2>2. old_ptr[t].ptr \in Addr
    BY <1>9 DEF PopUnlink, GuardsOld, Knows
  <2>3. Counted(1, Null) \in CountedNodePtr
    BY CountedTypes
  <2> QED
    BY <2>1, <2>2, <2>3, <1>9, <1>0 DEF PopUnlink, TypeOK
<1>10. CASE PopFreeHead(t) \/ PopFreeNext(t) \/ PopReleaseNext(t) \/ PopRetry(t)
  <2>1. pc' \in [Threads -> Pc]
    BY <1>10, <1>p, <1>q DEF PopFreeHead, PopFreeNext, PopReleaseNext, PopRetry
  <2>2. \E p \in CountedNodePtr : p.ptr \in Addr /\ (ReleaseGuard(p) \/ FreeExternalCounter(p))
    BY <1>10, <1>0 DEF PopFreeHead, PopFreeNext, PopReleaseNext, PopRetry, Knows, GuardsOld, GuardsNext, MovesNext
  <2>3. /\ next' = next /\ data' = data /\ live' \subseteq Addr
        /\ internal_count' \in [Addr -> InternalCounts] /\ external_counters' \in [Addr -> 0 .. 3]
    BY <2>2, SettleTypes
  <2> QED
    BY <2>1, <2>3, <1>10 DEF PopFreeHead, PopFreeNext, PopReleaseNext, PopRetry, TypeOK, localVars
<1>11. CASE PopReturn(t)
  <2>1. pc' \in [Threads -> Pc]
    BY <1>11, <1>p DEF PopReturn, Return
  <2>2. old_ptr[t].ptr \in Addr
    BY <1>11 DEF PopReturn, Knows, GuardsOld
  <2>3. /\ next' = next /\ data' = data /\ live' \subseteq Addr
        /\ internal_count' \in [Addr -> InternalCounts] /\ external_counters' \in [Addr -> 0 .. 3]
    BY <2>2, <1>0, <1>11, SettleTypes DEF PopReturn
  <2>4. todo' \in [Threads -> Seq(Call)]
    BY <1>0, <1>11, <1>q DEF PopReturn, Return, TypeOK, Knows
  <2>5. results' \in [Threads -> Seq(Value \cup {NoValue})]
    BY <1>0, <1>11 DEF PopReturn, TypeOK
  <2> QED
    BY <2>1, <2>3, <2>4, <2>5, <1>11, CountedTypes DEF PopReturn, Return, TypeOK
<1> QED
  BY <1>3, <1>4, <1>5, <1>6, <1>7, <1>8, <1>9, <1>10, <1>11 DEF PopStep

LEMMA TypeDestructor ==
    ASSUME TypeOK, DestructorStarts \/ DestructorPopped \/ DestructorFrees,
           destructor = "free_head" => head.ptr \in Addr, destructor = "free_tail" => tail.ptr \in Addr
    PROVE  TypeOK'
<1>1. <<Pop>> \in Seq(Call)
  BY DEF Pop, Call
<1>2. todo \in [Threads -> Seq(Call)] /\ head \in CountedNodePtr /\ tail \in CountedNodePtr
  BY DEF TypeOK
<1>3. [todo EXCEPT ![Main] = <<Pop>>] \in [Threads -> Seq(Call)]
  BY <1>1, <1>2
<1>4. CASE DestructorStarts
  BY <1>3, <1>4 DEF DestructorStarts, TypeOK, nodeVars, localVars
<1>5. CASE DestructorPopped
  BY <1>3, <1>5 DEF DestructorPopped, TypeOK, nodeVars, localVars
<1>6. CASE DestructorFrees
  <2>1. /\ next' = next /\ data' = data /\ live' \subseteq Addr
        /\ internal_count' \in [Addr -> InternalCounts] /\ external_counters' \in [Addr -> 0 .. 3]
    BY <1>2, <1>6, SettleTypes DEF DestructorFrees
  <2> QED
    BY <2>1, <1>6 DEF DestructorFrees, TypeOK, localVars
<1> QED
  BY <1>4, <1>5, <1>6

-----------------------------------------------------------------------------
(* What follows from the invariant at once.                                 *)
LEMMA Knowing ==
    ASSUME TypeOK, NEW rank, NEW linked, NEW by_tail, NEW by_head, NEW by_next,
           MemoryInv(rank, linked, by_tail, by_head, by_next), NEW t \in Threads
    PROVE  /\ Knows(t) /\ linked \subseteq Addr
           /\ pc[t] \in Pc
           /\ GuardsOld(t) => old_ptr[t].ptr \in linked
           /\ GuardsNext(t) => old_next[t].ptr \in linked
           /\ pc[t] \in MovesTail \cup MovesNext => unlinked[t].ptr \in linked
           /\ pc[t] \in PrivatePc => new_next[t].ptr \in live \ linked
<1>1. linked \subseteq Addr /\ pc[t] \in Pc
  BY DEF MemoryInv, PrivateInv, TypeOK
<1>2. /\ GuardsOld(t) => old_ptr[t].ptr \in linked
      /\ GuardsNext(t) => old_next[t].ptr \in linked
  BY DEF MemoryInv, Listed, HoldsInv
<1>3. pc[t] \in MovesTail \cup MovesNext => unlinked[t].ptr \in linked
  <2>1. pc[t] \in MovesTail => unlinked[t].ptr = old_ptr[t].ptr /\ GuardsOld(t)
    BY DEF MemoryInv, Listed, TailInv, MovesTail, GuardsOld
  <2>2. pc[t] \in MovesNext => unlinked[t].ptr = old_next[t].ptr /\ GuardsNext(t)
    BY DEF MemoryInv, Listed, NextInv, MovesNext, GuardsNext
  <2> QED
    BY <1>2, <2>1, <2>2
<1>4. pc[t] \in PrivatePc => new_next[t].ptr \in live \ linked
  BY DEF MemoryInv, PrivateInv
<1>5. /\ pc[t] \in PushPc => todo[t] # <<>> /\ Head(todo[t]).op = "push"
      /\ pc[t] \in PopPc => todo[t] # <<>>
  BY DEF MemoryInv, LocalInv, LocalOf
<1> QED
  BY <1>1, <1>2, <1>3, <1>4, <1>5 DEF Knows, Pc

-----------------------------------------------------------------------------
(* What a step of t must leave alone for a part of the invariant to hold on.*)
LEMMA PrivateFrame ==
    ASSUME NEW t \in Threads, Others(t), NEW linked, NEW linked2, PrivateInv(linked),
           linked2 \subseteq live', live' \ linked2 = live \ linked,
           pc'[t] \in PrivatePc <=> pc[t] \in PrivatePc, new_next'[t] = new_next[t] \/ pc[t] \notin PrivatePc,
           \A n \in live \ linked : /\ next'[n] = next[n] /\ data'[n] = data[n]
                                    /\ internal_count'[n] = internal_count[n]
                                    /\ external_counters'[n] = external_counters[n]
    PROVE  PrivateInv(linked2)'
<1>1. \A u \in Threads : pc'[u] \in PrivatePc <=> pc[u] \in PrivatePc
  BY DEF Others
<1>2. \A u \in Threads : pc[u] \in PrivatePc => new_next'[u] = new_next[u]
  BY DEF Others
<1> QED
  BY <1>1, <1>2 DEF PrivateInv

(* A node of its own that a thread links or deletes.                        *)
LEMMA PrivateLeaves ==
    ASSUME NEW t \in Threads, Others(t), NEW linked, NEW linked2, PrivateInv(linked),
           pc[t] \in PrivatePc, pc'[t] \notin PrivatePc,
           linked2 \subseteq live', live' \ linked2 = (live \ linked) \ {new_next[t].ptr},
           \A n \in (live \ linked) \ {new_next[t].ptr} :
                /\ next'[n] = next[n] /\ data'[n] = data[n]
                /\ internal_count'[n] = internal_count[n]
                /\ external_counters'[n] = external_counters[n]
    PROVE  PrivateInv(linked2)'
<1>1. \A u \in Threads : pc'[u] \in PrivatePc => u # t /\ pc[u] \in PrivatePc /\ new_next'[u] = new_next[u]
  BY DEF Others
<1>2. \A u \in Threads : u # t /\ pc[u] \in PrivatePc => pc'[u] \in PrivatePc /\ new_next'[u] = new_next[u]
  BY DEF Others
<1>3. \A u \in Threads : u # t /\ pc[u] \in PrivatePc => new_next[u].ptr # new_next[t].ptr
  BY DEF PrivateInv
<1> QED
  BY <1>1, <1>2, <1>3 DEF PrivateInv

(* A node a thread makes, as it starts or after it linked the one it had.   *)
LEMMA PrivateEnters ==
    ASSUME NEW t \in Threads, Others(t), NEW linked, NEW linked2, PrivateInv(linked), NEW n, n \notin live,
           pc'[t] \in PrivatePc, new_next'[t] = Counted(1, n),
           next'[n] = NullPtr, data'[n] = NoValue, internal_count'[n] = 0, external_counters'[n] = 3,
           linked2 \subseteq live',
           live' \ linked2 = {n} \cup ((live \ linked)
                \ (IF pc[t] \in PrivatePc THEN {new_next[t].ptr} ELSE {})),
           \A m \in (live \ linked) \ (IF pc[t] \in PrivatePc THEN {new_next[t].ptr} ELSE {}) :
                /\ next'[m] = next[m] /\ data'[m] = data[m]
                /\ internal_count'[m] = internal_count[m]
                /\ external_counters'[m] = external_counters[m]
    PROVE  PrivateInv(linked2)'
<1>1. \A u \in Threads : u # t /\ pc'[u] \in PrivatePc =>
           /\ pc[u] \in PrivatePc /\ new_next'[u] = new_next[u]
           /\ new_next[u].ptr \in (live \ linked) \ (IF pc[t] \in PrivatePc THEN {new_next[t].ptr} ELSE {})
  BY DEF Others, PrivateInv
<1>2. \A u \in Threads : u # t /\ pc[u] \in PrivatePc => pc'[u] \in PrivatePc /\ new_next'[u] = new_next[u]
  BY DEF Others
<1>3. new_next'[t].ptr = n
  BY CountedFields
<1>4. n \in live' \ linked2
  OBVIOUS
<1>5. ASSUME NEW u \in Threads, pc'[u] \in PrivatePc
      PROVE  LET p == new_next'[u].ptr
             IN  /\ new_next'[u] = Counted(1, p)
                 /\ p \in live' \ linked2
                 /\ next'[p] = NullPtr
                 /\ data'[p] = NoValue
                 /\ internal_count'[p] = 0
                 /\ external_counters'[p] = 3
                 /\ \A v \in Threads : pc'[v] \in PrivatePc /\ new_next'[v].ptr = p => v = u
  <2>1. CASE u = t
    <3>1. \A v \in Threads : pc'[v] \in PrivatePc /\ new_next'[v].ptr = n => v = t
      BY <1>1
    <3> QED
      BY <2>1, <1>3, <1>4, <3>1
  <2>2. CASE u # t
    <3>1. new_next[u].ptr # n /\ new_next[u].ptr \in live' \ linked2
      BY <2>2, <1>1, <1>5
    <3>2. \A v \in Threads : pc'[v] \in PrivatePc /\ new_next'[v].ptr = new_next[u].ptr => v = u
      BY <2>2, <1>1, <1>3, <1>5, <3>1 DEF PrivateInv
    <3> QED
      BY <2>2, <1>1, <1>5, <3>1, <3>2 DEF PrivateInv
  <2> QED
    BY <2>1, <2>2
<1>6. ASSUME NEW m \in live' \ linked2
      PROVE  \E u \in Threads : pc'[u] \in PrivatePc /\ new_next'[u].ptr = m
  <2>1. CASE m = n
    BY <2>1, <1>3
  <2>2. CASE m # n
    <3>1. PICK u \in Threads : pc[u] \in PrivatePc /\ new_next[u].ptr = m
      BY <2>2, <1>6 DEF PrivateInv
    <3>2. u # t
      BY <2>2, <1>6, <3>1
    <3> QED
      BY <3>1, <3>2, <1>2
  <2> QED
    BY <2>1, <2>2
<1> QED
  BY <1>5, <1>6 DEF PrivateInv

LEMMA HoldsFrame ==
    ASSUME NEW t \in Threads, Others(t), NEW linked, NEW linked2, HoldsInv(linked), linked \subseteq linked2,
           GuardsOld(t)' => old_ptr'[t].ptr \in linked2, GuardsNext(t)' => old_next'[t].ptr \in linked2
    PROVE  HoldsInv(linked2)'
<1>1. \A u \in Threads : u # t => /\ GuardsOld(u)' = GuardsOld(u) /\ old_ptr'[u] = old_ptr[u]
                                  /\ GuardsNext(u)' = GuardsNext(u) /\ old_next'[u] = old_next[u]
  BY DEF Others, GuardsOld, GuardsNext
<1> QED
  BY <1>1 DEF HoldsInv

LEMMA OrderFrame ==
    ASSUME NEW rank, NEW linked, OrderInv(rank, linked), head'.ptr = head.ptr, tail'.ptr = tail.ptr
    PROVE  OrderInv(rank, linked)'
BY DEF OrderInv

LEMMA LagFrame ==
    ASSUME NEW t \in Threads, Others(t), NEW rank, NEW linked, LagInv(rank, linked), tail'.ptr = tail.ptr,
           pc[t] \in {"push_tail", "push_help_tail"} /\ old_ptr[t].ptr = tail.ptr
                => pc'[t] \in {"push_tail", "push_help_tail"} /\ old_ptr'[t].ptr = tail.ptr
    PROVE  LagInv(rank, linked)'
<1>1. Overdue => Overdue'
  BY DEF Overdue, Others
<1> QED
  BY <1>1 DEF LagInv

LEMMA ListFrame ==
    ASSUME NEW t \in Threads, Others(t), NEW rank, NEW linked, ListInv(rank, linked),
           head'.ptr = head.ptr, tail'.ptr = tail.ptr,
           pc[t] \in {"pop_take", "pop_unlink"} =>
                pc'[t] \in {"pop_take", "pop_unlink"} /\ old_ptr'[t].ptr = old_ptr[t].ptr,
           \A n \in linked : next'[n].ptr = next[n].ptr /\ (next'[n] = NullPtr <=> next[n] = NullPtr)
                             /\ (next[n] = Counted(1, Null) => next'[n] = Counted(1, Null)),
           \A n \in linked : rank[head.ptr] <= rank[n] /\ data[n] # NoValue => data'[n] # NoValue
    PROVE  ListInv(rank, linked)'
<1>1. \A n : Uncut(n) => Uncut(n)'
  BY DEF Uncut, Others
<1> QED
  BY <1>1 DEF ListInv

LEMMA TailFrame ==
    ASSUME NEW t \in Threads, Others(t), NEW rank, NEW linked, NEW by_tail, TailInv(rank, linked, by_tail),
           tail' = tail, pc'[t] \in MovesTail <=> pc[t] \in MovesTail,
           pc[t] \in MovesTail => unlinked'[t] = unlinked[t] /\ old_ptr'[t] = old_ptr[t]
    PROVE  TailInv(rank, linked, by_tail)'
<1>1. \A u \in Threads : pc'[u] \in MovesTail <=> pc[u] \in MovesTail
  BY DEF Others
<1>2. \A u \in Threads : pc[u] \in MovesTail => unlinked'[u] = unlinked[u] /\ old_ptr'[u] = old_ptr[u]
  BY DEF Others
<1>3. \A n : TailTaken(n) => TailTaken(n)'
  BY <1>1, <1>2 DEF TailTaken
<1> QED
  BY <1>1, <1>2, <1>3 DEF TailInv

LEMMA HeadFrame ==
    ASSUME NEW t \in Threads, Others(t), NEW rank, NEW linked, NEW by_head, HeadInv(rank, linked, by_head),
           head' = head, pc'[t] \in MovesHead <=> pc[t] \in MovesHead,
           pc[t] \in MovesHead => old_ptr'[t] = old_ptr[t]
    PROVE  HeadInv(rank, linked, by_head)'
<1>1. \A u \in Threads : pc'[u] \in MovesHead <=> pc[u] \in MovesHead
  BY DEF Others
<1>2. \A u \in Threads : pc[u] \in MovesHead => old_ptr'[u] = old_ptr[u]
  BY DEF Others
<1>3. \A n : HeadTaken(n) => HeadTaken(n)'
  BY <1>1, <1>2 DEF HeadTaken
<1> QED
  BY <1>1, <1>2, <1>3 DEF HeadInv

LEMMA NextFrame ==
    ASSUME NEW t \in Threads, Others(t), NEW linked, NEW by_next, NextInv(linked, by_next),
           HoldsInv(linked), \A n \in linked : next'[n] = next[n],
           pc'[t] \in MovesNext <=> pc[t] \in MovesNext,
           pc[t] \in MovesNext => /\ unlinked'[t] = unlinked[t] /\ old_next'[t] = old_next[t]
                                  /\ old_ptr'[t] = old_ptr[t]
    PROVE  NextInv(linked, by_next)'
<1>1. \A u \in Threads : pc'[u] \in MovesNext <=> pc[u] \in MovesNext
  BY DEF Others
<1>2. \A u \in Threads : pc[u] \in MovesNext =>
         /\ unlinked'[u] = unlinked[u] /\ old_next'[u] = old_next[u] /\ old_ptr'[u] = old_ptr[u]
         /\ old_ptr[u].ptr \in linked
  BY DEF Others, HoldsInv, GuardsOld, MovesNext
<1>3. \A n : NextTaken(n) => NextTaken(n)'
  BY <1>1, <1>2 DEF NextTaken
<1>4. \A n : LinkedTo(linked, n) => LinkedTo(linked, n)'
  BY DEF LinkedTo
<1> QED
  BY <1>1, <1>2, <1>3, <1>4 DEF NextInv

-----------------------------------------------------------------------------
(* The guards on a node.                                                    *)
LEMMA HoldsFinite ==
    /\ \A n : IsFiniteSet(HoldsOld(n)) /\ IsFiniteSet(HoldsNext(n))
    /\ \A n : Cardinality(HoldsOld(n)) \in Nat /\ Cardinality(HoldsNext(n)) \in Nat
    /\ \A n : Held(n) \in Nat /\ Held(n) < Wrap
<1>1. \A n : IsFiniteSet(HoldsOld(n)) /\ IsFiniteSet(HoldsNext(n))
  BY ThreadsAssumption, FS_Subset DEF HoldsOld, HoldsNext
<1>2. \A n : /\ Cardinality(HoldsOld(n)) \in Nat /\ Cardinality(HoldsNext(n)) \in Nat
             /\ Cardinality(HoldsOld(n)) <= Cardinality(Threads)
             /\ Cardinality(HoldsNext(n)) <= Cardinality(Threads)
  BY <1>1, ThreadsAssumption, FS_Subset, FS_CardinalityType DEF HoldsOld, HoldsNext
<1>3. Cardinality(Threads) \in Nat
  BY ThreadsAssumption, FS_CardinalityType
<1>4. 2 * Cardinality(Threads) < Wrap
  BY ThreadsAssumption DEF Wrap
<1>5. ASSUME NEW n PROVE Held(n) \in Nat /\ Held(n) < Wrap
  <2>1. /\ Cardinality(HoldsOld(n)) \in Nat /\ Cardinality(HoldsNext(n)) \in Nat
        /\ Cardinality(HoldsOld(n)) <= Cardinality(Threads)
        /\ Cardinality(HoldsNext(n)) <= Cardinality(Threads)
    BY <1>2
  <2>2. Cardinality(HoldsOld(n)) + Cardinality(HoldsNext(n)) < Wrap
    BY <2>1, <1>3, <1>4, WrapValue, SMT
  <2> QED
    BY <2>1, <2>2 DEF Held
<1> QED
  BY <1>1, <1>2, <1>5

LEMMA HoldsFinite2 ==
    (/\ \A n : IsFiniteSet(HoldsOld(n)) /\ IsFiniteSet(HoldsNext(n))
     /\ \A n : Cardinality(HoldsOld(n)) \in Nat /\ Cardinality(HoldsNext(n)) \in Nat
     /\ \A n : Held(n) \in Nat /\ Held(n) < Wrap)'
BY HoldsFinite, PTL

LEMMA HeldZero ==
    ASSUME NEW n, Held(n) = 0
    PROVE  HoldsOld(n) = {} /\ HoldsNext(n) = {}
<1>1. Cardinality(HoldsOld(n)) = 0 /\ Cardinality(HoldsNext(n)) = 0
  BY HoldsFinite, SMT DEF Held
<1> QED
  BY <1>1, HoldsFinite, FS_EmptySet

LEMMA HeldNone ==
    ASSUME NEW linked, HoldsInv(linked), NEW n, n \notin linked
    PROVE  Held(n) = 0
<1>1. HoldsOld(n) = {} /\ HoldsNext(n) = {}
  BY DEF HoldsOld, HoldsNext, HoldsInv
<1>2. Cardinality({}) = 0
  BY FS_EmptySet
<1> QED
  BY <1>1, <1>2 DEF Held

LEMMA OldSame ==
    ASSUME NEW t \in Threads, Others(t), NEW n,
           GuardsOld(t)' /\ old_ptr'[t].ptr = n <=> GuardsOld(t) /\ old_ptr[t].ptr = n
    PROVE  HoldsOld(n)' = HoldsOld(n)
<1>1. \A u \in Threads : GuardsOld(u)' /\ old_ptr'[u].ptr = n <=> GuardsOld(u) /\ old_ptr[u].ptr = n
  BY DEF Others, GuardsOld
<1> QED
  BY <1>1 DEF HoldsOld

LEMMA NextSame ==
    ASSUME NEW t \in Threads, Others(t), NEW n,
           GuardsNext(t)' /\ old_next'[t].ptr = n <=> GuardsNext(t) /\ old_next[t].ptr = n
    PROVE  HoldsNext(n)' = HoldsNext(n)
<1>1. \A u \in Threads : GuardsNext(u)' /\ old_next'[u].ptr = n <=> GuardsNext(u) /\ old_next[u].ptr = n
  BY DEF Others, GuardsNext
<1> QED
  BY <1>1 DEF HoldsNext

LEMMA OldMore ==
    ASSUME NEW t \in Threads, Others(t), NEW n, ~GuardsOld(t), GuardsOld(t)', old_ptr'[t].ptr = n
    PROVE  Cardinality(HoldsOld(n)') = Cardinality(HoldsOld(n)) + 1
<1>1. \A u \in Threads \ {t} : GuardsOld(u)' /\ old_ptr'[u].ptr = n <=> GuardsOld(u) /\ old_ptr[u].ptr = n
  BY DEF Others, GuardsOld
<1>2. HoldsOld(n)' = HoldsOld(n) \cup {t} /\ t \notin HoldsOld(n)
  BY <1>1 DEF HoldsOld
<1> QED
  BY <1>2, HoldsFinite, FS_AddElement

LEMMA NextMore ==
    ASSUME NEW t \in Threads, Others(t), NEW n, ~GuardsNext(t), GuardsNext(t)', old_next'[t].ptr = n
    PROVE  Cardinality(HoldsNext(n)') = Cardinality(HoldsNext(n)) + 1
<1>1. \A u \in Threads \ {t} : GuardsNext(u)' /\ old_next'[u].ptr = n <=> GuardsNext(u) /\ old_next[u].ptr = n
  BY DEF Others, GuardsNext
<1>2. HoldsNext(n)' = HoldsNext(n) \cup {t} /\ t \notin HoldsNext(n)
  BY <1>1 DEF HoldsNext
<1> QED
  BY <1>2, HoldsFinite, FS_AddElement

LEMMA OldLess ==
    ASSUME NEW t \in Threads, Others(t), NEW n, GuardsOld(t), old_ptr[t].ptr = n, ~GuardsOld(t)'
    PROVE  Cardinality(HoldsOld(n)') = Cardinality(HoldsOld(n)) - 1
<1>1. \A u \in Threads \ {t} : GuardsOld(u)' /\ old_ptr'[u].ptr = n <=> GuardsOld(u) /\ old_ptr[u].ptr = n
  BY DEF Others, GuardsOld
<1>2. HoldsOld(n)' = HoldsOld(n) \ {t} /\ t \in HoldsOld(n)
  BY <1>1 DEF HoldsOld
<1> QED
  BY <1>2, HoldsFinite, FS_RemoveElement

LEMMA NextLess ==
    ASSUME NEW t \in Threads, Others(t), NEW n, GuardsNext(t), old_next[t].ptr = n, ~GuardsNext(t)'
    PROVE  Cardinality(HoldsNext(n)') = Cardinality(HoldsNext(n)) - 1
<1>1. \A u \in Threads \ {t} : GuardsNext(u)' /\ old_next'[u].ptr = n <=> GuardsNext(u) /\ old_next[u].ptr = n
  BY DEF Others, GuardsNext
<1>2. HoldsNext(n)' = HoldsNext(n) \ {t} /\ t \in HoldsNext(n)
  BY <1>1 DEF HoldsNext
<1> QED
  BY <1>2, HoldsFinite, FS_RemoveElement

(* A step that takes no guard and gives none back.                          *)
LEMMA HeldSame ==
    ASSUME NEW t \in Threads, Others(t), GuardsOld(t)' <=> GuardsOld(t), GuardsNext(t)' <=> GuardsNext(t),
           GuardsOld(t) => old_ptr'[t].ptr = old_ptr[t].ptr,
           GuardsNext(t) => old_next'[t].ptr = old_next[t].ptr
    PROVE  \A n : Held(n)' = Held(n)
<1>1. \A n : HoldsOld(n)' = HoldsOld(n) /\ HoldsNext(n)' = HoldsNext(n)
  BY OldSame, NextSame
<1> QED
  BY <1>1 DEF Held

LEMMA BalanceFrame ==
    ASSUME NEW linked, NEW by_tail, NEW by_head, NEW by_next, BalanceInv(linked, by_tail, by_head, by_next),
           \A n \in linked : /\ Held(n)' = Held(n) /\ internal_count'[n] = internal_count[n]
                             /\ external_counters'[n] = external_counters[n]
    PROVE  BalanceInv(linked, by_tail, by_head, by_next)'
BY DEF BalanceInv, Outstanding, Pointers

-----------------------------------------------------------------------------
(* The node a step deletes leaves the list.                                 *)
LEMMA Shrink ==
    ASSUME NEW rank, NEW linked, NEW by_tail, NEW by_head, NEW by_next,
           linked \subseteq Addr, Listed(rank, linked, by_tail, by_head, by_next),
           NEW n \in linked, Held(n) = 0, by_tail[n] = 0, by_head[n] = 0, by_next[n] = 0
    PROVE  Listed(rank, linked \ {n}, by_tail, by_head, by_next)
<1> DEFINE rest == linked \ {n}
<1>1. HoldsOld(n) = {} /\ HoldsNext(n) = {}
  BY HeldZero
<1>2. HoldsInv(rest)
  BY <1>1 DEF Listed, HoldsInv, HoldsOld, HoldsNext
<1>3. n # head.ptr /\ n # tail.ptr
  BY DEF Listed, HeadInv, TailInv
<1>4. OrderInv(rank, rest)
  BY <1>3 DEF Listed, OrderInv
<1>5. LagInv(rank, rest)
  BY DEF Listed, LagInv
<1>6. \A m \in linked : next[m].ptr # n
  <2>1. n # Null
    BY NullAssumption
  <2> QED
    BY <2>1 DEF Listed, NextInv
<1>7. ListInv(rank, rest)
  BY <1>6 DEF Listed, ListInv
<1>8. TailInv(rank, rest, by_tail) /\ HeadInv(rank, rest, by_head)
  BY DEF Listed, TailInv, HeadInv
<1>9. next[n].ptr = Null
  <2>1. rank[n] < rank[head.ptr]
    <3>1. rank[n] \in Int /\ rank[head.ptr] \in Int /\ head.ptr \in linked
      BY DEF Listed, OrderInv
    <3>2. ~ (rank[n] > rank[head.ptr])
      BY DEF Listed, HeadInv
    <3>3. rank[n] # rank[head.ptr]
      BY <1>3, <3>1 DEF Listed, OrderInv
    <3> QED
      BY <3>1, <3>2, <3>3
  <2>2. ~Uncut(n)
    BY <1>1 DEF Uncut, HoldsOld, GuardsOld
  <2> QED
    BY <2>1, <2>2, CountedFields DEF Listed, ListInv
<1>10. NextInv(rest, by_next)
  <2>1. \A m \in rest : LinkedTo(linked, m) => LinkedTo(rest, m)
    BY <1>9, NullAssumption DEF LinkedTo
  <2> QED
    BY <2>1 DEF Listed, NextInv
<1> QED
  BY <1>2, <1>4, <1>5, <1>7, <1>8, <1>10 DEF Listed

LEMMA ShrinkAll ==
    \A rank, linked, by_tail, by_head, by_next : \A n \in linked :
        /\ linked \subseteq Addr /\ Listed(rank, linked, by_tail, by_head, by_next)
        /\ Held(n) = 0 /\ by_tail[n] = 0 /\ by_head[n] = 0 /\ by_next[n] = 0
        => Listed(rank, linked \ {n}, by_tail, by_head, by_next)
BY Shrink

LEMMA Shrunk ==
    (\A rank, linked, by_tail, by_head, by_next : \A n \in linked :
        /\ linked \subseteq Addr /\ Listed(rank, linked, by_tail, by_head, by_next)
        /\ Held(n) = 0 /\ by_tail[n] = 0 /\ by_head[n] = 0 /\ by_next[n] = 0
        => Listed(rank, linked \ {n}, by_tail, by_head, by_next))'
BY ShrinkAll, PTL

-----------------------------------------------------------------------------
(* What a step of t may do to the list without another call noticing.       *)
Forward(t, rank, rank2, linked) ==
    /\ \A n \in linked : rank2[n] = rank[n]
    /\ rank[head.ptr] <= rank2[head'.ptr] /\ rank[tail.ptr] <= rank2[tail'.ptr]
    /\ rank2[head'.ptr] \in Int /\ rank2[tail'.ptr] \in Int
    /\ \A n \in linked : \/ next'[n].ptr = next[n].ptr \/ next[n].ptr = Null
                         \/ (pc[t] = "pop_unlink" /\ old_ptr[t].ptr = n)
    /\ \A n \in linked : data[n] # NoValue =>
                         data'[n] # NoValue \/ (pc[t] = "pop_take" /\ old_ptr[t].ptr = n)

LEMMA LocalFrame ==
    ASSUME TypeOK, NEW rank, NEW linked, NEW by_tail, NEW by_head, NEW by_next,
           MemoryInv(rank, linked, by_tail, by_head, by_next),
           NEW t \in Threads, Others(t), NEW rank2, Forward(t, rank, rank2, linked),
           LocalOf(rank2, t)'
    PROVE  LocalInv(rank2)'
<1> SUFFICES ASSUME NEW u \in Threads PROVE LocalOf(rank2, u)'
  BY DEF LocalInv
<1> CASE u = t
  OBVIOUS
<1> CASE u # t
  <2> DEFINE o == old_ptr[u].ptr
             s == old_next[u].ptr
  <2>1. /\ pc'[u] = pc[u] /\ todo'[u] = todo[u] /\ old_ptr'[u] = old_ptr[u] /\ old_next'[u] = old_next[u]
        /\ taken'[u] = taken[u] /\ GuardsOld(u)' = GuardsOld(u) /\ GuardsNext(u)' = GuardsNext(u)
    BY DEF Others, GuardsOld, GuardsNext
  <2>2. /\ linked \subseteq Addr /\ rank \in [Addr -> Int]
        /\ (GuardsOld(u) => o \in linked) /\ (GuardsNext(u) => s \in linked)
        /\ head.ptr \in linked /\ tail.ptr \in linked
    BY Knowing DEF MemoryInv, Listed, OrderInv
  <2>3. LocalOf(rank, u)
    BY DEF MemoryInv, LocalInv
  <2>4. (GuardsOld(u) => rank2[o] = rank[o] /\ rank[o] \in Int) /\ (GuardsNext(u) => rank2[s] = rank[s])
    BY <2>2 DEF Forward
  <2>5. rank[head.ptr] \in Int /\ rank[tail.ptr] \in Int
    BY <2>2
  <2>6. rank[head.ptr] <= rank2[head'.ptr] /\ rank[tail.ptr] <= rank2[tail'.ptr]
        /\ rank2[head'.ptr] \in Int /\ rank2[tail'.ptr] \in Int
    BY DEF Forward
  <2>7. ASSUME pc[t] \in {"pop_take", "pop_unlink"} /\ old_ptr[t].ptr = o, GuardsOld(u)
        PROVE  rank[o] < rank[head.ptr] /\ pc[u] \notin {"pop_take", "pop_unlink"}
    BY <2>7 DEF MemoryInv, Listed, HeadInv, MovesHead
  <2>8. ASSUME GuardsOld(u), pc[u] \in {"pop_take", "pop_unlink"} \/ rank[o] >= rank[head.ptr]
        PROVE  /\ next[o].ptr # Null => next'[o].ptr = next[o].ptr
               /\ data[o] # NoValue => data'[o] # NoValue
    <3>1. ~ (pc[t] \in {"pop_take", "pop_unlink"} /\ old_ptr[t].ptr = o)
      BY <2>7, <2>8, <2>2, <2>5
    <3> QED
      BY <3>1, <2>8, <2>2 DEF Forward
  <2>9. /\ (GuardsOld(u) => rank2[o] <= rank2[tail'.ptr])
        /\ (GuardsOld(u) /\ pc[u] \in PopPc => rank2[o] <= rank2[head'.ptr])
        /\ (pc[u] \in {"pop_guard_next", "pop_move"} => rank2[o] < rank2[tail'.ptr])
        /\ (GuardsNext(u) => rank2[s] = rank2[o] + 1)
    <3>1. /\ (GuardsOld(u) => rank[o] <= rank[tail.ptr])
          /\ (GuardsOld(u) /\ pc[u] \in PopPc => rank[o] <= rank[head.ptr])
          /\ (pc[u] \in {"pop_guard_next", "pop_move"} => rank[o] < rank[tail.ptr])
          /\ (GuardsNext(u) => rank[s] = rank[o] + 1)
      BY <2>3 DEF LocalOf
    <3>2. GuardsNext(u) => GuardsOld(u)
      BY DEF GuardsOld, GuardsNext
    <3>3. pc[u] \in {"pop_guard_next", "pop_move"} => GuardsOld(u)
      BY DEF GuardsOld
    <3>4. GuardsOld(u) => rank2[o] <= rank2[tail'.ptr]
      BY <3>1, <2>4, <2>5, <2>6
    <3>5. GuardsOld(u) /\ pc[u] \in PopPc => rank2[o] <= rank2[head'.ptr]
      BY <3>1, <2>4, <2>5, <2>6
    <3>6. pc[u] \in {"pop_guard_next", "pop_move"} => rank2[o] < rank2[tail'.ptr]
      BY <3>1, <3>3, <2>4, <2>5, <2>6
    <3>7. GuardsNext(u) => rank2[s] = rank2[o] + 1
      BY <3>1, <3>2, <2>4
    <3> QED
      BY <3>4, <3>5, <3>6, <3>7
  <2>10. /\ (pc[u] \in {"pop_take", "pop_unlink"} => next'[o].ptr = s)
         /\ (pc[u] = "pop_take" => data'[o] # NoValue)
    <3>1. pc[u] \in {"pop_take", "pop_unlink"} => GuardsOld(u) /\ GuardsNext(u) /\ s # Null
      BY <2>2, NullAssumption DEF GuardsOld, GuardsNext
    <3> QED
      BY <3>1, <2>3, <2>8 DEF LocalOf
  <2>11. /\ (pc[u] \in {"push_link", "push_help", "push_tail", "push_help_tail"}
                /\ rank2[o] >= rank2[head'.ptr] => data'[o] # NoValue)
         /\ (pc[u] \in {"push_tail", "push_help_tail"} /\ rank2[o] >= rank2[head'.ptr]
                => next'[o].ptr = s /\ s # Null)
    <3>1. pc[u] \in {"push_link", "push_help", "push_tail", "push_help_tail"} => GuardsOld(u)
      BY DEF GuardsOld
    <3>2. GuardsOld(u) /\ rank2[o] >= rank2[head'.ptr] => rank[o] >= rank[head.ptr]
      BY <2>4, <2>5, <2>6
    <3>3. /\ (pc[u] \in {"push_link", "push_help", "push_tail", "push_help_tail"}
                /\ rank[o] >= rank[head.ptr] => data[o] # NoValue)
          /\ (pc[u] \in {"push_tail", "push_help_tail"} /\ rank[o] >= rank[head.ptr]
                => next[o].ptr = s /\ s # Null)
      BY <2>3 DEF LocalOf
    <3> QED
      BY <3>1, <3>2, <3>3, <2>8
  <2> QED
    BY <2>1, <2>3, <2>9, <2>10, <2>11 DEF LocalOf
<1> QED
  OBVIOUS

(* A step that leaves the head, the tail, the links and the values alone.   *)
LEMMA ForwardFrame ==
    ASSUME TypeOK, NEW rank, NEW linked, OrderInv(rank, linked), linked \subseteq Addr, NEW t \in Threads,
           head'.ptr = head.ptr, tail'.ptr = tail.ptr,
           \A n \in linked : next'[n].ptr = next[n].ptr \/ next[n].ptr = Null
                             \/ (pc[t] = "pop_unlink" /\ old_ptr[t].ptr = n),
           \A n \in linked : data[n] # NoValue =>
                             data'[n] # NoValue \/ (pc[t] = "pop_take" /\ old_ptr[t].ptr = n)
    PROVE  Forward(t, rank, rank, linked)
<1>1. rank[head.ptr] \in Int /\ rank[tail.ptr] \in Int
  BY DEF OrderInv
<1> QED
  BY <1>1 DEF Forward

-----------------------------------------------------------------------------
(* A step of t that moves no pointer and counts nothing.                    *)
Calm(t) ==
    /\ pc'[t] \in PrivatePc <=> pc[t] \in PrivatePc
    /\ pc'[t] \in MovesTail <=> pc[t] \in MovesTail
    /\ pc'[t] \in MovesHead <=> pc[t] \in MovesHead
    /\ pc'[t] \in MovesNext <=> pc[t] \in MovesNext
    /\ GuardsOld(t)' <=> GuardsOld(t)
    /\ GuardsNext(t)' <=> GuardsNext(t)
    /\ pc[t] \in {"pop_take", "pop_unlink"} => pc'[t] \in {"pop_take", "pop_unlink"}
    /\ pc[t] \in {"push_tail", "push_help_tail"} /\ old_ptr[t].ptr = tail.ptr
            => pc'[t] \in {"push_tail", "push_help_tail"}
    /\ new_next'[t] = new_next[t] /\ old_ptr'[t] = old_ptr[t]
    /\ GuardsNext(t) => old_next'[t] = old_next[t]
    /\ unlinked'[t] = unlinked[t]
    /\ UNCHANGED <<head, tail, next, internal_count, external_counters, live>>

(* Only a pop takes a value away, from a node the head has passed.          *)
KeepsValues(t, linked) ==
    /\ \A n \in live \ linked : data'[n] = data[n]
    /\ \A n \in linked : data[n] # NoValue =>
                         data'[n] # NoValue \/ (pc[t] = "pop_take" /\ old_ptr[t].ptr = n)

LEMMA CalmStep ==
    ASSUME TypeOK, NEW rank, NEW linked, NEW by_tail, NEW by_head, NEW by_next,
           MemoryInv(rank, linked, by_tail, by_head, by_next),
           NEW t \in Threads, Others(t), Calm(t), KeepsValues(t, linked), LocalOf(rank, t)'
    PROVE  MemoryInv(rank, linked, by_tail, by_head, by_next)'
<1>1. linked \subseteq live /\ linked \subseteq Addr
  BY DEF MemoryInv, PrivateInv, TypeOK
<1>2. PrivateInv(linked)'
  BY <1>1, PrivateFrame DEF Calm, MemoryInv, KeepsValues
<1>3. HoldsInv(linked)'
  <2>1. /\ GuardsOld(t)' => old_ptr'[t].ptr \in linked
        /\ GuardsNext(t)' => old_next'[t].ptr \in linked
    BY DEF MemoryInv, Listed, HoldsInv, Calm
  <2> QED
    BY <2>1, HoldsFrame DEF MemoryInv, Listed
<1>4. OrderInv(rank, linked)'
  BY OrderFrame DEF MemoryInv, Listed, Calm
<1>5. LagInv(rank, linked)'
  BY LagFrame DEF MemoryInv, Listed, Calm
<1>6. ListInv(rank, linked)'
  <2>1. \A n \in linked : rank[head.ptr] <= rank[n] /\ data[n] # NoValue => data'[n] # NoValue
    <3>1. ASSUME NEW n \in linked, pc[t] = "pop_take", old_ptr[t].ptr = n
          PROVE  ~ (rank[head.ptr] <= rank[n])
      <4>1. rank[n] < rank[head.ptr]
        BY <3>1 DEF MemoryInv, Listed, HeadInv, MovesHead
      <4>2. rank[n] \in Int /\ rank[head.ptr] \in Int
        BY <1>1 DEF MemoryInv, Listed, OrderInv
      <4> QED
        BY <4>1, <4>2
    <3> QED
      BY <3>1 DEF KeepsValues
  <2> QED
    BY <2>1, ListFrame DEF MemoryInv, Listed, Calm
<1>7. TailInv(rank, linked, by_tail)'
  BY TailFrame DEF MemoryInv, Listed, Calm
<1>8. HeadInv(rank, linked, by_head)'
  BY HeadFrame DEF MemoryInv, Listed, Calm
<1>9. NextInv(linked, by_next)'
  <2>1. pc[t] \in MovesNext => GuardsNext(t)
    BY DEF MovesNext, GuardsNext
  <2> QED
    BY <2>1, NextFrame DEF MemoryInv, Listed, Calm
<1>10. BalanceInv(linked, by_tail, by_head, by_next)'
  <2>1. \A n : Held(n)' = Held(n)
    BY HeldSame DEF Calm
  <2> QED
    BY <2>1, BalanceFrame DEF MemoryInv, Calm
<1>11. LocalInv(rank)'
  <2>1. OrderInv(rank, linked)
    BY DEF MemoryInv, Listed
  <2>2. next' = next /\ head' = head /\ tail' = tail
    BY DEF Calm
  <2>3. \A n \in linked : next'[n].ptr = next[n].ptr \/ next[n].ptr = Null
                             \/ (pc[t] = "pop_unlink" /\ old_ptr[t].ptr = n)
    BY <2>2
  <2>4. \A n \in linked : data[n] # NoValue =>
                             data'[n] # NoValue \/ (pc[t] = "pop_take" /\ old_ptr[t].ptr = n)
    BY DEF KeepsValues
  <2>5. Forward(t, rank, rank, linked)
    BY <1>1, <2>1, <2>2, <2>3, <2>4, ForwardFrame
  <2> QED
    BY <2>5, LocalFrame
<1> QED
  BY <1>2, <1>3, <1>4, <1>5, <1>6, <1>7, <1>8, <1>9, <1>10, <1>11 DEF MemoryInv, Listed

(* A value that Push() is given.                                            *)
LEMMA PushedValue ==
    ASSUME TypeOK, NEW t \in Threads, Knows(t), pc[t] \in PushPc
    PROVE  Head(todo[t]).value \in Value /\ Head(todo[t]).value # NoValue
<1>1. todo[t] \in Seq(Call)
  BY DEF TypeOK
<1>2. Head(todo[t]) \in Call /\ Head(todo[t]).op = "push"
  BY <1>1 DEF Knows
<1> QED
  BY <1>2, ValueAssumption DEF Call

LEMMA QuietSteps ==
    ASSUME TypeOK, NEW rank, NEW linked, NEW by_tail, NEW by_head, NEW by_next,
           MemoryInv(rank, linked, by_tail, by_head, by_next), NEW t \in Threads, Others(t),
           \/ PushData(t) \/ PushHelpLinked(t) \/ PopCall(t) \/ PopCheckEmpty(t) \/ PopTake(t)
           \/ (PushTail(t) \/ PushHelpTail(t)) /\ tail.ptr # old_ptr[t].ptr
           \/ PopMove(t) /\ head # old_ptr[t]
           \/ PopGuardNext(t) /\ next[old_ptr[t].ptr].ptr = Null
    PROVE  MemoryInv(rank, linked, by_tail, by_head, by_next)'
<1> DEFINE o == old_ptr[t].ptr
<1> USE DEF Goto
<1>1. /\ Knows(t) /\ linked \subseteq Addr /\ (GuardsOld(t) => o \in linked)
      /\ rank \in [Addr -> Int] /\ head.ptr \in linked /\ tail.ptr \in linked
  BY Knowing DEF MemoryInv, Listed, OrderInv
<1>2. LocalOf(rank, t)
  BY DEF MemoryInv, LocalInv
<1>3. /\ pc \in [Threads -> Pc] /\ old_ptr \in [Threads -> CountedNodePtr]
      /\ data \in [Addr -> Value \cup {NoValue}]
      /\ old_next \in [Threads -> CountedNodePtr] /\ taken \in [Threads -> Value \cup {NoValue}]
      /\ unlinked \in [Threads -> CountedNodePtr]
  BY DEF TypeOK
<1>4. CASE PushData(t)
  <2>1. Calm(t)
    BY <1>4, <1>3 DEF PushData, Calm, PrivatePc, PushPc, MovesTail, MovesHead, MovesNext, GuardsOld, GuardsNext,
                      localVars
  <2>2. pc[t] = "push_data" /\ pc'[t] \in {"push_link", "push_help"}
    BY <1>4, <1>3 DEF PushData
  <2>3. o \in linked /\ Head(todo[t]).value # NoValue
    BY <1>1, <2>2, PushedValue DEF GuardsOld, PushPc
  <2>4. data'[o] # NoValue /\ \A n \in Addr \ {o} : data'[n] = data[n]
    BY <1>4, <1>3, <1>1, <2>3 DEF PushData
  <2>5. KeepsValues(t, linked)
    BY <1>1, <2>3, <2>4 DEF TypeOK, KeepsValues
  <2>7. LocalOf(rank, t)'
    BY <1>2, <1>4, <2>1, <2>2, <2>4 DEF PushData, LocalOf, Calm, PopPc, PushPc, GuardsNext, GuardsOld, localVars
  <2> QED
    BY <2>1, <2>5, <2>7, CalmStep
<1>5. CASE PushHelpLinked(t)
  <2>1. Calm(t) /\ data' = data
    BY <1>5, <1>3 DEF PushHelpLinked, Calm, PrivatePc, PushPc, MovesTail, MovesHead, MovesNext, GuardsOld,
                      GuardsNext, nodeVars
  <2>2. pc[t] = "push_help" /\ pc'[t] = "push_help_tail"
    BY <1>5, <1>3 DEF PushHelpLinked
  <2>3. o \in linked /\ old_next'[t] = next[o] /\ next[o] # NullPtr
    BY <1>1, <1>3, <1>5, <2>2 DEF GuardsOld, PushHelpLinked
  <2>4. rank[o] >= rank[head.ptr] => next[o].ptr # Null
    <3>1. next[o].ptr = Null => rank[o] < rank[head.ptr]
      BY <2>3 DEF MemoryInv, Listed, ListInv
    <3> QED
      BY <3>1, <2>3, <1>1
  <2>5. LocalOf(rank, t)'
    BY <1>2, <1>5, <2>1, <2>2, <2>3, <2>4
       DEF PushHelpLinked, LocalOf, Calm, PopPc, PushPc, GuardsNext, GuardsOld, nodeVars
  <2>9. KeepsValues(t, linked)
    BY <2>1 DEF KeepsValues
  <2> QED
    BY <2>1, <2>5, <2>9, CalmStep
<1>6. CASE PopCall(t)
  <2>1. Calm(t) /\ data' = data
    BY <1>6, <1>3 DEF PopCall, Calm, PrivatePc, PushPc, MovesTail, MovesHead, MovesNext, GuardsOld,
                      GuardsNext, nodeVars, localVars
  <2>2. pc'[t] = "pop_guard" /\ todo[t] # <<>> /\ todo' = todo
    BY <1>6, <1>3 DEF PopCall
  <2>5. LocalOf(rank, t)'
    BY <2>1, <2>2 DEF LocalOf, Calm, PushPc, GuardsNext, GuardsOld
  <2>9. KeepsValues(t, linked)
    BY <2>1 DEF KeepsValues
  <2> QED
    BY <2>1, <2>5, <2>9, CalmStep
<1>7. CASE PopCheckEmpty(t)
  <2>1. Calm(t) /\ data' = data
    BY <1>7, <1>3 DEF PopCheckEmpty, Calm, PrivatePc, PushPc, MovesTail, MovesHead, MovesNext, GuardsOld,
                      GuardsNext, nodeVars, localVars
  <2>2. pc[t] = "pop_empty" /\ pc'[t] \in {"pop_release", "pop_guard_next"} /\ todo' = todo
        /\ (pc'[t] = "pop_guard_next" => o # tail.ptr)
    BY <1>7, <1>3 DEF PopCheckEmpty
  <2>3. pc'[t] = "pop_guard_next" => rank[o] < rank[tail.ptr]
    <3>1. o \in linked /\ rank[o] <= rank[tail.ptr]
      BY <1>1, <1>2, <2>2 DEF GuardsOld, LocalOf
    <3>2. rank[o] = rank[tail.ptr] => o = tail.ptr
      BY <1>1, <3>1 DEF MemoryInv, Listed, OrderInv
    <3> QED
      BY <1>1, <2>2, <3>1, <3>2
  <2>5. LocalOf(rank, t)'
    BY <1>2, <2>1, <2>2, <2>3 DEF LocalOf, Calm, PushPc, PopPc, GuardsNext, GuardsOld
  <2>9. KeepsValues(t, linked)
    BY <2>1 DEF KeepsValues
  <2> QED
    BY <2>1, <2>5, <2>9, CalmStep
<1>8. CASE PopTake(t)
  <2>1. Calm(t)
    BY <1>8, <1>3 DEF PopTake, Calm, PrivatePc, PushPc, MovesTail, MovesHead, MovesNext, GuardsOld,
                      GuardsNext
  <2>2. /\ pc[t] = "pop_take" /\ pc'[t] = "pop_unlink" /\ todo' = todo /\ taken'[t] = data[o]
        /\ \A n \in Addr \ {o} : data'[n] = data[n]
    BY <1>8, <1>3 DEF PopTake
  <2>3. o \in linked
    BY <1>1, <2>2 DEF GuardsOld
  <2>5. KeepsValues(t, linked)
    BY <1>1, <2>2, <2>3 DEF TypeOK, KeepsValues
  <2>6. LocalOf(rank, t)'
    BY <1>2, <1>8, <2>1, <2>2 DEF PopTake, LocalOf, Calm, PushPc, PopPc, GuardsNext, GuardsOld
  <2> QED
    BY <2>1, <2>5, <2>6, CalmStep
<1>9. CASE (PushTail(t) \/ PushHelpTail(t)) /\ tail.ptr # old_ptr[t].ptr
  <2>1. Calm(t) /\ data' = data
    BY <1>9, <1>3 DEF PushTail, PushHelpTail, SetNewTail, Calm, PrivatePc, PushPc, MovesTail, MovesHead,
                      MovesNext, GuardsOld, GuardsNext, nodeVars
  <2>2. pc[t] \in {"push_tail", "push_help_tail"} /\ pc'[t] \in {"push_release", "push_help_release"} /\ todo' = todo
    BY <1>9, <1>3 DEF PushTail, PushHelpTail, SetNewTail
  <2>5. LocalOf(rank, t)'
    BY <1>2, <2>1, <2>2 DEF LocalOf, Calm, PushPc, PopPc, GuardsNext, GuardsOld
  <2>9. KeepsValues(t, linked)
    BY <2>1 DEF KeepsValues
  <2> QED
    BY <2>1, <2>5, <2>9, CalmStep
<1>10. CASE PopMove(t) /\ head # old_ptr[t]
  <2>1. Calm(t) /\ data' = data
    BY <1>10, <1>3 DEF PopMove, Calm, PrivatePc, PushPc, MovesTail, MovesHead,
                      MovesNext, GuardsOld, GuardsNext, nodeVars, localVars
  <2>2. pc[t] = "pop_move" /\ pc'[t] = "pop_fail_release_next" /\ todo' = todo
    BY <1>10, <1>3 DEF PopMove
  <2>5. LocalOf(rank, t)'
    BY <1>2, <2>1, <2>2 DEF LocalOf, Calm, PushPc, PopPc, GuardsNext, GuardsOld
  <2>9. KeepsValues(t, linked)
    BY <2>1 DEF KeepsValues
  <2> QED
    BY <2>1, <2>5, <2>9, CalmStep
<1>11. CASE PopGuardNext(t) /\ next[old_ptr[t].ptr].ptr = Null
  <2>1. Calm(t) /\ data' = data
    BY <1>11, <1>3 DEF PopGuardNext, Calm, PrivatePc, PushPc, MovesTail, MovesHead,
                      MovesNext, GuardsOld, GuardsNext
  <2>2. pc[t] = "pop_guard_next" /\ pc'[t] = "pop_fail_release" /\ todo' = todo
    BY <1>11, <1>3 DEF PopGuardNext
  <2>5. LocalOf(rank, t)'
    BY <1>2, <2>1, <2>2 DEF LocalOf, Calm, PushPc, PopPc, GuardsNext, GuardsOld
  <2>9. KeepsValues(t, linked)
    BY <2>1 DEF KeepsValues
  <2> QED
    BY <2>1, <2>5, <2>9, CalmStep
<1> QED
  BY <1>4, <1>5, <1>6, <1>7, <1>8, <1>9, <1>10, <1>11

-----------------------------------------------------------------------------
LEMMA ReferencesAre ==
    /\ \A c \in Nat : References(c) \in Nat /\ Pointer(c) \in {0, 1}
    /\ \A c \in Nat : c >= 1 => References(c) = c - 1 /\ Pointer(c) = 1
    /\ References(0) = 0 /\ Pointer(0) = 0
BY DEF References, Pointer

LEMMA OutstandingInt ==
    ASSUME NEW a \in [Addr -> Nat], NEW b \in [Addr -> Nat], NEW c \in [Addr -> Nat], NEW n \in Addr
    PROVE  Outstanding(n, a, b, c) \in Nat /\ Pointers(n, a, b, c) \in 0 .. 3
<1>1. a[n] \in Nat /\ b[n] \in Nat /\ c[n] \in Nat
  OBVIOUS
<1> QED
  BY <1>1, ReferencesAre DEF Outstanding, Pointers

(* One more reference through one of the pointers, and one more guard.      *)
Counts(m, a, b, c, a2, b2, c2) ==
    \/ a[m] >= 1 /\ a2 = [a EXCEPT ![m] = @ + 1] /\ b2 = b /\ c2 = c
    \/ b[m] >= 1 /\ b2 = [b EXCEPT ![m] = @ + 1] /\ a2 = a /\ c2 = c
    \/ c[m] >= 1 /\ c2 = [c EXCEPT ![m] = @ + 1] /\ a2 = a /\ b2 = b
LEMMA BalanceGuard ==
    ASSUME TypeOK, NEW linked, linked \subseteq Addr,
           NEW a \in [Addr -> Nat], NEW b \in [Addr -> Nat], NEW c \in [Addr -> Nat],
           NEW a2, NEW b2, NEW c2, BalanceInv(linked, a, b, c), NEW m \in linked,
           Counts(m, a, b, c, a2, b2, c2),
           Held(m)' = Held(m) + 1, \A n \in linked : n # m => Held(n)' = Held(n),
           internal_count' = internal_count, external_counters' = external_counters
    PROVE  BalanceInv(linked, a2, b2, c2)'
<1>1. ASSUME NEW n \in linked, n # m
      PROVE  Outstanding(n, a2, b2, c2) = Outstanding(n, a, b, c) /\ Pointers(n, a2, b2, c2) = Pointers(n, a, b, c)
  <2>1. a2[n] = a[n] /\ b2[n] = b[n] /\ c2[n] = c[n]
    BY <1>1 DEF Counts
  <2> QED
    BY <2>1 DEF Outstanding, Pointers
<1>2. /\ Outstanding(m, a2, b2, c2) = Outstanding(m, a, b, c) + 1
      /\ Pointers(m, a2, b2, c2) = Pointers(m, a, b, c)
  <2>1. m \in Addr /\ a[m] \in Nat /\ b[m] \in Nat /\ c[m] \in Nat
    OBVIOUS
  <2>2. CASE a[m] >= 1 /\ a2 = [a EXCEPT ![m] = @ + 1] /\ b2 = b /\ c2 = c
    <3>1. a2[m] = a[m] + 1
      BY <2>1, <2>2
    <3>2. References(a2[m]) = References(a[m]) + 1 /\ Pointer(a2[m]) = Pointer(a[m])
      BY <2>1, <2>2, <3>1, ReferencesAre
    <3> QED
      BY <2>1, <2>2, <3>2, ReferencesAre DEF Outstanding, Pointers
  <2>3. CASE b[m] >= 1 /\ b2 = [b EXCEPT ![m] = @ + 1] /\ a2 = a /\ c2 = c
    <3>1. b2[m] = b[m] + 1
      BY <2>1, <2>3
    <3>2. References(b2[m]) = References(b[m]) + 1 /\ Pointer(b2[m]) = Pointer(b[m])
      BY <2>1, <2>3, <3>1, ReferencesAre
    <3> QED
      BY <2>1, <2>3, <3>2, ReferencesAre DEF Outstanding, Pointers
  <2>4. CASE c[m] >= 1 /\ c2 = [c EXCEPT ![m] = @ + 1] /\ a2 = a /\ b2 = b
    <3>1. c2[m] = c[m] + 1
      BY <2>1, <2>4
    <3>2. References(c2[m]) = References(c[m]) + 1 /\ Pointer(c2[m]) = Pointer(c[m])
      BY <2>1, <2>4, <3>1, ReferencesAre
    <3> QED
      BY <2>1, <2>4, <3>2, ReferencesAre DEF Outstanding, Pointers
  <2> QED
    BY <2>2, <2>3, <2>4 DEF Counts
<1>3. ASSUME NEW n \in linked
      PROVE  /\ internal_count[n] + Outstanding(n, a2, b2, c2) - Held(n)'
                  = internal_count[n] + Outstanding(n, a, b, c) - Held(n)
             /\ Pointers(n, a2, b2, c2) = Pointers(n, a, b, c)
  <2>1. internal_count[n] \in Int
    <3>1. internal_count[n] \in InternalCounts
      BY DEF TypeOK
    <3> QED
      BY <3>1, Counts0
  <2>2. Outstanding(n, a, b, c) \in Nat /\ Held(n) \in Nat
    BY OutstandingInt, HoldsFinite
  <2> QED
    BY <1>1, <1>2, <2>1, <2>2
<1> QED
  BY <1>3 DEF BalanceInv

-----------------------------------------------------------------------------
LEMMA PushCallStep ==
    ASSUME TypeOK, NEW rank, NEW linked, NEW by_tail, NEW by_head, NEW by_next,
           MemoryInv(rank, linked, by_tail, by_head, by_next), NEW t \in Threads, Others(t), PushCall(t)
    PROVE  MemoryInv(rank, linked, by_tail, by_head, by_next)'
<1>1. PICK n \in Addr \ live : /\ Constructed(n)
                               /\ next' = [next EXCEPT ![n] = NullPtr]
                               /\ new_next' = [new_next EXCEPT ![t] = Counted(1, n)]
  BY DEF PushCall
<1>2. /\ pc[t] = "idle" /\ pc'[t] = "push_guard" /\ todo' = todo /\ head' = head /\ tail' = tail
      /\ todo[t] # <<>> /\ Head(todo[t]).op = "push"
      /\ live' = live \cup {n} /\ new_next'[t] = Counted(1, n)
      /\ \A m \in Addr \ {n} : /\ next'[m] = next[m] /\ data'[m] = data[m]
                               /\ internal_count'[m] = internal_count[m]
                               /\ external_counters'[m] = external_counters[m]
      /\ next'[n] = NullPtr /\ data'[n] = NoValue /\ internal_count'[n] = 0 /\ external_counters'[n] = 3
  BY <1>1 DEF PushCall, Goto, TypeOK, Constructed
<1>3. linked \subseteq live /\ linked \subseteq Addr /\ live \subseteq Addr /\ PrivateInv(linked)
  BY DEF MemoryInv, PrivateInv, TypeOK
<1>4. /\ pc[t] \notin PrivatePc /\ pc'[t] \in PrivatePc
      /\ pc'[t] \notin MovesTail \cup MovesHead \cup MovesNext
      /\ pc[t] \notin MovesTail \cup MovesHead \cup MovesNext
      /\ ~GuardsOld(t) /\ ~GuardsOld(t)' /\ ~GuardsNext(t) /\ ~GuardsNext(t)'
  BY <1>2 DEF PrivatePc, PushPc, MovesTail, MovesHead, MovesNext, GuardsOld, GuardsNext
<1>5. \A m \in live : /\ next'[m] = next[m] /\ data'[m] = data[m]
                      /\ internal_count'[m] = internal_count[m]
                      /\ external_counters'[m] = external_counters[m]
  BY <1>2, <1>3
<1>6. PrivateInv(linked)'
  <2>1. live' \ linked = {n} \cup ((live \ linked) \ (IF pc[t] \in PrivatePc THEN {new_next[t].ptr} ELSE {}))
    BY <1>2, <1>3, <1>4
  <2> QED
    BY <1>2, <1>3, <1>4, <1>5, <2>1, PrivateEnters
<1>7. HoldsInv(linked)'
  BY <1>4, HoldsFrame DEF MemoryInv, Listed
<1>8. OrderInv(rank, linked)' /\ LagInv(rank, linked)' /\ ListInv(rank, linked)'
  BY <1>2, <1>3, <1>5, OrderFrame, LagFrame, ListFrame DEF MemoryInv, Listed
<1>9. TailInv(rank, linked, by_tail)' /\ HeadInv(rank, linked, by_head)' /\ NextInv(linked, by_next)'
  <2>1. \A m \in linked : next'[m] = next[m]
    BY <1>3, <1>5
  <2> QED
    BY <1>2, <1>4, <2>1, TailFrame, HeadFrame, NextFrame DEF MemoryInv, Listed
<1>10. BalanceInv(linked, by_tail, by_head, by_next)'
  <2>1. \A m : Held(m)' = Held(m)
    BY <1>4, HeldSame
  <2> QED
    BY <1>3, <1>5, <2>1, BalanceFrame DEF MemoryInv
<1>11. LocalInv(rank)'
  <2>1. OrderInv(rank, linked)
    BY DEF MemoryInv, Listed
  <2>2. Forward(t, rank, rank, linked)
    BY <1>2, <1>3, <1>5, <2>1, ForwardFrame
  <2>3. LocalOf(rank, t)'
    BY <1>2 DEF LocalOf, GuardsOld, GuardsNext, PopPc
  <2> QED
    BY <2>2, <2>3, LocalFrame
<1> QED
  BY <1>6, <1>7, <1>8, <1>9, <1>10, <1>11 DEF MemoryInv, Listed

LEMMA PushGuardStep ==
    ASSUME TypeOK, NEW rank, NEW linked, NEW by_tail, NEW by_head, NEW by_next,
           MemoryInv(rank, linked, by_tail, by_head, by_next), NEW t \in Threads, Others(t), PushGuard(t),
           NEW by_tail2, by_tail2 = [by_tail EXCEPT ![tail.ptr] = @ + 1]
    PROVE  MemoryInv(rank, linked, by_tail2, by_head, by_next)'
<1>1. /\ pc[t] = "push_guard" /\ pc'[t] = "push_data" /\ todo' = todo /\ head' = head
      /\ tail' = Counted(tail.external_count + 1, tail.ptr) /\ tail'.ptr = tail.ptr
      /\ tail'.external_count = tail.external_count + 1 /\ tail.external_count \in Nat
      /\ old_ptr'[t].ptr = tail.ptr /\ new_next' = new_next
      /\ next' = next /\ data' = data /\ internal_count' = internal_count
      /\ external_counters' = external_counters /\ live' = live
  <2>1. tail \in CountedNodePtr /\ tail' = Counted(tail.external_count + 1, tail.ptr)
    BY CountedTypes DEF TypeOK, PushGuard
  <2>2. /\ tail'.ptr = tail.ptr /\ tail'.external_count = tail.external_count + 1
        /\ tail.external_count \in Nat
    BY <2>1, CountedTypes, CountedFields
  <2> QED
    BY <2>1, <2>2 DEF PushGuard, Goto, TypeOK, nodeVars
<1>2. linked \subseteq live /\ linked \subseteq Addr /\ live \subseteq Addr /\ PrivateInv(linked)
  BY DEF MemoryInv, PrivateInv, TypeOK
<1>3. /\ pc[t] \in PrivatePc /\ pc'[t] \in PrivatePc
      /\ pc'[t] \notin MovesTail \cup MovesHead \cup MovesNext
      /\ pc[t] \notin MovesTail \cup MovesHead \cup MovesNext
      /\ ~GuardsOld(t) /\ GuardsOld(t)' /\ ~GuardsNext(t) /\ ~GuardsNext(t)'
  BY <1>1 DEF PrivatePc, PushPc, MovesTail, MovesHead, MovesNext, GuardsOld, GuardsNext
<1>4. tail.ptr \in linked /\ rank \in [Addr -> Int] /\ head.ptr \in linked
  BY DEF MemoryInv, Listed, OrderInv
<1>5. /\ by_tail \in [Addr -> Nat] /\ by_head \in [Addr -> Nat] /\ by_next \in [Addr -> Nat]
      /\ by_tail[tail.ptr] = tail.external_count /\ tail.external_count >= 1
  BY DEF MemoryInv, Listed, TailInv, HeadInv, NextInv
<1>6. PrivateInv(linked)'
  BY <1>1, <1>2, <1>3, PrivateFrame
<1>7. HoldsInv(linked)'
  BY <1>1, <1>3, <1>4, HoldsFrame DEF MemoryInv, Listed
<1>8. OrderInv(rank, linked)' /\ LagInv(rank, linked)' /\ ListInv(rank, linked)'
  BY <1>1, OrderFrame, LagFrame, ListFrame DEF MemoryInv, Listed
<1>9. HeadInv(rank, linked, by_head)' /\ NextInv(linked, by_next)'
  BY <1>1, <1>3, HeadFrame, NextFrame DEF MemoryInv, Listed
<1>10. TailInv(rank, linked, by_tail2)'
  <2>1. \A u \in Threads : /\ pc'[u] \in MovesTail <=> pc[u] \in MovesTail
                           /\ pc[u] \in MovesTail => unlinked'[u] = unlinked[u] /\ old_ptr'[u] = old_ptr[u]
    BY <1>3 DEF Others
  <2>2. \A n : TailTaken(n) => TailTaken(n)'
    BY <2>1 DEF TailTaken
  <2>3. by_tail2 \in [Addr -> Nat] /\ by_tail2[tail.ptr] = by_tail[tail.ptr] + 1
        /\ \A n \in linked : n # tail.ptr => by_tail2[n] = by_tail[n]
    BY <1>2, <1>4, <1>5
  <2>4. \A u \in Threads : pc[u] \in MovesTail =>
             /\ unlinked[u].ptr \in linked /\ unlinked[u].ptr # tail.ptr
             /\ rank[unlinked[u].ptr] < rank[tail.ptr]
    <3>1. ASSUME NEW u \in Threads, pc[u] \in MovesTail
          PROVE  unlinked[u].ptr \in linked /\ rank[unlinked[u].ptr] < rank[tail.ptr]
      BY <3>1, Knowing DEF MemoryInv, Listed, TailInv
    <3>2. ~ (rank[tail.ptr] < rank[tail.ptr])
      BY <1>2, <1>4
    <3> QED
      BY <3>1, <3>2
  <2>5. TailInv(rank, linked, by_tail)
    BY DEF MemoryInv, Listed
  <2>6. ~ (rank[tail.ptr] < rank[tail.ptr]) /\ ~ (rank[tail.ptr] > rank[tail.ptr])
    BY <1>2, <1>4
  <2>7. tail'.external_count >= 1 /\ by_tail2[tail'.ptr] = tail'.external_count
    BY <1>1, <1>5, <2>3
  <2>8. /\ \A n \in linked : rank[n] > rank[tail'.ptr] => by_tail2[n] = 1
        /\ \A n \in linked : rank[n] < rank[tail'.ptr] => by_tail2[n] = 0 \/ TailTaken(n)'
    BY <1>1, <2>2, <2>3, <2>5, <2>6 DEF TailInv
  <2>9. \A u \in Threads : pc'[u] \in MovesTail =>
          /\ unlinked'[u].external_count >= 1
          /\ by_tail2[unlinked'[u].ptr] = unlinked'[u].external_count
          /\ unlinked'[u].ptr = old_ptr'[u].ptr
          /\ rank[old_ptr'[u].ptr] < rank[tail'.ptr]
          /\ \A v \in Threads : pc'[v] \in MovesTail /\ unlinked'[v].ptr = unlinked'[u].ptr => v = u
    BY <1>1, <2>1, <2>3, <2>4, <2>5 DEF TailInv
  <2> QED
    BY <2>3, <2>7, <2>8, <2>9 DEF TailInv
<1>11. BalanceInv(linked, by_tail2, by_head, by_next)'
  <2>1. \A m : HoldsNext(m)' = HoldsNext(m)
    BY <1>3, NextSame
  <2>2. \A m : m # tail.ptr => HoldsOld(m)' = HoldsOld(m)
    BY <1>1, <1>3, OldSame
  <2>3. Cardinality(HoldsOld(tail.ptr)') = Cardinality(HoldsOld(tail.ptr)) + 1
    BY <1>1, <1>3, OldMore
  <2>4. \A m \in linked : m # tail.ptr => Held(m)' = Held(m)
    BY <2>1, <2>2 DEF Held
  <2>5. Cardinality(HoldsOld(tail.ptr)) \in Nat /\ Cardinality(HoldsNext(tail.ptr)) \in Nat
    BY HoldsFinite
  <2>6. Held(tail.ptr)' = Held(tail.ptr) + 1
    BY <1>1, <2>1, <2>3, <2>5 DEF Held
  <2>7. BalanceInv(linked, by_tail, by_head, by_next)
    BY DEF MemoryInv
  <2>8. Counts(tail.ptr, by_tail, by_head, by_next, by_tail2, by_head, by_next)
    BY <1>5 DEF Counts
  <2> QED
    BY <1>1, <1>2, <1>4, <1>5, <2>4, <2>6, <2>7, <2>8, BalanceGuard
<1>12. LocalInv(rank)'
  <2>1. OrderInv(rank, linked)
    BY DEF MemoryInv, Listed
  <2>2. Forward(t, rank, rank, linked)
    BY <1>1, <1>2, <2>1, ForwardFrame
  <2>3. LocalOf(rank, t)
    BY DEF MemoryInv, LocalInv
  <2>4. LocalOf(rank, t)'
    BY <1>1, <1>2, <1>4, <2>3 DEF LocalOf, GuardsOld, GuardsNext, PopPc, PushPc
  <2> QED
    BY <2>2, <2>4, LocalFrame
<1> QED
  BY <1>6, <1>7, <1>8, <1>9, <1>10, <1>11, <1>12 DEF MemoryInv, Listed

LEMMA PopGuardStep ==
    ASSUME TypeOK, NEW rank, NEW linked, NEW by_tail, NEW by_head, NEW by_next,
           MemoryInv(rank, linked, by_tail, by_head, by_next), NEW t \in Threads, Others(t), PopGuard(t),
           NEW by_head2, by_head2 = [by_head EXCEPT ![head.ptr] = @ + 1]
    PROVE  MemoryInv(rank, linked, by_tail, by_head2, by_next)'
<1>1. /\ pc[t] = "pop_guard" /\ pc'[t] = "pop_empty" /\ todo' = todo /\ tail' = tail
      /\ head' = Counted(head.external_count + 1, head.ptr) /\ head'.ptr = head.ptr
      /\ head'.external_count = head.external_count + 1 /\ head.external_count \in Nat
      /\ old_ptr'[t].ptr = head.ptr /\ new_next' = new_next
      /\ next' = next /\ data' = data /\ internal_count' = internal_count
      /\ external_counters' = external_counters /\ live' = live
  <2>1. head \in CountedNodePtr /\ head' = Counted(head.external_count + 1, head.ptr)
    BY CountedTypes DEF TypeOK, PopGuard
  <2>2. /\ head'.ptr = head.ptr /\ head'.external_count = head.external_count + 1
        /\ head.external_count \in Nat
    BY <2>1, CountedTypes, CountedFields
  <2> QED
    BY <2>1, <2>2 DEF PopGuard, Goto, TypeOK, nodeVars
<1>2. linked \subseteq live /\ linked \subseteq Addr /\ live \subseteq Addr /\ PrivateInv(linked)
  BY DEF MemoryInv, PrivateInv, TypeOK
<1>3. /\ pc[t] \notin PrivatePc /\ pc'[t] \notin PrivatePc
      /\ pc'[t] \notin MovesTail \cup MovesHead \cup MovesNext
      /\ pc[t] \notin MovesTail \cup MovesHead \cup MovesNext
      /\ ~GuardsOld(t) /\ GuardsOld(t)' /\ ~GuardsNext(t) /\ ~GuardsNext(t)'
  BY <1>1 DEF PrivatePc, PushPc, MovesTail, MovesHead, MovesNext, GuardsOld, GuardsNext
<1>4. tail.ptr \in linked /\ rank \in [Addr -> Int] /\ head.ptr \in linked /\ rank[head.ptr] <= rank[tail.ptr]
  BY DEF MemoryInv, Listed, OrderInv
<1>5. /\ by_tail \in [Addr -> Nat] /\ by_head \in [Addr -> Nat] /\ by_next \in [Addr -> Nat]
      /\ by_head[head.ptr] = head.external_count /\ head.external_count >= 1
  BY DEF MemoryInv, Listed, TailInv, HeadInv, NextInv
<1>6. PrivateInv(linked)'
  BY <1>1, <1>2, <1>3, PrivateFrame
<1>7. HoldsInv(linked)'
  BY <1>1, <1>3, <1>4, HoldsFrame DEF MemoryInv, Listed
<1>8. OrderInv(rank, linked)' /\ LagInv(rank, linked)' /\ ListInv(rank, linked)'
  BY <1>1, OrderFrame, LagFrame, ListFrame DEF MemoryInv, Listed
<1>9. TailInv(rank, linked, by_tail)' /\ NextInv(linked, by_next)'
  BY <1>1, <1>3, TailFrame, NextFrame DEF MemoryInv, Listed
<1>10. HeadInv(rank, linked, by_head2)'
  <2>1. \A u \in Threads : /\ pc'[u] \in MovesHead <=> pc[u] \in MovesHead
                           /\ pc[u] \in MovesHead => old_ptr'[u] = old_ptr[u]
    BY <1>3 DEF Others
  <2>2. \A n : HeadTaken(n) => HeadTaken(n)'
    BY <2>1 DEF HeadTaken
  <2>3. by_head2 \in [Addr -> Nat] /\ by_head2[head.ptr] = by_head[head.ptr] + 1
        /\ \A n \in linked : n # head.ptr => by_head2[n] = by_head[n]
    BY <1>2, <1>4, <1>5
  <2>4. \A u \in Threads : pc[u] \in MovesHead =>
             /\ old_ptr[u].ptr \in linked /\ old_ptr[u].ptr # head.ptr
    <3>1. ASSUME NEW u \in Threads, pc[u] \in MovesHead
          PROVE  old_ptr[u].ptr \in linked /\ rank[old_ptr[u].ptr] < rank[head.ptr]
      BY <3>1, Knowing DEF MemoryInv, Listed, HeadInv, MovesHead, GuardsOld
    <3>2. ~ (rank[head.ptr] < rank[head.ptr])
      BY <1>2, <1>4
    <3> QED
      BY <3>1, <3>2
  <2>5. HeadInv(rank, linked, by_head)
    BY DEF MemoryInv, Listed
  <2>6. ~ (rank[head.ptr] < rank[head.ptr]) /\ ~ (rank[head.ptr] > rank[head.ptr])
    BY <1>2, <1>4
  <2>7. head'.external_count >= 1 /\ by_head2[head'.ptr] = head'.external_count
    BY <1>1, <1>5, <2>3
  <2>8. /\ \A n \in linked : rank[n] > rank[head'.ptr] => by_head2[n] = 1
        /\ \A n \in linked : rank[n] < rank[head'.ptr] => by_head2[n] = 0 \/ HeadTaken(n)'
    BY <1>1, <2>2, <2>3, <2>5, <2>6 DEF HeadInv
  <2>9. \A u \in Threads : pc'[u] \in MovesHead =>
          /\ old_ptr'[u].external_count >= 1
          /\ by_head2[old_ptr'[u].ptr] = old_ptr'[u].external_count
          /\ rank[old_ptr'[u].ptr] < rank[head'.ptr]
          /\ \A v \in Threads : pc'[v] \in MovesHead /\ old_ptr'[v].ptr = old_ptr'[u].ptr => v = u
    BY <1>1, <2>1, <2>3, <2>4, <2>5 DEF HeadInv
  <2> QED
    BY <2>3, <2>7, <2>8, <2>9 DEF HeadInv
<1>11. BalanceInv(linked, by_tail, by_head2, by_next)'
  <2>1. \A m : HoldsNext(m)' = HoldsNext(m)
    BY <1>3, NextSame
  <2>2. \A m : m # head.ptr => HoldsOld(m)' = HoldsOld(m)
    BY <1>1, <1>3, OldSame
  <2>3. Cardinality(HoldsOld(head.ptr)') = Cardinality(HoldsOld(head.ptr)) + 1
    BY <1>1, <1>3, OldMore
  <2>4. \A m \in linked : m # head.ptr => Held(m)' = Held(m)
    BY <2>1, <2>2 DEF Held
  <2>5. Cardinality(HoldsOld(head.ptr)) \in Nat /\ Cardinality(HoldsNext(head.ptr)) \in Nat
    BY HoldsFinite
  <2>6. Held(head.ptr)' = Held(head.ptr) + 1
    BY <1>1, <2>1, <2>3, <2>5 DEF Held
  <2>7. BalanceInv(linked, by_tail, by_head, by_next)
    BY DEF MemoryInv
  <2>8. PICK m \in linked : m = head.ptr /\ Held(m)' = Held(m) + 1
    BY <1>1, <1>4, <2>6
  <2>9. Counts(m, by_tail, by_head, by_next, by_tail, by_head2, by_next)
    BY <1>5, <2>8 DEF Counts
  <2> QED
    BY <1>1, <1>2, <1>5, <2>4, <2>7, <2>8, <2>9, BalanceGuard
<1>12. LocalInv(rank)'
  <2>1. OrderInv(rank, linked)
    BY DEF MemoryInv, Listed
  <2>2. Forward(t, rank, rank, linked)
    BY <1>1, <1>2, <2>1, ForwardFrame
  <2>3. LocalOf(rank, t)
    BY DEF MemoryInv, LocalInv
  <2>4. LocalOf(rank, t)'
    BY <1>1, <1>2, <1>4, <2>3 DEF LocalOf, GuardsOld, GuardsNext, PopPc, PushPc
  <2> QED
    BY <2>2, <2>4, LocalFrame
<1> QED
  BY <1>6, <1>7, <1>8, <1>9, <1>10, <1>11, <1>12 DEF MemoryInv, Listed

(* Nothing but the one link leads to a node, and nobody has taken it off.   *)
LEMMA OneLink ==
    ASSUME TypeOK, NEW rank, NEW linked, NEW by_tail, NEW by_head, NEW by_next,
           MemoryInv(rank, linked, by_tail, by_head, by_next), NEW o \in linked, next[o].ptr # Null
    PROVE  /\ next[o].ptr \in linked /\ rank[next[o].ptr] = rank[o] + 1
           /\ \A p \in linked : next[p].ptr = next[o].ptr => p = o
           /\ \A u \in Threads : pc[u] \in MovesNext =>
                 /\ unlinked[u].ptr \in linked /\ unlinked[u].ptr # next[o].ptr
                 /\ old_ptr[u].ptr \in linked /\ old_ptr[u].ptr # o
<1>1. /\ linked \subseteq Addr /\ rank \in [Addr -> Int] /\ \A m, n \in linked : rank[m] = rank[n] => m = n
  BY DEF MemoryInv, PrivateInv, TypeOK, Listed, OrderInv
<1>2. \A p \in linked : next[p].ptr # Null => next[p].ptr \in linked /\ rank[next[p].ptr] = rank[p] + 1
  BY DEF MemoryInv, Listed, ListInv
<1>3. \A p \in linked : next[p].ptr = next[o].ptr => p = o
  <2>1. ASSUME NEW p \in linked, next[p].ptr = next[o].ptr PROVE p = o
    <3>1. rank[p] + 1 = rank[o] + 1
      BY <2>1, <1>2
    <3>2. rank[p] = rank[o]
      BY <3>1, <1>1
    <3> QED
      BY <3>2, <1>1
  <2> QED
    BY <2>1
<1>4. ASSUME NEW u \in Threads, pc[u] \in MovesNext
      PROVE  /\ unlinked[u].ptr \in linked /\ unlinked[u].ptr # next[o].ptr
             /\ old_ptr[u].ptr \in linked /\ old_ptr[u].ptr # o
  <2>1. old_ptr[u].ptr \in linked /\ old_next[u].ptr \in linked /\ unlinked[u].ptr \in linked
        /\ GuardsNext(u)
    BY <1>4, Knowing DEF MovesNext, GuardsOld, GuardsNext
  <2>2. rank[old_next[u].ptr] = rank[old_ptr[u].ptr] + 1
    BY <2>1 DEF MemoryInv, LocalInv, LocalOf
  <2>3. unlinked[u].ptr = old_next[u].ptr /\ next[old_ptr[u].ptr].ptr = Null
    BY <1>4, CountedFields DEF MemoryInv, Listed, NextInv
  <2>4. old_ptr[u].ptr # o
    BY <2>3
  <2>5. ASSUME unlinked[u].ptr = next[o].ptr PROVE FALSE
    <3>1. rank[old_ptr[u].ptr] + 1 = rank[o] + 1
      BY <2>2, <2>3, <2>5, <1>2
    <3>2. rank[old_ptr[u].ptr] = rank[o]
      BY <3>1, <1>1, <2>1
    <3> QED
      BY <3>2, <1>1, <2>1, <2>4
  <2> QED
    BY <2>1, <2>4, <2>5
<1> QED
  BY <1>2, <1>3, <1>4

LEMMA PopGuardNextStep ==
    ASSUME TypeOK, NEW rank, NEW linked, NEW by_tail, NEW by_head, NEW by_next,
           MemoryInv(rank, linked, by_tail, by_head, by_next), NEW t \in Threads, Others(t), PopGuardNext(t),
           next[old_ptr[t].ptr].ptr # Null,
           NEW by_next2, by_next2 = [by_next EXCEPT ![next[old_ptr[t].ptr].ptr] = @ + 1]
    PROVE  MemoryInv(rank, linked, by_tail, by_head, by_next2)'
<1>0. PICK o, s : o = old_ptr[t].ptr /\ s = next[o].ptr /\ s # Null
  OBVIOUS
<1>1. pc[t] = "pop_guard_next" /\ Knows(t) /\ o \in linked /\ o \in Addr
  BY <1>0, Knowing DEF PopGuardNext, GuardsOld
<1>2. linked \subseteq live /\ linked \subseteq Addr /\ live \subseteq Addr /\ PrivateInv(linked)
  BY DEF MemoryInv, PrivateInv, TypeOK
<1>3. /\ pc'[t] = "pop_move" /\ todo' = todo /\ tail' = tail /\ head' = head
      /\ next'[o] = Counted(next[o].external_count + 1, s) /\ next'[o].ptr = s
      /\ next'[o].external_count = next[o].external_count + 1 /\ next[o].external_count \in Nat
      /\ old_next'[t].ptr = s /\ old_ptr' = old_ptr /\ new_next' = new_next
      /\ \A n \in Addr : n # o => next'[n] = next[n]
      /\ data' = data /\ internal_count' = internal_count
      /\ external_counters' = external_counters /\ live' = live
  <2>1. next[o] \in CountedNodePtr /\ [next[o] EXCEPT !.external_count = @ + 1] = Counted(next[o].external_count + 1, s)
    BY <1>0, <1>1, CountedTypes DEF TypeOK
  <2>2. next[o].external_count \in Nat
    BY <2>1, CountedTypes
  <2>3. /\ next' = [next EXCEPT ![o] = Counted(next[o].external_count + 1, s)]
        /\ old_next' = [old_next EXCEPT ![t] = Counted(next[o].external_count + 1, s)]
    BY <1>0, <2>1 DEF PopGuardNext
  <2>4. next'[o] = Counted(next[o].external_count + 1, s) /\ \A n \in Addr : n # o => next'[n] = next[n]
    BY <2>3, <1>1 DEF TypeOK
  <2>5. old_next'[t].ptr = s
    BY <2>3, CountedFields DEF TypeOK
  <2> QED
    BY <1>0, <2>2, <2>4, <2>5, CountedFields DEF PopGuardNext, TypeOK
<1>4. /\ pc[t] \notin PrivatePc /\ pc'[t] \notin PrivatePc
      /\ pc'[t] \notin MovesTail \cup MovesHead \cup MovesNext
      /\ pc[t] \notin MovesTail \cup MovesHead \cup MovesNext
      /\ GuardsOld(t) /\ GuardsOld(t)' /\ ~GuardsNext(t) /\ GuardsNext(t)'
  BY <1>1, <1>3 DEF PrivatePc, PushPc, MovesTail, MovesHead, MovesNext, GuardsOld, GuardsNext
<1>5. /\ s \in linked /\ rank[s] = rank[o] + 1
      /\ \A p \in linked : next[p].ptr = s => p = o
      /\ \A u \in Threads : pc[u] \in MovesNext =>
            /\ unlinked[u].ptr \in linked /\ unlinked[u].ptr # s
            /\ old_ptr[u].ptr \in linked /\ old_ptr[u].ptr # o
  BY <1>0, <1>1, OneLink
<1>6. rank \in [Addr -> Int] /\ head.ptr \in linked /\ tail.ptr \in linked
  BY DEF MemoryInv, Listed, OrderInv
<1>7. /\ by_tail \in [Addr -> Nat] /\ by_head \in [Addr -> Nat] /\ by_next \in [Addr -> Nat]
      /\ by_next[s] = next[o].external_count /\ next[o].external_count >= 1
  BY <1>0, <1>1 DEF MemoryInv, Listed, TailInv, HeadInv, NextInv
<1>8. PrivateInv(linked)'
  <2>1. \A n \in live \ linked : next'[n] = next[n]
    BY <1>1, <1>2, <1>3
  <2> QED
    BY <2>1, <1>2, <1>3, <1>4, PrivateFrame
<1>9. HoldsInv(linked)'
  BY <1>0, <1>1, <1>3, <1>5, HoldsFrame DEF MemoryInv, Listed
<1>10. OrderInv(rank, linked)' /\ LagInv(rank, linked)' /\ ListInv(rank, linked)'
  <2>1. \A n \in linked : next'[n].ptr = next[n].ptr /\ (next'[n] = NullPtr <=> next[n] = NullPtr)
                          /\ (next[n] = Counted(1, Null) => next'[n] = Counted(1, Null))
    <3>1. next[o] # NullPtr /\ next'[o] # NullPtr /\ next[o] # Counted(1, Null)
      BY <1>0, <1>3, CountedFields
    <3> QED
      BY <3>1, <1>0, <1>2, <1>3
  <2> QED
    BY <2>1, <1>1, <1>3, OrderFrame, LagFrame, ListFrame DEF MemoryInv, Listed
<1>11. TailInv(rank, linked, by_tail)' /\ HeadInv(rank, linked, by_head)'
  BY <1>3, <1>4, TailFrame, HeadFrame DEF MemoryInv, Listed
<1>12. NextInv(linked, by_next2)'
  <2>1. \A u \in Threads : /\ pc'[u] \in MovesNext <=> pc[u] \in MovesNext
                           /\ pc[u] \in MovesNext => unlinked'[u] = unlinked[u] /\ old_ptr'[u] = old_ptr[u]
                                                     /\ old_next'[u] = old_next[u]
    BY <1>4 DEF Others
  <2>2. \A n : NextTaken(n) => NextTaken(n)'
    BY <2>1 DEF NextTaken
  <2>3. by_next2 \in [Addr -> Nat] /\ by_next2[s] = by_next[s] + 1
        /\ \A n \in linked : n # s => by_next2[n] = by_next[n]
    BY <1>0, <1>2, <1>5, <1>7
  <2>4. NextInv(linked, by_next)
    BY DEF MemoryInv, Listed
  <2>5. ASSUME NEW p \in linked, next'[p].ptr # Null
        PROVE  next'[p].external_count >= 1 /\ by_next2[next'[p].ptr] = next'[p].external_count
    <3>1. CASE p = o
      BY <3>1, <1>0, <1>3, <1>7, <2>3
    <3>2. CASE p # o
      <4>1. next'[p] = next[p] /\ next[p].ptr # s /\ next[p].ptr \in linked
        BY <3>2, <2>5, <1>2, <1>3, <1>5 DEF MemoryInv, Listed, ListInv
      <4> QED
        BY <4>1, <2>3, <2>4, <2>5 DEF NextInv
    <3> QED
      BY <3>1, <3>2
  <2>6. \A n \in linked : LinkedTo(linked, n) => LinkedTo(linked, n)'
    BY <1>0, <1>2, <1>3 DEF LinkedTo
  <2>7. LinkedTo(linked, s)'
    BY <1>1, <1>3 DEF LinkedTo
  <2>8. \A n \in linked : by_next2[n] = 0 \/ LinkedTo(linked, n)' \/ NextTaken(n)'
    BY <2>2, <2>3, <2>4, <2>6, <2>7 DEF NextInv
  <2>9. \A u \in Threads : pc'[u] \in MovesNext =>
          /\ unlinked'[u].external_count >= 1
          /\ by_next2[unlinked'[u].ptr] = unlinked'[u].external_count
          /\ unlinked'[u].ptr = old_next'[u].ptr
          /\ next'[old_ptr'[u].ptr] = Counted(1, Null)
          /\ \A v \in Threads : pc'[v] \in MovesNext /\ unlinked'[v].ptr = unlinked'[u].ptr => v = u
    BY <1>2, <1>3, <1>5, <2>1, <2>3, <2>4 DEF NextInv
  <2> QED
    BY <2>3, <2>5, <2>8, <2>9 DEF NextInv
<1>13. BalanceInv(linked, by_tail, by_head, by_next2)'
  <2>1. \A m : HoldsOld(m)' = HoldsOld(m)
    BY <1>3, <1>4, OldSame
  <2>2. \A m : m # s => HoldsNext(m)' = HoldsNext(m)
    BY <1>3, <1>4, NextSame
  <2>3. Cardinality(HoldsNext(s)') = Cardinality(HoldsNext(s)) + 1
    BY <1>3, <1>4, NextMore
  <2>4. \A m \in linked : m # s => Held(m)' = Held(m)
    BY <2>1, <2>2 DEF Held
  <2>5. Cardinality(HoldsOld(s)) \in Nat /\ Cardinality(HoldsNext(s)) \in Nat
    BY HoldsFinite
  <2>6. Held(s)' = Held(s) + 1
    BY <2>1, <2>3, <2>5 DEF Held
  <2>7. BalanceInv(linked, by_tail, by_head, by_next)
    BY DEF MemoryInv
  <2>8. Counts(s, by_tail, by_head, by_next, by_tail, by_head, by_next2)
    BY <1>0, <1>7 DEF Counts
  <2> QED
    BY <1>2, <1>3, <1>5, <1>7, <2>4, <2>6, <2>7, <2>8, BalanceGuard
<1>14. LocalInv(rank)'
  <2>1. OrderInv(rank, linked)
    BY DEF MemoryInv, Listed
  <2>2. Forward(t, rank, rank, linked)
    BY <1>0, <1>1, <1>2, <1>3, <2>1, ForwardFrame
  <2>3. LocalOf(rank, t)
    BY DEF MemoryInv, LocalInv
  <2>4. LocalOf(rank, t)'
    BY <1>0, <1>1, <1>3, <1>5, <2>3 DEF LocalOf, GuardsOld, GuardsNext, PopPc, PushPc
  <2> QED
    BY <2>2, <2>4, LocalFrame
<1> QED
  BY <1>8, <1>9, <1>10, <1>11, <1>12, <1>13, <1>14 DEF MemoryInv, Listed

-----------------------------------------------------------------------------
(* Another has linked its node: Push() deletes its own.                     *)
LEMMA PushDropStep ==
    ASSUME TypeOK, NEW rank, NEW linked, NEW by_tail, NEW by_head, NEW by_next,
           MemoryInv(rank, linked, by_tail, by_head, by_next), NEW t \in Threads, Others(t), PushLink(t),
           next[old_ptr[t].ptr] # NullPtr
    PROVE  MemoryInv(rank, linked, by_tail, by_head, by_next)'
<1> DEFINE o == old_ptr[t].ptr
<1>1. /\ pc[t] = "push_link" /\ pc'[t] = "push_tail" /\ todo' = todo /\ tail' = tail /\ head' = head
      /\ next' = next /\ data' = data /\ internal_count' = internal_count
      /\ external_counters' = external_counters /\ live' = live \ {new_next[t].ptr}
      /\ old_next'[t] = next[o] /\ old_ptr' = old_ptr
  BY DEF PushLink, Goto, TypeOK
<1>2. linked \subseteq live /\ linked \subseteq Addr /\ PrivateInv(linked)
  BY DEF MemoryInv, PrivateInv, TypeOK
<1>3. /\ pc[t] \in PrivatePc /\ pc'[t] \notin PrivatePc
      /\ pc'[t] \notin MovesTail \cup MovesHead \cup MovesNext
      /\ pc[t] \notin MovesTail \cup MovesHead \cup MovesNext
      /\ GuardsOld(t) /\ GuardsOld(t)' /\ ~GuardsNext(t) /\ ~GuardsNext(t)'
  BY <1>1 DEF PrivatePc, PushPc, MovesTail, MovesHead, MovesNext, GuardsOld, GuardsNext
<1>4. o \in linked /\ new_next[t].ptr \in live \ linked
  BY <1>3, Knowing
<1>5. PrivateInv(linked)'
  <2>1. linked \subseteq live' /\ live' \ linked = (live \ linked) \ {new_next[t].ptr}
    BY <1>1, <1>2, <1>4
  <2> QED
    BY <2>1, <1>1, <1>2, <1>3, PrivateLeaves
<1>6. HoldsInv(linked)'
  BY <1>1, <1>3, <1>4, HoldsFrame DEF MemoryInv, Listed
<1>7. OrderInv(rank, linked)' /\ LagInv(rank, linked)' /\ ListInv(rank, linked)'
  BY <1>1, OrderFrame, LagFrame, ListFrame DEF MemoryInv, Listed
<1>8. TailInv(rank, linked, by_tail)' /\ HeadInv(rank, linked, by_head)' /\ NextInv(linked, by_next)'
  BY <1>1, <1>3, TailFrame, HeadFrame, NextFrame DEF MemoryInv, Listed
<1>9. BalanceInv(linked, by_tail, by_head, by_next)'
  <2>1. \A m : Held(m)' = Held(m)
    BY <1>1, <1>3, HeldSame
  <2> QED
    BY <1>1, <2>1, BalanceFrame DEF MemoryInv
<1>10. LocalInv(rank)'
  <2>1. OrderInv(rank, linked)
    BY DEF MemoryInv, Listed
  <2>2. Forward(t, rank, rank, linked)
    BY <1>1, <1>2, <2>1, ForwardFrame
  <2>3. LocalOf(rank, t)
    BY DEF MemoryInv, LocalInv
  <2>4. rank[o] >= rank[head.ptr] => next[o].ptr # Null
    <3>1. next[o].ptr = Null => rank[o] < rank[head.ptr]
      BY <1>4 DEF MemoryInv, Listed, ListInv
    <3>2. rank[o] \in Int /\ rank[head.ptr] \in Int
      BY <1>2, <1>4, <2>1 DEF OrderInv
    <3> QED
      BY <3>1, <3>2
  <2>5. LocalOf(rank, t)'
    BY <1>1, <2>3, <2>4 DEF LocalOf, GuardsOld, GuardsNext, PopPc, PushPc
  <2> QED
    BY <2>2, <2>5, LocalFrame
<1> QED
  BY <1>5, <1>6, <1>7, <1>8, <1>9, <1>10 DEF MemoryInv, Listed

(* A node is linked behind the tail.                                        *)
LEMMA LinkStep ==
    ASSUME TypeOK, NEW rank, NEW linked, NEW by_tail, NEW by_head, NEW by_next,
           MemoryInv(rank, linked, by_tail, by_head, by_next), NEW t \in Threads, Others(t),
           pc[t] \in {"push_link", "push_help"}, pc'[t] \in {"push_tail", "push_help_tail"},
           next[old_ptr[t].ptr] = NullPtr, next'[old_ptr[t].ptr] = new_next[t],
           \A x \in live : /\ x # old_ptr[t].ptr => next'[x] = next[x]
                           /\ data'[x] = data[x] /\ internal_count'[x] = internal_count[x]
                           /\ external_counters'[x] = external_counters[x],
           head' = head, tail' = tail, old_ptr' = old_ptr, old_next'[t] = new_next[t], todo' = todo
    PROVE  \E rank2, linked2, by_tail2, by_head2, by_next2 :
               /\ linked2 = linked \cup {new_next[t].ptr}
               /\ Listed(rank2, linked2, by_tail2, by_head2, by_next2)'
               /\ BalanceInv(linked2, by_tail2, by_head2, by_next2)'
               /\ LocalInv(rank2)'
<1>0. PICK o, m : o = old_ptr[t].ptr /\ m = new_next[t].ptr
  OBVIOUS
<1>w. PICK rank2, linked2, by_tail2, by_head2, by_next2 :
          /\ rank2 = [rank EXCEPT ![m] = rank[o] + 1] /\ linked2 = linked \cup {m}
          /\ by_tail2 = [by_tail EXCEPT ![m] = 1] /\ by_head2 = [by_head EXCEPT ![m] = 1]
          /\ by_next2 = [by_next EXCEPT ![m] = 1]
  OBVIOUS
<1>1. linked \subseteq live /\ linked \subseteq Addr /\ live \subseteq Addr /\ PrivateInv(linked)
  BY DEF MemoryInv, PrivateInv, TypeOK
<1>2. /\ pc[t] \in PrivatePc
      /\ pc'[t] \notin MovesTail \cup MovesHead \cup MovesNext
      /\ pc[t] \notin MovesTail \cup MovesHead \cup MovesNext
      /\ GuardsOld(t) /\ GuardsOld(t)' /\ ~GuardsNext(t) /\ ~GuardsNext(t)'
  BY DEF PrivatePc, PushPc, MovesTail, MovesHead, MovesNext, GuardsOld, GuardsNext
<1>3. /\ o \in linked /\ m \in live /\ m \notin linked /\ m # o /\ m \in Addr /\ m # Null
      /\ new_next[t] = Counted(1, m) /\ next[m] = NullPtr
      /\ internal_count[m] = 0 /\ external_counters[m] = 3
  BY <1>0, <1>1, <1>2, Knowing, NullAssumption DEF PrivateInv
<1>4. /\ rank \in [Addr -> Int] /\ head.ptr \in linked /\ tail.ptr \in linked
      /\ rank[head.ptr] <= rank[tail.ptr] /\ \A x, y \in linked : rank[x] = rank[y] => x = y
  BY DEF MemoryInv, Listed, OrderInv
<1>5. /\ by_tail \in [Addr -> Nat] /\ by_head \in [Addr -> Nat] /\ by_next \in [Addr -> Nat]
  BY DEF MemoryInv, Listed, TailInv, HeadInv, NextInv
<1>6. o = tail.ptr /\ \A x \in linked : rank[x] <= rank[tail.ptr]
  <2>1. \A x \in linked : rank[x] <= rank[o]
    BY <1>0, <1>3 DEF MemoryInv, Listed, ListInv
  <2>2. rank[o] <= rank[tail.ptr]
    BY <1>0, <1>2 DEF MemoryInv, LocalInv, LocalOf
  <2>3. rank[o] = rank[tail.ptr]
    BY <2>1, <2>2, <1>1, <1>3, <1>4
  <2> QED
    BY <2>1, <2>3, <1>3, <1>4
<1>7. /\ rank2 \in [Addr -> Int] /\ rank2[m] = rank[tail.ptr] + 1 /\ \A x \in linked : rank2[x] = rank[x]
      /\ \A x \in linked : rank[x] \in Int
      /\ by_tail2 \in [Addr -> Nat] /\ by_tail2[m] = 1 /\ \A x \in linked : by_tail2[x] = by_tail[x]
      /\ by_head2 \in [Addr -> Nat] /\ by_head2[m] = 1 /\ \A x \in linked : by_head2[x] = by_head[x]
      /\ by_next2 \in [Addr -> Nat] /\ by_next2[m] = 1 /\ \A x \in linked : by_next2[x] = by_next[x]
  BY <1>w, <1>1, <1>3, <1>4, <1>5, <1>6
<1>8. /\ next'[o] = Counted(1, m) /\ next'[o].ptr = m /\ next'[m] = NullPtr
      /\ next[o].ptr = Null /\ next'[m].ptr = Null
      /\ \A x \in linked : x # o => next'[x] = next[x]
  BY <1>0, <1>1, <1>3, CountedFields
<1>9. HoldsInv(linked2)'
  BY <1>w, <1>0, <1>2, <1>3, HoldsFrame DEF MemoryInv, Listed
<1>10. OrderInv(rank2, linked2)'
  <2>1. \A x, y \in linked2 : rank2[x] = rank2[y] => x = y
    BY <1>w, <1>4, <1>6, <1>7
  <2>2. \A x \in linked2 : rank2[x] <= rank2[tail.ptr] + 1
    BY <1>w, <1>4, <1>6, <1>7
  <2> QED
    BY <1>w, <2>1, <2>2, <1>4, <1>7 DEF OrderInv
<1>11. LagInv(rank2, linked2)'
  <2>1. Overdue'
    BY <1>0, <1>6 DEF Overdue
  <2> QED
    BY <2>1 DEF LagInv
<1>12. ListInv(rank2, linked2)'
  <2>1. \A x : Uncut(x) => Uncut(x)'
    BY DEF Uncut, Others
  <2>2. ListInv(rank, linked)
    BY DEF MemoryInv, Listed
  <2>3. ASSUME NEW x \in linked, x # o
        PROVE  /\ next'[x].ptr # Null => next'[x].ptr \in linked2 /\ rank2[next'[x].ptr] = rank2[x] + 1
               /\ next'[x] # NullPtr
               /\ next'[x].ptr = Null /\ next'[x] # NullPtr => rank2[x] < rank2[head'.ptr]
               /\ rank2[x] < rank2[head'.ptr] => next'[x] = Counted(1, Null) \/ Uncut(x)'
               /\ rank2[head'.ptr] <= rank2[x] /\ rank2[x] < rank2[tail'.ptr] => data'[x] # NoValue
    <3>1. next[x] # NullPtr
      <4>1. next[x] = NullPtr => rank[o] <= rank[x]
        BY <1>0, <1>3, <2>2 DEF ListInv
      <4>2. rank[o] # rank[x]
        BY <1>3, <1>4, <2>3
      <4>3. rank[x] <= rank[o]
        BY <1>6
      <4> QED
        BY <4>1, <4>2, <4>3, <1>3, <1>7
    <3>2. next'[x] = next[x] /\ data'[x] = data[x]
      BY <2>3, <1>1, <1>8
    <3>3. rank2[x] = rank[x] /\ rank2[head.ptr] = rank[head.ptr] /\ rank2[tail.ptr] = rank[tail.ptr]
      BY <1>4, <1>7
    <3>4. next[x].ptr # Null => /\ next[x].ptr \in linked2 /\ rank2[next[x].ptr] = rank[next[x].ptr]
                                /\ rank[next[x].ptr] = rank[x] + 1
      BY <1>w, <1>7, <2>2 DEF ListInv
    <3>5. /\ next[x].ptr = Null /\ next[x] # NullPtr => rank[x] < rank[head.ptr]
          /\ rank[x] < rank[head.ptr] => next[x] = Counted(1, Null) \/ Uncut(x)'
          /\ rank[head.ptr] <= rank[x] /\ rank[x] < rank[tail.ptr] => data[x] # NoValue
      BY <2>1, <2>2 DEF ListInv
    <3> QED
      BY <3>1, <3>2, <3>3, <3>4, <3>5
  <2>4. \A y \in linked2 : rank2[y] <= rank2[m]
    <3>1. rank2[m] <= rank2[m] /\ \A y \in linked : rank2[y] <= rank2[m]
      BY <1>4, <1>6, <1>7
    <3> QED
      BY <1>w, <3>1
  <2>5. /\ ~ (rank2[m] < rank2[head'.ptr]) /\ ~ (rank2[m] < rank2[tail'.ptr])
        /\ ~ (rank2[o] < rank2[head'.ptr]) /\ ~ (rank2[o] < rank2[tail'.ptr])
        /\ rank2[m] = rank2[o] + 1
    BY <1>3, <1>4, <1>6, <1>7
  <2>6. next'[o] # NullPtr /\ next'[o].ptr # Null
    BY <1>3, <1>8, CountedFields
  <2> QED
    BY <1>w, <2>3, <2>4, <2>5, <2>6, <1>8 DEF ListInv
<1>13. TailInv(rank2, linked2, by_tail2)'
  <2>1. \A u \in Threads : /\ pc'[u] \in MovesTail <=> pc[u] \in MovesTail
                           /\ pc[u] \in MovesTail => unlinked'[u] = unlinked[u] /\ old_ptr'[u] = old_ptr[u]
                                                     /\ unlinked[u].ptr \in linked
    BY <1>2, Knowing DEF Others
  <2>2. \A n : TailTaken(n) => TailTaken(n)'
    BY <2>1 DEF TailTaken
  <2>3. TailInv(rank, linked, by_tail)
    BY DEF MemoryInv, Listed
  <2>4. tail.external_count >= 1 /\ by_tail2[tail.ptr] = tail.external_count
    BY <1>4, <1>7, <2>3 DEF TailInv
  <2>5. ~ (rank2[m] < rank2[tail.ptr])
    BY <1>4, <1>7
  <2>6. /\ \A n \in linked2 : rank2[n] > rank2[tail.ptr] => by_tail2[n] = 1
        /\ \A n \in linked2 : rank2[n] < rank2[tail.ptr] => by_tail2[n] = 0 \/ TailTaken(n)'
    BY <1>w, <1>4, <1>7, <2>2, <2>3, <2>5 DEF TailInv
  <2>7. \A u \in Threads : pc'[u] \in MovesTail =>
          /\ unlinked'[u].external_count >= 1
          /\ by_tail2[unlinked'[u].ptr] = unlinked'[u].external_count
          /\ unlinked'[u].ptr = old_ptr'[u].ptr
          /\ rank2[old_ptr'[u].ptr] < rank2[tail.ptr]
          /\ \A v \in Threads : pc'[v] \in MovesTail /\ unlinked'[v].ptr = unlinked'[u].ptr => v = u
    BY <1>4, <1>7, <2>1, <2>3 DEF TailInv
  <2> QED
    BY <1>w, <1>7, <2>4, <2>6, <2>7 DEF TailInv
<1>14. HeadInv(rank2, linked2, by_head2)'
  <2>1. \A u \in Threads : /\ pc'[u] \in MovesHead <=> pc[u] \in MovesHead
                           /\ pc[u] \in MovesHead => old_ptr'[u] = old_ptr[u] /\ old_ptr[u].ptr \in linked
    BY <1>2, Knowing DEF Others, MovesHead, GuardsOld
  <2>2. \A n : HeadTaken(n) => HeadTaken(n)'
    BY <2>1 DEF HeadTaken
  <2>3. HeadInv(rank, linked, by_head)
    BY DEF MemoryInv, Listed
  <2>4. head.external_count >= 1 /\ by_head2[head.ptr] = head.external_count
    BY <1>4, <1>7, <2>3 DEF HeadInv
  <2>5. ~ (rank2[m] < rank2[head.ptr])
    BY <1>4, <1>7
  <2>6. /\ \A n \in linked2 : rank2[n] > rank2[head.ptr] => by_head2[n] = 1
        /\ \A n \in linked2 : rank2[n] < rank2[head.ptr] => by_head2[n] = 0 \/ HeadTaken(n)'
    BY <1>w, <1>4, <1>7, <2>2, <2>3, <2>5 DEF HeadInv
  <2>7. \A u \in Threads : pc'[u] \in MovesHead =>
          /\ old_ptr'[u].external_count >= 1
          /\ by_head2[old_ptr'[u].ptr] = old_ptr'[u].external_count
          /\ rank2[old_ptr'[u].ptr] < rank2[head.ptr]
          /\ \A v \in Threads : pc'[v] \in MovesHead /\ old_ptr'[v].ptr = old_ptr'[u].ptr => v = u
    BY <1>4, <1>7, <2>1, <2>3 DEF HeadInv
  <2> QED
    BY <1>w, <1>7, <2>4, <2>6, <2>7 DEF HeadInv
<1>15. NextInv(linked2, by_next2)'
  <2>1. \A u \in Threads : /\ pc'[u] \in MovesNext <=> pc[u] \in MovesNext
                           /\ pc[u] \in MovesNext => unlinked'[u] = unlinked[u] /\ old_ptr'[u] = old_ptr[u]
                                 /\ old_next'[u] = old_next[u]
                                 /\ unlinked[u].ptr \in linked /\ old_ptr[u].ptr \in linked
    BY <1>2, Knowing DEF Others, MovesNext, GuardsOld
  <2>2. \A n : NextTaken(n) => NextTaken(n)'
    BY <2>1 DEF NextTaken
  <2>3. NextInv(linked, by_next)
    BY DEF MemoryInv, Listed
  <2>4. ASSUME NEW p \in linked2, next'[p].ptr # Null
        PROVE  next'[p].external_count >= 1 /\ by_next2[next'[p].ptr] = next'[p].external_count
    <3>1. CASE p = o
      BY <3>1, <1>7, <1>8, CountedFields
    <3>2. CASE p # o
      <4>1. p \in linked /\ next'[p] = next[p]
        BY <1>w, <3>2, <2>4, <1>8
      <4>2. next[p].ptr \in linked
        BY <4>1, <2>4 DEF MemoryInv, Listed, ListInv
      <4> QED
        BY <4>1, <4>2, <2>3, <2>4, <1>7 DEF NextInv
    <3> QED
      BY <3>1, <3>2
  <2>5. \A n \in linked : LinkedTo(linked, n) => LinkedTo(linked2, n)'
    BY <1>0, <1>w, <1>1, <1>8, NullAssumption DEF LinkedTo
  <2>6. LinkedTo(linked2, m)'
    BY <1>w, <1>3, <1>8 DEF LinkedTo
  <2>7. \A n \in linked2 : by_next2[n] = 0 \/ LinkedTo(linked2, n)' \/ NextTaken(n)'
    BY <1>w, <1>7, <2>2, <2>3, <2>5, <2>6 DEF NextInv
  <2>8. \A u \in Threads : pc[u] \in MovesNext => old_ptr[u].ptr # o
    BY <1>0, <2>3, CountedFields DEF NextInv
  <2>9. \A u \in Threads : pc'[u] \in MovesNext =>
          /\ unlinked'[u].external_count >= 1
          /\ by_next2[unlinked'[u].ptr] = unlinked'[u].external_count
          /\ unlinked'[u].ptr = old_next'[u].ptr
          /\ next'[old_ptr'[u].ptr] = Counted(1, Null)
          /\ \A v \in Threads : pc'[v] \in MovesNext /\ unlinked'[v].ptr = unlinked'[u].ptr => v = u
    BY <1>7, <1>8, <2>1, <2>3, <2>8 DEF NextInv
  <2> QED
    BY <1>7, <2>4, <2>7, <2>9 DEF NextInv
<1>16. BalanceInv(linked2, by_tail2, by_head2, by_next2)'
  <2>1. \A x : Held(x)' = Held(x)
    BY <1>2, HeldSame
  <2>2. Held(m) = 0
    BY <1>3, HeldNone DEF MemoryInv, Listed
  <2>3. ASSUME NEW x \in linked
        PROVE  /\ Outstanding(x, by_tail2, by_head2, by_next2) = Outstanding(x, by_tail, by_head, by_next)
               /\ Pointers(x, by_tail2, by_head2, by_next2) = Pointers(x, by_tail, by_head, by_next)
               /\ internal_count'[x] = internal_count[x] /\ external_counters'[x] = external_counters[x]
    <3>1. by_tail2[x] = by_tail[x] /\ by_head2[x] = by_head[x] /\ by_next2[x] = by_next[x]
      BY <1>7
    <3> QED
      BY <3>1, <1>1 DEF Outstanding, Pointers
  <2>4. /\ Outstanding(m, by_tail2, by_head2, by_next2) = 0
        /\ Pointers(m, by_tail2, by_head2, by_next2) = 3
        /\ internal_count'[m] = 0 /\ external_counters'[m] = 3
    BY <1>3, <1>7 DEF Outstanding, Pointers, References, Pointer
  <2>5. (0 + 0 - 0) % Wrap = 0
    BY WrapValue, SMT
  <2>6. (internal_count'[m] + Outstanding(m, by_tail2, by_head2, by_next2) - Held(m)') % Wrap = 0
    BY <2>1, <2>2, <2>4, <2>5
  <2>7. BalanceInv(linked, by_tail, by_head, by_next)
    BY DEF MemoryInv
  <2>8. ASSUME NEW x \in linked
        PROVE  /\ (internal_count'[x] + Outstanding(x, by_tail2, by_head2, by_next2) - Held(x)') % Wrap = 0
               /\ external_counters'[x] = Pointers(x, by_tail2, by_head2, by_next2)
               /\ internal_count'[x] # 0 \/ external_counters'[x] # 0
    BY <2>1, <2>3, <2>7 DEF BalanceInv
  <2>9. /\ (internal_count'[m] + Outstanding(m, by_tail2, by_head2, by_next2) - Held(m)') % Wrap = 0
        /\ external_counters'[m] = Pointers(m, by_tail2, by_head2, by_next2)
        /\ internal_count'[m] # 0 \/ external_counters'[m] # 0
    BY <2>4, <2>6
  <2> QED
    BY <1>w, <2>8, <2>9, Zenon DEF BalanceInv
<1>17. LocalInv(rank2)'
  <2>1. Forward(t, rank, rank2, linked)
    <3>1. \A n \in linked : next'[n].ptr = next[n].ptr \/ next[n].ptr = Null
      BY <1>8
    <3>2. /\ rank[head.ptr] <= rank2[head'.ptr] /\ rank[tail.ptr] <= rank2[tail'.ptr]
          /\ rank2[head'.ptr] \in Int /\ rank2[tail'.ptr] \in Int
      BY <1>4, <1>7
    <3>3. \A n \in linked : data'[n] = data[n]
      BY <1>1
    <3> QED
      BY <3>1, <3>2, <3>3, <1>7 DEF Forward
  <2>2. LocalOf(rank, t)
    BY DEF MemoryInv, LocalInv
  <2>3. /\ rank2[o] <= rank2[tail.ptr] /\ data'[o] = data[o]
        /\ rank2[o] >= rank2[head.ptr] => rank[o] >= rank[head.ptr]
    BY <1>1, <1>3, <1>4, <1>6, <1>7
  <2>4. LocalOf(rank2, t)'
    BY <1>0, <1>2, <1>3, <1>8, <2>2, <2>3, CountedFields DEF LocalOf, GuardsOld, GuardsNext, PopPc, PushPc
  <2> QED
    BY <2>1, <2>4, LocalFrame
<1> QED
  BY <1>0, <1>w, <1>9, <1>10, <1>11, <1>12, <1>13, <1>14, <1>15, <1>16, <1>17 DEF Listed

LEMMA PushLinkStep ==
    ASSUME TypeOK, NEW rank, NEW linked, NEW by_tail, NEW by_head, NEW by_next,
           MemoryInv(rank, linked, by_tail, by_head, by_next), NEW t \in Threads, Others(t), PushLink(t),
           next[old_ptr[t].ptr] = NullPtr
    PROVE  Memory'
<1>0. PICK o, m : o = old_ptr[t].ptr /\ m = new_next[t].ptr
  OBVIOUS
<1>1. /\ pc[t] = "push_link" /\ pc'[t] = "push_tail" /\ todo' = todo /\ tail' = tail /\ head' = head
      /\ next' = [next EXCEPT ![o] = new_next[t]] /\ data' = data /\ internal_count' = internal_count
      /\ external_counters' = external_counters /\ live' = live
      /\ old_next'[t] = new_next[t] /\ old_ptr' = old_ptr
  BY <1>0 DEF PushLink, Goto, TypeOK
<1>2. linked \subseteq live /\ linked \subseteq Addr /\ live \subseteq Addr /\ PrivateInv(linked)
  BY DEF MemoryInv, PrivateInv, TypeOK
<1>3. pc[t] \in PrivatePc /\ pc'[t] \notin PrivatePc /\ GuardsOld(t)
  BY <1>1 DEF PrivatePc, PushPc, GuardsOld
<1>4. o \in linked /\ m \in live \ linked
  BY <1>0, <1>3, Knowing
<1>5. next'[o] = new_next[t] /\ \A x \in live : x # o => next'[x] = next[x]
  BY <1>1, <1>2, <1>4 DEF TypeOK
<1>6. PICK rank2, linked2, by_tail2, by_head2, by_next2 :
          /\ linked2 = linked \cup {m}
          /\ Listed(rank2, linked2, by_tail2, by_head2, by_next2)'
          /\ BalanceInv(linked2, by_tail2, by_head2, by_next2)'
          /\ LocalInv(rank2)'
  <2>1. pc[t] \in {"push_link", "push_help"} /\ pc'[t] \in {"push_tail", "push_help_tail"} /\ next[o] = NullPtr
    BY <1>0, <1>1
  <2>2. \A x \in live : /\ data'[x] = data[x] /\ internal_count'[x] = internal_count[x]
                        /\ external_counters'[x] = external_counters[x]
    BY <1>1
  <2> QED
    BY <2>1, <2>2, <1>0, <1>1, <1>5, LinkStep
<1>8. PrivateInv(linked2)'
  <2>1. linked2 \subseteq live' /\ live' \ linked2 = (live \ linked) \ {new_next[t].ptr}
    BY <1>0, <1>1, <1>2, <1>4, <1>6
  <2>2. \A n \in (live \ linked) \ {new_next[t].ptr} :
                /\ next'[n] = next[n] /\ data'[n] = data[n]
                /\ internal_count'[n] = internal_count[n]
                /\ external_counters'[n] = external_counters[n]
    BY <1>1, <1>4, <1>5
  <2> QED
    BY <2>1, <2>2, <1>2, <1>3, PrivateLeaves
<1> QED
  BY <1>6, <1>8 DEF MemoryInv, Memory

LEMMA PushHelpLinkStep ==
    ASSUME TypeOK, NEW rank, NEW linked, NEW by_tail, NEW by_head, NEW by_next,
           MemoryInv(rank, linked, by_tail, by_head, by_next), NEW t \in Threads, Others(t), PushHelpLink(t)
    PROVE  Memory'
<1>0. PICK o, m : o = old_ptr[t].ptr /\ m = new_next[t].ptr
  OBVIOUS
<1>1. /\ pc[t] = "push_help" /\ pc'[t] = "push_help_tail" /\ todo' = todo /\ tail' = tail /\ head' = head
      /\ next[o] = NullPtr /\ old_next'[t] = new_next[t] /\ old_ptr' = old_ptr
  BY <1>0 DEF PushHelpLink, Goto, TypeOK
<1>2. linked \subseteq live /\ linked \subseteq Addr /\ live \subseteq Addr /\ PrivateInv(linked)
  BY DEF MemoryInv, PrivateInv, TypeOK
<1>3. pc[t] \in PrivatePc /\ pc'[t] \in PrivatePc /\ GuardsOld(t)
  BY <1>1 DEF PrivatePc, PushPc, GuardsOld
<1>4. o \in linked /\ m \in live \ linked /\ new_next[t] = Counted(1, m)
  BY <1>0, <1>2, <1>3, Knowing DEF PrivateInv
<1>5. PICK n \in Addr \ live :
          /\ Constructed(n)
          /\ next' = [next EXCEPT ![n] = NullPtr, ![o] = new_next[t]]
          /\ new_next' = [new_next EXCEPT ![t].ptr = n]
  BY <1>0 DEF PushHelpLink
<1>6. /\ live' = live \cup {n} /\ next'[o] = new_next[t] /\ next'[n] = NullPtr
      /\ data'[n] = NoValue /\ internal_count'[n] = 0 /\ external_counters'[n] = 3
      /\ \A x \in live : x # o => next'[x] = next[x]
      /\ \A x \in live : /\ data'[x] = data[x] /\ internal_count'[x] = internal_count[x]
                         /\ external_counters'[x] = external_counters[x]
  <2>1. n # o /\ o \in Addr
    BY <1>2, <1>4
  <2> QED
    BY <2>1, <1>2, <1>5 DEF Constructed, TypeOK
<1>7. new_next'[t] = Counted(1, n)
  <2>1. new_next'[t] = [new_next[t] EXCEPT !.ptr = n]
    BY <1>5 DEF TypeOK
  <2> QED
    BY <2>1, <1>4 DEF Counted
<1>8. PICK rank2, linked2, by_tail2, by_head2, by_next2 :
          /\ linked2 = linked \cup {m}
          /\ Listed(rank2, linked2, by_tail2, by_head2, by_next2)'
          /\ BalanceInv(linked2, by_tail2, by_head2, by_next2)'
          /\ LocalInv(rank2)'
  <2>1. pc[t] \in {"push_link", "push_help"} /\ pc'[t] \in {"push_tail", "push_help_tail"}
    BY <1>1
  <2> QED
    BY <2>1, <1>0, <1>1, <1>6, LinkStep
<1>10. PrivateInv(linked2)'
  <2>1. linked2 \subseteq live' /\ live' \ linked2 = {n} \cup ((live \ linked)
                \ (IF pc[t] \in PrivatePc THEN {new_next[t].ptr} ELSE {}))
    BY <1>0, <1>2, <1>3, <1>4, <1>5, <1>6, <1>8
  <2>2. \A x \in (live \ linked) \ (IF pc[t] \in PrivatePc THEN {new_next[t].ptr} ELSE {}) :
                /\ next'[x] = next[x] /\ data'[x] = data[x]
                /\ internal_count'[x] = internal_count[x]
                /\ external_counters'[x] = external_counters[x]
    BY <1>4, <1>6
  <2> QED
    BY <2>1, <2>2, <1>2, <1>3, <1>5, <1>6, <1>7, PrivateEnters
<1> QED
  BY <1>8, <1>10 DEF MemoryInv, Memory

-----------------------------------------------------------------------------
LEMMA TailMoves ==
    ASSUME TypeOK, NEW rank, NEW linked, NEW by_tail, NEW by_head, NEW by_next,
           MemoryInv(rank, linked, by_tail, by_head, by_next), NEW t \in Threads, Others(t),
           PushTail(t) \/ PushHelpTail(t), tail.ptr = old_ptr[t].ptr
    PROVE  MemoryInv(rank, linked, by_tail, by_head, by_next)'
<1>0. PICK o, s : o = tail.ptr /\ s = old_next[t].ptr
  OBVIOUS
<1>1. /\ pc[t] \in {"push_tail", "push_help_tail"} /\ pc'[t] \in {"push_free", "push_help_free"}
      /\ pc'[t] \in PrivatePc <=> pc[t] \in PrivatePc
      /\ todo' = todo /\ tail' = Counted(1, s) /\ tail'.ptr = s /\ tail'.external_count = 1 /\ head' = head
      /\ unlinked'[t] = tail /\ old_ptr' = old_ptr /\ old_next' = old_next /\ new_next' = new_next
      /\ next' = next /\ data' = data /\ internal_count' = internal_count
      /\ external_counters' = external_counters /\ live' = live
  BY <1>0, CountedFields DEF PushTail, PushHelpTail, SetNewTail, Goto, TypeOK, nodeVars, PrivatePc, PushPc
<1>2. linked \subseteq live /\ linked \subseteq Addr /\ PrivateInv(linked)
  BY DEF MemoryInv, PrivateInv, TypeOK
<1>3. /\ pc'[t] \in MovesTail /\ pc'[t] \notin MovesHead \cup MovesNext
      /\ pc[t] \notin MovesTail \cup MovesHead \cup MovesNext
      /\ GuardsOld(t) /\ GuardsOld(t)' /\ ~GuardsNext(t) /\ ~GuardsNext(t)'
  BY <1>1 DEF MovesTail, MovesHead, MovesNext, GuardsOld, GuardsNext
<1>4. /\ rank \in [Addr -> Int] /\ head.ptr \in linked /\ tail.ptr \in linked /\ o \in linked
      /\ rank[head.ptr] <= rank[tail.ptr] /\ \A x, y \in linked : rank[x] = rank[y] => x = y
      /\ \A x \in linked : rank[x] <= rank[o] + 1
      /\ \A x \in linked : rank[x] \in Int
  BY <1>0, <1>2 DEF MemoryInv, Listed, OrderInv
<1>5. LocalOf(rank, t)
  BY DEF MemoryInv, LocalInv
<1>6. data[o] # NoValue /\ next[o].ptr = s /\ s # Null
  <2>1. rank[o] >= rank[head.ptr]
    BY <1>0, <1>4
  <2> QED
    BY <2>1, <1>0, <1>1, <1>5 DEF LocalOf
<1>7. s \in linked /\ rank[s] = rank[o] + 1
  BY <1>4, <1>6 DEF MemoryInv, Listed, ListInv
<1>8. PrivateInv(linked)'
  BY <1>1, <1>2, PrivateFrame
<1>9. HoldsInv(linked)'
  <2>1. old_ptr'[t].ptr \in linked
    BY <1>0, <1>1, <1>4
  <2> QED
    BY <2>1, <1>3, HoldsFrame DEF MemoryInv, Listed
<1>10. OrderInv(rank, linked)'
  BY <1>0, <1>1, <1>4, <1>7 DEF OrderInv
<1>11. LagInv(rank, linked)'
  BY <1>1, <1>4, <1>7 DEF LagInv
<1>12. ListInv(rank, linked)'
  <2>1. \A x : Uncut(x) => Uncut(x)'
    BY <1>1 DEF Uncut, Others
  <2>2. ListInv(rank, linked)
    BY DEF MemoryInv, Listed
  <2>3. \A x \in linked : rank[x] < rank[s] => x = o \/ rank[x] < rank[o]
    BY <1>4, <1>7
  <2> QED
    BY <2>1, <2>2, <2>3, <1>0, <1>1, <1>6 DEF ListInv
<1>13. TailInv(rank, linked, by_tail)'
  <2>1. \A u \in Threads : u # t => /\ pc'[u] \in MovesTail <=> pc[u] \in MovesTail
                                    /\ pc[u] \in MovesTail => unlinked'[u] = unlinked[u] /\ old_ptr'[u] = old_ptr[u]
    BY DEF Others
  <2>2. \A n : TailTaken(n) => TailTaken(n)'
    BY <2>1, <1>3 DEF TailTaken
  <2>3. TailTaken(o)'
    BY <1>0, <1>1, <1>3 DEF TailTaken
  <2>4. TailInv(rank, linked, by_tail)
    BY DEF MemoryInv, Listed
  <2>5. by_tail[s] = 1 /\ \A n \in linked : ~ (rank[n] > rank[s])
    <3>1. rank[s] > rank[tail.ptr]
      BY <1>0, <1>4, <1>7
    <3> QED
      BY <3>1, <2>4, <1>4, <1>7 DEF TailInv
  <2>6. \A n \in linked : rank[n] < rank[s] => by_tail[n] = 0 \/ TailTaken(n)'
    <3>1. \A x \in linked : rank[x] < rank[s] => x = o \/ rank[x] < rank[o]
      BY <1>4, <1>7
    <3> QED
      BY <3>1, <2>2, <2>3, <2>4, <1>0 DEF TailInv
  <2>7. \A u \in Threads : u # t /\ pc'[u] \in MovesTail =>
          /\ unlinked'[u].external_count >= 1
          /\ by_tail[unlinked'[u].ptr] = unlinked'[u].external_count
          /\ unlinked'[u].ptr = old_ptr'[u].ptr
          /\ unlinked'[u].ptr # o
          /\ rank[old_ptr'[u].ptr] < rank[s]
          /\ \A v \in Threads : v # t /\ pc'[v] \in MovesTail /\ unlinked'[v].ptr = unlinked'[u].ptr => v = u
    <3>1. ASSUME NEW u \in Threads, pc[u] \in MovesTail
          PROVE  unlinked[u].ptr # o /\ rank[old_ptr[u].ptr] < rank[s]
      <4>1. unlinked[u].ptr \in linked /\ old_ptr[u].ptr = unlinked[u].ptr /\ rank[old_ptr[u].ptr] < rank[o]
        BY <3>1, <2>4, <1>0, Knowing DEF TailInv
      <4> QED
        BY <4>1, <1>4, <1>7
    <3> QED
      BY <3>1, <2>1, <2>4 DEF TailInv
  <2>8. /\ unlinked'[t].external_count >= 1
        /\ by_tail[unlinked'[t].ptr] = unlinked'[t].external_count
        /\ unlinked'[t].ptr = old_ptr'[t].ptr
        /\ unlinked'[t].ptr = o
        /\ rank[old_ptr'[t].ptr] < rank[s]
    BY <2>4, <1>0, <1>1, <1>4, <1>7 DEF TailInv
  <2>9. \A u \in Threads : pc'[u] \in MovesTail =>
          /\ unlinked'[u].external_count >= 1
          /\ by_tail[unlinked'[u].ptr] = unlinked'[u].external_count
          /\ unlinked'[u].ptr = old_ptr'[u].ptr
          /\ rank[old_ptr'[u].ptr] < rank[s]
          /\ \A v \in Threads : pc'[v] \in MovesTail /\ unlinked'[v].ptr = unlinked'[u].ptr => v = u
    BY <2>7, <2>8
  <2>10. by_tail \in [Addr -> Nat]
    BY <2>4 DEF TailInv
  <2> QED
    BY <2>5, <2>6, <2>9, <2>10, <1>1 DEF TailInv
<1>14. HeadInv(rank, linked, by_head)' /\ NextInv(linked, by_next)'
  BY <1>1, <1>3, HeadFrame, NextFrame DEF MemoryInv, Listed
<1>15. BalanceInv(linked, by_tail, by_head, by_next)'
  <2>1. \A x : Held(x)' = Held(x)
    BY <1>1, <1>3, HeldSame
  <2> QED
    BY <2>1, <1>1, BalanceFrame DEF MemoryInv
<1>16. LocalInv(rank)'
  <2>1. Forward(t, rank, rank, linked)
    BY <1>0, <1>1, <1>4, <1>7 DEF Forward
  <2>2. rank[o] <= rank[s]
    BY <1>4, <1>7
  <2>3. LocalOf(rank, t)'
    BY <2>2, <1>0, <1>1, <1>3, <1>5 DEF LocalOf, PopPc, PushPc
  <2> QED
    BY <2>1, <2>3, LocalFrame
<1> QED
  BY <1>8, <1>9, <1>10, <1>11, <1>12, <1>13, <1>14, <1>15, <1>16 DEF MemoryInv, Listed

LEMMA HeadMoves ==
    ASSUME TypeOK, NEW rank, NEW linked, NEW by_tail, NEW by_head, NEW by_next,
           MemoryInv(rank, linked, by_tail, by_head, by_next), NEW t \in Threads, Others(t),
           PopMove(t), head = old_ptr[t]
    PROVE  MemoryInv(rank, linked, by_tail, by_head, by_next)'
<1>0. PICK o, s : o = head.ptr /\ s = old_next[t].ptr
  OBVIOUS
<1>1. /\ pc[t] = "pop_move" /\ pc'[t] = "pop_take"
      /\ todo' = todo /\ head' = Counted(1, s) /\ head'.ptr = s /\ head'.external_count = 1 /\ tail' = tail
      /\ old_ptr' = old_ptr /\ old_next' = old_next /\ new_next' = new_next /\ unlinked' = unlinked
      /\ next' = next /\ data' = data /\ internal_count' = internal_count
      /\ external_counters' = external_counters /\ live' = live
  BY <1>0, CountedFields DEF PopMove, Goto, TypeOK, nodeVars, localVars
<1>2. linked \subseteq live /\ linked \subseteq Addr /\ PrivateInv(linked)
  BY DEF MemoryInv, PrivateInv, TypeOK
<1>3. /\ pc'[t] \in MovesHead /\ pc'[t] \notin MovesTail \cup MovesNext \cup PrivatePc
      /\ pc[t] \notin MovesTail \cup MovesHead \cup MovesNext \cup PrivatePc
      /\ GuardsOld(t) /\ GuardsOld(t)' /\ GuardsNext(t) /\ GuardsNext(t)'
  BY <1>1 DEF MovesTail, MovesHead, MovesNext, GuardsOld, GuardsNext, PrivatePc, PushPc
<1>4. /\ rank \in [Addr -> Int] /\ head.ptr \in linked /\ tail.ptr \in linked /\ o \in linked /\ s \in linked
      /\ rank[head.ptr] <= rank[tail.ptr] /\ \A x, y \in linked : rank[x] = rank[y] => x = y
      /\ \A x \in linked : rank[x] \in Int
  BY <1>0, <1>2, <1>3, Knowing DEF MemoryInv, Listed, OrderInv
<1>5. LocalOf(rank, t)
  BY DEF MemoryInv, LocalInv
<1>6. rank[s] = rank[o] + 1 /\ rank[s] <= rank[tail.ptr] /\ rank[o] < rank[tail.ptr]
  <2>1. rank[s] = rank[o] + 1 /\ rank[o] < rank[tail.ptr]
    BY <1>0, <1>1, <1>3, <1>5 DEF LocalOf
  <2> QED
    BY <2>1, <1>4
<1>7. ListInv(rank, linked) /\ HeadInv(rank, linked, by_head)
  BY DEF MemoryInv, Listed
<1>8. data[o] # NoValue /\ next[o].ptr = s
  <2>1. data[o] # NoValue
    BY <1>0, <1>4, <1>6, <1>7 DEF ListInv
  <2>2. ~ (rank[tail.ptr] <= rank[o]) /\ ~ (rank[o] < rank[head.ptr])
    BY <1>0, <1>4, <1>6
  <2>3. next[o].ptr # Null
    BY <2>2, <1>4, <1>7 DEF ListInv
  <2>4. next[o].ptr \in linked /\ rank[next[o].ptr] = rank[s]
    BY <2>3, <1>4, <1>6, <1>7 DEF ListInv
  <2> QED
    BY <2>1, <2>4, <1>4
<1>9. PrivateInv(linked)' /\ LagInv(rank, linked)' /\ TailInv(rank, linked, by_tail)' /\ NextInv(linked, by_next)'
  BY <1>1, <1>2, <1>3, PrivateFrame, LagFrame, TailFrame, NextFrame DEF MemoryInv, Listed
<1>10. HoldsInv(linked)'
  <2>1. old_ptr'[t].ptr \in linked /\ old_next'[t].ptr \in linked
    BY <1>0, <1>1, <1>4
  <2> QED
    BY <2>1, <1>3, HoldsFrame DEF MemoryInv, Listed
<1>11. OrderInv(rank, linked)'
  BY <1>1, <1>4, <1>6 DEF MemoryInv, Listed, OrderInv
<1>12. \A x \in linked : rank[x] < rank[s] => x = o \/ rank[x] < rank[o]
  BY <1>4, <1>6
<1>13. ListInv(rank, linked)'
  <2>1. \A x : Uncut(x) => Uncut(x)'
    BY <1>1 DEF Uncut, Others
  <2>2. Uncut(o)'
    BY <1>0, <1>1 DEF Uncut
  <2>3. \A x \in linked : /\ rank[x] < rank[o] => rank[x] < rank[s]
                          /\ rank[s] <= rank[x] => rank[o] <= rank[x]
    BY <1>4, <1>6
  <2> QED
    BY <2>1, <2>2, <2>3, <1>0, <1>1, <1>7, <1>12 DEF ListInv
<1>14. HeadInv(rank, linked, by_head)'
  <2>1. \A u \in Threads : u # t => /\ pc'[u] \in MovesHead <=> pc[u] \in MovesHead
                                    /\ pc[u] \in MovesHead => old_ptr'[u] = old_ptr[u]
    BY DEF Others
  <2>2. \A n : HeadTaken(n) => HeadTaken(n)'
    BY <2>1, <1>3 DEF HeadTaken
  <2>3. HeadTaken(o)'
    BY <1>0, <1>1, <1>3 DEF HeadTaken
  <2>5. by_head[s] = 1 /\ \A n \in linked : rank[n] > rank[s] => by_head[n] = 1
    <3>1. rank[s] > rank[head.ptr] /\ \A n \in linked : rank[n] > rank[s] => rank[n] > rank[head.ptr]
      BY <1>0, <1>4, <1>6
    <3> QED
      BY <3>1, <1>4, <1>7 DEF HeadInv
  <2>6. \A n \in linked : rank[n] < rank[s] => by_head[n] = 0 \/ HeadTaken(n)'
    BY <1>12, <2>2, <2>3, <1>7, <1>0 DEF HeadInv
  <2>7. \A u \in Threads : u # t /\ pc'[u] \in MovesHead =>
          /\ old_ptr'[u].external_count >= 1
          /\ by_head[old_ptr'[u].ptr] = old_ptr'[u].external_count
          /\ old_ptr'[u].ptr # o
          /\ rank[old_ptr'[u].ptr] < rank[s]
          /\ \A v \in Threads : v # t /\ pc'[v] \in MovesHead /\ old_ptr'[v].ptr = old_ptr'[u].ptr => v = u
    <3>1. ASSUME NEW u \in Threads, pc[u] \in MovesHead
          PROVE  old_ptr[u].ptr # o /\ rank[old_ptr[u].ptr] < rank[s]
      <4>1. old_ptr[u].ptr \in linked /\ rank[old_ptr[u].ptr] < rank[o]
        BY <3>1, <1>0, <1>7, Knowing DEF HeadInv, MovesHead, GuardsOld
      <4> QED
        BY <4>1, <1>4, <1>6
    <3> QED
      BY <3>1, <2>1, <1>7 DEF HeadInv
  <2>8. /\ old_ptr'[t].external_count >= 1
        /\ by_head[old_ptr'[t].ptr] = old_ptr'[t].external_count
        /\ old_ptr'[t].ptr = o
        /\ rank[old_ptr'[t].ptr] < rank[s]
    BY <1>0, <1>1, <1>4, <1>6, <1>7 DEF HeadInv
  <2>9. \A u \in Threads : pc'[u] \in MovesHead =>
          /\ old_ptr'[u].external_count >= 1
          /\ by_head[old_ptr'[u].ptr] = old_ptr'[u].external_count
          /\ rank[old_ptr'[u].ptr] < rank[s]
          /\ \A v \in Threads : pc'[v] \in MovesHead /\ old_ptr'[v].ptr = old_ptr'[u].ptr => v = u
    BY <2>7, <2>8
  <2>10. by_head \in [Addr -> Nat]
    BY <1>7 DEF HeadInv
  <2> QED
    BY <2>5, <2>6, <2>9, <2>10, <1>1 DEF HeadInv
<1>15. BalanceInv(linked, by_tail, by_head, by_next)'
  <2>1. \A x : Held(x)' = Held(x)
    BY <1>1, <1>3, HeldSame
  <2> QED
    BY <2>1, <1>1, BalanceFrame DEF MemoryInv
<1>16. LocalInv(rank)'
  <2>1. Forward(t, rank, rank, linked)
    BY <1>0, <1>1, <1>4, <1>6 DEF Forward
  <2>2. rank[o] <= rank[s]
    BY <1>4, <1>6
  <2>3. LocalOf(rank, t)'
    BY <2>2, <1>0, <1>1, <1>3, <1>5, <1>8 DEF LocalOf, PopPc, PushPc
  <2> QED
    BY <2>1, <2>3, LocalFrame
<1> QED
  BY <1>9, <1>10, <1>11, <1>13, <1>14, <1>15, <1>16 DEF MemoryInv, Listed

LEMMA PopUnlinkStep ==
    ASSUME TypeOK, NEW rank, NEW linked, NEW by_tail, NEW by_head, NEW by_next,
           MemoryInv(rank, linked, by_tail, by_head, by_next), NEW t \in Threads, Others(t), PopUnlink(t)
    PROVE  MemoryInv(rank, linked, by_tail, by_head, by_next)'
<1>0. PICK o, s : o = old_ptr[t].ptr /\ s = old_next[t].ptr
  OBVIOUS
<1>1. pc[t] = "pop_unlink" /\ o \in linked /\ s \in linked /\ o \in Addr /\ s # Null
  <2>1. pc[t] = "pop_unlink"
    BY DEF PopUnlink, Goto
  <2> QED
    BY <2>1, <1>0, Knowing, NullAssumption DEF GuardsOld, GuardsNext
<1>2. linked \subseteq live /\ linked \subseteq Addr /\ PrivateInv(linked)
  BY DEF MemoryInv, PrivateInv, TypeOK
<1>3. /\ pc'[t] = "pop_free_head" /\ todo' = todo /\ head' = head /\ tail' = tail
      /\ old_ptr' = old_ptr /\ old_next' = old_next /\ new_next' = new_next /\ taken' = taken
      /\ unlinked'[t] = next[o] /\ next'[o] = Counted(1, Null) /\ \A x \in Addr : x # o => next'[x] = next[x]
      /\ data' = data /\ internal_count' = internal_count
      /\ external_counters' = external_counters /\ live' = live
  BY <1>0, <1>1 DEF PopUnlink, Goto, TypeOK
<1>4. /\ pc[t] \in MovesHead /\ pc'[t] \in MovesHead /\ pc'[t] \in MovesNext
      /\ pc'[t] \notin MovesTail \cup PrivatePc
      /\ pc[t] \notin MovesTail \cup MovesNext \cup PrivatePc
      /\ GuardsOld(t) /\ GuardsOld(t)' /\ GuardsNext(t) /\ GuardsNext(t)'
  BY <1>1, <1>3 DEF MovesTail, MovesHead, MovesNext, GuardsOld, GuardsNext, PrivatePc, PushPc
<1>5. LocalOf(rank, t)
  BY DEF MemoryInv, LocalInv
<1>6. next[o].ptr = s /\ rank[o] < rank[head.ptr] /\ taken[t] # NoValue
  BY <1>0, <1>1, <1>4, <1>5 DEF LocalOf, MemoryInv, Listed, HeadInv
<1>7. /\ \A p \in linked : next[p].ptr = s => p = o
      /\ \A u \in Threads : pc[u] \in MovesNext =>
            /\ unlinked[u].ptr # s /\ old_ptr[u].ptr \in linked /\ old_ptr[u].ptr # o
  BY <1>1, <1>6, OneLink
<1>8. PrivateInv(linked)'
  <2>1. \A n \in live \ linked : next'[n] = next[n]
    BY <1>1, <1>3 DEF TypeOK
  <2> QED
    BY <2>1, <1>2, <1>3, <1>4, PrivateFrame
<1>9. OrderInv(rank, linked)' /\ LagInv(rank, linked)' /\ TailInv(rank, linked, by_tail)'
      /\ HeadInv(rank, linked, by_head)'
  BY <1>1, <1>3, <1>4, OrderFrame, LagFrame, TailFrame, HeadFrame DEF MemoryInv, Listed
<1>10. HoldsInv(linked)'
  <2>1. old_ptr'[t].ptr \in linked /\ old_next'[t].ptr \in linked
    BY <1>0, <1>1, <1>3
  <2> QED
    BY <2>1, HoldsFrame DEF MemoryInv, Listed
<1>11. ListInv(rank, linked)'
  <2>1. \A x : x # o /\ Uncut(x) => Uncut(x)'
    BY <1>0 DEF Uncut, Others
  <2>2. ListInv(rank, linked)
    BY DEF MemoryInv, Listed
  <2>3. ASSUME NEW x \in linked, x # o
        PROVE  /\ next'[x].ptr # Null => next'[x].ptr \in linked /\ rank[next'[x].ptr] = rank[x] + 1
               /\ next'[x] = NullPtr => \A m \in linked : rank[m] <= rank[x]
               /\ next'[x].ptr = Null /\ next'[x] # NullPtr => rank[x] < rank[head'.ptr]
               /\ rank[x] < rank[head'.ptr] => next'[x] = Counted(1, Null) \/ Uncut(x)'
               /\ rank[head'.ptr] <= rank[x] /\ rank[x] < rank[tail'.ptr] => data'[x] # NoValue
    BY <2>1, <2>2, <2>3, <1>2, <1>3 DEF ListInv
  <2>4. /\ next'[o].ptr = Null /\ next'[o] # NullPtr
        /\ ~ (rank[head.ptr] <= rank[o])
    BY <1>1, <1>2, <1>3, <1>6, CountedFields DEF MemoryInv, Listed, OrderInv
  <2> QED
    BY <2>3, <2>4, <1>3, <1>6 DEF ListInv
<1>12. NextInv(linked, by_next)'
  <2>1. \A u \in Threads : u # t => /\ pc'[u] \in MovesNext <=> pc[u] \in MovesNext
                                    /\ pc[u] \in MovesNext => unlinked'[u] = unlinked[u] /\ old_ptr'[u] = old_ptr[u]
                                          /\ old_next'[u] = old_next[u]
    BY DEF Others
  <2>2. \A n : NextTaken(n) => NextTaken(n)'
    BY <2>1, <1>4 DEF NextTaken
  <2>3. NextTaken(s)'
    BY <1>3, <1>4, <1>6 DEF NextTaken
  <2>4. NextInv(linked, by_next)
    BY DEF MemoryInv, Listed
  <2>5. ASSUME NEW p \in linked, next'[p].ptr # Null
        PROVE  next'[p].external_count >= 1 /\ by_next[next'[p].ptr] = next'[p].external_count
    <3>1. p # o /\ next'[p] = next[p]
      BY <2>5, <1>2, <1>3, CountedFields
    <3> QED
      BY <3>1, <2>4, <2>5 DEF NextInv
  <2>6. \A n \in linked : LinkedTo(linked, n) => n = s \/ LinkedTo(linked, n)'
    BY <1>2, <1>3, <1>6 DEF LinkedTo
  <2>7. \A n \in linked : by_next[n] = 0 \/ LinkedTo(linked, n)' \/ NextTaken(n)'
    BY <2>2, <2>3, <2>4, <2>6 DEF NextInv
  <2>8. \A u \in Threads : u # t /\ pc'[u] \in MovesNext =>
          /\ unlinked'[u].external_count >= 1
          /\ by_next[unlinked'[u].ptr] = unlinked'[u].external_count
          /\ unlinked'[u].ptr = old_next'[u].ptr
          /\ next'[old_ptr'[u].ptr] = Counted(1, Null)
          /\ unlinked'[u].ptr # s
          /\ \A v \in Threads : v # t /\ pc'[v] \in MovesNext /\ unlinked'[v].ptr = unlinked'[u].ptr => v = u
    BY <1>2, <1>3, <1>7, <2>1, <2>4 DEF NextInv
  <2>9. /\ unlinked'[t].external_count >= 1
        /\ by_next[unlinked'[t].ptr] = unlinked'[t].external_count
        /\ unlinked'[t].ptr = old_next'[t].ptr
        /\ next'[old_ptr'[t].ptr] = Counted(1, Null)
        /\ unlinked'[t].ptr = s
    BY <1>0, <1>1, <1>3, <1>6, <2>4 DEF NextInv
  <2>10. \A u \in Threads : pc'[u] \in MovesNext =>
          /\ unlinked'[u].external_count >= 1
          /\ by_next[unlinked'[u].ptr] = unlinked'[u].external_count
          /\ unlinked'[u].ptr = old_next'[u].ptr
          /\ next'[old_ptr'[u].ptr] = Counted(1, Null)
          /\ \A v \in Threads : pc'[v] \in MovesNext /\ unlinked'[v].ptr = unlinked'[u].ptr => v = u
    BY <2>8, <2>9
  <2>11. by_next \in [Addr -> Nat]
    BY <2>4 DEF NextInv
  <2> QED
    BY <2>5, <2>7, <2>10, <2>11 DEF NextInv
<1>13. BalanceInv(linked, by_tail, by_head, by_next)'
  <2>1. \A x : Held(x)' = Held(x)
    BY <1>3, <1>4, HeldSame
  <2> QED
    BY <2>1, <1>3, BalanceFrame DEF MemoryInv
<1>14. LocalInv(rank)'
  <2>1. OrderInv(rank, linked)
    BY DEF MemoryInv, Listed
  <2>2. Forward(t, rank, rank, linked)
    <3>1. \A n \in linked : \/ next'[n].ptr = next[n].ptr \/ next[n].ptr = Null
                            \/ (pc[t] = "pop_unlink" /\ old_ptr[t].ptr = n)
      BY <1>0, <1>1, <1>2, <1>3
    <3> QED
      BY <3>1, <2>1, <1>2, <1>3, ForwardFrame
  <2>3. LocalOf(rank, t)'
    BY <1>1, <1>3, <1>4, <1>5, <1>6 DEF LocalOf, PopPc, PushPc
  <2> QED
    BY <2>2, <2>3, LocalFrame
<1> QED
  BY <1>8, <1>9, <1>10, <1>11, <1>12, <1>13, <1>14 DEF MemoryInv, Listed

-----------------------------------------------------------------------------
(* A step that gives counts back to a node, and deletes it if they were the *)
(* last: the counts are in balance again without the node.                  *)
KeepsPrivate(t) ==
    /\ pc'[t] \in PrivatePc <=> pc[t] \in PrivatePc
    /\ new_next'[t] = new_next[t] \/ pc[t] \notin PrivatePc

LEMMA SettleStep ==
    ASSUME TypeOK, NEW rank, NEW linked, NEW by_tail, NEW by_head, NEW by_next,
           MemoryInv(rank, linked, by_tail, by_head, by_next), NEW t \in Threads, Others(t), KeepsPrivate(t),
           NEW n \in linked, NEW r \in Int, NEW c \in Int, Settle(n, r, c),
           NEW by_tail2, NEW by_head2, NEW by_next2,
           Listed(rank, linked, by_tail2, by_head2, by_next2)', LocalInv(rank)',
           Outstanding(n, by_tail2, by_head2, by_next2) + r - Held(n)'
                = Outstanding(n, by_tail, by_head, by_next) - Held(n),
           Pointers(n, by_tail2, by_head2, by_next2) = Pointers(n, by_tail, by_head, by_next) + c,
           \A x \in linked : x # n =>
                /\ Outstanding(x, by_tail2, by_head2, by_next2) = Outstanding(x, by_tail, by_head, by_next)
                /\ Pointers(x, by_tail2, by_head2, by_next2) = Pointers(x, by_tail, by_head, by_next)
                /\ Held(x)' = Held(x)
    PROVE  Memory'
<1>1. linked \subseteq live /\ linked \subseteq Addr /\ live \subseteq Addr /\ PrivateInv(linked)
      /\ BalanceInv(linked, by_tail, by_head, by_next)
  BY DEF MemoryInv, PrivateInv, TypeOK
<1>2. /\ data' = data /\ next' = next
      /\ internal_count' = [internal_count EXCEPT ![n] = AsSigned30(internal_count[n] + r)]
      /\ external_counters' = [external_counters EXCEPT ![n] = AsUnsigned2(external_counters[n] + c)]
      /\ live' = IF internal_count'[n] = 0 /\ external_counters'[n] = 0 THEN live \ {n} ELSE live
  BY <1>1, SettleType
<1>3. internal_count \in [Addr -> InternalCounts] /\ external_counters \in [Addr -> 0 .. 3]
  BY DEF TypeOK
<1>4. /\ internal_count'[n] = AsSigned30(internal_count[n] + r)
      /\ external_counters'[n] = AsUnsigned2(external_counters[n] + c)
      /\ \A x \in Addr : x # n => internal_count'[x] = internal_count[x] /\ external_counters'[x] = external_counters[x]
  BY <1>1, <1>2, <1>3
<1>5. /\ by_tail \in [Addr -> Nat] /\ by_head \in [Addr -> Nat] /\ by_next \in [Addr -> Nat]
      /\ by_tail2 \in [Addr -> Nat] /\ by_head2 \in [Addr -> Nat] /\ by_next2 \in [Addr -> Nat]
  BY DEF MemoryInv, Listed, TailInv, HeadInv, NextInv
<1>6. /\ Outstanding(n, by_tail, by_head, by_next) \in Nat /\ Outstanding(n, by_tail2, by_head2, by_next2) \in Nat
      /\ Pointers(n, by_tail2, by_head2, by_next2) \in 0 .. 3
  BY <1>1, <1>5, OutstandingInt
<1>7. external_counters'[n] = Pointers(n, by_tail2, by_head2, by_next2)
  <2>1. external_counters[n] + c = Pointers(n, by_tail2, by_head2, by_next2)
    BY <1>1 DEF BalanceInv
  <2> QED
    BY <2>1, <1>4, <1>6, UnsignedIs
<1>8. (internal_count'[n] + Outstanding(n, by_tail2, by_head2, by_next2) - Held(n)') % Wrap = 0
  <2>1. internal_count[n] \in Int
    <3>1. internal_count[n] \in InternalCounts
      BY <1>1, <1>3
    <3> QED
      BY <3>1, Counts0
  <2>2. internal_count[n] + r \in Int
    BY <2>1
  <2>3. PICK k \in Int : internal_count'[n] = internal_count[n] + r + k * 1073741824
    BY <2>2, <1>4, SignedIs
  <2>4. Held(n) \in Nat /\ Held(n)' \in Nat
    BY HoldsFinite, HoldsFinite2
  <2>5. (internal_count[n] + Outstanding(n, by_tail, by_head, by_next) - Held(n)) % Wrap = 0
    BY <1>1 DEF BalanceInv
  <2>6. PICK a \in Int : a = internal_count[n] + Outstanding(n, by_tail, by_head, by_next) - Held(n)
    BY <2>1, <2>4, <1>6
  <2>7. PICK b \in Int : b = internal_count'[n] + Outstanding(n, by_tail2, by_head2, by_next2) - Held(n)'
    <3>1. internal_count'[n] \in Int
      BY <2>1, <2>3
    <3> QED
      BY <3>1, <2>4, <1>6
  <2>8. b = a + k * 1073741824
    BY <2>1, <2>3, <2>4, <2>6, <2>7, <1>6
  <2> QED
    BY <2>5, <2>6, <2>7, <2>8, CountsMove
<1>9. PICK linked2 : linked2 = IF internal_count'[n] = 0 /\ external_counters'[n] = 0 THEN linked \ {n} ELSE linked
  OBVIOUS
<1>10. PrivateInv(linked2)'
  <2>1. linked2 \subseteq live' /\ live' \ linked2 = live \ linked
    BY <1>1, <1>2, <1>9
  <2>2. \A x \in live \ linked : /\ next'[x] = next[x] /\ data'[x] = data[x]
                                 /\ internal_count'[x] = internal_count[x]
                                 /\ external_counters'[x] = external_counters[x]
    BY <1>1, <1>2, <1>4
  <2> QED
    BY <2>1, <2>2, <1>1, PrivateFrame DEF KeepsPrivate
<1>11. Listed(rank, linked2, by_tail2, by_head2, by_next2)'
  <2>1. CASE internal_count'[n] = 0 /\ external_counters'[n] = 0
    <3>1. by_tail2[n] = 0 /\ by_head2[n] = 0 /\ by_next2[n] = 0
      <4>1. by_tail2[n] \in Nat /\ by_head2[n] \in Nat /\ by_next2[n] \in Nat
        BY <1>1, <1>5
      <4> QED
        BY <4>1, <2>1, <1>7 DEF Pointers, Pointer
    <3>2. Outstanding(n, by_tail2, by_head2, by_next2) = 0
      BY <3>1 DEF Outstanding, References
    <3>3. Held(n)' \in Nat /\ Held(n)' < Wrap
      BY HoldsFinite2
    <3>4. 0 + 0 - Held(n)' = 0 - Held(n)'
      BY <3>3
    <3>5. (0 - Held(n)') % Wrap = 0
      BY <3>2, <3>4, <2>1, <1>8
    <3>6. Held(n)' = 0
      BY <3>3, <3>5, CountsSmall
    <3>7. Listed(rank, linked \ {n}, by_tail2, by_head2, by_next2)'
      BY <3>1, <3>6, <1>1, Shrunk
    <3> QED
      BY <3>7, <2>1, <1>9
  <2>2. CASE ~ (internal_count'[n] = 0 /\ external_counters'[n] = 0)
    BY <2>2, <1>9
  <2> QED
    BY <2>1, <2>2
<1>12. BalanceInv(linked2, by_tail2, by_head2, by_next2)'
  <2>1. ASSUME NEW x \in linked2
        PROVE  /\ (internal_count'[x] + Outstanding(x, by_tail2, by_head2, by_next2) - Held(x)') % Wrap = 0
               /\ external_counters'[x] = Pointers(x, by_tail2, by_head2, by_next2)
               /\ internal_count'[x] # 0 \/ external_counters'[x] # 0
    <3>1. CASE x = n
      <4>1. internal_count'[n] # 0 \/ external_counters'[n] # 0
        BY <3>1, <2>1, <1>9
      <4> QED
        BY <4>1, <3>1, <1>7, <1>8
    <3>2. CASE x # n
      <4>1. x \in linked /\ x \in Addr
        BY <2>1, <1>1, <1>9
      <4>2. /\ (internal_count[x] + Outstanding(x, by_tail, by_head, by_next) - Held(x)) % Wrap = 0
            /\ external_counters[x] = Pointers(x, by_tail, by_head, by_next)
            /\ internal_count[x] # 0 \/ external_counters[x] # 0
        BY <4>1, <1>1 DEF BalanceInv
      <4>3. internal_count'[x] = internal_count[x] /\ external_counters'[x] = external_counters[x]
        BY <4>1, <3>2, <1>4
      <4> QED
        BY <4>1, <4>2, <4>3, <3>2
    <3> QED
      BY <3>1, <3>2
  <2> QED
    BY <2>1 DEF BalanceInv
<1> QED
  BY <1>10, <1>11, <1>12 DEF Memory, MemoryInv

(* A guard is destroyed.                                                    *)
LEMMA ReleaseStep ==
    ASSUME TypeOK, NEW rank, NEW linked, NEW by_tail, NEW by_head, NEW by_next,
           MemoryInv(rank, linked, by_tail, by_head, by_next), NEW t \in Threads, Others(t),
           PushHelpRelease(t) \/ PushReturn(t) \/ PopReleaseNext(t) \/ PopRetry(t) \/ PopReturn(t)
    PROVE  Memory'
<1> USE DEF Goto
<1>1. /\ pc \in [Threads -> Pc] /\ todo \in [Threads -> Seq(Call)]
      /\ old_ptr \in [Threads -> CountedNodePtr] /\ old_next \in [Threads -> CountedNodePtr]
      /\ new_next \in [Threads -> CountedNodePtr]
  BY DEF TypeOK
<1>2. linked \subseteq live /\ linked \subseteq Addr /\ Knows(t)
  BY Knowing DEF MemoryInv, PrivateInv, TypeOK
<1>3. /\ pc[t] \in {"push_help_release", "push_release", "pop_release_next", "pop_fail_release_next",
                    "pop_fail_release", "pop_release"}
      /\ GuardsOld(t) /\ old_ptr[t].ptr \in linked
  <2>1. pc[t] \in {"push_help_release", "push_release", "pop_release_next", "pop_fail_release_next",
                    "pop_fail_release", "pop_release"}
    BY DEF PushHelpRelease, PushReturn, PopReleaseNext, PopRetry, PopReturn
  <2> QED
    BY <2>1, Knowing DEF GuardsOld
<1>4. head' = head /\ tail' = tail
  BY DEF PushHelpRelease, PushReturn, PopReleaseNext, PopRetry, PopReturn
<1>5. KeepsPrivate(t)
  <2>1. CASE PushHelpRelease(t)
    BY <2>1, <1>1 DEF PushHelpRelease, KeepsPrivate, PrivatePc, PushPc, localVars
  <2>2. CASE PushReturn(t) \/ PopReturn(t)
    BY <2>2, <1>1 DEF PushReturn, PopReturn, Return, KeepsPrivate, PrivatePc, PushPc
  <2>3. CASE PopReleaseNext(t) \/ PopRetry(t)
    BY <2>3, <1>1 DEF PopReleaseNext, PopRetry, KeepsPrivate, PrivatePc, PushPc
  <2> QED
    BY <2>1, <2>2, <2>3
<1>6. pc'[t] \in {"push_guard", "idle", "pop_release", "pop_fail_release", "pop_guard"}
  BY <1>1 DEF PushHelpRelease, PushReturn, PopReleaseNext, PopRetry, PopReturn, Return
<1>7. /\ pc[t] \notin MovesTail \cup MovesHead \cup MovesNext
      /\ pc'[t] \notin MovesTail \cup MovesHead \cup MovesNext
      /\ ~GuardsNext(t)'
  BY <1>3, <1>6 DEF MovesTail, MovesHead, MovesNext, GuardsNext
<1>8. PICK n \in linked :
         /\ Settle(n, -1, 0)
         /\ \/ /\ GuardsOld(t)' /\ old_ptr'[t] = old_ptr[t] /\ GuardsNext(t) /\ old_next[t].ptr = n
            \/ /\ ~GuardsOld(t)' /\ old_ptr[t].ptr = n /\ ~GuardsNext(t)
  <2>1. CASE PopReleaseNext(t)
    <3>1. GuardsNext(t) /\ GuardsOld(t)'
      BY <2>1, <1>1 DEF PopReleaseNext, GuardsNext, GuardsOld
    <3>2. old_next[t].ptr \in linked
      BY <3>1, Knowing
    <3>3. Settle(old_next[t].ptr, -1, 0) /\ old_ptr' = old_ptr
      BY <2>1 DEF PopReleaseNext, ReleaseGuard, localVars
    <3> QED
      BY <3>1, <3>2, <3>3
  <2>2. CASE PushHelpRelease(t) \/ PushReturn(t) \/ PopRetry(t) \/ PopReturn(t)
    <3>1. ~GuardsNext(t) /\ ~GuardsOld(t)'
      BY <2>2, <1>1 DEF PushHelpRelease, PushReturn, PopRetry, PopReturn, Return, GuardsNext, GuardsOld
    <3>2. Settle(old_ptr[t].ptr, -1, 0)
      BY <2>2 DEF PushHelpRelease, PushReturn, PopRetry, PopReturn, ReleaseGuard
    <3> QED
      BY <3>1, <3>2, <1>3
  <2> QED
    BY <2>1, <2>2
<1>9. data' = data /\ next' = next
  BY <1>8, <1>2, SettleType
<1>10. Listed(rank, linked, by_tail, by_head, by_next)'
  <2>1. GuardsOld(t)' => old_ptr'[t].ptr \in linked
    BY <1>8, <1>3
  <2>2. HoldsInv(linked)'
    BY <2>1, <1>7, HoldsFrame DEF MemoryInv, Listed
  <2>3. pc[t] \notin {"push_tail", "push_help_tail", "pop_take", "pop_unlink"}
    BY <1>3
  <2>4. OrderInv(rank, linked)' /\ LagInv(rank, linked)' /\ ListInv(rank, linked)'
    BY <2>3, <1>4, <1>9, OrderFrame, LagFrame, ListFrame DEF MemoryInv, Listed
  <2>5. TailInv(rank, linked, by_tail)' /\ HeadInv(rank, linked, by_head)' /\ NextInv(linked, by_next)'
    BY <1>4, <1>7, <1>9, TailFrame, HeadFrame, NextFrame DEF MemoryInv, Listed
  <2> QED
    BY <2>2, <2>4, <2>5 DEF Listed
<1>11. LocalInv(rank)'
  <2>1. OrderInv(rank, linked)
    BY DEF MemoryInv, Listed
  <2>2. Forward(t, rank, rank, linked)
    BY <1>2, <1>4, <1>9, <2>1, ForwardFrame
  <2>3. LocalOf(rank, t)
    BY DEF MemoryInv, LocalInv
  <2>4. LocalOf(rank, t)'
    <3>1. CASE PopReleaseNext(t)
      <4>1. pc'[t] \in {"pop_release", "pop_fail_release"} /\ todo' = todo /\ old_ptr' = old_ptr /\ pc[t] \in PopPc
        BY <3>1, <1>1 DEF PopReleaseNext, localVars, PopPc
      <4> QED
        BY <4>1, <2>3, <1>3, <1>4, <1>7 DEF LocalOf, PopPc, PushPc
    <3>2. CASE PushHelpRelease(t)
      <4>1. pc'[t] = "push_guard" /\ todo' = todo /\ pc[t] \in PushPc
        BY <3>2, <1>1 DEF PushHelpRelease, PushPc
      <4> QED
        BY <4>1, <2>3 DEF LocalOf, PopPc, GuardsOld, GuardsNext
    <3>3. CASE PopRetry(t)
      <4>1. pc'[t] = "pop_guard" /\ todo' = todo /\ pc[t] \in PopPc
        BY <3>3, <1>1 DEF PopRetry, PopPc
      <4> QED
        BY <4>1, <2>3 DEF LocalOf, PushPc, GuardsOld, GuardsNext
    <3>4. CASE PushReturn(t) \/ PopReturn(t)
      <4>1. pc'[t] = "idle"
        BY <3>4, <1>1 DEF PushReturn, PopReturn, Return
      <4> QED
        BY <4>1 DEF LocalOf, PushPc, PopPc, GuardsOld, GuardsNext
    <3> QED
      BY <3>1, <3>2, <3>3, <3>4
  <2> QED
    BY <2>2, <2>4, LocalFrame
<1>12. Held(n)' = Held(n) - 1 /\ \A x \in linked : x # n => Held(x)' = Held(x)
  <2>1. /\ Cardinality(HoldsOld(n)) \in Nat /\ Cardinality(HoldsNext(n)) \in Nat
    BY HoldsFinite
  <2>2. CASE GuardsOld(t)' /\ old_ptr'[t] = old_ptr[t] /\ GuardsNext(t) /\ old_next[t].ptr = n
    <3>1. \A x : HoldsOld(x)' = HoldsOld(x)
      BY <2>2, <1>3, OldSame
    <3>2. \A x : x # n => HoldsNext(x)' = HoldsNext(x)
      BY <2>2, <1>7, NextSame
    <3>3. Cardinality(HoldsNext(n)') = Cardinality(HoldsNext(n)) - 1
      BY <2>2, <1>7, NextLess
    <3> QED
      BY <2>1, <3>1, <3>2, <3>3 DEF Held
  <2>3. CASE ~GuardsOld(t)' /\ old_ptr[t].ptr = n /\ ~GuardsNext(t)
    <3>1. \A x : HoldsNext(x)' = HoldsNext(x)
      BY <2>3, <1>7, NextSame
    <3>2. \A x : x # n => HoldsOld(x)' = HoldsOld(x)
      BY <2>3, <1>3, OldSame
    <3>3. Cardinality(HoldsOld(n)') = Cardinality(HoldsOld(n)) - 1
      BY <2>3, <1>3, OldLess
    <3> QED
      BY <2>1, <3>1, <3>2, <3>3 DEF Held
  <2> QED
    BY <2>2, <2>3, <1>8
<1>13. /\ by_tail \in [Addr -> Nat] /\ by_head \in [Addr -> Nat] /\ by_next \in [Addr -> Nat]
  BY DEF MemoryInv, Listed, TailInv, HeadInv, NextInv
<1>14. /\ Outstanding(n, by_tail, by_head, by_next) \in Nat /\ Pointers(n, by_tail, by_head, by_next) \in Nat
       /\ Held(n) \in Nat
  BY <1>2, <1>13, OutstandingInt, HoldsFinite
<1>15. /\ Outstanding(n, by_tail, by_head, by_next) + (-1) - Held(n)'
                = Outstanding(n, by_tail, by_head, by_next) - Held(n)
       /\ Pointers(n, by_tail, by_head, by_next) = Pointers(n, by_tail, by_head, by_next) + 0
       /\ -1 \in Int /\ 0 \in Int
  BY <1>12, <1>14
<1> QED
  BY <1>5, <1>8, <1>10, <1>11, <1>12, <1>15, SettleStep

-----------------------------------------------------------------------------
(* What was counted through a pointer is settled.                           *)
Settles(n, count, a, b, c, a2, b2, c2) ==
    \/ a[n] = count /\ a2 = [a EXCEPT ![n] = 0] /\ b2 = b /\ c2 = c
    \/ b[n] = count /\ b2 = [b EXCEPT ![n] = 0] /\ a2 = a /\ c2 = c
    \/ c[n] = count /\ c2 = [c EXCEPT ![n] = 0] /\ a2 = a /\ b2 = b

LEMMA SettlesAre ==
    ASSUME NEW a \in [Addr -> Nat], NEW b \in [Addr -> Nat], NEW c \in [Addr -> Nat], NEW n \in Addr,
           NEW count \in Nat, count >= 1, NEW a2, NEW b2, NEW c2, Settles(n, count, a, b, c, a2, b2, c2)
    PROVE  /\ Outstanding(n, a2, b2, c2) + (count - 1) = Outstanding(n, a, b, c)
           /\ Pointers(n, a2, b2, c2) = Pointers(n, a, b, c) + (-1)
           /\ \A x \in Addr : x # n => /\ Outstanding(x, a2, b2, c2) = Outstanding(x, a, b, c)
                                       /\ Pointers(x, a2, b2, c2) = Pointers(x, a, b, c)
<1>1. \A x \in Addr : x # n => a2[x] = a[x] /\ b2[x] = b[x] /\ c2[x] = c[x]
  BY DEF Settles
<1>2. /\ a[n] \in Nat /\ b[n] \in Nat /\ c[n] \in Nat /\ References(count) = count - 1 /\ Pointer(count) = 1
      /\ References(0) = 0 /\ Pointer(0) = 0
  BY ReferencesAre
<1>3. /\ References(a[n]) \in Nat /\ References(b[n]) \in Nat /\ References(c[n]) \in Nat
      /\ Pointer(a[n]) \in {0, 1} /\ Pointer(b[n]) \in {0, 1} /\ Pointer(c[n]) \in {0, 1}
  BY <1>2, ReferencesAre
<1>4. CASE a[n] = count /\ a2 = [a EXCEPT ![n] = 0] /\ b2 = b /\ c2 = c
  BY <1>1, <1>2, <1>3, <1>4 DEF Outstanding, Pointers
<1>5. CASE b[n] = count /\ b2 = [b EXCEPT ![n] = 0] /\ a2 = a /\ c2 = c
  BY <1>1, <1>2, <1>3, <1>5 DEF Outstanding, Pointers
<1>6. CASE c[n] = count /\ c2 = [c EXCEPT ![n] = 0] /\ a2 = a /\ b2 = b
  BY <1>1, <1>2, <1>3, <1>6 DEF Outstanding, Pointers
<1> QED
  BY <1>4, <1>5, <1>6 DEF Settles

LEMMA FreeStep ==
    ASSUME TypeOK, NEW rank, NEW linked, NEW by_tail, NEW by_head, NEW by_next,
           MemoryInv(rank, linked, by_tail, by_head, by_next), NEW t \in Threads, Others(t), KeepsPrivate(t),
           NEW p \in CountedNodePtr, p.ptr \in linked, p.external_count >= 1, FreeExternalCounter(p),
           NEW by_tail2, NEW by_head2, NEW by_next2,
           Settles(p.ptr, p.external_count, by_tail, by_head, by_next, by_tail2, by_head2, by_next2),
           Listed(rank, linked, by_tail2, by_head2, by_next2)', LocalInv(rank)', \A x : Held(x)' = Held(x)
    PROVE  Memory'
<1>1. linked \subseteq Addr
  BY DEF MemoryInv, PrivateInv, TypeOK
<1>2. /\ by_tail \in [Addr -> Nat] /\ by_head \in [Addr -> Nat] /\ by_next \in [Addr -> Nat]
      /\ by_tail2 \in [Addr -> Nat] /\ by_head2 \in [Addr -> Nat] /\ by_next2 \in [Addr -> Nat]
  BY DEF MemoryInv, Listed, TailInv, HeadInv, NextInv
<1>3. PICK n \in linked, r \in Int : n = p.ptr /\ r = p.external_count - 1 /\ p.external_count \in Nat
  <2>1. p.external_count \in Nat
    BY CountedTypes
  <2>2. p.external_count - 1 \in Int
    BY <2>1
  <2> QED
    BY <2>1, <2>2
<1>4. Settle(n, r, -1)
  BY <1>3 DEF FreeExternalCounter
<1>5. /\ Outstanding(n, by_tail2, by_head2, by_next2) + r = Outstanding(n, by_tail, by_head, by_next)
      /\ Pointers(n, by_tail2, by_head2, by_next2) = Pointers(n, by_tail, by_head, by_next) + (-1)
      /\ \A x \in Addr : x # n =>
            /\ Outstanding(x, by_tail2, by_head2, by_next2) = Outstanding(x, by_tail, by_head, by_next)
            /\ Pointers(x, by_tail2, by_head2, by_next2) = Pointers(x, by_tail, by_head, by_next)
  <2>1. PICK count \in Nat : count = p.external_count
    BY <1>3
  <2>2. Settles(n, count, by_tail, by_head, by_next, by_tail2, by_head2, by_next2) /\ count >= 1 /\ r = count - 1
    BY <2>1, <1>3
  <2>3. n \in Addr
    BY <1>1
  <2>4. /\ Outstanding(n, by_tail2, by_head2, by_next2) + (count - 1) = Outstanding(n, by_tail, by_head, by_next)
        /\ Pointers(n, by_tail2, by_head2, by_next2) = Pointers(n, by_tail, by_head, by_next) + (-1)
        /\ \A x \in Addr : x # n =>
            /\ Outstanding(x, by_tail2, by_head2, by_next2) = Outstanding(x, by_tail, by_head, by_next)
            /\ Pointers(x, by_tail2, by_head2, by_next2) = Pointers(x, by_tail, by_head, by_next)
    BY <2>2, <2>3, <1>2, SettlesAre, SMTT(60)
  <2> QED
    BY <2>2, <2>4
<1>6. Held(n)' = Held(n) /\ -1 \in Int
  OBVIOUS
<1>7. Outstanding(n, by_tail2, by_head2, by_next2) + r - Held(n)'
                = Outstanding(n, by_tail, by_head, by_next) - Held(n)
  <2>1. /\ Outstanding(n, by_tail, by_head, by_next) \in Nat /\ Held(n) \in Nat
        /\ Outstanding(n, by_tail2, by_head2, by_next2) \in Nat
    BY <1>1, <1>2, OutstandingInt, HoldsFinite
  <2> QED
    BY <2>1, <1>5, <1>6
<1> QED
  BY <1>1, <1>4, <1>5, <1>6, <1>7, SettleStep

LEMMA PushFreeStep ==
    ASSUME TypeOK, NEW rank, NEW linked, NEW by_tail, NEW by_head, NEW by_next,
           MemoryInv(rank, linked, by_tail, by_head, by_next), NEW t \in Threads, Others(t), PushFree(t)
    PROVE  Memory'
<1> USE DEF Goto
<1>0. PICK n : n = unlinked[t].ptr
  OBVIOUS
<1>1. PICK p \in CountedNodePtr : p = unlinked[t] /\ n = p.ptr
  BY <1>0 DEF TypeOK
<1>2. /\ pc[t] \in MovesTail /\ pc'[t] \in {"push_release", "push_help_release"}
      /\ head' = head /\ tail' = tail /\ todo' = todo /\ new_next' = new_next
      /\ old_ptr' = old_ptr /\ old_next' = old_next /\ FreeExternalCounter(p)
      /\ KeepsPrivate(t)
  BY <1>1 DEF PushFree, MovesTail, KeepsPrivate, PrivatePc, PushPc, TypeOK
<1>3. /\ pc'[t] \notin MovesTail \cup MovesHead \cup MovesNext
      /\ pc[t] \notin MovesHead \cup MovesNext
      /\ pc[t] \notin {"push_tail", "push_help_tail", "pop_take", "pop_unlink"}
      /\ GuardsOld(t) /\ GuardsOld(t)' /\ ~GuardsNext(t) /\ ~GuardsNext(t)'
  BY <1>2 DEF MovesTail, MovesHead, MovesNext, GuardsOld, GuardsNext
<1>4. TailInv(rank, linked, by_tail) /\ linked \subseteq Addr
  BY DEF MemoryInv, Listed, PrivateInv, TypeOK
<1>5. /\ p.external_count >= 1 /\ by_tail[n] = p.external_count /\ n = old_ptr[t].ptr
      /\ rank[n] < rank[tail.ptr] /\ n \in linked
      /\ \A u \in Threads : pc[u] \in MovesTail /\ unlinked[u].ptr = n => u = t
  BY <1>1, <1>2, <1>4, Knowing DEF TailInv
<1>6. data' = data /\ next' = next
  <2>1. p.external_count - 1 \in Int /\ -1 \in Int
    BY CountedTypes
  <2> QED
    BY <2>1, <1>1, <1>2, <1>4, <1>5, SettleType DEF FreeExternalCounter
<1>7. PICK by_tail2 : by_tail2 = [by_tail EXCEPT ![n] = 0]
  OBVIOUS
<1>8. Settles(n, p.external_count, by_tail, by_head, by_next, by_tail2, by_head, by_next)
  BY <1>5, <1>7 DEF Settles
<1>9. TailInv(rank, linked, by_tail2)'
  <2>1. \A u \in Threads : u # t => /\ pc'[u] \in MovesTail <=> pc[u] \in MovesTail
                                    /\ pc[u] \in MovesTail => unlinked'[u] = unlinked[u] /\ old_ptr'[u] = old_ptr[u]
    BY DEF Others
  <2>2. \A x : x # n /\ TailTaken(x) => TailTaken(x)'
    BY <2>1, <1>1 DEF TailTaken
  <2>3. n # tail.ptr
    <3>1. rank[tail.ptr] \in Int
      BY <1>4 DEF MemoryInv, Listed, OrderInv
    <3> QED
      BY <3>1, <1>5
  <2>4. by_tail2 \in [Addr -> Nat] /\ by_tail2[n] = 0 /\ \A x \in linked : x # n => by_tail2[x] = by_tail[x]
    BY <1>4, <1>5, <1>7 DEF TailInv
  <2>5. tail.ptr \in linked
    BY DEF MemoryInv, Listed, OrderInv
  <2>6. \A x \in linked : rank[x] > rank[tail.ptr] => by_tail2[x] = 1
    <3>1. ~ (rank[n] > rank[tail.ptr])
      <4>1. rank[tail.ptr] \in Int /\ rank[n] \in Int
        BY <1>4, <1>5, <2>5 DEF MemoryInv, Listed, OrderInv
      <4> QED
        BY <4>1, <1>5
    <3> QED
      BY <3>1, <2>4, <1>4 DEF TailInv
  <2>7. \A x \in linked : rank[x] < rank[tail.ptr] => by_tail2[x] = 0 \/ TailTaken(x)'
    BY <2>2, <2>4, <1>4 DEF TailInv
  <2>8. \A u \in Threads : pc'[u] \in MovesTail =>
          /\ u # t
          /\ unlinked'[u].external_count >= 1
          /\ by_tail2[unlinked'[u].ptr] = unlinked'[u].external_count
          /\ unlinked'[u].ptr = old_ptr'[u].ptr
          /\ rank[old_ptr'[u].ptr] < rank[tail.ptr]
    <3>1. ASSUME NEW u \in Threads, pc'[u] \in MovesTail
          PROVE  u # t /\ pc[u] \in MovesTail /\ unlinked[u].ptr # n /\ unlinked[u].ptr \in linked
      <4>1. u # t
        BY <3>1, <1>3
      <4>2. pc[u] \in MovesTail
        BY <3>1, <4>1, <2>1
      <4> QED
        BY <4>1, <4>2, <1>5, Knowing
    <3> QED
      BY <3>1, <2>1, <2>4, <1>4 DEF TailInv
  <2>9. \A u, v \in Threads : pc'[u] \in MovesTail /\ pc'[v] \in MovesTail /\ unlinked'[v].ptr = unlinked'[u].ptr => v = u
    BY <2>1, <2>8, <1>4 DEF TailInv
  <2> QED
    BY <2>3, <2>4, <2>5, <2>6, <2>7, <2>8, <2>9, <1>2, <1>4 DEF TailInv
<1>10. Listed(rank, linked, by_tail2, by_head, by_next)'
  <2>1. HoldsInv(linked)'
    BY <1>2, <1>3, <1>5, HoldsFrame DEF MemoryInv, Listed
  <2>2. OrderInv(rank, linked)' /\ LagInv(rank, linked)' /\ ListInv(rank, linked)'
    BY <1>2, <1>3, <1>6, OrderFrame, LagFrame, ListFrame DEF MemoryInv, Listed
  <2>3. HeadInv(rank, linked, by_head)' /\ NextInv(linked, by_next)'
    BY <1>2, <1>3, <1>6, HeadFrame, NextFrame DEF MemoryInv, Listed
  <2> QED
    BY <2>1, <2>2, <2>3, <1>9 DEF Listed
<1>11. LocalInv(rank)'
  <2>1. OrderInv(rank, linked)
    BY DEF MemoryInv, Listed
  <2>2. Forward(t, rank, rank, linked)
    BY <1>2, <1>4, <1>6, <2>1, ForwardFrame
  <2>3. LocalOf(rank, t)
    BY DEF MemoryInv, LocalInv
  <2>4. LocalOf(rank, t)'
    BY <1>2, <1>3, <2>3 DEF LocalOf, PopPc, PushPc, MovesTail
  <2> QED
    BY <2>2, <2>4, LocalFrame
<1>12. \A x : Held(x)' = Held(x)
  BY <1>2, <1>3, HeldSame
<1> QED
  BY <1>1, <1>2, <1>5, <1>8, <1>10, <1>11, <1>12, FreeStep

LEMMA PopFreeHeadStep ==
    ASSUME TypeOK, NEW rank, NEW linked, NEW by_tail, NEW by_head, NEW by_next,
           MemoryInv(rank, linked, by_tail, by_head, by_next), NEW t \in Threads, Others(t), PopFreeHead(t)
    PROVE  Memory'
<1> USE DEF Goto
<1>0. PICK n : n = old_ptr[t].ptr
  OBVIOUS
<1>1. PICK p \in CountedNodePtr : p = old_ptr[t] /\ n = p.ptr
  BY <1>0 DEF TypeOK
<1>2. /\ pc[t] = "pop_free_head" /\ pc'[t] = "pop_free_next"
      /\ head' = head /\ tail' = tail /\ todo' = todo /\ new_next' = new_next
      /\ old_ptr' = old_ptr /\ old_next' = old_next /\ unlinked' = unlinked /\ taken' = taken
      /\ FreeExternalCounter(p)
  BY <1>1 DEF PopFreeHead, TypeOK, localVars
<1>3. /\ pc'[t] \notin MovesTail \cup MovesHead /\ pc'[t] \in MovesNext
      /\ pc[t] \in MovesHead /\ pc[t] \in MovesNext /\ pc[t] \notin MovesTail
      /\ GuardsOld(t) /\ GuardsOld(t)' /\ GuardsNext(t) /\ GuardsNext(t)'
      /\ KeepsPrivate(t)
  BY <1>2 DEF MovesTail, MovesHead, MovesNext, GuardsOld, GuardsNext, KeepsPrivate, PrivatePc, PushPc
<1>4. HeadInv(rank, linked, by_head) /\ linked \subseteq Addr
  BY DEF MemoryInv, Listed, PrivateInv, TypeOK
<1>5. /\ p.external_count >= 1 /\ by_head[n] = p.external_count
      /\ rank[n] < rank[head.ptr] /\ n \in linked /\ old_next[t].ptr \in linked
      /\ \A u \in Threads : pc[u] \in MovesHead /\ old_ptr[u].ptr = n => u = t
  BY <1>1, <1>3, <1>4, Knowing DEF HeadInv
<1>6. data' = data /\ next' = next
  <2>1. p.external_count - 1 \in Int /\ -1 \in Int
    BY CountedTypes
  <2> QED
    BY <2>1, <1>1, <1>2, <1>4, <1>5, SettleType DEF FreeExternalCounter
<1>7. PICK by_head2 : by_head2 = [by_head EXCEPT ![n] = 0]
  OBVIOUS
<1>8. Settles(n, p.external_count, by_tail, by_head, by_next, by_tail, by_head2, by_next)
  BY <1>5, <1>7 DEF Settles
<1>9. HeadInv(rank, linked, by_head2)'
  <2>1. \A u \in Threads : u # t => /\ pc'[u] \in MovesHead <=> pc[u] \in MovesHead
                                    /\ pc[u] \in MovesHead => old_ptr'[u] = old_ptr[u]
    BY DEF Others
  <2>2. \A x : x # n /\ HeadTaken(x) => HeadTaken(x)'
    BY <2>1, <1>1 DEF HeadTaken
  <2>3. head.ptr \in linked /\ rank[head.ptr] \in Int /\ rank[n] \in Int
    BY <1>4, <1>5 DEF MemoryInv, Listed, OrderInv
  <2>4. by_head2 \in [Addr -> Nat] /\ by_head2[n] = 0 /\ \A x \in linked : x # n => by_head2[x] = by_head[x]
    BY <1>4, <1>5, <1>7 DEF HeadInv
  <2>5. n # head.ptr /\ ~ (rank[n] > rank[head.ptr])
    BY <2>3, <1>5
  <2>6. \A x \in linked : rank[x] > rank[head.ptr] => by_head2[x] = 1
    BY <2>4, <2>5, <1>4 DEF HeadInv
  <2>7. \A x \in linked : rank[x] < rank[head.ptr] => by_head2[x] = 0 \/ HeadTaken(x)'
    BY <2>2, <2>4, <1>4 DEF HeadInv
  <2>8. \A u \in Threads : pc'[u] \in MovesHead =>
          /\ u # t
          /\ old_ptr'[u].external_count >= 1
          /\ by_head2[old_ptr'[u].ptr] = old_ptr'[u].external_count
          /\ rank[old_ptr'[u].ptr] < rank[head.ptr]
    <3>1. ASSUME NEW u \in Threads, pc'[u] \in MovesHead
          PROVE  u # t /\ pc[u] \in MovesHead /\ old_ptr[u].ptr # n /\ old_ptr[u].ptr \in linked
      <4>1. u # t
        BY <3>1, <1>3
      <4>2. pc[u] \in MovesHead
        BY <3>1, <4>1, <2>1
      <4>3. GuardsOld(u)
        BY <4>2 DEF MovesHead, GuardsOld
      <4> QED
        BY <4>1, <4>2, <4>3, <1>5, Knowing
    <3> QED
      BY <3>1, <2>1, <2>4, <1>4 DEF HeadInv
  <2>9. \A u, v \in Threads : pc'[u] \in MovesHead /\ pc'[v] \in MovesHead /\ old_ptr'[v].ptr = old_ptr'[u].ptr => v = u
    BY <2>1, <2>8, <1>4 DEF HeadInv
  <2> QED
    BY <2>3, <2>4, <2>5, <2>6, <2>7, <2>8, <2>9, <1>2, <1>4 DEF HeadInv
<1>10. Listed(rank, linked, by_tail, by_head2, by_next)'
  <2>1. HoldsInv(linked)'
    BY <1>1, <1>2, <1>5, HoldsFrame DEF MemoryInv, Listed
  <2>2. OrderInv(rank, linked)' /\ LagInv(rank, linked)' /\ ListInv(rank, linked)'
    BY <1>2, <1>6, OrderFrame, LagFrame, ListFrame DEF MemoryInv, Listed
  <2>3. TailInv(rank, linked, by_tail)' /\ NextInv(linked, by_next)'
    BY <1>2, <1>3, <1>6, TailFrame, NextFrame DEF MemoryInv, Listed
  <2> QED
    BY <2>1, <2>2, <2>3, <1>9 DEF Listed
<1>11. LocalInv(rank)'
  <2>1. OrderInv(rank, linked)
    BY DEF MemoryInv, Listed
  <2>2. Forward(t, rank, rank, linked)
    BY <1>2, <1>4, <1>6, <2>1, ForwardFrame
  <2>3. LocalOf(rank, t)
    BY DEF MemoryInv, LocalInv
  <2>4. LocalOf(rank, t)'
    BY <1>2, <1>3, <2>3 DEF LocalOf, PopPc, PushPc
  <2> QED
    BY <2>2, <2>4, LocalFrame
<1>12. \A x : Held(x)' = Held(x)
  BY <1>2, <1>3, HeldSame
<1> QED
  BY <1>1, <1>2, <1>3, <1>5, <1>8, <1>10, <1>11, <1>12, FreeStep

LEMMA PopFreeNextStep ==
    ASSUME TypeOK, NEW rank, NEW linked, NEW by_tail, NEW by_head, NEW by_next,
           MemoryInv(rank, linked, by_tail, by_head, by_next), NEW t \in Threads, Others(t), PopFreeNext(t)
    PROVE  Memory'
<1> USE DEF Goto
<1>0. PICK n : n = unlinked[t].ptr
  OBVIOUS
<1>1. PICK p \in CountedNodePtr : p = unlinked[t] /\ n = p.ptr
  BY <1>0 DEF TypeOK
<1>2. /\ pc[t] = "pop_free_next" /\ pc'[t] = "pop_release_next"
      /\ head' = head /\ tail' = tail /\ todo' = todo /\ new_next' = new_next
      /\ old_ptr' = old_ptr /\ old_next' = old_next /\ unlinked' = unlinked /\ taken' = taken
      /\ FreeExternalCounter(p)
  BY <1>1 DEF PopFreeNext, TypeOK, localVars
<1>3. /\ pc'[t] \notin MovesTail \cup MovesHead \cup MovesNext
      /\ pc[t] \in MovesNext /\ pc[t] \notin MovesTail \cup MovesHead
      /\ GuardsOld(t) /\ GuardsOld(t)' /\ GuardsNext(t) /\ GuardsNext(t)'
      /\ KeepsPrivate(t)
  BY <1>2 DEF MovesTail, MovesHead, MovesNext, GuardsOld, GuardsNext, KeepsPrivate, PrivatePc, PushPc
<1>4. NextInv(linked, by_next) /\ linked \subseteq Addr
  BY DEF MemoryInv, Listed, PrivateInv, TypeOK
<1>5. /\ p.external_count >= 1 /\ by_next[n] = p.external_count
      /\ n \in linked /\ old_next[t].ptr \in linked /\ old_ptr[t].ptr \in linked
      /\ \A u \in Threads : pc[u] \in MovesNext /\ unlinked[u].ptr = n => u = t
  BY <1>1, <1>3, <1>4, Knowing DEF NextInv
<1>6. data' = data /\ next' = next
  <2>1. p.external_count - 1 \in Int /\ -1 \in Int
    BY CountedTypes
  <2> QED
    BY <2>1, <1>1, <1>2, <1>4, <1>5, SettleType DEF FreeExternalCounter
<1>7. PICK by_next2 : by_next2 = [by_next EXCEPT ![n] = 0]
  OBVIOUS
<1>8. Settles(n, p.external_count, by_tail, by_head, by_next, by_tail, by_head, by_next2)
  BY <1>5, <1>7 DEF Settles
<1>9. NextInv(linked, by_next2)'
  <2>1. \A u \in Threads : u # t => /\ pc'[u] \in MovesNext <=> pc[u] \in MovesNext
                                    /\ pc[u] \in MovesNext => unlinked'[u] = unlinked[u] /\ old_ptr'[u] = old_ptr[u]
                                            /\ old_next'[u] = old_next[u]
    BY DEF Others
  <2>2. \A x : x # n /\ NextTaken(x) => NextTaken(x)'
    BY <2>1, <1>1 DEF NextTaken
  <2>3. \A x \in linked : LinkedTo(linked, x) => LinkedTo(linked, x)'
    BY <1>6 DEF LinkedTo
  <2>4. by_next2 \in [Addr -> Nat] /\ by_next2[n] = 0 /\ \A x \in linked : x # n => by_next2[x] = by_next[x]
    BY <1>4, <1>5, <1>7 DEF NextInv
  <2>5. \A x \in linked : next[x].ptr # Null => next[x].ptr # n /\ next[x].ptr \in linked
    BY <1>1, <1>3, OneLink
  <2>6. \A x \in linked : next'[x].ptr # Null =>
             next'[x].external_count >= 1 /\ by_next2[next'[x].ptr] = next'[x].external_count
    BY <2>4, <2>5, <1>4, <1>6 DEF NextInv
  <2>7. \A x \in linked : by_next2[x] = 0 \/ LinkedTo(linked, x)' \/ NextTaken(x)'
    BY <2>2, <2>3, <2>4, <1>4 DEF NextInv
  <2>8. \A u \in Threads : pc'[u] \in MovesNext =>
          /\ u # t
          /\ unlinked'[u].external_count >= 1
          /\ by_next2[unlinked'[u].ptr] = unlinked'[u].external_count
          /\ unlinked'[u].ptr = old_next'[u].ptr
          /\ next'[old_ptr'[u].ptr] = Counted(1, Null)
    <3>1. ASSUME NEW u \in Threads, pc'[u] \in MovesNext
          PROVE  u # t /\ pc[u] \in MovesNext /\ unlinked[u].ptr # n /\ unlinked[u].ptr \in linked
      <4>1. u # t
        BY <3>1, <1>3
      <4>2. pc[u] \in MovesNext
        BY <3>1, <4>1, <2>1
      <4> QED
        BY <4>1, <4>2, <1>5, Knowing
    <3> QED
      BY <3>1, <2>1, <2>4, <1>4, <1>6 DEF NextInv
  <2>9. \A u, v \in Threads : pc'[u] \in MovesNext /\ pc'[v] \in MovesNext /\ unlinked'[v].ptr = unlinked'[u].ptr => v = u
    BY <2>1, <2>8, <1>4 DEF NextInv
  <2> QED
    BY <2>4, <2>6, <2>7, <2>8, <2>9 DEF NextInv
<1>10. Listed(rank, linked, by_tail, by_head, by_next2)'
  <2>1. HoldsInv(linked)'
    BY <1>2, <1>5, HoldsFrame DEF MemoryInv, Listed
  <2>2. OrderInv(rank, linked)' /\ LagInv(rank, linked)' /\ ListInv(rank, linked)'
    BY <1>2, <1>6, OrderFrame, LagFrame, ListFrame DEF MemoryInv, Listed
  <2>3. TailInv(rank, linked, by_tail)' /\ HeadInv(rank, linked, by_head)'
    BY <1>2, <1>3, <1>6, TailFrame, HeadFrame DEF MemoryInv, Listed
  <2> QED
    BY <2>1, <2>2, <2>3, <1>9 DEF Listed
<1>11. LocalInv(rank)'
  <2>1. OrderInv(rank, linked)
    BY DEF MemoryInv, Listed
  <2>2. Forward(t, rank, rank, linked)
    BY <1>2, <1>4, <1>6, <2>1, ForwardFrame
  <2>3. LocalOf(rank, t)
    BY DEF MemoryInv, LocalInv
  <2>4. LocalOf(rank, t)'
    BY <1>2, <1>3, <2>3 DEF LocalOf, PopPc, PushPc
  <2> QED
    BY <2>2, <2>4, LocalFrame
<1>12. \A x : Held(x)' = Held(x)
  BY <1>2, <1>3, HeldSame
<1> QED
  BY <1>1, <1>2, <1>3, <1>5, <1>8, <1>10, <1>11, <1>12, FreeStep

-----------------------------------------------------------------------------
(* Together.                                                                *)
LEMMA PushMemory ==
    ASSUME TypeOK, Memory, NEW t \in Threads, Others(t), PushStep(t)
    PROVE  Memory'
<1>1. PICK rank, linked, by_tail, by_head, by_next : MemoryInv(rank, linked, by_tail, by_head, by_next)
  BY DEF Memory
<1>2. CASE PushCall(t)
  BY <1>1, <1>2, PushCallStep DEF Memory
<1>3. CASE PushGuard(t)
  <2>1. PICK by_tail2 : by_tail2 = [by_tail EXCEPT ![tail.ptr] = @ + 1]
    OBVIOUS
  <2>2. MemoryInv(rank, linked, by_tail2, by_head, by_next)'
    BY <2>1, <1>1, <1>3, PushGuardStep
  <2> QED
    BY <2>2 DEF Memory
<1>4. CASE PushData(t) \/ PushHelpLinked(t)
  <2>1. MemoryInv(rank, linked, by_tail, by_head, by_next)'
    BY <1>1, <1>4, QuietSteps
  <2> QED
    BY <2>1 DEF Memory
<1>5. CASE PushLink(t)
  <2>1. CASE next[old_ptr[t].ptr] # NullPtr
    <3>1. MemoryInv(rank, linked, by_tail, by_head, by_next)'
      BY <2>1, <1>1, <1>5, PushDropStep
    <3> QED
      BY <3>1 DEF Memory
  <2>2. CASE next[old_ptr[t].ptr] = NullPtr
    BY <2>2, <1>1, <1>5, PushLinkStep
  <2> QED
    BY <2>1, <2>2
<1>6. CASE PushHelpLink(t)
  BY <1>1, <1>6, PushHelpLinkStep
<1>7. CASE PushTail(t) \/ PushHelpTail(t)
  <2>1. MemoryInv(rank, linked, by_tail, by_head, by_next)'
    <3>1. CASE tail.ptr = old_ptr[t].ptr
      BY <3>1, <1>1, <1>7, TailMoves
    <3>2. CASE tail.ptr # old_ptr[t].ptr
      BY <3>2, <1>1, <1>7, QuietSteps
    <3> QED
      BY <3>1, <3>2
  <2> QED
    BY <2>1 DEF Memory
<1>8. CASE PushFree(t)
  BY <1>1, <1>8, PushFreeStep
<1>9. CASE PushHelpRelease(t) \/ PushReturn(t)
  BY <1>1, <1>9, ReleaseStep
<1> QED
  BY <1>2, <1>3, <1>4, <1>5, <1>6, <1>7, <1>8, <1>9 DEF PushStep

LEMMA PopMemory ==
    ASSUME TypeOK, Memory, NEW t \in Threads, Others(t), PopStep(t)
    PROVE  Memory'
<1>1. PICK rank, linked, by_tail, by_head, by_next : MemoryInv(rank, linked, by_tail, by_head, by_next)
  BY DEF Memory
<1>2. CASE PopCall(t) \/ PopCheckEmpty(t) \/ PopTake(t)
  <2>1. MemoryInv(rank, linked, by_tail, by_head, by_next)'
    BY <1>1, <1>2, QuietSteps
  <2> QED
    BY <2>1 DEF Memory
<1>3. CASE PopGuard(t)
  <2>1. PICK by_head2 : by_head2 = [by_head EXCEPT ![head.ptr] = @ + 1]
    OBVIOUS
  <2>2. MemoryInv(rank, linked, by_tail, by_head2, by_next)'
    BY <2>1, <1>1, <1>3, PopGuardStep
  <2> QED
    BY <2>2 DEF Memory
<1>4. CASE PopGuardNext(t)
  <2>1. CASE next[old_ptr[t].ptr].ptr = Null
    <3>1. MemoryInv(rank, linked, by_tail, by_head, by_next)'
      BY <2>1, <1>1, <1>4, QuietSteps
    <3> QED
      BY <3>1 DEF Memory
  <2>2. CASE next[old_ptr[t].ptr].ptr # Null
    <3>1. PICK by_next2 : by_next2 = [by_next EXCEPT ![next[old_ptr[t].ptr].ptr] = @ + 1]
      OBVIOUS
    <3>2. MemoryInv(rank, linked, by_tail, by_head, by_next2)'
      BY <3>1, <2>2, <1>1, <1>4, PopGuardNextStep
    <3> QED
      BY <3>2 DEF Memory
  <2> QED
    BY <2>1, <2>2
<1>5. CASE PopMove(t)
  <2>1. MemoryInv(rank, linked, by_tail, by_head, by_next)'
    <3>1. CASE head = old_ptr[t]
      BY <3>1, <1>1, <1>5, HeadMoves
    <3>2. CASE head # old_ptr[t]
      BY <3>2, <1>1, <1>5, QuietSteps
    <3> QED
      BY <3>1, <3>2
  <2> QED
    BY <2>1 DEF Memory
<1>6. CASE PopUnlink(t)
  <2>1. MemoryInv(rank, linked, by_tail, by_head, by_next)'
    BY <1>1, <1>6, PopUnlinkStep
  <2> QED
    BY <2>1 DEF Memory
<1>7. CASE PopFreeHead(t)
  BY <1>1, <1>7, PopFreeHeadStep
<1>8. CASE PopFreeNext(t)
  BY <1>1, <1>8, PopFreeNextStep
<1>9. CASE PopReleaseNext(t) \/ PopRetry(t) \/ PopReturn(t)
  BY <1>1, <1>9, ReleaseStep
<1> QED
  BY <1>2, <1>3, <1>4, <1>5, <1>6, <1>7, <1>8, <1>9 DEF PopStep

(* The destructor's own pops begin like those of the threads.               *)
LEMMA DestructorMemory ==
    ASSUME TypeOK, Memory, DestructorStarts \/ DestructorPopped
    PROVE  Memory'
<1>1. PICK rank, linked, by_tail, by_head, by_next : MemoryInv(rank, linked, by_tail, by_head, by_next)
  BY DEF Memory
<1>2. /\ UNCHANGED <<head, tail, nodeVars, pc, localVars, results>>
      /\ pc[Main] = "idle" /\ \A u \in Threads \ {Main} : todo'[u] = todo[u]
  BY MainAssumption DEF DestructorStarts, DestructorPopped, Idle, TypeOK
<1>3. Main \in Threads /\ Others(Main)
  BY <1>2, MainAssumption DEF Others, localVars
<1>4. Calm(Main) /\ KeepsValues(Main, linked)
  BY <1>2 DEF Calm, KeepsValues, localVars, nodeVars, GuardsOld, GuardsNext
<1>5. LocalOf(rank, Main)'
  BY <1>2 DEF LocalOf, GuardsOld, GuardsNext, PushPc, PopPc
<1>6. MemoryInv(rank, linked, by_tail, by_head, by_next)'
  BY <1>1, <1>3, <1>4, <1>5, CalmStep
<1> QED
  BY <1>6 DEF Memory

LEMMA MemoryInit == Init => Memory
<1> SUFFICES ASSUME Init PROVE Memory
  OBVIOUS
<1>1. PICK dummy \in Addr :
        /\ head = Counted(1, dummy) /\ tail = Counted(1, dummy)
        /\ next = [n \in Addr |-> NullPtr]
        /\ internal_count = [n \in Addr |-> 0]
        /\ external_counters = [n \in Addr |-> IF n = dummy THEN 2 ELSE 3]
        /\ live = {dummy} /\ pc = [t \in Threads |-> "idle"]
  BY DEF Init
<1>2. PICK rank, linked, by_head, by_next :
        /\ rank = [n \in Addr |-> 0] /\ linked = {dummy}
        /\ by_head = [n \in Addr |-> IF n = dummy THEN 1 ELSE 0] /\ by_next = [n \in Addr |-> 0]
  OBVIOUS
<1>3. /\ head.ptr = dummy /\ tail.ptr = dummy /\ head.external_count = 1 /\ tail.external_count = 1
      /\ next[dummy] = NullPtr /\ NullPtr.ptr = Null
      /\ \A t \in Threads : pc[t] = "idle"
  BY <1>1, CountedFields
<1>4. PrivateInv(linked)
  BY <1>1, <1>2, <1>3 DEF PrivateInv, PrivatePc, PushPc
<1>5. HoldsInv(linked) /\ OrderInv(rank, linked) /\ LagInv(rank, linked) /\ ListInv(rank, linked)
  BY <1>1, <1>2, <1>3 DEF HoldsInv, GuardsOld, GuardsNext, OrderInv, LagInv, ListInv
<1>6. TailInv(rank, linked, by_head)
  BY <1>1, <1>2, <1>3 DEF TailInv, MovesTail
<1>7. HeadInv(rank, linked, by_head)
  BY <1>1, <1>2, <1>3 DEF HeadInv, MovesHead
<1>8. NextInv(linked, by_next)
  BY <1>1, <1>2, <1>3 DEF NextInv, MovesNext
<1>9. BalanceInv(linked, by_head, by_head, by_next)
  <2>1. HoldsOld(dummy) = {} /\ HoldsNext(dummy) = {}
    BY <1>3 DEF HoldsOld, HoldsNext, GuardsOld, GuardsNext
  <2>2. Held(dummy) = 0
    BY <2>1, FS_EmptySet DEF Held
  <2>3. /\ Outstanding(dummy, by_head, by_head, by_next) = 0
        /\ Pointers(dummy, by_head, by_head, by_next) = 2
    BY <1>2, ReferencesAre DEF Outstanding, Pointers, Pointer
  <2>4. internal_count[dummy] = 0 /\ external_counters[dummy] = 2
    BY <1>1
  <2>5. (0 + 0 - 0) % Wrap = 0
    BY WrapValue, SMT
  <2> QED
    BY <2>2, <2>3, <2>4, <2>5, <1>2 DEF BalanceInv
<1>10. LocalInv(rank)
  BY <1>3 DEF LocalInv, LocalOf, GuardsOld, GuardsNext, PushPc, PopPc
<1> QED
  BY <1>4, <1>5, <1>6, <1>7, <1>8, <1>9, <1>10 DEF Memory, MemoryInv, Listed

-----------------------------------------------------------------------------
(* The destructor runs alone.  Its last pop found head and tail at the same *)
(* node, which is then the only one left, with the references of these two  *)
(* pointers still to come.                                                  *)
Joined == \A u \in Threads \ {Main} : pc[u] = "idle" /\ todo[u] = <<>>
LastPop == results[Main][Len(results[Main])]

PoppingInv ==
    /\ pc[Main] \in PopPc \cup {"idle"}
    /\ todo[Main] \in {<<>>, <<Pop>>}
    /\ pc[Main] \in {"pop_empty", "pop_guard_next", "pop_move"} => old_ptr[Main].ptr = head.ptr
    /\ pc[Main] = "pop_release" /\ taken[Main] = NoValue => head.ptr = tail.ptr
    /\ todo[Main] = <<>> => results[Main] # <<>> /\ (LastPop = NoValue => head.ptr = tail.ptr)

DestructorInv ==
    /\ destructor # "waiting" => Joined
    /\ destructor = "popping" => PoppingInv
    /\ destructor \in {"free_head", "free_tail", "end"} => Idle
    /\ destructor = "free_head" => head.ptr = tail.ptr
    /\ destructor = "free_tail" =>
          /\ live = {tail.ptr}
          /\ external_counters[tail.ptr] = 1
          /\ AsSigned30(internal_count[tail.ptr] + (tail.external_count - 1)) = 0
    /\ destructor = "end" => live = {}

(* Only a thread that is not done yet takes a step.                         *)
LEMMA StepsBusy ==
    ASSUME NEW t \in Threads, PushStep(t) \/ PopStep(t)
    PROVE  ~ Idle /\ ~ (pc[t] = "idle" /\ todo[t] = <<>>)
<1>1. ~ (pc[t] = "idle" /\ todo[t] = <<>>)
  BY DEF PushStep, PopStep, Goto, PushCall, PushGuard, PushData, PushLink, PushHelpLink, PushHelpLinked,
         PushTail, PushHelpTail, SetNewTail, PushFree, PushHelpRelease, PushReturn, PopCall, PopGuard,
         PopCheckEmpty, PopGuardNext, PopMove, PopTake, PopUnlink, PopFreeHead, PopFreeNext, PopReleaseNext,
         PopRetry, PopReturn
<1> QED
  BY <1>1 DEF Idle

LEMMA DestructorCalls ==
    ASSUME TypeOK, Memory, DestructorInv, NEW t \in Threads, Others(t), destructor' = destructor,
           PushStep(t) \/ PopStep(t)
    PROVE  DestructorInv' /\ destructor \in {"waiting", "popping"}
<1>1. PICK rank, linked, by_tail, by_head, by_next : MemoryInv(rank, linked, by_tail, by_head, by_next)
  BY DEF Memory
<1>2. ~ Idle /\ ~ (pc[t] = "idle" /\ todo[t] = <<>>)
  BY StepsBusy
<1>3. destructor \in {"waiting", "popping"}
  BY <1>2 DEF DestructorInv, TypeOK
<1>4. CASE destructor = "waiting"
  BY <1>4 DEF DestructorInv
<1>5. CASE destructor = "popping"
  <2>1. t = Main /\ Joined /\ PoppingInv /\ Main \in Threads
    BY <1>2, <1>5, MainAssumption DEF DestructorInv, Joined
  <2>2. Joined'
    BY <2>1 DEF Joined, Others
  <2>3. PopStep(t)
    <3>1. Head(<<Pop>>).op = "pop"
      BY DEF Pop
    <3>2. ~ PushCall(t)
      BY <2>1, <3>1 DEF PushCall, PoppingInv
    <3>3. ~ (PushStep(t) /\ ~ PushCall(t))
      BY <2>1 DEF PushStep, Goto, PushGuard, PushData, PushLink, PushHelpLink, PushHelpLinked, PoppingInv,
                  PushTail, PushHelpTail, SetNewTail, PushFree, PushHelpRelease, PushReturn, PopPc
    <3> QED
      BY <3>2, <3>3
  <2>4. /\ todo[t] # <<>> \/ pc[t] = "idle"
        /\ pc[t] = "pop_release_next" => taken[t] # NoValue
    BY <1>1, <2>1 DEF MemoryInv, LocalInv, LocalOf, PoppingInv
  <2>5. todo[t] = <<Pop>> /\ <<Pop>> # <<>>
    BY <2>1, <2>4, <1>2 DEF PoppingInv
  <2>6. CASE PopCall(t)
    BY <2>1, <2>2, <2>5, <2>6, <1>5 DEF PopCall, Goto, DestructorInv, PoppingInv, TypeOK, PopPc
  <2>7. CASE PopGuard(t)
    <3>1. /\ pc'[t] = "pop_empty" /\ UNCHANGED <<todo, taken, results>>
          /\ old_ptr'[t] = head' /\ destructor' = destructor
      BY <2>7 DEF PopGuard, Goto, TypeOK
    <3> QED
      BY <2>1, <2>2, <2>5, <3>1, <1>5 DEF DestructorInv, PoppingInv, PopPc
  <2>8. CASE PopCheckEmpty(t)
    <3>1. pc'[t] \in {"pop_release", "pop_guard_next"} /\ (pc'[t] = "pop_release" => head.ptr = tail.ptr)
      BY <2>1, <2>8 DEF PopCheckEmpty, Goto, PoppingInv, TypeOK
    <3>2. UNCHANGED <<head, tail, todo, old_ptr, taken, results>>
      BY <2>8 DEF PopCheckEmpty, localVars
    <3>3. old_ptr[t].ptr = head.ptr
      BY <2>1, <2>8 DEF PopCheckEmpty, Goto, PoppingInv
    <3> QED
      BY <2>1, <2>2, <2>5, <3>1, <3>2, <3>3, <1>5 DEF DestructorInv, PoppingInv, PopPc
  <2>9. CASE PopGuardNext(t)
    <3>1. pc'[t] \in {"pop_fail_release", "pop_move"}
      BY <2>1, <2>9 DEF PopGuardNext, TypeOK
    <3>2. UNCHANGED <<head, tail, todo, old_ptr, taken, results>> /\ old_ptr[t].ptr = head.ptr
      BY <2>1, <2>9 DEF PopGuardNext, PoppingInv
    <3> QED
      BY <2>1, <2>2, <2>5, <3>1, <3>2, <1>5 DEF DestructorInv, PoppingInv, PopPc
  <2>10. CASE PopMove(t) \/ PopTake(t) \/ PopUnlink(t) \/ PopFreeHead(t) \/ PopFreeNext(t) \/ PopRetry(t)
    <3>1. pc'[t] \in PopPc \ {"pop_empty", "pop_guard_next", "pop_move", "pop_release"}
      BY <2>1, <2>10 DEF PopMove, PopTake, PopUnlink, PopFreeHead, PopFreeNext, PopRetry, Goto, TypeOK, PopPc
    <3>2. todo' = todo
      BY <2>10 DEF PopMove, PopTake, PopUnlink, PopFreeHead, PopFreeNext, PopRetry
    <3> QED
      BY <2>1, <2>2, <2>5, <3>1, <3>2, <1>5 DEF DestructorInv, PoppingInv
  <2>11. CASE PopReleaseNext(t)
    <3>1. /\ pc'[t] \in {"pop_release", "pop_fail_release"} /\ todo' = todo /\ taken' = taken
          /\ pc'[t] = "pop_release" => taken[t] # NoValue
      BY <2>1, <2>4, <2>11 DEF PopReleaseNext, Goto, TypeOK, localVars
    <3> QED
      BY <2>1, <2>2, <2>5, <3>1, <1>5 DEF DestructorInv, PoppingInv, PopPc
  <2>12. CASE PopReturn(t)
    <3>1. PICK all, last : all = results[t] /\ last = taken[t]
      OBVIOUS
    <3>2. all \in Seq(Value \cup {NoValue}) /\ last \in Value \cup {NoValue}
      BY <2>1, <3>1 DEF TypeOK
    <3>3. /\ pc'[t] = "idle" /\ todo'[t] = Tail(todo[t]) /\ results'[t] = Append(all, last)
          /\ head' = head /\ tail' = tail /\ pc[t] = "pop_release"
      BY <2>1, <2>12, <3>1 DEF PopReturn, Return, TypeOK
    <3>4. Tail(<<Pop>>) = <<>>
      OBVIOUS
    <3>5. Append(all, last) # <<>> /\ Append(all, last)[Len(Append(all, last))] = last
      BY <3>2
    <3>6. last = NoValue => head.ptr = tail.ptr
      BY <2>1, <3>1, <3>3 DEF PoppingInv
    <3>7. PoppingInv'
      BY <2>1, <2>5, <3>3, <3>4, <3>5, <3>6 DEF PoppingInv, LastPop
    <3> QED
      BY <2>2, <3>7, <1>5 DEF DestructorInv
  <2> QED
    BY <2>3, <2>6, <2>7, <2>8, <2>9, <2>10, <2>11, <2>12, <1>3 DEF PopStep
<1> QED
  BY <1>3, <1>4, <1>5

LEMMA LastNode ==
    ASSUME TypeOK, NEW rank, NEW linked, NEW by_tail, NEW by_head, NEW by_next,
           MemoryInv(rank, linked, by_tail, by_head, by_next), Idle, head.ptr = tail.ptr
    PROVE  /\ tail.ptr \in Addr /\ live = {tail.ptr}
           /\ head.external_count \in Nat /\ tail.external_count \in Nat
           /\ external_counters[tail.ptr] = 2
           /\ (internal_count[tail.ptr] + (tail.external_count - 1) + (head.external_count - 1)) % Wrap = 0
<1>1. PrivateInv(linked) /\ Listed(rank, linked, by_tail, by_head, by_next)
      /\ BalanceInv(linked, by_tail, by_head, by_next)
  BY DEF MemoryInv
<1>2. \A t \in Threads : pc[t] = "idle"
  BY DEF Idle
<1>3. linked \subseteq Addr /\ live = linked
  BY <1>1, <1>2 DEF PrivateInv, PrivatePc, PushPc, TypeOK
<1>4. ~ Overdue /\ \A n : ~ Uncut(n) /\ ~ TailTaken(n) /\ ~ HeadTaken(n) /\ ~ NextTaken(n)
  BY <1>2 DEF Overdue, Uncut, TailTaken, HeadTaken, NextTaken, MovesTail, MovesHead, MovesNext
<1>5. \A n : Held(n) = 0
  <2>1. \A n : HoldsOld(n) = {} /\ HoldsNext(n) = {}
    BY <1>2 DEF HoldsOld, HoldsNext, GuardsOld, GuardsNext
  <2> QED
    BY <2>1, FS_EmptySet DEF Held
<1>6. /\ rank \in [Addr -> Int] /\ head.ptr \in linked /\ tail.ptr \in linked
      /\ \A m, n \in linked : rank[m] = rank[n] => m = n
  BY <1>1 DEF Listed, OrderInv
<1>7. \A n \in linked : rank[n] <= rank[tail.ptr]
  BY <1>1, <1>3, <1>4, <1>6 DEF Listed, LagInv
<1>8. \A n \in linked : by_next[n] = 0
  <2> SUFFICES ASSUME NEW n \in linked, LinkedTo(linked, n) PROVE FALSE
    BY <1>1, <1>4 DEF Listed, NextInv
  <2>1. PICK p \in linked : next[p].ptr = n
    BY DEF LinkedTo
  <2>2. n # Null
    BY <1>3, NullAssumption
  <2>3. rank[n] = rank[p] + 1
    BY <1>1, <2>1, <2>2 DEF Listed, ListInv
  <2>4. rank[p] < rank[head.ptr]
    BY <2>3, <1>3, <1>6, <1>7
  <2>5. next[p] = Counted(1, Null)
    BY <1>1, <1>4, <2>4 DEF Listed, ListInv
  <2> QED
    BY <2>1, <2>2, <2>5, CountedFields
<1>9. ASSUME NEW n \in linked, n # tail.ptr PROVE FALSE
  <2>1. rank[n] < rank[tail.ptr]
    BY <1>3, <1>6, <1>7, <1>9
  <2>2. by_tail[n] = 0 /\ by_head[n] = 0 /\ by_next[n] = 0
    BY <1>1, <1>4, <1>8, <2>1 DEF Listed, TailInv, HeadInv
  <2>3. /\ Outstanding(n, by_tail, by_head, by_next) = 0
        /\ Pointers(n, by_tail, by_head, by_next) = 0
    BY <2>2, ReferencesAre DEF Outstanding, Pointers
  <2>4. internal_count[n] \in InternalCounts /\ internal_count[n] \in Int
    BY <1>3, Counts0 DEF TypeOK
  <2>5. internal_count[n] % Wrap = 0
    <3>1. (internal_count[n] + 0 - 0) % Wrap = 0
      BY <1>1, <1>5, <2>3 DEF BalanceInv
    <3>2. internal_count[n] + 0 - 0 = internal_count[n]
      BY <2>4
    <3> QED
      BY <3>1, <3>2
  <2>6. internal_count[n] = 0
    BY <2>4, <2>5, CountsZero
  <2> QED
    BY <1>1, <2>3, <2>6 DEF BalanceInv
<1>10. PICK n \in linked : n = tail.ptr
  BY <1>6
<1>11. /\ head.external_count \in Nat /\ tail.external_count \in Nat
       /\ by_tail[n] = tail.external_count /\ tail.external_count >= 1
       /\ by_head[n] = head.external_count /\ head.external_count >= 1
       /\ by_next[n] = 0
  BY <1>1, <1>8, <1>10, CountedTypes DEF Listed, TailInv, HeadInv, TypeOK
<1>12. /\ Outstanding(n, by_tail, by_head, by_next) = (tail.external_count - 1) + (head.external_count - 1)
       /\ Pointers(n, by_tail, by_head, by_next) = 2
  BY <1>11, ReferencesAre DEF Outstanding, Pointers, References, Pointer
<1>13. external_counters[n] = 2
  BY <1>1, <1>12 DEF BalanceInv
<1>14. (internal_count[n] + (tail.external_count - 1) + (head.external_count - 1)) % Wrap = 0
  <2>1. (internal_count[n] + ((tail.external_count - 1) + (head.external_count - 1)) - 0) % Wrap = 0
    BY <1>1, <1>5, <1>12 DEF BalanceInv
  <2>2. internal_count[n] \in Int
    BY <1>3, Counts0 DEF TypeOK
  <2>3. internal_count[n] + ((tail.external_count - 1) + (head.external_count - 1)) - 0
          = internal_count[n] + (tail.external_count - 1) + (head.external_count - 1)
    BY <2>2, <1>11
  <2> QED
    BY <2>1, <2>3
<1> QED
  BY <1>3, <1>9, <1>10, <1>11, <1>13, <1>14

LEMMA DestructorStep ==
    ASSUME TypeOK, DestructorInv, destructor \in {"waiting", "popping", "free_head"} => Memory,
           DestructorStarts \/ DestructorPopped \/ DestructorFrees
    PROVE  /\ TypeOK' /\ DestructorInv'
           /\ destructor' \in {"waiting", "popping", "free_head"} => Memory'
<1>1. Main \in Threads
  BY MainAssumption
<1>2. TypeOK'
  <2>1. destructor = "free_tail" => tail.ptr \in Addr
    BY DEF DestructorInv, TypeOK
  <2>2. destructor = "free_head" => head.ptr \in Addr
    <3>1. Memory => head.ptr \in Addr
      BY DEF Memory, MemoryInv, PrivateInv, Listed, OrderInv, TypeOK
    <3> QED
      BY <3>1
  <2> QED
    BY <2>1, <2>2, TypeDestructor
<1>3. CASE DestructorStarts
  <2>1. Memory'
    BY <1>3, DestructorMemory DEF DestructorStarts
  <2>2. Joined' /\ PoppingInv'
    <3>1. <<Pop>> # <<>>
      OBVIOUS
    <3> QED
      BY <1>1, <1>3, <3>1 DEF DestructorStarts, Idle, Joined, PoppingInv, TypeOK
  <2> QED
    BY <1>2, <1>3, <2>1, <2>2 DEF DestructorStarts, DestructorInv
<1>4. CASE DestructorPopped
  <2>1. Memory'
    BY <1>4, DestructorMemory DEF DestructorPopped
  <2>2. Joined'
    BY <1>1, <1>4 DEF DestructorPopped, Idle, Joined, TypeOK
  <2>3. CASE results[Main][Len(results[Main])] = NoValue
    <3>1. destructor' = "free_head" /\ UNCHANGED <<head, tail, pc, todo>> /\ Idle
      BY <1>4, <2>3 DEF DestructorPopped
    <3>2. head.ptr = tail.ptr
      BY <1>1, <1>4, <2>3, <3>1 DEF DestructorPopped, DestructorInv, PoppingInv, LastPop, Idle
    <3>3. Idle'
      BY <3>1 DEF Idle
    <3> QED
      BY <1>2, <2>1, <2>2, <3>1, <3>2, <3>3 DEF DestructorInv
  <2>4. CASE results[Main][Len(results[Main])] # NoValue
    <3>1. destructor' = "popping" /\ todo' = [todo EXCEPT ![Main] = <<Pop>>]
          /\ UNCHANGED <<head, tail, pc, results>> /\ Idle
      BY <1>4, <2>4 DEF DestructorPopped
    <3>2. <<Pop>> # <<>> /\ todo'[Main] = <<Pop>> /\ pc'[Main] = "idle"
      BY <1>1, <3>1 DEF Idle, TypeOK
    <3>3. PoppingInv'
      BY <3>2 DEF PoppingInv
    <3> QED
      BY <1>2, <2>1, <2>2, <3>1, <3>3 DEF DestructorInv
  <2> QED
    BY <2>3, <2>4
<1>5. CASE DestructorFrees /\ destructor = "free_head"
  <2>1. PICK rank, linked, by_tail, by_head, by_next : MemoryInv(rank, linked, by_tail, by_head, by_next)
    BY <1>5 DEF Memory
  <2>2. Idle /\ head.ptr = tail.ptr
    BY <1>5 DEF DestructorInv
  <2>3. /\ tail.ptr \in Addr /\ live = {tail.ptr}
        /\ head.external_count \in Nat /\ tail.external_count \in Nat
        /\ external_counters[tail.ptr] = 2
        /\ (internal_count[tail.ptr] + (tail.external_count - 1) + (head.external_count - 1)) % Wrap = 0
    BY <2>1, <2>2, LastNode
  <2>4. PICK n, b, c, i : n = tail.ptr /\ b = tail.external_count - 1 /\ c = head.external_count - 1
                          /\ i = internal_count[n]
    OBVIOUS
  <2>5. b \in Int /\ c \in Int /\ i \in Int /\ n \in Addr /\ -1 \in Int
    BY <2>3, <2>4, Counts0 DEF TypeOK
  <2>6. /\ destructor' = "free_tail" /\ UNCHANGED <<head, tail, pc, todo>>
        /\ Settle(n, c, -1)
    BY <1>5, <2>2, <2>4 DEF DestructorFrees, FreeExternalCounter
  <2>7. /\ internal_count' = [internal_count EXCEPT ![n] = AsSigned30(internal_count[n] + c)]
        /\ external_counters' = [external_counters EXCEPT ![n] = AsUnsigned2(external_counters[n] + (-1))]
        /\ live' = IF internal_count'[n] = 0 /\ external_counters'[n] = 0 THEN live \ {n} ELSE live
    BY <2>5, <2>6, SettleType
  <2>8. AsUnsigned2(2 + (-1)) = 1
    BY UnsignedIs
  <2>9. external_counters'[n] = 1 /\ internal_count'[n] = AsSigned30(i + c) /\ live' = {n}
    <3>1. external_counters \in [Addr -> 0 .. 3] /\ internal_count \in [Addr -> InternalCounts]
      BY DEF TypeOK
    <3>2. external_counters'[n] = 1 /\ internal_count'[n] = AsSigned30(i + c)
      BY <2>3, <2>4, <2>5, <2>7, <2>8, <3>1
    <3> QED
      BY <2>3, <2>4, <2>7, <3>2
  <2>10. AsSigned30(internal_count'[n] + b) = 0
    <3>1. i + c \in Int
      BY <2>5
    <3>2. PICK k \in Int : AsSigned30(i + c) = i + c + k * 1073741824
      BY <3>1, SignedIs, SMT
    <3>3. PICK a \in Int, d \in Int : a = i + b + c /\ d = AsSigned30(i + c) + b
      BY <2>5, <3>1, <3>2, SMT
    <3>4. d = a + k * 1073741824
      BY <3>2, <3>3, <2>5, SMT
    <3>5. a % Wrap = 0
      BY <2>3, <2>4, <3>3, SMT
    <3>6. d % Wrap = 0
      BY <3>2, <3>3, <3>4, <3>5, CountsMove, SMT
    <3>7. AsSigned30(d) = 0
      BY <3>6, SignedIs, SMT
    <3> QED
      BY <3>3, <3>7, <2>9, SMT
  <2>11. Idle' /\ Joined'
    BY <2>2, <2>6 DEF Idle, Joined
  <2>12. tail'.ptr = n /\ tail'.external_count - 1 = b
    BY <2>4, <2>6
  <2> QED
    BY <1>2, <2>6, <2>9, <2>10, <2>11, <2>12 DEF DestructorInv
<1>6. CASE DestructorFrees /\ destructor = "free_tail"
  <2>1. /\ live = {tail.ptr} /\ external_counters[tail.ptr] = 1 /\ Idle
        /\ AsSigned30(internal_count[tail.ptr] + (tail.external_count - 1)) = 0
    BY <1>6 DEF DestructorInv
  <2>2. PICK n, b : n = tail.ptr /\ b = tail.external_count - 1
    OBVIOUS
  <2>3. n \in Addr /\ b \in Int /\ -1 \in Int
    BY <2>1, <2>2, CountedTypes DEF TypeOK
  <2>4. /\ destructor' = "end" /\ UNCHANGED <<pc, todo>> /\ Settle(n, b, -1)
    BY <1>6, <2>2 DEF DestructorFrees, FreeExternalCounter
  <2>5. /\ internal_count' = [internal_count EXCEPT ![n] = AsSigned30(internal_count[n] + b)]
        /\ external_counters' = [external_counters EXCEPT ![n] = AsUnsigned2(external_counters[n] + (-1))]
        /\ live' = IF internal_count'[n] = 0 /\ external_counters'[n] = 0 THEN live \ {n} ELSE live
    BY <2>3, <2>4, SettleType
  <2>6. AsUnsigned2(1 + (-1)) = 0
    BY UnsignedIs
  <2>7. internal_count'[n] = 0 /\ external_counters'[n] = 0
    BY <2>1, <2>2, <2>3, <2>5, <2>6 DEF TypeOK
  <2>8. live' = {}
    BY <2>1, <2>2, <2>5, <2>7
  <2>9. Idle' /\ Joined'
    BY <2>1, <2>4 DEF Idle, Joined
  <2> QED
    BY <1>2, <2>4, <2>8, <2>9 DEF DestructorInv
<1> QED
  BY <1>3, <1>4, <1>5, <1>6 DEF DestructorFrees

-----------------------------------------------------------------------------
(* The queue is in order until the destructor settles its last two pointers. *)
Inv ==
    /\ TypeOK
    /\ destructor \in {"waiting", "popping", "free_head"} => Memory
    /\ DestructorInv

LEMMA InvInit == Init => Inv
<1> SUFFICES ASSUME Init PROVE Inv
  OBVIOUS
<1>1. DestructorInv
  BY DEF Init, DestructorInv
<1> QED
  BY <1>1, TypeInit, MemoryInit DEF Inv

LEMMA CallKnows ==
    ASSUME TypeOK, Memory, NEW t \in Threads
    PROVE  Knows(t)
BY Knowing DEF Memory

LEMMA InvNext == Inv /\ [Next]_vars => Inv'
<1> SUFFICES ASSUME Inv, [Next]_vars PROVE Inv'
  OBVIOUS
<1>1. TypeOK /\ DestructorInv /\ (destructor \in {"waiting", "popping", "free_head"} => Memory)
  BY DEF Inv
<1>2. ASSUME NEW t \in Threads, PushStep(t) \/ PopStep(t) PROVE Inv'
  <2>1. Others(t) /\ destructor' = destructor
    BY <1>1, <1>2, OthersStep
  <2>2. destructor \in {"waiting", "popping"}
    BY <1>1, <1>2, StepsBusy DEF DestructorInv, TypeOK
  <2>3. Memory /\ Knows(t)
    BY <1>1, <2>2, CallKnows
  <2>4. TypeOK'
    BY <1>1, <1>2, <2>3, TypePush, TypePop
  <2>5. Memory'
    BY <1>1, <1>2, <2>1, <2>3, PushMemory, PopMemory
  <2>6. DestructorInv'
    BY <1>1, <1>2, <2>1, <2>3, DestructorCalls
  <2> QED
    BY <2>4, <2>5, <2>6 DEF Inv
<1>3. CASE DestructorStarts \/ DestructorPopped \/ DestructorFrees
  BY <1>1, <1>3, DestructorStep DEF Inv
<1>4. CASE UNCHANGED vars
  <2>1. TypeOK' /\ DestructorInv' /\ destructor' = destructor
    BY <1>1, <1>4 DEF vars, nodeVars, localVars, TypeOK, DestructorInv, Joined, PoppingInv, LastPop, Idle
  <2>2. ASSUME Memory PROVE Memory'
    <3>1. PICK rank, linked, by_tail, by_head, by_next : MemoryInv(rank, linked, by_tail, by_head, by_next)
      BY <2>2 DEF Memory
    <3>2. Main \in Threads /\ Others(Main) /\ Calm(Main) /\ KeepsValues(Main, linked)
      BY <1>4, MainAssumption DEF vars, nodeVars, localVars, Others, Calm, KeepsValues, GuardsOld, GuardsNext
    <3>3. LocalOf(rank, Main)'
      <4>1. LocalOf(rank, Main)
        BY <3>1, <3>2 DEF MemoryInv, LocalInv
      <4> QED
        BY <1>4, <4>1 DEF vars, nodeVars, localVars, LocalOf, GuardsOld, GuardsNext
    <3>4. MemoryInv(rank, linked, by_tail, by_head, by_next)'
      BY <1>1, <3>1, <3>2, <3>3, CalmStep
    <3> QED
      BY <3>4 DEF Memory
  <2> QED
    BY <1>1, <2>1, <2>2 DEF Inv
<1> QED
  BY <1>2, <1>3, <1>4 DEF Next

LEMMA InvSafe == Inv => NoUseAfterFree /\ AllDeleted
<1> SUFFICES ASSUME Inv PROVE NoUseAfterFree /\ AllDeleted
  OBVIOUS
<1>1. TypeOK /\ DestructorInv
  BY DEF Inv
<1>2. AllDeleted
  BY <1>1 DEF AllDeleted, Ended, DestructorInv
<1>3. CASE destructor \in {"waiting", "popping", "free_head"}
  <2>1. PICK rank, linked, by_tail, by_head, by_next : MemoryInv(rank, linked, by_tail, by_head, by_next)
    BY <1>3 DEF Inv, Memory
  <2>2. linked \subseteq live /\ head.ptr \in linked /\ tail.ptr \in linked
    BY <2>1 DEF MemoryInv, PrivateInv, Listed, OrderInv
  <2>3. ASSUME NEW t \in Threads
        PROVE  /\ GuardsOld(t) => old_ptr[t].ptr \in live
               /\ GuardsNext(t) => old_next[t].ptr \in live
               /\ \A pointer \in Unsettled(t) : pointer.ptr \in live
    <3>1. /\ GuardsOld(t) => old_ptr[t].ptr \in linked
          /\ GuardsNext(t) => old_next[t].ptr \in linked
          /\ pc[t] \in MovesTail \cup MovesNext => unlinked[t].ptr \in linked
      BY <1>1, <2>1, Knowing
    <3>2. \A pointer \in Unsettled(t) :
             \/ pointer = unlinked[t] /\ pc[t] \in MovesTail \cup MovesNext
             \/ pointer = old_ptr[t] /\ GuardsOld(t)
      BY DEF Unsettled, MovesTail, MovesNext, GuardsOld
    <3> QED
      BY <2>2, <3>1, <3>2
  <2> QED
    BY <1>1, <1>2, <2>2, <2>3 DEF NoUseAfterFree
<1>4. CASE destructor \in {"free_tail", "end"}
  <2>1. \A t \in Threads : ~ GuardsOld(t) /\ ~ GuardsNext(t) /\ Unsettled(t) = {}
    BY <1>1, <1>4 DEF DestructorInv, Idle, GuardsOld, GuardsNext, Unsettled
  <2>2. destructor # "end" => tail.ptr \in live
    BY <1>1, <1>4 DEF DestructorInv
  <2> QED
    BY <1>1, <1>2, <1>4, <2>1, <2>2 DEF NoUseAfterFree
<1> QED
  BY <1>1, <1>3, <1>4 DEF TypeOK

(* The inductive invariant, for any number of threads, addresses and calls. *)
THEOREM Always == Spec => []Inv
BY InvInit, InvNext, PTL DEF Spec

(* For any number of threads, addresses and calls, no call touches a node   *)
(* that was deleted, and neither does the destructor: whoever gives back    *)
(* the last count of a node is the last who could reach it.                 *)
THEOREM NoUse == Spec => []NoUseAfterFree
BY Always, InvSafe, PTL

(* For any number of threads, addresses and calls, every node that was made *)
(* is deleted when the destructor ends, as main() asserts (line 228).       *)
THEOREM Deleted == Spec => []AllDeleted
BY Always, InvSafe, PTL

-----------------------------------------------------------------------------
(* Where a value is: still to be stored by a Push(), in a node, in the     *)
(* hands of a Pop() or returned.                                           *)
Stored == {"push_link", "push_tail", "push_free", "push_release"}
Pending(t) == {i \in DOMAIN todo[t] : todo[t][i].op = "push" /\ ~ (i = 1 /\ pc[t] \in Stored)}

ToStore(v)  == UNION {{<<"todo", t, i>> : i \in {j \in Pending(t) : todo[t][j].value = v}} : t \in Threads}
InNodes(v)  == {<<"data", n, 0>> : n \in {m \in Addr : data[m] = v}}
InHands(v)  == {<<"taken", t, 0>> : t \in {u \in Threads : taken[u] = v}}
Returned(v) == UNION {{<<"results", t, i>> : i \in {j \in DOMAIN results[t] : results[t][j] = v}} : t \in Threads}
Places(v)   == ToStore(v) \cup InNodes(v) \cup InHands(v) \cup Returned(v)

Alone(v) == \A p, q \in Places(v) : p = q

ValueInv == \A v \in Value : Alone(v)

LEMMA PlacesOf == \A v, p :
    p \in Places(v) <=>
        \/ \E t \in Threads : \E i \in DOMAIN todo[t] :
              /\ p = <<"todo", t, i>> /\ todo[t][i].op = "push" /\ todo[t][i].value = v
              /\ ~ (i = 1 /\ pc[t] \in Stored)
        \/ \E n \in Addr : p = <<"data", n, 0>> /\ data[n] = v
        \/ \E t \in Threads : p = <<"taken", t, 0>> /\ taken[t] = v
        \/ \E t \in Threads : \E i \in DOMAIN results[t] : p = <<"results", t, i>> /\ results[t][i] = v
<1> TAKE v, p
<1>1. p \in ToStore(v)
      <=> \E t \in Threads : \E i \in DOMAIN todo[t] :
              /\ p = <<"todo", t, i>> /\ todo[t][i].op = "push" /\ todo[t][i].value = v
              /\ ~ (i = 1 /\ pc[t] \in Stored)
  <2>1. \A t : \A i : i \in Pending(t) <=> /\ i \in DOMAIN todo[t] /\ todo[t][i].op = "push"
                                            /\ ~ (i = 1 /\ pc[t] \in Stored)
    BY DEF Pending
  <2> QED
    BY <2>1 DEF ToStore
<1>2. p \in Returned(v)
      <=> \E t \in Threads : \E i \in DOMAIN results[t] : p = <<"results", t, i>> /\ results[t][i] = v
  BY DEF Returned
<1>3. p \in InNodes(v)
      <=> \E n \in Addr : p = <<"data", n, 0>> /\ data[n] = v
  BY DEF InNodes
<1>4. p \in InHands(v)
      <=> \E t \in Threads : p = <<"taken", t, 0>> /\ taken[t] = v
  BY DEF InHands
<1> QED
  BY <1>1, <1>2, <1>3, <1>4 DEF Places

LEMMA PlacesNext == \A v, p :
    p \in Places(v)' <=>
        \/ \E t \in Threads : \E i \in DOMAIN todo'[t] :
              /\ p = <<"todo", t, i>> /\ todo'[t][i].op = "push" /\ todo'[t][i].value = v
              /\ ~ (i = 1 /\ pc'[t] \in Stored)
        \/ \E n \in Addr : p = <<"data", n, 0>> /\ data'[n] = v
        \/ \E t \in Threads : p = <<"taken", t, 0>> /\ taken'[t] = v
        \/ \E t \in Threads : \E i \in DOMAIN results'[t] : p = <<"results", t, i>> /\ results'[t][i] = v
<1> TAKE v, p
<1>1. p \in ToStore(v)'
      <=> \E t \in Threads : \E i \in DOMAIN todo'[t] :
              /\ p = <<"todo", t, i>> /\ todo'[t][i].op = "push" /\ todo'[t][i].value = v
              /\ ~ (i = 1 /\ pc'[t] \in Stored)
  <2>1. \A t : \A i : i \in Pending(t)' <=> /\ i \in DOMAIN todo'[t] /\ todo'[t][i].op = "push"
                                            /\ ~ (i = 1 /\ pc'[t] \in Stored)
    BY DEF Pending
  <2> QED
    BY <2>1 DEF ToStore
<1>2. p \in Returned(v)'
      <=> \E t \in Threads : \E i \in DOMAIN results'[t] : p = <<"results", t, i>> /\ results'[t][i] = v
  BY DEF Returned
<1>3. p \in InNodes(v)'
      <=> \E n \in Addr : p = <<"data", n, 0>> /\ data'[n] = v
  BY DEF InNodes
<1>4. p \in InHands(v)'
      <=> \E t \in Threads : p = <<"taken", t, 0>> /\ taken'[t] = v
  BY DEF InHands
<1> QED
  BY <1>1, <1>2, <1>3, <1>4 DEF Places

(* Steps that put no value anywhere.                                        *)
LEMMA ValuesStay ==
    ASSUME NEW v \in Value, Alone(v), todo' = todo, results' = results,
           \A n \in Addr : data'[n] = data[n] \/ data'[n] = NoValue,
           \A t \in Threads : taken'[t] = taken[t] \/ taken'[t] = NoValue,
           \A t \in Threads : pc'[t] \in Stored <=> pc[t] \in Stored
    PROVE  Alone(v)'
<1>1. v # NoValue
  BY ValueAssumption
<1>2. Places(v)' \subseteq Places(v)
  BY <1>1, PlacesOf, PlacesNext
<1> QED
  BY <1>2 DEF Alone

(* Push() stores its value in a node, Pop() takes the value of a node.      *)
LEMMA ValueStored ==
    ASSUME NEW v \in Value, Alone(v), NEW t \in Threads, NEW n \in Addr,
           todo' = todo, results' = results, taken' = taken,
           todo[t] \in Seq(Call), todo[t] # <<>>, Head(todo[t]).op = "push",
           data' = [data EXCEPT ![n] = Head(todo[t]).value],
           pc[t] \notin Stored, pc'[t] \in Stored, \A u \in Threads \ {t} : pc'[u] = pc[u],
           data \in [Addr -> Value \cup {NoValue}]
    PROVE  Alone(v)'
<1>0. 1 \in DOMAIN todo[t] /\ Head(todo[t]) = todo[t][1]
  OBVIOUS
<1> DEFINE From(p) == IF p = <<"data", n, 0>> THEN <<"todo", t, 1>> ELSE p
<1>1. ASSUME NEW p \in Places(v)' PROVE From(p) \in Places(v) /\ p # <<"todo", t, 1>>
  <2>1. CASE \E u \in Threads : \E i \in DOMAIN todo'[u] :
              /\ p = <<"todo", u, i>> /\ todo'[u][i].op = "push" /\ todo'[u][i].value = v
              /\ ~ (i = 1 /\ pc'[u] \in Stored)
    <3>0. PICK u \in Threads : \E i \in DOMAIN todo[u] :
              /\ p = <<"todo", u, i>> /\ todo[u][i].op = "push" /\ todo[u][i].value = v
              /\ ~ (i = 1 /\ pc'[u] \in Stored)
      BY <2>1
    <3>1. PICK i \in DOMAIN todo[u] :
              /\ p = <<"todo", u, i>> /\ todo[u][i].op = "push" /\ todo[u][i].value = v
              /\ ~ (i = 1 /\ pc'[u] \in Stored)
      BY <3>0
    <3>2. ~ (i = 1 /\ pc[u] \in Stored) /\ ~ (u = t /\ i = 1)
      BY <3>1
    <3>3. p \in Places(v)
      BY <3>1, <3>2, PlacesOf
    <3> QED
      BY <3>1, <3>2, <3>3
  <2>2. CASE \E m \in Addr : p = <<"data", m, 0>> /\ data'[m] = v
    <3>1. PICK m \in Addr : p = <<"data", m, 0>> /\ data'[m] = v
      BY <2>2
    <3>2. CASE m = n
      <4>1. todo[t][1].value = v /\ From(p) = <<"todo", t, 1>>
        BY <3>1, <3>2, <1>0
      <4>2. <<"todo", t, 1>> \in Places(v)
        BY <4>1, <1>0, PlacesOf
      <4> QED
        BY <4>1, <4>2, <3>1
    <3>3. CASE m # n
      <4>1. data[m] = v /\ From(p) = p
        BY <3>1, <3>3
      <4> QED
        BY <4>1, <3>1, PlacesOf
    <3> QED
      BY <3>2, <3>3
  <2>3. CASE \/ \E u \in Threads : p = <<"taken", u, 0>> /\ taken'[u] = v
             \/ \E u \in Threads : \E i \in DOMAIN results'[u] : p = <<"results", u, i>> /\ results'[u][i] = v
    <3>1. p \in Places(v)
      BY <2>3, PlacesOf
    <3>2. p # <<"data", n, 0>> /\ p # <<"todo", t, 1>>
      BY <2>3
    <3> QED
      BY <3>1, <3>2
  <2> QED
    BY <2>1, <2>2, <2>3, PlacesNext
<1>2. ASSUME NEW p \in Places(v)', NEW q \in Places(v)' PROVE p = q
  <2>1. From(p) = From(q)
    BY <1>1 DEF Alone
  <2> QED
    BY <1>1, <2>1
<1> QED
  BY <1>2 DEF Alone

LEMMA ValueTaken ==
    ASSUME NEW v \in Value, Alone(v), NEW t \in Threads, NEW n \in Addr,
           todo' = todo, results' = results, taken' = [taken EXCEPT ![t] = data[n]],
           data' = [data EXCEPT ![n] = NoValue],
           taken \in [Threads -> Value \cup {NoValue}],
           \A u \in Threads : pc'[u] \in Stored <=> pc[u] \in Stored,
           data \in [Addr -> Value \cup {NoValue}]
    PROVE  Alone(v)'
<1> DEFINE From(p) == IF p = <<"taken", t, 0>> THEN <<"data", n, 0>> ELSE p
<1>0. v # NoValue
  BY ValueAssumption
<1>1. ASSUME NEW p \in Places(v)' PROVE From(p) \in Places(v) /\ p # <<"data", n, 0>>
  <2>1. CASE \E m \in Addr : p = <<"data", m, 0>> /\ data'[m] = v
    <3>1. PICK m \in Addr : p = <<"data", m, 0>> /\ data'[m] = v
      BY <2>1
    <3>2. m # n /\ data[m] = v
      BY <3>1, <1>0
    <3> QED
      BY <3>1, <3>2, PlacesOf
  <2>2. CASE \E u \in Threads : p = <<"taken", u, 0>> /\ taken'[u] = v
    <3>1. PICK u \in Threads : p = <<"taken", u, 0>> /\ taken'[u] = v
      BY <2>2
    <3>2. CASE u = t
      <4>1. data[n] = v /\ From(p) = <<"data", n, 0>>
        BY <3>1, <3>2
      <4>2. <<"data", n, 0>> \in Places(v)
        BY <4>1, PlacesOf
      <4> QED
        BY <4>1, <4>2, <3>1
    <3>3. CASE u # t
      <4>1. taken[u] = v /\ From(p) = p
        BY <3>1, <3>3
      <4> QED
        BY <4>1, <3>1, PlacesOf
    <3> QED
      BY <3>2, <3>3
  <2>3. CASE \/ \E u \in Threads : \E i \in DOMAIN todo'[u] :
                    /\ p = <<"todo", u, i>> /\ todo'[u][i].op = "push" /\ todo'[u][i].value = v
                    /\ ~ (i = 1 /\ pc'[u] \in Stored)
             \/ \E u \in Threads : \E i \in DOMAIN results'[u] : p = <<"results", u, i>> /\ results'[u][i] = v
    <3>1. p \in Places(v)
      BY <2>3, PlacesOf
    <3>2. p # <<"data", n, 0>> /\ p # <<"taken", t, 0>>
      BY <2>3
    <3> QED
      BY <3>1, <3>2
  <2> QED
    BY <2>1, <2>2, <2>3, PlacesNext
<1>2. ASSUME NEW p \in Places(v)', NEW q \in Places(v)' PROVE p = q
  <2>1. From(p) = From(q)
    BY <1>1 DEF Alone
  <2> QED
    BY <1>1, <2>1
<1> QED
  BY <1>2 DEF Alone

LEMMA TailIndex ==
    ASSUME NEW S, NEW s \in Seq(S), s # <<>>, NEW i \in DOMAIN Tail(s)
    PROVE  i \in Nat \ {0} /\ i + 1 \in DOMAIN s /\ Tail(s)[i] = s[i + 1]
OBVIOUS

(* A call returns: the calls left move up, and a Pop() hands its value over. *)
LEMMA ValueReturned ==
    ASSUME TypeOK, NEW v \in Value, Alone(v), NEW t \in Threads,
           data' = data, todo[t] # <<>>, todo' = [todo EXCEPT ![t] = Tail(@)],
           taken' = [taken EXCEPT ![t] = NoValue],
           \/ results' = results
           \/ results' = [results EXCEPT ![t] = Append(@, taken[t])],
           pc'[t] \notin Stored, \A u \in Threads \ {t} : pc'[u] = pc[u]
    PROVE  Alone(v)'
<1>0. /\ v # NoValue /\ todo \in [Threads -> Seq(Call)] /\ results \in [Threads -> Seq(Value \cup {NoValue})]
      /\ taken \in [Threads -> Value \cup {NoValue}]
  BY ValueAssumption DEF TypeOK
<1>1. PICK l \in Nat : l = Len(results[t])
  BY <1>0
<1> DEFINE From(p) == IF p[1] = "todo" /\ p[2] = t THEN <<"todo", t, p[3] + 1>>
                      ELSE IF p = <<"results", t, l + 1>> THEN <<"taken", t, 0>> ELSE p
<1>2. ASSUME NEW p \in Places(v)'
      PROVE  /\ From(p) \in Places(v)
             /\ p # <<"taken", t, 0>>
             /\ p[1] = "todo" /\ p[2] = t => \E i \in Nat : p = <<"todo", t, i>>
  <2>1. CASE \E u \in Threads : \E i \in DOMAIN todo'[u] :
              /\ p = <<"todo", u, i>> /\ todo'[u][i].op = "push" /\ todo'[u][i].value = v
              /\ ~ (i = 1 /\ pc'[u] \in Stored)
    <3>0. PICK u \in Threads : \E i \in DOMAIN todo'[u] :
              /\ p = <<"todo", u, i>> /\ todo'[u][i].op = "push" /\ todo'[u][i].value = v
              /\ ~ (i = 1 /\ pc'[u] \in Stored)
      BY <2>1
    <3>1. PICK i \in DOMAIN todo'[u] :
              /\ p = <<"todo", u, i>> /\ todo'[u][i].op = "push" /\ todo'[u][i].value = v
              /\ ~ (i = 1 /\ pc'[u] \in Stored)
      BY <3>0
    <3>2. CASE u = t
      <4>1. todo'[t] = Tail(todo[t]) /\ todo[t] \in Seq(Call)
        BY <1>0
      <4>2. /\ i \in Nat \ {0} /\ i + 1 \in DOMAIN todo[t] /\ todo'[t][i] = todo[t][i + 1]
        <5>1. todo'[t] = Tail(todo[t]) /\ i \in DOMAIN Tail(todo[t])
          BY <4>1, <3>1, <3>2
        <5>2. i \in Nat \ {0} /\ i + 1 \in DOMAIN todo[t] /\ Tail(todo[t])[i] = todo[t][i + 1]
          BY <4>1, <5>1, TailIndex
        <5> QED
          BY <5>1, <5>2
      <4>3. From(p) = <<"todo", t, i + 1>> /\ i + 1 # 1
        BY <3>1, <3>2, <4>2
      <4>4. <<"todo", t, i + 1>> \in Places(v)
        BY <3>1, <3>2, <4>2, <4>3, PlacesOf
      <4> QED
        BY <3>1, <3>2, <4>2, <4>3, <4>4
    <3>3. CASE u # t
      <4>1. todo'[u] = todo[u] /\ pc'[u] = pc[u]
        BY <1>0, <3>3
      <4>2. From(p) = p
        BY <3>1, <3>3
      <4>3. /\ i \in DOMAIN todo[u] /\ p = <<"todo", u, i>> /\ todo[u][i].op = "push"
            /\ todo[u][i].value = v /\ ~ (i = 1 /\ pc[u] \in Stored)
        BY <3>1, <4>1
      <4>4. p \in Places(v)
        BY <4>3, PlacesOf
      <4> QED
        BY <3>1, <3>3, <4>2, <4>4
    <3> QED
      BY <3>2, <3>3
  <2>2. CASE \E n \in Addr : p = <<"data", n, 0>> /\ data'[n] = v
    <3>1. p \in Places(v)
      BY <2>2, PlacesOf
    <3> QED
      BY <2>2, <3>1
  <2>3. CASE \E u \in Threads : p = <<"taken", u, 0>> /\ taken'[u] = v
    <3>1. PICK u \in Threads : p = <<"taken", u, 0>> /\ taken'[u] = v
      BY <2>3
    <3>2. u # t /\ taken[u] = v
      BY <3>1, <1>0
    <3>3. p \in Places(v)
      BY <3>1, <3>2, PlacesOf
    <3> QED
      BY <3>1, <3>2, <3>3
  <2>4. CASE \E u \in Threads : \E i \in DOMAIN results'[u] : p = <<"results", u, i>> /\ results'[u][i] = v
    <3>0. PICK u \in Threads : \E i \in DOMAIN results'[u] : p = <<"results", u, i>> /\ results'[u][i] = v
      BY <2>4
    <3>1. PICK i \in DOMAIN results'[u] : p = <<"results", u, i>> /\ results'[u][i] = v
      BY <3>0
    <3>2. CASE u = t /\ i = l + 1
      <4>1. taken[t] = v
        <5>1. results[t] \in Seq(Value \cup {NoValue}) /\ taken[t] \in Value \cup {NoValue}
          BY <1>0
        <5>2. CASE results' = results
          BY <5>1, <5>2, <3>1, <3>2, <1>1
        <5>3. CASE results' = [results EXCEPT ![t] = Append(@, taken[t])]
          BY <5>1, <5>3, <3>1, <3>2, <1>0, <1>1
        <5> QED
          BY <5>2, <5>3
      <4>2. From(p) = <<"taken", t, 0>>
        BY <3>1, <3>2
      <4>3. <<"taken", t, 0>> \in Places(v)
        BY <4>1, PlacesOf
      <4> QED
        BY <3>1, <4>2, <4>3
    <3>3. CASE ~ (u = t /\ i = l + 1)
      <4>1. i \in DOMAIN results[u] /\ results[u][i] = v
        <5>1. results[u] \in Seq(Value \cup {NoValue}) /\ results[t] \in Seq(Value \cup {NoValue})
              /\ taken[t] \in Value \cup {NoValue}
          BY <1>0
        <5>2. CASE results' = results
          BY <5>2, <3>1
        <5>3. CASE results' = [results EXCEPT ![t] = Append(@, taken[t])]
          <6>1. CASE u # t
            BY <6>1, <5>3, <3>1, <1>0
          <6>2. CASE u = t
            BY <6>2, <5>1, <5>3, <3>1, <3>3, <1>0, <1>1
          <6> QED
            BY <6>1, <6>2
        <5> QED
          BY <5>2, <5>3
      <4>2. From(p) = p
        BY <3>1, <3>3
      <4>3. p \in Places(v)
        BY <3>1, <4>1, PlacesOf
      <4> QED
        BY <3>1, <4>2, <4>3
    <3> QED
      BY <3>2, <3>3
  <2> QED
    BY <2>1, <2>2, <2>3, <2>4, PlacesNext
<1>3. ASSUME NEW p \in Places(v)', NEW q \in Places(v)' PROVE p = q
  <2>1. From(p) = From(q)
    BY <1>2 DEF Alone
  <2>2. CASE p[1] = "todo" /\ p[2] = t
    <3>1. PICK i \in Nat : p = <<"todo", t, i>>
      BY <1>2, <2>2
    <3>2. From(q) = <<"todo", t, i + 1>>
      BY <2>1, <3>1
    <3>3. q[1] = "todo" /\ q[2] = t
      BY <3>2
    <3>4. PICK j \in Nat : q = <<"todo", t, j>>
      BY <1>2, <3>3
    <3> QED
      BY <3>1, <3>2, <3>4
  <2>3. CASE q[1] = "todo" /\ q[2] = t
    <3>1. PICK i \in Nat : q = <<"todo", t, i>>
      BY <1>2, <2>3
    <3>2. From(p) = <<"todo", t, i + 1>>
      BY <2>1, <3>1
    <3>3. p[1] = "todo" /\ p[2] = t
      BY <3>2
    <3> QED
      BY <3>3, <2>2
  <2>4. CASE ~ (p[1] = "todo" /\ p[2] = t) /\ ~ (q[1] = "todo" /\ q[2] = t)
    BY <2>1, <2>4, <1>2
  <2> QED
    BY <2>2, <2>3, <2>4
<1> QED
  BY <1>3 DEF Alone

LEMMA InitValues == Init => ValueInv
<1> SUFFICES ASSUME Init PROVE ValueInv
  OBVIOUS
<1>1. /\ todo \in Calls /\ data = [n \in Addr |-> NoValue] /\ pc = [t \in Threads |-> "idle"]
      /\ taken = [t \in Threads |-> NoValue] /\ results = [t \in Threads |-> <<>>]
  BY DEF Init
<1>2. ASSUME NEW v \in Value, NEW p \in Places(v)
      PROVE  \E t \in Threads : \E i \in DOMAIN todo[t] :
                p = <<"todo", t, i>> /\ todo[t][i].op = "push" /\ todo[t][i].value = v
  <2>1. v # NoValue
    BY ValueAssumption
  <2>2. \A t \in Threads : DOMAIN results[t] = {}
    BY <1>1
  <2> QED
    BY <1>1, <2>1, <2>2, PlacesOf
<1>3. \A t, u \in Threads : \A i \in DOMAIN todo[t], j \in DOMAIN todo[u] :
        /\ todo[t][i].op = "push" /\ todo[u][j].op = "push" /\ todo[t][i].value = todo[u][j].value
        => t = u /\ i = j
  BY <1>1, DistinctAssumption
<1>4. ASSUME NEW v \in Value, NEW p \in Places(v), NEW q \in Places(v) PROVE p = q
  BY <1>2, <1>3
<1> QED
  BY <1>1, <1>4 DEF ValueInv, Alone

(* The destructor asks for nothing but pops.                                *)
LEMMA ValuesAsked ==
    ASSUME NEW v \in Value, Alone(v), NEW t \in Threads, todo' = [todo EXCEPT ![t] = <<Pop>>],
           UNCHANGED <<data, taken, results, pc>>, todo \in [Threads -> Seq(Call)]
    PROVE  Alone(v)'
<1>1. \A i \in DOMAIN <<Pop>> : <<Pop>>[i].op # "push"
  BY DEF Pop
<1>2. ASSUME NEW p \in Places(v)' PROVE p \in Places(v)
  <2>1. CASE \E u \in Threads : \E i \in DOMAIN todo'[u] :
                    /\ p = <<"todo", u, i>> /\ todo'[u][i].op = "push" /\ todo'[u][i].value = v
                    /\ ~ (i = 1 /\ pc'[u] \in Stored)
    <3>1. PICK u \in Threads : \E i \in DOMAIN todo'[u] :
                    /\ p = <<"todo", u, i>> /\ todo'[u][i].op = "push" /\ todo'[u][i].value = v
                    /\ ~ (i = 1 /\ pc'[u] \in Stored)
      BY <2>1
    <3>2. u # t /\ todo'[u] = todo[u]
      <4>1. todo'[t] = <<Pop>>
        OBVIOUS
      <4> QED
        BY <3>1, <4>1, <1>1
    <3> QED
      BY <3>1, <3>2, PlacesOf
  <2>2. CASE ~ \E u \in Threads : \E i \in DOMAIN todo'[u] :
                    /\ p = <<"todo", u, i>> /\ todo'[u][i].op = "push" /\ todo'[u][i].value = v
                    /\ ~ (i = 1 /\ pc'[u] \in Stored)
    BY <2>2, PlacesOf, PlacesNext
  <2> QED
    BY <2>1, <2>2
<1> QED
  BY <1>2 DEF Alone

LEMMA NextValues == Inv /\ ValueInv /\ [Next]_vars => ValueInv'
<1> SUFFICES ASSUME Inv, ValueInv, [Next]_vars PROVE ValueInv'
  OBVIOUS
<1>0. /\ TypeOK /\ \A v \in Value : Alone(v)
      /\ pc \in [Threads -> Pc] /\ taken \in [Threads -> Value \cup {NoValue}]
      /\ data \in [Addr -> Value \cup {NoValue}] /\ todo \in [Threads -> Seq(Call)]
      /\ results \in [Threads -> Seq(Value \cup {NoValue})]
  BY DEF Inv, ValueInv, TypeOK
(* The steps that move no value.                                            *)
<1>1. ASSUME todo' = todo, results' = results, taken' = taken,
             \A n \in Addr : data'[n] = data[n] \/ data'[n] = NoValue,
             \A u \in Threads : pc'[u] \in Stored <=> pc[u] \in Stored
      PROVE  ValueInv'
  <2>1. ASSUME NEW v \in Value PROVE Alone(v)'
    BY <1>0, <1>1, ValuesStay
  <2> QED
    BY <2>1 DEF ValueInv
<1>2. CASE UNCHANGED vars
  BY <1>1, <1>2 DEF vars, nodeVars, localVars
<1>3. ASSUME NEW t \in Threads, PushStep(t) \/ PopStep(t) PROVE ValueInv'
  <2> USE DEF Goto
  <2>1. /\ \A u \in Threads \ {t} : pc'[u] = pc[u]
        /\ Memory /\ Knows(t)
    <3>1. Others(t)
      BY <1>0, <1>3, OthersStep
    <3>2. destructor \in {"waiting", "popping", "free_head"}
      BY <1>3, StepsBusy DEF Inv, DestructorInv, TypeOK
    <3>3. Memory
      BY <3>2 DEF Inv
    <3> QED
      BY <1>0, <3>1, <3>3, CallKnows DEF Others
  <2>2. ASSUME todo' = todo, results' = results, taken' = taken,
               \A n \in Addr : data'[n] = data[n] \/ data'[n] = NoValue,
               pc'[t] \in Stored <=> pc[t] \in Stored
        PROVE  ValueInv'
    BY <1>1, <2>1, <2>2
  <2>3. CASE PushCall(t)
    <3>1. \A n \in Addr : data'[n] = data[n] \/ data'[n] = NoValue
      BY <1>0, <2>3 DEF PushCall, Constructed
    <3> QED
      BY <3>1, <1>0, <2>2, <2>3 DEF PushCall, Stored
  <2>4. CASE PushHelpLink(t)
    <3>1. \A n \in Addr : data'[n] = data[n] \/ data'[n] = NoValue
      BY <1>0, <2>4 DEF PushHelpLink, Constructed
    <3> QED
      BY <3>1, <1>0, <2>2, <2>4 DEF PushHelpLink, Stored
  <2>5. CASE PushGuard(t) \/ PushLink(t) \/ PushHelpLinked(t)
    BY <1>0, <2>2, <2>5 DEF PushGuard, PushLink, PushHelpLinked, nodeVars, Stored
  <2>6. CASE PushTail(t) \/ PushHelpTail(t)
    BY <1>0, <2>2, <2>6 DEF PushTail, PushHelpTail, SetNewTail, nodeVars, Stored
  <2>7. CASE PushFree(t) \/ PushHelpRelease(t) \/ PopRetry(t)
    BY <1>0, <2>2, <2>7 DEF PushFree, PushHelpRelease, PopRetry, FreeExternalCounter, ReleaseGuard, Settle,
       localVars, Stored
  <2>12. CASE PopFreeHead(t) \/ PopFreeNext(t) \/ PopReleaseNext(t)
    BY <1>0, <2>2, <2>12 DEF PopFreeHead, PopFreeNext, PopReleaseNext, FreeExternalCounter, ReleaseGuard, Settle,
       localVars, Stored
  <2>8. CASE PopCall(t) \/ PopGuard(t) \/ PopCheckEmpty(t) \/ PopGuardNext(t) \/ PopMove(t) \/ PopUnlink(t)
    BY <1>0, <2>2, <2>8 DEF PopCall, PopGuard, PopCheckEmpty, PopGuardNext, PopMove, PopUnlink, nodeVars,
       localVars, Stored
  <2>9. CASE PushData(t)
    <3>1. /\ pc[t] = "push_data" /\ todo' = todo /\ results' = results /\ taken' = taken
          /\ old_ptr[t].ptr \in Addr
      BY <2>1, <2>9 DEF PushData, localVars, Knows, GuardsOld
    <3>2. CASE data[old_ptr[t].ptr] # NoValue
      <4>1. data' = data /\ pc'[t] = "push_help"
        BY <1>0, <2>9, <3>2 DEF PushData
      <4> QED
        BY <3>1, <4>1, <2>2 DEF Stored
    <3>3. CASE data[old_ptr[t].ptr] = NoValue
      <4>1. data' = [data EXCEPT ![old_ptr[t].ptr] = Head(todo[t]).value] /\ pc'[t] = "push_link"
        BY <1>0, <2>9, <3>3 DEF PushData
      <4>2. /\ todo[t] \in Seq(Call) /\ todo[t] # <<>> /\ Head(todo[t]).op = "push"
            /\ pc[t] \notin Stored /\ pc'[t] \in Stored
        BY <1>0, <2>1, <3>1, <4>1 DEF PushPc, Stored, Knows
      <4>3. ASSUME NEW v \in Value PROVE Alone(v)'
        BY <1>0, <2>1, <3>1, <4>1, <4>2, ValueStored
      <4> QED
        BY <4>3 DEF ValueInv
    <3> QED
      BY <3>2, <3>3
  <2>10. CASE PopTake(t)
    <3>1. /\ pc[t] = "pop_take" /\ pc'[t] = "pop_unlink" /\ todo' = todo /\ results' = results
          /\ old_ptr[t].ptr \in Addr
          /\ taken' = [taken EXCEPT ![t] = data[old_ptr[t].ptr]]
          /\ data' = [data EXCEPT ![old_ptr[t].ptr] = NoValue]
      BY <1>0, <2>1, <2>10 DEF PopTake, Knows, GuardsOld
    <3>2. \A u \in Threads : pc'[u] \in Stored <=> pc[u] \in Stored
      BY <2>1, <3>1 DEF Stored
    <3>3. ASSUME NEW v \in Value PROVE Alone(v)'
      BY <1>0, <3>1, <3>2, ValueTaken
    <3> QED
      BY <3>3 DEF ValueInv
  <2>11. CASE PushReturn(t) \/ PopReturn(t)
    <3>1. /\ pc'[t] = "idle" /\ pc[t] \in PushPc \cup PopPc /\ Return(t)
          /\ results' = results \/ results' = [results EXCEPT ![t] = Append(@, taken[t])]
          /\ ReleaseGuard(old_ptr[t])
      BY <1>0, <2>11 DEF PushReturn, PopReturn, Return, PushPc, PopPc
    <3>2. /\ data' = data /\ taken' = [taken EXCEPT ![t] = NoValue] /\ todo[t] # <<>> /\ pc'[t] \notin Stored
          /\ todo' = [todo EXCEPT ![t] = Tail(@)]
      BY <2>1, <3>1 DEF ReleaseGuard, Settle, Return, Stored, Knows
    <3>3. ASSUME NEW v \in Value PROVE Alone(v)'
      BY <1>0, <2>1, <3>1, <3>2, ValueReturned
    <3> QED
      BY <3>3 DEF ValueInv
  <2> QED
    BY <1>3, <2>3, <2>4, <2>5, <2>6, <2>7, <2>8, <2>9, <2>10, <2>11, <2>12 DEF PushStep, PopStep
<1>4. CASE DestructorStarts \/ DestructorPopped
  <2>1. UNCHANGED <<data, taken, results, pc>>
    BY <1>4 DEF DestructorStarts, DestructorPopped, nodeVars, localVars
  <2>2. CASE todo' = todo
    BY <1>1, <2>1, <2>2
  <2>3. CASE todo' = [todo EXCEPT ![Main] = <<Pop>>]
    <3>1. ASSUME NEW v \in Value PROVE Alone(v)'
      BY <1>0, <2>1, <2>3, MainAssumption, ValuesAsked
    <3> QED
      BY <3>1 DEF ValueInv
  <2> QED
    BY <1>4, <2>2, <2>3 DEF DestructorStarts, DestructorPopped
<1>5. CASE DestructorFrees
  BY <1>1, <1>5 DEF DestructorFrees, FreeExternalCounter, Settle, localVars
<1> QED
  BY <1>2, <1>3, <1>4, <1>5 DEF Next

LEMMA PopsFind == Inv => \A t \in Threads : pc[t] = "pop_free_head" => taken[t] # NoValue
<1> SUFFICES ASSUME Inv, NEW t \in Threads, pc[t] = "pop_free_head" PROVE taken[t] # NoValue
  OBVIOUS
<1>1. ~ Idle
  BY DEF Idle
<1>2. Memory
  BY <1>1 DEF Inv, DestructorInv, TypeOK
<1> QED
  BY <1>2 DEF Memory, MemoryInv, LocalInv, LocalOf

(* However the pops race, a value is returned once, and a Pop() that moved  *)
(* head past a node finds the value of that node in it, where each Push()   *)
(* allocates its value (line 127).                                          *)
THEOREM Once == Spec => []PoppedOnce
<1>1. ASSUME Inv, ValueInv PROVE PoppedOnce
  <2>1. /\ results \in [Threads -> Seq(Value \cup {NoValue})]
        /\ \A t \in Threads : pc[t] = "pop_free_head" => taken[t] # NoValue
    BY <1>1, PopsFind DEF Inv, TypeOK
  <2>2. ASSUME NEW t \in Threads, NEW u \in Threads, NEW i \in DOMAIN results[t], NEW j \in DOMAIN results[u],
               results[t][i] = results[u][j], results[t][i] # NoValue
        PROVE  t = u /\ i = j
    <3>1. PICK v : v = results[t][i]
      OBVIOUS
    <3>2. v \in Value
      <4>1. results[t] \in Seq(Value \cup {NoValue})
        BY <2>1
      <4>2. results[t][i] \in Value \cup {NoValue}
        BY <4>1
      <4> QED
        BY <4>2, <2>2, <3>1
    <3>3. <<"results", t, i>> \in Places(v) /\ <<"results", u, j>> \in Places(v)
      BY <2>2, <3>1, PlacesOf
    <3>4. <<"results", t, i>> = <<"results", u, j>>
      BY <1>1, <3>2, <3>3 DEF ValueInv, Alone
    <3> QED
      BY <3>4
  <2>3. ASSUME NEW t \in Threads, NEW u \in Threads, t # u PROVE Popped(t) \cap Popped(u) = {}
    BY <2>2, <2>3 DEF Popped
  <2>4. ASSUME NEW t \in Threads, NEW i \in DOMAIN results[t], NEW j \in DOMAIN results[t],
               results[t][i] = results[t][j]
        PROVE  i = j \/ results[t][i] = NoValue
    BY <2>2, <2>4
  <2> QED
    BY <2>1, <2>3, <2>4 DEF PoppedOnce
<1>2. Init => Inv /\ ValueInv
  BY InvInit, InitValues
<1>3. Inv /\ ValueInv /\ [Next]_vars => (Inv /\ ValueInv)'
  BY InvNext, NextValues
<1> QED
  BY <1>1, <1>2, <1>3, PTL DEF Spec
=============================================================================
