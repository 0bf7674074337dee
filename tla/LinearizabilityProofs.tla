-------------------------- MODULE LinearizabilityProofs --------------------------
(***************************************************************************)
(* Proof that ThreadSafeQueue implements FifoQueue, for every number of    *)
(* threads, every finite set of addresses and every script of calls: the   *)
(* hazard-pointer queue is linearizable.                                   *)
(*                                                                         *)
(* The first half is about the order of the Elements: walking from head    *)
(* along next meets every Element that is neither fresh nor retired, each  *)
(* once, and tail is one of them.  ThreadSafeQueueProofs says what a step  *)
(* does to the nodes; here a sequence q of them is carried along, which an *)
(* enqueue() extends at its end and a dequeue(), or the destructor,        *)
(* shortens at its front.                                                  *)
(*                                                                         *)
(* The items of FifoQueue are the values in the Elements after head, in    *)
(* that order.  enqueue() takes effect when it links its Element,          *)
(* dequeue() when it moves head; a dequeue() that finds nothing read a     *)
(* null next of the Element that was head then, so the list had one        *)
(* Element and FifoQueue no items.                                         *)
(***************************************************************************)
EXTENDS ThreadSafeQueueProofs, ThreadSafeQueueRefinement, SequenceTheorems, WellFoundedInduction

(* link leads from first through the n addresses of q, then to Null.        *)
Leads(first, link, n, q) ==
    /\ first = IF n = 0 THEN Null ELSE q[1]
    /\ \A i \in 1 .. n : link[q[i]] = IF i = n THEN Null ELSE q[i + 1]

Ordered(n, q) ==
    /\ n \in Nat
    /\ q \in [1 .. n -> Addr]
    /\ Leads(First, next, n, q)
    /\ {q[i] : i \in 1 .. n} = Nodes
    /\ \A i, j \in 1 .. n : q[i] = q[j] => i = j

OrderInv == \E n \in Nat : \E q \in [1 .. n -> Addr] : Ordered(n, q)

Longer(n, q, a) == [i \in 1 .. n + 1 |-> IF i = n + 1 THEN a ELSE q[i]]
Shorter(n, q)   == [i \in 1 .. n - 1 |-> q[i + 1]]
-----------------------------------------------------------------------------
(* What the three kinds of steps do to the sequence.                        *)
LEMMA OrderStays ==
    ASSUME NEW n, NEW q, Ordered(n, q), ListStays
    PROVE  Ordered(n, q)'
BY DEF Ordered, Leads, ListStays

LEMMA OrderGrows ==
    ASSUME TypeInv, NEW n, NEW q, Ordered(n, q), NEW t \in Threads, ListGrows(t),
           NEW e, e = new_element[t]
    PROVE  n > 0 /\ node[t] = q[n] /\ Ordered(n + 1, Longer(n, q, e))'
<1> DEFINE r == Longer(n, q, e)
<1>1. /\ n \in Nat /\ q \in [1 .. n -> Addr] /\ {q[i] : i \in 1 .. n} = Nodes
      /\ First = IF n = 0 THEN Null ELSE q[1]
      /\ \A i \in 1 .. n : next[q[i]] = IF i = n THEN Null ELSE q[i + 1]
      /\ \A i, j \in 1 .. n : q[i] = q[j] => i = j
  BY DEF Ordered, Leads
<1>2. /\ Nodes' = Nodes \cup {e} /\ First' = First /\ First # Null
      /\ node[t] \in Nodes /\ e \in Addr \ Nodes
      /\ next[node[t]] = Null /\ next[e] = Null
      /\ next' = [next EXCEPT ![node[t]] = e]
  BY DEF ListGrows
<1>3. n > 0 /\ node[t] = q[n]
  <2>1. PICK i \in 1 .. n : node[t] = q[i]
    BY <1>1, <1>2
  <2>2. i = n
    <3> SUFFICES ASSUME i # n PROVE FALSE
      OBVIOUS
    <3>1. q[i + 1] = Null /\ i + 1 \in 1 .. n
      BY <1>1, <1>2, <2>1
    <3> QED
      BY <3>1, <1>1, NullAssumption
  <2> QED
    BY <2>1, <2>2, <1>1
<1>4. r \in [1 .. n + 1 -> Addr] /\ \A i \in 1 .. n : r[i] = q[i] /\ r[n + 1] = e
  BY <1>1, <1>2 DEF Longer
<1>5. \A i \in 1 .. n : q[i] # e /\ q[i] \in Addr
  BY <1>1, <1>2
<1>6. next'[e] = Null /\ \A i \in 1 .. n : next'[q[i]] = IF i = n THEN e ELSE q[i + 1]
  BY <1>1, <1>2, <1>3, <1>5 DEF TypeInv, TypeOK
<1>7. {r[i] : i \in 1 .. n + 1} = Nodes'
  <2>1. n + 1 \in 1 .. n + 1 /\ r[n + 1] = e
    <3>1. 1 \in 1 .. n
      BY <1>1, <1>3
    <3> QED
      BY <3>1, <1>1, <1>4
  <2>2. ASSUME NEW i \in 1 .. n + 1 PROVE r[i] \in Nodes \cup {e}
    <3>1. CASE i = n + 1
      BY <3>1, <2>1
    <3>2. CASE i \in 1 .. n
      BY <3>2, <1>1, <1>4
    <3> QED
      BY <3>1, <3>2, <1>1
  <2>3. ASSUME NEW a \in Nodes PROVE \E i \in 1 .. n + 1 : r[i] = a
    <3>1. PICK i \in 1 .. n : q[i] = a
      BY <1>1
    <3>2. r[i] = a /\ i \in 1 .. n + 1
      BY <3>1, <1>1, <1>4
    <3> QED
      BY <3>2
  <2> QED
    BY <2>1, <2>2, <2>3, <1>2
<1>8. \A i, j \in 1 .. n + 1 : r[i] = r[j] => i = j
  <2> SUFFICES ASSUME NEW i \in 1 .. n + 1, NEW j \in 1 .. n + 1, r[i] = r[j] PROVE i = j
    OBVIOUS
  <2>1. \A k \in 1 .. n + 1 : k \in 1 .. n \/ k = n + 1
    BY <1>1
  <2> QED
    BY <2>1, <1>1, <1>4, <1>5
<1>9. \A i \in 1 .. n + 1 : next'[r[i]] = IF i = n + 1 THEN Null ELSE r[i + 1]
  <2> SUFFICES ASSUME NEW i \in 1 .. n + 1
               PROVE  next'[r[i]] = IF i = n + 1 THEN Null ELSE r[i + 1]
    OBVIOUS
  <2>1. CASE i = n + 1
    BY <2>1, <1>1, <1>4, <1>6, <1>3
  <2>2. CASE i = n
    BY <2>2, <1>1, <1>3, <1>4, <1>6
  <2>3. CASE i \in 1 .. n - 1
    <3>1. i \in 1 .. n /\ i + 1 \in 1 .. n /\ i # n /\ i # n + 1
      BY <2>3, <1>1
    <3> QED
      BY <3>1, <1>4, <1>6
  <2> QED
    BY <2>1, <2>2, <2>3, <1>1
<1>10. First' = r[1] /\ n + 1 # 0 /\ n + 1 \in Nat
  BY <1>1, <1>2, <1>3, <1>4
<1> HIDE DEF r
<1>11. Leads(First', next', n + 1, r)
  BY <1>9, <1>10 DEF Leads
<1>12. Ordered(n + 1, r)'
  BY <1>4, <1>7, <1>8, <1>10, <1>11 DEF Ordered
<1> QED
  BY <1>3, <1>12 DEF r

LEMMA OrderShrinks ==
    ASSUME NEW n, NEW q, Ordered(n, q), ListShrinks
    PROVE  n > 0 /\ Ordered(n - 1, Shorter(n, q))'
<1> DEFINE r == Shorter(n, q)
<1>1. /\ n \in Nat /\ q \in [1 .. n -> Addr] /\ {q[i] : i \in 1 .. n} = Nodes
      /\ First = IF n = 0 THEN Null ELSE q[1]
      /\ \A i \in 1 .. n : next[q[i]] = IF i = n THEN Null ELSE q[i + 1]
      /\ \A i, j \in 1 .. n : q[i] = q[j] => i = j
  BY DEF Ordered, Leads
<1>2. First # Null /\ Nodes' = Nodes \ {First} /\ First' = next[First] /\ next' = next
  BY DEF ListShrinks
<1>3. n > 0 /\ First = q[1] /\ n - 1 \in Nat
  BY <1>1, <1>2
<1>4. /\ r \in [1 .. n - 1 -> Addr]
      /\ \A i \in 1 .. n - 1 : r[i] = q[i + 1] /\ i + 1 \in 1 .. n
  BY <1>1, <1>3 DEF Shorter
<1>5. First' = IF n - 1 = 0 THEN Null ELSE r[1]
  BY <1>1, <1>2, <1>3, <1>4
<1>6. \A i \in 1 .. n - 1 : next'[r[i]] = IF i = n - 1 THEN Null ELSE r[i + 1]
  <2> SUFFICES ASSUME NEW i \in 1 .. n - 1
               PROVE  next'[r[i]] = IF i = n - 1 THEN Null ELSE r[i + 1]
    OBVIOUS
  <2>1. next'[r[i]] = IF i + 1 = n THEN Null ELSE q[i + 2]
    BY <1>1, <1>2, <1>4
  <2>2. i # n - 1 => i + 1 \in 1 .. n - 1 /\ r[i + 1] = q[i + 2]
    BY <1>3, <1>4
  <2> QED
    BY <2>1, <2>2, <1>1, <1>3
<1>7. \A i, j \in 1 .. n - 1 : r[i] = r[j] => i = j
  <2> SUFFICES ASSUME NEW i \in 1 .. n - 1, NEW j \in 1 .. n - 1, r[i] = r[j] PROVE i = j
    OBVIOUS
  <2>1. i + 1 = j + 1
    BY <1>1, <1>4
  <2> QED
    BY <2>1
<1>8. {r[i] : i \in 1 .. n - 1} = Nodes'
  <2>1. \A i \in 1 .. n - 1 : r[i] \in Nodes /\ r[i] # First
    BY <1>1, <1>3, <1>4
  <2>2. ASSUME NEW a \in Nodes', a \notin {r[i] : i \in 1 .. n - 1} PROVE FALSE
    <3>1. PICK j \in 1 .. n : a = q[j]
      BY <1>1, <1>2
    <3>2. j # 1
      BY <1>2, <1>3, <3>1
    <3>3. j - 1 \in 1 .. n - 1 /\ (j - 1) + 1 = j
      BY <1>1, <3>2
    <3>4. r[j - 1] = q[j]
      BY <1>4, <3>3
    <3> QED
      BY <2>2, <3>1, <3>3, <3>4
  <2> QED
    BY <2>1, <2>2, <1>2
<1> HIDE DEF r
<1>9. Leads(First', next', n - 1, r)
  BY <1>5, <1>6 DEF Leads
<1>10. Ordered(n - 1, r)'
  BY <1>3, <1>4, <1>7, <1>8, <1>9 DEF Ordered
<1> QED
  BY <1>3, <1>10 DEF r

(* So every step of the program keeps the Elements in order.                *)
LEMMA InitOrder == Init => OrderInv
<1> SUFFICES ASSUME Init PROVE OrderInv
  OBVIOUS
<1>1. PICK dummy \in Addr :
         /\ live = {dummy} /\ head = dummy /\ tail = dummy
         /\ next = [a \in Addr |-> Null]
         /\ pc = [t \in Threads |-> "idle"]
         /\ pointers_to_delete = [t \in Threads |-> {}]
  BY DEF Init, HPInit
<1>2. ~Destructing /\ \A t \in Threads : Private(t) = {}
  BY <1>1 DEF Destructing, Private, EnqueuePc
<1>3. Nodes = {dummy} /\ First = dummy
  BY <1>1, <1>2 DEF Retired, Linked, Nodes, First
<1> DEFINE q == [i \in 1 .. 1 |-> dummy]
<1>4. q \in [1 .. 1 -> Addr] /\ q[1] = dummy /\ \A i \in 1 .. 1 : i = 1
  OBVIOUS
<1>5. Leads(First, next, 1, q)
  BY <1>1, <1>3, <1>4 DEF Leads
<1>6. {q[i] : i \in 1 .. 1} = Nodes
  BY <1>3
<1>7. Ordered(1, q)
  BY <1>4, <1>5, <1>6 DEF Ordered
<1> QED
  BY <1>4, <1>7 DEF OrderInv

LEMMA NextOrder == Inv /\ MemoryInv /\ OrderInv /\ [Next]_vars => OrderInv'
<1> SUFFICES ASSUME Inv, MemoryInv, OrderInv, [Next]_vars PROVE OrderInv'
  OBVIOUS
<1>1. PICK n \in Nat : \E q \in [1 .. n -> Addr] : Ordered(n, q)
  BY DEF OrderInv
<1>2. PICK q \in [1 .. n -> Addr] : Ordered(n, q)
  BY <1>1
<1>3. ASSUME NEW m, NEW r, Ordered(m, r)' PROVE OrderInv'
  BY <1>3 DEF OrderInv, Ordered
<1>4. CASE ListStays
  BY <1>2, <1>3, <1>4, OrderStays
<1>5. CASE \E t \in Threads : ListGrows(t)
  BY <1>2, <1>3, <1>5, OrderGrows DEF Inv
<1>6. CASE ListShrinks
  BY <1>2, <1>3, <1>6, OrderShrinks
<1>7. ListStays \/ (\E t \in Threads : ListGrows(t)) \/ ListShrinks
  <2>1. CASE \E t \in Threads : ThreadStep(t)
    BY <2>1, ThreadList
  <2>2. CASE DestructorStep
    BY <2>2, DestructorKeeps DEF Inv
  <2>3. CASE UNCHANGED vars
    BY <2>3 DEF vars, hpVars, queueVars, callVars, ListStays, Nodes, Linked, Retired, First,
       Private, Destructing
  <2> QED
    BY <2>1, <2>2, <2>3 DEF Next, Finished
<1> QED
  BY <1>4, <1>5, <1>6, <1>7

LEMMA OrderInvariance == Spec => [](Inv /\ MemoryInv /\ OrderInv)
BY InitOrder, NextOrder, MemoryInvariance, PTL DEF Spec

-----------------------------------------------------------------------------
(* A nonempty set of naturals has a least element.                          *)
LEMMA LeastNatural ==
    ASSUME NEW S \in SUBSET Nat, S # {}
    PROVE  \E x \in S : \A y \in S : x <= y
<1>1. \E x \in S : \A y \in S : ~(<<y, x>> \in OpToRel(<, Nat))
  BY NatLessThanWellFounded, WFMin
<1>2. ASSUME NEW x \in Nat, NEW y \in Nat, ~(<<y, x>> \in OpToRel(<, Nat))
      PROVE  x <= y
  BY <1>2 DEF OpToRel
<1> QED
  BY <1>1, <1>2

(* Walk meets the addresses of q, in their order, and then Null.  Its        *)
(* equation has one solution on 0 .. Cardinality(Addr), and that is one:     *)
(* two solutions would differ at a least index.                              *)
Met(n, q) == [i \in 0 .. Cardinality(Addr) |-> IF i < n THEN q[i + 1] ELSE Null]

LEMMA WalkMeets ==
    ASSUME NEW first, NEW link, NEW n \in Nat, NEW q \in [1 .. n -> Addr],
           Leads(first, link, n, q)
    PROVE  Walk(first, link) = Met(n, q)
<1> DEFINE C == Cardinality(Addr)
           Along(g) == g = [i \in 0 .. C |->
               IF i = 0 THEN first ELSE IF g[i - 1] = Null THEN Null ELSE link[g[i - 1]]]
<1>1. C \in Nat
  BY AddrAssumption, FS_CardinalityType
<1>2. Walk(first, link) = CHOOSE g : Along(g)
  BY DEF Walk
<1>3. Along(Met(n, q))
  <2> SUFFICES ASSUME NEW i \in 0 .. C
               PROVE  Met(n, q)[i] =
                   IF i = 0 THEN first
                   ELSE IF Met(n, q)[i - 1] = Null THEN Null ELSE link[Met(n, q)[i - 1]]
    BY DEF Met
  <2>1. CASE i = 0
    BY <2>1, <1>1 DEF Met, Leads
  <2>2. CASE i # 0
    <3>1. i - 1 \in 0 .. C /\ (i - 1) + 1 = i
      BY <2>2, <1>1
    <3>2. CASE i - 1 < n
      <4>1. i \in 1 .. n /\ Met(n, q)[i - 1] = q[i] /\ q[i] # Null
        BY <3>1, <3>2, <2>2, NullAssumption DEF Met
      <4>2. Met(n, q)[i] = IF i = n THEN Null ELSE q[i + 1]
        BY <4>1, <1>1 DEF Met
      <4> QED
        BY <4>1, <4>2, <2>2 DEF Leads
    <3>3. CASE ~(i - 1 < n)
      BY <3>1, <3>3, <2>2, <1>1 DEF Met
    <3> QED
      BY <3>2, <3>3
  <2> QED
    BY <2>1, <2>2
<1>4. ASSUME NEW g, Along(g) PROVE g = Met(n, q)
  <2>1. /\ \A i \in 0 .. C : g[i] = IF i = 0 THEN first
               ELSE IF g[i - 1] = Null THEN Null ELSE link[g[i - 1]]
        /\ g = [i \in 0 .. C |-> g[i]]
    <3> DEFINE value(i) == IF i = 0 THEN first
                           ELSE IF g[i - 1] = Null THEN Null ELSE link[g[i - 1]]
    <3>1. g = [i \in 0 .. C |-> value(i)]
      BY <1>4
    <3> HIDE DEF value
    <3>2. \A i \in 0 .. C : g[i] = value(i)
      BY <3>1
    <3>3. g = [i \in 0 .. C |-> g[i]]
      BY <3>1
    <3> QED
      BY <3>2, <3>3 DEF value
  <2>2. \A i \in 0 .. C : Met(n, q)[i] = IF i = 0 THEN first
           ELSE IF Met(n, q)[i - 1] = Null THEN Null ELSE link[Met(n, q)[i - 1]]
    BY <1>3
  <2> DEFINE Differ == {i \in 0 .. C : g[i] # Met(n, q)[i]}
  <2>3. Differ = {}
    <3> SUFFICES ASSUME Differ # {} PROVE FALSE
      OBVIOUS
    <3>1. Differ \in SUBSET Nat
      BY <1>1
    <3>2. PICK i \in Differ : \A j \in Differ : i <= j
      BY <3>1, LeastNatural
    <3>3. i # 0
      BY <2>1, <2>2, <3>2
    <3>4. i - 1 \in 0 .. C /\ i - 1 \notin Differ
      BY <1>1, <3>1, <3>2, <3>3
    <3>5. g[i - 1] = Met(n, q)[i - 1]
      BY <3>4
    <3> QED
      BY <2>1, <2>2, <3>2, <3>3, <3>5
  <2> QED
    BY <2>1, <2>3 DEF Met
<1> HIDE DEF Along
<1>5. Along(CHOOSE g : Along(g))
  BY <1>3
<1> QED
  BY <1>2, <1>4, <1>5

(* There are no more nodes than addresses.                                  *)
LEMMA NoMoreThanAddr ==
    ASSUME NEW n \in Nat, NEW q \in [1 .. n -> Addr],
           \A i, j \in 1 .. n : q[i] = q[j] => i = j
    PROVE  n <= Cardinality(Addr)
<1>1. q \in Injection(1 .. n, Addr)
  BY DEF Injection, IsInjective
<1>2. Cardinality(1 .. n) <= Cardinality(Addr)
  BY <1>1, AddrAssumption, FS_Injection
<1> QED
  BY <1>2, FS_Interval

(* So the walk along next meets exactly the nodes.                          *)
LEMMA ChainIsNodes == OrderInv => Chain(First) = Nodes
<1> SUFFICES ASSUME NEW n \in Nat, NEW q \in [1 .. n -> Addr], Ordered(n, q)
             PROVE  Chain(First) = Nodes
  BY DEF OrderInv
<1> DEFINE C == Cardinality(Addr)
<1>1. C \in Nat /\ n <= C
  BY AddrAssumption, FS_CardinalityType, NoMoreThanAddr DEF Ordered
<1>2. Walk(First, next) = Met(n, q)
  BY WalkMeets DEF Ordered
<1>3. Chain(First) = {Met(n, q)[i] : i \in 0 .. C} \ {Null}
  BY <1>2 DEF Chain
<1>4. \A i \in 0 .. C : Met(n, q)[i] = IF i < n THEN q[i + 1] ELSE Null
  BY DEF Met
<1>5. \A i \in 0 .. C : i < n => i + 1 \in 1 .. n
  BY <1>1
<1>6. \A j \in 1 .. n : j - 1 \in 0 .. C /\ j - 1 < n /\ Met(n, q)[j - 1] = q[j] /\ q[j] # Null
  BY <1>1, <1>4, NullAssumption
<1>7. {Met(n, q)[i] : i \in 0 .. C} \ {Null} = {q[j] : j \in 1 .. n}
  <2>1. ASSUME NEW i \in 0 .. C, Met(n, q)[i] # Null
        PROVE  Met(n, q)[i] \in {q[j] : j \in 1 .. n}
    BY <2>1, <1>4, <1>5
  <2>2. ASSUME NEW j \in 1 .. n
        PROVE  q[j] \in {Met(n, q)[i] : i \in 0 .. C} \ {Null}
    BY <1>6
  <2> QED
    BY <2>1, <2>2
<1> QED
  BY <1>3, <1>7 DEF Ordered

(* For any number of threads, addresses and calls, an allocated Element is  *)
(* in exactly one place: reachable from head, retired by one thread, or     *)
(* held by the enqueue() that is about to link it.                          *)
THEOREM Partition == Spec => []MemoryPartition
<1>1. ASSUME Inv, MemoryInv, OrderInv PROVE MemoryPartition
  <2>1. InQueue = Nodes
    BY <1>1, ChainIsNodes DEF InQueue, First
  <2>2. /\ \A t \in Threads : pointers_to_delete[t] \subseteq Linked /\ Private(t) \subseteq live
        /\ \A t \in Threads : \A u \in Threads \ {t} :
              /\ pointers_to_delete[t] \cap pointers_to_delete[u] = {}
              /\ Private(t) \cap Private(u) = {}
    BY <1>1 DEF MemoryInv, HeapInv
  <2>3. \A t \in Threads : pointers_to_delete[t] \subseteq Retired
    BY <1>1 DEF Retired, Inv, TypeInv, TypeOK, HPTypeOK
  <2>4. \A t \in Threads : Private(t) \cap Linked = {}
    BY DEF Linked
  <2>5. live \subseteq Nodes \cup UNION {pointers_to_delete[t] \cup Private(t) : t \in Threads}
    BY DEF Nodes, Linked, Retired
  <2>6. Nodes \subseteq Linked \ Retired /\ Linked \subseteq live
    BY DEF Nodes, Linked
  <2> QED
    BY <2>1, <2>2, <2>3, <2>4, <2>5, <2>6 DEF MemoryPartition
<1> QED
  BY <1>1, OrderInvariance, PTL

(* For any number of threads, addresses and calls, tail never falls out of  *)
(* the list that starts at head.                                            *)
THEOREM TailKept == Spec => []TailInQueue
<1>1. ASSUME MemoryInv, OrderInv PROVE TailInQueue
  <2> SUFFICES ASSUME ~Destructing PROVE tail \in Chain(head)
    BY DEF TailInQueue
  <2>1. Chain(head) = Nodes
    BY <1>1, ChainIsNodes DEF First
  <2> QED
    BY <1>1, <2>1 DEF MemoryInv, ListInv
<1> QED
  BY <1>1, OrderInvariance, PTL

-----------------------------------------------------------------------------
(* The items, in the order of the Elements.                                 *)

(* The data in the addresses of q after the first one.                      *)
Data(n, q, data) == [i \in 1 .. n - 1 |-> data[q[i + 1]]]

LEMMA DataIsSeq ==
    ASSUME NEW S, NEW data \in [Addr -> S],
           NEW n \in Nat \ {0}, NEW q \in [1 .. n -> Addr]
    PROVE  /\ Data(n, q, data) \in Seq(S)
           /\ Len(Data(n, q, data)) = n - 1
<1>1. \A i \in 1 .. n - 1 : q[i + 1] \in Addr
  OBVIOUS
<1>2. Data(n, q, data) \in [1 .. n - 1 -> S] /\ n - 1 \in Nat
  BY <1>1 DEF Data
<1> QED
  BY <1>2

(* Contents finds them.                                                     *)
LEMMA ContentsAre ==
    ASSUME NEW first, NEW link, NEW data,
           NEW n \in Nat \ {0}, NEW q \in [1 .. n -> Addr],
           Leads(first, link, n, q), \A i, j \in 1 .. n : q[i] = q[j] => i = j
    PROVE  Contents(first, link, data) = Data(n, q, data)
<1> DEFINE C == Cardinality(Addr)
<1>1. C \in Nat /\ n <= C
  BY AddrAssumption, FS_CardinalityType, NoMoreThanAddr
<1>2. Walk(first, link) = Met(n, q)
  BY WalkMeets
<1>3. \A i \in 1 .. C : Met(n, q)[i] = IF i < n THEN q[i + 1] ELSE Null
  BY <1>1 DEF Met
<1>4. {i \in 1 .. C : Met(n, q)[i] # Null} = 1 .. n - 1
  <2>1. ASSUME NEW i \in 1 .. C PROVE Met(n, q)[i] # Null <=> i < n
    <3>1. i < n => q[i + 1] # Null
      BY <1>1, NullAssumption
    <3> QED
      BY <3>1, <1>3
  <2> QED
    BY <2>1, <1>1
<1>5. Cardinality(1 .. n - 1) = n - 1
  BY FS_Interval
<1>6. Contents(first, link, data) = [i \in 1 .. n - 1 |-> data[Met(n, q)[i]]]
  BY <1>2, <1>4, <1>5 DEF Contents
<1>7. \A i \in 1 .. n - 1 : Met(n, q)[i] = q[i + 1]
  BY <1>1, <1>3
<1> QED
  BY <1>6, <1>7 DEF Data

LEMMA DataLonger ==
    ASSUME NEW S, NEW data \in [Addr -> S],
           NEW n \in Nat \ {0}, NEW q \in [1 .. n -> Addr], NEW e \in Addr
    PROVE  Data(n + 1, Longer(n, q, e), data) = Append(Data(n, q, data), data[e])
<1> DEFINE r == Longer(n, q, e)
           s == Data(n, q, data)
           l == Data(n + 1, r, data)
<1>1. r \in [1 .. n + 1 -> Addr] /\ r[n + 1] = e /\ \A i \in 1 .. n : r[i] = q[i]
  BY DEF Longer
<1>2. l \in Seq(S) /\ Len(l) = n /\ \A i \in 1 .. n : l[i] = data[r[i + 1]]
  <2>1. n + 1 \in Nat \ {0} /\ (n + 1) - 1 = n
    OBVIOUS
  <2>2. l \in Seq(S) /\ Len(l) = (n + 1) - 1
    BY <1>1, <2>1, DataIsSeq
  <2>3. \A i \in 1 .. (n + 1) - 1 : l[i] = data[r[i + 1]]
    BY DEF Data
  <2> QED
    BY <2>1, <2>2, <2>3
<1>3. s \in Seq(S) /\ Len(s) = n - 1 /\ \A i \in 1 .. n - 1 : s[i] = data[q[i + 1]]
  <2>1. s \in Seq(S) /\ Len(s) = n - 1
    BY DataIsSeq
  <2> QED
    BY <2>1 DEF Data
<1> DEFINE a == Append(s, data[e])
<1> HIDE DEF s, r
<1>4. a \in Seq(S) /\ Len(a) = n /\ a[n] = data[e] /\ \A i \in 1 .. n - 1 : a[i] = s[i]
  BY <1>3, AppendProperties
<1>5. ASSUME NEW i \in 1 .. n PROVE l[i] = a[i]
  <2>1. CASE i = n
    BY <2>1, <1>1, <1>2, <1>4
  <2>2. CASE i # n
    <3>1. i \in 1 .. n - 1 /\ i + 1 \in 1 .. n
      BY <2>2
    <3> QED
      BY <3>1, <1>1, <1>2, <1>3, <1>4
  <2> QED
    BY <2>1, <2>2
<1> HIDE DEF l, a
<1>6. l = a
  BY <1>2, <1>4, <1>5, SeqEqual
<1> QED
  BY <1>6 DEF l, a, s, r

LEMMA DataShorter ==
    ASSUME NEW S, NEW data \in [Addr -> S],
           NEW n \in Nat, n > 1, NEW q \in [1 .. n -> Addr]
    PROVE  /\ Data(n, q, data) # <<>>
           /\ Data(n - 1, Shorter(n, q), data) = Tail(Data(n, q, data))
           /\ data[q[2]] = Head(Data(n, q, data))
<1> DEFINE r == Shorter(n, q)
           s == Data(n, q, data)
           l == Data(n - 1, r, data)
<1>1. r \in [1 .. n - 1 -> Addr] /\ \A i \in 1 .. n - 1 : r[i] = q[i + 1]
  BY DEF Shorter
<1>2. l \in Seq(S) /\ Len(l) = n - 2 /\ \A i \in 1 .. n - 2 : l[i] = data[r[i + 1]]
  <2>1. n - 1 \in Nat \ {0} /\ (n - 1) - 1 = n - 2
    OBVIOUS
  <2>2. \A m \in Nat \ {0} : r \in [1 .. m -> Addr] =>
            Data(m, r, data) \in Seq(S) /\ Len(Data(m, r, data)) = m - 1
    BY DataIsSeq
  <2>3. l \in Seq(S) /\ Len(l) = (n - 1) - 1
    BY <1>1, <2>1, <2>2
  <2>4. \A i \in 1 .. (n - 1) - 1 : l[i] = data[r[i + 1]]
    BY DEF Data
  <2> QED
    BY <2>1, <2>3, <2>4
<1>3. s \in Seq(S) /\ Len(s) = n - 1 /\ \A i \in 1 .. n - 1 : s[i] = data[q[i + 1]]
  <2>1. n \in Nat \ {0}
    OBVIOUS
  <2>2. s \in Seq(S) /\ Len(s) = n - 1
    BY <2>1, DataIsSeq
  <2> QED
    BY <2>2 DEF Data
<1> HIDE DEF s, r
<1>4. s # <<>>
  BY <1>3
<1>5. Head(s) = s[1] /\ s[1] = data[q[2]]
  BY <1>3, <1>4
<1>6. /\ Tail(s) \in Seq(S) /\ Len(Tail(s)) = n - 2
      /\ \A i \in 1 .. n - 2 : Tail(s)[i] = s[i + 1]
  BY <1>3, <1>4, HeadTailProperties
<1>7. ASSUME NEW i \in 1 .. n - 2 PROVE l[i] = Tail(s)[i]
  <2>1. i \in 1 .. n - 2 /\ i + 1 \in 1 .. n - 1 /\ (i + 1) + 1 = i + 2
    OBVIOUS
  <2> QED
    BY <2>1, <1>1, <1>2, <1>3, <1>6
<1> HIDE DEF l
<1>8. l = Tail(s)
  BY <1>2, <1>6, <1>7, SeqEqual
<1> QED
  BY <1>4, <1>5, <1>8 DEF l, s, r

-----------------------------------------------------------------------------
(* What each step does to the state of FifoQueue.                           *)

(* Only new Element sets a stored_value, where nothing was allocated.       *)
LEMMA DataStay ==
    ASSUME TypeInv, NEW t \in Threads, ThreadStep(t)
    PROVE  /\ \A a \in live : stored_value'[a] = stored_value[a]
           /\ ~Enqueue(t) => stored_value' = stored_value
<1>1. CASE Enqueue(t)
  BY <1>1 DEF Enqueue, TypeInv, TypeOK, HPTypeOK
<1>2. CASE ~Enqueue(t) /\ EnqueueStep(t)
  BY <1>2 DEF EnqueueStep, EnqueueProtected, EnqueueNext, EnqueueHelp, EnqueueLink, EnqueueRetry,
              EnqueueSwing, queueVars
<1>3. CASE DequeueStep(t)
  BY <1>3 DEF DequeueStep, Dequeue, DequeueHeadProtected, DequeueNextProtected, DequeueRecheck,
              DequeueStale, DequeueEmpty, DequeueTail, DequeueHelp, DequeueMove, DequeueRetry,
              DequeueReturn, queueVars
<1>4. CASE HazardStep(t) \/ CleanupLocals(t) \/ Join(t)
  BY <1>4 DEF HazardStep, CleanupLocals, Join, queueVars
<1> QED
  BY <1>1, <1>2, <1>3, <1>4 DEF ThreadStep

LEMMA ItemsEffect ==
    ASSUME Inv, MemoryInv, OrderInv, NEW t \in Threads, ThreadStep(t)
    PROVE  /\ EnqueueLink(t) => itemsView' = Append(itemsView, stored_value[new_element[t]])
           /\ DequeueMove(t) => /\ itemsView # <<>>
                               /\ itemsView' = Tail(itemsView)
                               /\ stored_value[succ[t]] = Head(itemsView)
           /\ ~EnqueueLink(t) /\ ~DequeueMove(t) => itemsView' = itemsView
<1>1. PICK n \in Nat : \E r \in [1 .. n -> Addr] : Ordered(n, r)
  BY DEF OrderInv
<1>2. PICK q \in [1 .. n -> Addr] : Ordered(n, q)
  BY <1>1
<1>3. /\ TypeInv /\ HeapInv /\ ListInv /\ PhaseInv /\ HoldInv
      /\ stored_value \in [Addr -> Value \cup {Unset}]
  BY DEF Inv, MemoryInv, TypeInv, TypeOK
<1>4. ~Destructing /\ ~Destructing'
  BY <1>3, Running
<1>5. First = head /\ First' = head'
  BY <1>4 DEF First
<1>6. n # 0 /\ q[1] = head
  BY <1>2, <1>3, <1>4, <1>5, NullAssumption DEF Ordered, Leads, ListInv, Nodes, Linked, TypeInv, TypeOK
<1>7. itemsView = Data(n, q, stored_value)
  BY <1>2, <1>5, <1>6, ContentsAre DEF itemsView, Ordered
<1>8. ASSUME NEW m \in Nat \ {0}, NEW r, Ordered(m, r)'
      PROVE  itemsView' = Data(m, r, stored_value')
  BY <1>5, <1>8, ContentsAre DEF itemsView, Ordered
<1>9. CASE EnqueueLink(t)
  <2>1. ListGrows(t)
    BY <1>3, <1>9, KeepLink
  <2>2. new_element[t] \in Addr
    BY <2>1 DEF ListGrows
  <2>3. PICK e \in Addr : e = new_element[t]
    BY <2>2
  <2>4. Ordered(n + 1, Longer(n, q, e))'
    BY <1>2, <1>3, <2>1, <2>3, OrderGrows
  <2>5. stored_value' = stored_value
    BY <1>9 DEF EnqueueLink
  <2>6. itemsView' = Data(n + 1, Longer(n, q, e), stored_value)
    BY <1>8, <2>4, <2>5
  <2>7. Data(n + 1, Longer(n, q, e), stored_value)
           = Append(Data(n, q, stored_value), stored_value[e])
    BY <1>2, <1>3, <1>6, DataLonger
  <2>8. ~DequeueMove(t)
    BY <1>9 DEF EnqueueLink, DequeueMove, Goto
  <2> QED
    BY <1>7, <1>9, <2>3, <2>6, <2>7, <2>8
<1>10. CASE DequeueMove(t)
  <2>1. ListShrinks
    BY <1>3, <1>10, KeepMove
  <2>2. head' = succ[t] /\ succ[t] \in Addr /\ stored_value' = stored_value
    BY <1>3, <1>10 DEF DequeueMove, Goto, TypeInv, LocalInv
  <2>3. succ[t] = next[q[1]]
    BY <1>5, <1>6, <2>1, <2>2 DEF ListShrinks
  <2>4. n # 1 /\ succ[t] = q[2]
    BY <1>2, <1>6, <2>2, <2>3, NullAssumption DEF Ordered, Leads
  <2>5. n > 1 /\ n - 1 \in Nat \ {0}
    BY <1>6, <2>4
  <2>6. Ordered(n - 1, Shorter(n, q))'
    BY <1>2, <2>1, OrderShrinks
  <2>7. itemsView' = Data(n - 1, Shorter(n, q), stored_value)
    BY <1>8, <2>2, <2>5, <2>6
  <2>8. /\ Data(n, q, stored_value) # <<>>
        /\ Data(n - 1, Shorter(n, q), stored_value) = Tail(Data(n, q, stored_value))
        /\ stored_value[q[2]] = Head(Data(n, q, stored_value))
    BY <1>2, <1>3, <2>5, DataShorter
  <2>9. ~EnqueueLink(t)
    BY <1>10 DEF EnqueueLink, DequeueMove, Goto
  <2> QED
    BY <1>7, <1>10, <2>4, <2>7, <2>8, <2>9
<1>11. CASE ~EnqueueLink(t) /\ ~DequeueMove(t)
  <2>1. ListStays
    BY <1>11, ThreadList
  <2>2. Ordered(n, q)'
    BY <1>2, <2>1, OrderStays
  <2>3. itemsView' = Data(n, q, stored_value')
    BY <1>6, <1>8, <2>2
  <2>4. \A i \in 1 .. n : stored_value'[q[i]] = stored_value[q[i]]
    BY <1>2, <1>3, DataStay DEF Ordered, Nodes, Linked
  <2>5. \A i \in 1 .. n - 1 : stored_value'[q[i + 1]] = stored_value[q[i + 1]]
    BY <2>4
  <2>6. Data(n, q, stored_value') = Data(n, q, stored_value)
    BY <2>5 DEF Data
  <2> QED
    BY <1>7, <1>11, <2>3, <2>6
<1> QED
  BY <1>9, <1>10, <1>11

(* status and val of a thread, by where it is.                              *)
LEMMA StatusIs ==
    /\ \A p \in EnqueuePc \ {"enq_swing"} : StatusOf(p) = "enqueue"
    /\ StatusOf("enq_swing") = "enqueued"
    /\ \A p \in DequeuePc \ {"deq_remove"} : StatusOf(p) = "dequeue"
    /\ StatusOf("deq_remove") = "dequeued"
    /\ \A p \in {"idle", "cleanup", "joined", "destroying", "destroyed"} : StatusOf(p) = "idle"
BY DEF StatusOf, EnqueuePc, DequeuePc

LEMMA ValueIs ==
    ASSUME NEW t \in Threads
    PROVE  /\ statusView[t] = "enqueue" => valView[t] = stored_value[new_element[t]]
           /\ statusView[t] = "dequeued" => valView[t] = stored_value[succ[t]]
           /\ statusView[t] \notin {"enqueue", "dequeued"} => valView[t] = Empty
           /\ statusView'[t] = "enqueue" => valView'[t] = stored_value'[new_element'[t]]
           /\ statusView'[t] = "dequeued" => valView'[t] = stored_value'[succ'[t]]
           /\ statusView'[t] \notin {"enqueue", "dequeued"} => valView'[t] = Empty
BY DEF valView

(* The other threads see nothing of a step.                                 *)
LEMMA OthersSee ==
    ASSUME Inv, MemoryInv, NEW t \in Threads, ThreadStep(t), NEW u \in Threads \ {t}
    PROVE  statusView'[u] = statusView[u] /\ valView'[u] = valView[u]
<1> USE DEF Inv, MemoryInv
<1>1. pc'[u] = pc[u] /\ new_element'[u] = new_element[u] /\ succ'[u] = succ[u] /\ pc[u] \in Pc
  BY OnlyItsOwn DEF Elsewhere, TypeInv, TypeOK
<1>2. statusView'[u] = statusView[u] /\ statusView[u] = StatusOf(pc[u])
  BY <1>1 DEF statusView
<1>3. \A a \in live : stored_value'[a] = stored_value[a]
  BY DataStay
<1>4. CASE pc[u] \in EnqueuePc \ {"enq_swing"}
  <2>1. new_element[u] \in live
    BY <1>4 DEF HeapInv, Private
  <2>2. statusView[u] = "enqueue"
    BY <1>2, <1>4, StatusIs
  <2> QED
    BY <1>1, <1>2, <1>3, <2>1, <2>2, ValueIs
<1>5. CASE pc[u] = "deq_remove"
  <2>1. succ[u] \in live
    BY <1>5 DEF HoldInv, DequeueInv, Holds, Linked
  <2>2. statusView[u] = "dequeued"
    BY <1>2, <1>5, StatusIs
  <2> QED
    BY <1>1, <1>2, <1>3, <2>1, <2>2, ValueIs
<1>6. CASE pc[u] \notin EnqueuePc \ {"enq_swing"} /\ pc[u] # "deq_remove"
  <2>1. statusView[u] \notin {"enqueue", "dequeued"}
    BY <1>1, <1>2, <1>6, StatusIs DEF Pc, EnqueuePc, DequeuePc
  <2> QED
    BY <1>2, <2>1, ValueIs
<1> QED
  BY <1>4, <1>5, <1>6

-----------------------------------------------------------------------------
(* The history variable: a dequeue() has seen the queue empty if it was at  *)
(* some moment since the call; one that holds a null successor has.         *)
HistoryInv ==
    /\ sawEmpty \in [Threads -> BOOLEAN]
    /\ \A t \in Threads : sawEmpty[t] => statusView[t] = "dequeue"
    /\ \A t \in Threads : statusView[t] = "dequeue" /\ itemsView = <<>> => sawEmpty[t]

FoundNull(t) ==
    \/ pc[t] = "deq_protect_next" /\ stage[t] \in {"leave", "protected"} /\ old_value[t] = Null
    \/ pc[t] = "deq_check" /\ succ[t] = Null

EmptyInv == \A t \in Threads : FoundNull(t) => sawEmpty[t]

LEMMA HistoryKept == HistoryNext => HistoryInv'
<1> SUFFICES ASSUME HistoryNext PROVE HistoryInv'
  OBVIOUS
<1>1. /\ sawEmpty' \in [Threads -> BOOLEAN]
      /\ \A t \in Threads : sawEmpty'[t] <=> /\ statusView'[t] = "dequeue"
                                             /\ sawEmpty[t] \/ itemsView' = <<>>
  BY DEF HistoryNext
<1> QED
  BY <1>1 DEF HistoryInv

(* If head has no successor there are no items.                             *)
LEMMA NothingBehindHead ==
    ASSUME TypeInv, MemoryInv, OrderInv, ~Destructing, next[head] = Null
    PROVE  itemsView = <<>>
<1>1. PICK n \in Nat : \E r \in [1 .. n -> Addr] : Ordered(n, r)
  BY DEF OrderInv
<1>2. PICK q \in [1 .. n -> Addr] : Ordered(n, q)
  BY <1>1
<1>3. First = head /\ head # Null
  BY NullAssumption DEF First, TypeInv, TypeOK
<1>4. n # 0 /\ q[1] = head
  BY <1>2, <1>3 DEF Ordered, Leads
<1>5. n = 1
  <2> SUFFICES ASSUME n # 1 PROVE FALSE
    OBVIOUS
  <2>1. 1 \in 1 .. n /\ 2 \in 1 .. n
    BY <1>4
  <2>2. next[q[1]] = q[2] /\ q[2] \in Addr
    BY <1>2, <2>1 DEF Ordered, Leads
  <2> QED
    BY <1>4, <2>2, NullAssumption
<1>6. itemsView = Data(n, q, stored_value)
  BY <1>2, <1>3, <1>4, ContentsAre DEF itemsView, Ordered
<1>7. stored_value \in [Addr -> Value \cup {Unset}]
  BY DEF TypeInv, TypeOK
<1>8. itemsView \in Seq(Value \cup {Unset}) /\ Len(itemsView) = n - 1
  BY <1>4, <1>6, <1>7, DataIsSeq
<1> QED
  BY <1>5, <1>8

LEMMA EmptyKept ==
    Inv /\ MemoryInv /\ OrderInv /\ HistoryInv /\ EmptyInv /\ HistoryNext => EmptyInv'
<1> SUFFICES ASSUME Inv, MemoryInv, OrderInv, HistoryInv, EmptyInv, HistoryNext,
                    NEW u \in Threads, FoundNull(u)'
             PROVE  sawEmpty'[u]
  BY DEF EmptyInv
<1>1. sawEmpty'[u] <=> statusView'[u] = "dequeue" /\ (sawEmpty[u] \/ itemsView' = <<>>)
  BY DEF HistoryNext
<1>2. statusView'[u] = "dequeue"
  BY StatusIs DEF FoundNull, statusView, DequeuePc
<1>3. SUFFICES FoundNull(u) \/ itemsView' = <<>>
  BY <1>1, <1>2 DEF EmptyInv
<1>4. TypeInv
  BY DEF Inv
<1>5. ASSUME NEW t \in Threads, ThreadStep(t), t # u PROVE FoundNull(u)
  BY <1>4, <1>5, OnlyItsOwn DEF FoundNull, Elsewhere
<1>6. CASE EnqueueStep(u) \/ CleanupLocals(u) \/ Join(u)
  BY <1>4, <1>6 DEF EnqueueStep, Enqueue, EnqueueProtected, EnqueueNext, EnqueueHelp, EnqueueLink,
     EnqueueRetry, EnqueueSwing, CleanupLocals, Join, Goto, FoundNull, TypeInv, TypeOK
<1>7. CASE DequeueStep(u)
  <2>1. CASE DequeueNextProtected(u)
    BY <1>4, <2>1 DEF DequeueNextProtected, Goto, Step, FoundNull, TypeInv, TypeOK, localVars
  <2>2. CASE DequeueHeadProtected(u)
    BY <1>4, <2>2 DEF DequeueHeadProtected, Goto, CallProtect, FoundNull, TypeInv, TypeOK, HPTypeOK
  <2>3. CASE ~DequeueNextProtected(u) /\ ~DequeueHeadProtected(u)
    <3>1. pc'[u] \notin {"deq_protect_next", "deq_check"}
      BY <1>4, <1>7, <2>3 DEF DequeueStep, Dequeue, DequeueRecheck, DequeueStale, DequeueEmpty,
         DequeueTail, DequeueHelp, DequeueMove, DequeueRetry, DequeueReturn, Goto, TypeInv, TypeOK
    <3> QED
      BY <3>1 DEF FoundNull
  <2> QED
    BY <2>1, <2>2, <2>3
<1>8. CASE HazardStep(u)
  <2>1. pc'[u] = pc[u] /\ succ'[u] = succ[u]
    BY <1>8 DEF HazardStep, callVars
  <2>2. CASE pc[u] # "deq_protect_next"
    BY <2>1, <2>2 DEF FoundNull
  <2>3. CASE pc[u] = "deq_protect_next"
    <3>1. stage[u] \in Protecting \cup {"protected"} /\ Protected(u) = next[node[u]]
      BY <1>4, <2>3 DEF TypeInv, StageInv, ProtectPc, Protected
    <3>2. ProtectStep(u, next[node[u]])
      BY <1>8, <3>1 DEF HazardStep, RemoveStep, ClearSlot, Announce, AwaitProtectors, ScanSlot,
         DeleteUnregistered, Retract, Step, Protecting
    <3>3. stage'[u] \in {"leave", "protected"} /\ old_value'[u] = Null
      BY <2>1, <2>3 DEF FoundNull
    <3>4. \/ LeaveProtect(u) /\ stage[u] = "leave"
          \/ ReloadPointer(u, next[node[u]]) /\ next[node[u]] = old_value[u]
      BY <1>4, <3>2, <3>3 DEF ProtectStep, EnterProtect, CheckFree, LoadPointer, StoreHazard,
         ReloadPointer, LeaveProtect, BackOff, Step, TypeInv, TypeOK, HPTypeOK
    <3>5. old_value' = old_value
      BY <3>4 DEF LeaveProtect, ReloadPointer, localVars
    <3>6. CASE LeaveProtect(u) /\ stage[u] = "leave"
      BY <2>3, <3>3, <3>5, <3>6 DEF FoundNull
    <3>7. CASE next[node[u]] = old_value[u]
      <4>1. next[node[u]] = Null
        BY <3>3, <3>5, <3>7
      <4>2. node[u] \in Nodes
        BY <2>3, <4>1 DEF MemoryInv, ListInv, HoldInv, DequeueInv, Holds, Nodes
      <4>3. node[u] = head
        BY <2>3, <4>2 DEF MemoryInv, HoldInv, DequeueInv
      <4>4. ThreadStep(u)
        BY <1>8 DEF ThreadStep
      <4>5. ~Destructing
        BY <1>4, <4>4, Running DEF MemoryInv
      <4>6. itemsView = <<>>
        BY <1>4, <4>1, <4>3, <4>5, NothingBehindHead
      <4>7. ~EnqueueLink(u) /\ ~DequeueMove(u)
        BY <2>3 DEF EnqueueLink, DequeueMove, Goto
      <4> QED
        BY <4>4, <4>6, <4>7, ItemsEffect
    <3> QED
      BY <3>4, <3>6, <3>7
  <2> QED
    BY <2>2, <2>3
<1>9. CASE DestructorStep \/ Finished
  BY <1>9 DEF DestructorStep, Destroy, DestroyNode, Destroyed, Finished, vars, callVars, hpVars,
     FoundNull
<1> QED
  BY <1>5, <1>6, <1>7, <1>8, <1>9 DEF HistoryNext, Next, ThreadStep

-----------------------------------------------------------------------------
(* Every step is a step of FifoQueue or none.                               *)

(* What FifoQueue sees of a step of t: its status, and val of t alone.      *)
LEMMA Seen ==
    ASSUME Inv, MemoryInv, HistoryNext, NEW t \in Threads, ThreadStep(t), NEW from, NEW to,
           StatusOf(pc[t]) = from, StatusOf(pc'[t]) = to
    PROVE  /\ Fifo!Moves(t, from, to) /\ Fifo!Observe
           /\ statusView[t] = from /\ statusView'[t] = to
           /\ valView' = [valView EXCEPT ![t] = valView'[t]]
<1>1. statusView[t] = from /\ statusView'[t] = to
  BY DEF statusView
<1>2. \A u \in Threads \ {t} : statusView'[u] = statusView[u] /\ valView'[u] = valView[u]
  BY OthersSee
<1>3. statusView' = [statusView EXCEPT ![t] = to]
  <2>1. /\ statusView = [u \in Threads |-> statusView[u]]
        /\ statusView' = [u \in Threads |-> statusView'[u]]
    BY DEF statusView
  <2> QED
    BY <1>1, <1>2, <2>1
<1>4. valView' = [valView EXCEPT ![t] = valView'[t]]
  <2>1. /\ valView = [u \in Threads |-> valView[u]]
        /\ valView' = [u \in Threads |-> valView'[u]]
    BY DEF valView
  <2> QED
    BY <1>2, <2>1
<1>5. Fifo!Observe
  BY DEF HistoryNext, Fifo!Observe
<1> QED
  BY <1>1, <1>3, <1>4, <1>5 DEF Fifo!Moves

(* The steps that take effect on FifoQueue, or begin or end a call.         *)
LEMMA EnqueueMaps ==
    ASSUME Inv, MemoryInv, OrderInv, HistoryNext, NEW t \in Threads, Enqueue(t)
    PROVE  Fifo!InvokeEnqueue(t)
<1>1. ThreadStep(t) /\ TypeInv
  BY DEF ThreadStep, EnqueueStep, Inv
<1>2. pc[t] = "idle" /\ pc'[t] = "enq_protect"
  BY <1>1 DEF Enqueue, Goto, TypeInv, TypeOK
<1>3. /\ Fifo!Moves(t, "idle", "enqueue") /\ Fifo!Observe /\ statusView'[t] = "enqueue"
      /\ valView' = [valView EXCEPT ![t] = valView'[t]]
  BY <1>1, <1>2, Seen, StatusIs DEF EnqueuePc
<1>4. valView'[t] = stored_value'[new_element'[t]]
  BY <1>3, ValueIs
<1>5. stored_value'[new_element'[t]] = Head(todo[t]).value
  BY <1>1 DEF Enqueue, TypeInv, TypeOK
<1>6. Head(todo[t]).value \in Value
  <2>1. todo[t] \in Seq(Call) /\ todo[t] # <<>> /\ Head(todo[t]).op = "enqueue"
    BY <1>1 DEF Enqueue, TypeInv, TypeOK
  <2>2. Head(todo[t]) \in Call
    BY <2>1, HeadTailProperties
  <2> QED
    BY <2>1, <2>2 DEF Call
<1>7. itemsView' = itemsView
  BY <1>1, <1>2, ItemsEffect DEF EnqueueLink, DequeueMove, Goto
<1>8. result' = result
  BY DEF Enqueue
<1> QED
  BY <1>3, <1>4, <1>5, <1>6, <1>7, <1>8 DEF Fifo!InvokeEnqueue

LEMMA LinkMaps ==
    ASSUME Inv, MemoryInv, OrderInv, HistoryNext, NEW t \in Threads, EnqueueLink(t)
    PROVE  Fifo!Enqueue(t)
<1>1. ThreadStep(t) /\ TypeInv
  BY DEF ThreadStep, EnqueueStep, Inv
<1>2. pc[t] = "enq_link" /\ pc'[t] = "enq_swing"
  BY <1>1 DEF EnqueueLink, Goto, TypeInv, TypeOK
<1>3. /\ Fifo!Moves(t, "enqueue", "enqueued") /\ Fifo!Observe
      /\ statusView[t] = "enqueue" /\ statusView'[t] = "enqueued"
      /\ valView' = [valView EXCEPT ![t] = valView'[t]]
  BY <1>1, <1>2, Seen, StatusIs DEF EnqueuePc
<1>4. valView[t] = stored_value[new_element[t]] /\ valView'[t] = Empty
  BY <1>3, ValueIs
<1>5. itemsView' = Append(itemsView, stored_value[new_element[t]])
  BY <1>1, ItemsEffect
<1>6. result' = result
  BY DEF EnqueueLink
<1> QED
  BY <1>3, <1>4, <1>5, <1>6 DEF Fifo!Enqueue

LEMMA SwingMaps ==
    ASSUME Inv, MemoryInv, OrderInv, HistoryNext, NEW t \in Threads, EnqueueSwing(t)
    PROVE  Fifo!RespondEnqueue(t)
<1>1. ThreadStep(t) /\ TypeInv
  BY DEF ThreadStep, EnqueueStep, Inv
<1>2. pc[t] = "enq_swing" /\ pc'[t] = "idle"
  BY <1>1 DEF EnqueueSwing, Goto, TypeInv, TypeOK
<1>3. /\ Fifo!Moves(t, "enqueued", "idle") /\ Fifo!Observe
      /\ statusView[t] = "enqueued" /\ statusView'[t] = "idle"
      /\ valView' = [valView EXCEPT ![t] = valView'[t]]
  BY <1>1, <1>2, Seen, StatusIs
<1>4. valView[t] = Empty /\ valView'[t] = Empty
  BY <1>3, ValueIs
<1>5. valView' = valView
  BY <1>3, <1>4 DEF valView
<1>6. itemsView' = itemsView
  BY <1>1, <1>2, ItemsEffect DEF EnqueueLink, DequeueMove, Goto
<1>7. result' = result
  BY DEF EnqueueSwing
<1> QED
  BY <1>3, <1>5, <1>6, <1>7 DEF Fifo!RespondEnqueue

LEMMA DequeueMaps ==
    ASSUME Inv, MemoryInv, OrderInv, HistoryNext, NEW t \in Threads, Dequeue(t)
    PROVE  Fifo!InvokeDequeue(t)
<1>1. ThreadStep(t) /\ TypeInv
  BY DEF ThreadStep, DequeueStep, Inv
<1>2. pc[t] = "idle" /\ pc'[t] = "deq_protect_head"
  BY <1>1 DEF Dequeue, Goto, TypeInv, TypeOK
<1>3. /\ Fifo!Moves(t, "idle", "dequeue") /\ Fifo!Observe
      /\ statusView[t] = "idle" /\ statusView'[t] = "dequeue"
      /\ valView' = [valView EXCEPT ![t] = valView'[t]]
  BY <1>1, <1>2, Seen, StatusIs DEF DequeuePc
<1>4. valView[t] = Empty /\ valView'[t] = Empty
  BY <1>3, ValueIs
<1>5. valView' = valView
  BY <1>3, <1>4 DEF valView
<1>6. itemsView' = itemsView
  BY <1>1, <1>2, ItemsEffect DEF EnqueueLink, DequeueMove, Goto
<1>7. result' = result
  BY DEF Dequeue
<1> QED
  BY <1>3, <1>5, <1>6, <1>7 DEF Fifo!InvokeDequeue

LEMMA MoveMaps ==
    ASSUME Inv, MemoryInv, OrderInv, HistoryNext, NEW t \in Threads, DequeueMove(t)
    PROVE  Fifo!Dequeue(t)
<1>1. ThreadStep(t) /\ TypeInv
  BY DEF ThreadStep, DequeueStep, Inv
<1>2. pc[t] = "deq_move" /\ pc'[t] = "deq_remove"
  BY <1>1 DEF DequeueMove, Goto, TypeInv, TypeOK
<1>3. /\ Fifo!Moves(t, "dequeue", "dequeued") /\ Fifo!Observe /\ statusView'[t] = "dequeued"
      /\ valView' = [valView EXCEPT ![t] = valView'[t]]
  BY <1>1, <1>2, Seen, StatusIs DEF DequeuePc
<1>4. valView'[t] = stored_value'[succ'[t]]
  BY <1>3, ValueIs
<1>5. UNCHANGED <<stored_value, succ, result>>
  BY DEF DequeueMove
<1>6. /\ itemsView # <<>> /\ itemsView' = Tail(itemsView)
      /\ stored_value[succ[t]] = Head(itemsView)
  BY <1>1, ItemsEffect
<1> QED
  BY <1>3, <1>4, <1>5, <1>6 DEF Fifo!Dequeue

LEMMA ReturnMaps ==
    ASSUME Inv, MemoryInv, OrderInv, HistoryNext, NEW t \in Threads, DequeueReturn(t)
    PROVE  Fifo!RespondDequeue(t)
<1>1. ThreadStep(t) /\ TypeInv
  BY DEF ThreadStep, DequeueStep, Inv
<1>2. pc[t] = "deq_remove" /\ pc'[t] = "idle"
  BY <1>1 DEF DequeueReturn, Goto, TypeInv, TypeOK
<1>3. /\ Fifo!Moves(t, "dequeued", "idle") /\ Fifo!Observe
      /\ statusView[t] = "dequeued" /\ statusView'[t] = "idle"
      /\ valView' = [valView EXCEPT ![t] = valView'[t]]
  BY <1>1, <1>2, Seen, StatusIs
<1>4. valView[t] = stored_value[succ[t]] /\ valView'[t] = Empty
  BY <1>3, ValueIs
<1>5. result' = [result EXCEPT ![t] = stored_value[succ[t]]]
  BY DEF DequeueReturn, Return
<1>6. itemsView' = itemsView
  BY <1>1, <1>2, ItemsEffect DEF EnqueueLink, DequeueMove, Goto
<1> QED
  BY <1>3, <1>4, <1>5, <1>6 DEF Fifo!RespondDequeue

LEMMA EmptyMaps ==
    ASSUME Inv, MemoryInv, OrderInv, EmptyInv, HistoryNext, NEW t \in Threads, DequeueEmpty(t)
    PROVE  Fifo!RespondEmpty(t)
<1>1. ThreadStep(t) /\ TypeInv
  BY DEF ThreadStep, DequeueStep, Inv
<1>2. pc[t] = "deq_check" /\ pc'[t] = "idle" /\ succ[t] = Null
  BY <1>1 DEF DequeueEmpty, Goto, TypeInv, TypeOK
<1>3. /\ Fifo!Moves(t, "dequeue", "idle") /\ Fifo!Observe
      /\ statusView[t] = "dequeue" /\ statusView'[t] = "idle"
      /\ valView' = [valView EXCEPT ![t] = valView'[t]]
  BY <1>1, <1>2, Seen, StatusIs DEF DequeuePc
<1>4. valView[t] = Empty /\ valView'[t] = Empty
  BY <1>3, ValueIs
<1>5. valView' = valView
  BY <1>3, <1>4 DEF valView
<1>6. sawEmpty[t]
  BY <1>2 DEF EmptyInv, FoundNull
<1>7. result' = [result EXCEPT ![t] = Empty]
  BY DEF DequeueEmpty, Return
<1>8. itemsView' = itemsView
  BY <1>1, <1>2, ItemsEffect DEF EnqueueLink, DequeueMove, Goto
<1> QED
  BY <1>3, <1>5, <1>6, <1>7, <1>8 DEF Fifo!RespondEmpty

(* All other steps of the threads happen inside a call, before its effect   *)
(* or after it, or between calls.                                           *)
Visible(t) ==
    \/ Enqueue(t) \/ EnqueueLink(t) \/ EnqueueSwing(t)
    \/ Dequeue(t) \/ DequeueMove(t) \/ DequeueReturn(t) \/ DequeueEmpty(t)

LEMMA InvisibleSteps ==
    ASSUME TypeInv, NEW t \in Threads, ThreadStep(t), ~Visible(t)
    PROVE  /\ StatusOf(pc'[t]) = StatusOf(pc[t])
           /\ UNCHANGED <<result, stored_value>> /\ new_element'[t] = new_element[t]
           /\ StatusOf(pc[t]) = "dequeued" => succ'[t] = succ[t]
<1> USE DEF Visible, Goto, TypeInv, TypeOK
<1>1. CASE HazardStep(t)
  BY <1>1 DEF HazardStep, queueVars, callVars
<1>2. CASE EnqueueStep(t)
  <2>1. {pc[t], pc'[t]} \subseteq EnqueuePc \ {"enq_swing"}
    BY <1>2 DEF EnqueueStep, EnqueueProtected, EnqueueNext, EnqueueHelp, EnqueueRetry, EnqueuePc
  <2>2. UNCHANGED <<result, stored_value, new_element>>
    BY <1>2 DEF EnqueueStep, EnqueueProtected, EnqueueNext, EnqueueHelp, EnqueueRetry, queueVars
  <2>3. StatusOf(pc[t]) = "enqueue" /\ StatusOf(pc'[t]) = "enqueue"
    BY <2>1, StatusIs
  <2> QED
    BY <2>2, <2>3
<1>3. CASE DequeueStep(t)
  <2>1. {pc[t], pc'[t]} \subseteq DequeuePc \ {"deq_remove"}
    BY <1>3 DEF DequeueStep, DequeueHeadProtected, DequeueNextProtected, DequeueRecheck,
       DequeueStale, DequeueTail, DequeueHelp, DequeueRetry, DequeuePc
  <2>2. UNCHANGED <<result, stored_value, new_element>>
    BY <1>3 DEF DequeueStep, DequeueHeadProtected, DequeueNextProtected, DequeueRecheck,
       DequeueStale, DequeueTail, DequeueHelp, DequeueRetry, queueVars
  <2>3. StatusOf(pc[t]) = "dequeue" /\ StatusOf(pc'[t]) = "dequeue"
    BY <2>1, StatusIs
  <2> QED
    BY <2>2, <2>3
<1>4. CASE CleanupLocals(t) \/ Join(t)
  <2>1. {pc[t], pc'[t]} \subseteq {"idle", "cleanup", "joined"}
    BY <1>4 DEF CleanupLocals, Join
  <2>2. UNCHANGED <<result, stored_value, new_element>>
    BY <1>4 DEF CleanupLocals, Join, queueVars
  <2>3. StatusOf(pc[t]) = "idle" /\ StatusOf(pc'[t]) = "idle"
    BY <2>1, StatusIs
  <2> QED
    BY <2>2, <2>3
<1> QED
  BY <1>1, <1>2, <1>3, <1>4 DEF ThreadStep

(* Nor does sawEmpty change then: it already remembers what there is to see.*)
LEMMA HistoryStutters ==
    ASSUME HistoryInv, HistoryNext,
           UNCHANGED <<itemsView, statusView, valView, result>>
    PROVE  UNCHANGED Fifo!qvars
<1>1. sawEmpty' = [t \in Threads |-> statusView[t] = "dequeue" /\ (sawEmpty[t] \/ itemsView = <<>>)]
  BY DEF HistoryNext
<1>2. \A t \in Threads :
         sawEmpty[t] = (statusView[t] = "dequeue" /\ (sawEmpty[t] \/ itemsView = <<>>))
  BY DEF HistoryInv
<1>3. sawEmpty = [t \in Threads |-> sawEmpty[t]]
  BY DEF HistoryInv
<1>4. sawEmpty' = sawEmpty
  BY <1>1, <1>2, <1>3
<1> QED
  BY <1>4 DEF Fifo!qvars

LEMMA InvisibleMaps ==
    ASSUME Inv, MemoryInv, OrderInv, HistoryInv, HistoryNext,
           NEW t \in Threads, ThreadStep(t), ~Visible(t)
    PROVE  UNCHANGED Fifo!qvars
<1>1. /\ StatusOf(pc'[t]) = StatusOf(pc[t])
      /\ UNCHANGED <<result, stored_value>> /\ new_element'[t] = new_element[t]
      /\ StatusOf(pc[t]) = "dequeued" => succ'[t] = succ[t]
  BY InvisibleSteps DEF Inv
<1>2. \A u \in Threads \ {t} : statusView'[u] = statusView[u] /\ valView'[u] = valView[u]
  BY OthersSee
<1>3. statusView[t] = StatusOf(pc[t]) /\ statusView'[t] = statusView[t]
  BY <1>1 DEF statusView
<1>4. valView'[t] = valView[t]
  BY <1>1, <1>3, ValueIs
<1>5. statusView' = statusView
  BY <1>2, <1>3 DEF statusView
<1>6. valView' = valView
  BY <1>2, <1>4 DEF valView
<1>7. itemsView' = itemsView
  BY ItemsEffect DEF Visible
<1> QED
  BY <1>1, <1>5, <1>6, <1>7, HistoryStutters

LEMMA DestructorMaps ==
    ASSUME TypeInv, HistoryInv, HistoryNext, DestructorStep \/ UNCHANGED vars
    PROVE  UNCHANGED Fifo!qvars
<1>1. UNCHANGED <<head, next, stored_value, result, new_element, succ>>
  BY DEF DestructorStep, Destroy, DestroyNode, Destroyed, vars, hpVars, queueVars, callVars
<1>2. itemsView' = itemsView
  BY <1>1 DEF itemsView, Contents, Walk
<1>3. \A t \in Threads : StatusOf(pc'[t]) = StatusOf(pc[t])
  <2>1. CASE UNCHANGED vars
    BY <2>1 DEF vars, callVars
  <2>2. CASE DestructorStep
    BY <2>2, StatusIs DEF DestructorStep, Destroy, DestroyNode, Destroyed
  <2> QED
    BY <2>1, <2>2
<1>4. statusView' = statusView
  BY <1>3 DEF statusView
<1>5. \A t \in Threads : valView'[t] = valView[t]
  BY <1>1, <1>4, ValueIs
<1>6. valView' = valView
  BY <1>5 DEF valView
<1> QED
  BY <1>1, <1>2, <1>4, <1>6, HistoryStutters

LEMMA StepMaps ==
    Inv /\ MemoryInv /\ OrderInv /\ HistoryInv /\ EmptyInv /\ [HistoryNext]_<<vars, sawEmpty>>
        => [Fifo!Next]_(Fifo!qvars)
<1> SUFFICES ASSUME Inv, MemoryInv, OrderInv, HistoryInv, EmptyInv,
                    [HistoryNext]_<<vars, sawEmpty>>
             PROVE  Fifo!Next \/ UNCHANGED Fifo!qvars
  OBVIOUS
<1>1. CASE UNCHANGED <<vars, sawEmpty>>
  BY <1>1 DEF vars, hpVars, queueVars, callVars, Fifo!qvars, itemsView, statusView, valView,
     Contents, Walk
<1>2. CASE HistoryNext
  <2>1. ASSUME NEW t \in Threads, ThreadStep(t) PROVE Fifo!Next \/ UNCHANGED Fifo!qvars
    <3>1. CASE ~Visible(t)
      BY <1>2, <2>1, <3>1, InvisibleMaps
    <3>2. CASE Enqueue(t) \/ EnqueueLink(t) \/ EnqueueSwing(t)
      BY <1>2, <3>2, EnqueueMaps, LinkMaps, SwingMaps DEF Fifo!Next
    <3>3. CASE Dequeue(t) \/ DequeueMove(t) \/ DequeueReturn(t) \/ DequeueEmpty(t)
      BY <1>2, <3>3, DequeueMaps, MoveMaps, ReturnMaps, EmptyMaps DEF Fifo!Next
    <3> QED
      BY <3>1, <3>2, <3>3 DEF Visible
  <2>2. CASE DestructorStep \/ Finished
    BY <1>2, <2>2, DestructorMaps DEF Inv, Finished
  <2> QED
    BY <1>2, <2>1, <2>2 DEF HistoryNext, Next
<1> QED
  BY <1>1, <1>2

(* At the beginning nobody calls and the dummy Element holds no item.       *)
LEMMA InitMaps == HistoryInit => Fifo!Init /\ HistoryInv /\ EmptyInv
<1> SUFFICES ASSUME HistoryInit PROVE Fifo!Init /\ HistoryInv /\ EmptyInv
  OBVIOUS
<1>1. Init /\ sawEmpty = [t \in Threads |-> FALSE]
  BY DEF HistoryInit
<1>2. /\ pc = [t \in Threads |-> "idle"] /\ result = [t \in Threads |-> Empty]
      /\ head \in Addr /\ next = [a \in Addr |-> Null]
  BY <1>1 DEF Init
<1>3. statusView = [t \in Threads |-> "idle"]
  BY <1>2, StatusIs DEF statusView
<1>4. valView = [t \in Threads |-> Empty]
  BY <1>3 DEF valView
<1>5. ~Destructing
  BY <1>2 DEF Destructing
<1>6. itemsView = <<>>
  BY <1>1, <1>2, <1>5, InitInv, InitMemoryInv, InitOrder, NothingBehindHead DEF Inv
<1>7. HistoryInv
  BY <1>1, <1>3 DEF HistoryInv
<1>8. EmptyInv
  BY <1>2 DEF EmptyInv, FoundNull
<1> QED
  BY <1>1, <1>2, <1>3, <1>4, <1>6, <1>7, <1>8 DEF Fifo!Init

(* The history variable watches the program and never stands in its way.    *)
LEMMA HistoryIsSpec == HistorySpec => Spec
<1>1. HistoryInit => Init
  BY DEF HistoryInit
<1>2. [HistoryNext]_<<vars, sawEmpty>> => [Next]_vars
  BY DEF HistoryNext
<1> QED
  BY <1>1, <1>2, PTL DEF HistorySpec, Spec

LEMMA HistoryInvariance ==
    HistorySpec => [](Inv /\ MemoryInv /\ OrderInv /\ HistoryInv /\ EmptyInv)
<1>1. HistoryInv /\ [HistoryNext]_<<vars, sawEmpty>> => HistoryInv'
  BY HistoryKept DEF HistoryInv, vars, hpVars, queueVars, callVars, itemsView, statusView,
     Contents, Walk
<1>2. Inv /\ MemoryInv /\ OrderInv /\ HistoryInv /\ EmptyInv
         /\ [HistoryNext]_<<vars, sawEmpty>> => EmptyInv'
  BY EmptyKept DEF EmptyInv, FoundNull, vars, hpVars, queueVars, callVars
<1>3. HistorySpec => [](Inv /\ MemoryInv /\ OrderInv)
  BY HistoryIsSpec, OrderInvariance, PTL
<1>4. HistoryInit => HistoryInv /\ EmptyInv
  BY InitMaps
<1> QED
  BY <1>1, <1>2, <1>3, <1>4, PTL DEF HistorySpec

(* For any number of threads, addresses and calls, the queue is             *)
(* linearizable: callers see a FIFO queue that loses nothing, invents       *)
(* nothing and answers EMPTY only if it was empty during the call.          *)
THEOREM Linearizable == HistorySpec => ImplementsFifo
<1>1. HistoryInit => Fifo!Init
  BY InitMaps
<1> QED
  BY <1>1, StepMaps, HistoryInvariance, PTL DEF HistorySpec, ImplementsFifo, Fifo!Spec
=============================================================================
