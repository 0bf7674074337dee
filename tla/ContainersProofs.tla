--------------------------- MODULE ContainersProofs ---------------------------
(***************************************************************************)
(* What is built on mutexes, in the run that MCContainers makes of it.     *)
(*                                                                         *)
(* The hierarchy rules out deadlock, for any threads, mutexes and distinct *)
(* levels.  The argument: a blocked thread waits below everything it       *)
(* holds, so along a chain of threads that wait for each other the levels  *)
(* waited for fall, and no set of naturals falls for ever.                 *)
(*                                                                         *)
(* The queue with two locks is linearizable, for any clients and calls.    *)
(* The argument: nodes are allocated by whoever holds tail_mutex, so that  *)
(* those of the list are numbered from head to tail without a gap, and a   *)
(* value is at its place before tail moves past it.                        *)
(*                                                                         *)
(* Nothing is used after it was deleted or while somebody else changes it, *)
(* in that queue, the list locked hand over hand, the hash table and the   *)
(* queues for one thread: who goes along the list owns the mutex of the    *)
(* node it stands on, and who changes a bucket is alone in it.             *)
(*                                                                         *)
(* And no wakeup of a condition variable is lost, by MonitorsProofs.       *)
(***************************************************************************)
EXTENDS MCContainers, SequenceTheorems, WellFoundedInduction, TLAPS

(* A nonempty set of naturals has a least element.                          *)
LEMMA LeastNatural ==
    ASSUME NEW S \in SUBSET Nat, S # {}
    PROVE  \E x \in S : \A y \in S : x <= y
<1>1. \E x \in S : \A y \in S : ~(<<y, x>> \in OpToRel(<, Nat))
  BY NatLessThanWellFounded, WFMin
<1>2. ASSUME NEW x \in Nat, NEW y \in Nat, ~(<<y, x>> \in OpToRel(<, Nat))
      PROVE  x <= y
  BY <1>2 DEF OpToRel
<1> QED
  BY <1>1, <1>2

-----------------------------------------------------------------------------
(* The mutex with levels.                                                   *)
Inv == TypeOK /\ LevelsExact /\ BlockedBelow

(* Nobody holds or awaits a mutex before the threads start.                 *)
LEMMA InitInv == Init => Inv
BY NoOwnerAssumption DEF Init, Inv, TypeOK, LevelsExact, BlockedBelow

(* Every lock(), try_lock() and unlock(), thrown out of or not, keeps the   *)
(* invariant.                                                               *)
LEMMA NextInv == Inv /\ [Next]_vars => Inv'
<1> SUFFICES ASSUME Inv, [Next]_vars PROVE Inv'
  OBVIOUS
<1> USE LevelAssumption, NoOwnerAssumption, NoMutexAssumption
    DEF Inv, TypeOK, LevelsExact, BlockedBelow, Running, Violates, Take, Ends
<1>1. ASSUME NEW t \in Thread, NEW m \in Mutex, Lock(t, m) PROVE Inv'
  <2>1. \A n \in Mutex : owner[n] = t => Level[m] < Level[n]
    BY <1>1 DEF Lock
  <2> QED
    BY <1>1, <2>1 DEF Lock
<1>2. ASSUME NEW t \in Thread, NEW m \in Mutex, Acquire(t, m) PROVE Inv'
  <2>1. TypeOK'
    BY <1>2 DEF Acquire
  <2>2. LevelsExact'
    BY <1>2 DEF Acquire
  <2>3. BlockedBelow'
    BY <1>2 DEF Acquire
  <2> QED
    BY <2>1, <2>2, <2>3
<1>3. ASSUME NEW t \in Thread, NEW m \in Mutex, TryLock(t, m) PROVE Inv'
  <2>1. TypeOK'
    BY <1>3 DEF TryLock
  <2>2. LevelsExact'
    BY <1>3 DEF TryLock
  <2>3. BlockedBelow'
    BY <1>3 DEF TryLock
  <2> QED
    BY <2>1, <2>2, <2>3
<1>4. ASSUME NEW t \in Thread, NEW m \in Mutex, TryLockFails(t, m) \/ Throw(t, m) PROVE Inv'
  BY <1>4 DEF TryLockFails, Throw
<1>5. ASSUME NEW t \in Thread, NEW m \in Mutex, Unlock(t, m) PROVE Inv'
  <2>1. TypeOK'
    BY <1>5 DEF Unlock
  <2>2. LevelsExact'
    BY <1>5 DEF Unlock
  <2>3. BlockedBelow'
    BY <1>5 DEF Unlock
  <2> QED
    BY <2>1, <2>2, <2>3
<1>6. CASE UNCHANGED vars
  BY <1>6 DEF vars
<1> QED
  BY <1>1, <1>2, <1>3, <1>4, <1>5, <1>6 DEF Next

(* The inductive invariant holds in every reachable state.                  *)
LEMMA Invariance == Spec => []Inv
BY InitInv, NextInv, PTL DEF Spec

(* active_levels is exact whatever the order of the calls.                  *)
THEOREM Exact == Spec => []LevelsExact
<1>1. Inv => LevelsExact
  BY DEF Inv
<1> QED
  BY <1>1, Invariance, PTL

(* Below every invariant state no set of threads wait for each other.       *)
LEMMA InvDeadlockFree == Inv => DeadlockFree
<1> SUFFICES ASSUME Inv, NEW S \in SUBSET Thread, S # {}, WaitForEachOther(S)
             PROVE  FALSE
  BY DEF DeadlockFree
<1> USE LevelAssumption, NoOwnerAssumption, NoMutexAssumption
    DEF Inv, TypeOK, BlockedBelow, WaitForEachOther
<1> DEFINE Wanted == {Level[waiting[t]] : t \in S}
<1>1. Wanted \in SUBSET Nat /\ Wanted # {}
  OBVIOUS
<1>2. PICK l \in Wanted : \A k \in Wanted : l <= k
  BY <1>1, LeastNatural
<1>3. PICK t \in S : l = Level[waiting[t]]
  BY <1>2
<1>4. PICK u \in S : owner[waiting[t]] = u
  OBVIOUS
<1>5. Level[waiting[u]] < Level[waiting[t]]
  BY <1>4
<1>6. Level[waiting[u]] \in Wanted
  OBVIOUS
<1>7. l <= Level[waiting[u]]
  BY <1>2, <1>6
<1>8. l \in Nat /\ Level[waiting[u]] \in Nat
  BY <1>1, <1>6
<1> QED
  BY <1>3, <1>5, <1>7, <1>8

(* For every thread, wherever it waits: the mutex it waits for is below     *)
(* every mutex that it owns, so that no two threads can be ordered in       *)
(* opposite ways.                                                           *)
THEOREM Blocked == Spec => []BlockedBelow
<1>1. Inv => BlockedBelow
  BY DEF Inv
<1> QED
  BY <1>1, Invariance, PTL

(* There is no deadlock among any number of threads and mutexes.            *)
THEOREM NoDeadlock == Spec => []DeadlockFree
BY Invariance, InvDeadlockFree, PTL

-----------------------------------------------------------------------------
(* The queue with two locks.  Nodes are allocated under tail_mutex, so that *)
(* those of the list are numbered from head to tail, and the one a push()   *)
(* is about to append comes next.                                           *)
Filling == {"fill 1", "fill 2", "swing"}
Looking == {"lock head", "get tail", "move head"}
Places  == Filling \cup Looking \cup {"idle", "lock tail", "unlock tail", "read value"}
Entries == Queue!Value \cup {Empty}

CallTypes ==
    /\ todo \in [Client -> Seq(Entries)]
    /\ pc \in [Client -> Places]
    /\ fill \in {Queue!DataFirst, Queue!NextFirst}
    /\ head_mutex \in Client \cup {Free} /\ tail_mutex \in Client \cup {Free}
    /\ node \in [Client -> Nat \cup {Free}]
    /\ returned \in [Client -> Entries]
NodeTypes ==
    /\ next \in Seq(Nat \cup {Free}) /\ value \in Seq(Entries) /\ Len(value) = Len(next)
    /\ head \in Nat /\ tail \in Nat /\ 1 <= head /\ head <= tail /\ tail <= Len(next)
    /\ live \in SUBSET (1 .. Len(next))

(* Who owns which mutex, and what a call that has started is about.         *)
LocksInv ==
    \A c \in Client :
        /\ pc[c] \in Filling \cup {"unlock tail"} <=> tail_mutex = c
        /\ pc[c] \in {"get tail", "move head"} <=> head_mutex = c
CallInv ==
    \A c \in Client :
        /\ pc[c] # "idle" => todo[c] # <<>>
        /\ pc[c] \in Filling \cup {"lock tail"} => Head(todo[c]) # Empty

(* The links, behind head and from head to tail.                            *)
ListInv ==
    /\ \A n \in 1 .. head - 1 : next[n] = Free
    /\ \A n \in head .. tail - 1 : next[n] = n + 1
    /\ head .. Len(next) \subseteq live

(* The dummy and the new node, while somebody is in push() and otherwise.   *)
Linked(c) == pc[c] = "swing" \/ (pc[c] = "fill 2" /\ fill = Queue!NextFirst)
Filled(c) == pc[c] = "swing" \/ (pc[c] = "fill 2" /\ fill = Queue!DataFirst)
PushInv ==
    /\ \A c \in Client : pc[c] \in Filling =>
           /\ Len(next) = tail + 1 /\ node[c] = tail + 1 /\ next[tail + 1] = Free
           /\ next[tail] = IF Linked(c) THEN tail + 1 ELSE Free
           /\ Filled(c) => value[tail] = Head(todo[c])
    /\ (\A c \in Client : pc[c] \notin Filling) => Len(next) = tail /\ next[tail] = Free

(* The node that try_pop() took is behind head, and its own.                *)
TakenInv ==
    \A c \in Client :
        /\ pc[c] = "move head" => head < tail
        /\ pc[c] = "read value" => node[c] \in live /\ node[c] < head
        /\ pc[c] \notin Filling \cup {"read value"} => node[c] = Free
        /\ \A d \in Client : pc[c] = "read value" /\ pc[d] = "read value" /\ node[c] = node[d] => c = d

QueueInv == CallTypes /\ NodeTypes /\ LocksInv /\ CallInv /\ ListInv /\ PushInv /\ TakenInv

(* The queue starts with a dummy node and nobody in a call.                 *)
LEMMA QueueInit == ContainersInit /\ which = "queue" => QueueInv
<1> SUFFICES ASSUME ContainersInit, which = "queue" PROVE QueueInv
  OBVIOUS
<1>1. Queue!Init
  BY DEF ContainersInit
<1> QED
  BY <1>1, CallsAssumption DEF Queue!Init, QueueInv, CallTypes, NodeTypes, LocksInv, CallInv, ListInv, PushInv, TakenInv,
     Entries, Places, Filling, Looking

(* Whoever fills is alone: it owns tail_mutex.                              *)
LEMMA OneFiller ==
    ASSUME QueueInv
    PROVE  /\ \A c, d \in Client : pc[c] \in Filling \cup {"unlock tail"} /\ pc[d] \in Filling \cup {"unlock tail"} => c = d
           /\ \A c, d \in Client : pc[c] \in {"get tail", "move head"} /\ pc[d] \in {"get tail", "move head"} => c = d
           /\ tail_mutex = Free => \A c \in Client : pc[c] \notin Filling \cup {"unlock tail"}
           /\ head_mutex = Free => \A c \in Client : pc[c] \notin {"get tail", "move head"}
BY CallsAssumption DEF QueueInv, LocksInv

(* head and tail are numbers of nodes, in that order.                       *)
LEMMA Numbers ==
    ASSUME QueueInv
    PROVE  /\ head \in Nat /\ tail \in Nat /\ Len(next) \in Nat
           /\ 1 <= head /\ head <= tail /\ tail <= Len(next)
           /\ head \in 1 .. Len(next) /\ tail \in 1 .. Len(next)
BY DEF QueueInv, NodeTypes

(* The calls of push() and try_pop(), step by step.                         *)
LEMMA CallKeeps ==
    ASSUME QueueInv, NEW c \in Client, Queue!Call(c)
    PROVE  QueueInv'
<1> USE DEF QueueInv
<1>1. /\ pc[c] = "idle" /\ todo[c] # <<>>
      /\ \/ Head(todo[c]) = Empty /\ pc' = [pc EXCEPT ![c] = "lock head"]
         \/ Head(todo[c]) # Empty /\ pc' = [pc EXCEPT ![c] = "lock tail"]
      /\ UNCHANGED <<todo, fill, head, tail, next, value, live, head_mutex, tail_mutex, node, returned>>
  BY DEF Queue!Call, Queue!Goto
<1>2. CallTypes'
  BY <1>1 DEF CallTypes, Places, Looking
<1>3. NodeTypes'
  BY <1>1 DEF NodeTypes
<1>4. LocksInv'
  BY <1>1 DEF CallTypes, LocksInv, Filling
<1>5. CallInv'
  BY <1>1 DEF CallTypes, CallInv, Filling
<1>6. ListInv'
  BY <1>1 DEF ListInv
<1>7. PushInv'
  BY <1>1 DEF CallTypes, PushInv, Linked, Filled, Filling
<1>8. TakenInv'
  BY <1>1 DEF CallTypes, TakenInv, Filling
<1> QED
  BY <1>2, <1>3, <1>4, <1>5, <1>6, <1>7, <1>8

LEMMA LockTailKeeps ==
    ASSUME QueueInv, NEW c \in Client, Queue!LockTail(c)
    PROVE  QueueInv'
<1> USE DEF QueueInv
<1> DEFINE n == Len(next)
<1>1. /\ pc[c] = "lock tail" /\ pc' = [pc EXCEPT ![c] = "fill 1"]
      /\ tail_mutex = Free /\ tail_mutex' = c
      /\ node' = [node EXCEPT ![c] = n + 1] /\ live' = live \cup {n + 1}
      /\ next' = Append(next, Free) /\ value' = Append(value, Empty)
      /\ UNCHANGED <<todo, fill, head, tail, head_mutex, returned>>
  BY DEF Queue!LockTail, Queue!Goto
<1>2. /\ next' \in Seq(Nat \cup {Free}) /\ Len(next') = n + 1 /\ next'[n + 1] = Free
      /\ \A i \in 1 .. n : next'[i] = next[i]
  <2> DEFINE S == Nat \cup {Free}
  <2>1. next \in Seq(S) /\ Free \in S
    BY DEF NodeTypes
  <2> HIDE DEF S
  <2>2. /\ Append(next, Free) \in Seq(S) /\ Len(Append(next, Free)) = Len(next) + 1
        /\ Append(next, Free)[Len(next) + 1] = Free
        /\ \A i \in 1 .. Len(next) : Append(next, Free)[i] = next[i]
    BY <2>1, AppendProperties
  <2> QED
    BY <2>2, <1>1 DEF S
<1>3. value' \in Seq(Entries) /\ Len(value') = n + 1
  <2>1. value \in Seq(Entries) /\ Empty \in Entries /\ Len(value) = n
    BY DEF NodeTypes, Entries
  <2>2. Append(value, Empty) \in Seq(Entries) /\ Len(Append(value, Empty)) = Len(value) + 1
    BY <2>1, AppendProperties
  <2> QED
    BY <2>1, <2>2, <1>1
<1>4. n = tail /\ next[n] = Free /\ n \in Nat /\ 1 <= head /\ head \in Nat /\ head <= n /\ live \in SUBSET (1 .. n)
  BY <1>1, OneFiller, Numbers DEF PushInv, NodeTypes
<1> HIDE DEF n
<1>5. CallTypes'
  <2>1. n + 1 \in Nat \cup {Free} /\ "fill 1" \in Places
    BY <1>4 DEF Places, Filling
  <2> QED
    BY <2>1, <1>1 DEF CallTypes
<1>6. NodeTypes'
  <2>1. 1 .. n \subseteq 1 .. n + 1 /\ n + 1 \in 1 .. n + 1
    BY <1>4
  <2>2. live' \subseteq 1 .. n + 1
    BY <2>1, <1>1, <1>4
  <2>3. tail <= n + 1 /\ tail \in Nat /\ 1 <= head /\ head <= tail
    BY <1>4
  <2> QED
    BY <2>2, <2>3, <1>1, <1>2, <1>3, <1>4 DEF NodeTypes
<1>7. LocksInv'
  BY <1>1, CallsAssumption DEF CallTypes, LocksInv, Filling
<1>8. CallInv'
  BY <1>1 DEF CallTypes, CallInv, Filling
<1>9. ListInv'
  <2>1. /\ \A i \in 1 .. head - 1 : next[i] = Free
        /\ \A i \in head .. n - 1 : next[i] = i + 1
        /\ head .. n \subseteq live
    BY <1>4 DEF ListInv, n
  <2>2. /\ \A i \in 1 .. head - 1 : next'[i] = Free
        /\ \A i \in head .. n - 1 : next'[i] = i + 1
    BY <2>1, <1>2, <1>4
  <2>3. ASSUME NEW i \in head .. n + 1 PROVE i \in live'
    <3>1. i \in head .. n \/ i = n + 1
      BY <1>4
    <3> QED
      BY <3>1, <2>1, <1>1
  <2> QED
    BY <2>2, <2>3, <1>1, <1>2, <1>4 DEF ListInv
<1>10. PushInv'
  <2>1. \A d \in Client : d # c => pc'[d] \notin Filling
    BY <1>1, OneFiller DEF CallTypes
  <2>2. pc'[c] = "fill 1" /\ node'[c] = n + 1
    BY <1>1, <1>4 DEF CallTypes
  <2>3. next'[n] = Free
    BY <1>2, <1>4
  <2>4. pc'[c] \in Filling /\ ~Linked(c)' /\ ~Filled(c)'
    BY <2>2 DEF Filling, Linked, Filled
  <2> QED
    BY <2>1, <2>2, <2>3, <2>4, <1>1, <1>2, <1>4 DEF PushInv
<1>11. TakenInv'
  BY <1>1 DEF CallTypes, TakenInv, Filling
<1> QED
  BY <1>5, <1>6, <1>7, <1>8, <1>9, <1>10, <1>11

LEMMA FillKeeps ==
    ASSUME QueueInv, NEW c \in Client, Queue!Fill(c)
    PROVE  QueueInv'
<1> USE DEF QueueInv
<1>1. /\ pc[c] \in {"fill 1", "fill 2"}
      /\ pc' = [pc EXCEPT ![c] = IF pc[c] = "fill 1" THEN "fill 2" ELSE "swing"]
      /\ UNCHANGED <<todo, fill, head, tail, live, head_mutex, tail_mutex, node, returned>>
  BY DEF Queue!Fill, Queue!Goto
<1>2. pc[c] \in Filling /\ pc'[c] = IF pc[c] = "fill 1" THEN "fill 2" ELSE "swing"
  BY <1>1 DEF Filling, CallTypes
<1>3. Len(next) = tail + 1 /\ node[c] = tail + 1 /\ next[tail + 1] = Free
  BY <1>2 DEF PushInv
<1>4. Head(todo[c]) \in Entries /\ tail + 1 \in Nat
  <2>1. todo[c] # <<>> /\ todo[c] \in Seq(Entries)
    BY <1>1 DEF CallInv, CallTypes
  <2> QED
    BY <2>1, Numbers
<1>5. \/ /\ (pc[c] = "fill 1" /\ fill = Queue!DataFirst) \/ (pc[c] = "fill 2" /\ fill = Queue!NextFirst)
         /\ value' = [value EXCEPT ![tail] = Head(todo[c])] /\ UNCHANGED next
      \/ /\ (pc[c] = "fill 1" /\ fill = Queue!NextFirst) \/ (pc[c] = "fill 2" /\ fill = Queue!DataFirst)
         /\ next' = [next EXCEPT ![tail] = tail + 1] /\ UNCHANGED value
  <2>1. CASE pc[c] = "fill 1"
    <3>1. Queue!Fills(c, fill[1])
      BY <2>1 DEF Queue!Fill, Queue!Goto
    <3>2. CASE fill = Queue!DataFirst
      BY <2>1, <3>1, <3>2 DEF Queue!Fills, Queue!DataFirst
    <3>3. CASE fill = Queue!NextFirst
      BY <2>1, <3>1, <3>3, <1>3 DEF Queue!Fills, Queue!NextFirst
    <3> QED
      BY <3>2, <3>3 DEF CallTypes
  <2>2. CASE pc[c] = "fill 2"
    <3>1. Queue!Fills(c, fill[2])
      BY <2>2 DEF Queue!Fill, Queue!Goto
    <3>2. CASE fill = Queue!DataFirst
      BY <2>2, <3>1, <3>2, <1>3 DEF Queue!Fills, Queue!DataFirst
    <3>3. CASE fill = Queue!NextFirst
      BY <2>2, <3>1, <3>3 DEF Queue!Fills, Queue!NextFirst
    <3> QED
      BY <3>2, <3>3 DEF CallTypes
  <2> QED
    BY <2>1, <2>2, <1>1
<1>6. /\ next' \in Seq(Nat \cup {Free}) /\ Len(next') = Len(next)
      /\ \A i \in 1 .. Len(next) : i # tail => next'[i] = next[i]
      /\ next' = [next EXCEPT ![tail] = tail + 1] => next'[tail] = tail + 1
  <2> DEFINE S == Nat \cup {Free}
  <2>1. next \in Seq(S) /\ tail + 1 \in S /\ tail \in 1 .. Len(next)
    BY <1>4, Numbers DEF NodeTypes
  <2> HIDE DEF S
  <2>2. CASE next' = [next EXCEPT ![tail] = tail + 1]
    <3>1. /\ next' \in Seq(S) /\ Len(next') = Len(next)
          /\ \A i \in 1 .. Len(next) : next'[i] = IF i = tail THEN tail + 1 ELSE next[i]
      BY <2>1, <2>2, ExceptSeq
    <3> QED
      BY <2>1, <3>1 DEF S
  <2>3. CASE next' = next /\ next' # [next EXCEPT ![tail] = tail + 1]
    BY <2>1, <2>3 DEF S
  <2> QED
    BY <2>2, <2>3, <1>5
<1>7. /\ value' \in Seq(Entries) /\ Len(value') = Len(next)
      /\ value' = [value EXCEPT ![tail] = Head(todo[c])] => value'[tail] = Head(todo[c])
  <2>1. value \in Seq(Entries) /\ tail \in 1 .. Len(value) /\ Len(value) = Len(next)
    BY Numbers DEF NodeTypes
  <2>2. CASE value' = [value EXCEPT ![tail] = Head(todo[c])]
    <3>1. /\ value' \in Seq(Entries) /\ Len(value') = Len(value)
          /\ \A i \in 1 .. Len(value) : value'[i] = IF i = tail THEN Head(todo[c]) ELSE value[i]
      BY <2>1, <2>2, <1>4, ExceptSeq
    <3> QED
      BY <2>1, <3>1
  <2>3. CASE value' = value /\ value' # [value EXCEPT ![tail] = Head(todo[c])]
    BY <2>1, <2>3
  <2> QED
    BY <2>2, <2>3, <1>5
<1>8. CallTypes'
  BY <1>1 DEF CallTypes, Places, Filling
<1>9. NodeTypes'
  BY <1>1, <1>6, <1>7 DEF NodeTypes
<1>10. LocksInv'
  BY <1>1 DEF CallTypes, LocksInv, Filling
<1>11. CallInv'
  BY <1>1 DEF CallTypes, CallInv, Filling
<1>12. ListInv'
  <2>1. /\ \A i \in 1 .. head - 1 : i \in 1 .. Len(next) /\ i # tail
        /\ \A i \in head .. tail - 1 : i \in 1 .. Len(next) /\ i # tail
    BY Numbers
  <2> QED
    BY <2>1, <1>1, <1>6 DEF ListInv
<1>13. PushInv'
  <2>1. \A d \in Client : pc'[d] \in Filling => d = c
    BY <1>1, OneFiller DEF CallTypes, Filling
  <2>2. pc'[c] \in Filling
    BY <1>2 DEF Filling
  <2>3. next'[tail + 1] = Free
    <3>1. tail + 1 \in 1 .. Len(next) /\ tail + 1 # tail
      BY <1>3, Numbers
    <3> QED
      BY <3>1, <1>3, <1>6
  <2>4. /\ Linked(c)' <=> pc[c] = "fill 2" \/ fill = Queue!NextFirst
        /\ Filled(c)' <=> pc[c] = "fill 2" \/ fill = Queue!DataFirst
        /\ Linked(c) <=> pc[c] = "fill 2" /\ fill = Queue!NextFirst
        /\ Filled(c) <=> pc[c] = "fill 2" /\ fill = Queue!DataFirst
    <3>1. Queue!DataFirst # Queue!NextFirst /\ fill \in {Queue!DataFirst, Queue!NextFirst}
      BY DEF CallTypes, Queue!DataFirst, Queue!NextFirst
    <3>2. CASE pc[c] = "fill 1"
      <4>1. pc'[c] = "fill 2" /\ fill' = fill
        BY <3>2, <1>1, <1>2
      <4> QED
        BY <3>1, <3>2, <4>1 DEF Linked, Filled
    <3>3. CASE pc[c] = "fill 2"
      BY <3>1, <3>3, <1>1, <1>2 DEF Linked, Filled
    <3> QED
      BY <3>2, <3>3, <1>1
  <2>5. fill \in {Queue!DataFirst, Queue!NextFirst} /\ Queue!DataFirst # Queue!NextFirst
    BY DEF CallTypes, Queue!DataFirst, Queue!NextFirst
  <2>6. next[tail] = IF Linked(c) THEN tail + 1 ELSE Free
    BY <1>2 DEF PushInv
  <2>7. next'[tail] = IF Linked(c)' THEN tail + 1 ELSE Free
    <3>1. CASE UNCHANGED next /\ ((pc[c] = "fill 1" /\ fill = Queue!DataFirst) \/ (pc[c] = "fill 2" /\ fill = Queue!NextFirst))
      BY <3>1, <2>4, <2>5, <2>6
    <3>2. CASE /\ next'[tail] = tail + 1
               /\ (pc[c] = "fill 1" /\ fill = Queue!NextFirst) \/ (pc[c] = "fill 2" /\ fill = Queue!DataFirst)
      BY <3>2, <2>4, <2>5
    <3> QED
      BY <3>1, <3>2, <1>5, <1>6
  <2>8. Filled(c) => value[tail] = Head(todo[c])
    BY <1>2 DEF PushInv
  <2>9. Filled(c)' => value'[tail] = Head(todo[c])
    <3>1. CASE value'[tail] = Head(todo[c])
      BY <3>1
    <3>2. CASE UNCHANGED value /\ ((pc[c] = "fill 1" /\ fill = Queue!NextFirst) \/ (pc[c] = "fill 2" /\ fill = Queue!DataFirst))
      BY <3>2, <2>4, <2>5, <2>8
    <3> QED
      BY <3>1, <3>2, <1>5, <1>7
  <2>10. \A d \in Client : pc'[d] \in Filling =>
           /\ Len(next') = tail + 1 /\ node[d] = tail + 1 /\ next'[tail + 1] = Free
           /\ next'[tail] = IF Linked(d)' THEN tail + 1 ELSE Free
           /\ Filled(d)' => value'[tail] = Head(todo[d])
    BY <2>1, <2>3, <2>7, <2>9, <1>3, <1>6
  <2> QED
    BY <2>2, <2>10, <1>1 DEF PushInv
<1>14. TakenInv'
  BY <1>1 DEF CallTypes, TakenInv, Filling
<1> QED
  BY <1>8, <1>9, <1>10, <1>11, <1>12, <1>13, <1>14

LEMMA SwingTailKeeps ==
    ASSUME QueueInv, NEW c \in Client, Queue!SwingTail(c)
    PROVE  QueueInv'
<1> USE DEF QueueInv
<1>1. /\ pc[c] = "swing" /\ pc' = [pc EXCEPT ![c] = "unlock tail"]
      /\ tail' = node[c] /\ node' = [node EXCEPT ![c] = Free]
      /\ UNCHANGED <<todo, fill, head, next, value, live, head_mutex, tail_mutex, returned>>
  BY DEF Queue!SwingTail, Queue!Goto
<1>2. /\ Len(next) = tail + 1 /\ tail' = tail + 1 /\ next[tail + 1] = Free /\ next[tail] = tail + 1
  BY <1>1 DEF PushInv, Filling, Linked
<1>3. CallTypes'
  BY <1>1 DEF CallTypes, Places
<1>4. NodeTypes'
  <2>1. tail + 1 \in Nat /\ head <= tail + 1 /\ tail + 1 <= Len(next)
    BY <1>2, Numbers
  <2> QED
    BY <2>1, <1>1, <1>2 DEF NodeTypes
<1>5. LocksInv'
  BY <1>1 DEF CallTypes, LocksInv, Filling
<1>6. CallInv'
  BY <1>1 DEF CallTypes, CallInv, Filling
<1>7. ListInv'
  <2>1. ASSUME NEW i \in head .. tail PROVE next[i] = i + 1
    <3>1. i = tail \/ i \in head .. tail - 1
      BY Numbers
    <3> QED
      BY <3>1, <1>2 DEF ListInv
  <2>2. tail' - 1 = tail
    BY <1>2, Numbers
  <2> QED
    BY <2>1, <2>2, <1>1 DEF ListInv
<1>8. PushInv'
  <2>1. \A d \in Client : pc'[d] \notin Filling
    BY <1>1, OneFiller DEF CallTypes, Filling
  <2> QED
    BY <2>1, <1>1, <1>2 DEF PushInv
<1>9. TakenInv'
  <2>1. \A d \in Client : pc'[d] = "move head" => head < tail'
    <3>1. head < tail + 1
      BY Numbers
    <3> QED
      BY <3>1, <1>2
  <2> QED
    BY <2>1, <1>1 DEF CallTypes, TakenInv, Filling
<1> QED
  BY <1>3, <1>4, <1>5, <1>6, <1>7, <1>8, <1>9

LEMMA UnlockTailKeeps ==
    ASSUME QueueInv, NEW c \in Client, Queue!UnlockTail(c)
    PROVE  QueueInv'
<1> USE DEF QueueInv
<1>1. /\ pc[c] = "unlock tail" /\ pc' = [pc EXCEPT ![c] = "idle"]
      /\ tail_mutex' = Free /\ todo' = [todo EXCEPT ![c] = Tail(@)]
      /\ UNCHANGED <<fill, head, tail, next, value, live, head_mutex, node, returned>>
  BY DEF Queue!UnlockTail, Queue!Goto
<1>2. Tail(todo[c]) \in Seq(Entries)
  <2>1. todo[c] # <<>> /\ todo[c] \in Seq(Entries)
    BY <1>1 DEF CallInv, CallTypes
  <2> QED
    BY <2>1
<1>3. CallTypes'
  BY <1>1, <1>2 DEF CallTypes, Places
<1>4. NodeTypes'
  BY <1>1 DEF NodeTypes
<1>5. LocksInv'
  BY <1>1, CallsAssumption, OneFiller DEF CallTypes, LocksInv, Filling
<1>6. CallInv'
  BY <1>1 DEF CallTypes, CallInv, Filling
<1>7. ListInv'
  BY <1>1 DEF ListInv
<1>8. PushInv'
  BY <1>1 DEF CallTypes, PushInv, Filling, Linked, Filled
<1>9. TakenInv'
  BY <1>1 DEF CallTypes, TakenInv, Filling
<1> QED
  BY <1>3, <1>4, <1>5, <1>6, <1>7, <1>8, <1>9

LEMMA LockHeadKeeps ==
    ASSUME QueueInv, NEW c \in Client, Queue!LockHead(c)
    PROVE  QueueInv'
<1> USE DEF QueueInv
<1>1. /\ pc[c] = "lock head" /\ pc' = [pc EXCEPT ![c] = "get tail"]
      /\ head_mutex = Free /\ head_mutex' = c
      /\ UNCHANGED <<todo, fill, head, tail, next, value, live, tail_mutex, node, returned>>
  BY DEF Queue!LockHead, Queue!Goto
<1>2. CallTypes'
  BY <1>1 DEF CallTypes, Places, Looking
<1>3. NodeTypes'
  BY <1>1 DEF NodeTypes
<1>4. LocksInv'
  BY <1>1, CallsAssumption DEF CallTypes, LocksInv, Filling
<1>5. CallInv'
  BY <1>1 DEF CallTypes, CallInv, Filling
<1>6. ListInv'
  BY <1>1 DEF ListInv
<1>7. PushInv'
  BY <1>1 DEF CallTypes, PushInv, Filling, Linked, Filled
<1>8. TakenInv'
  BY <1>1 DEF CallTypes, TakenInv, Filling
<1> QED
  BY <1>2, <1>3, <1>4, <1>5, <1>6, <1>7, <1>8

LEMMA GetTailKeeps ==
    ASSUME QueueInv, NEW c \in Client, Queue!GetTail(c)
    PROVE  QueueInv'
<1> USE DEF QueueInv
<1>1. /\ pc[c] = "get tail" /\ tail_mutex = Free
      /\ UNCHANGED <<fill, head, tail, next, value, live, tail_mutex, node>>
  BY DEF Queue!GetTail, Queue!Goto
<1>2. \/ /\ head # tail /\ pc' = [pc EXCEPT ![c] = "move head"]
         /\ UNCHANGED <<head_mutex, todo, returned>>
      \/ /\ pc' = [pc EXCEPT ![c] = "idle"] /\ head_mutex' = Free
         /\ returned' = [returned EXCEPT ![c] = Empty] /\ todo' = [todo EXCEPT ![c] = Tail(@)]
  BY DEF Queue!GetTail, Queue!Goto, Queue!Answer
<1>3. Tail(todo[c]) \in Seq(Entries) /\ Empty \in Entries
  <2>1. todo[c] # <<>> /\ todo[c] \in Seq(Entries)
    BY <1>1 DEF CallInv, CallTypes
  <2> QED
    BY <2>1 DEF Entries
<1>4. CallTypes'
  BY <1>1, <1>2, <1>3 DEF CallTypes, Places, Looking
<1>5. NodeTypes'
  BY <1>1 DEF NodeTypes
<1>6. LocksInv'
  <2>1. CASE pc' = [pc EXCEPT ![c] = "move head"] /\ UNCHANGED head_mutex
    BY <2>1, <1>1 DEF CallTypes, LocksInv, Filling
  <2>2. CASE pc' = [pc EXCEPT ![c] = "idle"] /\ head_mutex' = Free
    BY <2>2, <1>1, CallsAssumption, OneFiller DEF CallTypes, LocksInv, Filling
  <2> QED
    BY <2>1, <2>2, <1>2
<1>7. CallInv'
  BY <1>1, <1>2 DEF CallTypes, CallInv, Filling
<1>8. ListInv'
  BY <1>1 DEF ListInv
<1>9. PushInv'
  <2>1. \A d \in Client : pc[d] \notin Filling /\ pc'[d] \notin Filling
    BY <1>1, <1>2, OneFiller DEF CallTypes, Filling
  <2> QED
    BY <2>1, <1>1 DEF PushInv
<1>10. TakenInv'
  <2>1. head # tail => head < tail
    BY Numbers
  <2> QED
    <3>1. CASE head < tail /\ pc' = [pc EXCEPT ![c] = "move head"]
      BY <3>1, <1>1 DEF CallTypes, TakenInv, Filling
    <3>2. CASE pc' = [pc EXCEPT ![c] = "idle"]
      BY <3>2, <1>1 DEF CallTypes, TakenInv, Filling
    <3> QED
      BY <3>1, <3>2, <2>1, <1>2
<1> QED
  BY <1>4, <1>5, <1>6, <1>7, <1>8, <1>9, <1>10

LEMMA MoveHeadKeeps ==
    ASSUME QueueInv, NEW c \in Client, Queue!MoveHead(c)
    PROVE  QueueInv'
<1> USE DEF QueueInv
<1>1. /\ pc[c] = "move head" /\ pc' = [pc EXCEPT ![c] = "read value"]
      /\ node' = [node EXCEPT ![c] = head] /\ head' = next[head]
      /\ next' = [next EXCEPT ![head] = Free] /\ head_mutex' = Free
      /\ UNCHANGED <<todo, fill, tail, value, live, tail_mutex, returned>>
  BY DEF Queue!MoveHead, Queue!Goto
<1>2. head < tail
  BY <1>1 DEF TakenInv
<1>3. head' = head + 1 /\ head \in live
  <2>1. head \in head .. tail - 1 /\ head \in head .. Len(next)
    BY <1>2, Numbers
  <2> QED
    BY <2>1, <1>1 DEF ListInv
<1>4. /\ next' \in Seq(Nat \cup {Free}) /\ Len(next') = Len(next) /\ next'[head] = Free
      /\ \A i \in 1 .. Len(next) : i # head => next'[i] = next[i]
  <2> DEFINE S == Nat \cup {Free}
  <2>1. next \in Seq(S) /\ Free \in S /\ head \in 1 .. Len(next)
    BY Numbers DEF NodeTypes
  <2> HIDE DEF S
  <2>2. /\ next' \in Seq(S) /\ Len(next') = Len(next)
        /\ \A i \in 1 .. Len(next) : next'[i] = IF i = head THEN Free ELSE next[i]
    <3>1. next' = [next EXCEPT ![head] = Free]
      BY <1>1
    <3> QED
      BY <2>1, <3>1, ExceptSeq
  <2> QED
    BY <2>1, <2>2 DEF S
<1>5. CallTypes'
  BY <1>1, Numbers DEF CallTypes, Places
<1>6. NodeTypes'
  <2>1. head + 1 \in Nat /\ 1 <= head + 1 /\ head + 1 <= tail
    BY <1>2, Numbers
  <2> QED
    BY <2>1, <1>1, <1>3, <1>4 DEF NodeTypes
<1>7. LocksInv'
  BY <1>1, CallsAssumption, OneFiller DEF CallTypes, LocksInv, Filling
<1>8. CallInv'
  BY <1>1 DEF CallTypes, CallInv, Filling
<1>9. ListInv'
  <2>1. ASSUME NEW i \in 1 .. head PROVE next'[i] = Free
    <3>1. i = head \/ (i \in 1 .. head - 1 /\ i \in 1 .. Len(next) /\ i # head)
      BY Numbers
    <3> QED
      BY <3>1, <1>4 DEF ListInv
  <2>2. ASSUME NEW i \in head + 1 .. tail - 1 PROVE next'[i] = i + 1
    <3>1. i \in head .. tail - 1 /\ i \in 1 .. Len(next) /\ i # head
      BY Numbers
    <3> QED
      BY <3>1, <1>4 DEF ListInv
  <2>3. head + 1 .. Len(next) \subseteq live
    <3>1. head + 1 .. Len(next) \subseteq head .. Len(next)
      BY Numbers
    <3> QED
      BY <3>1 DEF ListInv
  <2>4. head' - 1 = head
    BY <1>3, Numbers
  <2> QED
    BY <2>1, <2>2, <2>3, <2>4, <1>1, <1>3, <1>4 DEF ListInv
<1>10. PushInv'
  <2>1. next'[tail] = next[tail]
    BY <1>2, <1>4, Numbers
  <2>2. Len(next) = tail + 1 => next'[tail + 1] = next[tail + 1]
    BY <1>2, <1>4, Numbers
  <2>3. \A d \in Client : /\ pc'[d] \in Filling <=> pc[d] \in Filling
                          /\ pc'[d] \in Filling => /\ pc[d] = pc'[d] /\ node'[d] = node[d]
                                                   /\ Linked(d)' = Linked(d) /\ Filled(d)' = Filled(d)
    BY <1>1 DEF CallTypes, Filling, Linked, Filled
  <2> QED
    BY <2>1, <2>2, <2>3, <1>1, <1>4 DEF PushInv
<1>11. TakenInv'
  <2>1. \A d \in Client : pc'[d] # "move head"
    BY <1>1, OneFiller DEF CallTypes
  <2>2. ASSUME NEW d \in Client, pc'[d] = "read value" PROVE node'[d] \in live /\ node'[d] < head'
    <3>1. CASE d = c
      <4>1. node'[c] = head /\ head < head + 1
        <5>1. node'[c] = head
          BY <1>1 DEF CallTypes
        <5> QED
          BY <5>1, Numbers
      <4> QED
        BY <3>1, <4>1, <1>1, <1>3
    <3>2. CASE d # c
      <4>1. pc[d] = "read value" /\ node'[d] = node[d]
        BY <3>2, <2>2, <1>1 DEF CallTypes
      <4>2. node[d] \in live /\ node[d] < head
        BY <4>1 DEF TakenInv
      <4>3. node[d] \in Nat
        <5>1. live \subseteq 1 .. Len(next) /\ 1 .. Len(next) \subseteq Nat
          BY DEF NodeTypes
        <5> QED
          BY <5>1, <4>2
      <4>4. node[d] < head + 1
        BY <4>2, <4>3, Numbers
      <4> QED
        BY <4>1, <4>2, <4>4, <1>1, <1>3
    <3> QED
      BY <3>1, <3>2
  <2>3. ASSUME NEW d \in Client, pc'[d] \notin Filling \cup {"read value"} PROVE node'[d] = Free
    BY <2>3, <1>1 DEF CallTypes, TakenInv
  <2>4. ASSUME NEW d \in Client, NEW e \in Client, pc'[d] = "read value", pc'[e] = "read value",
               node'[d] = node'[e]
        PROVE  d = e
    <3>1. \A f \in Client \ {c} : pc'[f] = "read value" => pc[f] = "read value" /\ node'[f] = node[f] /\ node[f] # head
      <4>1. ASSUME NEW f \in Client, pc[f] = "read value" PROVE node[f] # head
        <5>1. node[f] < head
          BY <4>1 DEF TakenInv
        <5>2. ~ (head < head)
          BY Numbers
        <5> QED
          BY <5>1, <5>2
      <4> QED
        BY <4>1, <1>1 DEF CallTypes
    <3>2. node'[c] = head
      BY <1>1 DEF CallTypes
    <3>3. CASE d # c /\ e # c
      BY <3>1, <3>3, <2>4 DEF TakenInv
    <3> QED
      BY <3>1, <3>2, <3>3, <2>4
  <2> QED
    BY <2>1, <2>2, <2>3, <2>4, <1>1 DEF TakenInv
<1> QED
  BY <1>5, <1>6, <1>7, <1>8, <1>9, <1>10, <1>11

LEMMA ReadValueKeeps ==
    ASSUME QueueInv, NEW c \in Client, Queue!ReadValue(c)
    PROVE  QueueInv'
<1> USE DEF QueueInv
<1>1. /\ pc[c] = "read value" /\ pc' = [pc EXCEPT ![c] = "idle"]
      /\ returned' = [returned EXCEPT ![c] = value[node[c]]] /\ todo' = [todo EXCEPT ![c] = Tail(@)]
      /\ live' = live \ {node[c]} /\ node' = [node EXCEPT ![c] = Free]
      /\ UNCHANGED <<fill, head, tail, next, value, head_mutex, tail_mutex>>
  BY DEF Queue!ReadValue, Queue!Goto, Queue!Answer
<1>2. node[c] \in live /\ node[c] < head /\ node[c] \in 1 .. Len(next)
  BY <1>1 DEF TakenInv, NodeTypes
<1>3. Tail(todo[c]) \in Seq(Entries) /\ value[node[c]] \in Entries
  <2>1. todo[c] # <<>> /\ todo[c] \in Seq(Entries)
    BY <1>1 DEF CallInv, CallTypes
  <2>2. value \in Seq(Entries) /\ node[c] \in 1 .. Len(value)
    BY <1>2 DEF NodeTypes
  <2> QED
    BY <2>1, <2>2
<1>4. CallTypes'
  BY <1>1, <1>3 DEF CallTypes, Places
<1>5. NodeTypes'
  BY <1>1 DEF NodeTypes
<1>6. LocksInv'
  BY <1>1 DEF CallTypes, LocksInv, Filling
<1>7. CallInv'
  BY <1>1 DEF CallTypes, CallInv, Filling
<1>8. ListInv'
  <2>1. node[c] \notin head .. Len(next)
    BY <1>2, Numbers
  <2> QED
    BY <2>1, <1>1 DEF ListInv
<1>9. PushInv'
  BY <1>1 DEF CallTypes, PushInv, Filling, Linked, Filled
<1>10. TakenInv'
  BY <1>1 DEF CallTypes, TakenInv, Filling
<1> QED
  BY <1>4, <1>5, <1>6, <1>7, <1>8, <1>9, <1>10

(* Every step keeps the invariant.                                          *)
LEMMA StepKeeps ==
    ASSUME QueueInv, NEW c \in Client, Queue!Step(c)
    PROVE  QueueInv'
BY CallKeeps, LockTailKeeps, FillKeeps, SwingTailKeeps, UnlockTailKeeps, LockHeadKeeps, GetTailKeeps,
   MoveHeadKeeps, ReadValueKeeps DEF Queue!Step

-----------------------------------------------------------------------------
(* What the abstract queue sees: the values from head to tail, and of each  *)
(* client where its call stands.                                            *)
Held == [i \in 1 .. tail - head |-> value[head + i - 1]]
Label(p) ==
    CASE p = "idle" -> "idle"
      [] p \in {"lock tail", "fill 1", "fill 2", "swing"} -> "enqueue"
      [] p = "unlock tail" -> "enqueued"
      [] p \in {"lock head", "get tail", "move head"} -> "dequeue"
      [] p = "read value" -> "dequeued"
Carried(c) ==
    IF pc[c] \in Filling \cup {"lock tail"} THEN Head(todo[c])
    ELSE IF pc[c] = "read value" THEN value[node[c]] ELSE Empty

(* A value in front of a sequence.                                          *)
LEMMA Prepended ==
    ASSUME NEW S, NEW a \in S, NEW m \in Nat, NEW f, \A i \in 1 .. m : f[i] \in S
    PROVE  <<a>> \o [i \in 1 .. m |-> f[i]] = [i \in 1 .. m + 1 |-> IF i = 1 THEN a ELSE f[i - 1]]
<1>1. PICK s : s = [i \in 1 .. m |-> f[i]]
  OBVIOUS
<1>2. s \in Seq(S) /\ Len(s) = m /\ \A i \in 1 .. m : s[i] = f[i]
  BY <1>1
<1>3. PICK t : t = <<a>> \o s
  OBVIOUS
<1>4. <<a>> \in Seq(S) /\ Len(<<a>>) = 1 /\ <<a>>[1] = a
  OBVIOUS
<1>5. /\ t \in Seq(S) /\ Len(t) = m + 1 /\ t[1] = a
      /\ \A i \in 2 .. m + 1 : t[i] = s[i - 1]
  BY <1>2, <1>3, <1>4
<1>6. ASSUME NEW i \in 1 .. m + 1 PROVE t[i] = IF i = 1 THEN a ELSE f[i - 1]
  <2>1. CASE i = 1
    BY <2>1, <1>5
  <2>2. CASE i # 1
    <3>1. i \in 2 .. m + 1 /\ i - 1 \in 1 .. m
      BY <2>2
    <3> QED
      BY <2>2, <3>1, <1>2, <1>5
  <2> QED
    BY <2>1, <2>2
<1>7. t = [i \in 1 .. m + 1 |-> IF i = 1 THEN a ELSE f[i - 1]]
  BY <1>5, <1>6
<1> QED
  BY <1>1, <1>3, <1>7

(* Items follows next from head to tail, and meets the nodes between.       *)
LEMMA ItemsAre == QueueInv => Queue!Items = Held
<1> SUFFICES ASSUME QueueInv PROVE Queue!Items = Held
  OBVIOUS
<1> DEFINE n == Len(next)
           From == [k \in 1 .. n |-> IF head <= k /\ k <= tail THEN [i \in 1 .. tail - k |-> value[k + i - 1]] ELSE <<>>]
           Along(g) == g = [k \in 1 .. n |-> IF k = tail \/ next[k] = Free THEN <<>> ELSE <<value[k]>> \o g[next[k]]]
           Follow == CHOOSE g : Along(g)
<1>1. /\ n \in Nat /\ head \in Nat /\ tail \in Nat /\ 1 <= head /\ head <= tail /\ tail <= n
      /\ head \in 1 .. n /\ tail \in 1 .. n
  BY Numbers
<1>2. \A k \in 1 .. n : value[k] \in Entries
  BY DEF QueueInv, NodeTypes
<1>3. ASSUME NEW k \in 1 .. n, k < head \/ tail < k PROVE next[k] = Free
  <2>1. CASE k < head
    <3>1. k \in 1 .. head - 1
      BY <2>1, <1>1
    <3> QED
      BY <3>1 DEF QueueInv, ListInv
  <2>2. CASE tail < k
    <3>1. ~ (\A c \in Client : pc[c] \notin Filling)
      BY <2>2, <1>1 DEF QueueInv, PushInv
    <3>2. n = tail + 1 /\ next[tail + 1] = Free
      BY <3>1 DEF QueueInv, PushInv
    <3>3. k = tail + 1
      BY <3>2, <2>2, <1>1
    <3> QED
      BY <3>2, <3>3
  <2> QED
    BY <1>3, <2>1, <2>2
<1>4. ASSUME NEW k \in 1 .. n, head <= k, k < tail
      PROVE  next[k] = k + 1 /\ next[k] # Free /\ k # tail /\ k + 1 \in 1 .. n /\ head <= k + 1 /\ k + 1 <= tail
  <2>1. k \in head .. tail - 1 /\ k + 1 \in Nat
    BY <1>4, <1>1
  <2>2. next[k] = k + 1
    BY <2>1 DEF QueueInv, ListInv
  <2> QED
    BY <2>1, <2>2, <1>4, <1>1, CallsAssumption
<1> HIDE DEF n
<1>5. From[tail] = <<>>
  <2>1. [i \in 1 .. tail - tail |-> value[tail + i - 1]] = <<>>
    BY <1>1
  <2> QED
    BY <2>1, <1>1
<1>6. ASSUME NEW k \in 1 .. n, head <= k, k < tail PROVE From[k] = <<value[k]>> \o From[k + 1]
  <2>1. PICK f : f = [i \in 1 .. tail - (k + 1) |-> value[(k + 1) + i - 1]]
    OBVIOUS
  <2>2. PICK m : m = tail - (k + 1)
    OBVIOUS
  <2>3. m \in Nat /\ m + 1 = tail - k /\ \A i \in 1 .. m : k + i \in 1 .. n /\ (k + 1) + i - 1 = k + i
    BY <1>1, <1>6, <2>2
  <2>4. f = [i \in 1 .. m |-> f[i]] /\ \A i \in 1 .. m : f[i] = value[k + i]
    BY <2>1, <2>2, <2>3
  <2>5. \A i \in 1 .. m : f[i] \in Entries
    BY <2>3, <2>4, <1>2
  <2>6. <<value[k]>> \o f = [i \in 1 .. m + 1 |-> IF i = 1 THEN value[k] ELSE f[i - 1]]
    BY <2>3, <2>4, <2>5, <1>2, Prepended
  <2>7. ASSUME NEW i \in 1 .. m + 1 PROVE value[k + i - 1] = IF i = 1 THEN value[k] ELSE f[i - 1]
    <3>1. CASE i = 1
      BY <3>1, <1>1
    <3>2. CASE i # 1
      <4>1. i - 1 \in 1 .. m /\ k + (i - 1) = k + i - 1
        BY <3>2, <2>3
      <4> QED
        BY <4>1, <3>2, <2>4
    <3> QED
      BY <3>1, <3>2
  <2>8. From[k] = [i \in 1 .. m + 1 |-> value[k + i - 1]]
    BY <1>6, <2>3, <1>1
  <2>9. From[k + 1] = f
    BY <1>4, <1>6, <2>1
  <2> HIDE DEF From
  <2>10. From[k] = [i \in 1 .. m + 1 |-> IF i = 1 THEN value[k] ELSE f[i - 1]]
    BY <2>7, <2>8
  <2> QED
    BY <2>6, <2>9, <2>10
<1>7. Along(From)
  <2>1. ASSUME NEW k \in 1 .. n
        PROVE  From[k] = IF k = tail \/ next[k] = Free THEN <<>> ELSE <<value[k]>> \o From[next[k]]
    <3>1. CASE k = tail
      BY <3>1, <1>5
    <3>2. CASE k < head \/ tail < k
      <4>1. From[k] = <<>>
        BY <3>2, <1>1
      <4> QED
        BY <4>1, <3>2, <1>3
    <3>3. CASE head <= k /\ k < tail
      <4>1. next[k] = k + 1 /\ k # tail /\ next[k] # Free
        BY <3>3, <1>4
      <4>2. From[k] = <<value[k]>> \o From[k + 1]
        BY <3>3, <1>6
      <4> HIDE DEF From
      <4> QED
        BY <4>1, <4>2
    <3> QED
      BY <3>1, <3>2, <3>3, <1>1
  <2>2. From = [k \in 1 .. n |-> From[k]]
    OBVIOUS
  <2> HIDE DEF From
  <2> QED
    BY <2>1, <2>2
<1> HIDE DEF From
<1>8. ASSUME NEW g, Along(g) PROVE g[head] = From[head]
  <2>1. \A k \in 1 .. n : g[k] = IF k = tail \/ next[k] = Free THEN <<>> ELSE <<value[k]>> \o g[next[k]]
    <3> DEFINE e(k) == IF k = tail \/ next[k] = Free THEN <<>> ELSE <<value[k]>> \o g[next[k]]
    <3>1. g = [k \in 1 .. n |-> e(k)]
      BY <1>8
    <3> HIDE DEF e
    <3>2. \A k \in 1 .. n : g[k] = e(k)
      BY <3>1
    <3> QED
      BY <3>2 DEF e
  <2> DEFINE Differ == {j \in 0 .. tail - head : g[tail - j] # From[tail - j]}
  <2>2. Differ = {}
    <3> SUFFICES ASSUME Differ # {} PROVE FALSE
      OBVIOUS
    <3>1. Differ \in SUBSET Nat
      BY <1>1
    <3>2. PICK j \in Differ : \A i \in Differ : j <= i
      BY <3>1, LeastNatural
    <3>3. j # 0
      <4>1. g[tail] = <<>>
        BY <2>1, <1>1
      <4> QED
        BY <4>1, <3>2, <1>1, <1>5
    <3>4. PICK k : k = tail - j
      OBVIOUS
    <3>5. k \in 1 .. n /\ head <= k /\ k < tail /\ j - 1 \in 0 .. tail - head /\ tail - (j - 1) = k + 1
      BY <3>1, <3>2, <3>3, <3>4, <1>1
    <3>6. j - 1 \notin Differ
      BY <3>1, <3>2, <3>5
    <3>7. g[k + 1] = From[k + 1]
      BY <3>5, <3>6
    <3>8. g[k] = <<value[k]>> \o g[k + 1]
      BY <2>1, <3>5, <1>4
    <3>9. g[k] = From[k]
      BY <3>5, <3>7, <3>8, <1>6
    <3> QED
      BY <3>2, <3>4, <3>9
  <2>3. tail - head \in 0 .. tail - head /\ tail - (tail - head) = head
    BY <1>1
  <2> QED
    BY <2>2, <2>3
<1>9. Along(Follow)
  <2> HIDE DEF Along
  <2> QED
    BY <1>7
<1>10. Queue!Items = Follow[head]
  BY DEF Queue!Items, n
<1>11. From[head] = Held
  BY <1>1 DEF From, Held
<1> QED
  BY <1>8, <1>9, <1>10, <1>11

(* And so after a step.                                                     *)
LEMMA ItemsAreNext == QueueInv' => Queue!Items' = Held'
<1>1. (QueueInv => Queue!Items = Held)'
  BY ItemsAre, PTL
<1> QED
  BY <1>1

(* What the abstract queue sees of where a call is.                         *)
LEMMA LabelIs ==
    /\ Label("idle") = "idle" /\ Label("unlock tail") = "enqueued" /\ Label("read value") = "dequeued"
    /\ \A p \in Filling \cup {"lock tail"} : Label(p) = "enqueue"
    /\ \A p \in Looking : Label(p) = "dequeue"
    /\ \A p \in Places \ Looking : Label(p) # "dequeue"
BY DEF Label, Filling, Looking, Places

(* The status and the value of each call, as functions of where it is.      *)
LEMMA ViewsAre ==
    /\ Queue!Status = [c \in Client |-> Label(pc[c])]
    /\ CallTypes => Queue!Val = [c \in Client |-> Carried(c)]
<1>1. Queue!Status = [c \in Client |-> Label(pc[c])]
  BY DEF Queue!Status, Label
<1>2. ASSUME CallTypes, NEW c \in Client
      PROVE  Carried(c) = CASE Queue!Status[c] = "enqueue" -> Head(todo[c])
                            [] Queue!Status[c] = "dequeued" -> value[node[c]]
                            [] OTHER -> Empty
  <2>1. pc[c] \in Places /\ Queue!Status[c] = Label(pc[c])
    BY <1>1, <1>2 DEF CallTypes
  <2>2. CASE pc[c] \in Filling \cup {"lock tail"}
    BY <2>1, <2>2, LabelIs DEF Carried
  <2>3. CASE pc[c] = "read value"
    BY <2>1, <2>3, LabelIs DEF Carried, Filling
  <2>4. CASE pc[c] \in {"idle", "unlock tail"} \cup Looking
    <3>1. Label(pc[c]) \notin {"enqueue", "dequeued"}
      BY <2>4, LabelIs
    <3> QED
      BY <2>1, <2>4, <3>1 DEF Carried, Filling, Looking
  <2> QED
    BY <2>1, <2>2, <2>3, <2>4 DEF Places
<1> QED
  BY <1>1, <1>2 DEF Queue!Val

(* And so after a step.                                                     *)
LEMMA ViewsAreNext ==
    /\ Queue!Status' = [c \in Client |-> Label(pc'[c])]
    /\ CallTypes' => Queue!Val' = [c \in Client |-> Carried(c)']
<1>1. /\ (Queue!Status = [c \in Client |-> Label(pc[c])])'
      /\ (CallTypes => Queue!Val = [c \in Client |-> Carried(c)])'
  BY ViewsAre, PTL
<1> QED
  BY <1>1 DEF Label

(* A try_pop() that is under way saw an empty queue if it is empty now.     *)
SawInv ==
    /\ sawEmpty \in [Client -> BOOLEAN]
    /\ \A c \in Client : sawEmpty[c] => pc[c] \in Looking
    /\ \A c \in Client : head = tail /\ pc[c] \in Looking => sawEmpty[c]

(* What is between head and tail.                                           *)
LEMMA HeldIs ==
    ASSUME QueueInv
    PROVE  /\ Held \in Seq(Entries) /\ Len(Held) = tail - head
           /\ Held = <<>> <=> head = tail
           /\ \A i \in 1 .. tail - head : Held[i] = value[head + i - 1]
<1>1. \A i \in 1 .. tail - head : head + i - 1 \in 1 .. Len(next)
  BY Numbers
<1>2. \A i \in 1 .. tail - head : value[head + i - 1] \in Entries
  BY <1>1 DEF QueueInv, NodeTypes
<1>3. tail - head \in Nat /\ (head = tail <=> tail - head = 0)
  BY Numbers
<1> HIDE DEF Held
<1>4. Held \in Seq(Entries) /\ Len(Held) = tail - head /\ \A i \in 1 .. tail - head : Held[i] = value[head + i - 1]
  BY <1>2, <1>3 DEF Held
<1>5. Held = <<>> <=> Len(Held) = 0
  BY <1>4
<1> QED
  BY <1>3, <1>4, <1>5

(* And so after a step.                                                     *)
LEMMA HeldIsNext ==
    QueueInv' => /\ Held' \in Seq(Entries) /\ Len(Held') = tail' - head'
                 /\ Held' = <<>> <=> head' = tail'
                 /\ \A i \in 1 .. tail' - head' : Held'[i] = value'[head' + i - 1]
<1>1. QueueInv => /\ Held \in Seq(Entries) /\ Len(Held) = tail - head
                  /\ Held = <<>> <=> head = tail
                  /\ \A i \in 1 .. tail - head : Held[i] = value[head + i - 1]
  BY HeldIs
<1>2. (QueueInv => /\ Held \in Seq(Entries) /\ Len(Held) = tail - head
                   /\ Held = <<>> <=> head = tail
                   /\ \A i \in 1 .. tail - head : Held[i] = value[head + i - 1])'
  BY <1>1, PTL
<1> QED
  BY <1>2 DEF Entries

(* The history variable is exact after a step if it was before it.          *)
LEMMA Observed ==
    ASSUME QueueInv, QueueInv', SawInv, Queue!Observe
    PROVE  /\ sawEmpty' = [c \in Client |-> pc'[c] \in Looking /\ (sawEmpty[c] \/ head' = tail')]
           /\ SawInv'
           /\ Queue!Items' = <<>> <=> head' = tail'
<1>1. Queue!Items' = <<>> <=> head' = tail'
  BY ItemsAreNext, HeldIsNext
<1>2. ASSUME NEW c \in Client PROVE Queue!Status'[c] = "dequeue" <=> pc'[c] \in Looking
  <2>1. Queue!Status'[c] = Label(pc'[c]) /\ pc'[c] \in Places
    BY ViewsAreNext DEF QueueInv, CallTypes
  <2> QED
    BY <2>1, LabelIs
<1>3. sawEmpty' = [c \in Client |-> Queue!Status'[c] = "dequeue" /\ (sawEmpty[c] \/ Queue!Items' = <<>>)]
  BY DEF Queue!Observe
<1>4. \A c \in Client : sawEmpty'[c] <=> pc'[c] \in Looking /\ (sawEmpty[c] \/ head' = tail')
  BY <1>1, <1>2, <1>3
<1>5. sawEmpty' = [c \in Client |-> pc'[c] \in Looking /\ (sawEmpty[c] \/ head' = tail')]
  BY <1>1, <1>2, <1>3
<1>6. SawInv'
  BY <1>4, <1>5 DEF SawInv
<1> QED
  BY <1>1, <1>5, <1>6

(* A step of c changes what is seen of c only.                              *)
Quiet(c) == \A d \in Client \ {c} : /\ pc'[d] = pc[d] /\ todo'[d] = todo[d] /\ node'[d] = node[d]
                                    /\ pc[d] = "read value" => value'[node[d]] = value[node[d]]

LEMMA Views ==
    ASSUME QueueInv, QueueInv', NEW c \in Client, Quiet(c)
    PROVE  /\ Queue!Status' = [Queue!Status EXCEPT ![c] = Label(pc'[c])]
           /\ Queue!Val' = [Queue!Val EXCEPT ![c] = Carried(c)']
           /\ Queue!Status[c] = Label(pc[c]) /\ Queue!Val[c] = Carried(c)
<1>1. /\ Queue!Status = [d \in Client |-> Label(pc[d])]
      /\ Queue!Val = [d \in Client |-> Carried(d)]
      /\ Queue!Status' = [d \in Client |-> Label(pc'[d])]
      /\ Queue!Val' = [d \in Client |-> Carried(d)']
  BY ViewsAre, ViewsAreNext DEF QueueInv
<1>2. \A d \in Client \ {c} : pc'[d] = pc[d]
  BY DEF Quiet
<1>3. \A d \in Client \ {c} : Carried(d)' = Carried(d)
  BY DEF Quiet, Carried
<1>4. Queue!Status' = [Queue!Status EXCEPT ![c] = Label(pc'[c])]
  BY <1>1, <1>2
<1>5. Queue!Val' = [Queue!Val EXCEPT ![c] = Carried(c)']
  BY <1>1, <1>3
<1> QED
  BY <1>1, <1>4, <1>5

Maps == Queue!Fifo!Next \/ UNCHANGED <<Queue!Items, Queue!Status, Queue!Val, sawEmpty, returned>>

(* Steps that nobody sees.                                                  *)
LEMMA NothingSeen ==
    ASSUME QueueInv, QueueInv', SawInv, Queue!Observe, NEW c \in Client, Quiet(c),
           Held' = Held, head' = head, tail' = tail, returned' = returned,
           Label(pc'[c]) = Label(pc[c]), pc'[c] \in Looking <=> pc[c] \in Looking, Carried(c)' = Carried(c)
    PROVE  Maps
<1>1. Queue!Items' = Queue!Items
  BY ItemsAre, ItemsAreNext
<1>2. Queue!Status' = Queue!Status
  <2>1. Queue!Status' = [Queue!Status EXCEPT ![c] = Queue!Status[c]]
    BY Views
  <2> QED
    BY <2>1, ViewsAre
<1>3. Queue!Val' = Queue!Val
  <2>1. Queue!Val' = [Queue!Val EXCEPT ![c] = Queue!Val[c]]
    BY Views
  <2>2. Queue!Val = [d \in Client |-> Carried(d)]
    BY ViewsAre DEF QueueInv
  <2> QED
    BY <2>1, <2>2
<1>4. sawEmpty' = sawEmpty
  <2>1. sawEmpty' = [d \in Client |-> pc'[d] \in Looking /\ (sawEmpty[d] \/ head' = tail')]
    BY Observed
  <2>2. \A d \in Client : pc'[d] \in Looking <=> pc[d] \in Looking
    BY DEF Quiet
  <2>3. ASSUME NEW d \in Client PROVE (pc'[d] \in Looking /\ (sawEmpty[d] \/ head' = tail')) = sawEmpty[d]
    <3>1. sawEmpty[d] \in BOOLEAN
      BY DEF SawInv
    <3> QED
      BY <3>1, <2>2 DEF SawInv
  <2>4. sawEmpty = [d \in Client |-> sawEmpty[d]]
    BY DEF SawInv
  <2> QED
    BY <2>1, <2>3, <2>4
<1> QED
  BY <1>1, <1>2, <1>3, <1>4 DEF Maps

(* The observer of Fifo is that of the queue.                               *)
LEMMA SameObserver == Queue!Observe => Queue!Fifo!Observe
BY DEF Queue!Observe, Queue!Fifo!Observe

(* Nodes behind tail are not written to.                                    *)
LEMMA HeldStays ==
    ASSUME QueueInv, head' = head, tail' = tail, \A n \in 1 .. tail - 1 : value'[n] = value[n]
    PROVE  Held' = Held
<1>1. \A i \in 1 .. tail - head : head + i - 1 \in 1 .. tail - 1
  BY Numbers
<1> QED
  BY <1>1 DEF Held

(* Each step is one of the abstract queue, or nobody sees it.               *)
LEMMA CallMaps ==
    ASSUME QueueInv, QueueInv', SawInv, Queue!Observe, NEW c \in Client, Queue!Call(c)
    PROVE  Maps
<1>1. /\ pc[c] = "idle" /\ todo[c] # <<>>
      /\ \/ Head(todo[c]) = Empty /\ pc' = [pc EXCEPT ![c] = "lock head"]
         \/ Head(todo[c]) # Empty /\ pc' = [pc EXCEPT ![c] = "lock tail"]
      /\ UNCHANGED <<todo, fill, head, tail, next, value, live, node, returned>>
  BY DEF Queue!Call, Queue!Goto
<1>2. Quiet(c) /\ Queue!Fifo!Observe
  BY <1>1, SameObserver DEF Quiet, QueueInv, CallTypes
<1>3. Queue!Items' = Queue!Items
  <2>1. Held' = Held
    BY <1>1, HeldStays
  <2> QED
    BY <2>1, ItemsAre, ItemsAreNext
<1>4. Queue!Status[c] = "idle" /\ Queue!Val[c] = Empty
  BY <1>1, <1>2, Views, LabelIs DEF Carried, Filling
<1>5. CASE Head(todo[c]) = Empty /\ pc' = [pc EXCEPT ![c] = "lock head"]
  <2>1. pc'[c] = "lock head"
    BY <1>5 DEF QueueInv, CallTypes
  <2>2. Queue!Status' = [Queue!Status EXCEPT ![c] = "dequeue"]
    <3>1. Label(pc'[c]) = "dequeue"
      BY <2>1, LabelIs DEF Looking
    <3> QED
      BY <3>1, <1>2, Views
  <2>3. Carried(c)' = Empty
    BY <2>1 DEF Carried, Filling
  <2>4. Queue!Val' = [Queue!Val EXCEPT ![c] = Queue!Val[c]]
    BY <2>3, <1>2, <1>4, Views
  <2>5. Queue!Val' = Queue!Val
    <3>1. Queue!Val = [d \in Client |-> Carried(d)]
      BY ViewsAre DEF QueueInv
    <3> QED
      BY <2>4, <3>1
  <2>6. Queue!Fifo!InvokeDequeue(c)
    BY <2>2, <2>5, <1>1, <1>2, <1>3, <1>4 DEF Queue!Fifo!InvokeDequeue, Queue!Fifo!Moves
  <2> QED
    BY <2>6 DEF Maps, Queue!Fifo!Next
<1>6. CASE Head(todo[c]) # Empty /\ pc' = [pc EXCEPT ![c] = "lock tail"]
  <2>1. pc'[c] = "lock tail"
    BY <1>6 DEF QueueInv, CallTypes
  <2>2. Queue!Status' = [Queue!Status EXCEPT ![c] = "enqueue"]
    BY <2>1, <1>2, Views, LabelIs
  <2>3. Carried(c)' = Head(todo[c])
    BY <2>1, <1>1 DEF Carried
  <2>4. Queue!Val' = [Queue!Val EXCEPT ![c] = Head(todo[c])]
    BY <2>3, <1>2, Views
  <2>5. Head(todo[c]) \in Queue!Value
    <3>1. todo[c] \in Seq(Entries) /\ todo[c] # <<>>
      BY <1>1 DEF QueueInv, CallTypes
    <3>2. Head(todo[c]) \in Entries
      BY <3>1
    <3> QED
      BY <3>2, <1>6 DEF Entries
  <2>6. Queue!Fifo!InvokeEnqueue(c)
    BY <2>2, <2>4, <2>5, <1>1, <1>2, <1>3, <1>4 DEF Queue!Fifo!InvokeEnqueue, Queue!Fifo!Moves
  <2> QED
    BY <2>6 DEF Maps, Queue!Fifo!Next
<1> QED
  BY <1>1, <1>5, <1>6

LEMMA LockTailMaps ==
    ASSUME QueueInv, QueueInv', SawInv, Queue!Observe, NEW c \in Client, Queue!LockTail(c)
    PROVE  Maps
<1>1. /\ pc[c] = "lock tail" /\ pc' = [pc EXCEPT ![c] = "fill 1"]
      /\ node' = [node EXCEPT ![c] = Len(next) + 1] /\ value' = Append(value, Empty)
      /\ UNCHANGED <<todo, fill, head, tail, returned>>
  BY DEF Queue!LockTail, Queue!Goto
<1>2. \A i \in 1 .. Len(next) : value'[i] = value[i]
  <2>1. value \in Seq(Entries) /\ Empty \in Entries /\ Len(value) = Len(next)
    BY DEF QueueInv, NodeTypes, Entries
  <2> QED
    <3>1. value' = Append(value, Empty)
      BY <1>1
    <3> QED
      BY <2>1, <3>1, AppendProperties
<1>3. \A d \in Client : pc[d] = "read value" => node[d] \in 1 .. Len(next)
  BY DEF QueueInv, TakenInv, NodeTypes
<1>4. Quiet(c)
  BY <1>1, <1>2, <1>3 DEF Quiet, QueueInv, CallTypes
<1>5. Held' = Held
  <2>1. \A i \in 1 .. tail - 1 : i \in 1 .. Len(next)
    BY Numbers
  <2> QED
    BY <2>1, <1>1, <1>2, HeldStays
<1>6. pc'[c] = "fill 1"
  BY <1>1 DEF QueueInv, CallTypes
<1>7. Carried(c)' = Carried(c)
  BY <1>1, <1>6 DEF Carried, Filling
<1>8. Label(pc'[c]) = Label(pc[c]) /\ (pc'[c] \in Looking <=> pc[c] \in Looking)
  BY <1>1, <1>6, LabelIs DEF Filling, Looking
<1> QED
  BY <1>1, <1>4, <1>5, <1>7, <1>8, NothingSeen

LEMMA FillMaps ==
    ASSUME QueueInv, QueueInv', SawInv, Queue!Observe, NEW c \in Client, Queue!Fill(c)
    PROVE  Maps
<1>1. /\ pc[c] \in {"fill 1", "fill 2"}
      /\ pc' = [pc EXCEPT ![c] = IF pc[c] = "fill 1" THEN "fill 2" ELSE "swing"]
      /\ UNCHANGED <<todo, fill, head, tail, node, returned>>
      /\ UNCHANGED value \/ value' = [value EXCEPT ![tail] = Head(todo[c])]
  BY DEF Queue!Fill, Queue!Goto, Queue!Fills
<1>2. ASSUME NEW i \in 1 .. Len(next), i # tail PROVE value'[i] = value[i]
  <2>1. value \in Seq(Entries) /\ Len(value) = Len(next)
    BY DEF QueueInv, NodeTypes
  <2> QED
    <3>1. CASE UNCHANGED value
      BY <3>1
    <3>2. CASE value' = [value EXCEPT ![tail] = Head(todo[c])]
      BY <2>1, <3>2, <1>2
    <3> QED
      BY <3>1, <3>2, <1>1
<1>3. ASSUME NEW d \in Client, pc[d] = "read value" PROVE node[d] \in 1 .. Len(next) /\ node[d] # tail
  <2>1. node[d] \in live /\ node[d] < head
    BY <1>3 DEF QueueInv, TakenInv
  <2>2. node[d] \in 1 .. Len(next)
    BY <2>1 DEF QueueInv, NodeTypes
  <2> QED
    BY <2>1, <2>2, Numbers
<1>4. Quiet(c)
  BY <1>1, <1>2, <1>3 DEF Quiet, QueueInv, CallTypes
<1>5. Held' = Held
  <2>1. \A i \in 1 .. tail - 1 : i \in 1 .. Len(next) /\ i # tail
    BY Numbers
  <2> QED
    BY <2>1, <1>1, <1>2, HeldStays
<1>6. pc[c] \in Filling /\ pc'[c] \in Filling
  BY <1>1 DEF QueueInv, CallTypes, Filling
<1>7. Carried(c)' = Carried(c)
  BY <1>1, <1>6 DEF Carried
<1>8. Label(pc'[c]) = Label(pc[c]) /\ (pc'[c] \in Looking <=> pc[c] \in Looking)
  BY <1>6, LabelIs DEF Filling, Looking
<1> QED
  BY <1>1, <1>4, <1>5, <1>7, <1>8, NothingSeen

(* push() takes effect.                                                     *)
LEMMA SwingTailMaps ==
    ASSUME QueueInv, QueueInv', SawInv, Queue!Observe, NEW c \in Client, Queue!SwingTail(c)
    PROVE  Maps
<1>1. /\ pc[c] = "swing" /\ pc' = [pc EXCEPT ![c] = "unlock tail"]
      /\ tail' = node[c] /\ node' = [node EXCEPT ![c] = Free]
      /\ UNCHANGED <<todo, fill, head, next, value, live, returned>>
  BY DEF Queue!SwingTail, Queue!Goto
<1>2. tail' = tail + 1 /\ value[tail] = Head(todo[c]) /\ pc'[c] = "unlock tail"
  BY <1>1 DEF QueueInv, PushInv, CallTypes, Filling, Filled
<1>3. Quiet(c) /\ Queue!Fifo!Observe
  BY <1>1, SameObserver DEF Quiet, QueueInv, CallTypes
<1>4. Queue!Status[c] = "enqueue" /\ Queue!Status' = [Queue!Status EXCEPT ![c] = "enqueued"]
  <2>1. Label(pc[c]) = "enqueue" /\ Label(pc'[c]) = "enqueued"
    BY <1>1, <1>2, <1>3, LabelIs DEF Filling
  <2> QED
    BY <2>1, <1>1, <1>2, <1>3, Views
<1>5. Carried(c)' = Empty /\ Carried(c) = value[tail]
  BY <1>1, <1>2 DEF Carried, Filling
<1>6. Queue!Val' = [Queue!Val EXCEPT ![c] = Empty] /\ Queue!Val[c] = value[tail]
  BY <1>3, <1>5, Views
<1>7. Held' = Append(Held, value[tail])
  <2>1. /\ Held \in Seq(Entries) /\ Len(Held) = tail - head
        /\ \A i \in 1 .. tail - head : Held[i] = value[head + i - 1]
        /\ Held' \in Seq(Entries) /\ Len(Held') = tail - head + 1
        /\ \A i \in 1 .. tail - head + 1 : Held'[i] = value[head + i - 1]
    <3>1. tail' - head' = tail - head + 1
      <4>1. head' = head
        BY <1>1
      <4>2. tail' = tail + 1
        BY <1>2
      <4> QED
        BY <4>1, <4>2, Numbers
    <3> QED
      BY <3>1, <1>1, HeldIs, HeldIsNext
  <2>2. tail - head \in Nat /\ head + (tail - head + 1) - 1 = tail
    BY Numbers
  <2>3. value[tail] \in Entries
    BY Numbers DEF QueueInv, NodeTypes
  <2>4. PICK h : h = Held
    OBVIOUS
  <2>5. PICK g : g = Held'
    OBVIOUS
  <2>6. PICK t : t = Append(h, value[tail])
    OBVIOUS
  <2>7. /\ t \in Seq(Entries) /\ Len(t) = tail - head + 1 /\ t[tail - head + 1] = value[tail]
        /\ \A i \in 1 .. tail - head : t[i] = value[head + i - 1]
    BY <2>1, <2>3, <2>4, <2>6, AppendProperties
  <2>8. g \in Seq(Entries) /\ Len(g) = Len(t) /\ \A i \in 1 .. Len(g) : g[i] = t[i]
    <3>1. ASSUME NEW i \in 1 .. tail - head + 1 PROVE g[i] = t[i]
      <4>1. i \in 1 .. tail - head \/ i = tail - head + 1
        BY <2>2
      <4> QED
        BY <4>1, <2>1, <2>2, <2>5, <2>7
    <3> QED
      BY <3>1, <2>1, <2>5, <2>7
  <2>9. g = t
    BY <2>7, <2>8, SeqEqual
  <2> QED
    BY <2>4, <2>5, <2>6, <2>9
<1>8. Queue!Items' = Append(Queue!Items, Queue!Val[c])
  BY <1>6, <1>7, ItemsAre, ItemsAreNext
<1>9. Queue!Fifo!Enqueue(c)
  BY <1>1, <1>3, <1>4, <1>6, <1>8 DEF Queue!Fifo!Enqueue, Queue!Fifo!Moves
<1> QED
  BY <1>9 DEF Maps, Queue!Fifo!Next

LEMMA UnlockTailMaps ==
    ASSUME QueueInv, QueueInv', SawInv, Queue!Observe, NEW c \in Client, Queue!UnlockTail(c)
    PROVE  Maps
<1>1. /\ pc[c] = "unlock tail" /\ pc' = [pc EXCEPT ![c] = "idle"]
      /\ todo' = [todo EXCEPT ![c] = Tail(@)]
      /\ UNCHANGED <<fill, head, tail, next, value, live, node, returned>>
  BY DEF Queue!UnlockTail, Queue!Goto
<1>2. Quiet(c) /\ Queue!Fifo!Observe /\ pc'[c] = "idle"
  BY <1>1, SameObserver DEF Quiet, QueueInv, CallTypes
<1>3. Queue!Status[c] = "enqueued" /\ Queue!Status' = [Queue!Status EXCEPT ![c] = "idle"]
  <2>1. Label(pc[c]) = "enqueued" /\ Label(pc'[c]) = "idle"
    BY <1>1, <1>2, LabelIs
  <2> QED
    BY <2>1, <1>1, <1>2, Views
<1>4. Carried(c)' = Empty /\ Carried(c) = Empty
  BY <1>1, <1>2 DEF Carried, Filling
<1>5. Queue!Val' = Queue!Val
  <2>1. Queue!Val' = [Queue!Val EXCEPT ![c] = Queue!Val[c]]
    BY <1>2, <1>4, Views
  <2>2. Queue!Val = [d \in Client |-> Carried(d)]
    BY ViewsAre DEF QueueInv
  <2> QED
    BY <2>1, <2>2
<1>6. Queue!Items' = Queue!Items
  <2>1. Held' = Held
    BY <1>1, HeldStays
  <2> QED
    BY <2>1, ItemsAre, ItemsAreNext
<1>7. Queue!Fifo!RespondEnqueue(c)
  BY <1>1, <1>2, <1>3, <1>5, <1>6 DEF Queue!Fifo!RespondEnqueue, Queue!Fifo!Moves
<1> QED
  BY <1>7 DEF Maps, Queue!Fifo!Next

LEMMA LockHeadMaps ==
    ASSUME QueueInv, QueueInv', SawInv, Queue!Observe, NEW c \in Client, Queue!LockHead(c)
    PROVE  Maps
<1>1. /\ pc[c] = "lock head" /\ pc' = [pc EXCEPT ![c] = "get tail"]
      /\ UNCHANGED <<todo, fill, head, tail, next, value, live, node, returned>>
  BY DEF Queue!LockHead, Queue!Goto
<1>2. Quiet(c) /\ pc'[c] = "get tail"
  BY <1>1 DEF Quiet, QueueInv, CallTypes
<1>3. Held' = Held
  BY <1>1, HeldStays
<1>4. Carried(c)' = Carried(c)
  BY <1>1, <1>2 DEF Carried, Filling
<1>5. Label(pc'[c]) = Label(pc[c]) /\ (pc'[c] \in Looking <=> pc[c] \in Looking)
  BY <1>1, <1>2, LabelIs DEF Looking
<1> QED
  BY <1>1, <1>2, <1>3, <1>4, <1>5, NothingSeen

(* A try_pop() that finds the queue empty saw it empty.                     *)
LEMMA GetTailMaps ==
    ASSUME QueueInv, QueueInv', SawInv, Queue!Observe, NEW c \in Client, Queue!GetTail(c)
    PROVE  Maps
<1>1. pc[c] = "get tail" /\ UNCHANGED <<fill, head, tail, next, value, live, node>>
  BY DEF Queue!GetTail, Queue!Goto
<1>2. Held' = Held
  BY <1>1, HeldStays
<1>3. CASE head # tail
  <2>1. pc' = [pc EXCEPT ![c] = "move head"] /\ UNCHANGED <<todo, returned>>
    BY <1>3 DEF Queue!GetTail, Queue!Goto
  <2>2. Quiet(c) /\ pc'[c] = "move head"
    BY <1>1, <2>1 DEF Quiet, QueueInv, CallTypes
  <2>3. Carried(c)' = Carried(c)
    BY <1>1, <2>2 DEF Carried, Filling
  <2>4. Label(pc'[c]) = Label(pc[c]) /\ (pc'[c] \in Looking <=> pc[c] \in Looking)
    BY <1>1, <2>2, LabelIs DEF Looking
  <2> QED
    BY <1>1, <1>2, <2>1, <2>2, <2>3, <2>4, NothingSeen
<1>4. CASE head = tail
  <2>1. /\ pc' = [pc EXCEPT ![c] = "idle"]
        /\ returned' = [returned EXCEPT ![c] = Empty] /\ todo' = [todo EXCEPT ![c] = Tail(@)]
    BY <1>4 DEF Queue!GetTail, Queue!Goto, Queue!Answer
  <2>2. Quiet(c) /\ pc'[c] = "idle" /\ Queue!Fifo!Observe
    BY <1>1, <2>1, SameObserver DEF Quiet, QueueInv, CallTypes
  <2>3. Carried(c)' = Empty /\ Carried(c) = Empty
    BY <1>1, <2>2 DEF Carried, Filling
  <2>4. Queue!Val' = Queue!Val
    <3>1. Queue!Val' = [Queue!Val EXCEPT ![c] = Queue!Val[c]]
      BY <2>2, <2>3, Views
    <3>2. Queue!Val = [d \in Client |-> Carried(d)]
      BY ViewsAre DEF QueueInv
    <3> QED
      BY <3>1, <3>2
  <2>5. Queue!Status[c] = "dequeue" /\ Queue!Status' = [Queue!Status EXCEPT ![c] = "idle"]
    <3>1. Label(pc[c]) = "dequeue" /\ Label(pc'[c]) = "idle"
      BY <1>1, <2>2, LabelIs DEF Looking
    <3> QED
      BY <3>1, <1>1, <2>2, Views
  <2>6. sawEmpty[c]
    BY <1>1, <1>4 DEF SawInv, Looking
  <2>7. Queue!Items' = Queue!Items
    BY <1>2, ItemsAre, ItemsAreNext
  <2>8. Queue!Fifo!RespondEmpty(c)
    BY <2>1, <2>2, <2>4, <2>5, <2>6, <2>7 DEF Queue!Fifo!RespondEmpty, Queue!Fifo!Moves
  <2> QED
    BY <2>8 DEF Maps, Queue!Fifo!Next
<1> QED
  BY <1>3, <1>4

(* try_pop() takes effect.                                                  *)
LEMMA MoveHeadMaps ==
    ASSUME QueueInv, QueueInv', SawInv, Queue!Observe, NEW c \in Client, Queue!MoveHead(c)
    PROVE  Maps
<1>1. /\ pc[c] = "move head" /\ pc' = [pc EXCEPT ![c] = "read value"]
      /\ node' = [node EXCEPT ![c] = head] /\ head' = next[head]
      /\ UNCHANGED <<todo, fill, tail, value, live, returned>>
  BY DEF Queue!MoveHead, Queue!Goto
<1>2. head < tail
  BY <1>1 DEF QueueInv, TakenInv
<1>3. head' = head + 1
  <2>1. head \in head .. tail - 1
    BY <1>2, Numbers
  <2> QED
    BY <2>1, <1>1 DEF QueueInv, ListInv
<1>4. Quiet(c) /\ pc'[c] = "read value" /\ node'[c] = head /\ Queue!Fifo!Observe
  BY <1>1, SameObserver DEF Quiet, QueueInv, CallTypes
<1>5. Queue!Status[c] = "dequeue" /\ Queue!Status' = [Queue!Status EXCEPT ![c] = "dequeued"]
  <2>1. Label(pc[c]) = "dequeue" /\ Label(pc'[c]) = "dequeued"
    BY <1>1, <1>4, LabelIs DEF Looking
  <2> QED
    BY <2>1, <1>1, <1>4, Views
<1>6. Carried(c)' = value[head]
  BY <1>1, <1>4 DEF Carried, Filling
<1>7. Queue!Val' = [Queue!Val EXCEPT ![c] = value[head]]
  BY <1>4, <1>6, Views
<1>8. Held # <<>> /\ Head(Held) = value[head] /\ Held' = Tail(Held)
  <2>1. /\ Held \in Seq(Entries) /\ Len(Held) = tail - head
        /\ \A i \in 1 .. tail - head : Held[i] = value[head + i - 1]
        /\ Held' \in Seq(Entries) /\ Len(Held') = tail - head - 1
        /\ \A i \in 1 .. tail - head - 1 : Held'[i] = value[head + i]
    <3>1. tail' - head' = tail - head - 1 /\ \A i \in 1 .. tail - head - 1 : head' + i - 1 = head + i
      <4>1. tail' = tail
        BY <1>1
      <4> QED
        BY <4>1, <1>3, Numbers
    <3> QED
      BY <3>1, <1>1, HeldIs, HeldIsNext
  <2>2. PICK m : m = tail - head
    OBVIOUS
  <2>3. m \in Nat /\ m > 0 /\ head + 1 - 1 = head
    BY <1>2, <2>2, Numbers
  <2>4. PICK h : h = Held
    OBVIOUS
  <2>5. PICK g : g = Held'
    OBVIOUS
  <2>6. h \in Seq(Entries) /\ Len(h) = m /\ h # <<>> /\ Head(h) = value[head]
    BY <2>1, <2>2, <2>3, <2>4
  <2>7. PICK t : t = Tail(h)
    OBVIOUS
  <2>8. t \in Seq(Entries) /\ Len(t) = m - 1 /\ \A i \in 1 .. m - 1 : t[i] = h[i + 1]
    BY <2>6, <2>7, HeadTailProperties
  <2>9. g \in Seq(Entries) /\ Len(g) = Len(t) /\ \A i \in 1 .. Len(g) : g[i] = t[i]
    <3>1. ASSUME NEW i \in 1 .. m - 1 PROVE g[i] = t[i]
      <4>1. i + 1 \in 1 .. m /\ head + (i + 1) - 1 = head + i
        BY <2>3, Numbers
      <4> QED
        BY <4>1, <2>1, <2>2, <2>4, <2>5, <2>8
    <3> QED
      BY <3>1, <2>1, <2>2, <2>5, <2>8
  <2>10. g = t
    BY <2>8, <2>9, SeqEqual
  <2> QED
    BY <2>4, <2>5, <2>6, <2>7, <2>10
<1>9. Queue!Items = Held /\ Queue!Items' = Held'
  BY ItemsAre, ItemsAreNext
<1>10. Queue!Fifo!Dequeue(c)
  BY <1>1, <1>4, <1>5, <1>7, <1>8, <1>9 DEF Queue!Fifo!Dequeue, Queue!Fifo!Moves
<1> QED
  BY <1>10 DEF Maps, Queue!Fifo!Next

LEMMA ReadValueMaps ==
    ASSUME QueueInv, QueueInv', SawInv, Queue!Observe, NEW c \in Client, Queue!ReadValue(c)
    PROVE  Maps
<1>1. /\ pc[c] = "read value" /\ pc' = [pc EXCEPT ![c] = "idle"]
      /\ returned' = [returned EXCEPT ![c] = value[node[c]]] /\ todo' = [todo EXCEPT ![c] = Tail(@)]
      /\ node' = [node EXCEPT ![c] = Free]
      /\ UNCHANGED <<fill, head, tail, next, value>>
  BY DEF Queue!ReadValue, Queue!Goto, Queue!Answer
<1>2. Quiet(c) /\ pc'[c] = "idle" /\ Queue!Fifo!Observe
  BY <1>1, SameObserver DEF Quiet, QueueInv, CallTypes
<1>3. Queue!Status[c] = "dequeued" /\ Queue!Status' = [Queue!Status EXCEPT ![c] = "idle"]
  <2>1. Label(pc[c]) = "dequeued" /\ Label(pc'[c]) = "idle"
    BY <1>1, <1>2, LabelIs
  <2> QED
    BY <2>1, <1>1, <1>2, Views
<1>4. Carried(c)' = Empty /\ Carried(c) = value[node[c]]
  BY <1>1, <1>2 DEF Carried, Filling
<1>5. Queue!Val' = [Queue!Val EXCEPT ![c] = Empty] /\ Queue!Val[c] = value[node[c]]
  BY <1>2, <1>4, Views
<1>6. Queue!Items' = Queue!Items
  <2>1. Held' = Held
    BY <1>1, HeldStays
  <2> QED
    BY <2>1, ItemsAre, ItemsAreNext
<1>7. Queue!Fifo!RespondDequeue(c)
  BY <1>1, <1>2, <1>3, <1>5, <1>6 DEF Queue!Fifo!RespondDequeue, Queue!Fifo!Moves
<1> QED
  BY <1>7 DEF Maps, Queue!Fifo!Next

(* Whatever step a client takes.                                            *)
LEMMA StepMaps ==
    ASSUME QueueInv, SawInv, NEW c \in Client, Queue!Step(c)
    PROVE  QueueInv' /\ SawInv' /\ Maps
<1>1. QueueInv' /\ Queue!Observe
  BY StepKeeps DEF Queue!Step
<1>2. SawInv'
  BY <1>1, Observed
<1>3. Maps
  BY <1>1, CallMaps, LockTailMaps, FillMaps, SwingTailMaps, UnlockTailMaps, LockHeadMaps, GetTailMaps,
     MoveHeadMaps, ReadValueMaps DEF Queue!Step
<1> QED
  BY <1>1, <1>2, <1>3

(* The invariant of the run, as far as the queue is concerned.              *)
LockedQueue == which = "queue" => QueueInv /\ SawInv

(* It holds at first, when the abstract queue is empty.                     *)
LEMMA LockedQueueInit == ContainersInit => LockedQueue /\ (which = "queue" => Queue!Fifo!Init)
<1> SUFFICES ASSUME ContainersInit, which = "queue"
             PROVE  QueueInv /\ SawInv /\ Queue!Fifo!Init
  BY DEF LockedQueue
<1>1. Queue!Init /\ QueueInv
  BY QueueInit DEF ContainersInit
<1>2. /\ pc = [c \in Client |-> "idle"] /\ head = 1 /\ tail = 1
      /\ returned = [c \in Client |-> Empty] /\ sawEmpty = [c \in Client |-> FALSE]
  BY <1>1 DEF Queue!Init
<1>3. SawInv
  BY <1>2 DEF SawInv, Looking
<1>4. Queue!Items = <<>>
  BY <1>1, <1>2, ItemsAre, HeldIs
<1>5. Queue!Status = [c \in Client |-> "idle"]
  BY <1>2, ViewsAre, LabelIs
<1>6. Queue!Val = [c \in Client |-> Empty]
  <2>1. \A c \in Client : Carried(c) = Empty
    BY <1>2 DEF Carried, Filling
  <2> QED
    BY <2>1, <1>1, ViewsAre DEF QueueInv
<1> QED
  BY <1>1, <1>2, <1>3, <1>4, <1>5, <1>6 DEF Queue!Fifo!Init

(* Steps of the queue keep it and refine the abstract queue; others leave   *)
(* it alone.                                                                *)
LEMMA LockedQueueStep ==
    ASSUME LockedQueue, [ContainersNext]_allVars
    PROVE  LockedQueue' /\ [which = "queue" => Queue!Fifo!Next]_Abstract
<1>1. which' = which
  BY DEF ContainersNext, Step, allVars, MonitorOnly, QueueOnly, ListOnly, TableOnly, SingleOnly, MutexOnly
<1>2. CASE which # "queue"
  BY <1>1, <1>2 DEF LockedQueue, Abstract
<1>3. CASE which = "queue"
  <2>1. QueueInv /\ SawInv
    BY <1>3 DEF LockedQueue
  <2>2. CASE \E c \in Client : Queue!Step(c)
    <3>1. QueueInv' /\ SawInv' /\ Maps
      BY <2>1, <2>2, StepMaps
    <3> QED
      BY <3>1, <1>1, <1>3 DEF LockedQueue, Abstract, Maps
  <2>3. CASE UNCHANGED allVars
    <3>1. UNCHANGED <<todo, pc, fill, head, tail, next, value, live, head_mutex, tail_mutex, node, returned, sawEmpty>>
      BY <2>3 DEF allVars, nodeVars, queueVars
    <3>2. QueueInv'
      BY <2>1, <3>1 DEF QueueInv, CallTypes, NodeTypes, LocksInv, CallInv, ListInv, PushInv, TakenInv, Linked, Filled
    <3>3. SawInv'
      BY <2>1, <3>1 DEF SawInv
    <3>4. UNCHANGED <<Queue!Items, Queue!Status, Queue!Val>>
      <4>1. Held' = Held /\ \A c \in Client : Label(pc'[c]) = Label(pc[c]) /\ Carried(c)' = Carried(c)
        BY <3>1 DEF Held, Carried
      <4> QED
        BY <4>1, <2>1, <3>2, ItemsAre, ItemsAreNext, ViewsAre, ViewsAreNext DEF QueueInv
    <3> QED
      BY <3>1, <3>2, <3>3, <3>4, <1>1, <1>3 DEF LockedQueue, Abstract
  <2> QED
    BY <1>3, <2>2, <2>3 DEF ContainersNext, Step
<1> QED
  BY <1>2, <1>3

(* The queues with two locks are linearizable: push() takes effect when it  *)
(* moves tail, try_pop() when it moves head, and a try_pop() that answers   *)
(* nothing saw the queue empty while it ran.                                *)
THEOREM TwoLocksLinearizable == ContainersSpec => ImplementsFifo
BY LockedQueueInit, LockedQueueStep, PTL DEF ContainersSpec, ImplementsFifo

(* What is read and written, by where a call is: pointers of the queue, and *)
(* members of nodes.                                                        *)
Pointer(p) == <<p>>
Member(n, m) == <<n, m>>

(* A pointer of the queue is not a member of a node.                        *)
LEMMA Distinct ==
    /\ Pointer("head") # Pointer("tail")
    /\ \A p, n, m : Pointer(p) # Member(n, m)
    /\ \A n, m, k, l : Member(n, m) = Member(k, l) => n = k /\ m = l
BY DEF Pointer, Member

LEMMA AccessesAre ==
    ASSUME QueueInv, NEW c \in Client
    PROVE  /\ pc[c] \in {"fill 1", "fill 2"} =>
                  /\ Queue!Reads(c) = {Pointer("tail")}
                  /\ \E m \in {"value", "next"} : Queue!Writes(c) = {Member(tail, m)}
           /\ pc[c] = "swing" => Queue!Reads(c) = {Pointer("tail")} /\ Queue!Writes(c) = {Pointer("tail")}
           /\ pc[c] = "get tail" =>
                  /\ Queue!Reads(c) = IF tail_mutex = Free THEN {Pointer("head"), Pointer("tail")} ELSE {}
                  /\ Queue!Writes(c) = {}
           /\ pc[c] = "move head" =>
                  /\ Queue!Reads(c) = {Pointer("head"), Member(head, "next")}
                  /\ Queue!Writes(c) = {Pointer("head"), Member(head, "next")}
           /\ pc[c] = "read value" =>
                  /\ Queue!Reads(c) = {Member(node[c], "value")}
                  /\ Queue!Writes(c) = {Member(node[c], "value"), Member(node[c], "next")}
           /\ pc[c] \notin Filling \cup {"get tail", "move head", "read value"} =>
                  Queue!Reads(c) = {} /\ Queue!Writes(c) = {}
<1>1. fill[1] \in {"value", "next"} /\ fill[2] \in {"value", "next"}
  BY DEF QueueInv, CallTypes, Queue!DataFirst, Queue!NextFirst
<1>2. CASE pc[c] = "fill 1"
  <2>1. Queue!Reads(c) = {<<"tail">>}
    BY <1>2 DEF Queue!Reads
  <2>2. Queue!Writes(c) = {<<tail, fill[1]>>}
    BY <1>2 DEF Queue!Writes
  <2> QED
    BY <1>1, <1>2, <2>1, <2>2 DEF Filling, Pointer, Member
<1>3. CASE pc[c] = "fill 2"
  <2>1. Queue!Reads(c) = {<<"tail">>}
    BY <1>3 DEF Queue!Reads
  <2>2. Queue!Writes(c) = {<<tail, fill[2]>>}
    BY <1>3 DEF Queue!Writes
  <2> QED
    BY <1>1, <1>3, <2>1, <2>2 DEF Filling, Pointer, Member
<1>4. CASE pc[c] = "swing"
  <2>1. Queue!Reads(c) = {<<"tail">>}
    BY <1>4 DEF Queue!Reads
  <2>2. Queue!Writes(c) = {<<"tail">>}
    BY <1>4 DEF Queue!Writes
  <2> QED
    BY <1>4, <2>1, <2>2 DEF Filling, Pointer
<1>5. CASE pc[c] = "get tail"
  BY <1>5 DEF Queue!Reads, Queue!Writes, Pointer
<1>6. CASE pc[c] = "move head"
  BY <1>6 DEF Queue!Reads, Queue!Writes, Pointer, Member
<1>7. CASE pc[c] = "read value"
  BY <1>7 DEF Queue!Reads, Queue!Writes, Member
<1>8. CASE pc[c] \notin Filling \cup {"get tail", "move head", "read value"}
  BY <1>8 DEF Queue!Reads, Queue!Writes, Filling
<1> QED
  BY <1>2, <1>3, <1>4, <1>5, <1>6, <1>7, <1>8 DEF Filling

(* Two calls never access one member of one node, or one pointer, at once.  *)
LEMMA NoRace == QueueInv => Queue!NoDataRace
<1> SUFFICES ASSUME QueueInv PROVE Queue!NoDataRace
  OBVIOUS
<1>1. {head, tail} \subseteq live
  <2>1. head .. Len(next) \subseteq live
    BY DEF QueueInv, ListInv
  <2> QED
    BY <2>1, Numbers
<1>2. ASSUME NEW c \in Client, node[c] # Free PROVE node[c] \in live
  <2>1. CASE pc[c] \in Filling
    <3>1. Len(next) = tail + 1 /\ node[c] = tail + 1 /\ head .. Len(next) \subseteq live
      BY <2>1 DEF QueueInv, PushInv, ListInv
    <3>2. tail + 1 \in head .. tail + 1
      BY Numbers
    <3> QED
      BY <3>1, <3>2
  <2> QED
    BY <1>2, <2>1 DEF QueueInv, TakenInv
<1>3. ASSUME NEW c \in Client, NEW d \in Client, c # d,
             NEW a \in Queue!Writes(c), a \in Queue!Reads(d) \cup Queue!Writes(d)
      PROVE  FALSE
  <2>1. \A e \in Client : pc[e] = "read value" => node[e] < head /\ node[e] \in Nat
    <3>1. live \subseteq Nat
      BY DEF QueueInv, NodeTypes
    <3> QED
      BY <3>1 DEF QueueInv, TakenInv
  <2>2. pc[c] = "read value" /\ pc[d] = "read value" => node[c] # node[d]
    BY <1>3 DEF QueueInv, TakenInv
  <2>3. \A e \in Client : pc[e] = "move head" => head < tail
    BY DEF QueueInv, TakenInv
  <2>4. /\ ~(pc[c] \in Filling /\ pc[d] \in Filling)
        /\ ~(pc[c] \in {"get tail", "move head"} /\ pc[d] \in {"get tail", "move head"})
    BY <1>3, OneFiller
  <2>5. pc[c] \in Filling \/ pc[d] \in Filling => tail_mutex # Free
    BY OneFiller
  <2>7. /\ head \in Nat /\ tail \in Nat /\ head <= tail
    BY Numbers
  <2>8. CASE pc[c] \in {"fill 1", "fill 2"}
    <3>1. a = Member(tail, "value") \/ a = Member(tail, "next")
      BY <1>3, <2>8, AccessesAre
    <3>2. CASE pc[d] = "read value"
      <4>1. a = Member(node[d], "value") \/ a = Member(node[d], "next")
        BY <1>3, <3>2, AccessesAre
      <4>2. node[d] < head /\ node[d] \in Nat
        BY <2>1, <3>2
      <4> QED
        BY <3>1, Distinct, <2>7, <4>1, <4>2
    <3>3. CASE pc[d] = "move head"
      <4>1. a = Pointer("head") \/ a = Member(head, "next")
        BY <1>3, <3>3, AccessesAre
      <4>2. head < tail
        BY <2>3, <3>3
      <4> QED
        BY <3>1, Distinct, <2>7, <4>1, <4>2
    <3>4. CASE pc[d] \notin {"read value", "move head"}
      <4>1. Queue!Reads(d) = {} /\ Queue!Writes(d) = {}
        BY <2>4, <2>5, <2>8, <3>4, AccessesAre DEF Filling
      <4> QED
        BY <4>1, <1>3
    <3> QED
      BY <3>2, <3>3, <3>4 DEF Filling
  <2>9. CASE pc[c] = "swing"
    <3>1. a = Pointer("tail")
      <4>1. Queue!Writes(c) = {Pointer("tail")}
        BY <2>9, AccessesAre
      <4> QED
        BY <4>1, <1>3
    <3>2. CASE pc[d] = "read value"
      <4>1. a = Member(node[d], "value") \/ a = Member(node[d], "next")
        BY <1>3, <3>2, AccessesAre
      <4> QED
        BY <3>1, Distinct, <2>7, <4>1
    <3>3. CASE pc[d] = "move head"
      <4>1. a = Pointer("head") \/ a = Member(head, "next")
        BY <1>3, <3>3, AccessesAre
      <4> QED
        BY <3>1, Distinct, <2>7, <4>1
    <3>4. CASE pc[d] \notin {"read value", "move head"}
      <4>1. Queue!Reads(d) = {} /\ Queue!Writes(d) = {}
        BY <2>4, <2>5, <2>9, <3>4, AccessesAre DEF Filling
      <4> QED
        BY <4>1, <1>3
    <3> QED
      BY <3>2, <3>3, <3>4 DEF Filling
  <2>10. CASE pc[c] = "move head"
    <3>1. a = Pointer("head") \/ a = Member(head, "next")
      BY <1>3, <2>10, AccessesAre
    <3>2. CASE pc[d] = "read value"
      <4>1. a = Member(node[d], "value") \/ a = Member(node[d], "next")
        BY <1>3, <3>2, AccessesAre
      <4>2. node[d] < head /\ node[d] \in Nat
        BY <2>1, <3>2
      <4> QED
        BY <3>1, Distinct, <2>7, <4>1, <4>2
    <3>3. CASE pc[d] \in {"fill 1", "fill 2"}
      <4>1. a = Member(tail, "value") \/ a = Member(tail, "next") \/ a = Pointer("tail")
        BY <1>3, <3>3, AccessesAre
      <4>2. head < tail
        BY <2>3, <2>10
      <4> QED
        BY <3>1, Distinct, <2>7, <4>1, <4>2
    <3>4. CASE pc[d] = "swing"
      <4>1. a = Pointer("tail")
        <5>1. Queue!Reads(d) = {Pointer("tail")} /\ Queue!Writes(d) = {Pointer("tail")}
          BY <3>4, AccessesAre
        <5> QED
          BY <5>1, <1>3
      <4> QED
        BY <3>1, Distinct, <2>7, <4>1
    <3>5. CASE pc[d] \notin Filling \cup {"read value"}
      <4>1. Queue!Reads(d) = {} /\ Queue!Writes(d) = {}
        BY <2>4, <2>10, <3>5, AccessesAre
      <4> QED
        BY <4>1, <1>3
    <3> QED
      BY <3>2, <3>3, <3>4, <3>5 DEF Filling
  <2>11. CASE pc[c] = "read value"
    <3>1. a = Member(node[c], "value") \/ a = Member(node[c], "next")
      BY <1>3, <2>11, AccessesAre
    <3>2. CASE pc[d] = "read value"
      <4>1. a = Member(node[d], "value") \/ a = Member(node[d], "next")
        BY <1>3, <3>2, AccessesAre
      <4>2. node[c] # node[d]
        BY <2>2, <2>11, <3>2
      <4> QED
        BY <3>1, Distinct, <2>7, <4>1, <4>2
    <3>3. CASE pc[d] \in {"fill 1", "fill 2"}
      <4>1. a = Member(tail, "value") \/ a = Member(tail, "next") \/ a = Pointer("tail")
        BY <1>3, <3>3, AccessesAre
      <4>2. node[c] < head /\ node[c] \in Nat
        BY <2>1, <2>11
      <4> QED
        BY <3>1, Distinct, <2>7, <4>1, <4>2
    <3>4. CASE pc[d] = "swing"
      <4>1. a = Pointer("tail")
        <5>1. Queue!Reads(d) = {Pointer("tail")} /\ Queue!Writes(d) = {Pointer("tail")}
          BY <3>4, AccessesAre
        <5> QED
          BY <5>1, <1>3
      <4> QED
        BY <3>1, Distinct, <2>7, <4>1
    <3>5. CASE pc[d] = "get tail"
      <4>1. a = Pointer("head") \/ a = Pointer("tail")
        BY <1>3, <3>5, AccessesAre
      <4> QED
        BY <3>1, Distinct, <2>7, <4>1
    <3>6. CASE pc[d] = "move head"
      <4>1. a = Pointer("head") \/ a = Member(head, "next")
        BY <1>3, <3>6, AccessesAre
      <4>2. node[c] < head /\ node[c] \in Nat
        BY <2>1, <2>11
      <4> QED
        BY <3>1, Distinct, <2>7, <4>1, <4>2
    <3>7. CASE pc[d] \notin Filling \cup {"get tail", "move head", "read value"}
      <4>1. Queue!Reads(d) = {} /\ Queue!Writes(d) = {}
        BY <3>7, AccessesAre
      <4> QED
        BY <4>1, <1>3
    <3> QED
      BY <3>2, <3>3, <3>4, <3>5, <3>6, <3>7 DEF Filling
  <2>12. CASE pc[c] \notin {"fill 1", "fill 2", "swing", "move head", "read value"}
    BY <1>3, <2>12, AccessesAre DEF Filling
  <2> QED
    BY <2>8, <2>9, <2>10, <2>11, <2>12
<1> QED
  BY <1>1, <1>2, <1>3 DEF Queue!NoDataRace

-----------------------------------------------------------------------------
(* The hash table.  Who changes a bucket is alone in it, so that what the   *)
(* others found there stays where it is.                                    *)
TableValues == {r.value : r \in {request \in TableRequests : request.call = "add_or_update_mapping"}}
Pairs == [key : Int, value : TableValues]

TableTypes ==
    /\ todo \in [Client -> Seq(TableRequests)]
    /\ pc \in [Client -> {"lock", "find", "use"}]
    /\ data \in [Table!Bucket -> Seq(Pairs)]
    /\ readers \in [Table!Bucket -> SUBSET Client]
    /\ writers \in [Table!Bucket -> SUBSET Client]
    /\ entry \in [Client -> Nat]

(* A writer is alone; a call that is under way has the lock it needs.       *)
Alone == \A b \in Table!Bucket : \A c \in writers[b] : writers[b] = {c} /\ readers[b] = {}
Locked ==
    \A c \in Client : pc[c] # "lock" =>
        /\ todo[c] # <<>>
        /\ Table!Calls(c).call = "value_for" => c \in readers[Table!BucketOf(c)]
        /\ Table!Calls(c).call # "value_for" => c \in writers[Table!BucketOf(c)]

(* A bucket has one entry per key.                                          *)
KeyedOnce(s) == \A i, j \in 1 .. Len(s) : s[i].key = s[j].key => i = j
OneEntry == \A b \in Table!Bucket : KeyedOnce(data[b])

TableInv == TableTypes /\ Alone /\ Locked /\ OneEntry /\ Table!IteratorValid

(* The table is empty at first.                                            *)
LEMMA TableInit == ContainersInit /\ which = "table" => TableInv
<1> SUFFICES ASSUME ContainersInit, which = "table" PROVE TableInv
  OBVIOUS
<1>1. Table!Init
  BY DEF ContainersInit
<1>2. TableTypes
  BY <1>1, TableAssumption DEF Table!Init, TableTypes
<1>3. \A c \in Client : pc[c] = "lock"
  BY <1>1 DEF Table!Init
<1>4. Alone /\ OneEntry
  BY <1>1 DEF Table!Init, Alone, OneEntry, KeyedOnce
<1> QED
  BY <1>2, <1>3, <1>4 DEF TableInv, Locked, Table!IteratorValid

(* What a call that has something to do asks for.                           *)
LEMMA Asked ==
    ASSUME TableTypes, NEW c \in Client, todo[c] # <<>>
    PROVE  /\ Table!Calls(c) \in TableRequests /\ Table!Calls(c).key \in Int
           /\ Table!BucketOf(c) \in Table!Bucket
           /\ Tail(todo[c]) \in Seq(TableRequests)
<1>1. Table!Calls(c) \in TableRequests /\ Tail(todo[c]) \in Seq(TableRequests)
  BY HeadTailProperties DEF TableTypes, Table!Calls
<1>2. Table!Calls(c).key \in Int
  BY <1>1, TableAssumption
<1>3. \A k \in Int, n \in Nat \ {0} : k % n \in 0 .. n - 1
  OBVIOUS
<1>4. Table!BucketOf(c) \in Table!Bucket
  BY <1>2, <1>3, TableAssumption DEF Table!BucketOf, Table!hash, Table!Bucket
<1> QED
  BY <1>1, <1>2, <1>4

(* Nobody is in the bucket that a call is about to change.                  *)
LEMMA Excluded ==
    ASSUME TableInv, NEW c \in Client, NEW d \in Client, c # d, pc[c] # "lock", pc[d] # "lock",
           Table!Calls(c).call # "value_for"
    PROVE  Table!BucketOf(d) # Table!BucketOf(c)
<1>1. c \in writers[Table!BucketOf(c)] /\ Table!BucketOf(c) \in Table!Bucket
  BY Asked DEF TableInv, Locked
<1>2. writers[Table!BucketOf(c)] = {c} /\ readers[Table!BucketOf(c)] = {}
  BY <1>1 DEF TableInv, Alone
<1>3. d \in readers[Table!BucketOf(d)] \/ d \in writers[Table!BucketOf(d)]
  BY DEF TableInv, Locked
<1> QED
  BY <1>2, <1>3

(* A key that is looked for is in one place at most.                        *)
LEMMA PositionsAre ==
    ASSUME TableTypes, OneEntry, NEW c \in Client, todo[c] # <<>>
    PROVE  /\ Table!Positions(c) \subseteq 1 .. Len(data[Table!BucketOf(c)])
           /\ \A i, j \in Table!Positions(c) : i = j
<1>1. Table!BucketOf(c) \in Table!Bucket
  BY Asked
<1>2. PICK s \in Seq(Pairs) : s = data[Table!BucketOf(c)]
  BY <1>1 DEF TableTypes
<1>3. KeyedOnce(s)
  BY <1>1, <1>2 DEF OneEntry
<1>4. Table!Positions(c) = {i \in 1 .. Len(s) : s[i].key = Table!Calls(c).key}
  BY <1>2 DEF Table!Positions
<1> QED
  BY <1>2, <1>3, <1>4 DEF KeyedOnce

(* Where a call of somebody else is, it stays.                              *)
LEMMA FoundStays ==
    ASSUME TableInv, NEW d \in Client, todo'[d] = todo[d], entry'[d] = entry[d], pc[d] = "use",
           data'[Table!BucketOf(d)] = data[Table!BucketOf(d)]
    PROVE  (Table!Positions(d) = {entry[d]} \ {0})'
<1>1. Table!Positions(d) = {entry[d]} \ {0}
  BY DEF TableInv, Table!IteratorValid
<1>2. Table!Calls(d)' = Table!Calls(d) /\ Table!BucketOf(d)' = Table!BucketOf(d)
  BY DEF Table!Calls, Table!BucketOf, Table!hash
<1>3. Table!Positions(d)' = Table!Positions(d)
  BY <1>2 DEF Table!Positions
<1> QED
  BY <1>1, <1>3

(* A lock is taken.                                                         *)
LEMMA TableLockKeeps ==
    ASSUME TableInv, NEW c \in Client, Table!LockShared(c) \/ Table!LockUnique(c)
    PROVE  TableInv'
<1>1. /\ todo[c] # <<>> /\ pc[c] = "lock" /\ pc' = [pc EXCEPT ![c] = "find"]
      /\ UNCHANGED <<todo, data, entry>>
      /\ \/ /\ Table!Calls(c).call = "value_for" /\ writers[Table!BucketOf(c)] = {}
            /\ readers' = [readers EXCEPT ![Table!BucketOf(c)] = @ \cup {c}] /\ writers' = writers
         \/ /\ Table!Calls(c).call # "value_for"
            /\ writers[Table!BucketOf(c)] = {} /\ readers[Table!BucketOf(c)] = {}
            /\ writers' = [writers EXCEPT ![Table!BucketOf(c)] = {c}] /\ readers' = readers
  BY DEF Table!LockShared, Table!LockUnique, Table!Goto
<1>2. Table!BucketOf(c) \in Table!Bucket
  BY <1>1, Asked DEF TableInv
<1>3. \A d \in Client : Table!Calls(d)' = Table!Calls(d) /\ Table!BucketOf(d)' = Table!BucketOf(d)
  BY <1>1 DEF Table!Calls, Table!BucketOf, Table!hash
<1>4. TableTypes'
  BY <1>1, <1>2 DEF TableInv, TableTypes
<1>5. Alone'
  <2> DEFINE b == Table!BucketOf(c)
  <2> HIDE DEF b
  <2>1. \A a \in Table!Bucket : \A d \in writers[a] : writers[a] = {d} /\ readers[a] = {}
    BY DEF TableInv, Alone
  <2>2. ASSUME NEW a \in Table!Bucket, NEW d \in writers'[a] PROVE writers'[a] = {d} /\ readers'[a] = {}
    <3>1. CASE a # b
      <4>1. readers'[a] = readers[a] /\ writers'[a] = writers[a]
        BY <1>1, <1>2, <3>1 DEF b, TableInv, TableTypes
      <4> QED
        BY <4>1, <2>1, <2>2
    <3>2. CASE a = b
      <4>1. CASE Table!Calls(c).call = "value_for"
        <5>1. writers'[a] = {}
          BY <1>1, <4>1, <3>2 DEF b
        <5> QED
          BY <5>1, <2>2
      <4>2. CASE Table!Calls(c).call # "value_for"
        <5>1. writers'[a] = {c} /\ readers'[a] = {}
          BY <1>1, <1>2, <4>2, <3>2 DEF b, TableInv, TableTypes
        <5> QED
          BY <5>1, <2>2
      <4> QED
        BY <4>1, <4>2
    <3> QED
      BY <3>1, <3>2
  <2> QED
    BY <2>2 DEF Alone
<1>6. \A b \in Table!Bucket : readers[b] \subseteq readers'[b] /\ writers[b] \subseteq writers'[b]
  BY <1>1, <1>2 DEF TableInv, TableTypes
<1>7. ASSUME NEW d \in Client, pc'[d] # "lock"
      PROVE  /\ todo'[d] # <<>>
             /\ Table!Calls(d).call = "value_for" => d \in readers'[Table!BucketOf(d)]
             /\ Table!Calls(d).call # "value_for" => d \in writers'[Table!BucketOf(d)]
  <2>1. CASE d = c
    BY <2>1, <1>1, <1>2 DEF TableInv, TableTypes
  <2>2. CASE d # c
    <3>1. pc[d] # "lock" /\ todo'[d] = todo[d]
      BY <1>1, <1>7, <2>2 DEF TableInv, TableTypes
    <3>2. todo[d] # <<>>
      BY <3>1 DEF TableInv, Locked
    <3>3. Table!BucketOf(d) \in Table!Bucket
      BY <3>2, Asked DEF TableInv
    <3> QED
      BY <3>1, <3>3, <1>6 DEF TableInv, Locked
  <2> QED
    BY <2>1, <2>2
<1>8. Locked'
  BY <1>3, <1>7 DEF Locked
<1>9. OneEntry'
  BY <1>1 DEF TableInv, OneEntry
<1>10. Table!IteratorValid'
  <2>1. ASSUME NEW d \in Client, pc'[d] = "use" PROVE (Table!Positions(d) = {entry[d]} \ {0})'
    <3>1. pc[d] = "use"
      BY <1>1, <2>1 DEF TableInv, TableTypes
    <3> QED
      BY <3>1, <1>1, FoundStays
  <2> QED
    BY <2>1 DEF Table!IteratorValid
<1> QED
  BY <1>4, <1>5, <1>8, <1>9, <1>10 DEF TableInv

(* A call finds the entry of its key, or that there is none.                *)
LEMMA FindKeeps ==
    ASSUME TableInv, NEW c \in Client, Table!Find(c)
    PROVE  TableInv'
<1>1. /\ todo[c] # <<>> /\ pc[c] = "find" /\ pc' = [pc EXCEPT ![c] = "use"]
      /\ entry' = [entry EXCEPT ![c] =
                      IF Table!Positions(c) = {} THEN 0
                      ELSE CHOOSE i \in Table!Positions(c) : \A j \in Table!Positions(c) : i <= j]
      /\ UNCHANGED <<todo, data, readers, writers>>
  BY DEF Table!Find, Table!Goto
<1>2. \A d \in Client : /\ Table!Calls(d)' = Table!Calls(d) /\ Table!BucketOf(d)' = Table!BucketOf(d)
                        /\ Table!Positions(d)' = Table!Positions(d)
  BY <1>1 DEF Table!Calls, Table!BucketOf, Table!hash, Table!Positions
<1>3. entry'[c] \in Nat /\ Table!Positions(c) = {entry'[c]} \ {0}
  <2>1. PICK e : e = IF Table!Positions(c) = {} THEN 0
                     ELSE CHOOSE i \in Table!Positions(c) : \A j \in Table!Positions(c) : i <= j
    OBVIOUS
  <2>2. PICK P : P = Table!Positions(c)
    OBVIOUS
  <2>3. P \subseteq Nat \ {0} /\ \A i, j \in P : i = j
    BY <2>2, <1>1, PositionsAre DEF TableInv
  <2>4. CASE P = {}
    BY <2>1, <2>2, <2>4, <1>1 DEF TableInv, TableTypes
  <2>5. CASE P # {}
    <3>1. PICK i \in P : TRUE
      BY <2>5
    <3>2. P = {i} /\ i \in Nat /\ i # 0 /\ \A j \in P : i <= j
      <4>1. i \in Nat /\ i # 0
        BY <2>3, <3>1
      <4>2. \A j \in P : j = i
        BY <2>3, <3>1
      <4>3. P = {i}
        BY <4>2, <3>1
      <4>4. \A j \in P : i <= j
        BY <4>1, <4>2
      <4> QED
        BY <4>1, <4>3, <4>4
    <3>3. e = i
      BY <2>1, <2>2, <3>2
    <3> QED
      BY <3>2, <3>3, <2>1, <2>2, <1>1 DEF TableInv, TableTypes
  <2> QED
    BY <2>4, <2>5
<1>4. TableTypes'
  BY <1>1, <1>3 DEF TableInv, TableTypes
<1>5. Alone' /\ OneEntry'
  BY <1>1 DEF TableInv, Alone, OneEntry
<1>6. Locked'
  BY <1>1, <1>2 DEF TableInv, TableTypes, Locked
<1>7. ASSUME NEW d \in Client, pc'[d] = "use" PROVE (Table!Positions(d) = {entry[d]} \ {0})'
  <2>1. CASE d = c
    BY <2>1, <1>2, <1>3
  <2>2. CASE d # c
    <3>1. pc[d] = "use" /\ entry'[d] = entry[d]
      BY <1>1, <1>7, <2>2 DEF TableInv, TableTypes
    <3> QED
      BY <3>1, <1>1, FoundStays
  <2> QED
    BY <2>1, <2>2
<1> QED
  BY <1>4, <1>5, <1>6, <1>7 DEF TableInv, Table!IteratorValid

(* A call returns, whatever it did to its bucket.                           *)
LEMMA ReturnKeeps ==
    ASSUME TableInv, NEW c \in Client, Table!Returns(c), NEW s \in Seq(Pairs), KeyedOnce(s),
           data' = [data EXCEPT ![Table!BucketOf(c)] = s],
           Table!Calls(c).call = "value_for" => data' = data
    PROVE  TableInv'
<1>1. /\ todo[c] # <<>> /\ pc[c] = "use" /\ pc' = [pc EXCEPT ![c] = "lock"]
      /\ readers' = [readers EXCEPT ![Table!BucketOf(c)] = @ \ {c}]
      /\ writers' = [writers EXCEPT ![Table!BucketOf(c)] = @ \ {c}]
      /\ todo' = [todo EXCEPT ![c] = Tail(@)]
      /\ entry' = entry
  BY DEF Table!Returns, Table!Goto
<1>2. Table!BucketOf(c) \in Table!Bucket /\ Tail(todo[c]) \in Seq(TableRequests)
  BY <1>1, Asked DEF TableInv
<1>3. TableTypes'
  <2>1. todo' \in [Client -> Seq(TableRequests)]
    BY <1>1, <1>2 DEF TableInv, TableTypes
  <2>2. data' \in [Table!Bucket -> Seq(Pairs)]
    BY <1>2 DEF TableInv, TableTypes
  <2> QED
    BY <2>1, <2>2, <1>1, <1>2 DEF TableInv, TableTypes
<1>4. Alone'
  BY <1>1, <1>2 DEF TableInv, Alone, TableTypes
<1>5. OneEntry'
  BY <1>2 DEF TableInv, TableTypes, OneEntry
<1>6. ASSUME NEW d \in Client, pc'[d] # "lock"
      PROVE  /\ d # c /\ pc[d] = pc'[d] /\ todo'[d] = todo[d] /\ todo[d] # <<>>
             /\ Table!Calls(d)' = Table!Calls(d) /\ Table!BucketOf(d)' = Table!BucketOf(d)
             /\ Table!BucketOf(d) \in Table!Bucket
  <2>1. d # c /\ pc[d] = pc'[d] /\ todo'[d] = todo[d]
    BY <1>1, <1>6 DEF TableInv, TableTypes
  <2>2. todo[d] # <<>>
    BY <2>1, <1>6 DEF TableInv, Locked
  <2>3. Table!BucketOf(d) \in Table!Bucket
    BY <2>2, Asked DEF TableInv
  <2>4. Table!Calls(d)' = Table!Calls(d) /\ Table!BucketOf(d)' = Table!BucketOf(d)
    BY <2>1 DEF Table!Calls, Table!BucketOf, Table!hash
  <2> QED
    BY <2>1, <2>2, <2>3, <2>4
<1>7. Locked'
  <2>1. ASSUME NEW d \in Client, pc'[d] # "lock"
        PROVE  /\ todo'[d] # <<>>
               /\ Table!Calls(d).call = "value_for" => d \in readers'[Table!BucketOf(d)]
               /\ Table!Calls(d).call # "value_for" => d \in writers'[Table!BucketOf(d)]
    <3>1. /\ d # c /\ pc[d] # "lock" /\ todo'[d] = todo[d] /\ todo[d] # <<>>
          /\ Table!BucketOf(d) \in Table!Bucket
      BY <2>1, <1>6
    <3>2. /\ Table!Calls(d).call = "value_for" => d \in readers[Table!BucketOf(d)]
          /\ Table!Calls(d).call # "value_for" => d \in writers[Table!BucketOf(d)]
      BY <3>1 DEF TableInv, Locked
    <3>3. readers[Table!BucketOf(d)] \ {c} \subseteq readers'[Table!BucketOf(d)]
          /\ writers[Table!BucketOf(d)] \ {c} \subseteq writers'[Table!BucketOf(d)]
      BY <1>1, <1>2, <3>1 DEF TableInv, TableTypes
    <3> QED
      BY <3>1, <3>2, <3>3
  <2> QED
    BY <2>1, <1>6 DEF Locked
<1>8. ASSUME NEW d \in Client, pc'[d] = "use" PROVE (Table!Positions(d) = {entry[d]} \ {0})'
  <2>1. d # c /\ pc[d] = "use" /\ todo'[d] = todo[d] /\ Table!BucketOf(d) \in Table!Bucket
    BY <1>6, <1>8
  <2>2. data'[Table!BucketOf(d)] = data[Table!BucketOf(d)]
    <3>1. CASE Table!Calls(c).call = "value_for"
      BY <3>1
    <3>2. CASE Table!Calls(c).call # "value_for"
      <4>1. Table!BucketOf(d) # Table!BucketOf(c)
        BY <3>2, <2>1, <1>1, Excluded
      <4> QED
        BY <4>1, <2>1, <1>2 DEF TableInv, TableTypes
    <3> QED
      BY <3>1, <3>2
  <2> QED
    BY <2>1, <2>2, <1>1, FoundStays
<1> QED
  BY <1>3, <1>4, <1>5, <1>7, <1>8 DEF TableInv, Table!IteratorValid

(* The bucket of a call that has found its entry, or that there is none.    *)
LEMMA Found ==
    ASSUME TableInv, NEW c \in Client, pc[c] = "use"
    PROVE  /\ todo[c] # <<>> /\ Table!BucketOf(c) \in Table!Bucket
           /\ data[Table!BucketOf(c)] \in Seq(Pairs) /\ KeyedOnce(data[Table!BucketOf(c)])
           /\ entry[c] \in Nat
           /\ entry[c] = 0 => \A i \in 1 .. Len(data[Table!BucketOf(c)]) :
                                  data[Table!BucketOf(c)][i].key # Table!Calls(c).key
           /\ entry[c] # 0 => /\ entry[c] \in 1 .. Len(data[Table!BucketOf(c)])
                              /\ data[Table!BucketOf(c)][entry[c]].key = Table!Calls(c).key
<1>1. todo[c] # <<>>
  BY DEF TableInv, Locked
<1>2. Table!BucketOf(c) \in Table!Bucket
  BY <1>1, Asked DEF TableInv
<1>3. PICK s \in Seq(Pairs) : s = data[Table!BucketOf(c)]
  BY <1>2 DEF TableInv, TableTypes
<1>4. KeyedOnce(s) /\ entry[c] \in Nat
  BY <1>2, <1>3 DEF TableInv, OneEntry, TableTypes
<1>5. Table!Positions(c) = {i \in 1 .. Len(s) : s[i].key = Table!Calls(c).key}
  BY <1>3 DEF Table!Positions
<1>6. Table!Positions(c) = {entry[c]} \ {0}
  BY DEF TableInv, Table!IteratorValid
<1> QED
  BY <1>1, <1>2, <1>3, <1>4, <1>5, <1>6

(* add_or_update_mapping() changes the entry that it found or adds one.     *)
LEMMA AddKeeps ==
    ASSUME TableInv, NEW c \in Client, Table!add_or_update_mapping(c)
    PROVE  TableInv'
<1>1. /\ Table!Returns(c) /\ pc[c] = "use" /\ Table!Calls(c).call = "add_or_update_mapping"
  BY DEF Table!add_or_update_mapping, Table!Returns, Table!Goto
<1>2. PICK s \in Seq(Pairs) : s = data[Table!BucketOf(c)]
  BY <1>1, Found
<1>3. PICK pair : pair = [key |-> Table!Calls(c).key, value |-> Table!Calls(c).value]
  OBVIOUS
<1>4. pair \in Pairs /\ pair.key = Table!Calls(c).key
  <2>1. Table!Calls(c) \in TableRequests /\ Table!Calls(c).key \in Int
    BY <1>1, Found, Asked DEF TableInv
  <2>2. Table!Calls(c).value \in TableValues
    BY <2>1, <1>1 DEF TableValues
  <2> QED
    BY <2>1, <2>2, <1>3 DEF Pairs
<1>5. PICK t : t = IF entry[c] = 0 THEN Append(s, pair) ELSE [s EXCEPT ![entry[c]] = pair]
  OBVIOUS
<1>6. data' = [data EXCEPT ![Table!BucketOf(c)] = t]
  BY <1>2, <1>3, <1>5, <1>1, Found DEF Table!add_or_update_mapping, TableInv, TableTypes
<1>7. t \in Seq(Pairs) /\ KeyedOnce(t)
  <2>1. /\ entry[c] \in Nat /\ KeyedOnce(s)
        /\ entry[c] = 0 => \A i \in 1 .. Len(s) : s[i].key # pair.key
        /\ entry[c] # 0 => entry[c] \in 1 .. Len(s) /\ s[entry[c]].key = pair.key
    BY <1>1, <1>2, <1>4, Found
  <2>2. CASE entry[c] = 0
    <3>1. /\ t \in Seq(Pairs) /\ Len(t) = Len(s) + 1 /\ t[Len(s) + 1] = pair
          /\ \A i \in 1 .. Len(s) : t[i] = s[i]
      BY <2>2, <1>4, <1>5, AppendProperties
    <3>2. Len(s) \in Nat
      OBVIOUS
    <3>3. ASSUME NEW i \in 1 .. Len(t), NEW j \in 1 .. Len(t), t[i].key = t[j].key PROVE i = j
      <4>1. (i \in 1 .. Len(s) \/ i = Len(s) + 1) /\ (j \in 1 .. Len(s) \/ j = Len(s) + 1)
        BY <3>1, <3>2
      <4> QED
        BY <4>1, <3>1, <3>3, <2>1, <2>2 DEF KeyedOnce
    <3> QED
      BY <3>1, <3>3 DEF KeyedOnce
  <2>3. CASE entry[c] # 0
    <3>1. t \in Seq(Pairs) /\ Len(t) = Len(s) /\ \A i \in 1 .. Len(s) : t[i] = IF i = entry[c] THEN pair ELSE s[i]
      BY <2>1, <2>3, <1>4, <1>5
    <3>2. \A i \in 1 .. Len(s) : t[i].key = s[i].key
      BY <3>1, <2>1, <2>3
    <3> QED
      BY <3>1, <3>2, <2>1 DEF KeyedOnce
  <2> QED
    BY <2>2, <2>3
<1> QED
  BY <1>1, <1>6, <1>7, ReturnKeeps

(* What is left without one place.                                          *)
LEMMA Removed ==
    ASSUME NEW s \in Seq(Pairs), NEW e \in 1 .. Len(s), KeyedOnce(s)
    PROVE  Table!RemoveAt(s, e) \in Seq(Pairs) /\ KeyedOnce(Table!RemoveAt(s, e))
<1>1. PICK front : front = SubSeq(s, 1, e - 1)
  OBVIOUS
<1>2. PICK back : back = SubSeq(s, e + 1, Len(s))
  OBVIOUS
<1>3. Len(s) \in Nat /\ e \in Nat /\ e - 1 \in Int /\ e + 1 \in Int /\ Len(s) \in Int /\ 1 \in Int
  OBVIOUS
<1>4. (\A i \in 1 .. e - 1 : s[i] \in Pairs) /\ (\A i \in e + 1 .. Len(s) : s[i] \in Pairs)
  OBVIOUS
<1>5. front \in Seq(Pairs) /\ Len(front) = e - 1 /\ \A i \in 1 .. e - 1 : front[i] = s[i]
  <2>1. /\ SubSeq(s, 1, e - 1) \in Seq(Pairs)
        /\ Len(SubSeq(s, 1, e - 1)) = IF 1 <= e - 1 THEN (e - 1) - 1 + 1 ELSE 0
        /\ \A i \in 1 .. (e - 1) - 1 + 1 : SubSeq(s, 1, e - 1)[i] = s[1 + i - 1]
    BY <1>3, <1>4, SubSeqProperties
  <2> QED
    BY <2>1, <1>1, <1>3
<1>6. back \in Seq(Pairs) /\ Len(back) = Len(s) - e /\ \A i \in 1 .. Len(s) - e : back[i] = s[e + i]
  <2>1. /\ SubSeq(s, e + 1, Len(s)) \in Seq(Pairs)
        /\ Len(SubSeq(s, e + 1, Len(s))) = IF e + 1 <= Len(s) THEN Len(s) - (e + 1) + 1 ELSE 0
        /\ \A i \in 1 .. Len(s) - (e + 1) + 1 : SubSeq(s, e + 1, Len(s))[i] = s[(e + 1) + i - 1]
    BY <1>3, <1>4, SubSeqProperties
  <2> QED
    BY <2>1, <1>2, <1>3
<1>7. PICK t : t = front \o back
  OBVIOUS
<1>8. /\ t \in Seq(Pairs) /\ Len(t) = Len(front) + Len(back)
      /\ \A i \in 1 .. Len(front) + Len(back) : t[i] = IF i <= Len(front) THEN front[i] ELSE back[i - Len(front)]
  BY <1>5, <1>6, <1>7, ConcatProperties
<1>9. Len(t) = Len(s) - 1 /\ \A i \in 1 .. Len(t) : t[i] = IF i <= e - 1 THEN s[i] ELSE s[i + 1]
  <2>1. Len(t) = Len(s) - 1
    BY <1>3, <1>5, <1>6, <1>8
  <2>2. ASSUME NEW i \in 1 .. Len(t) PROVE t[i] = IF i <= e - 1 THEN s[i] ELSE s[i + 1]
    <3>1. CASE i <= e - 1
      <4>1. i \in 1 .. Len(front) + Len(back) /\ i <= Len(front) /\ i \in 1 .. e - 1
        BY <3>1, <2>1, <1>3, <1>5, <1>6, <1>8
      <4>2. t[i] = front[i] /\ front[i] = s[i]
        BY <4>1, <1>5, <1>8
      <4> QED
        BY <3>1, <4>2
    <3>2. CASE ~(i <= e - 1)
      <4>1. i - (e - 1) \in 1 .. Len(s) - e /\ e + (i - (e - 1)) = i + 1
        BY <3>2, <2>1, <1>3
      <4> QED
        BY <3>2, <4>1, <2>1, <1>3, <1>5, <1>6, <1>8
    <3> QED
      BY <3>1, <3>2
  <2> QED
    BY <2>1, <2>2
<1>10. KeyedOnce(t)
  <2>1. ASSUME NEW i \in 1 .. Len(t), NEW j \in 1 .. Len(t), t[i].key = t[j].key PROVE i = j
    <3>1. /\ i \in 1 .. Len(s) /\ i + 1 \in 1 .. Len(s) /\ j \in 1 .. Len(s) /\ j + 1 \in 1 .. Len(s)
          /\ i \in Int /\ j \in Int /\ e \in Int
      BY <1>3, <1>9
    <3>2. \A k, l \in 1 .. Len(s) : s[k].key = s[l].key => k = l
      BY DEF KeyedOnce
    <3>3. t[i] = (IF i <= e - 1 THEN s[i] ELSE s[i + 1]) /\ t[j] = (IF j <= e - 1 THEN s[j] ELSE s[j + 1])
      BY <1>9
    <3> QED
      BY <3>1, <3>2, <3>3, <2>1
  <2> QED
    BY <2>1 DEF KeyedOnce
<1> QED
  BY <1>1, <1>2, <1>7, <1>8, <1>10 DEF Table!RemoveAt

(* remove_mapping() erases the entry that it found.                         *)
LEMMA RemoveKeeps ==
    ASSUME TableInv, NEW c \in Client, Table!remove_mapping(c)
    PROVE  TableInv'
<1>1. Table!Returns(c) /\ pc[c] = "use" /\ Table!Calls(c).call = "remove_mapping"
  BY DEF Table!remove_mapping, Table!Returns, Table!Goto
<1>2. PICK s \in Seq(Pairs) : s = data[Table!BucketOf(c)]
  BY <1>1, Found
<1>3. PICK t : t = IF entry[c] = 0 THEN s ELSE Table!RemoveAt(s, entry[c])
  OBVIOUS
<1>4. data' = [data EXCEPT ![Table!BucketOf(c)] = t]
  BY <1>2, <1>3, <1>1, Found DEF Table!remove_mapping, TableInv, TableTypes
<1>5. t \in Seq(Pairs) /\ KeyedOnce(t)
  BY <1>1, <1>2, <1>3, Found, Removed
<1> QED
  BY <1>1, <1>4, <1>5, ReturnKeeps

(* And so any step of the table.                                            *)
LEMMA TableStepKeeps ==
    ASSUME TableInv, NEW c \in Client, Table!Step(c)
    PROVE  TableInv'
<1>1. CASE Table!LockShared(c) \/ Table!LockUnique(c)
  BY <1>1, TableLockKeeps
<1>2. CASE Table!Find(c)
  BY <1>2, FindKeeps
<1>3. CASE Table!value_for(c)
  <2>1. Table!Returns(c) /\ data' = data /\ pc[c] = "use"
    BY <1>3 DEF Table!value_for, Table!Returns, Table!Goto
  <2>2. /\ data[Table!BucketOf(c)] \in Seq(Pairs) /\ KeyedOnce(data[Table!BucketOf(c)])
        /\ data' = [data EXCEPT ![Table!BucketOf(c)] = data[Table!BucketOf(c)]]
    BY <2>1, Found DEF TableInv, TableTypes
  <2> QED
    BY <2>1, <2>2, ReturnKeeps
<1>4. CASE Table!add_or_update_mapping(c)
  BY <1>4, AddKeeps
<1>5. CASE Table!remove_mapping(c)
  BY <1>5, RemoveKeeps
<1> QED
  BY <1>1, <1>2, <1>3, <1>4, <1>5 DEF Table!Step
-----------------------------------------------------------------------------
(* The queues for one thread.  Until a value is popped, tail stays on the   *)
(* first node, which nothing frees: of the others only the last is linked.  *)
SingleTypes ==
    /\ next \in Seq(Nat) /\ value \in Seq(Nat) /\ Len(value) = Len(next)
    /\ \A i \in 1 .. Len(next) : next[i] \in 0 .. Len(next)
    /\ head \in 0 .. Len(next) /\ tail \in 0 .. Len(next)
    /\ live \in SUBSET (1 .. Len(next))
    /\ pushed \in Nat /\ popped \in Seq(Nat)

NothingPopped == \A i \in 1 .. Len(popped) : popped[i] = 0
NoneYet == Len(next) = 0 /\ head = 0 /\ tail = 0
OneFirst ==
    /\ head = 1 /\ tail = 1 /\ 1 \in live
    /\ value[1] # 0 /\ next[1] # 1
    /\ \A k \in 2 .. Len(next) : next[k] = 0

SingleInv ==
    /\ dummy \in BOOLEAN
    /\ dummy => ~dangling
    /\ ~dummy => SingleTypes /\ (NothingPopped => ~dangling /\ (NoneYet \/ OneFirst))

(* The queues are empty at first.                                           *)
LEMMA SingleInit == ContainersInit /\ which = "single" => SingleInv
<1> SUFFICES ASSUME ContainersInit, which = "single" PROVE SingleInv
  OBVIOUS
<1>1. Single!Init
  BY DEF ContainersInit
<1>2. dummy \in BOOLEAN /\ dangling = FALSE /\ popped = <<>> /\ pushed = 0
  BY <1>1 DEF Single!Init
<1>3. ASSUME ~dummy PROVE SingleTypes /\ NoneYet
  <2>1. head = 0 /\ tail = 0 /\ next = <<>> /\ value = <<>> /\ live = {}
    BY <1>1, <1>3 DEF Single!Init, Single!Null
  <2> QED
    BY <1>2, <2>1 DEF SingleTypes, NoneYet
<1> QED
  BY <1>2, <1>3 DEF SingleInv

(* What is freed with the node behind the first one is not the first one.   *)
LEMMA FirstStays ==
    ASSUME SingleTypes, OneFirst
    PROVE  1 \notin Single!Behind(next[1])
<1> DEFINE n == Len(next)
           Along(f) == f = [m \in 0 .. n |-> IF m = 0 THEN {} ELSE {m} \cup f[next[m]]]
           From == [m \in 0 .. n |-> IF m = 0 THEN {} ELSE IF next[m] = 0 THEN {m} ELSE {m, next[m]}]
           Follow == CHOOSE f : Along(f)
<1>1. /\ n \in Nat /\ 1 \in 1 .. n
      /\ \A m \in 1 .. n : next[m] \in 0 .. n
      /\ \A m \in 1 .. n : next[m] # 0 => m = 1
      /\ next[1] # 1
  BY DEF SingleTypes, OneFirst
<1>2. next[1] # 0 => next[1] \in 1 .. n /\ next[next[1]] = 0
  BY <1>1
<1> HIDE DEF n
<1>3. ASSUME NEW m \in 0 .. n PROVE From[m] = IF m = 0 THEN {} ELSE {m} \cup From[next[m]]
  <2>1. CASE m = 0
    BY <2>1
  <2>2. CASE m # 0 /\ next[m] = 0
    <3>1. From[0] = {} /\ From[m] = {m}
      BY <1>1, <2>2
    <3> QED
      BY <2>2, <3>1
  <2>3. CASE m # 0 /\ next[m] # 0
    <3>1. m = 1 /\ next[m] \in 1 .. n /\ next[next[m]] = 0 /\ m \in 1 .. n
      BY <2>3, <1>1, <1>2
    <3>2. From[m] = {m, next[m]} /\ From[next[m]] = {next[m]}
      BY <2>3, <3>1, <1>1
    <3> QED
      BY <2>3, <3>2
  <2> QED
    BY <2>1, <2>2, <2>3
<1>4. Along(From)
  <2>1. From = [m \in 0 .. n |-> From[m]]
    OBVIOUS
  <2> HIDE DEF From
  <2> QED
    BY <1>3, <2>1
<1>5. Along(Follow)
  <2> HIDE DEF Along, From
  <2> QED
    BY <1>4
<1>6. \A m \in 0 .. n : Follow[m] = IF m = 0 THEN {} ELSE {m} \cup Follow[next[m]]
  <2>1. PICK f : f = Follow
    OBVIOUS
  <2> DEFINE e(m) == IF m = 0 THEN {} ELSE {m} \cup f[next[m]]
  <2>2. f = [m \in 0 .. n |-> e(m)]
    BY <1>5, <2>1
  <2> HIDE DEF e, Follow
  <2>3. \A m \in 0 .. n : f[m] = e(m)
    BY <2>2
  <2> QED
    BY <2>1, <2>3 DEF e
<1>7. Single!Behind(next[1]) = Follow[next[1]]
  BY DEF Single!Behind, Single!Null, n
<1> HIDE DEF Follow
<1>8. CASE next[1] = 0
  BY <1>1, <1>6, <1>7, <1>8
<1>9. CASE next[1] # 0
  <2>1. Follow[0] = {}
    <3>1. 0 \in 0 .. n
      BY <1>1
    <3> QED
      BY <3>1, <1>6
  <2>2. Follow[next[1]] = {next[1]}
    <3>1. PICK k : k = next[1]
      OBVIOUS
    <3>2. k \in 0 .. n /\ k # 0 /\ next[k] = 0
      BY <1>2, <1>9, <3>1
    <3>3. Follow[k] = {k} \cup Follow[0]
      BY <3>2, <1>6
    <3> QED
      BY <3>1, <3>3, <2>1
  <2> QED
    BY <1>1, <1>7, <2>2
<1> QED
  BY <1>8, <1>9

(* push() adds a node behind the one that tail is on.                       *)
LEMMA SinglePushKeeps ==
    ASSUME SingleInv, Single!push
    PROVE  SingleInv'
<1>1. /\ dummy' = dummy /\ popped' = popped
      /\ dummy => dangling' = dangling
  BY DEF Single!push
<1>2. CASE dummy
  BY <1>1, <1>2 DEF SingleInv
<1>3. CASE ~dummy
  <2> DEFINE n == Len(next)
  <2>1. SingleTypes /\ ~dangling /\ n \in Nat /\ (NothingPopped => NoneYet \/ OneFirst)
    BY <1>3 DEF SingleInv, Single!push, SingleTypes
  <2>2. pushed' = pushed + 1 /\ value' = Append(value, pushed')
    BY <1>3 DEF Single!push
  <2>3. CASE tail = 0
    <3>1. /\ head' = n + 1 /\ tail' = n + 1 /\ next' = Append(next, 0)
          /\ live' = live \cup {n + 1} /\ dangling' = dangling
      BY <1>3, <2>3 DEF Single!push, Single!Null, Single!New
    <3>2. /\ next' \in Seq(Nat) /\ Len(next') = n + 1 /\ next'[n + 1] = 0
          /\ \A i \in 1 .. n : next'[i] = next[i]
      BY <2>1, <3>1, AppendProperties DEF SingleTypes
    <3>3. /\ value' \in Seq(Nat) /\ Len(value') = n + 1 /\ value'[n + 1] = pushed + 1 /\ pushed \in Nat
      BY <2>1, <2>2, AppendProperties DEF SingleTypes
    <3>4. \A i \in 1 .. n + 1 : next'[i] \in 0 .. n + 1
      <4>1. \A i \in 1 .. n : next[i] \in 0 .. n
        BY <2>1 DEF SingleTypes
      <4> HIDE DEF n
      <4> QED
        BY <4>1, <3>2, <2>1
    <3>5. SingleTypes'
      <4>1. live \in SUBSET (1 .. n) /\ popped \in Seq(Nat)
        BY <2>1 DEF SingleTypes
      <4> HIDE DEF n
      <4>2. live' \in SUBSET (1 .. n + 1) /\ n + 1 \in 0 .. n + 1
        BY <4>1, <3>1, <2>1
      <4>3. pushed' \in Nat /\ popped' \in Seq(Nat)
        BY <4>1, <1>1, <2>2, <3>3
      <4> QED
        BY <4>2, <4>3, <3>1, <3>2, <3>3, <3>4 DEF SingleTypes
    <3>6. NothingPopped => OneFirst'
      <4> SUFFICES ASSUME NothingPopped PROVE OneFirst'
        OBVIOUS
      <4>1. n = 0
        BY <2>1, <2>3 DEF NoneYet, OneFirst
      <4> QED
        BY <4>1, <3>1, <3>2, <3>3 DEF OneFirst
    <3> QED
      BY <1>1, <1>3, <2>1, <3>1, <3>5, <3>6 DEF SingleInv, NothingPopped
  <2>4. CASE tail # 0
    <3>1. /\ head' = head /\ tail' = tail /\ next' = Append([next EXCEPT ![tail] = n + 1], 0)
          /\ live' = (live \ Single!Behind(next[tail])) \cup {n + 1}
          /\ dangling' = (tail \notin live)
      BY <1>3, <2>4 DEF Single!push, Single!Null, Single!New
    <3>2. PICK w : w = [next EXCEPT ![tail] = n + 1]
      OBVIOUS
    <3>3. w \in Seq(Nat) /\ Len(w) = n /\ \A i \in 1 .. n : w[i] = IF i = tail THEN n + 1 ELSE next[i]
      <4>1. tail \in 1 .. n /\ n + 1 \in Nat /\ next \in Seq(Nat)
        BY <2>1, <2>4 DEF SingleTypes
      <4> QED
        BY <4>1, <3>2
    <3>4. /\ next' \in Seq(Nat) /\ Len(next') = n + 1 /\ next'[n + 1] = 0
          /\ \A i \in 1 .. n : next'[i] = w[i]
      BY <3>1, <3>2, <3>3, AppendProperties
    <3>5. /\ value' \in Seq(Nat) /\ Len(value') = n + 1 /\ pushed \in Nat
          /\ \A i \in 1 .. n : value'[i] = value[i]
      BY <2>1, <2>2, AppendProperties DEF SingleTypes
    <3>6. \A i \in 1 .. n + 1 : next'[i] \in 0 .. n + 1
      <4>1. \A i \in 1 .. n : next[i] \in 0 .. n
        BY <2>1 DEF SingleTypes
      <4> HIDE DEF n
      <4> QED
        BY <4>1, <3>3, <3>4, <2>1
    <3>7. SingleTypes'
      <4>1. live' \in SUBSET (1 .. n + 1)
        <5>1. live \in SUBSET (1 .. n)
          BY <2>1 DEF SingleTypes
        <5> HIDE DEF n
        <5>2. live' \subseteq live \cup {n + 1}
          BY <3>1
        <5>3. \A i \in 1 .. n : i \in 1 .. n + 1
          BY <2>1
        <5>4. n + 1 \in 1 .. n + 1
          BY <2>1
        <5> QED
          BY <5>1, <5>2, <5>3, <5>4
      <4>2. head \in 0 .. n + 1 /\ tail \in 0 .. n + 1 /\ pushed' \in Nat /\ popped \in Seq(Nat)
        BY <2>1, <2>2 DEF SingleTypes
      <4> QED
        BY <1>1, <3>1, <3>4, <3>5, <3>6, <4>1, <4>2 DEF SingleTypes
    <3>8. NothingPopped => ~dangling' /\ OneFirst'
      <4> SUFFICES ASSUME NothingPopped PROVE ~dangling' /\ OneFirst'
        OBVIOUS
      <4>1. OneFirst
        BY <2>1, <2>4 DEF NoneYet
      <4>2. 1 \notin Single!Behind(next[1])
        BY <2>1, <4>1, FirstStays
      <4>3. 1 \in 1 .. n /\ tail = 1 /\ head = 1 /\ 1 \in live /\ value[1] # 0
        BY <2>1, <4>1 DEF OneFirst, SingleTypes
      <4>4. next'[1] = n + 1 /\ n + 1 # 1 /\ value'[1] = value[1]
        BY <3>3, <3>4, <3>5, <4>3, <2>1
      <4>5. ASSUME NEW k \in 2 .. n + 1 PROVE next'[k] = 0
        <5>1. CASE k = n + 1
          BY <5>1, <3>4
        <5>2. CASE k # n + 1
          <6>1. k \in 2 .. n /\ k \in 1 .. n /\ k # 1
            BY <5>2, <2>1
          <6>2. next[k] = 0
            BY <6>1, <4>1 DEF OneFirst
          <6> QED
            BY <6>1, <6>2, <3>3, <3>4, <4>3
        <5> QED
          BY <5>1, <5>2
      <4>6. 1 \in live' /\ ~dangling' /\ head' = 1 /\ tail' = 1
        BY <3>1, <4>2, <4>3
      <4> QED
        BY <4>3, <4>4, <4>5, <4>6, <3>4 DEF OneFirst
    <3> QED
      BY <1>1, <1>3, <3>7, <3>8 DEF SingleInv, NothingPopped
  <2> QED
    BY <2>3, <2>4
<1> QED
  BY <1>2, <1>3

(* try_pop() frees the node that head is on.                                *)
LEMMA SinglePopKeeps ==
    ASSUME SingleInv, Single!try_pop
    PROVE  SingleInv'
<1>1. dummy' = dummy /\ dangling' = dangling /\ ~dangling /\ UNCHANGED <<tail, value, pushed>>
  BY DEF Single!try_pop
<1>2. CASE dummy
  BY <1>1, <1>2 DEF SingleInv
<1>3. CASE ~dummy
  <2>1. SingleTypes /\ (NothingPopped => NoneYet \/ OneFirst)
    BY <1>3 DEF SingleInv
  <2>2. CASE head = 0
    <3>1. popped' = Append(popped, 0) /\ UNCHANGED <<head, live, next>>
      BY <1>3, <2>2 DEF Single!try_pop, Single!Null
    <3>2. /\ popped' \in Seq(Nat) /\ Len(popped') = Len(popped) + 1 /\ Len(popped) \in Nat
          /\ \A i \in 1 .. Len(popped) : popped'[i] = popped[i]
      BY <2>1, <3>1, AppendProperties DEF SingleTypes
    <3>3. NothingPopped' => NothingPopped
      BY <3>2 DEF NothingPopped
    <3>4. SingleTypes'
      BY <1>1, <2>1, <3>1, <3>2 DEF SingleTypes
    <3>5. (NoneYet \/ OneFirst) => (NoneYet \/ OneFirst)'
      BY <1>1, <3>1 DEF NoneYet, OneFirst
    <3> QED
      BY <1>1, <1>3, <2>1, <3>3, <3>4, <3>5 DEF SingleInv
  <2>3. CASE head # 0
    <3>1. /\ popped' = Append(popped, value[head]) /\ head' = next[head] /\ live' = live \ {head}
          /\ next' = [next EXCEPT ![head] = 0]
      BY <1>3, <2>3 DEF Single!try_pop, Single!Null
    <3>2. head \in 1 .. Len(next) /\ Len(next) \in Nat
      BY <2>1, <2>3 DEF SingleTypes
    <3>3. value[head] \in Nat /\ next[head] \in 0 .. Len(next)
      BY <2>1, <3>2 DEF SingleTypes
    <3>4. /\ popped' \in Seq(Nat) /\ Len(popped') = Len(popped) + 1 /\ Len(popped) \in Nat
          /\ \A i \in 1 .. Len(popped) : popped'[i] = popped[i]
          /\ popped'[Len(popped) + 1] = value[head]
      BY <2>1, <3>1, <3>3, AppendProperties DEF SingleTypes
    <3>5. next' \in Seq(Nat) /\ Len(next') = Len(next) /\ \A i \in 1 .. Len(next) : next'[i] \in 0 .. Len(next)
      BY <2>1, <3>1, <3>2 DEF SingleTypes
    <3>6. SingleTypes'
      <4>1. live' \in SUBSET (1 .. Len(next))
        BY <2>1, <3>1 DEF SingleTypes
      <4>2. tail \in 0 .. Len(next) /\ value \in Seq(Nat) /\ Len(value) = Len(next) /\ pushed \in Nat
        BY <2>1 DEF SingleTypes
      <4> QED
        BY <1>1, <3>1, <3>3, <3>4, <3>5, <4>1, <4>2 DEF SingleTypes
    <3>7. ~NothingPopped'
      <4> SUFFICES ASSUME NothingPopped' PROVE FALSE
        OBVIOUS
      <4>1. \A i \in 1 .. Len(popped) + 1 : popped'[i] = 0
        BY <3>4 DEF NothingPopped
      <4>2. NothingPopped
        BY <4>1, <3>4 DEF NothingPopped
      <4>3. value[head] = 0
        BY <4>1, <3>4
      <4> QED
        BY <4>2, <4>3, <2>1, <2>3 DEF NoneYet, OneFirst
    <3> QED
      BY <1>1, <1>3, <3>6, <3>7 DEF SingleInv
  <2> QED
    BY <2>2, <2>3
<1> QED
  BY <1>2, <1>3

(* A dangling tail comes after a pop, without the odd vertex.               *)
LEMMA NoneDangle == SingleInv => Single!NoneDangling
<1> SUFFICES ASSUME SingleInv, dangling PROVE ~dummy /\ \E i \in DOMAIN popped : popped[i] # 0
  BY DEF Single!NoneDangling
<1>1. ~dummy /\ popped \in Seq(Nat) /\ ~NothingPopped
  BY DEF SingleInv, SingleTypes
<1> QED
  BY <1>1 DEF NothingPopped
-----------------------------------------------------------------------------
(* The list.  t is the sequence of its nodes, the head first; whoever goes  *)
(* along it owns the mutex of the node it stands on, so that nobody else    *)
(* unlinks that node or the one behind it.                                  *)
Stages == {"idle", "read next", "lock next", "unlink", "unlock", "advance", "delete"}
Standing == {"read next", "lock next", "unlink", "unlock", "delete"}
Met(t) == {t[i] : i \in 1 .. Len(t)}
Chained(f, t) ==
    /\ t \in Seq(DOMAIN f) /\ Len(t) >= 1 /\ t[1] = List!HeadNode
    /\ \A i, j \in 1 .. Len(t) : t[i] = t[j] => i = j
    /\ \A i \in 1 .. Len(t) : f[t[i]] = IF i < Len(t) THEN t[i + 1] ELSE List!Nil
    /\ \A n \in DOMAIN f : n \notin Met(t) => f[n] = List!Nil

ListTypes ==
    /\ todo \in [Client -> Seq(ListRequests)]
    /\ pc \in [Client -> Stages]
    /\ List!HeadNode \in DOMAIN next /\ List!Nil \notin DOMAIN next
    /\ next \in [DOMAIN next -> DOMAIN next \cup {List!Nil}]
    /\ list_owner \in [DOMAIN next -> Client \cup {Nobody}]
    /\ allocated \in SUBSET DOMAIN next
    /\ current \in [Client -> DOMAIN next]
    /\ ahead \in [Client -> DOMAIN next \cup {List!Nil}]

(* What is still to be pushed is not allocated, and pushed once.            *)
FreshInv ==
    \A c, d \in Client : \A i \in 1 .. Len(todo[c]), j \in 1 .. Len(todo[d]) :
        /\ todo[c][i].call = "push_front" =>
              todo[c][i].element \in DOMAIN next \ {List!HeadNode} /\ todo[c][i].element \notin allocated
        /\ todo[c][i].call = "push_front" /\ todo[d][j].call = "push_front"
              /\ todo[c][i].element = todo[d][j].element => c = d /\ i = j

(* Where a traversal is.                                                    *)
Travels(t, c) ==
    /\ pc[c] # "idle" => todo[c] # <<>> /\ List!Calls(c).call # "push_front"
    /\ pc[c] \in Standing => current[c] \in Met(t) /\ list_owner[current[c]] = c
    /\ pc[c] \in {"lock next", "unlink", "unlock"} => ahead[c] = next[current[c]] /\ ahead[c] # List!Nil
    /\ pc[c] \in {"unlink", "unlock", "advance"} => list_owner[ahead[c]] = c
    /\ pc[c] = "advance" => ahead[c] \in Met(t)
TravelInv(t) == \A c \in Client : Travels(t, c)

(* What is allocated is in the list, or about to be deleted by one client.  *)
Doomed == {ahead[c] : c \in {d \in Client : pc[d] = "delete"}}
HeapInv(t) ==
    /\ allocated = Met(t) \cup Doomed
    /\ Met(t) \cap Doomed = {}
    /\ \A c, d \in Client : pc[c] = "delete" /\ pc[d] = "delete" /\ ahead[c] = ahead[d] => c = d

HandOverHand(t) == ListTypes /\ FreshInv /\ Chained(next, t) /\ TravelInv(t) /\ HeapInv(t)

(* The list is empty at first.                                              *)
LEMMA ListInit == ContainersInit /\ which = "list" => HandOverHand(<<List!HeadNode>>)
<1> SUFFICES ASSUME ContainersInit, which = "list" PROVE HandOverHand(<<List!HeadNode>>)
  OBVIOUS
<1> DEFINE nodes == {List!HeadNode} \cup {x.element : x \in UNION {List!Pushed(c) : c \in Client}}
<1>1. /\ todo \in ListCalls /\ pc = [c \in Client |-> "idle"]
      /\ next = [n \in nodes |-> List!Nil] /\ list_owner = [n \in nodes |-> Nobody]
      /\ allocated = {List!HeadNode}
      /\ current = [c \in Client |-> List!HeadNode] /\ ahead = [c \in Client |-> List!Nil]
  BY DEF ContainersInit, List!Init
<1>2. ASSUME NEW c \in Client, NEW x \in List!Pushed(c)
      PROVE  \E i \in DOMAIN todo[c] : x = todo[c][i] /\ todo[c][i].call = "push_front"
  BY DEF List!Pushed, List!ToSet
<1>3. ASSUME NEW c \in Client, NEW i \in DOMAIN todo[c], todo[c][i].call = "push_front"
      PROVE  todo[c][i].element \in nodes
  <2>1. todo[c][i] \in List!Pushed(c)
    BY <1>3 DEF List!Pushed, List!ToSet
  <2> QED
    BY <2>1
<1>4. List!Nil \notin nodes
  <2>1. List!Nil # List!HeadNode
    BY DEF List!Nil, List!HeadNode
  <2>2. ASSUME NEW c \in Client, NEW x \in List!Pushed(c) PROVE x.element # List!Nil
    BY <1>1, <1>2, ListAssumption
  <2> QED
    BY <2>1, <2>2
<1>5. DOMAIN next = nodes /\ List!HeadNode \in nodes
  BY <1>1
<1> HIDE DEF nodes
<1>6. todo \in [Client -> Seq(ListRequests)]
  BY <1>1, ListAssumption
<1>7. ListTypes
  BY <1>1, <1>4, <1>5, <1>6 DEF ListTypes, Stages
<1>8. FreshInv
  <2>1. \A c \in Client : DOMAIN todo[c] = 1 .. Len(todo[c])
    BY <1>6
  <2>2. ASSUME NEW c \in Client, NEW i \in 1 .. Len(todo[c]), todo[c][i].call = "push_front"
        PROVE  todo[c][i].element \in DOMAIN next \ {List!HeadNode} /\ todo[c][i].element \notin allocated
    <3>1. todo[c][i].element \in nodes
      BY <2>1, <2>2, <1>3
    <3>2. todo[c][i].element # List!HeadNode
      BY <1>1, <2>1, <2>2, ListAssumption
    <3> QED
      BY <3>1, <3>2, <1>1, <1>5
  <2>3. ASSUME NEW c \in Client, NEW d \in Client, NEW i \in 1 .. Len(todo[c]), NEW j \in 1 .. Len(todo[d]),
               todo[c][i].call = "push_front", todo[d][j].call = "push_front",
               todo[c][i].element = todo[d][j].element
        PROVE  c = d /\ i = j
    BY <1>1, <2>1, <2>3, ListAssumption
  <2> QED
    BY <2>2, <2>3 DEF FreshInv
<1>9. Met(<<List!HeadNode>>) = {List!HeadNode}
  BY DEF Met
<1>10. Chained(next, <<List!HeadNode>>)
  <2>1. <<List!HeadNode>> \in Seq(DOMAIN next)
    BY <1>5
  <2>2. Len(<<List!HeadNode>>) = 1 /\ <<List!HeadNode>>[1] = List!HeadNode
    OBVIOUS
  <2>3. \A n \in DOMAIN next : next[n] = List!Nil
    BY <1>1, <1>5
  <2>4. PICK t : t = <<List!HeadNode>>
    OBVIOUS
  <2> QED
    BY <2>1, <2>2, <2>3, <2>4, <1>5 DEF Chained
<1>11. TravelInv(<<List!HeadNode>>)
  BY <1>1 DEF TravelInv, Travels, Standing
<1>12. HeapInv(<<List!HeadNode>>)
  <2>1. Doomed = {}
    BY <1>1 DEF Doomed
  <2> QED
    BY <2>1, <1>1, <1>9 DEF HeapInv
<1> QED
  BY <1>7, <1>8, <1>10, <1>11, <1>12 DEF HandOverHand

(* What push_front() and an erased node make of the chain.                  *)
IsFunction(f) == f = [n \in DOMAIN f |-> f[n]]
WithFront(f, x) == [f EXCEPT ![List!HeadNode] = x, ![x] = f[List!HeadNode]]
Without(f, a, b) == [f EXCEPT ![a] = f[b], ![b] = List!Nil]

(* A sequence given by its elements.                                        *)
LEMMA Listed ==
    ASSUME NEW S, NEW n \in Nat, NEW f, DOMAIN f = 1 .. n, f = [i \in DOMAIN f |-> f[i]],
           \A i \in 1 .. n : f[i] \in S
    PROVE  f \in Seq(S) /\ Len(f) = n
<1>1. f \in [1 .. n -> S]
  OBVIOUS
<1> QED
  BY <1>1

(* A node in front of all others.                                           *)
LEMMA PushedFront ==
    ASSUME NEW f, NEW t, Chained(f, t), NEW x \in DOMAIN f \ Met(t), List!HeadNode \in DOMAIN f,
           NEW g, g = WithFront(f, x), IsFunction(f)
    PROVE  \E u : Chained(g, u) /\ Met(u) = Met(t) \cup {x}
<1> DEFINE N == DOMAIN f
           m == Len(t)
           h == List!HeadNode
<1>1. /\ t \in Seq(N) /\ m \in Nat /\ m >= 1 /\ t[1] = h
      /\ \A i, j \in 1 .. m : t[i] = t[j] => i = j
      /\ \A i \in 1 .. m : f[t[i]] = IF i < m THEN t[i + 1] ELSE List!Nil
      /\ \A n \in N : n \notin Met(t) => f[n] = List!Nil
  BY DEF Chained
<1>2. \A i \in 1 .. m : t[i] \in Met(t) /\ t[i] \in N
  BY <1>1 DEF Met
<1> HIDE DEF N, m, h
<1>3. h \in Met(t) /\ x # h /\ x \in N /\ h \in N
  <2>1. 1 \in 1 .. m
    BY <1>1
  <2> QED
    BY <2>1, <1>1, <1>2 DEF N, h
<1>4. DOMAIN g = N /\ g[h] = x /\ g[x] = f[h] /\ \A n \in N \ {x, h} : g[n] = f[n]
  BY <1>3 DEF N, h, WithFront, IsFunction
<1>5. PICK u : u = [i \in 1 .. m + 1 |-> IF i = 1 THEN h ELSE IF i = 2 THEN x ELSE t[i - 1]]
  OBVIOUS
<1>6. \A i \in 1 .. m + 1 : i # 1 /\ i # 2 => i - 1 \in 2 .. m /\ i - 1 \in 1 .. m
  BY <1>1
<1>7. /\ u \in Seq(N) /\ Len(u) = m + 1
      /\ u[1] = h /\ u[2] = x /\ \A i \in 1 .. m + 1 : i # 1 /\ i # 2 => u[i] = t[i - 1]
  <2>1. /\ DOMAIN u = 1 .. m + 1 /\ u = [i \in DOMAIN u |-> u[i]]
        /\ \A i \in 1 .. m + 1 : u[i] = IF i = 1 THEN h ELSE IF i = 2 THEN x ELSE t[i - 1]
    BY <1>5
  <2>2. 1 \in 1 .. m + 1 /\ 2 \in 1 .. m + 1 /\ m + 1 \in Nat
    BY <1>1
  <2>3. u[1] = h /\ u[2] = x /\ \A i \in 1 .. m + 1 : i # 1 /\ i # 2 => u[i] = t[i - 1]
    BY <2>1, <2>2
  <2>4. \A i \in 1 .. m + 1 : u[i] \in N
    BY <2>3, <1>2, <1>3, <1>6
  <2> QED
    BY <2>1, <2>2, <2>3, <2>4, Listed
<1>8. \A k \in 2 .. m : t[k] # h /\ t[k] # x
  <2>1. \A k \in 2 .. m : k \in 1 .. m /\ k # 1 /\ 1 \in 1 .. m
    BY <1>1
  <2> QED
    BY <2>1, <1>1, <1>2
<1>9. Met(u) = Met(t) \cup {x}
  <2>1. ASSUME NEW i \in 1 .. m + 1 PROVE u[i] \in Met(t) \cup {x}
    BY <1>2, <1>3, <1>6, <1>7
  <2>2. ASSUME NEW i \in 1 .. m PROVE \E j \in 1 .. m + 1 : t[i] = u[j]
    <3>1. CASE i = 1
      <4>1. 1 \in 1 .. m + 1
        BY <1>1
      <4> QED
        BY <3>1, <4>1, <1>1, <1>7
    <3>2. CASE i # 1
      <4>1. i + 1 \in 1 .. m + 1 /\ i + 1 # 1 /\ i + 1 # 2 /\ (i + 1) - 1 = i
        BY <3>2, <1>1
      <4>2. u[i + 1] = t[i]
        BY <4>1, <1>7
      <4> QED
        BY <4>1, <4>2
    <3> QED
      BY <3>1, <3>2
  <2>3. 2 \in 1 .. m + 1 /\ u[2] = x
    BY <1>1, <1>7
  <2>4. Met(t) = {t[i] : i \in 1 .. m} /\ Met(u) = {u[i] : i \in 1 .. m + 1}
    BY <1>7 DEF Met, m
  <2> QED
    BY <2>1, <2>2, <2>3, <2>4
<1>10. ASSUME NEW i \in 1 .. m + 1, NEW j \in 1 .. m + 1, u[i] = u[j] PROVE i = j
  <2>1. \A k \in 1 .. m + 1 : k = 1 \/ k = 2 \/ (k # 1 /\ k # 2 /\ k - 1 \in 2 .. m /\ u[k] = t[k - 1])
    BY <1>6, <1>7
  <2>2. 1 \in 1 .. m + 1 /\ 2 \in 1 .. m + 1 /\ u[1] = h /\ u[2] = x
    BY <1>1, <1>7
  <2>3. CASE i \in {1, 2} \/ j \in {1, 2}
    BY <1>3, <1>8, <1>10, <2>1, <2>2, <2>3
  <2>4. CASE i \notin {1, 2} /\ j \notin {1, 2}
    <3>1. u[i] = t[i - 1] /\ u[j] = t[j - 1] /\ i - 1 \in 1 .. m /\ j - 1 \in 1 .. m
      BY <2>4, <1>6, <1>7
    <3>2. i - 1 = j - 1
      BY <3>1, <1>1, <1>10
    <3> QED
      BY <3>2
  <2> QED
    BY <2>3, <2>4
<1>11. ASSUME NEW i \in 1 .. m + 1 PROVE g[u[i]] = IF i < m + 1 THEN u[i + 1] ELSE List!Nil
  <2>1. CASE i = 1
    <3>1. 1 < m + 1 /\ 2 \in 1 .. m + 1
      BY <1>1
    <3>2. u[1] = h /\ u[2] = x /\ 1 + 1 = 2
      BY <3>1, <1>1, <1>7
    <3> QED
      BY <2>1, <3>1, <3>2, <1>4
  <2>2. CASE i = 2
    <3>1. u[2] = x /\ g[x] = f[t[1]] /\ 1 \in 1 .. m
      BY <2>2, <1>1, <1>4, <1>7
    <3>2. f[t[1]] = IF 1 < m THEN t[2] ELSE List!Nil
      BY <3>1, <1>1
    <3>3. CASE 1 < m
      <4>1. 3 \in 1 .. m + 1 /\ u[3] = t[2] /\ 2 < m + 1 /\ 2 + 1 = 3
        BY <3>3, <1>1, <1>7
      <4> QED
        BY <2>2, <3>1, <3>2, <3>3, <4>1
    <3>4. CASE ~(1 < m)
      <4>1. ~(2 < m + 1)
        BY <3>4, <1>1
      <4> QED
        BY <2>2, <3>1, <3>2, <3>4, <4>1
    <3> QED
      BY <3>3, <3>4
  <2>3. CASE i # 1 /\ i # 2
    <3>1. i - 1 \in 2 .. m /\ i - 1 \in 1 .. m /\ u[i] = t[i - 1]
      BY <2>3, <1>6, <1>7
    <3>2. g[u[i]] = f[t[i - 1]]
      BY <3>1, <1>2, <1>4, <1>8
    <3>3. f[t[i - 1]] = IF i - 1 < m THEN t[(i - 1) + 1] ELSE List!Nil
      BY <3>1, <1>1
    <3>4. CASE i < m + 1
      <4>1. i - 1 < m /\ (i - 1) + 1 = i /\ i + 1 \in 1 .. m + 1 /\ i + 1 # 1 /\ i + 1 # 2 /\ (i + 1) - 1 = i
        BY <3>4, <2>3, <1>1
      <4>2. u[i + 1] = t[i]
        BY <4>1, <1>7
      <4> QED
        BY <3>2, <3>3, <3>4, <4>1, <4>2
    <3>5. CASE ~(i < m + 1)
      <4>1. ~(i - 1 < m)
        BY <3>5, <1>1
      <4> QED
        BY <3>2, <3>3, <3>5, <4>1
    <3> QED
      BY <3>4, <3>5
  <2> QED
    BY <2>1, <2>2, <2>3
<1>12. \A n \in N : n \notin Met(u) => g[n] = List!Nil
  BY <1>1, <1>3, <1>4, <1>9
<1>13. Len(u) >= 1 /\ u[1] = h
  BY <1>1, <1>7
<1>14. Chained(g, u)
  <2>1. \A i, j \in 1 .. Len(u) : u[i] = u[j] => i = j
    BY <1>7, <1>10
  <2>2. ASSUME NEW i \in 1 .. Len(u) PROVE g[u[i]] = IF i < Len(u) THEN u[i + 1] ELSE List!Nil
    <3>1. i \in 1 .. m + 1 /\ Len(u) = m + 1
      BY <1>7
    <3>2. g[u[i]] = IF i < m + 1 THEN u[i + 1] ELSE List!Nil
      BY <3>1, <1>11
    <3> QED
      BY <3>1, <3>2
  <2> QED
    BY <2>1, <2>2, <1>4, <1>7, <1>12, <1>13 DEF Chained, h
<1> QED
  BY <1>9, <1>14

(* A node less.                                                             *)
LEMMA Unlinked ==
    ASSUME NEW f, NEW t, Chained(f, t), NEW k \in Nat, k >= 1, k < Len(t),
           NEW g, g = Without(f, t[k], t[k + 1]), IsFunction(f)
    PROVE  \E u : Chained(g, u) /\ Met(u) = Met(t) \ {t[k + 1]}
<1> DEFINE N == DOMAIN f
           m == Len(t)
<1>1. /\ t \in Seq(N) /\ m \in Nat /\ m >= 1 /\ t[1] = List!HeadNode
      /\ \A i, j \in 1 .. m : t[i] = t[j] => i = j
      /\ \A i \in 1 .. m : f[t[i]] = IF i < m THEN t[i + 1] ELSE List!Nil
      /\ \A n \in N : n \notin Met(t) => f[n] = List!Nil
  BY DEF Chained
<1>2. \A i \in 1 .. m : t[i] \in Met(t) /\ t[i] \in N
  BY <1>1 DEF Met
<1>3. k < m /\ k \in 1 .. m /\ k + 1 \in 1 .. m /\ k # k + 1 /\ m - 1 \in Nat
  BY <1>1
<1> HIDE DEF N, m
<1>4. PICK a : a = t[k]
  OBVIOUS
<1>5. PICK b : b = t[k + 1]
  OBVIOUS
<1>6. a \in N /\ b \in N /\ a # b
  BY <1>1, <1>2, <1>3, <1>4, <1>5
<1>7. DOMAIN g = N /\ g[a] = f[b] /\ g[b] = List!Nil /\ \A n \in N \ {a, b} : g[n] = f[n]
  BY <1>4, <1>5, <1>6 DEF N, Without, IsFunction
<1>8. PICK u : u = [i \in 1 .. m - 1 |-> IF i <= k THEN t[i] ELSE t[i + 1]]
  OBVIOUS
<1>9. \A i \in 1 .. m - 1 : i \in 1 .. m /\ i + 1 \in 1 .. m /\ i \in Nat
  BY <1>1
<1>10. /\ u \in Seq(N) /\ Len(u) = m - 1
       /\ \A i \in 1 .. m - 1 : u[i] = IF i <= k THEN t[i] ELSE t[i + 1]
  <2>1. /\ DOMAIN u = 1 .. m - 1 /\ u = [i \in DOMAIN u |-> u[i]]
        /\ \A i \in 1 .. m - 1 : u[i] = IF i <= k THEN t[i] ELSE t[i + 1]
    BY <1>8
  <2>2. \A i \in 1 .. m - 1 : u[i] \in N
    BY <2>1, <1>2, <1>9
  <2> QED
    BY <2>1, <2>2, <1>3, Listed
<1>11. \A i \in 1 .. m : (i # k => t[i] # a) /\ (i # k + 1 => t[i] # b)
  BY <1>1, <1>3, <1>4, <1>5
<1>12. Met(u) = Met(t) \ {b}
  <2>1. ASSUME NEW i \in 1 .. m - 1 PROVE u[i] \in Met(t) /\ u[i] # b
    <3>1. CASE i <= k
      <4>1. i # k + 1
        BY <3>1, <1>9
      <4> QED
        BY <3>1, <4>1, <1>2, <1>9, <1>10, <1>11
    <3>2. CASE ~(i <= k)
      <4>1. i + 1 # k + 1
        BY <3>2, <1>9
      <4> QED
        BY <3>2, <4>1, <1>2, <1>9, <1>10, <1>11
    <3> QED
      BY <3>1, <3>2
  <2>2. ASSUME NEW i \in 1 .. m, t[i] # b PROVE \E j \in 1 .. m - 1 : t[i] = u[j]
    <3>1. i # k + 1
      BY <2>2, <1>5
    <3>2. CASE i <= k
      <4>1. i \in 1 .. m - 1 /\ u[i] = t[i]
        BY <3>2, <1>1, <1>3, <1>10
      <4> QED
        BY <4>1
    <3>3. CASE ~(i <= k)
      <4>1. i - 1 \in 1 .. m - 1 /\ ~(i - 1 <= k) /\ (i - 1) + 1 = i
        BY <3>1, <3>3, <1>1
      <4>2. u[i - 1] = t[i]
        BY <4>1, <1>10
      <4> QED
        BY <4>1, <4>2
    <3> QED
      BY <3>2, <3>3
  <2>3. Met(t) = {t[i] : i \in 1 .. m} /\ Met(u) = {u[i] : i \in 1 .. m - 1}
    BY <1>10 DEF Met, m
  <2> QED
    BY <2>1, <2>2, <2>3
<1>13. ASSUME NEW i \in 1 .. m - 1, NEW j \in 1 .. m - 1, u[i] = u[j] PROVE i = j
  <2>1. PICK p : p = IF i <= k THEN i ELSE i + 1
    OBVIOUS
  <2>2. PICK q : q = IF j <= k THEN j ELSE j + 1
    OBVIOUS
  <2>3. p \in 1 .. m /\ q \in 1 .. m /\ u[i] = t[p] /\ u[j] = t[q]
    BY <2>1, <2>2, <1>9, <1>10
  <2>4. p = q
    BY <2>3, <1>1, <1>13
  <2> QED
    BY <2>1, <2>2, <2>4, <1>9
<1>14. ASSUME NEW i \in 1 .. m - 1 PROVE g[u[i]] = IF i < m - 1 THEN u[i + 1] ELSE List!Nil
  <2>1. i \in 1 .. m /\ i + 1 \in 1 .. m /\ i \in Nat /\ (i < m - 1 => i + 1 \in 1 .. m - 1)
    BY <1>1, <1>9
  <2>2. CASE i < k
    <3>1. i <= k /\ i + 1 <= k /\ i # k /\ i # k + 1 /\ i < m - 1 /\ i < m
      BY <2>1, <2>2, <1>1, <1>3
    <3>2. u[i] = t[i] /\ u[i + 1] = t[i + 1]
      BY <2>1, <3>1, <1>10
    <3>3. g[t[i]] = f[t[i]]
      BY <2>1, <3>1, <1>2, <1>7, <1>11
    <3>4. f[t[i]] = t[i + 1]
      BY <2>1, <3>1, <1>1
    <3> QED
      BY <3>1, <3>2, <3>3, <3>4
  <2>3. CASE i = k
    <3>1. u[i] = a /\ g[a] = f[t[k + 1]]
      BY <2>1, <2>3, <1>4, <1>5, <1>7, <1>10
    <3>2. f[t[k + 1]] = IF k + 1 < m THEN t[(k + 1) + 1] ELSE List!Nil
      BY <1>1, <1>3
    <3>3. CASE k + 1 < m
      <4>1. i < m - 1 /\ ~(i + 1 <= k) /\ (k + 1) + 1 = (i + 1) + 1
        BY <2>3, <3>3, <1>1
      <4>2. u[i + 1] = t[(i + 1) + 1]
        BY <4>1, <2>1, <1>10
      <4> QED
        BY <3>1, <3>2, <3>3, <4>1, <4>2
    <3>4. CASE ~(k + 1 < m)
      <4>1. ~(i < m - 1)
        BY <2>3, <3>4, <1>1
      <4> QED
        BY <3>1, <3>2, <3>4, <4>1
    <3> QED
      BY <3>3, <3>4
  <2>4. CASE i > k
    <3>1. ~(i <= k) /\ i + 1 # k /\ i + 1 # k + 1 /\ ~(i + 1 <= k)
      BY <2>1, <2>4
    <3>2. u[i] = t[i + 1] /\ g[t[i + 1]] = f[t[i + 1]]
      BY <2>1, <3>1, <1>2, <1>7, <1>10, <1>11
    <3>3. f[t[i + 1]] = IF i + 1 < m THEN t[(i + 1) + 1] ELSE List!Nil
      BY <2>1, <1>1
    <3>4. CASE i < m - 1
      <4>1. i + 1 < m
        BY <3>4, <2>1, <1>1
      <4>2. u[i + 1] = t[(i + 1) + 1]
        BY <3>1, <3>4, <2>1, <1>10
      <4> QED
        BY <3>2, <3>3, <3>4, <4>1, <4>2
    <3>5. CASE ~(i < m - 1)
      <4>1. ~(i + 1 < m)
        BY <3>5, <2>1, <1>1
      <4> QED
        BY <3>2, <3>3, <3>5, <4>1
    <3> QED
      BY <3>4, <3>5
  <2> QED
    BY <2>1, <2>2, <2>3, <2>4
<1>15. \A n \in N : n \notin Met(u) => g[n] = List!Nil
  <2>1. a \in Met(u)
    <3>1. a \in Met(t)
      BY <1>2, <1>3, <1>4
    <3> QED
      BY <3>1, <1>6, <1>12
  <2> QED
    BY <2>1, <1>1, <1>7, <1>12
<1>16. Len(u) >= 1 /\ u[1] = List!HeadNode
  <2>1. 1 \in 1 .. m - 1 /\ 1 <= k /\ m - 1 >= 1
    BY <1>1, <1>3
  <2> QED
    BY <2>1, <1>1, <1>10
<1>17. Chained(g, u)
  <2>1. \A i, j \in 1 .. Len(u) : u[i] = u[j] => i = j
    BY <1>10, <1>13
  <2>2. ASSUME NEW i \in 1 .. Len(u) PROVE g[u[i]] = IF i < Len(u) THEN u[i + 1] ELSE List!Nil
    <3>1. i \in 1 .. m - 1 /\ Len(u) = m - 1
      BY <1>10
    <3>2. g[u[i]] = IF i < m - 1 THEN u[i + 1] ELSE List!Nil
      BY <3>1, <1>14
    <3> QED
      BY <3>1, <3>2
  <2> QED
    BY <2>1, <2>2, <1>7, <1>10, <1>15, <1>16 DEF Chained
<1> QED
  BY <1>5, <1>12, <1>17

(* A node along the list that is not the last.                              *)
LEMMA NextOf ==
    ASSUME NEW t, ListTypes, Chained(next, t), NEW n \in Met(t), next[n] # List!Nil
    PROVE  \E k \in Nat : /\ k >= 1 /\ k < Len(t) /\ n = t[k] /\ next[n] = t[k + 1]
                          /\ next[n] # n /\ next[n] \in Met(t) /\ next[n] \in DOMAIN next
<1>1. PICK k \in 1 .. Len(t) : n = t[k]
  BY DEF Met
<1>2. Len(t) \in Nat
  BY DEF Chained
<1>3. next[n] = IF k < Len(t) THEN t[k + 1] ELSE List!Nil
  BY <1>1 DEF Chained
<1>4. k < Len(t)
  BY <1>3
<1>5. k + 1 \in 1 .. Len(t) /\ k + 1 # k /\ k \in Nat /\ k >= 1
  BY <1>2, <1>4
<1>6. t[k + 1] # t[k]
  BY <1>5 DEF Chained
<1>7. t[k + 1] \in Met(t) /\ t[k + 1] \in DOMAIN next
  BY <1>5 DEF Met, Chained
<1> QED
  BY <1>1, <1>3, <1>4, <1>5, <1>6, <1>7

(* The nodes met are nodes, the head among them.                            *)
LEMMA MetAre ==
    ASSUME NEW t, ListTypes, Chained(next, t)
    PROVE  Met(t) \subseteq DOMAIN next /\ List!HeadNode \in Met(t)
<1>1. t \in Seq(DOMAIN next) /\ Len(t) \in Nat /\ Len(t) >= 1 /\ t[1] = List!HeadNode
  BY DEF Chained
<1>2. 1 \in 1 .. Len(t)
  BY <1>1
<1>3. \A i \in 1 .. Len(t) : t[i] \in DOMAIN next
  BY <1>1
<1> QED
  BY <1>1, <1>2, <1>3 DEF Met

(* A traversal keeps its place while others leave what it owns alone.       *)
LEMMA TravelStays ==
    ASSUME NEW t, NEW u, ListTypes, Chained(next, t), NEW d \in Client, Travels(t, d),
           pc'[d] = pc[d], todo'[d] = todo[d], current'[d] = current[d], ahead'[d] = ahead[d],
           \A n \in Met(t) : list_owner[n] = d =>
               n \in Met(u) /\ list_owner'[n] = d /\ next'[n] = next[n]
    PROVE  Travels(u, d)'
<1>1. List!Calls(d)' = List!Calls(d)
  BY DEF List!Calls
<1>2. /\ pc[d] # "idle" => todo[d] # <<>> /\ List!Calls(d).call # "push_front"
      /\ pc[d] \in Standing => current[d] \in Met(t) /\ list_owner[current[d]] = d
      /\ pc[d] \in {"lock next", "unlink", "unlock"} => ahead[d] = next[current[d]] /\ ahead[d] # List!Nil
      /\ pc[d] \in {"unlink", "unlock", "advance"} => list_owner[ahead[d]] = d
      /\ pc[d] = "advance" => ahead[d] \in Met(t)
  BY DEF Travels
<1>3. pc[d] \in {"lock next", "unlink", "unlock"} => pc[d] \in Standing
  BY DEF Standing
<1>4. pc[d] \in {"unlink", "unlock", "advance"} => ahead[d] \in Met(t)
  <2>1. ASSUME pc[d] \in {"unlink", "unlock"} PROVE ahead[d] \in Met(t)
    <3>1. current[d] \in Met(t) /\ ahead[d] = next[current[d]] /\ next[current[d]] # List!Nil
      BY <1>2, <1>3, <2>1
    <3> QED
      BY <3>1, NextOf
  <2> QED
    BY <2>1, <1>2
<1>5. /\ pc'[d] \in Standing => current'[d] \in Met(u) /\ list_owner'[current'[d]] = d
      /\ pc'[d] \in {"lock next", "unlink", "unlock"} => ahead'[d] = next'[current'[d]] /\ ahead'[d] # List!Nil
  BY <1>2, <1>3
<1>6. /\ pc'[d] \in {"unlink", "unlock", "advance"} => list_owner'[ahead'[d]] = d
      /\ pc'[d] = "advance" => ahead'[d] \in Met(u)
  BY <1>2, <1>4
<1>7. pc'[d] # "idle" => todo'[d] # <<>> /\ List!Calls(d)'.call # "push_front"
  BY <1>1, <1>2
<1> QED
  BY <1>5, <1>6, <1>7 DEF Travels

(* A call that ends, or is made, moves the others forward by one.           *)
LEMMA Shifted ==
    ASSUME ListTypes, NEW c \in Client, todo[c] # <<>>, todo' = [todo EXCEPT ![c] = Tail(@)]
    PROVE  /\ todo' \in [Client -> Seq(ListRequests)]
           /\ \A d \in Client \ {c} : todo'[d] = todo[d]
           /\ \A i \in 1 .. Len(todo'[c]) : i + 1 \in 1 .. Len(todo[c]) /\ todo'[c][i] = todo[c][i + 1]
<1>1. PICK s \in Seq(ListRequests) : s = todo[c]
  BY DEF ListTypes
<1>2. PICK r : r = Tail(s)
  OBVIOUS
<1>3. r \in Seq(ListRequests) /\ Len(r) = Len(s) - 1 /\ \A i \in 1 .. Len(r) : r[i] = s[i + 1]
  BY <1>1, <1>2, HeadTailProperties
<1>4. todo'[c] = r /\ todo' \in [Client -> Seq(ListRequests)] /\ \A d \in Client \ {c} : todo'[d] = todo[d]
  BY <1>1, <1>2, <1>3 DEF ListTypes
<1>5. \A i \in 1 .. Len(r) : i + 1 \in 1 .. Len(s)
  <2>1. Len(s) \in Nat
    BY <1>1
  <2> QED
    BY <2>1, <1>3
<1> QED
  BY <1>1, <1>3, <1>4, <1>5

(* A step that allocates nothing that is still to be pushed.                *)
LEMMA FreshKeeps ==
    ASSUME ListTypes, FreshInv, NEW c \in Client,
           todo' = todo \/ (todo[c] # <<>> /\ todo' = [todo EXCEPT ![c] = Tail(@)]),
           DOMAIN next' = DOMAIN next,
           \A d \in Client : \A i \in 1 .. Len(todo'[d]) :
               todo'[d][i].call = "push_front" => todo'[d][i].element \notin allocated' \ allocated
    PROVE  FreshInv' /\ todo' \in [Client -> Seq(ListRequests)]
<1>1. /\ \A d \in Client : \A i \in 1 .. Len(todo[d]) : todo[d][i].call = "push_front" =>
             todo[d][i].element \in DOMAIN next \ {List!HeadNode} /\ todo[d][i].element \notin allocated
      /\ \A d, e \in Client : \A i \in 1 .. Len(todo[d]), j \in 1 .. Len(todo[e]) :
             todo[d][i].call = "push_front" /\ todo[e][j].call = "push_front"
                 /\ todo[d][i].element = todo[e][j].element => d = e /\ i = j
  BY DEF FreshInv
<1>2. CASE todo' = todo
  <2>1. \A d \in Client : \A i \in 1 .. Len(todo[d]) : todo[d][i].call = "push_front" =>
             todo[d][i].element \in DOMAIN next' \ {List!HeadNode} /\ todo[d][i].element \notin allocated'
    BY <1>1, <1>2
  <2>2. FreshInv'
    BY <1>1, <1>2, <2>1 DEF FreshInv
  <2> QED
    BY <1>2, <2>2 DEF ListTypes
<1>3. CASE todo[c] # <<>> /\ todo' = [todo EXCEPT ![c] = Tail(@)]
  <2>1. /\ todo' \in [Client -> Seq(ListRequests)]
        /\ \A d \in Client \ {c} : todo'[d] = todo[d]
        /\ \A i \in 1 .. Len(todo'[c]) : i + 1 \in 1 .. Len(todo[c]) /\ todo'[c][i] = todo[c][i + 1]
    BY <1>3, Shifted
  <2> DEFINE at(d, i) == IF d = c THEN i + 1 ELSE i
  <2>2. \A d \in Client : \A i \in 1 .. Len(todo'[d]) :
            at(d, i) \in 1 .. Len(todo[d]) /\ todo'[d][i] = todo[d][at(d, i)]
    BY <2>1
  <2>3. ASSUME NEW d \in Client, NEW e \in Client, NEW i \in 1 .. Len(todo'[d]), NEW j \in 1 .. Len(todo'[e]),
               at(d, i) = at(e, j), d = e
        PROVE  i = j
    <3>1. i \in Int /\ j \in Int
      OBVIOUS
    <3> QED
      BY <2>3, <3>1
  <2> HIDE DEF at
  <2>4. ASSUME NEW d \in Client, NEW i \in 1 .. Len(todo'[d]), todo'[d][i].call = "push_front"
        PROVE  /\ todo'[d][i].element \in DOMAIN next' \ {List!HeadNode}
               /\ todo'[d][i].element \notin allocated'
    <3>1. at(d, i) \in 1 .. Len(todo[d]) /\ todo'[d][i] = todo[d][at(d, i)]
      BY <2>2
    <3>2. todo'[d][i].element \in DOMAIN next \ {List!HeadNode} /\ todo'[d][i].element \notin allocated
      BY <3>1, <2>4, <1>1
    <3> QED
      BY <3>2, <2>4
  <2>5. ASSUME NEW d \in Client, NEW e \in Client, NEW i \in 1 .. Len(todo'[d]), NEW j \in 1 .. Len(todo'[e]),
               todo'[d][i].call = "push_front", todo'[e][j].call = "push_front",
               todo'[d][i].element = todo'[e][j].element
        PROVE  d = e /\ i = j
    <3>1. /\ at(d, i) \in 1 .. Len(todo[d]) /\ todo'[d][i] = todo[d][at(d, i)]
          /\ at(e, j) \in 1 .. Len(todo[e]) /\ todo'[e][j] = todo[e][at(e, j)]
      BY <2>2
    <3>2. d = e /\ at(d, i) = at(e, j)
      BY <3>1, <2>5, <1>1
    <3> QED
      BY <3>2, <2>3
  <2>6. FreshInv'
    BY <2>4, <2>5 DEF FreshInv
  <2> QED
    BY <2>1, <2>6
<1> QED
  BY <1>2, <1>3

(* Steps along the list, which leave it as it is.                           *)
LEMMA WalkKeeps ==
    ASSUME NEW t, HandOverHand(t), NEW c \in Client, NEW p \in Stages \ {"delete"},
           NEW k \in DOMAIN next, NEW a \in DOMAIN next \cup {List!Nil},
           UNCHANGED <<next, allocated>>, pc[c] # "delete", pc' = [pc EXCEPT ![c] = p],
           current' = [current EXCEPT ![c] = k], ahead' = [ahead EXCEPT ![c] = a],
           list_owner' \in [DOMAIN next -> Client \cup {Nobody}],
           todo' = todo \/ (todo[c] # <<>> /\ todo' = [todo EXCEPT ![c] = Tail(@)]),
           \A n \in DOMAIN next : \A d \in Client \ {c} : list_owner[n] = d => list_owner'[n] = d,
           Travels(t, c)'
    PROVE  HandOverHand(t)'
<1>1. ListTypes /\ FreshInv /\ Chained(next, t) /\ TravelInv(t) /\ HeapInv(t)
  BY DEF HandOverHand
<1>2. FreshInv' /\ todo' \in [Client -> Seq(ListRequests)]
  BY <1>1, FreshKeeps
<1>3. ListTypes'
  BY <1>1, <1>2 DEF ListTypes
<1>4. Chained(next, t)'
  BY <1>1
<1>5. \A d \in Client \ {c} : pc'[d] = pc[d] /\ todo'[d] = todo[d] /\ current'[d] = current[d] /\ ahead'[d] = ahead[d]
  BY <1>1 DEF ListTypes
<1>6. ASSUME NEW d \in Client PROVE Travels(t, d)'
  <2>1. CASE d = c
    BY <2>1
  <2>2. CASE d # c
    <3>1. \A n \in Met(t) : n \in DOMAIN next
      BY <1>1, MetAre
    <3>2. \A n \in Met(t) : list_owner[n] = d => n \in Met(t) /\ list_owner'[n] = d /\ next'[n] = next[n]
      BY <2>2, <3>1
    <3>3. Travels(t, d)
      BY <1>1 DEF TravelInv
    <3> QED
      BY <1>1, <1>5, <2>2, <3>2, <3>3, TravelStays
  <2> QED
    BY <2>1, <2>2
<1>7. pc'[c] # "delete"
  BY <1>1 DEF ListTypes
<1>8. HeapInv(t)'
  <2>1. \A d \in Client : pc'[d] = "delete" <=> pc[d] = "delete"
    BY <1>5, <1>7
  <2>2. \A d \in Client : pc[d] = "delete" => ahead'[d] = ahead[d]
    BY <1>5
  <2>3. Doomed' = Doomed
    BY <2>1, <2>2 DEF Doomed
  <2> QED
    BY <1>1, <2>1, <2>2, <2>3 DEF HeapInv
<1> QED
  BY <1>2, <1>3, <1>4, <1>6, <1>8 DEF HandOverHand, TravelInv

(* To lock a node and to go on from it, hand over hand.                     *)
LEMMA WalkSteps ==
    ASSUME NEW t, HandOverHand(t), NEW c \in Client,
           \/ List!LockHead(c) \/ List!ReadNext(c) \/ List!AtEnd(c)
           \/ List!LockNext(c) \/ List!Unlock(c) \/ List!Advance(c)
    PROVE  HandOverHand(t)'
<1>1. ListTypes /\ Chained(next, t) /\ Travels(t, c)
  BY DEF HandOverHand, TravelInv
<1>2. /\ current[c] \in DOMAIN next /\ ahead[c] \in DOMAIN next \cup {List!Nil} /\ List!HeadNode \in DOMAIN next
      /\ List!HeadNode \in Met(t) /\ c # Nobody /\ Nobody \notin Client
      /\ current = [current EXCEPT ![c] = current[c]] /\ ahead = [ahead EXCEPT ![c] = ahead[c]]
  BY <1>1, MetAre, ListAssumption DEF ListTypes
<1>3. CASE List!LockHead(c)
  <2>1. /\ todo[c] # <<>> /\ List!Calls(c).call # "push_front" /\ list_owner[List!HeadNode] = Nobody
        /\ pc[c] = "idle" /\ pc' = [pc EXCEPT ![c] = "read next"]
        /\ list_owner' = [list_owner EXCEPT ![List!HeadNode] = c]
        /\ current' = [current EXCEPT ![c] = List!HeadNode]
        /\ UNCHANGED <<todo, next, allocated, ahead>>
    BY <1>3 DEF List!LockHead, List!Goto
  <2>2. pc'[c] = "read next" /\ current'[c] = List!HeadNode /\ list_owner'[List!HeadNode] = c
    BY <2>1, <1>1 DEF ListTypes
  <2>3. List!Calls(c)' = List!Calls(c)
    BY <2>1 DEF List!Calls
  <2>4. Travels(t, c)'
    BY <2>1, <2>2, <2>3, <1>2 DEF Travels
  <2>5. /\ list_owner' \in [DOMAIN next -> Client \cup {Nobody}]
        /\ \A n \in DOMAIN next : \A d \in Client \ {c} : list_owner[n] = d => list_owner'[n] = d
    BY <2>1, <1>1, <1>2 DEF ListTypes
  <2>6. "read next" \in Stages \ {"delete"} /\ pc[c] # "delete"
    BY <2>1 DEF Stages
  <2>7. ahead' = [ahead EXCEPT ![c] = ahead[c]]
    BY <2>1, <1>2
  <2> QED
    BY <2>1, <2>4, <2>5, <2>6, <2>7, <1>2, WalkKeeps
<1>4. CASE List!ReadNext(c)
  <2>1. /\ next[current[c]] # List!Nil /\ pc[c] = "read next" /\ pc' = [pc EXCEPT ![c] = "lock next"]
        /\ ahead' = [ahead EXCEPT ![c] = next[current[c]]]
        /\ UNCHANGED <<todo, next, list_owner, allocated, current>>
    BY <1>4 DEF List!ReadNext, List!Goto
  <2>2. pc'[c] = "lock next" /\ ahead'[c] = next[current[c]]
    BY <2>1, <1>1 DEF ListTypes
  <2>3. List!Calls(c)' = List!Calls(c)
    BY <2>1 DEF List!Calls
  <2>4. Travels(t, c)'
    BY <2>1, <2>2, <2>3, <1>1 DEF Travels, Standing
  <2>5. /\ list_owner' \in [DOMAIN next -> Client \cup {Nobody}]
        /\ \A n \in DOMAIN next : \A d \in Client \ {c} : list_owner[n] = d => list_owner'[n] = d
    BY <2>1, <1>1 DEF ListTypes
  <2>6. "lock next" \in Stages \ {"delete"} /\ pc[c] # "delete"
    BY <2>1 DEF Stages
  <2>7. next[current[c]] \in DOMAIN next \cup {List!Nil} /\ current' = [current EXCEPT ![c] = current[c]]
    BY <2>1, <1>1, <1>2 DEF ListTypes
  <2> QED
    BY <2>1, <2>4, <2>5, <2>6, <2>7, <1>2, WalkKeeps
<1>5. CASE List!AtEnd(c)
  <2>1. /\ pc[c] = "read next" /\ pc' = [pc EXCEPT ![c] = "idle"]
        /\ list_owner' = [list_owner EXCEPT ![current[c]] = Nobody]
        /\ todo' = [todo EXCEPT ![c] = Tail(@)]
        /\ UNCHANGED <<next, allocated, current, ahead>>
    BY <1>5 DEF List!AtEnd, List!Goto
  <2>2. pc'[c] = "idle"
    BY <2>1, <1>1 DEF ListTypes
  <2>3. Travels(t, c)'
    BY <2>2 DEF Travels, Standing
  <2>4. todo[c] # <<>> /\ list_owner[current[c]] = c
    BY <2>1, <1>1 DEF Travels, Standing
  <2>5. /\ list_owner' \in [DOMAIN next -> Client \cup {Nobody}]
        /\ \A n \in DOMAIN next : \A d \in Client \ {c} : list_owner[n] = d => list_owner'[n] = d
    BY <2>1, <2>4, <1>1, <1>2 DEF ListTypes
  <2>6. "idle" \in Stages \ {"delete"} /\ pc[c] # "delete"
    BY <2>1 DEF Stages
  <2>7. current' = [current EXCEPT ![c] = current[c]] /\ ahead' = [ahead EXCEPT ![c] = ahead[c]]
    BY <2>1, <1>2
  <2> QED
    BY <2>1, <2>3, <2>4, <2>5, <2>6, <2>7, <1>2, WalkKeeps
<1>6. CASE List!LockNext(c)
  <2>1. PICK p \in {"unlink", "unlock"} :
            /\ pc[c] = "lock next" /\ pc' = [pc EXCEPT ![c] = p] /\ list_owner[ahead[c]] = Nobody
            /\ list_owner' = [list_owner EXCEPT ![ahead[c]] = c]
            /\ UNCHANGED <<todo, next, allocated, current, ahead>>
    BY <1>6 DEF List!LockNext, List!Goto
  <2>2. /\ pc'[c] = p /\ current[c] \in Met(t) /\ list_owner[current[c]] = c
        /\ ahead[c] = next[current[c]] /\ ahead[c] # List!Nil /\ todo[c] # <<>> /\ List!Calls(c).call # "push_front"
    <3>1. pc[c] \in Standing /\ pc[c] \in {"lock next", "unlink", "unlock"} /\ pc[c] # "idle"
      BY <2>1 DEF Standing
    <3>2. pc'[c] = p
      BY <2>1, <1>1 DEF ListTypes
    <3> QED
      BY <3>1, <3>2, <1>1 DEF Travels
  <2>3. ahead[c] \in DOMAIN next /\ ahead[c] # current[c]
    BY <2>2, <1>1, NextOf
  <2>4. /\ list_owner' \in [DOMAIN next -> Client \cup {Nobody}]
        /\ \A n \in DOMAIN next : \A d \in Client \ {c} : list_owner[n] = d => list_owner'[n] = d
        /\ list_owner'[ahead[c]] = c /\ list_owner'[current[c]] = c
    BY <2>1, <2>2, <2>3, <1>1, <1>2 DEF ListTypes
  <2>5. List!Calls(c)' = List!Calls(c)
    BY <2>1 DEF List!Calls
  <2>6. p # "advance" /\ pc'[c] # "advance"
    BY <2>2
  <2>7. Travels(t, c)'
    BY <2>1, <2>2, <2>4, <2>5, <2>6 DEF Travels
  <2>8. p \in Stages \ {"delete"} /\ pc[c] # "delete"
    BY <2>1 DEF Stages
  <2>9. current' = [current EXCEPT ![c] = current[c]] /\ ahead' = [ahead EXCEPT ![c] = ahead[c]]
    BY <2>1, <1>2
  <2> QED
    BY <2>1, <2>4, <2>7, <2>8, <2>9, <1>2, WalkKeeps
<1>7. CASE List!Unlock(c)
  <2>1. /\ pc[c] = "unlock" /\ pc' = [pc EXCEPT ![c] = "advance"]
        /\ list_owner' = [list_owner EXCEPT ![current[c]] = Nobody]
        /\ UNCHANGED <<todo, next, allocated, current, ahead>>
    BY <1>7 DEF List!Unlock, List!Goto
  <2>2. /\ pc'[c] = "advance" /\ current[c] \in Met(t) /\ list_owner[current[c]] = c /\ list_owner[ahead[c]] = c
        /\ ahead[c] = next[current[c]] /\ ahead[c] # List!Nil /\ todo[c] # <<>> /\ List!Calls(c).call # "push_front"
    <3>1. /\ pc[c] \in Standing /\ pc[c] \in {"lock next", "unlink", "unlock"} /\ pc[c] # "idle"
          /\ pc[c] \in {"unlink", "unlock", "advance"}
      BY <2>1 DEF Standing
    <3>2. pc'[c] = "advance"
      BY <2>1, <1>1 DEF ListTypes
    <3> QED
      BY <3>1, <3>2, <1>1 DEF Travels
  <2>3. ahead[c] \in DOMAIN next /\ ahead[c] # current[c] /\ ahead[c] \in Met(t)
    BY <2>2, <1>1, NextOf
  <2>4. /\ list_owner' \in [DOMAIN next -> Client \cup {Nobody}]
        /\ \A n \in DOMAIN next : \A d \in Client \ {c} : list_owner[n] = d => list_owner'[n] = d
        /\ list_owner'[ahead[c]] = c
    BY <2>1, <2>2, <2>3, <1>1, <1>2 DEF ListTypes
  <2>5. List!Calls(c)' = List!Calls(c)
    BY <2>1 DEF List!Calls
  <2>6. Travels(t, c)'
    BY <2>1, <2>2, <2>3, <2>4, <2>5 DEF Travels, Standing
  <2>7. "advance" \in Stages \ {"delete"} /\ pc[c] # "delete"
    BY <2>1 DEF Stages
  <2>8. current' = [current EXCEPT ![c] = current[c]] /\ ahead' = [ahead EXCEPT ![c] = ahead[c]]
    BY <2>1, <1>2
  <2> QED
    BY <2>1, <2>4, <2>6, <2>7, <2>8, <1>2, WalkKeeps
<1>8. CASE List!Advance(c)
  <2>1. /\ pc[c] = "advance" /\ pc' = [pc EXCEPT ![c] = "read next"]
        /\ current' = [current EXCEPT ![c] = ahead[c]]
        /\ UNCHANGED <<todo, next, list_owner, allocated, ahead>>
    BY <1>8 DEF List!Advance, List!Goto
  <2>2. /\ pc'[c] = "read next" /\ current'[c] = ahead[c] /\ ahead[c] \in Met(t) /\ list_owner[ahead[c]] = c
        /\ todo[c] # <<>> /\ List!Calls(c).call # "push_front"
    <3>1. pc[c] # "idle" /\ pc[c] \in {"unlink", "unlock", "advance"}
      BY <2>1
    <3>2. pc'[c] = "read next" /\ current'[c] = ahead[c]
      BY <2>1, <1>1 DEF ListTypes
    <3> QED
      BY <3>1, <3>2, <2>1, <1>1 DEF Travels
  <2>3. List!Calls(c)' = List!Calls(c)
    BY <2>1 DEF List!Calls
  <2>4. Travels(t, c)'
    BY <2>1, <2>2, <2>3 DEF Travels
  <2>5. ahead[c] \in DOMAIN next
    BY <2>2, <1>1, MetAre
  <2>6. /\ list_owner' \in [DOMAIN next -> Client \cup {Nobody}]
        /\ \A n \in DOMAIN next : \A d \in Client \ {c} : list_owner[n] = d => list_owner'[n] = d
    BY <2>1, <1>1 DEF ListTypes
  <2>7. "read next" \in Stages \ {"delete"} /\ pc[c] # "delete"
    BY <2>1 DEF Stages
  <2>8. ahead' = [ahead EXCEPT ![c] = ahead[c]]
    BY <2>1, <1>2
  <2> QED
    BY <2>1, <2>4, <2>5, <2>6, <2>7, <2>8, <1>2, WalkKeeps
<1> QED
  BY <1>3, <1>4, <1>5, <1>6, <1>7, <1>8

(* The element to push is a node that nobody knows of.                      *)
LEMMA PushFrontKeeps ==
    ASSUME NEW t, HandOverHand(t), NEW c \in Client, List!PushFront(c)
    PROVE  \E u : HandOverHand(u)'
<1>1. ListTypes /\ FreshInv /\ Chained(next, t) /\ TravelInv(t) /\ HeapInv(t)
  BY DEF HandOverHand
<1>2. PICK x : x = todo[c][1].element
  OBVIOUS
<1>3. /\ todo[c] # <<>> /\ todo[c][1].call = "push_front" /\ list_owner[List!HeadNode] = Nobody
      /\ next' = [next EXCEPT ![List!HeadNode] = x, ![x] = next[List!HeadNode]]
      /\ allocated' = allocated \cup {x}
      /\ todo' = [todo EXCEPT ![c] = Tail(@)]
      /\ UNCHANGED <<pc, list_owner, current, ahead>>
  <2>1. todo[c] # <<>> /\ todo[c] \in Seq(ListRequests)
    BY <1>1 DEF List!PushFront, ListTypes
  <2>2. Head(todo[c]) = todo[c][1]
    BY <2>1
  <2> QED
    BY <1>2, <2>1, <2>2 DEF List!PushFront, List!Calls
<1>4. 1 \in 1 .. Len(todo[c])
  BY <1>1, <1>3 DEF ListTypes
<1>5. x \in DOMAIN next /\ x # List!HeadNode /\ x \notin allocated
  BY <1>1, <1>2, <1>3, <1>4 DEF FreshInv
<1>6. x \notin Met(t)
  BY <1>1, <1>5 DEF HeapInv
<1>7. PICK u : Chained(next', u) /\ Met(u) = Met(t) \cup {x}
  <2>1. IsFunction(next) /\ List!HeadNode \in DOMAIN next
    BY <1>1 DEF ListTypes, IsFunction
  <2>2. Chained(next, t) /\ x \in DOMAIN next \ Met(t)
    BY <1>1, <1>5, <1>6
  <2>3. next' = WithFront(next, x)
    BY <1>3 DEF WithFront
  <2>4. PICK g : g = next'
    OBVIOUS
  <2>5. g = WithFront(next, x)
    BY <2>3, <2>4
  <2>6. \E u : Chained(g, u) /\ Met(u) = Met(t) \cup {x}
    BY <2>1, <2>2, <2>5, PushedFront
  <2> QED
    BY <2>4, <2>6
<1>8. /\ DOMAIN next' = DOMAIN next /\ next' \in [DOMAIN next -> DOMAIN next \cup {List!Nil}]
      /\ \A n \in DOMAIN next \ {List!HeadNode, x} : next'[n] = next[n]
  BY <1>1, <1>3, <1>5 DEF ListTypes
<1>9. FreshInv' /\ todo' \in [Client -> Seq(ListRequests)]
  <2>1. /\ \A d \in Client \ {c} : todo'[d] = todo[d]
        /\ \A i \in 1 .. Len(todo'[c]) : i + 1 \in 1 .. Len(todo[c]) /\ todo'[c][i] = todo[c][i + 1]
    BY <1>1, <1>3, Shifted
  <2>2. ASSUME NEW d \in Client, NEW i \in 1 .. Len(todo'[d]), todo'[d][i].call = "push_front"
        PROVE  todo'[d][i].element # x
    <3>1. CASE d = c
      <4>1. i + 1 \in 1 .. Len(todo[c]) /\ todo'[c][i] = todo[c][i + 1] /\ i + 1 # 1
        BY <2>1, <2>2, <3>1
      <4> QED
        BY <4>1, <3>1, <2>2, <1>1, <1>2, <1>3, <1>4 DEF FreshInv
    <3>2. CASE d # c
      <4>1. todo'[d] = todo[d]
        BY <2>1, <3>2
      <4> QED
        BY <4>1, <3>2, <2>2, <1>1, <1>2, <1>3, <1>4 DEF FreshInv
    <3> QED
      BY <3>1, <3>2
  <2>3. allocated' \ allocated = {x}
    BY <1>3, <1>5
  <2>4. \A d \in Client : \A i \in 1 .. Len(todo'[d]) :
            todo'[d][i].call = "push_front" => todo'[d][i].element \notin allocated' \ allocated
    BY <2>2, <2>3
  <2>5. ListTypes /\ FreshInv /\ DOMAIN next' = DOMAIN next
    BY <1>1, <1>8
  <2>6. todo[c] # <<>> /\ todo' = [todo EXCEPT ![c] = Tail(@)]
    BY <1>3
  <2> QED
    BY <2>4, <2>5, <2>6, FreshKeeps
<1>10. ListTypes'
  BY <1>1, <1>3, <1>5, <1>8, <1>9 DEF ListTypes
<1>11. ASSUME NEW d \in Client PROVE Travels(u, d)'
  <2>1. Travels(t, d)
    BY <1>1 DEF TravelInv
  <2>2. CASE d # c
    <3>1. pc'[d] = pc[d] /\ todo'[d] = todo[d] /\ current'[d] = current[d] /\ ahead'[d] = ahead[d]
      BY <2>2, <1>1, <1>3 DEF ListTypes
    <3>2. ASSUME NEW n \in Met(t), list_owner[n] = d
          PROVE  n \in Met(u) /\ list_owner'[n] = d /\ next'[n] = next[n]
      <4>1. n # List!HeadNode
        BY <3>2, <1>3, ListAssumption
      <4>2. n # x /\ n \in DOMAIN next
        BY <1>1, <1>6, MetAre
      <4> QED
        BY <4>1, <4>2, <3>2, <1>3, <1>7, <1>8
    <3> QED
      BY <1>1, <2>1, <3>1, <3>2, TravelStays
  <2>3. CASE d = c
    <3>1. pc[c] = "idle" /\ pc'[c] = "idle"
      <4>1. List!Calls(c).call = "push_front"
        BY DEF List!PushFront
      <4> QED
        BY <4>1, <2>1, <2>3, <1>3 DEF Travels
    <3> QED
      BY <2>3, <3>1 DEF Travels, Standing
  <2> QED
    BY <2>2, <2>3
<1>12. HeapInv(u)'
  <2>1. Doomed' = Doomed
    BY <1>3 DEF Doomed
  <2>2. x \notin Doomed
    BY <1>1, <1>5 DEF HeapInv
  <2>3. \A d, e \in Client : pc'[d] = "delete" /\ pc'[e] = "delete" /\ ahead'[d] = ahead'[e] => d = e
    BY <1>1, <1>3 DEF HeapInv
  <2>4. allocated' = Met(u) \cup Doomed /\ Met(u) \cap Doomed = {}
    BY <1>1, <1>3, <1>7, <2>2 DEF HeapInv
  <2> QED
    BY <2>1, <2>3, <2>4 DEF HeapInv
<1> QED
  BY <1>7, <1>9, <1>10, <1>11, <1>12 DEF HandOverHand, TravelInv

(* A node is unlinked by who owns its mutex and that of the one before.     *)
LEMMA UnlinkKeeps ==
    ASSUME NEW t, HandOverHand(t), NEW c \in Client, List!Unlink(c)
    PROVE  \E u : HandOverHand(u)'
<1>1. ListTypes /\ FreshInv /\ Chained(next, t) /\ TravelInv(t) /\ HeapInv(t)
  BY DEF HandOverHand
<1>2. /\ pc[c] = "unlink" /\ pc' = [pc EXCEPT ![c] = "delete"]
      /\ next' = [next EXCEPT ![current[c]] = next[ahead[c]], ![ahead[c]] = List!Nil]
      /\ list_owner' = [list_owner EXCEPT ![ahead[c]] = Nobody]
      /\ UNCHANGED <<todo, allocated, current, ahead>>
  BY DEF List!Unlink, List!Goto
<1>3. PICK a : a = ahead[c]
  OBVIOUS
<1>4. PICK b : b = current[c]
  OBVIOUS
<1>5. /\ b \in Met(t) /\ list_owner[b] = c /\ list_owner[a] = c
      /\ a = next[b] /\ a # List!Nil /\ todo[c] # <<>> /\ List!Calls(c).call # "push_front"
  <2>1. /\ pc[c] \in Standing /\ pc[c] \in {"lock next", "unlink", "unlock"} /\ pc[c] # "idle"
        /\ pc[c] \in {"unlink", "unlock", "advance"}
    BY <1>2 DEF Standing
  <2>2. Travels(t, c)
    BY <1>1 DEF TravelInv
  <2> QED
    BY <2>1, <2>2, <1>3, <1>4 DEF Travels
<1>6. PICK k \in Nat : /\ k >= 1 /\ k < Len(t) /\ b = t[k] /\ a = t[k + 1]
                       /\ a # b /\ a \in Met(t) /\ a \in DOMAIN next
  BY <1>1, <1>5, NextOf
<1>7. PICK u : Chained(next', u) /\ Met(u) = Met(t) \ {a}
  <2>1. IsFunction(next)
    BY <1>1 DEF ListTypes, IsFunction
  <2>2. next' = Without(next, t[k], t[k + 1])
    BY <1>2, <1>3, <1>4, <1>6 DEF Without
  <2>3. PICK g : g = next'
    OBVIOUS
  <2>4. g = Without(next, t[k], t[k + 1])
    BY <2>2, <2>3
  <2>5. Chained(next, t) /\ k \in Nat /\ k >= 1 /\ k < Len(t)
    BY <1>1, <1>6
  <2>6. \E u : Chained(g, u) /\ Met(u) = Met(t) \ {t[k + 1]}
    BY <2>1, <2>4, <2>5, Unlinked
  <2> QED
    BY <2>3, <2>6, <1>6
<1>8. b \in DOMAIN next /\ c # Nobody
  BY <1>1, <1>5, MetAre, ListAssumption
<1>9. next[a] \in DOMAIN next \cup {List!Nil}
  BY <1>1, <1>6 DEF ListTypes
<1>10. /\ DOMAIN next' = DOMAIN next /\ next' \in [DOMAIN next -> DOMAIN next \cup {List!Nil}]
       /\ \A n \in DOMAIN next \ {a, b} : next'[n] = next[n]
       /\ list_owner' \in [DOMAIN next -> Client \cup {Nobody}]
       /\ \A n \in DOMAIN next \ {a} : list_owner'[n] = list_owner[n]
  BY <1>1, <1>2, <1>3, <1>4, <1>6, <1>8, <1>9 DEF ListTypes
<1>11. FreshInv' /\ todo' \in [Client -> Seq(ListRequests)]
  BY <1>1, <1>2, <1>10, FreshKeeps
<1>12. pc' \in [Client -> Stages] /\ pc'[c] = "delete" /\ \A d \in Client \ {c} : pc'[d] = pc[d]
  <2>1. "delete" \in Stages
    BY DEF Stages
  <2> QED
    BY <2>1, <1>1, <1>2 DEF ListTypes
<1>13. ListTypes'
  BY <1>1, <1>2, <1>10, <1>11, <1>12 DEF ListTypes
<1>14. ASSUME NEW d \in Client PROVE Travels(u, d)'
  <2>1. Travels(t, d)
    BY <1>1 DEF TravelInv
  <2>2. CASE d # c
    <3>1. pc'[d] = pc[d] /\ todo'[d] = todo[d] /\ current'[d] = current[d] /\ ahead'[d] = ahead[d]
      BY <2>2, <1>2, <1>12
    <3>2. ASSUME NEW n \in Met(t), list_owner[n] = d
          PROVE  n \in Met(u) /\ list_owner'[n] = d /\ next'[n] = next[n]
      <4>1. n # a /\ n # b
        BY <3>2, <2>2, <1>5
      <4>2. n \in DOMAIN next
        BY <1>1, MetAre
      <4> QED
        BY <4>1, <4>2, <3>2, <1>7, <1>10
    <3> QED
      BY <1>1, <2>1, <3>1, <3>2, TravelStays
  <2>3. CASE d = c
    <3>1. b \in Met(u) /\ list_owner'[b] = c
      BY <1>5, <1>6, <1>7, <1>8, <1>10
    <3>2. List!Calls(c)' = List!Calls(c)
      BY <1>2 DEF List!Calls
    <3>3. pc'[c] \notin {"lock next", "unlink", "unlock"} /\ pc'[c] \notin {"unlink", "unlock", "advance"}
      BY <1>12
    <3> QED
      BY <2>3, <3>1, <3>2, <3>3, <1>2, <1>4, <1>5, <1>12 DEF Travels
  <2> QED
    BY <2>2, <2>3
<1>15. HeapInv(u)'
  <2>1. \A d \in Client : pc'[d] = "delete" <=> pc[d] = "delete" \/ d = c
    BY <1>12
  <2>2. Doomed' = Doomed \cup {a}
    BY <2>1, <1>2, <1>3 DEF Doomed
  <2>3. a \notin Doomed
    BY <1>1, <1>6 DEF HeapInv
  <2>4. \A d \in Client : pc[d] = "delete" => ahead[d] \in Doomed
    BY DEF Doomed
  <2>5. \A d, e \in Client : pc'[d] = "delete" /\ pc'[e] = "delete" /\ ahead'[d] = ahead'[e] => d = e
    BY <1>1, <1>2, <1>3, <2>1, <2>3, <2>4 DEF HeapInv
  <2>6. allocated' = Met(u) \cup Doomed' /\ Met(u) \cap Doomed' = {}
    BY <1>1, <1>2, <1>6, <1>7, <2>2 DEF HeapInv
  <2> QED
    BY <2>5, <2>6 DEF HeapInv
<1> QED
  BY <1>7, <1>11, <1>13, <1>14, <1>15 DEF HandOverHand, TravelInv

(* Who unlinked a node deletes it.                                          *)
LEMMA DeleteKeeps ==
    ASSUME NEW t, HandOverHand(t), NEW c \in Client, List!Delete(c)
    PROVE  HandOverHand(t)'
<1>1. ListTypes /\ FreshInv /\ Chained(next, t) /\ TravelInv(t) /\ HeapInv(t)
  BY DEF HandOverHand
<1>2. /\ pc[c] = "delete" /\ pc' = [pc EXCEPT ![c] = "read next"] /\ allocated' = allocated \ {ahead[c]}
      /\ UNCHANGED <<todo, next, list_owner, current, ahead>>
  BY DEF List!Delete, List!Goto
<1>3. pc' \in [Client -> Stages] /\ pc'[c] = "read next" /\ \A d \in Client \ {c} : pc'[d] = pc[d]
  <2>1. "read next" \in Stages
    BY DEF Stages
  <2> QED
    BY <2>1, <1>1, <1>2 DEF ListTypes
<1>4. FreshInv' /\ todo' \in [Client -> Seq(ListRequests)]
  <2>1. allocated' \ allocated = {}
    BY <1>2
  <2> QED
    BY <2>1, <1>1, <1>2, FreshKeeps
<1>5. ListTypes'
  BY <1>1, <1>2, <1>3, <1>4 DEF ListTypes
<1>6. ASSUME NEW d \in Client PROVE Travels(t, d)'
  <2>1. Travels(t, d)
    BY <1>1 DEF TravelInv
  <2>2. CASE d # c
    <3>1. pc'[d] = pc[d] /\ todo'[d] = todo[d] /\ current'[d] = current[d] /\ ahead'[d] = ahead[d]
      BY <2>2, <1>2, <1>3
    <3>2. \A n \in Met(t) : list_owner[n] = d => n \in Met(t) /\ list_owner'[n] = d /\ next'[n] = next[n]
      BY <1>2
    <3> QED
      BY <1>1, <2>1, <3>1, <3>2, TravelStays
  <2>3. CASE d = c
    <3>1. pc[c] \in Standing /\ pc[c] # "idle"
      BY <1>2 DEF Standing
    <3>2. current[c] \in Met(t) /\ list_owner[current[c]] = c /\ todo[c] # <<>> /\ List!Calls(c).call # "push_front"
      BY <2>1, <2>3, <3>1 DEF Travels
    <3>3. List!Calls(c)' = List!Calls(c)
      BY <1>2 DEF List!Calls
    <3> QED
      BY <2>3, <3>2, <3>3, <1>2, <1>3 DEF Travels
  <2> QED
    BY <2>2, <2>3
<1>7. HeapInv(t)'
  <2>1. \A d \in Client : pc'[d] = "delete" <=> pc[d] = "delete" /\ d # c
    BY <1>2, <1>3
  <2>2. \A d, e \in Client : pc[d] = "delete" /\ pc[e] = "delete" /\ ahead[d] = ahead[e] => d = e
    BY <1>1 DEF HeapInv
  <2>3. Doomed' = Doomed \ {ahead[c]}
    BY <2>1, <2>2, <1>2 DEF Doomed
  <2>4. ahead[c] \in Doomed
    BY <1>2 DEF Doomed
  <2>5. ahead[c] \notin Met(t)
    BY <2>4, <1>1 DEF HeapInv
  <2>6. allocated' = Met(t) \cup Doomed' /\ Met(t) \cap Doomed' = {}
    BY <2>3, <2>5, <1>1, <1>2 DEF HeapInv
  <2>7. \A d, e \in Client : pc'[d] = "delete" /\ pc'[e] = "delete" /\ ahead'[d] = ahead'[e] => d = e
    BY <2>1, <2>2, <1>2
  <2> QED
    BY <2>6, <2>7 DEF HeapInv
<1> QED
  BY <1>1, <1>2, <1>4, <1>5, <1>6, <1>7 DEF HandOverHand, TravelInv

(* And so any step of the list.                                             *)
LEMMA ListStepKeeps ==
    ASSUME NEW t, HandOverHand(t), NEW c \in Client, List!Step(c)
    PROVE  \E u : HandOverHand(u)'
<1>1. CASE List!PushFront(c)
  BY <1>1, PushFrontKeeps
<1>2. CASE List!Unlink(c)
  BY <1>2, UnlinkKeeps
<1>3. CASE List!Delete(c)
  <2>1. HandOverHand(t)'
    BY <1>3, DeleteKeeps
  <2> QED
    BY <2>1
<1>4. CASE \/ List!LockHead(c) \/ List!ReadNext(c) \/ List!AtEnd(c)
           \/ List!LockNext(c) \/ List!Unlock(c) \/ List!Advance(c)
  <2>1. HandOverHand(t)'
    BY <1>4, WalkSteps
  <2> QED
    BY <2>1
<1> QED
  BY <1>1, <1>2, <1>3, <1>4 DEF List!Step

(* Contents follows next from the head, and meets the nodes of the chain.   *)
LEMMA ContentsAre ==
    ASSUME NEW t, ListTypes, Chained(next, t)
    PROVE  List!Contents = [i \in 1 .. Len(t) - 1 |-> t[i + 1]]
<1> DEFINE N == DOMAIN next
           m == Len(t)
           After(k) == [i \in 1 .. m - k |-> t[k + i]]
           Along(g) == g = [n \in N |-> IF next[n] = List!Nil THEN <<>> ELSE <<next[n]>> \o g[next[n]]]
           Follow == CHOOSE g : Along(g)
<1>1. /\ t \in Seq(N) /\ m \in Nat /\ m >= 1 /\ t[1] = List!HeadNode
      /\ \A i, j \in 1 .. m : t[i] = t[j] => i = j
      /\ \A i \in 1 .. m : next[t[i]] = IF i < m THEN t[i + 1] ELSE List!Nil
      /\ \A n \in N : n \notin Met(t) => next[n] = List!Nil
  BY DEF Chained
<1>2. /\ Met(t) = {t[i] : i \in 1 .. m} /\ \A i \in 1 .. m : t[i] \in N
      /\ List!Nil \notin N
  BY <1>1 DEF Met, ListTypes
<1>3. List!Contents = Follow[List!HeadNode]
  BY DEF List!Contents
<1> HIDE DEF N, m
<1>4. PICK Place : Place = [n \in N |-> CHOOSE k \in 1 .. m : t[k] = n]
  OBVIOUS
<1>5. \A k \in 1 .. m : Place[t[k]] = k
  <2> SUFFICES ASSUME NEW k \in 1 .. m PROVE Place[t[k]] = k
    OBVIOUS
  <2>1. Place[t[k]] = CHOOSE j \in 1 .. m : t[j] = t[k]
    BY <1>2, <1>4
  <2>2. \E j \in 1 .. m : t[j] = t[k]
    OBVIOUS
  <2>3. Place[t[k]] \in 1 .. m /\ t[Place[t[k]]] = t[k]
    BY <2>1, <2>2
  <2> QED
    BY <2>3, <1>1
<1>6. PICK From : From = [n \in N |-> IF n \in Met(t) THEN After(Place[n]) ELSE <<>>]
  OBVIOUS
<1>7. \A k \in 1 .. m : From[t[k]] = After(k)
  <2> HIDE DEF After
  <2> QED
    BY <1>2, <1>5, <1>6
<1>8. After(m) = <<>>
  BY <1>1
<1>9. ASSUME NEW k \in 1 .. m, k < m
      PROVE  /\ k + 1 \in 1 .. m /\ next[t[k]] = t[k + 1] /\ t[k + 1] # List!Nil
             /\ After(k) = <<t[k + 1]>> \o After(k + 1)
  <2>1. k + 1 \in 1 .. m /\ next[t[k]] = t[k + 1] /\ t[k + 1] # List!Nil /\ t[k + 1] \in N
    BY <1>1, <1>2, <1>9
  <2>2. PICK f : f = After(k + 1)
    OBVIOUS
  <2>3. PICK r : r = m - (k + 1)
    OBVIOUS
  <2>4. r \in Nat /\ r + 1 = m - k /\ \A i \in 1 .. r : (k + 1) + i \in 1 .. m
    BY <1>1, <1>9, <2>3
  <2>5. f = [i \in 1 .. r |-> f[i]] /\ \A i \in 1 .. r : f[i] = t[(k + 1) + i]
    BY <2>2, <2>3, <2>4
  <2>6. \A i \in 1 .. r : f[i] \in N
    BY <1>2, <2>4, <2>5
  <2>7. <<t[k + 1]>> \o f = [i \in 1 .. r + 1 |-> IF i = 1 THEN t[k + 1] ELSE f[i - 1]]
    BY <2>1, <2>4, <2>5, <2>6, Prepended
  <2>8. ASSUME NEW i \in 1 .. r + 1 PROVE t[k + i] = IF i = 1 THEN t[k + 1] ELSE f[i - 1]
    <3>1. CASE i = 1
      BY <3>1
    <3>2. CASE i # 1
      <4>1. i - 1 \in 1 .. r /\ (k + 1) + (i - 1) = k + i
        BY <3>2, <2>4
      <4> QED
        BY <4>1, <3>2, <2>5
    <3> QED
      BY <3>1, <3>2
  <2>9. After(k) = [i \in 1 .. r + 1 |-> t[k + i]]
    BY <2>4
  <2> HIDE DEF After
  <2>10. After(k) = [i \in 1 .. r + 1 |-> IF i = 1 THEN t[k + 1] ELSE f[i - 1]]
    BY <2>8, <2>9
  <2> QED
    BY <2>1, <2>2, <2>7, <2>10
<1> HIDE DEF After
<1>10. Along(From)
  <2>1. ASSUME NEW n \in N
        PROVE  From[n] = IF next[n] = List!Nil THEN <<>> ELSE <<next[n]>> \o From[next[n]]
    <3>1. CASE n \notin Met(t)
      BY <3>1, <1>1, <1>6
    <3>2. CASE n \in Met(t)
      <4>1. PICK k \in 1 .. m : n = t[k]
        BY <3>2, <1>2
      <4>2. CASE k < m
        <5>1. next[n] = t[k + 1] /\ next[n] # List!Nil /\ From[n] = After(k) /\ From[next[n]] = After(k + 1)
          BY <4>1, <4>2, <1>7, <1>9
        <5>2. After(k) = <<t[k + 1]>> \o After(k + 1)
          BY <4>2, <1>9
        <5> QED
          BY <5>1, <5>2
      <4>3. CASE ~(k < m)
        <5>1. k = m
          BY <4>3, <1>1
        <5>2. next[n] = List!Nil /\ From[n] = After(m)
          BY <4>1, <4>3, <5>1, <1>1, <1>7
        <5> QED
          BY <5>2, <1>8
      <4> QED
        BY <4>2, <4>3
    <3> QED
      BY <3>1, <3>2
  <2>2. From = [n \in N |-> From[n]]
    BY <1>6
  <2> QED
    BY <2>1, <2>2
<1>11. ASSUME NEW g, Along(g) PROVE g[t[1]] = From[t[1]]
  <2>1. \A n \in N : g[n] = IF next[n] = List!Nil THEN <<>> ELSE <<next[n]>> \o g[next[n]]
    <3> DEFINE e(n) == IF next[n] = List!Nil THEN <<>> ELSE <<next[n]>> \o g[next[n]]
    <3>1. g = [n \in N |-> e(n)]
      BY <1>11
    <3> HIDE DEF e
    <3>2. \A n \in N : g[n] = e(n)
      BY <3>1
    <3> QED
      BY <3>2 DEF e
  <2> DEFINE Differ == {j \in 0 .. m - 1 : g[t[m - j]] # From[t[m - j]]}
  <2>2. Differ = {}
    <3> SUFFICES ASSUME Differ # {} PROVE FALSE
      OBVIOUS
    <3>1. Differ \in SUBSET Nat
      BY <1>1
    <3>2. PICK j \in Differ : \A i \in Differ : j <= i
      BY <3>1, LeastNatural
    <3>3. PICK k : k = m - j
      OBVIOUS
    <3>4. k \in 1 .. m /\ g[t[k]] # From[t[k]] /\ t[k] \in N
      BY <1>1, <1>2, <3>2, <3>3
    <3>5. k < m
      <4> SUFFICES ASSUME ~(k < m) PROVE FALSE
        OBVIOUS
      <4>1. k = m
        BY <3>4, <1>1
      <4>2. next[t[k]] = List!Nil
        BY <3>4, <4>1, <1>1
      <4>3. g[t[k]] = <<>>
        BY <2>1, <3>4, <4>2
      <4>4. From[t[k]] = <<>>
        BY <3>4, <4>1, <1>7, <1>8
      <4> QED
        BY <3>4, <4>3, <4>4
    <3>6. j - 1 \in 0 .. m - 1 /\ m - (j - 1) = k + 1 /\ ~(j <= j - 1)
      BY <1>1, <3>2, <3>3, <3>5
    <3>7. j - 1 \notin Differ
      BY <3>2, <3>6
    <3>8. g[t[k + 1]] = From[t[k + 1]]
      BY <3>6, <3>7
    <3>9. g[t[k]] = <<t[k + 1]>> \o g[t[k + 1]]
      BY <2>1, <3>4, <3>5, <1>9
    <3>10. From[t[k]] = <<t[k + 1]>> \o From[t[k + 1]]
      BY <3>4, <3>5, <1>7, <1>9
    <3> QED
      BY <3>4, <3>8, <3>9, <3>10
  <2>3. m - 1 \in 0 .. m - 1 /\ m - (m - 1) = 1
    BY <1>1
  <2> QED
    BY <2>2, <2>3
<1>12. Along(Follow)
  <2> HIDE DEF Along
  <2> QED
    BY <1>10
<1>13. Follow[List!HeadNode] = After(1)
  <2>1. 1 \in 1 .. m
    BY <1>1
  <2>2. Follow[t[1]] = From[t[1]]
    BY <1>11, <1>12
  <2> QED
    BY <2>1, <2>2, <1>1, <1>7
<1>14. After(1) = [i \in 1 .. m - 1 |-> t[i + 1]]
  <2>1. \A i \in 1 .. m - 1 : 1 + i = i + 1
    BY <1>1
  <2> QED
    BY <2>1 DEF After
<1> QED
  BY <1>3, <1>13, <1>14 DEF m

(* Nothing in use is freed.                                                 *)
LEMMA NoFree ==
    ASSUME NEW t, HandOverHand(t)
    PROVE  List!NoUseAfterFree
<1>1. ListTypes /\ Chained(next, t) /\ TravelInv(t) /\ HeapInv(t)
  BY DEF HandOverHand
<1>2. Met(t) \subseteq allocated /\ Doomed \subseteq allocated
  BY <1>1 DEF HeapInv
<1>3. ASSUME NEW c \in Client
      PROVE  /\ pc[c] \notin {"idle", "advance"} => current[c] \in allocated
             /\ pc[c] \in {"lock next", "unlink", "unlock", "advance", "delete"} => ahead[c] \in allocated
  <2>1. /\ pc[c] \in Standing => current[c] \in Met(t)
        /\ pc[c] \in {"lock next", "unlink", "unlock"} => ahead[c] = next[current[c]] /\ ahead[c] # List!Nil
        /\ pc[c] = "advance" => ahead[c] \in Met(t)
    BY <1>1 DEF TravelInv, Travels
  <2>2. pc[c] \notin {"idle", "advance"} => pc[c] \in Standing
    BY <1>1 DEF ListTypes, Stages, Standing
  <2>3. pc[c] \in {"lock next", "unlink", "unlock"} => pc[c] \in Standing
    BY DEF Standing
  <2>4. ASSUME pc[c] \in {"lock next", "unlink", "unlock"} PROVE ahead[c] \in Met(t)
    <3>1. current[c] \in Met(t) /\ ahead[c] = next[current[c]] /\ next[current[c]] # List!Nil
      BY <2>1, <2>3, <2>4
    <3> QED
      BY <1>1, <3>1, NextOf
  <2>5. pc[c] = "delete" => ahead[c] \in Doomed
    BY DEF Doomed
  <2> QED
    BY <1>2, <2>1, <2>2, <2>4, <2>5
<1>4. Met(t) = {List!HeadNode} \cup List!ToSet(List!Contents)
  <2>1. PICK s : s = List!Contents
    OBVIOUS
  <2>2. s = [i \in 1 .. Len(t) - 1 |-> t[i + 1]]
    BY <1>1, <2>1, ContentsAre
  <2>3. Len(t) \in Nat /\ Len(t) >= 1 /\ t[1] = List!HeadNode
    BY <1>1 DEF Chained
  <2>4. List!ToSet(s) = {t[i + 1] : i \in 1 .. Len(t) - 1}
    BY <2>2 DEF List!ToSet
  <2>5. Met(t) = {t[i] : i \in 1 .. Len(t)}
    BY DEF Met
  <2>6. ASSUME NEW i \in 1 .. Len(t) PROVE i = 1 \/ \E j \in 1 .. Len(t) - 1 : i = j + 1
    <3>1. i # 1 => i - 1 \in 1 .. Len(t) - 1 /\ i = (i - 1) + 1
      BY <2>3
    <3> QED
      BY <3>1
  <2>7. 1 \in 1 .. Len(t) /\ \A j \in 1 .. Len(t) - 1 : j + 1 \in 1 .. Len(t)
    BY <2>3
  <2> QED
    BY <2>1, <2>3, <2>4, <2>5, <2>6, <2>7
<1>5. allocated = {List!HeadNode} \cup List!ToSet(List!Contents) \cup {ahead[c] : c \in {d \in Client : pc[d] = "delete"}}
  BY <1>1, <1>4 DEF HeapInv, Doomed
<1> QED
  BY <1>3, <1>5 DEF List!NoUseAfterFree

-----------------------------------------------------------------------------
(* All of them in one run.                                                  *)
WholeInv ==
    /\ LockedQueue
    /\ which = "table" => TableInv
    /\ which = "single" => SingleInv
    /\ which = "list" => \E t : HandOverHand(t)

(* A step is one of what the behaviour is about.                            *)
LEMMA StepsAre ==
    ASSUME [ContainersNext]_allVars
    PROVE  /\ which' = which
           /\ which = "table" => UNCHANGED allVars \/ \E c \in Client : Table!Step(c)
           /\ which = "single" => UNCHANGED allVars \/ Single!Step
           /\ which = "list" => UNCHANGED allVars \/ \E c \in Client : List!Step(c)
<1>1. which' = which
  BY DEF ContainersNext, Step, allVars, MonitorOnly, QueueOnly, ListOnly, TableOnly, SingleOnly, MutexOnly
<1>2. which = "table" => UNCHANGED allVars \/ \E c \in Client : Table!Step(c)
  BY DEF ContainersNext, Step
<1>3. which = "single" => UNCHANGED allVars \/ Single!Step
  BY DEF ContainersNext, Step
<1>4. which = "list" => UNCHANGED allVars \/ \E c \in Client : List!Step(c)
  BY DEF ContainersNext, Step
<1> QED
  BY <1>1, <1>2, <1>3, <1>4

(* The invariant holds at first, is kept, and says what NoFault does.       *)
LEMMA WholeInit == ContainersInit => WholeInv
BY LockedQueueInit, TableInit, SingleInit, ListInit DEF WholeInv

LEMMA WholeStep == WholeInv /\ [ContainersNext]_allVars => WholeInv'
<1> SUFFICES ASSUME WholeInv, [ContainersNext]_allVars PROVE WholeInv'
  OBVIOUS
<1>1. LockedQueue'
  BY LockedQueueStep DEF WholeInv
<1>2. which' = which
  BY StepsAre
<1>3. ASSUME which = "table" PROVE TableInv'
  <2>1. TableInv
    BY <1>3 DEF WholeInv
  <2>2. CASE \E c \in Client : Table!Step(c)
    BY <2>1, <2>2, TableStepKeeps
  <2>3. CASE UNCHANGED allVars
    <3>1. UNCHANGED <<todo, pc, data, readers, writers, entry>>
      BY <2>3 DEF allVars, tableVars
    <3>2. /\ \A c \in Client : Table!Calls(c)' = Table!Calls(c) /\ Table!BucketOf(c)' = Table!BucketOf(c)
          /\ \A c \in Client : Table!Positions(c)' = Table!Positions(c)
      BY <3>1 DEF Table!Positions, Table!BucketOf, Table!Calls
    <3>3. TableTypes' /\ Alone' /\ OneEntry'
      BY <2>1, <3>1 DEF TableInv, TableTypes, Alone, OneEntry
    <3>4. Locked'
      BY <2>1, <3>1, <3>2 DEF TableInv, Locked
    <3>5. Table!IteratorValid'
      BY <2>1, <3>1, <3>2 DEF TableInv, Table!IteratorValid
    <3> QED
      BY <3>3, <3>4, <3>5 DEF TableInv
  <2> QED
    BY <1>3, <2>2, <2>3, StepsAre
<1>4. ASSUME which = "single" PROVE SingleInv'
  <2>1. SingleInv
    BY <1>4 DEF WholeInv
  <2>2. CASE Single!Step
    BY <2>1, <2>2, SinglePushKeeps, SinglePopKeeps DEF Single!Step
  <2>3. CASE UNCHANGED allVars
    <3>1. UNCHANGED <<next, head, tail, value, live, dummy, pushed, popped, dangling>>
      BY <2>3 DEF allVars, nodeVars, singleVars
    <3> QED
      BY <2>1, <3>1 DEF SingleInv, SingleTypes, NothingPopped, NoneYet, OneFirst
  <2> QED
    BY <1>4, <2>2, <2>3, StepsAre
<1>5. ASSUME which = "list" PROVE \E t : HandOverHand(t)'
  <2>1. PICK t : HandOverHand(t)
    BY <1>5 DEF WholeInv
  <2>2. CASE \E c \in Client : List!Step(c)
    BY <2>1, <2>2, ListStepKeeps
  <2>3. CASE UNCHANGED allVars
    <3>1. UNCHANGED <<todo, pc, next, list_owner, allocated, current, ahead>>
      BY <2>3 DEF allVars, listVars
    <3>2. ListTypes' /\ FreshInv' /\ Chained(next, t)'
      BY <2>1, <3>1 DEF HandOverHand, ListTypes, FreshInv
    <3>3. ASSUME NEW c \in Client PROVE Travels(t, c)'
      <4>1. Travels(t, c) /\ List!Calls(c)' = List!Calls(c)
        BY <2>1, <3>1 DEF HandOverHand, TravelInv, List!Calls
      <4> QED
        BY <3>1, <4>1 DEF Travels
    <3>4. HeapInv(t)'
      <4>1. Doomed' = Doomed
        BY <3>1 DEF Doomed
      <4> QED
        BY <2>1, <3>1, <4>1 DEF HandOverHand, HeapInv
    <3>5. HandOverHand(t)'
      BY <3>2, <3>3, <3>4 DEF HandOverHand, TravelInv
    <3> QED
      BY <3>5
  <2> QED
    BY <1>5, <2>2, <2>3, StepsAre
<1> QED
  BY <1>1, <1>2, <1>3, <1>4, <1>5 DEF WholeInv

LEMMA WholeNoFault == WholeInv => NoFault
<1> SUFFICES ASSUME WholeInv PROVE NoFault
  OBVIOUS
<1>1. which = "queue" => Queue!NoDataRace
  BY NoRace DEF WholeInv, LockedQueue
<1>2. which = "list" => List!NoUseAfterFree
  BY NoFree DEF WholeInv
<1>3. which = "table" => Table!IteratorValid
  BY DEF WholeInv, TableInv
<1>4. which = "single" => Single!NoneDangling
  BY NoneDangle DEF WholeInv
<1> QED
  BY <1>1, <1>2, <1>3, <1>4 DEF NoFault

(* Nothing is used after it was deleted or while somebody else changes it:  *)
(* the ends of the queue with two locks access no member of a node at once, *)
(* a traversal of the list stands on nodes that nobody deletes, a call of   *)
(* the table uses the entry it found, and the queue for one thread writes   *)
(* through a dangling pointer only without the odd vertex, after a pop.     *)
THEOREM NoFaultAnywhere == ContainersSpec => []NoFault
BY WholeInit, WholeStep, WholeNoFault, PTL DEF ContainersSpec

-----------------------------------------------------------------------------
(* Who waits.  The invariant is that of the classes with one mutex, whose   *)
(* steps others leave alone.                                                *)
Waiting == INSTANCE MonitorsProofs
WaitInv == which = "monitor" => Waiting!Inv

LEMMA SameMonitor ==
    ASSUME NEW c \in Client
    PROVE  Monitor!Step(c) = Waiting!Step(c) /\ Monitor!Spurious(c) = Waiting!Spurious(c)
    BY DEF Monitor!Step, Waiting!Step, Monitor!Push, Waiting!Push, Monitor!Pop,
           Waiting!Pop, Monitor!push, Waiting!push, Monitor!wait_and_pop,
           Waiting!wait_and_pop, Monitor!try_pop, Waiting!try_pop, Monitor!shared_push,
           Waiting!shared_push, Monitor!shared_wait_and_pop, Waiting!shared_wait_and_pop,
           Monitor!stack_push, Waiting!stack_push, Monitor!stack_pop, Waiting!stack_pop,
           Monitor!print_num, Waiting!print_num, Monitor!run, Waiting!run,
           Monitor!increment, Waiting!increment, Monitor!get, Waiting!get, Monitor!Calls,
           Waiting!Calls, Monitor!Argument, Waiting!Argument, Monitor!Sleepers,
           Waiting!Sleepers, Monitor!Sleep, Waiting!Sleep, Monitor!Wake, Waiting!Wake,
           Monitor!NotifyAll, Waiting!NotifyAll, Monitor!NotifyOne, Waiting!NotifyOne,
           Monitor!Returns, Waiting!Returns, Monitor!Puts, Waiting!Puts, Monitor!Takes,
           Waiting!Takes, Monitor!Finds, Waiting!Finds, Monitor!Spurious,
           Waiting!Spurious

LEMMA WaitInit == ContainersInit => WaitInv
<1> SUFFICES ASSUME ContainersInit, which = "monitor" PROVE Waiting!Inv
  BY DEF WaitInv
<1>1. Waiting!Init
  BY DEF ContainersInit, Waiting!Init, Monitor!Init
<1>2. \A program \in Programs : Waiting!OneClass(program)
  BY ProgramsAssumption
     DEF Waiting!OneClass, Monitor!OneClass, Waiting!CallsOf, Monitor!CallsOf,
         Waiting!Classes, Monitor!Classes, Waiting!WithArgument, Monitor!WithArgument
<1> QED
  BY <1>1, <1>2, Waiting!InitInv

LEMMA WaitStep == WaitInv /\ [ContainersNext]_allVars => WaitInv'
<1> SUFFICES ASSUME WaitInv, [ContainersNext]_allVars, which' = "monitor" PROVE Waiting!Inv'
  BY DEF WaitInv
<1>1. which = "monitor" /\ Waiting!Inv
  BY StepsAre DEF WaitInv
<1>2. [Waiting!Next]_(Waiting!vars)
  <2>1. CASE \E c \in Client : Monitor!Step(c) \/ Monitor!Spurious(c)
    <3>1. PICK c \in Client : Monitor!Step(c) \/ Monitor!Spurious(c)
      BY <2>1
    <3> QED
      BY <3>1, SameMonitor DEF Waiting!Next
  <2>2. CASE UNCHANGED allVars
    BY <2>2 DEF allVars, monitorVars, Waiting!vars
  <2> QED
    BY <1>1, <2>1, <2>2 DEF ContainersNext, Step
<1>3. Waiting!IsFiniteSet(Client)
  BY ProgramsAssumption DEF IsFiniteSet, Waiting!IsFiniteSet
<1> QED
  BY <1>1, <1>2, <1>3, Waiting!NextInv

(* Whoever sleeps has nothing to wake up for, or somebody else is awake for *)
(* it, in any programs of one class each.                                   *)
THEOREM NoWakeupLost == ContainersSpec => []NoLostWakeup
<1>1. WaitInv => NoLostWakeup
  <2>1. Waiting!Inv => Waiting!NoLostWakeup
    BY Waiting!InvWakeups
  <2>2. Waiting!NoLostWakeup = Monitor!NoLostWakeup
    BY DEF Waiting!NoLostWakeup, Monitor!NoLostWakeup, Waiting!Awake, Monitor!Awake, Waiting!Calls,
           Monitor!Calls, Waiting!Argument, Monitor!Argument, Waiting!Sleepers, Monitor!Sleepers,
           Waiting!Cardinality, Monitor!Cardinality, Waiting!IsFiniteSet, Monitor!IsFiniteSet
  <2> QED
    BY <2>1, <2>2 DEF WaitInv, NoLostWakeup
<1> QED
  BY <1>1, WaitInit, WaitStep, PTL DEF ContainersSpec
=============================================================================
