---------------------------- MODULE MonitorsProofs ----------------------------
(***************************************************************************)
(* No wakeup is lost by any number of clients, in any program that calls   *)
(* the operations of one class.  The argument for the queues whose push()  *)
(* notifies one: each value pushed while somebody sleeps comes with a      *)
(* client that was asleep and is awake, and whoever takes a value is one   *)
(* awake client less.                                                      *)
(***************************************************************************)
EXTENDS Monitors, SequenceTheorems, FiniteSetTheorems, TLAPS

Conditions == {"full_condition", "empty_condition", "cond", "cv", "turn"}
AtCall(c, op) == todo[c] # <<>> /\ Head(todo[c])[1] = op

TypeInv ==
    /\ asleep \in [Client -> Conditions \cup {"awake"}]
    /\ items \in Seq(Nat)
    /\ max_size \in Nat
    /\ current \in Nat
    /\ ready \in BOOLEAN
ClassInv == \E class \in Classes : todo \in [Client -> Seq(CallsOf(class))]

(* Who sleeps on a condition variable is in the call that waits on it.      *)
SleepInv ==
    \A c \in Client :
        /\ asleep[c] = "full_condition" => AtCall(c, "Push")
        /\ asleep[c] = "empty_condition" => AtCall(c, "Pop")
        /\ asleep[c] = "cond" => AtCall(c, "wait_and_pop")
        /\ asleep[c] = "cv" => AtCall(c, "shared_wait_and_pop")
        /\ asleep[c] = "turn" => AtCall(c, "print_num")

Shape == TypeInv /\ ClassInv /\ SleepInv

(* NoLostWakeup in three parts.                                             *)
InVain ==
    \A c \in Client :
        /\ asleep[c] = "full_condition" => Len(items) >= max_size
        /\ asleep[c] = "empty_condition" => items = <<>>
        /\ asleep[c] = "turn" => ~(ready /\ Argument(c) = current)
PopsOf(cv) == IF cv = "cond" THEN {"wait_and_pop", "try_pop"} ELSE {"shared_wait_and_pop"}
Poppers(cv) == {c \in Client : \E op \in PopsOf(cv) : Calls(c, op)}
Enough(cv) == Sleepers(cv) # {} => Len(items) <= Cardinality(Poppers(cv))
CountInv == \A cv \in {"cond", "cv"} : Enough(cv)

Inv == Shape /\ InVain /\ CountInv

-----------------------------------------------------------------------------
(* What the operations on sequences return.                                 *)
LEMMA LenAppend ==
  ASSUME NEW s \in Seq(Nat), NEW n \in Nat
  PROVE  Append(s, n) \in Seq(Nat) /\ Len(Append(s, n)) = Len(s) + 1 /\ Append(s, n) # <<>>
BY AppendProperties

LEMMA LengthsAdd ==
  ASSUME NEW n \in Nat \ {0}, NEW i \in {1, n}
  PROVE  (IF 1 <= i - 1 THEN (i - 1) - 1 + 1 ELSE 0)
             + (IF i + 1 <= n THEN n - (i + 1) + 1 ELSE 0) = n - 1
<1>1. CASE i = 1
  BY <1>1
<1>2. CASE i = n
  BY <1>2
<1> QED
  BY <1>1, <1>2

LEMMA Without ==
  ASSUME NEW s \in Seq(Nat), s # <<>>, NEW i \in {1, Len(s)}
  PROVE  /\ SubSeq(s, 1, i - 1) \o SubSeq(s, i + 1, Len(s)) \in Seq(Nat)
         /\ Len(SubSeq(s, 1, i - 1) \o SubSeq(s, i + 1, Len(s))) = Len(s) - 1
<1>1. Len(s) \in Nat \ {0}
  BY EmptySeq
<1>2. \A j \in 1 .. Len(s) : s[j] \in Nat
  BY ElementOfSeq
<1> DEFINE front == SubSeq(s, 1, i - 1)
           back == SubSeq(s, i + 1, Len(s))
<1>3. /\ front \in Seq(Nat)
      /\ Len(front) = IF 1 <= i - 1 THEN (i - 1) - 1 + 1 ELSE 0
  <2>1. i - 1 \in Int /\ 1 \in Int /\ \A j \in 1 .. i - 1 : s[j] \in Nat
    BY <1>1, <1>2
  <2> QED
    BY <2>1, SubSeqProperties
<1>4. /\ back \in Seq(Nat)
      /\ Len(back) = IF i + 1 <= Len(s) THEN Len(s) - (i + 1) + 1 ELSE 0
  <2>1. i + 1 \in Int /\ Len(s) \in Int /\ \A j \in i + 1 .. Len(s) : s[j] \in Nat
    BY <1>1, <1>2
  <2> QED
    BY <2>1, SubSeqProperties
<1>5. front \o back \in Seq(Nat) /\ Len(front \o back) = Len(front) + Len(back)
  BY <1>3, <1>4, ConcatProperties
<1> HIDE DEF front, back
<1>6. Len(front \o back) = Len(s) - 1
  BY <1>1, <1>3, <1>4, <1>5, LengthsAdd
<1> QED
  BY <1>5, <1>6 DEF front, back

(* A client calls operations of one class only, so that nobody sleeps on a  *)
(* condition variable of another one.                                       *)
LEMMA OpOfClass ==
  ASSUME NEW class \in Classes, todo \in [Client -> Seq(CallsOf(class))],
         NEW c \in Client, todo[c] # <<>>
  PROVE  /\ Head(todo[c])[1] \in class
         /\ Head(todo[c])[1] \in WithArgument => Argument(c) \in Nat
         /\ Tail(todo[c]) \in Seq(CallsOf(class))
<1>1. Head(todo[c]) \in CallsOf(class) /\ Tail(todo[c]) \in Seq(CallsOf(class))
  BY HeadTailProperties
<1>2. CASE \E op \in class \ WithArgument : Head(todo[c]) = <<op>>
  BY <1>1, <1>2
<1>3. CASE Head(todo[c]) \in (class \cap WithArgument) \X Nat
  BY <1>1, <1>3 DEF Argument
<1> QED
  BY <1>1, <1>2, <1>3 DEF CallsOf

LEMMA SleepersOfClass ==
  ASSUME Shape, NEW c \in Client, NEW op, AtCall(c, op), NEW d \in Client, asleep[d] # "awake"
  PROVE  \/ op \in {"Push", "Pop"} /\ asleep[d] \in {"full_condition", "empty_condition"}
         \/ op \in {"push", "wait_and_pop", "try_pop"} /\ asleep[d] = "cond"
         \/ op \in {"shared_push", "shared_wait_and_pop"} /\ asleep[d] = "cv"
         \/ op \in {"print_num", "run"} /\ asleep[d] = "turn"
<1>1. PICK class \in Classes : todo \in [Client -> Seq(CallsOf(class))]
  BY DEF Shape, ClassInv
<1>2. op \in class
  BY <1>1, OpOfClass DEF AtCall
<1>3. asleep[d] \in Conditions
  BY DEF Shape, TypeInv
<1>4. todo[d] # <<>>
  BY <1>3 DEF Shape, SleepInv, AtCall, Conditions
<1>5. Head(todo[d])[1] \in class
  BY <1>1, <1>4, OpOfClass
<1> QED
  BY <1>2, <1>3, <1>5 DEF Shape, SleepInv, AtCall, Classes, Conditions

-----------------------------------------------------------------------------
(* The two ways in which a step treats its client.                          *)
LEMMA ShapeAfterReturn ==
  ASSUME Shape, NEW c \in Client, asleep[c] = "awake", todo[c] # <<>>, Returns(c),
         asleep' \in [Client -> Conditions \cup {"awake"}],
         \A d \in Client : asleep'[d] \in {asleep[d], "awake"},
         items' \in Seq(Nat), max_size' = max_size, current' \in Nat, ready' \in BOOLEAN
  PROVE  Shape'
<1>1. TypeInv'
  BY DEF Shape, TypeInv
<1>2. PICK class \in Classes : todo \in [Client -> Seq(CallsOf(class))]
  BY DEF Shape, ClassInv
<1>3. Tail(todo[c]) \in Seq(CallsOf(class))
  BY <1>2, OpOfClass
<1>4. todo' \in [Client -> Seq(CallsOf(class))]
  BY <1>2, <1>3 DEF Returns
<1>5. \A d \in Client \ {c} : todo'[d] = todo[d]
  BY <1>2 DEF Returns
<1>6. SleepInv'
  BY <1>5 DEF Shape, SleepInv, AtCall
<1> QED
  BY <1>1, <1>4, <1>6 DEF Shape, ClassInv

LEMMA ShapeAfterSleep ==
  ASSUME Shape, NEW c \in Client, NEW cv \in Conditions, Sleep(c, cv),
         cv = "full_condition" => AtCall(c, "Push"),
         cv = "empty_condition" => AtCall(c, "Pop"),
         cv = "cond" => AtCall(c, "wait_and_pop"),
         cv = "cv" => AtCall(c, "shared_wait_and_pop"),
         cv = "turn" => AtCall(c, "print_num")
  PROVE  Shape'
<1>1. TypeInv'
  BY DEF Shape, TypeInv, Sleep
<1>2. SleepInv'
  BY DEF Shape, TypeInv, SleepInv, AtCall, Sleep, Conditions
<1> QED
  BY <1>1, <1>2 DEF Shape, ClassInv, Sleep

LEMMA WakeType ==
  ASSUME TypeInv, NEW clients \in SUBSET Client, Wake(clients)
  PROVE  /\ asleep' \in [Client -> Conditions \cup {"awake"}]
         /\ \A d \in Client : asleep'[d] = IF d \in clients THEN "awake" ELSE asleep[d]
  BY DEF TypeInv, Wake

-----------------------------------------------------------------------------
(* Counting the awake.                                                      *)
LEMMA Counted ==
  ASSUME IsFiniteSet(Client), NEW S \in SUBSET Client
  PROVE  /\ IsFiniteSet(S) /\ Cardinality(S) \in Nat
         /\ \A T \in SUBSET S : Cardinality(T) <= Cardinality(S)
         /\ \A c \in S : Cardinality(S \ {c}) = Cardinality(S) - 1
         /\ \A c \in Client \ S : Cardinality(S \cup {c}) = Cardinality(S) + 1
<1>1. IsFiniteSet(S) /\ Cardinality(S) \in Nat
  BY FS_Subset, FS_CardinalityType
<1>2. \A T \in SUBSET S : Cardinality(T) <= Cardinality(S)
  BY <1>1, FS_Subset
<1>3. \A c \in S : Cardinality(S \ {c}) = Cardinality(S) - 1
  BY <1>1, FS_RemoveElement
<1>4. \A c \in Client \ S : Cardinality(S \cup {c}) = Cardinality(S) + 1
  BY <1>1, FS_AddElement
<1> QED
  BY <1>1, <1>2, <1>3, <1>4

LEMMA PoppersCounted ==
  ASSUME IsFiniteSet(Client), NEW cv
  PROVE  /\ Poppers(cv) \in SUBSET Client /\ Cardinality(Poppers(cv)) \in Nat
         /\ Poppers(cv)' \in SUBSET Client /\ Cardinality(Poppers(cv)') \in Nat
<1>1. Poppers(cv) \in SUBSET Client /\ Poppers(cv)' \in SUBSET Client
  BY DEF Poppers
<1> QED
  BY <1>1, Counted

(* A value and the client that it wakes.                                    *)
LEMMA EnoughAfterPush ==
  ASSUME IsFiniteSet(Client), Shape, NEW cv \in {"cond", "cv"}, Enough(cv), NEW c \in Client,
         todo[c] # <<>>, Head(todo[c])[1] \notin PopsOf(cv), Returns(c), NotifyOne(cv),
         Len(items) \in Nat, Len(items') = Len(items) + 1
  PROVE  Enough(cv)'
<1>1. CASE Sleepers(cv) = {}
  BY <1>1 DEF Enough, Sleepers, NotifyOne
<1>2. CASE Sleepers(cv) # {}
  <2>1. PICK w \in Sleepers(cv) : Wake({w})
    BY <1>2 DEF NotifyOne
  <2>2. w \in Client /\ w \notin Poppers(cv)
    BY DEF Sleepers, Poppers, Calls
  <2>3. w # c
    <3>1. AtCall(w, IF cv = "cond" THEN "wait_and_pop" ELSE "shared_wait_and_pop")
      BY DEF Shape, SleepInv, Sleepers
    <3> QED
      BY <3>1 DEF AtCall, PopsOf
  <2>4. Poppers(cv) \cup {w} \subseteq Poppers(cv)'
    BY <2>1, <2>2, <2>3 DEF Shape, SleepInv, AtCall, Poppers, PopsOf, Calls, Wake, Returns,
       ClassInv, Sleepers
  <2>5. Cardinality(Poppers(cv) \cup {w}) = Cardinality(Poppers(cv)) + 1
    BY <2>2, PoppersCounted, Counted
  <2>6. Cardinality(Poppers(cv) \cup {w}) <= Cardinality(Poppers(cv)')
    BY <2>4, PoppersCounted, Counted
  <2> QED
    BY <1>2, <2>5, <2>6, PoppersCounted DEF Enough
<1> QED
  BY <1>1, <1>2

(* A value that is taken, and the client that takes it.                     *)
LEMMA EnoughAfterTake ==
  ASSUME IsFiniteSet(Client), Shape, NEW cv \in {"cond", "cv"}, Enough(cv), NEW c \in Client,
         Returns(c), UNCHANGED asleep, Len(items) \in Nat, Len(items') = Len(items) - 1
  PROVE  Enough(cv)'
<1>1. Sleepers(cv)' = Sleepers(cv)
  BY DEF Sleepers
<1>2. Poppers(cv) \ {c} \subseteq Poppers(cv)'
  BY DEF Shape, ClassInv, Poppers, Calls, Returns
<1> DEFINE n == Cardinality(Poppers(cv))
           m == Cardinality(Poppers(cv) \ {c})
<1>3. n \in Nat /\ m \in Nat /\ m <= Cardinality(Poppers(cv)')
  <2>1. Poppers(cv) \ {c} \in SUBSET Client
    BY PoppersCounted
  <2> QED
    BY <1>2, <2>1, PoppersCounted, Counted
<1>4. m = n - 1 \/ m = n
  <2>1. CASE c \in Poppers(cv)
    BY <2>1, PoppersCounted, Counted
  <2>2. CASE c \notin Poppers(cv)
    <3>1. Poppers(cv) \ {c} = Poppers(cv)
      BY <2>2
    <3> QED
      BY <3>1
  <2> QED
    BY <2>1, <2>2
<1>5. Cardinality(Poppers(cv)') \in Nat
  BY PoppersCounted
<1>6. Sleepers(cv) # {} => Len(items) <= n
  BY DEF Enough
<1> HIDE DEF n, m
<1>7. Sleepers(cv) # {} => Len(items') <= Cardinality(Poppers(cv)')
  BY <1>3, <1>4, <1>5, <1>6
<1> QED
  BY <1>1, <1>7 DEF Enough

(* Clients that wake up are more that are awake.                            *)
LEMMA EnoughAfterWake ==
  ASSUME IsFiniteSet(Client), Shape, NEW cv \in {"cond", "cv"}, Enough(cv),
         NEW clients \in SUBSET Client, Wake(clients), UNCHANGED <<todo, items>>, Len(items) \in Nat
  PROVE  Enough(cv)'
<1>1. Sleepers(cv)' \subseteq Sleepers(cv)
  BY DEF Sleepers, Wake
<1>2. Poppers(cv) \subseteq Poppers(cv)'
  BY DEF Poppers, Calls, Wake
<1>3. Cardinality(Poppers(cv)) <= Cardinality(Poppers(cv)')
  BY <1>2, PoppersCounted, Counted
<1> QED
  BY <1>1, <1>3, PoppersCounted DEF Enough

-----------------------------------------------------------------------------
(* Steps of programs on one class.                                          *)
LEMMA Bounds ==
  ASSUME Shape
  PROVE  /\ items \in Seq(Nat) /\ Len(items) \in Nat /\ max_size \in Nat
         /\ items = <<>> => Len(items) = 0
         /\ items # <<>> => Len(items) # 0
  BY EmptySeq DEF Shape, TypeInv

LEMMA PutsShape ==
  ASSUME Shape, NEW c \in Client, NEW op \in WithArgument, Calls(c, op),
         Puts(c, Append(items, Argument(c))), NEW clients \in SUBSET Client, Wake(clients)
  PROVE  Shape' /\ Len(items') = Len(items) + 1
<1>1. Argument(c) \in Nat
  BY OpOfClass DEF Shape, ClassInv, Calls
<1>2. items' \in Seq(Nat) /\ Len(items') = Len(items) + 1
  BY <1>1, LenAppend DEF Puts, Shape, TypeInv
<1>3. Shape'
  BY <1>2, WakeType, ShapeAfterReturn DEF Puts, Calls, Shape, TypeInv
<1> QED
  BY <1>2, <1>3

LEMMA TakesShape ==
  ASSUME Shape, NEW c \in Client, NEW op, Calls(c, op), items # <<>>, NEW i \in {1, Len(items)},
         Takes(c, i), NEW clients \in SUBSET Client, Wake(clients)
  PROVE  Shape' /\ Len(items') = Len(items) - 1
<1>1. items' \in Seq(Nat) /\ Len(items') = Len(items) - 1
  BY Without DEF Takes, Shape, TypeInv
<1>2. Shape'
  BY <1>1, WakeType, ShapeAfterReturn DEF Takes, Calls, Shape, TypeInv
<1> QED
  BY <1>1, <1>2

LEMMA QueueStep ==
  ASSUME Inv, NEW c \in Client, Push(c) \/ Pop(c)
  PROVE  Inv'
<1> USE DEF Inv
<1>1. PICK op \in {"Push", "Pop"} : Calls(c, op) /\ AtCall(c, op)
  BY DEF Push, Pop, Calls, AtCall
<1>2. \A d \in Client : asleep[d] \in {"awake", "full_condition", "empty_condition"}
  BY <1>1, SleepersOfClass
<1>3. ASSUME \A d \in Client : asleep'[d] \in {"awake", "full_condition", "empty_condition"}
      PROVE  CountInv'
  BY <1>3 DEF CountInv, Enough, Sleepers
<1>4. CASE /\ Calls(c, "Push") /\ Len(items) < max_size
           /\ Puts(c, Append(items, Argument(c))) /\ NotifyAll("empty_condition")
  <2>1. Shape'
    BY <1>4, PutsShape DEF WithArgument, NotifyAll, Sleepers
  <2>2. \A d \in Client : asleep'[d] = "awake"
    BY <1>2, <1>4, Bounds DEF InVain, NotifyAll, Wake, Sleepers
  <2> QED
    BY <1>3, <2>1, <2>2 DEF InVain
<1>5. CASE Calls(c, "Push") /\ Len(items) >= max_size /\ Sleep(c, "full_condition")
  <2>1. Shape'
    BY <1>5, ShapeAfterSleep DEF Calls, AtCall, Conditions
  <2>2. \A d \in Client : asleep'[d] = IF d = c THEN "full_condition" ELSE asleep[d]
    BY <1>5 DEF Sleep, Shape, TypeInv
  <2> QED
    BY <1>2, <1>3, <1>5, <2>1, <2>2 DEF InVain, Sleep
<1>6. CASE Calls(c, "Pop") /\ items # <<>> /\ Takes(c, 1) /\ NotifyAll("full_condition")
  <2>1. Shape'
    BY <1>6, TakesShape DEF NotifyAll, Sleepers
  <2>2. \A d \in Client : asleep'[d] = "awake"
    BY <1>2, <1>6 DEF InVain, NotifyAll, Wake, Sleepers
  <2> QED
    BY <1>3, <2>1, <2>2 DEF InVain
<1>7. CASE Calls(c, "Pop") /\ items = <<>> /\ Sleep(c, "empty_condition")
  <2>1. Shape'
    BY <1>7, ShapeAfterSleep DEF Calls, AtCall, Conditions
  <2>2. \A d \in Client : asleep'[d] = IF d = c THEN "empty_condition" ELSE asleep[d]
    BY <1>7 DEF Sleep, Shape, TypeInv
  <2> QED
    BY <1>2, <1>3, <1>7, <2>1, <2>2 DEF InVain, Sleep
<1> QED
  BY <1>4, <1>5, <1>6, <1>7 DEF Push, Pop

(* The two queues that notify one are alike but for the names.              *)
LEMMA NotifyOneStep ==
  ASSUME IsFiniteSet(Client), Inv, NEW cv \in {"cond", "cv"}, NEW c \in Client,
         NEW op, AtCall(c, op),
         op \in IF cv = "cond" THEN {"push", "wait_and_pop", "try_pop"}
                ELSE {"shared_push", "shared_wait_and_pop"},
         \/ /\ Calls(c, op) /\ op \notin PopsOf(cv)
            /\ Puts(c, Append(items, Argument(c))) /\ NotifyOne(cv)
         \/ Calls(c, op) /\ items # <<>> /\ Takes(c, 1) /\ UNCHANGED asleep
         \/ Calls(c, op) /\ items = <<>> /\ op # "try_pop" /\ op \in PopsOf(cv) /\ Sleep(c, cv)
         \/ Calls(c, op) /\ items = <<>> /\ Finds(c, None)
  PROVE  Inv'
<1> USE DEF Inv
<1>1. \A d \in Client : asleep[d] \in {"awake", cv}
  BY SleepersOfClass
<1>2. ASSUME \A d \in Client : asleep'[d] \in {"awake", cv}, Enough(cv)'
      PROVE  InVain' /\ CountInv'
  BY <1>2 DEF InVain, CountInv, Enough, Sleepers
<1>3. Enough(cv)
  BY DEF CountInv
<1>4. ASSUME Len(items') = 0 PROVE Enough(cv)'
  BY <1>4, PoppersCounted DEF Enough
<1> HIDE DEF Inv
<1>5. Shape
  BY DEF Inv
<1>6. CASE /\ Calls(c, op) /\ op \notin PopsOf(cv)
           /\ Puts(c, Append(items, Argument(c))) /\ NotifyOne(cv)
  <2>1. op \in WithArgument
    BY <1>6 DEF WithArgument, PopsOf
  <2>2. PICK clients \in SUBSET Client : Wake(clients)
    <3>1. UNCHANGED asleep => Wake({})
      BY <1>5 DEF Wake, Shape, TypeInv
    <3> QED
      BY <1>6, <3>1 DEF NotifyOne, Sleepers
  <2>3. Shape' /\ Len(items') = Len(items) + 1
    BY <1>5, <1>6, <2>1, <2>2, PutsShape
  <2>4. Enough(cv)'
    BY <1>3, <1>5, <1>6, <2>3, EnoughAfterPush, Bounds DEF Puts, Calls
  <2>5. \A d \in Client : asleep'[d] \in {"awake", cv}
    BY <1>1, <2>2 DEF Wake
  <2> QED
    BY <1>2, <2>3, <2>4, <2>5 DEF Inv
<1>7. CASE Calls(c, op) /\ items # <<>> /\ Takes(c, 1) /\ UNCHANGED asleep
  <2>1. Wake({})
    BY <1>5, <1>7 DEF Wake, Shape, TypeInv
  <2>2. Shape' /\ Len(items') = Len(items) - 1
    BY <1>5, <1>7, <2>1, TakesShape
  <2>3. Enough(cv)'
    BY <1>3, <1>5, <1>7, <2>2, EnoughAfterTake, Bounds DEF Takes
  <2> QED
    BY <1>1, <1>2, <1>7, <2>2, <2>3 DEF Inv
<1>8. CASE Calls(c, op) /\ items = <<>> /\ op # "try_pop" /\ op \in PopsOf(cv) /\ Sleep(c, cv)
  <2>1. Shape'
    BY <1>5, <1>8, ShapeAfterSleep DEF Calls, AtCall, Conditions, PopsOf
  <2>2. \A d \in Client : asleep'[d] \in {"awake", cv}
    BY <1>1, <1>5, <1>8 DEF Sleep, Shape, TypeInv
  <2>3. Len(items') = 0
    BY <1>5, <1>8, Bounds DEF Sleep
  <2> QED
    BY <1>2, <1>4, <2>1, <2>2, <2>3 DEF Inv
<1>9. CASE Calls(c, op) /\ items = <<>> /\ Finds(c, None)
  <2>1. Shape'
    BY <1>5, <1>9, ShapeAfterReturn DEF Finds, Calls, Shape, TypeInv
  <2>2. Len(items') = 0
    BY <1>5, <1>9, Bounds DEF Finds
  <2> QED
    BY <1>1, <1>2, <1>4, <1>9, <2>1, <2>2 DEF Inv, Finds
<1> QED
  BY <1>6, <1>7, <1>8, <1>9

(* Who sleeps for a turn is woken by each turn that is taken.               *)
LEMMA TurnStep ==
  ASSUME Inv, NEW c \in Client, print_num(c) \/ run(c)
  PROVE  Inv'
<1> USE DEF Inv
<1>1. PICK op \in {"print_num", "run"} : Calls(c, op) /\ AtCall(c, op)
  BY DEF print_num, run, Calls, AtCall
<1>2. \A d \in Client : asleep[d] \in {"awake", "turn"}
  BY <1>1, SleepersOfClass
<1>3. ASSUME \A d \in Client : asleep'[d] \in {"awake", "turn"}
      PROVE  CountInv'
  BY <1>3 DEF CountInv, Enough, Sleepers
<1>4. CASE Calls(c, "print_num") /\ ~(Argument(c) = current /\ ready) /\ Sleep(c, "turn")
  <2>1. Shape'
    BY <1>4, ShapeAfterSleep DEF Calls, AtCall, Conditions
  <2>2. \A d \in Client : asleep'[d] = IF d = c THEN "turn" ELSE asleep[d]
    BY <1>4 DEF Sleep, Shape, TypeInv
  <2> QED
    BY <1>2, <1>3, <1>4, <2>1, <2>2 DEF InVain, Sleep, Argument
<1>5. CASE /\ Returns(c) /\ NotifyAll("turn") /\ UNCHANGED <<max_size, items>>
           /\ current' \in Nat /\ ready' \in BOOLEAN
  <2>1. Wake(Sleepers("turn")) /\ Sleepers("turn") \in SUBSET Client
    BY <1>5 DEF NotifyAll, Sleepers
  <2>2. Shape'
    BY <1>1, <1>5, <2>1, WakeType, ShapeAfterReturn DEF Calls, Shape, TypeInv
  <2>3. \A d \in Client : asleep'[d] = "awake"
    BY <1>2, <2>1 DEF Wake, Sleepers
  <2> QED
    BY <1>3, <2>2, <2>3 DEF InVain
<1>6. current \in Nat /\ current + 1 \in Nat /\ ready \in BOOLEAN
  BY DEF Shape, TypeInv
<1> HIDE DEF Inv
<1>7. CASE print_num(c)
  <2>1. CASE Argument(c) = current /\ ready
    BY <1>5, <1>6, <1>7, <2>1 DEF print_num
  <2>2. CASE ~(Argument(c) = current /\ ready)
    BY <1>4, <1>7, <2>2 DEF print_num
  <2> QED
    BY <2>1, <2>2
<1>8. CASE run(c)
  BY <1>5, <1>6, <1>8 DEF run
<1> QED
  BY <1>7, <1>8

(* In the other programs nobody sleeps.                                     *)
LEMMA NobodySleeps ==
  ASSUME Inv, NEW c \in Client, stack_push(c) \/ stack_pop(c) \/ increment(c) \/ get(c)
  PROVE  Inv'
<1> USE DEF Inv
<1>1. PICK op \in {"stack_push", "stack_pop", "increment", "get"} : Calls(c, op) /\ AtCall(c, op)
  BY DEF stack_push, stack_pop, increment, get, Calls, AtCall
<1>2. \A d \in Client : asleep[d] = "awake"
  BY <1>1, SleepersOfClass
<1>3. UNCHANGED asleep /\ Wake({})
  BY DEF stack_push, stack_pop, increment, get, Finds, Wake, Shape, TypeInv
<1>4. InVain' /\ CountInv'
  BY <1>2, <1>3 DEF InVain, CountInv, Enough, Sleepers
<1>5. Shape'
  <2>1. CASE stack_push(c)
    BY <1>3, <2>1, PutsShape DEF stack_push, WithArgument
  <2>2. CASE stack_pop(c)
    <3>1. CASE items # <<>> /\ Takes(c, Len(items))
      BY <1>3, <2>2, <3>1, TakesShape DEF stack_pop
    <3>2. CASE UNCHANGED <<todo, asleep, max_size, items, taken, current, ready>>
      BY <3>2 DEF Shape, TypeInv, ClassInv, SleepInv, AtCall
    <3> QED
      BY <2>2, <3>1, <3>2 DEF stack_pop
  <2>3. CASE increment(c)
    BY <2>3, ShapeAfterReturn DEF increment, Calls, Shape, TypeInv
  <2>4. CASE get(c)
    BY <2>4, ShapeAfterReturn DEF get, Finds, Calls, Shape, TypeInv
  <2> QED
    BY <2>1, <2>2, <2>3, <2>4
<1> QED
  BY <1>4, <1>5

LEMMA SpuriousStep ==
  ASSUME IsFiniteSet(Client), Inv, NEW c \in Client, Spurious(c)
  PROVE  Inv'
<1>1. Shape /\ Wake({c}) /\ UNCHANGED <<todo, max_size, items, current, ready>>
  BY DEF Inv, Spurious
<1>2. \A d \in Client : asleep'[d] = IF d = c THEN "awake" ELSE asleep[d]
  BY <1>1 DEF Wake
<1>3. Shape'
  <2>1. TypeInv'
    BY <1>1, WakeType DEF Shape, TypeInv
  <2>2. ClassInv'
    BY <1>1 DEF Shape, ClassInv
  <2>3. SleepInv'
    BY <1>1, <1>2 DEF Shape, SleepInv, AtCall
  <2> QED
    BY <2>1, <2>2, <2>3 DEF Shape
<1>4. InVain'
  BY <1>1, <1>2 DEF Inv, InVain, Argument
<1>5. CountInv'
  BY <1>1, EnoughAfterWake, Bounds DEF Inv, CountInv
<1> QED
  BY <1>3, <1>4, <1>5 DEF Inv

-----------------------------------------------------------------------------
LEMMA InitInv ==
  ASSUME \A program \in Programs : OneClass(program), Init
  PROVE  Inv
<1>1. \A d \in Client : asleep[d] = "awake"
  BY DEF Init
<1>2. TypeInv
  BY EmptySeq DEF Init, OneClass, TypeInv
<1>3. ClassInv
  BY DEF Init, OneClass, ClassInv
<1> QED
  BY <1>1, <1>2, <1>3 DEF Inv, Shape, SleepInv, InVain, CountInv, Enough, Sleepers

LEMMA NextInv ==
  ASSUME IsFiniteSet(Client), Inv, [Next]_vars
  PROVE  Inv'
<1>1. ASSUME NEW c \in Client, Step(c) PROVE Inv'
  <2>1. CASE Push(c) \/ Pop(c)
    BY <2>1, QueueStep
  <2>2. CASE push(c) \/ wait_and_pop(c) \/ try_pop(c)
    <3>1. PICK op \in {"push", "wait_and_pop", "try_pop"} : AtCall(c, op) /\ Calls(c, op)
      BY <2>2 DEF push, wait_and_pop, try_pop, Calls, AtCall
    <3> QED
      BY <2>2, <3>1, NotifyOneStep DEF push, wait_and_pop, try_pop, PopsOf, Calls
  <2>3. CASE shared_push(c) \/ shared_wait_and_pop(c)
    <3>1. PICK op \in {"shared_push", "shared_wait_and_pop"} : AtCall(c, op) /\ Calls(c, op)
      BY <2>3 DEF shared_push, shared_wait_and_pop, Calls, AtCall
    <3> QED
      BY <2>3, <3>1, NotifyOneStep DEF shared_push, shared_wait_and_pop, PopsOf, Calls
  <2>4. CASE stack_push(c) \/ stack_pop(c) \/ increment(c) \/ get(c)
    BY <2>4, NobodySleeps
  <2>5. CASE print_num(c) \/ run(c)
    BY <2>5, TurnStep
  <2> QED
    BY <1>1, <2>1, <2>2, <2>3, <2>4, <2>5 DEF Step
<1>2. ASSUME NEW c \in Client, Spurious(c) PROVE Inv'
  BY <1>2, SpuriousStep
<1>3. CASE UNCHANGED vars
  BY <1>3 DEF vars, Inv, Shape, TypeInv, ClassInv, SleepInv, AtCall, InVain, Argument,
     CountInv, Enough, Sleepers, Poppers, Calls
<1> QED
  BY <1>1, <1>2, <1>3 DEF Next

(* What the invariant says of those who sleep.                              *)
LEMMA InvWakeups == Inv => NoLostWakeup
<1>1. Poppers("cond") = Awake("wait_and_pop") \cup Awake("try_pop")
  BY DEF Poppers, PopsOf, Awake
<1>2. Poppers("cv") = Awake("shared_wait_and_pop")
  BY DEF Poppers, PopsOf, Awake
<1> QED
  BY <1>1, <1>2 DEF Inv, InVain, CountInv, Enough, NoLostWakeup

(* For any number of clients and any programs of one class each: whoever    *)
(* sleeps has nothing to wake up for, or somebody else is awake for it.     *)
THEOREM EachWakeupCounts ==
  ASSUME IsFiniteSet(Client), \A program \in Programs : OneClass(program)
  PROVE  Spec => []NoLostWakeup
<1>1. Init => Inv
  BY InitInv
<1>2. Inv /\ [Next]_vars => Inv'
  BY NextInv
<1> QED
  BY <1>1, <1>2, InvWakeups, PTL DEF Spec
=============================================================================
