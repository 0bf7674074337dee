---------------------------- MODULE StacksProofs ----------------------------
(***************************************************************************)
(* What MCStacks checks on three clients, proved for every finite set of   *)
(* clients and of addresses, every script and every number of slots: no    *)
(* pop() touches a node that another one deleted, between calls no node is *)
(* out of reach, and callers see the stack of LifoStack.                   *)
(*                                                                         *)
(* The nodes of the stack are a sequence s without repetitions, and        *)
(* BaseInv(s) is what the three stacks have in common.  CountedInv,        *)
(* HazardInv and PopCountInv add where each node off the stack is, and who *)
(* may still read it: the holders that the two counts of a node add up to; *)
(* the slot that a scan still has to meet; the pops that threads_in_pop    *)
(* counts.  StacksInv picks the one of the scheme and is inductive.  Each  *)
(* step lemma says with Becomes what s becomes and what callers see of it. *)
(***************************************************************************)
EXTENDS MCStacks, FiniteSetTheorems, SequenceTheorems, WellFoundedInduction, TLAPS

(* s is the sequence of nodes from ref along next, each met once.           *)
At(s, i) == IF i \in 1 .. Len(s) THEN s[i] ELSE Null
Elems(s) == {s[i] : i \in 1 .. Len(s)}
Once(s)  == \A i, j \in 1 .. Len(s) : s[i] = s[j] => i = j
Leads(ref, s) ==
    /\ s \in Seq(Address)
    /\ Once(s)
    /\ ref.ptr = At(s, 1)
    /\ \A i \in 1 .. Len(s) : next[s[i]].ptr = At(s, i + 1)

Refs == [external_count : Int, ptr : Address \cup {Null}]
Entries == Value \cup {Empty}
Places == {"idle", "push", "load", "next", "exchange", "alone", "claim", "leave", "chain", "chained",
           "decrement", "rechain", "rechained", "delete", "publish", "reload", "withdraw", "scan",
           "sweep", "unref", "increase", "settle"}

(* What each variable of LockFreeStack holds.                               *)
TypeInv ==
    /\ head \in Refs
    /\ next \in [Address -> Refs]
    /\ data \in [Address -> Entries]
    /\ live \in SUBSET Address
    /\ pc \in [Client -> Places]
    /\ todo \in [Client -> Seq(Entries)]
    /\ node \in [Client -> Address \cup {Null}]
    /\ got \in [Client -> Entries]

(* A call is about the first entry of todo.                                 *)
CallsInv ==
    /\ \A c \in Client : pc[c] # "idle" => todo[c] # <<>>
    /\ \A c \in Client : pc[c] \notin {"idle", "push"} => Head(todo[c]) = Empty
    /\ \A c \in Client : pc[c] = "push" => Head(todo[c]) # Empty /\ data[node[c]] = Head(todo[c])
    /\ PushedOnce => \A c, d \in Client : \A i \in 1 .. Len(todo[c]), j \in 1 .. Len(todo[d]) :
          todo[c][i] = todo[d][j] /\ todo[c][i] # Empty => c = d /\ i = j

(* The stack is s, which no push() has a node of.                           *)
StackIs(s) ==
    /\ Leads(head, s)
    /\ Elems(s) \subseteq live
    /\ \A c \in Client : pc[c] = "push" => node[c] \in live \ Elems(s)
    /\ \A c, d \in Client : pc[c] = "push" /\ pc[d] = "push" /\ node[c] = node[d] => c = d

(* What was pushed is not pushed again.                                     *)
ValuesInv(s) ==
    PushedOnce => \A k \in 1 .. Len(s) :
        /\ data[s[k]] # Empty
        /\ \A c \in Client : \A i \in 1 .. Len(todo[c]) : todo[c][i] # data[s[k]]

BaseInv(s) == TypeInv /\ CallsInv /\ StackIs(s) /\ ValuesInv(s)

(* The values that are still to be pushed, and what a step may answer when  *)
(* it takes nothing.                                                        *)
Awaiting == {v \in Value : \E c \in Client : \E i \in 1 .. Len(todo[c]) : todo[c][i] = v}
Answers  == got' = got \/ (head.ptr = Null /\ \E c \in Client : got' = [got EXCEPT ![c] = Empty])

(* What a step does when s becomes r: nothing that is seen, a pop(), or the *)
(* push() of what the new first node holds.                                 *)
Effect(s, r) ==
    /\ \A a \in Elems(s) : data'[a] = data[a]
    /\ \/ r = s /\ Awaiting' = Awaiting /\ Answers
       \/ /\ s # <<>> /\ r = Tail(s) /\ Awaiting' = Awaiting
          /\ \E c \in Client : got' = [got EXCEPT ![c] = data[s[1]]]
       \/ \E a \in Address : /\ r = <<a>> \o s /\ data'[a] = data[a] /\ got' = got
                             /\ data[a] \in Awaiting /\ Awaiting' = Awaiting \ {data[a]}
Becomes(s, r) == BaseInv(r)' /\ Effect(s, r)
-----------------------------------------------------------------------------
LEMMA PlacesAre ==
    /\ "idle" \in Places /\ "push" \in Places /\ "load" \in Places /\ "next" \in Places
    /\ "exchange" \in Places /\ "alone" \in Places /\ "claim" \in Places /\ "leave" \in Places
    /\ "chain" \in Places /\ "chained" \in Places /\ "decrement" \in Places
    /\ "rechain" \in Places /\ "rechained" \in Places /\ "delete" \in Places
    /\ "publish" \in Places /\ "reload" \in Places /\ "withdraw" \in Places /\ "scan" \in Places
    /\ "sweep" \in Places /\ "unref" \in Places /\ "increase" \in Places /\ "settle" \in Places
BY DEF Places

LEMMA PushedBy ==
    ASSUME CallsInv, PushedOnce, NEW c \in Client, NEW d \in Client,
           NEW i \in 1 .. Len(todo[c]), NEW j \in 1 .. Len(todo[d]),
           todo[c][i] = todo[d][j], todo[c][i] # Empty
    PROVE  c = d /\ i = j
BY DEF CallsInv

LEMMA EmptyLeads ==
    ASSUME NEW ref, ref.ptr = Null
    PROVE  Leads(ref, <<>>) /\ Elems(<<>>) = {}
BY DEF Leads, Elems, Once, At

LEMMA FirstOf ==
    ASSUME TypeInv, NEW ref, NEW s, Leads(ref, s), ref.ptr # Null
    PROVE  /\ Len(s) > 0 /\ s # <<>> /\ s[1] = ref.ptr /\ s[1] \in Address
           /\ Head(s) = ref.ptr
           /\ ref.ptr \in Elems(s)
<1>1. s \in Seq(Address) /\ Len(s) \in Nat /\ 1 \in 1 .. Len(s)
  BY DEF Leads, At
<1> QED
  BY <1>1 DEF Leads, At, Elems

LEMMA TailLeads ==
    ASSUME TypeInv, NEW ref, NEW s, Leads(ref, s), ref.ptr # Null
    PROVE  /\ Leads(next[ref.ptr], Tail(s))
           /\ Elems(Tail(s)) = Elems(s) \ {ref.ptr}
<1>1. s \in Seq(Address) /\ s # <<>> /\ s[1] = ref.ptr /\ Len(s) > 0 /\ Len(s) \in Nat
  <2>1. s \in Seq(Address) /\ Len(s) \in Nat
    BY DEF Leads
  <2> QED
    BY <2>1, FirstOf
<1>2. /\ Tail(s) \in Seq(Address) /\ Len(Tail(s)) = Len(s) - 1
      /\ \A i \in 1 .. Len(s) - 1 : Tail(s)[i] = s[i + 1]
  BY <1>1
<1>3. Once(Tail(s))
  BY <1>1, <1>2 DEF Leads, Once
<1>4. \A i \in 1 .. Len(s) : At(Tail(s), i) = At(s, i + 1)
  BY <1>1, <1>2 DEF At
<1>5. 1 \in 1 .. Len(s) /\ \A i \in 1 .. Len(s) - 1 : i + 1 \in 1 .. Len(s)
  BY <1>1
<1>6. next[ref.ptr].ptr = At(Tail(s), 1)
  BY <1>1, <1>4, <1>5 DEF Leads
<1>7. ASSUME NEW i \in 1 .. Len(Tail(s)) PROVE next[Tail(s)[i]].ptr = At(Tail(s), i + 1)
  BY <1>1, <1>2, <1>4, <1>5 DEF Leads
<1>8. Elems(Tail(s)) = Elems(s) \ {ref.ptr}
  <2>1. ASSUME NEW i \in 1 .. Len(s), s[i] # ref.ptr
        PROVE  \E k \in 1 .. Len(Tail(s)) : s[i] = Tail(s)[k]
    <3>1. i - 1 \in 1 .. Len(s) - 1 /\ (i - 1) + 1 = i
      BY <2>1, <1>1
    <3> QED
      BY <3>1, <1>2
  <2>2. ASSUME NEW k \in 1 .. Len(Tail(s))
        PROVE  Tail(s)[k] # ref.ptr /\ \E i \in 1 .. Len(s) : s[i] = Tail(s)[k]
    BY <2>2, <1>1, <1>2, <1>5 DEF Leads, Once
  <2>3. Elems(Tail(s)) \subseteq Elems(s) \ {ref.ptr}
    BY <2>2 DEF Elems
  <2>4. Elems(s) \ {ref.ptr} \subseteq Elems(Tail(s))
    BY <2>1 DEF Elems
  <2> QED
    BY <2>3, <2>4
<1> QED
  BY <1>2, <1>3, <1>6, <1>7, <1>8 DEF Leads

(* The same nodes, when nothing has happened to them.                       *)
LEMMA LeadsStays ==
    ASSUME NEW ref, NEW s, Leads(ref, s), NEW new, new.ptr = ref.ptr,
           \A a \in Elems(s) : next'[a].ptr = next[a].ptr
    PROVE  Leads(new, s)'
BY DEF Leads, Elems

LEMMA PushElems ==
    ASSUME NEW s \in Seq(Address), NEW a \in Address
    PROVE  Elems(<<a>> \o s) = Elems(s) \cup {a}
<1> DEFINE r == <<a>> \o s
<1>1. /\ r \in Seq(Address) /\ Len(r) = Len(s) + 1 /\ r[1] = a /\ Len(s) \in Nat
      /\ \A i \in 1 .. Len(s) : r[i + 1] = s[i]
  OBVIOUS
<1> HIDE DEF r
<1>2. /\ 1 \in 1 .. Len(r)
      /\ \A i \in 1 .. Len(s) : i + 1 \in 1 .. Len(r)
      /\ \A i \in 1 .. Len(r) : i = 1 \/ (i - 1 \in 1 .. Len(s) /\ r[i] = s[i - 1])
  BY <1>1
<1>3. Elems(r) \subseteq Elems(s) \cup {a}
  BY <1>1, <1>2 DEF Elems
<1>4. Elems(s) \cup {a} \subseteq Elems(r)
  BY <1>1, <1>2 DEF Elems
<1> QED
  BY <1>3, <1>4 DEF r

LEMMA PushLeads ==
    ASSUME TypeInv, NEW ref, NEW s, Leads(ref, s), NEW new, NEW a \in Address \ Elems(s),
           new.ptr = a, next'[a].ptr = ref.ptr,
           \A b \in Elems(s) : next'[b].ptr = next[b].ptr
    PROVE  /\ Leads(new, <<a>> \o s)'
           /\ Elems(<<a>> \o s) = Elems(s) \cup {a}
<1> DEFINE r == <<a>> \o s
<1>1. s \in Seq(Address) /\ Len(s) \in Nat
  BY DEF Leads
<1>2. /\ r \in Seq(Address) /\ Len(r) = Len(s) + 1 /\ r[1] = a
      /\ \A i \in 1 .. Len(s) : r[i + 1] = s[i]
  BY <1>1
<1> HIDE DEF r
<1>3. \A i \in 1 .. Len(r) : i = 1 \/ (i - 1 \in 1 .. Len(s) /\ r[i] = s[i - 1])
  BY <1>1, <1>2
<1>4. Elems(r) = Elems(s) \cup {a}
  BY <1>1, PushElems DEF r
<1>5. Once(r)
  <2> SUFFICES ASSUME NEW i \in 1 .. Len(r), NEW j \in 1 .. Len(r), r[i] = r[j] PROVE i = j
    BY DEF Once
  <2>1. \A k \in 1 .. Len(s) : s[k] # a
    BY DEF Elems
  <2>2. CASE i = 1
    BY <2>1, <2>2, <1>2, <1>3
  <2>3. CASE j = 1
    BY <2>1, <2>3, <1>2, <1>3
  <2>4. CASE i # 1 /\ j # 1
    <3>1. i - 1 \in 1 .. Len(s) /\ j - 1 \in 1 .. Len(s) /\ s[i - 1] = s[j - 1]
      BY <2>4, <1>3
    <3>2. i - 1 = j - 1
      BY <3>1 DEF Leads, Once
    <3> QED
      BY <3>2, <1>1, <1>2
  <2> QED
    BY <2>2, <2>3, <2>4
<1>6. \A i \in 1 .. Len(s) : At(r, i + 1) = s[i]
  BY <1>1, <1>2 DEF At
<1>7. At(r, 1) = a /\ \A i \in 1 .. Len(s) + 1 : At(r, i + 1) = At(s, i)
  BY <1>1, <1>2 DEF At
<1>8. ASSUME NEW i \in 1 .. Len(r) PROVE next'[r[i]].ptr = At(r, i + 1)
  <2>1. CASE i = 1
    BY <2>1, <1>1, <1>2, <1>7 DEF Leads
  <2>2. CASE i # 1
    <3>1. i - 1 \in 1 .. Len(s) /\ r[i] = s[i - 1] /\ (i - 1) + 1 = i
      BY <2>2, <1>1, <1>3
    <3>2. next'[r[i]].ptr = At(s, i) /\ i \in 1 .. Len(s) + 1
      BY <3>1, <1>1 DEF Leads, Elems
    <3> QED
      BY <3>2, <1>7
  <2> QED
    BY <2>1, <2>2
<1>9. Leads(new, r)'
  BY <1>2, <1>5, <1>7, <1>8 DEF Leads, At, Once
<1> QED
  BY <1>4, <1>9 DEF r
-----------------------------------------------------------------------------
(* A nonempty set of naturals has a least element.                          *)
LEMMA LeastNatural ==
    ASSUME NEW S \in SUBSET Nat, S # {}
    PROVE  \E x \in S : \A y \in S : x <= y
<1>1. \E x \in S : \A y \in S : ~(<<y, x>> \in OpToRel(<, Nat))
  BY NatLessThanWellFounded, WFMin
<1>2. ASSUME NEW x \in Nat, NEW y \in Nat, ~(<<y, x>> \in OpToRel(<, Nat))
      PROVE  x <= y
  BY <1>2 DEF OpToRel
<1> QED
  BY <1>1, <1>2

(* NodesFrom(ref) is that sequence: its equation has one solution, for two  *)
(* would differ at a least index.                                           *)
LEMMA NodesAre ==
    ASSUME NEW ref, NEW s, Leads(ref, s)
    PROVE  NodesFrom(ref) = s
<1> DEFINE C == Cardinality(Address)
           Met == [i \in 1 .. C |-> At(s, i)]
           Along(g) == g = [i \in 1 .. C |->
               IF i = 1 THEN ref.ptr ELSE IF g[i - 1] = Null THEN Null ELSE next[g[i - 1]].ptr]
           at == CHOOSE g : Along(g)
<1>1. C \in Nat /\ s \in Seq(Address) /\ Len(s) \in Nat /\ Null \notin Address
  BY AddressAssumption, FS_CardinalityType DEF Leads
<1>2. Len(s) <= C
  <2>1. s \in Injection(1 .. Len(s), Address)
    BY <1>1 DEF Leads, Once, Injection, IsInjective
  <2>2. Cardinality(1 .. Len(s)) <= Cardinality(Address)
    BY <2>1, AddressAssumption, FS_Injection
  <2> QED
    BY <2>2, <1>1, FS_Interval
<1>3. Along(Met)
  <2> SUFFICES ASSUME NEW i \in 1 .. C
               PROVE  Met[i] = IF i = 1 THEN ref.ptr
                               ELSE IF Met[i - 1] = Null THEN Null ELSE next[Met[i - 1]].ptr
    OBVIOUS
  <2>1. CASE i = 1
    BY <2>1 DEF Leads
  <2>2. CASE i # 1
    <3>1. i - 1 \in 1 .. C /\ (i - 1) + 1 = i
      BY <2>2, <1>1
    <3>2. CASE i - 1 \in 1 .. Len(s)
      <4>1. Met[i - 1] = s[i - 1] /\ s[i - 1] \in Address
        BY <3>1, <3>2, <1>1 DEF At
      <4> QED
        BY <4>1, <3>1, <3>2, <2>2, <1>1 DEF Leads
    <3>3. CASE i - 1 \notin 1 .. Len(s)
      BY <3>1, <3>3, <2>2, <1>1 DEF At
    <3> QED
      BY <3>2, <3>3
  <2> QED
    BY <2>1, <2>2
<1>4. ASSUME NEW g, Along(g) PROVE g = Met
  <2>1. /\ \A i \in 1 .. C : g[i] = IF i = 1 THEN ref.ptr
               ELSE IF g[i - 1] = Null THEN Null ELSE next[g[i - 1]].ptr
        /\ g = [i \in 1 .. C |-> g[i]]
    <3> DEFINE value(i) == IF i = 1 THEN ref.ptr
                           ELSE IF g[i - 1] = Null THEN Null ELSE next[g[i - 1]].ptr
    <3>1. g = [i \in 1 .. C |-> value(i)]
      BY <1>4
    <3> HIDE DEF value
    <3>2. \A i \in 1 .. C : g[i] = value(i)
      BY <3>1
    <3>3. g = [i \in 1 .. C |-> g[i]]
      BY <3>1
    <3> QED
      BY <3>2, <3>3 DEF value
  <2>2. \A i \in 1 .. C : Met[i] = IF i = 1 THEN ref.ptr
           ELSE IF Met[i - 1] = Null THEN Null ELSE next[Met[i - 1]].ptr
    BY <1>3
  <2> HIDE DEF Met
  <2> DEFINE Differ == {i \in 1 .. C : g[i] # Met[i]}
  <2>3. Differ = {}
    <3> SUFFICES ASSUME Differ # {} PROVE FALSE
      OBVIOUS
    <3>1. Differ \in SUBSET Nat
      BY <1>1
    <3>2. PICK i \in Differ : \A j \in Differ : i <= j
      BY <3>1, LeastNatural
    <3>3. i # 1
      BY <2>1, <2>2, <3>2
    <3>4. i - 1 \in 1 .. C /\ i - 1 \notin Differ
      BY <1>1, <3>1, <3>2, <3>3
    <3>5. g[i - 1] = Met[i - 1]
      BY <3>4
    <3> QED
      BY <2>1, <2>2, <3>2, <3>3, <3>5
  <2> QED
    BY <2>1, <2>3 DEF Met
<1> DEFINE length == Cardinality({i \in DOMAIN at : at[i] # Null})
<1>5. NodesFrom(ref) = [i \in 1 .. length |-> at[i]]
  BY DEF NodesFrom
<1> HIDE DEF Along
<1>6. Along(CHOOSE g : Along(g))
  BY <1>3
<1>7. at = Met
  BY <1>4, <1>6
<1>8. {i \in DOMAIN Met : Met[i] # Null} = 1 .. Len(s)
  BY <1>1, <1>2 DEF At
<1> HIDE DEF at, Met
<1>9. length = Len(s)
  <2>1. Cardinality(1 .. Len(s)) = Len(s)
    <3>1. /\ 1 \in Int /\ Len(s) \in Int
          /\ IF 1 > Len(s) THEN Len(s) = 0 ELSE Len(s) - 1 + 1 = Len(s)
      BY <1>1
    <3> QED
      BY <3>1, FS_Interval
  <2> QED
    BY <2>1, <1>7, <1>8
<1>10. \A i \in 1 .. Len(s) : Met[i] = s[i]
  BY <1>1, <1>2 DEF Met, At
<1>11. NodesFrom(ref) = [i \in 1 .. Len(s) |-> s[i]]
  BY <1>5, <1>7, <1>9, <1>10
<1> QED
  BY <1>1, <1>11
-----------------------------------------------------------------------------
(* push().                                                                  *)
LEMMA PushLoadKeeps ==
    ASSUME NEW s, BaseInv(s), NEW c \in Client, PushLoad(c)
    PROVE  Becomes(s, s)
<1> USE DEF BaseInv
<1>1. /\ pc[c] = "idle" /\ todo[c] # <<>> /\ Head(todo[c]) # Empty
      /\ pc' = [pc EXCEPT ![c] = "push"]
      /\ UNCHANGED <<head, todo, got, fault>>
  BY DEF PushLoad, Calls, To
<1>2. PICK a \in Address \ live :
         /\ live' = live \cup {a}
         /\ data' = [data EXCEPT ![a] = Head(todo[c])]
         /\ next' = [next EXCEPT ![a] = head]
         /\ node' = [node EXCEPT ![c] = a]
  BY DEF PushLoad, Holds
<1>3. /\ pc'[c] = "push" /\ node'[c] = a
      /\ \A d \in Client : d # c => pc'[d] = pc[d] /\ node'[d] = node[d]
  BY <1>1, <1>2 DEF TypeInv
<1>4. /\ data'[a] = Head(todo[c])
      /\ \A b \in Address \ {a} : next'[b] = next[b] /\ data'[b] = data[b]
  BY <1>1, <1>2 DEF TypeInv
<1>5. TypeInv'
  <2>1. Head(todo[c]) \in Entries
    BY <1>1 DEF TypeInv
  <2>2. live' \in SUBSET Address /\ data' \in [Address -> Entries] /\ next' \in [Address -> Refs]
    BY <2>1, <1>2 DEF TypeInv
  <2>3. pc' \in [Client -> Places] /\ node' \in [Client -> Address \cup {Null}]
    <3>1. pc \in [Client -> Places] /\ node \in [Client -> Address \cup {Null}]
      BY DEF TypeInv
    <3> QED
      BY <3>1, <1>1, <1>2, PlacesAre
  <2> QED
    BY <2>2, <2>3, <1>1 DEF TypeInv
<1>6. Elems(s) \subseteq Address \ {a} /\ \A d \in Client : pc[d] = "push" => node[d] \in Address \ {a}
  BY <1>2 DEF StackIs, TypeInv
<1>7. CallsInv'
  <2>1. ASSUME NEW d \in Client, pc'[d] = "push"
        PROVE  Head(todo'[d]) # Empty /\ data'[node'[d]] = Head(todo'[d])
    <3>1. CASE d = c
      BY <3>1, <1>1, <1>3, <1>4
    <3>2. CASE d # c
      BY <3>2, <2>1, <1>1, <1>3, <1>4, <1>6 DEF CallsInv
    <3> QED
      BY <3>1, <3>2
  <2> QED
    BY <2>1, <1>1, <1>3 DEF CallsInv
<1>8. Leads(head, s)'
  <2>1. PICK h : h = head'
    OBVIOUS
  <2>2. Leads(h, s)'
    BY <2>1, <1>1, <1>4, <1>6, LeadsStays DEF StackIs
  <2> QED
    BY <2>1, <2>2 DEF Leads
<1>9. StackIs(s)'
  BY <1>2, <1>3, <1>6, <1>8 DEF StackIs, Elems
<1>10. ValuesInv(s)'
  BY <1>1, <1>4, <1>6 DEF ValuesInv, Elems
<1>11. Effect(s, s)
  <2>1. Awaiting' = Awaiting
    BY <1>1 DEF Awaiting
  <2>2. Answers
    BY <1>1 DEF Answers
  <2>3. \A b \in Elems(s) : data'[b] = data[b]
    BY <1>4, <1>6
  <2> QED
    BY <2>1, <2>2, <2>3 DEF Effect
<1> QED
  BY <1>5, <1>7, <1>9, <1>10, <1>11 DEF Becomes

(* A push() whose exchange fails keeps the stack, and one whose exchange    *)
(* succeeds puts its node before it.                                        *)
LEMMA PushExchangeKeeps ==
    ASSUME NEW s, BaseInv(s), NEW c \in Client, PushExchange(c)
    PROVE  \/ Becomes(s, s) /\ UNCHANGED <<head, pc, todo, data, live, node, got>>
           \/ /\ BaseInv(<<node[c]>> \o s)' /\ Effect(s, <<node[c]>> \o s)
              /\ head' = Ref(node[c]) /\ UNCHANGED next
              /\ pc' = [pc EXCEPT ![c] = "idle"] /\ todo' = [todo EXCEPT ![c] = Tail(@)]
<1> USE DEF BaseInv
<1>0. /\ pc[c] = "push" /\ UNCHANGED <<data, live, node, got, fault>>
      /\ node[c] \in live \ Elems(s) /\ node[c] \in Address /\ todo[c] # <<>>
      /\ Elems(s) \subseteq live
  BY DEF PushExchange, StackIs, TypeInv, CallsInv
<1>1. CASE head # next[node[c]] /\ next' = [next EXCEPT ![node[c]] = head]
           /\ UNCHANGED <<head, pc, todo>>
  <2>1. TypeInv'
    BY <1>0, <1>1 DEF TypeInv
  <2>2. CallsInv'
    BY <1>0, <1>1 DEF CallsInv
  <2>3. \A a \in Elems(s) : next'[a] = next[a]
    BY <1>0, <1>1 DEF TypeInv
  <2>4. Leads(head, s)'
    <3>1. PICK h : h = head'
      OBVIOUS
    <3>2. Leads(h, s)'
      BY <3>1, <1>1, <2>3, LeadsStays DEF StackIs
    <3> QED
      BY <3>1, <3>2 DEF Leads
  <2>5. StackIs(s)'
    BY <2>4, <1>0, <1>1 DEF StackIs, Elems
  <2>6. ValuesInv(s)'
    BY <1>0, <1>1 DEF ValuesInv
  <2>7. Effect(s, s)
    <3>1. Awaiting' = Awaiting
      BY <1>1 DEF Awaiting
    <3> QED
      BY <3>1, <1>0 DEF Effect, Answers
  <2> QED
    BY <2>1, <2>2, <2>5, <2>6, <2>7, <1>0, <1>1 DEF Becomes
<1>2. CASE head = next[node[c]] /\ head' = Ref(node[c]) /\ Returns(c) /\ UNCHANGED next
  <2> DEFINE r == <<node[c]>> \o s
  <2>1. /\ pc' = [pc EXCEPT ![c] = "idle"] /\ todo' = [todo EXCEPT ![c] = Tail(@)]
    BY <1>2 DEF Returns, To
  <2>2. /\ pc'[c] = "idle" /\ todo'[c] = Tail(todo[c])
        /\ \A d \in Client : d # c => pc'[d] = pc[d] /\ todo'[d] = todo[d]
    BY <2>1 DEF TypeInv
  <2>3. /\ Tail(todo[c]) \in Seq(Entries) /\ Len(todo[c]) \in Nat /\ Len(todo[c]) > 0
        /\ Len(Tail(todo[c])) = Len(todo[c]) - 1
        /\ \A i \in 1 .. Len(todo[c]) - 1 : Tail(todo[c])[i] = todo[c][i + 1]
        /\ Head(todo[c]) = todo[c][1]
    BY <1>0 DEF TypeInv
  <2>4. TypeInv'
    <3>1. head' \in Refs
      BY <1>0, <1>2 DEF Refs, Ref
    <3>2. pc' \in [Client -> Places] /\ todo' \in [Client -> Seq(Entries)]
      <4>1. pc \in [Client -> Places] /\ todo \in [Client -> Seq(Entries)]
        BY DEF TypeInv
      <4> QED
        BY <4>1, <2>1, <2>3, PlacesAre
    <3> QED
      BY <3>1, <3>2, <1>0, <1>2 DEF TypeInv
  <2>5. ASSUME NEW d \in Client, NEW i \in 1 .. Len(todo'[d])
        PROVE  \E k \in 1 .. Len(todo[d]) :
                  todo'[d][i] = todo[d][k] /\ (IF d = c THEN k = i + 1 ELSE k = i)
    <3>1. CASE d = c
      <4>1. i + 1 \in 1 .. Len(todo[c]) /\ i \in 1 .. Len(todo[c]) - 1
        BY <3>1, <2>2, <2>3
      <4> QED
        BY <4>1, <3>1, <2>2, <2>3
    <3>2. CASE d # c
      BY <3>2, <2>2
    <3> QED
      BY <3>1, <3>2
  <2>6. CallsInv'
    <3>1. ASSUME NEW d \in Client, NEW e \in Client,
                 NEW i \in 1 .. Len(todo'[d]), NEW j \in 1 .. Len(todo'[e]),
                 todo'[d][i] = todo'[e][j], todo'[d][i] # Empty, PushedOnce
          PROVE  d = e /\ i = j
      <4>1. PICK k \in 1 .. Len(todo[d]) :
                  todo'[d][i] = todo[d][k] /\ (IF d = c THEN k = i + 1 ELSE k = i)
        BY <2>5
      <4>2. PICK l \in 1 .. Len(todo[e]) :
                  todo'[e][j] = todo[e][l] /\ (IF e = c THEN l = j + 1 ELSE l = j)
        BY <2>5
      <4>3. d = e /\ k = l
        <5>1. todo[d][k] = todo[e][l] /\ todo[d][k] # Empty
          BY <3>1, <4>1, <4>2
        <5> QED
          BY <5>1, <3>1, PushedBy
      <4>4. i \in Int /\ j \in Int
        BY <2>4 DEF TypeInv
      <4> QED
        BY <4>1, <4>2, <4>3, <4>4
    <3> QED
      BY <3>1, <1>0, <2>2 DEF CallsInv
  <2>7. /\ Leads(head, r)'
        /\ Elems(r) = Elems(s) \cup {node[c]}
    <3>1. PICK h : h = head'
      OBVIOUS
    <3>2. h.ptr = node[c]
      BY <3>1, <1>2 DEF Ref
    <3>3. Leads(h, r)' /\ Elems(r) = Elems(s) \cup {node[c]}
      <4>1. PICK a : a = node[c]
        OBVIOUS
      <4>2. Leads(h, <<a>> \o s)' /\ Elems(<<a>> \o s) = Elems(s) \cup {a}
        BY <4>1, <3>2, <1>0, <1>2, PushLeads DEF StackIs
      <4>3. node'[c] = a
        BY <4>1, <1>0
      <4> QED
        BY <4>1, <4>2, <4>3 DEF Leads
    <3> QED
      BY <3>1, <3>3, <1>0 DEF Leads
  <2>8. node'[c] = node[c]
    BY <1>0
  <2>9. StackIs(r)'
    <3>1. Elems(r)' = Elems(r)
      BY <2>8 DEF Elems
    <3> QED
      BY <3>1, <2>2, <2>7, <1>0 DEF StackIs
  <2>10. ValuesInv(r)'
    <3>1. ASSUME PushedOnce, NEW k \in 1 .. Len(r)
          PROVE  /\ data[r[k]] # Empty
                 /\ \A d \in Client : \A i \in 1 .. Len(todo'[d]) : todo'[d][i] # data[r[k]]
      <4>1. s \in Seq(Address) /\ Len(s) \in Nat
        BY DEF StackIs, Leads
      <4>2. CASE k = 1
        <5>1. r[k] = node[c] /\ data[r[k]] = todo[c][1] /\ todo[c][1] # Empty
          BY <4>1, <4>2, <1>0, <2>3 DEF CallsInv
        <5>2. ASSUME NEW d \in Client, NEW i \in 1 .. Len(todo'[d]), todo'[d][i] = data[r[k]]
              PROVE  FALSE
          <6>1. PICK l \in 1 .. Len(todo[d]) :
                      todo'[d][i] = todo[d][l] /\ (IF d = c THEN l = i + 1 ELSE l = i)
            BY <2>5
          <6>2. 1 \in 1 .. Len(todo[c])
            BY <2>3
          <6>3. d = c /\ l = 1
              <7>1. todo[d][l] = todo[c][1] /\ todo[d][l] # Empty
                BY <5>1, <5>2, <6>1
              <7> QED
                BY <7>1, <6>2, <3>1, PushedBy
          <6> QED
            BY <6>1, <6>3
        <5> QED
          BY <5>1, <5>2
      <4>3. CASE k # 1
        <5>1. k - 1 \in 1 .. Len(s) /\ r[k] = s[k - 1]
          BY <4>1, <4>3
        <5>2. data[s[k - 1]] # Empty
              /\ \A d \in Client : \A i \in 1 .. Len(todo[d]) : todo[d][i] # data[s[k - 1]]
          BY <5>1, <3>1 DEF ValuesInv
        <5> QED
          BY <5>1, <5>2, <2>5
      <4> QED
        BY <4>2, <4>3
    <3>2. r' = r /\ data' = data
      BY <2>8, <1>0
    <3> QED
      BY <3>1, <3>2 DEF ValuesInv
  <2>11. PICK v : v = todo[c][1]
    OBVIOUS
  <2>12. v \in Value /\ data[node[c]] = v /\ v # Empty /\ 1 \in 1 .. Len(todo[c])
    <3>1. todo[c] \in Seq(Entries) /\ 1 \in 1 .. Len(todo[c])
      BY <2>3 DEF TypeInv
    <3>2. todo[c][1] \in Entries
      BY <3>1
    <3> QED
      BY <3>1, <3>2, <2>3, <2>11, <1>0 DEF CallsInv, Entries
  <2>13. Awaiting' = Awaiting \ {v}
    <3>1. ASSUME NEW d \in Client, NEW i \in 1 .. Len(todo'[d])
          PROVE  todo'[d][i] # v /\ \E k \in 1 .. Len(todo[d]) : todo'[d][i] = todo[d][k]
      <4>1. PICK k \in 1 .. Len(todo[d]) :
                  todo'[d][i] = todo[d][k] /\ (IF d = c THEN k = i + 1 ELSE k = i)
        BY <2>5
      <4>2. ASSUME todo'[d][i] = v PROVE FALSE
        <5>1. todo[d][k] = todo[c][1] /\ todo[d][k] # Empty
          BY <4>1, <4>2, <2>11, <2>12
        <5>2. d = c /\ k = 1
          BY <5>1, <2>12, PushedOnceAssumption, PushedBy
        <5> QED
          BY <5>2, <4>1
      <4> QED
        BY <4>1, <4>2
    <3>2. ASSUME NEW d \in Client, NEW i \in 1 .. Len(todo[d]), todo[d][i] # v
          PROVE  \E k \in 1 .. Len(todo'[d]) : todo'[d][k] = todo[d][i]
      <4>1. CASE d # c
        BY <4>1, <2>2
      <4>2. CASE d = c
        <5>1. i # 1
          BY <4>2, <3>2, <2>11
        <5>2. i - 1 \in 1 .. Len(todo[c]) - 1
          BY <5>1, <4>2, <2>3
        <5>3. i - 1 \in 1 .. Len(Tail(todo[c])) /\ Tail(todo[c])[i - 1] = todo[c][i]
          BY <5>2, <2>3
        <5> QED
          BY <5>3, <4>2, <2>2
      <4> QED
        BY <4>1, <4>2
    <3>3. Awaiting' \subseteq Awaiting \ {v}
      BY <3>1 DEF Awaiting
    <3>4. Awaiting \ {v} \subseteq Awaiting'
      BY <3>2 DEF Awaiting
    <3> QED
      BY <3>3, <3>4
  <2>14. v \in Awaiting
    BY <2>11, <2>12 DEF Awaiting
  <2>15. Effect(s, r)
    BY <2>12, <2>13, <2>14, <1>0 DEF Effect
  <2> QED
    BY <2>4, <2>6, <2>9, <2>10, <2>15, <2>1, <1>2, <2>8
<1> QED
  BY <1>1, <1>2 DEF PushExchange
-----------------------------------------------------------------------------
(* A step of c in a pop(): it starts one, goes on with it, or returns; the  *)
(* other clients stay where they are.                                       *)
Popping(c) ==
    /\ pc[c] # "push"
    /\ pc' \in [Client -> Places] /\ pc'[c] # "push"
    /\ todo' \in [Client -> Seq(Entries)]
    /\ node' \in [Client -> Address \cup {Null}]
    /\ \A d \in Client \ {c} : pc'[d] = pc[d] /\ todo'[d] = todo[d] /\ node'[d] = node[d]
    /\ \/ /\ todo'[c] = todo[c]
          /\ pc[c] = "idle" /\ pc'[c] # "idle" => todo[c] # <<>> /\ Head(todo[c]) = Empty
       \/ /\ pc[c] # "idle" /\ pc'[c] = "idle"
          /\ todo'[c] = Tail(todo[c])

(* What is left to do of each client was left to do before.                *)
Remains(c) ==
    \A d \in Client : \A i \in 1 .. Len(todo'[d]) : \E k \in 1 .. Len(todo[d]) :
        /\ todo'[d][i] = todo[d][k]
        /\ k = i \/ (todo'[d] = Tail(todo[d]) /\ d = c /\ pc[c] # "idle" /\ k = i + 1)

LEMMA PoppingTodo ==
    ASSUME TypeInv, CallsInv, NEW c \in Client, Popping(c)
    PROVE  Remains(c)
<1> SUFFICES ASSUME NEW d \in Client, NEW i \in 1 .. Len(todo'[d])
             PROVE  \E k \in 1 .. Len(todo[d]) :
                       /\ todo'[d][i] = todo[d][k]
                       /\ k = i \/ (todo'[d] = Tail(todo[d]) /\ d = c /\ pc[c] # "idle" /\ k = i + 1)
  BY DEF Remains
<1>1. CASE todo'[d] = todo[d]
  BY <1>1
<1>2. CASE d = c /\ todo'[c] = Tail(todo[c]) /\ pc[c] # "idle"
  <2>1. todo[c] # <<>> /\ todo[c] \in Seq(Entries)
    BY <1>2 DEF CallsInv, TypeInv
  <2>2. i + 1 \in 1 .. Len(todo[c]) /\ Tail(todo[c])[i] = todo[c][i + 1]
    BY <2>1, <1>2
  <2> QED
    BY <2>2, <1>2
<1> QED
  BY <1>1, <1>2 DEF Popping

LEMMA PoppingCalls ==
    ASSUME TypeInv, CallsInv, NEW c \in Client, Popping(c),
           \A d \in Client : pc[d] = "push" => data'[node[d]] = data[node[d]]
    PROVE  CallsInv'
<1>0. Remains(c)
  BY PoppingTodo
<1>1. ASSUME NEW d \in Client, NEW e \in Client,
             NEW i \in 1 .. Len(todo'[d]), NEW j \in 1 .. Len(todo'[e]),
             todo'[d][i] = todo'[e][j], todo'[d][i] # Empty, PushedOnce
      PROVE  d = e /\ i = j
  <2>1. PICK k \in 1 .. Len(todo[d]) :
             /\ todo'[d][i] = todo[d][k]
             /\ k = i \/ (todo'[d] = Tail(todo[d]) /\ d = c /\ pc[c] # "idle" /\ k = i + 1)
    BY <1>0 DEF Remains
  <2>2. PICK l \in 1 .. Len(todo[e]) :
             /\ todo'[e][j] = todo[e][l]
             /\ l = j \/ (todo'[e] = Tail(todo[e]) /\ e = c /\ pc[c] # "idle" /\ l = j + 1)
    BY <1>0 DEF Remains
  <2>3. d = e /\ k = l
    <3>1. todo[d][k] = todo[e][l] /\ todo[d][k] # Empty
      BY <1>1, <2>1, <2>2
    <3> QED
      BY <3>1, <1>1, PushedBy
  <2>4. i \in Int /\ j \in Int /\ k \in Int
    BY DEF TypeInv, Popping
  <2>5. ASSUME todo'[d] = Tail(todo[d]), d = c, pc[c] # "idle", todo'[c] = todo[c] PROVE FALSE
    <3>1. todo[c] # <<>> /\ todo[c] \in Seq(Entries)
      BY <2>5 DEF CallsInv, TypeInv
    <3>2. Len(Tail(todo[c])) # Len(todo[c])
      BY <3>1
    <3> QED
      BY <3>2, <2>5
  <2>6. CASE todo'[d] = todo[d]
    BY <2>1, <2>2, <2>3, <2>4, <2>5, <2>6
  <2>7. CASE todo'[d] = Tail(todo[d]) /\ d = c /\ pc[c] # "idle"
    <3>1. todo[c] # <<>> /\ todo[c] \in Seq(Entries)
      BY <2>7 DEF CallsInv, TypeInv
    <3>2. Tail(todo[c])[i] = todo[c][i + 1] /\ Tail(todo[c])[j] = todo[c][j + 1]
          /\ i + 1 \in 1 .. Len(todo[c]) /\ j + 1 \in 1 .. Len(todo[c])
      BY <3>1, <2>3, <2>7
    <3>3. todo[c][i + 1] = todo[c][j + 1] /\ todo[c][i + 1] # Empty
      BY <3>2, <1>1, <2>3, <2>7
    <3>4. i + 1 = j + 1
      BY <3>2, <3>3, <1>1 DEF CallsInv
    <3> QED
      BY <3>4, <2>3, <2>4
  <2>8. todo'[d] = todo[d] \/ (todo'[d] = Tail(todo[d]) /\ d = c /\ pc[c] # "idle")
    BY DEF Popping
  <2> QED
    BY <2>6, <2>7, <2>8
<1>2. ASSUME NEW d \in Client, pc'[d] # "idle" PROVE todo'[d] = todo[d] /\ todo[d] # <<>>
  BY <1>2 DEF Popping, CallsInv
<1>3. ASSUME NEW d \in Client, pc'[d] \notin {"idle", "push"} PROVE Head(todo'[d]) = Empty
  BY <1>2, <1>3 DEF Popping, CallsInv
<1>4. ASSUME NEW d \in Client, pc'[d] = "push"
      PROVE  Head(todo'[d]) # Empty /\ data'[node'[d]] = Head(todo'[d])
  BY <1>4 DEF Popping, CallsInv
<1> QED
  BY <1>1, <1>2, <1>3, <1>4 DEF CallsInv

(* What a step that changes nothing, or only fault, keeps.                  *)
LEMMA BaseStays ==
    ASSUME NEW s, BaseInv(s), UNCHANGED <<head, next, data, live, pc, todo, node, got>>
    PROVE  BaseInv(s)'
<1> USE DEF BaseInv
<1>1. TypeInv'
  BY DEF TypeInv
<1>2. CallsInv'
  BY DEF CallsInv
<1>3. Leads(head, s)' /\ Elems(s)' = Elems(s)
  BY DEF StackIs, Leads, Elems, At, Once
<1>4. StackIs(s)'
  BY <1>3 DEF StackIs
<1>5. ValuesInv(s)'
  BY DEF ValuesInv
<1> QED
  BY <1>1, <1>2, <1>4, <1>5

(* What a step of a pop() leaves alone when it does not take the first node.*)
Untouched(a) == a \in live' /\ next'[a] = next[a] /\ data'[a] = data[a]
Spared(s) ==
    /\ \A a \in Elems(s) : Untouched(a)
    /\ \A c \in Client : pc[c] = "push" => Untouched(node[c])
Typed ==
    /\ head' \in Refs /\ next' \in [Address -> Refs] /\ data' \in [Address -> Entries]
    /\ live' \in SUBSET Address /\ got' \in [Client -> Entries]

LEMMA TypedStays ==
    ASSUME TypeInv, head' \in Refs, got' \in [Client -> Entries], UNCHANGED <<next, data, live>>
    PROVE  Typed
BY DEF Typed, TypeInv

LEMMA TypedDelete ==
    ASSUME TypeInv, head' \in Refs, got' \in [Client -> Entries], NEW S,
           live' = live \ S,
           next' = [a \in Address |-> IF a \in S THEN NullRef ELSE next[a]],
           data' = [a \in Address |-> IF a \in S THEN Empty ELSE data[a]]
    PROVE  Typed
<1>1. NullRef \in Refs /\ Empty \in Entries
  BY DEF NullRef, Refs, Entries
<1> QED
  BY <1>1 DEF Typed, TypeInv

(* A pop() has nothing to push.                                             *)
LEMMA PopAwaits ==
    ASSUME TypeInv, CallsInv, NEW c \in Client, Popping(c)
    PROVE  Awaiting' = Awaiting
<1>1. Awaiting' \subseteq Awaiting
  BY PoppingTodo DEF Awaiting, Remains
<1>2. ASSUME NEW v \in Value, NEW d \in Client, NEW i \in 1 .. Len(todo[d]), todo[d][i] = v
      PROVE  \E j \in 1 .. Len(todo'[d]) : todo'[d][j] = v
  <2>1. CASE todo'[d] = todo[d]
    BY <1>2, <2>1
  <2>2. CASE d = c /\ todo'[c] = Tail(todo[c]) /\ pc[c] # "idle"
    <3>1. todo[c] # <<>> /\ todo[c] \in Seq(Entries) /\ Head(todo[c]) = Empty
      BY <2>2 DEF CallsInv, TypeInv, Popping
    <3>2. i # 1
      BY <3>1, <2>2, <1>2, ValueAssumption
    <3>3. i - 1 \in 1 .. Len(Tail(todo[c])) /\ Tail(todo[c])[i - 1] = todo[c][i]
      BY <3>1, <3>2, <2>2
    <3> QED
      BY <3>3, <2>2, <1>2
  <2> QED
    BY <2>1, <2>2 DEF Popping
<1> QED
  BY <1>1, <1>2 DEF Awaiting

LEMMA PopKeeps ==
    ASSUME NEW s, BaseInv(s), NEW c \in Client, Popping(c), Typed,
           head'.ptr = head.ptr, Spared(s), Answers
    PROVE  Becomes(s, s)
<1> USE DEF BaseInv
<1>1. TypeInv'
  BY DEF TypeInv, Popping, Typed
<1>2. CallsInv'
  BY PoppingCalls DEF Spared, Untouched
<1>3. \A d \in Client : pc'[d] = "push" => pc[d] = "push" /\ node'[d] = node[d]
  BY DEF Popping
<1>4. StackIs(s)'
  <2>1. Leads(head, s)'
    <3>1. PICK h : h = head'
      OBVIOUS
    <3>2. Leads(h, s)'
      BY <3>1, LeadsStays DEF StackIs, Spared, Untouched
    <3> QED
      BY <3>1, <3>2 DEF Leads
  <2> QED
    BY <2>1, <1>3 DEF StackIs, Spared, Untouched, Elems
<1>5. ValuesInv(s)'
  <2> SUFFICES ASSUME PushedOnce, NEW k \in 1 .. Len(s)
               PROVE  /\ data'[s[k]] # Empty
                      /\ \A d \in Client : \A i \in 1 .. Len(todo'[d]) : todo'[d][i] # data'[s[k]]
    BY DEF ValuesInv
  <2>1. data'[s[k]] = data[s[k]]
    BY DEF Spared, Untouched, Elems
  <2>2. Remains(c)
    BY PoppingTodo
  <2>3. \A d \in Client : \A i \in 1 .. Len(todo[d]) : todo[d][i] # data[s[k]]
    BY DEF ValuesInv
  <2>4. data[s[k]] # Empty
    BY DEF ValuesInv
  <2>5. ASSUME NEW d \in Client, NEW i \in 1 .. Len(todo'[d]) PROVE todo'[d][i] # data[s[k]]
    <3>1. \E j \in 1 .. Len(todo[d]) : todo'[d][i] = todo[d][j]
      BY <2>2 DEF Remains
    <3> QED
      BY <3>1, <2>3
  <2> QED
    BY <2>1, <2>4, <2>5
<1>6. Effect(s, s)
  <2>1. \A a \in Elems(s) : data'[a] = data[a]
    BY DEF Spared, Untouched
  <2> QED
    BY <2>1, PopAwaits DEF Effect
<1> QED
  BY <1>1, <1>2, <1>4, <1>5, <1>6 DEF Becomes

LEMMA PopTakes ==
    ASSUME NEW s, BaseInv(s), NEW c \in Client, Popping(c), Typed,
           head.ptr # Null, head' = next[head.ptr], UNCHANGED <<next, data, live>>,
           got' = [got EXCEPT ![c] = data[head.ptr]]
    PROVE  Becomes(s, Tail(s))
<1> USE DEF BaseInv
<1>1. TypeInv'
  BY DEF TypeInv, Popping, Typed
<1>2. CallsInv'
  BY PoppingCalls
<1>3. \A d \in Client : pc'[d] = "push" => pc[d] = "push" /\ node'[d] = node[d]
  BY DEF Popping
<1>4. Leads(next[head.ptr], Tail(s)) /\ Elems(Tail(s)) \subseteq Elems(s)
  <2>1. PICK h : h = head
    OBVIOUS
  <2> QED
    BY <2>1, TailLeads DEF StackIs
<1>5. StackIs(Tail(s))'
  BY <1>3, <1>4 DEF StackIs, Leads, Elems
<1>6. ValuesInv(Tail(s))'
  <2> SUFFICES ASSUME PushedOnce, NEW k \in 1 .. Len(Tail(s))
               PROVE  /\ data[Tail(s)[k]] # Empty
                      /\ \A d \in Client : \A i \in 1 .. Len(todo'[d]) : todo'[d][i] # data[Tail(s)[k]]
    BY DEF ValuesInv
  <2>1. PICK l \in 1 .. Len(s) : Tail(s)[k] = s[l]
    BY <1>4 DEF Elems
  <2>2. Remains(c)
    BY PoppingTodo
  <2>3. \A d \in Client : \A i \in 1 .. Len(todo[d]) : todo[d][i] # data[s[l]]
    BY DEF ValuesInv
  <2>4. data[s[l]] # Empty
    BY DEF ValuesInv
  <2>5. ASSUME NEW d \in Client, NEW i \in 1 .. Len(todo'[d]) PROVE todo'[d][i] # data[s[l]]
    <3>1. \E j \in 1 .. Len(todo[d]) : todo'[d][i] = todo[d][j]
      BY <2>2 DEF Remains
    <3> QED
      BY <3>1, <2>3
  <2> QED
    BY <2>1, <2>4, <2>5
<1>7. Effect(s, Tail(s))
  <2>1. s # <<>> /\ head.ptr = s[1]
    BY FirstOf DEF StackIs
  <2> QED
    BY <2>1, PopAwaits DEF Effect
<1> QED
  BY <1>1, <1>2, <1>5, <1>6, <1>7 DEF Becomes
-----------------------------------------------------------------------------
(* CountedStack.  The pops that hold a node are those that counted one more *)
(* in its external count and have neither taken it nor given it up.         *)
Holding(c) == pc[c] \in {"exchange", "unref"}
Holders(a) == {c \in Client : Holding(c) /\ node[c] = a}
Balanced(ref) ==
    ref.ptr # Null =>
        Cardinality(Holders(ref.ptr)) = ref.external_count - 1 + internal_count[ref.ptr]

(* The two halves of the count of a node balance with its holders: while it *)
(* is on the stack, with the count of the reference to it; while who took   *)
(* it is to settle, with what it read there; and when it has settled, the   *)
(* internal count alone says how many are left.                             *)
CountedInv(s) ==
    /\ pc \in [Client -> {"idle", "push", "increase", "exchange", "settle", "unref"}]
    /\ internal_count \in [Address -> Int]
    /\ old_head \in [Client -> Refs]
    /\ \A c \in Client : Holding(c) \/ pc[c] = "settle" =>
          node[c] \in live /\ \A d \in Client : pc[d] = "push" => node[d] # node[c]
    /\ \A c \in Client : pc[c] = "exchange" => old_head[c].ptr = node[c]
    /\ Balanced(head)
    /\ \A a \in Elems(s) : Balanced(next[a]) /\ internal_count[a] <= 0
    /\ \A c \in Client : pc[c] = "push" => internal_count[node[c]] = 0
    /\ \A c \in Client : pc[c] = "settle" =>
          /\ node[c] \notin Elems(s)
          /\ internal_count[node[c]] <= 0
          /\ Cardinality(Holders(node[c])) = old_head[c].external_count - 2 + internal_count[node[c]]
          /\ \A d \in Client : pc[d] = "settle" /\ node[d] = node[c] => d = c
    /\ \A a \in live \ Elems(s) :
          (\A c \in Client : pc[c] \in {"push", "settle"} => node[c] # a) =>
              internal_count[a] > 0 /\ Cardinality(Holders(a)) = internal_count[a]

LEMMA SamePushCounted ==
    ASSUME NEW c \in Client
    PROVE  /\ Counted!PushLoad(c) <=> PushLoad(c)
           /\ Counted!PushExchange(c) <=> PushExchange(c)
<1>1. Counted!PushLoad(c) <=> PushLoad(c)
  BY DEF Counted!PushLoad, PushLoad, Counted!Calls, Calls, Counted!To, To, Counted!Holds, Holds,
         Counted!Empty, Empty
<1>2. Counted!PushExchange(c) <=> PushExchange(c)
  BY DEF Counted!PushExchange, PushExchange, Counted!Returns, Returns, Counted!To, To,
         Counted!Ref, Ref
<1> QED
  BY <1>1, <1>2

LEMMA HoldersFinite ==
    ASSUME NEW a
    PROVE  IsFiniteSet(Holders(a)) /\ Cardinality(Holders(a)) \in Nat
<1>1. Holders(a) \subseteq Client
  BY DEF Holders
<1>2. IsFiniteSet(Holders(a))
  BY <1>1, ClientAssumption, FS_Subset
<1> QED
  BY <1>2, FS_CardinalityType

LEMMA HoldersGain ==
    ASSUME TypeInv, NEW c \in Client, NEW a, c \notin Holders(a),
           Holders(a)' = Holders(a) \cup {c}
    PROVE  Cardinality(Holders(a)') = Cardinality(Holders(a)) + 1
BY HoldersFinite, FS_AddElement

LEMMA HoldersLose ==
    ASSUME TypeInv, NEW c \in Client, NEW a, c \in Holders(a),
           Holders(a)' = Holders(a) \ {c}
    PROVE  Cardinality(Holders(a)') = Cardinality(Holders(a)) - 1
BY HoldersFinite, FS_RemoveElement

(* Nothing on the stack leads to its first node.                            *)
LEMMA FirstFollowsNone ==
    ASSUME NEW s, StackIs(s), NEW a \in Elems(s), next[a].ptr # Null
    PROVE  next[a].ptr # head.ptr /\ next[a].ptr \in Elems(s)
<1>1. PICK i \in 1 .. Len(s) : a = s[i]
  BY DEF Elems
<1>2. s \in Seq(Address) /\ Len(s) \in Nat /\ 1 \in 1 .. Len(s)
  BY <1>1 DEF StackIs, Leads
<1>3. i + 1 \in 1 .. Len(s) /\ next[a].ptr = s[i + 1] /\ head.ptr = s[1]
  BY <1>1, <1>2 DEF StackIs, Leads, At
<1>4. s[i + 1] # s[1]
  BY <1>1, <1>2, <1>3 DEF StackIs, Leads, Once
<1> QED
  BY <1>3, <1>4 DEF Elems

-----------------------------------------------------------------------------
LEMMA CountedPushLoad ==
    ASSUME NEW s, BaseInv(s), CountedInv(s), NEW c \in Client,
           PushLoad(c), Counted!PushCounted(c)
    PROVE  Becomes(s, s) /\ CountedInv(s)'
<1>1. Becomes(s, s)
  BY PushLoadKeeps
<1>2. /\ pc[c] = "idle"
      /\ pc' = [pc EXCEPT ![c] = "push"]
      /\ UNCHANGED <<head, todo, got, fault, old_head>>
      /\ internal_count' = [a \in Address |-> IF a \in live' \ live THEN 0 ELSE internal_count[a]]
  BY DEF PushLoad, Calls, To, Counted!PushCounted
<1>3. PICK a \in Address \ live :
         /\ live' = live \cup {a}
         /\ next' = [next EXCEPT ![a] = head]
         /\ node' = [node EXCEPT ![c] = a]
  BY DEF PushLoad, Holds
<1>4. /\ pc'[c] = "push" /\ node'[c] = a /\ ~Holding(c) /\ pc[c] # "settle" /\ pc[c] # "push"
      /\ \A d \in Client : d # c => pc'[d] = pc[d] /\ node'[d] = node[d]
  BY <1>2, <1>3 DEF BaseInv, TypeInv, Holding
<1>5. /\ internal_count' \in [Address -> Int]
      /\ internal_count'[a] = 0
      /\ \A b \in live : internal_count'[b] = internal_count[b] /\ next'[b] = next[b] /\ b # a
      /\ live \subseteq Address
  BY <1>2, <1>3 DEF BaseInv, TypeInv, CountedInv
<1>6. \A b : Holders(b)' = Holders(b)
  BY <1>4 DEF Holders, Holding
<1>7. Elems(s)' = Elems(s) /\ Elems(s) \subseteq live
  BY DEF Elems, BaseInv, StackIs
<1>8. \A ref : ref.ptr \in live \cup {Null} => (Balanced(ref)' <=> Balanced(ref))
  BY <1>5, <1>6 DEF Balanced
<1>9. Balanced(head)' /\ \A b \in Elems(s) : Balanced(next[b])' /\ internal_count'[b] <= 0
  <2>1. head.ptr \in live \cup {Null}
    BY <1>7, FirstOf DEF BaseInv, StackIs
  <2>2. \A b \in Elems(s) : next[b].ptr \in live \cup {Null}
    BY <1>7, FirstFollowsNone DEF BaseInv
  <2> QED
    BY <2>1, <2>2, <1>2, <1>5, <1>6, <1>7 DEF Balanced, CountedInv
<1>10. CountedInv(s)'
  <2>1. ASSUME NEW d \in Client, Holding(d)' \/ pc'[d] = "settle"
        PROVE  /\ d # c /\ node'[d] \in live' /\ \A e \in Client : pc'[e] = "push" => node'[e] # node'[d]
               /\ node[d] \in live /\ node'[d] = node[d] /\ pc'[d] = pc[d]
    BY <2>1, <1>3, <1>4 DEF CountedInv, Holding
  <2>2. ASSUME NEW d \in Client, pc'[d] = "settle"
        PROVE  /\ node'[d] \notin Elems(s)
               /\ internal_count'[node'[d]] <= 0
               /\ Cardinality(Holders(node[d])') = old_head'[d].external_count - 2 + internal_count'[node'[d]]
               /\ \A e \in Client : pc'[e] = "settle" /\ node'[e] = node'[d] => e = d
    BY <2>1, <2>2, <1>2, <1>4, <1>5, <1>6 DEF CountedInv
  <2>3. ASSUME NEW b \in live' \ Elems(s), \A d \in Client : pc'[d] \in {"push", "settle"} => node'[d] # b
        PROVE  internal_count'[b] > 0 /\ Cardinality(Holders(b)') = internal_count'[b]
    <3>1. b # a /\ b \in live \ Elems(s) /\ \A d \in Client : pc[d] \in {"push", "settle"} => node[d] # b
      BY <2>3, <1>3, <1>4
    <3> QED
      BY <3>1, <1>5, <1>6 DEF CountedInv
  <2>4. pc' \in [Client -> {"idle", "push", "increase", "exchange", "settle", "unref"}] /\ old_head' \in [Client -> Refs]
    BY <1>2 DEF CountedInv
  <2>5. \A d \in Client : pc'[d] = "exchange" => old_head'[d].ptr = node'[d]
    BY <1>2, <1>4 DEF CountedInv
  <2>6. ASSUME NEW d \in Client, pc'[d] = "push" PROVE internal_count'[node'[d]] = 0
    <3>1. CASE d = c
      BY <3>1, <1>4, <1>5
    <3>2. CASE d # c
      BY <3>2, <2>6, <1>4, <1>5 DEF CountedInv, BaseInv, StackIs
    <3> QED
      BY <3>1, <3>2
  <2> QED
    BY <2>1, <2>2, <2>3, <2>4, <2>5, <2>6, <1>5, <1>7, <1>9 DEF CountedInv
<1> QED
  BY <1>1, <1>10

LEMMA CountedPushExchange ==
    ASSUME NEW s, BaseInv(s), CountedInv(s), NEW c \in Client,
           PushExchange(c), Counted!PushCounted(c)
    PROVE  \E r : Becomes(s, r) /\ CountedInv(r)'
<1> DEFINE a == node[c]
<1>0. /\ pc[c] = "push" /\ UNCHANGED <<data, live, node, got, fault, old_head>>
      /\ a \in live \ Elems(s) /\ a \in Address /\ live \in SUBSET Address
      /\ Elems(s) \subseteq live
  BY DEF PushExchange, BaseInv, StackIs, TypeInv, Counted!PushCounted
<1>1. internal_count' = internal_count
  BY <1>0 DEF Counted!PushCounted, CountedInv
<1>2. CASE Becomes(s, s) /\ UNCHANGED <<head, pc, todo, data, live, node, got>>
  <2>1. \A b \in Elems(s) : next'[b] = next[b]
    BY <1>0 DEF PushExchange, BaseInv, TypeInv
  <2>2. \A b : Holders(b)' = Holders(b)
    BY <1>2 DEF Holders, Holding
  <2>3. Elems(s)' = Elems(s)
    BY DEF Elems
  <2>4. Balanced(head)' /\ \A b \in Elems(s) : Balanced(next[b])'
    BY <1>1, <1>2, <2>1, <2>2 DEF CountedInv, Balanced
  <2>5. CountedInv(s)'
    <3>1. \A d \in Client : Holding(d)' = Holding(d)
      BY <1>2 DEF Holding
    <3>2. \A d \in Client : Holders(node[d])' = Holders(node[d])
      BY <1>2 DEF Holders, Holding
    <3> QED
      BY <1>0, <1>1, <1>2, <2>2, <2>3, <2>4, <3>1, <3>2 DEF CountedInv
  <2> QED
    BY <1>2, <2>5
<1>3. CASE /\ BaseInv(<<a>> \o s)' /\ Effect(s, <<a>> \o s) /\ head' = Ref(a) /\ UNCHANGED next
           /\ pc' = [pc EXCEPT ![c] = "idle"] /\ todo' = [todo EXCEPT ![c] = Tail(@)]
  <2>0. next[a] = head
    <3>1. head.ptr # a
      <4>1. head.ptr # Null => head.ptr \in Elems(s)
        BY FirstOf DEF BaseInv, StackIs
      <4> QED
        BY <4>1, <1>0, AddressAssumption
    <3>2. head'.ptr = a
      BY <1>3 DEF Ref
    <3>3. head' # head
      BY <3>1, <3>2
    <3> QED
      BY <3>3 DEF PushExchange
  <2>1. PICK n : n = a
    OBVIOUS
  <2> DEFINE r == <<n>> \o s
  <2>2. Becomes(s, r) /\ Elems(r) = Elems(s) \cup {n}
    <3>1. (<<a>> \o s)' = r
      BY <1>0, <2>1
    <3>2. Becomes(s, r)
      <4>1. BaseInv(r)'
        BY <3>1, <1>3, <2>1 DEF BaseInv, StackIs, ValuesInv, Leads, At, Elems, Once
      <4>2. Effect(s, r)
        BY <1>3, <2>1
      <4> QED
        BY <4>1, <4>2 DEF Becomes
    <3>3. s \in Seq(Address) /\ n \in Address
      BY <1>0, <2>1 DEF BaseInv, StackIs, Leads
    <3> QED
      BY <3>2, <3>3, PushElems
  <2>3. /\ pc'[c] = "idle" /\ ~Holding(c) /\ pc[c] # "settle"
        /\ \A d \in Client : d # c => pc'[d] = pc[d]
    BY <1>0, <1>3 DEF BaseInv, TypeInv, Holding
  <2>4. \A b : Holders(b)' = Holders(b)
    BY <1>0, <2>3 DEF Holders, Holding
  <2>5. Holders(n) = {} /\ internal_count[n] = 0
    BY <1>0, <2>1 DEF Holders, CountedInv
  <2>6. Balanced(head)'
    <3>1. Cardinality(Holders(n)) = 0
      BY <2>5, FS_EmptySet
    <3>2. head'.ptr = n /\ head'.external_count = 1
      BY <1>3, <2>1 DEF Ref
    <3>3. PICK h : h = head'
      OBVIOUS
    <3>4. Balanced(h)'
      BY <3>1, <3>2, <3>3, <1>1, <2>4, <2>5 DEF Balanced
    <3> QED
      BY <3>3, <3>4, <2>4 DEF Balanced, Holders, Holding
  <2>7. \A b \in Elems(s) \cup {n} : Balanced(next[b]) /\ internal_count[b] <= 0
    BY <2>0, <2>1, <2>5 DEF CountedInv
  <2>8. \A b \in Elems(s) \cup {n} : Balanced(next[b])' /\ internal_count'[b] <= 0
    BY <2>7, <1>1, <1>3, <2>4 DEF Balanced
  <2> HIDE DEF r
  <2>9. CountedInv(r)'
    <3>1. Elems(r)' = Elems(s) \cup {n}
      BY <2>2 DEF Elems
    <3>2. pc' \in [Client -> {"idle", "push", "increase", "exchange", "settle", "unref"}]
      BY <1>3 DEF CountedInv
    <3>3. ASSUME NEW d \in Client, Holding(d)' \/ pc'[d] = "settle"
          PROVE  /\ d # c /\ pc'[d] = pc[d] /\ node'[d] \in live'
                 /\ \A e \in Client : pc'[e] = "push" => node'[e] # node'[d]
                 /\ node[d] # n
      BY <3>3, <1>0, <2>1, <2>3 DEF CountedInv, Holding
    <3>4. \A d \in Client : pc'[d] = "exchange" => old_head'[d].ptr = node'[d]
      BY <1>0, <2>3 DEF CountedInv
    <3>5. \A d \in Client : pc'[d] = "push" => internal_count'[node'[d]] = 0
      BY <1>0, <1>1, <2>3 DEF CountedInv
    <3>6. ASSUME NEW d \in Client, pc'[d] = "settle"
          PROVE  /\ node[d] \notin Elems(s) \cup {n}
                 /\ internal_count[node[d]] <= 0
                 /\ Cardinality(Holders(node[d])) = old_head[d].external_count - 2 + internal_count[node[d]]
                 /\ \A e \in Client : pc'[e] = "settle" /\ node[e] = node[d] => e = d
      BY <3>3, <3>6, <2>3 DEF CountedInv
    <3>7. ASSUME NEW b \in live \ (Elems(s) \cup {n}),
                 \A d \in Client : pc'[d] \in {"push", "settle"} => node[d] # b
          PROVE  internal_count[b] > 0 /\ Cardinality(Holders(b)) = internal_count[b]
      BY <3>7, <2>1, <2>3 DEF CountedInv
    <3>8. Holders(n)' = Holders(n) /\ \A d \in Client : Holders(node[d])' = Holders(node[d])
      BY <1>0, <2>3 DEF Holders, Holding
    <3> QED
      BY <3>1, <3>2, <3>3, <3>4, <3>5, <3>6, <3>7, <3>8, <2>4, <2>6, <2>8, <1>0, <1>1 DEF CountedInv
  <2> QED
    BY <2>2, <2>9 DEF r
<1> QED
  BY <1>2, <1>3, PushExchangeKeeps

(* Where nothing but what c is about changes, and c holds what it held.     *)
LEMMA CountedQuiet ==
    ASSUME NEW s, BaseInv(s), CountedInv(s), NEW c \in Client, Popping(c),
           UNCHANGED <<next, data, live, internal_count>>, got' \in [Client -> Entries],
           head' \in Refs, head'.ptr = head.ptr, head.ptr # Null => head' = head,
           old_head' \in [Client -> Refs], \A d \in Client \ {c} : old_head'[d] = old_head[d],
           pc[c] # "settle",
           Holding(c) => pc'[c] = "unref" /\ node'[c] = node[c],
           ~Holding(c) => pc'[c] \in {"idle", "increase"}, Answers
    PROVE  Becomes(s, s) /\ CountedInv(s)'
<1>1. Becomes(s, s)
  BY PopKeeps DEF BaseInv, TypeInv, Typed, Spared, Untouched, StackIs
<1>2. /\ pc[c] # "push" /\ pc'[c] \notin {"push", "settle", "exchange"}
      /\ \A d \in Client : d # c => pc'[d] = pc[d] /\ node'[d] = node[d] /\ old_head'[d] = old_head[d]
  BY DEF Popping, Holding
<1>3. \A b : Holders(b)' = Holders(b)
  BY <1>2 DEF Holders, Holding
<1>4. Elems(s)' = Elems(s)
  BY DEF Elems
<1>5. \A ref : Balanced(ref)' <=> Balanced(ref)
  BY <1>3 DEF Balanced
<1>6. Balanced(head)' /\ \A b \in Elems(s) : Balanced(next[b])' /\ internal_count'[b] <= 0
  <2>1. Balanced(head)'
    BY <1>3 DEF Balanced, CountedInv
  <2> QED
    BY <2>1, <1>3 DEF Balanced, CountedInv
<1>7. pc' \in [Client -> {"idle", "push", "increase", "exchange", "settle", "unref"}]
  <2>1. ASSUME NEW d \in Client
        PROVE  pc'[d] \in {"idle", "push", "increase", "exchange", "settle", "unref"}
    <3>1. CASE d = c
      BY <3>1, <1>2
    <3>2. CASE d # c
      BY <3>2, <1>2 DEF CountedInv
    <3> QED
      BY <3>1, <3>2
  <2> QED
    BY <2>1 DEF Popping
<1>8. ASSUME NEW d \in Client, Holding(d)' \/ pc'[d] = "settle"
      PROVE  /\ node'[d] = node[d] /\ (Holding(d) \/ pc[d] = "settle")
             /\ node[d] \in live
             /\ \A e \in Client : pc'[e] = "push" => node'[e] # node'[d]
  BY <1>8, <1>2 DEF Holding, CountedInv
<1>9. ASSUME NEW d \in Client, pc'[d] = "exchange" PROVE old_head'[d].ptr = node'[d]
  BY <1>9, <1>2 DEF CountedInv
<1>10. ASSUME NEW d \in Client, pc'[d] = "push" PROVE internal_count[node'[d]] = 0
  BY <1>10, <1>2 DEF CountedInv
<1>11. ASSUME NEW d \in Client, pc'[d] = "settle"
       PROVE  /\ d # c /\ node'[d] = node[d] /\ old_head'[d] = old_head[d]
              /\ node[d] \notin Elems(s) /\ internal_count[node[d]] <= 0
              /\ Cardinality(Holders(node[d])) = old_head[d].external_count - 2 + internal_count[node[d]]
              /\ \A e \in Client : pc'[e] = "settle" /\ node'[e] = node'[d] => e = d
  BY <1>11, <1>2 DEF CountedInv
<1>12. \A d \in Client : pc'[d] = "settle" => Cardinality(Holders(node[d]))' = Cardinality(Holders(node[d]))
  BY <1>3, <1>11 DEF Holders, Holding
<1>13. ASSUME NEW b \in live \ Elems(s), \A d \in Client : pc'[d] \in {"push", "settle"} => node'[d] # b
       PROVE  internal_count[b] > 0 /\ Cardinality(Holders(b)') = internal_count[b]
  <2>1. \A d \in Client : pc[d] \in {"push", "settle"} => node[d] # b
    BY <1>13, <1>2
  <2> QED
    BY <2>1, <1>3 DEF CountedInv
<1>14. CountedInv(s)'
  BY <1>4, <1>6, <1>7, <1>8, <1>9, <1>10, <1>11, <1>12, <1>13 DEF CountedInv
<1> QED
  BY <1>1, <1>14

LEMMA CountedPopLoad ==
    ASSUME NEW s, BaseInv(s), CountedInv(s), NEW c \in Client, Counted!PopLoad(c)
    PROVE  Becomes(s, s) /\ CountedInv(s)'
<1>1. /\ pc[c] = "idle" /\ todo[c] # <<>> /\ Head(todo[c]) = Empty
      /\ pc' = [pc EXCEPT ![c] = "increase"]
      /\ old_head' = [old_head EXCEPT ![c] = head]
      /\ UNCHANGED <<head, next, data, live, todo, node, got, fault, internal_count>>
  BY DEF Counted!PopLoad, Counted!Calls, Counted!To, Counted!Empty, Empty
<1>2. Popping(c)
  BY <1>1, PlacesAre DEF Popping, BaseInv, TypeInv
<1> QED
  BY <1>1, <1>2, CountedQuiet DEF BaseInv, TypeInv, CountedInv, Holding, Answers

LEMMA CountedIncrease ==
    ASSUME NEW s, BaseInv(s), CountedInv(s), NEW c \in Client, Counted!Increase(c)
    PROVE  Becomes(s, s) /\ CountedInv(s)'
<1>0. /\ pc[c] = "increase" /\ UNCHANGED <<next, data, live, fault, internal_count>>
      /\ todo[c] # <<>> /\ Head(todo[c]) = Empty /\ todo \in [Client -> Seq(Entries)]
      /\ head \in Refs /\ Empty \in Entries
  BY DEF Counted!Increase, BaseInv, CallsInv, TypeInv, Entries
<1>1. CASE head # old_head[c]
  <2>1. old_head' = [old_head EXCEPT ![c] = head] /\ UNCHANGED <<head, pc, todo, node, got>>
    BY <1>1 DEF Counted!Increase
  <2>2. Popping(c)
    BY <1>0, <2>1, PlacesAre DEF Popping, BaseInv, TypeInv
  <2> QED
    BY <1>0, <2>1, <2>2, CountedQuiet DEF BaseInv, TypeInv, CountedInv, Holding, Answers
<1> DEFINE counted == [head EXCEPT !.external_count = @ + 1]
<1>2. counted \in Refs /\ counted.ptr = head.ptr /\ counted.external_count = head.external_count + 1
  BY <1>0 DEF Refs
<1> HIDE DEF counted
<1>3. CASE head = old_head[c] /\ head.ptr = Null
  <2>1. /\ head' = counted /\ old_head' = [old_head EXCEPT ![c] = head']
        /\ node' = [node EXCEPT ![c] = Null]
        /\ pc' = [pc EXCEPT ![c] = "idle"] /\ todo' = [todo EXCEPT ![c] = Tail(@)]
        /\ got' = [got EXCEPT ![c] = Empty]
    BY <1>3 DEF Counted!Increase, Counted!Holds, Counted!Returns, Counted!To, Counted!Empty, Empty, counted
  <2>2. Popping(c)
    <3>1. Tail(todo[c]) \in Seq(Entries)
      BY <1>0
    <3> QED
      BY <1>0, <2>1, <3>1, PlacesAre DEF Popping, BaseInv, TypeInv
  <2>3. /\ head' \in Refs /\ head'.ptr = head.ptr /\ pc'[c] = "idle"
        /\ old_head' \in [Client -> Refs] /\ \A d \in Client \ {c} : old_head'[d] = old_head[d]
        /\ got' \in [Client -> Entries]
    BY <1>0, <1>2, <2>1 DEF BaseInv, TypeInv, CountedInv
  <2>4. Answers
    BY <1>3, <2>1 DEF Answers
  <2> QED
    BY <1>0, <1>3, <2>2, <2>3, <2>4, CountedQuiet DEF Holding
<1>4. CASE head = old_head[c] /\ head.ptr # Null
  <2> DEFINE n == head.ptr
  <2>1. /\ head' = counted /\ old_head' = [old_head EXCEPT ![c] = counted]
        /\ node' = [node EXCEPT ![c] = n]
        /\ pc' = [pc EXCEPT ![c] = "exchange"] /\ UNCHANGED <<todo, got>>
    BY <1>4 DEF Counted!Increase, Counted!Holds, Counted!Returns, Counted!To, counted
  <2>2. n \in Elems(s) /\ n \in Address /\ n \in live
    BY <1>4, FirstOf DEF BaseInv, StackIs
  <2>3. Popping(c)
    BY <1>0, <2>1, <2>2, PlacesAre DEF Popping, BaseInv, TypeInv
  <2>4. Becomes(s, s)
    BY <1>0, <1>2, <2>1, <2>3, PopKeeps DEF BaseInv, TypeInv, Typed, Spared, Untouched, StackIs, Answers
  <2>5. /\ pc'[c] = "exchange" /\ node'[c] = n /\ old_head'[c] = counted /\ ~Holding(c)
        /\ \A d \in Client : d # c => pc'[d] = pc[d] /\ node'[d] = node[d] /\ old_head'[d] = old_head[d]
    BY <1>0, <2>1 DEF BaseInv, TypeInv, CountedInv, Holding
  <2>6. \A b : b # n => Holders(b)' = Holders(b)
    BY <2>5 DEF Holders, Holding
  <2>7. PICK m : m = n
    OBVIOUS
  <2>8. Cardinality(Holders(m)') = Cardinality(Holders(m)) + 1
    <3>1. c \notin Holders(m) /\ Holders(m)' = Holders(m) \cup {c}
      BY <2>5, <2>7 DEF Holders, Holding
    <3> QED
      BY <3>1, HoldersGain DEF BaseInv
  <2>9. Balanced(head)'
    <3>1. PICK h : h = head'
      OBVIOUS
    <3>2. Cardinality(Holders(m)) = head.external_count - 1 + internal_count[m]
      BY <1>4, <2>7 DEF CountedInv, Balanced
    <3>3. head.external_count \in Int /\ internal_count[m] \in Int
      BY <1>0, <2>2, <2>7 DEF Refs, CountedInv
    <3>4. Balanced(h)'
      <4>1. h.ptr = m /\ h.external_count = head.external_count + 1
        BY <3>1, <1>2, <2>1, <2>7
      <4>2. Cardinality(Holders(m)') = h.external_count - 1 + internal_count'[m]
        <5>1. internal_count'[m] = internal_count[m]
          BY <1>0
        <5> QED
          BY <3>2, <3>3, <4>1, <5>1, <2>8
      <4> QED
        BY <4>1, <4>2 DEF Balanced
    <3> QED
      BY <3>1, <3>4 DEF Balanced, Holders, Holding
  <2>10. \A b \in Elems(s) : Balanced(next[b])' /\ internal_count'[b] <= 0
    <3>1. ASSUME NEW b \in Elems(s) PROVE Balanced(next[b])'
      <4>1. next[b].ptr # Null => next[b].ptr # n
        BY FirstFollowsNone DEF BaseInv
      <4>2. Balanced(next[b]) /\ next'[b] = next[b]
        BY <1>0 DEF CountedInv
      <4> QED
        BY <4>1, <4>2, <1>0, <2>6 DEF Balanced
    <3> QED
      BY <3>1, <1>0 DEF CountedInv
  <2>11. Elems(s)' = Elems(s)
    BY DEF Elems
  <2>12. /\ pc' \in [Client -> {"idle", "push", "increase", "exchange", "settle", "unref"}]
         /\ old_head' \in [Client -> Refs]
    BY <1>2, <2>1 DEF CountedInv
  <2>13. ASSUME NEW d \in Client, Holding(d)' \/ pc'[d] = "settle"
         PROVE  /\ node'[d] \in live
                /\ \A e \in Client : pc'[e] = "push" => node'[e] # node'[d]
    <3>1. CASE d = c
      BY <3>1, <2>2, <2>5 DEF BaseInv, StackIs
    <3>2. CASE d # c
      BY <2>13, <3>2, <2>5 DEF Holding, CountedInv
    <3> QED
      BY <3>1, <3>2
  <2>14. ASSUME NEW d \in Client, pc'[d] = "exchange" PROVE old_head'[d].ptr = node'[d]
    BY <2>14, <1>2, <2>5 DEF CountedInv
  <2>15. ASSUME NEW d \in Client, pc'[d] = "push" PROVE internal_count[node'[d]] = 0
    BY <2>15, <2>5 DEF CountedInv
  <2>16. ASSUME NEW d \in Client, pc'[d] = "settle"
         PROVE  /\ node'[d] = node[d] /\ old_head'[d] = old_head[d] /\ pc[d] = "settle"
                /\ node[d] \notin Elems(s) /\ internal_count[node[d]] <= 0
                /\ Cardinality(Holders(node[d])) = old_head[d].external_count - 2 + internal_count[node[d]]
                /\ \A e \in Client : pc'[e] = "settle" /\ node'[e] = node'[d] => e = d
    BY <2>16, <2>5 DEF CountedInv
  <2>17. ASSUME NEW d \in Client, pc'[d] = "settle"
         PROVE  Cardinality(Holders(node[d]))' = Cardinality(Holders(node[d]))
    <3>1. PICK k : k = node[d]
      OBVIOUS
    <3>2. k # n /\ node'[d] = k
      BY <3>1, <2>2, <2>16, <2>17
    <3>3. Holders(k)' = Holders(k)
      BY <3>2, <2>6
    <3> QED
      BY <3>1, <3>2, <3>3 DEF Holders, Holding
  <2>18. ASSUME NEW b \in live \ Elems(s), \A d \in Client : pc'[d] \in {"push", "settle"} => node'[d] # b
         PROVE  internal_count[b] > 0 /\ Cardinality(Holders(b)') = internal_count[b]
    <3>1. \A d \in Client : pc[d] \in {"push", "settle"} => node[d] # b
      BY <2>18, <2>5, <1>0
    <3>2. b # n
      BY <2>2
    <3> QED
      BY <3>1, <3>2, <2>6 DEF CountedInv
  <2>19. CountedInv(s)'
    BY <1>0, <2>9, <2>10, <2>11, <2>12, <2>13, <2>14, <2>15, <2>16, <2>17, <2>18 DEF CountedInv
  <2> QED
    BY <2>4, <2>19
<1> QED
  BY <1>1, <1>3, <1>4

LEMMA CountedTake ==
    ASSUME NEW s, BaseInv(s), CountedInv(s), NEW c \in Client, Counted!PopExchange(c),
           head = old_head[c]
    PROVE  Becomes(s, Tail(s)) /\ CountedInv(Tail(s))'
<1>0. /\ pc[c] = "exchange" /\ UNCHANGED <<next, data, live, todo, node, fault, internal_count, old_head>>
      /\ head' = next[node[c]] /\ pc' = [pc EXCEPT ![c] = "settle"]
      /\ got' = [got EXCEPT ![c] = data[node[c]]]
  BY DEF Counted!PopExchange, Counted!To
<1>1. /\ head.ptr = node[c] /\ node[c] \in live /\ node[c] \in Address /\ head.ptr # Null
      /\ node[c] \in Elems(s) /\ internal_count[node[c]] <= 0
      /\ internal_count[node[c]] \in Int /\ head.external_count \in Int
  <2>1. node[c] \in live /\ head.ptr = node[c] /\ node[c] \in Address
    BY <1>0 DEF CountedInv, Holding, BaseInv, TypeInv
  <2>2. head.ptr # Null
    BY <2>1, AddressAssumption
  <2> QED
    BY <2>1, <2>2, FirstOf DEF BaseInv, StackIs, CountedInv, TypeInv, Refs
<1>2. Popping(c)
  BY <1>0, PlacesAre DEF Popping, BaseInv, TypeInv
<1>3. Becomes(s, Tail(s))
  <2>1. Typed
    BY <1>0, <1>1 DEF Typed, BaseInv, TypeInv
  <2> QED
    BY <1>0, <1>1, <1>2, <2>1, PopTakes
<1>4. PICK n : n = node[c]
  OBVIOUS
<1>5. Elems(Tail(s)) = Elems(s) \ {n}
  <2>1. PICK h : h = head
    OBVIOUS
  <2> QED
    BY <2>1, <1>1, <1>4, TailLeads DEF BaseInv, StackIs
<1>6. /\ pc'[c] = "settle" /\ node'[c] = n /\ Holding(c) /\ ~Holding(c)'
      /\ \A d \in Client : d # c => pc'[d] = pc[d] /\ node'[d] = node[d]
  BY <1>0, <1>4 DEF BaseInv, TypeInv, Holding
<1>7. \A b : b # n => Holders(b)' = Holders(b)
  BY <1>4, <1>6 DEF Holders, Holding
<1>8. Cardinality(Holders(n)') = head.external_count - 2 + internal_count[n]
  <2>1. c \in Holders(n) /\ Holders(n)' = Holders(n) \ {c}
    BY <1>4, <1>6 DEF Holders, Holding
  <2>2. Cardinality(Holders(n)') = Cardinality(Holders(n)) - 1
    BY <2>1, HoldersLose DEF BaseInv
  <2>3. Cardinality(Holders(n)) = head.external_count - 1 + internal_count[n]
    BY <1>1, <1>4 DEF CountedInv, Balanced
  <2> QED
    BY <2>2, <2>3, <1>1, <1>4
<1>9. ASSUME NEW b \in Elems(s) PROVE Balanced(next[b])'
  <2>1. next[b].ptr # Null => next[b].ptr # n
    BY <1>1, <1>4, FirstFollowsNone DEF BaseInv
  <2>2. Balanced(next[b]) /\ next'[b] = next[b]
    BY <1>0 DEF CountedInv
  <2> QED
    BY <2>1, <2>2, <1>0, <1>7 DEF Balanced
<1>10. Balanced(head)'
  <2>1. PICK h : h = head'
    OBVIOUS
  <2>2. h = next'[n]
    BY <2>1, <1>0, <1>4
  <2>3. Balanced(h)'
    BY <2>2, <1>1, <1>4, <1>9 DEF Balanced, Holders, Holding
  <2> QED
    BY <2>1, <2>3 DEF Balanced, Holders, Holding
<1>11. ASSUME NEW d \in Client, Holding(d)' \/ pc'[d] = "settle"
       PROVE  /\ node'[d] \in live /\ node'[d] = node[d]
              /\ \A e \in Client : pc'[e] = "push" => node'[e] # node'[d]
  BY <1>11, <1>0, <1>6 DEF CountedInv, Holding
<1>12. ASSUME NEW d \in Client, pc'[d] = "settle"
       PROVE  /\ node[d] \notin Elems(Tail(s)) /\ internal_count[node[d]] <= 0
              /\ Cardinality(Holders(node[d])') = old_head[d].external_count - 2 + internal_count[node[d]]
              /\ \A e \in Client : pc'[e] = "settle" /\ node[e] = node[d] => e = d
  <2>1. CASE d = c
    <3>1. Cardinality(Holders(node[d])') = old_head[d].external_count - 2 + internal_count[node[d]]
      <4>1. Holders(node[d])' = Holders(n)'
        BY <2>1, <1>0, <1>4 DEF Holders, Holding
      <4> QED
        BY <4>1, <2>1, <1>4, <1>8
    <3>2. \A e \in Client : pc[e] = "settle" => node[e] # n
      BY <1>1, <1>4 DEF CountedInv
    <3> QED
      BY <2>1, <3>1, <3>2, <1>1, <1>4, <1>5, <1>6
  <2>2. CASE d # c
    <3>1. pc[d] = "settle" /\ node[d] \notin Elems(s) /\ node[d] # n
      BY <2>2, <1>12, <1>1, <1>4, <1>6 DEF CountedInv
    <3>2. PICK k : k = node[d]
      OBVIOUS
    <3>3. Holders(node[d])' = Holders(k)' /\ Holders(k)' = Holders(k)
      BY <3>1, <3>2, <1>0, <1>7 DEF Holders, Holding
    <3> QED
      BY <3>1, <3>2, <3>3, <2>2, <1>4, <1>5, <1>6 DEF CountedInv
  <2> QED
    BY <2>1, <2>2
<1>13. ASSUME NEW b \in live \ Elems(Tail(s)), \A d \in Client : pc'[d] \in {"push", "settle"} => node[d] # b
       PROVE  internal_count[b] > 0 /\ Cardinality(Holders(b)') = internal_count[b]
  <2>1. b # n /\ b \in live \ Elems(s)
    BY <1>13, <1>4, <1>5, <1>6
  <2>2. \A d \in Client : pc[d] \in {"push", "settle"} => node[d] # b
    BY <1>13, <1>0, <1>6
  <2> QED
    BY <2>1, <2>2, <1>7 DEF CountedInv
<1>14. CountedInv(Tail(s))'
  <2>1. Elems(Tail(s))' = Elems(s) \ {n}
    BY <1>5 DEF Elems
  <2>2. pc' \in [Client -> {"idle", "push", "increase", "exchange", "settle", "unref"}]
        /\ old_head' \in [Client -> Refs] /\ internal_count' \in [Address -> Int]
    BY <1>0 DEF CountedInv
  <2>3. \A b \in Elems(s) \ {n} : Balanced(next[b])' /\ internal_count'[b] <= 0
    BY <1>0, <1>9 DEF CountedInv
  <2>4. \A d \in Client : pc'[d] = "push" => internal_count[node[d]] = 0
    BY <1>0, <1>6 DEF CountedInv
  <2>5. \A d \in Client : pc'[d] = "exchange" => old_head[d].ptr = node[d]
    BY <1>6 DEF CountedInv
  <2> QED
    BY <2>1, <2>2, <2>3, <2>4, <2>5, <1>0, <1>5, <1>10, <1>11, <1>12, <1>13 DEF CountedInv
<1> QED
  BY <1>3, <1>14

LEMMA CountedMiss ==
    ASSUME NEW s, BaseInv(s), CountedInv(s), NEW c \in Client, Counted!PopExchange(c),
           head # old_head[c]
    PROVE  Becomes(s, s) /\ CountedInv(s)'
<1>0. /\ pc[c] = "exchange" /\ UNCHANGED <<head, next, data, live, todo, node, got, fault, internal_count>>
      /\ old_head' = [old_head EXCEPT ![c] = head] /\ pc' = [pc EXCEPT ![c] = "unref"]
  BY DEF Counted!PopExchange, Counted!To
<1>1. Popping(c)
  BY <1>0, PlacesAre DEF Popping, BaseInv, TypeInv
<1> QED
  BY <1>0, <1>1, CountedQuiet DEF BaseInv, TypeInv, CountedInv, Holding, Answers

(* A node that nobody holds any more is gone; else it is left to those who  *)
(* hold it.  Both settle and unref write an internal count and may delete.  *)
LEMMA CountedReleased ==
    ASSUME NEW s, BaseInv(s), CountedInv(s), NEW c \in Client, NEW n \in Address,
           n = node[c], pc[c] \in {"settle", "unref"}, Popping(c),
           UNCHANGED <<head, got, old_head>>, pc'[c] \in {"idle", "increase"},
           internal_count' \in [Address -> Int],
           \A b \in Address \ {n} : internal_count'[b] = internal_count[b],
           \A d \in Client \ {c} : pc[d] = "settle" /\ node[d] = n =>
               /\ internal_count'[n] <= 0
               /\ Cardinality(Holders(n)') = old_head[d].external_count - 2 + internal_count'[n],
           n \in Elems(s) => internal_count'[n] <= 0,
           \A ref \in Refs : ref.ptr = n /\ n \in Elems(s) /\ Balanced(ref) => Balanced(ref)',
           \/ UNCHANGED <<next, data, live>>
              /\ (n \notin Elems(s) /\ (\A d \in Client \ {c} : pc[d] = "settle" => node[d] # n) =>
                    internal_count'[n] > 0 /\ Cardinality(Holders(n)') = internal_count'[n])
           \/ /\ n \notin Elems(s)
              /\ \A d \in Client \ {c} : Holding(d) \/ pc[d] = "settle" => node[d] # n
              /\ live' = live \ {n}
              /\ next' = [a \in Address |-> IF a = n THEN NullRef ELSE next[a]]
              /\ data' = [a \in Address |-> IF a = n THEN Empty ELSE data[a]]
    PROVE  Becomes(s, s) /\ CountedInv(s)'
<1>1. /\ pc[c] # "push" /\ ~Holding(c)' /\ pc'[c] # "settle" /\ pc'[c] # "push"
      /\ \A d \in Client : d # c => pc'[d] = pc[d] /\ node'[d] = node[d]
      /\ \A d \in Client : pc[d] = "push" => node[d] # n
      /\ n \in live
  BY DEF Popping, CountedInv, Holding
<1>2. /\ \A b \in Address \ {n} : next'[b] = next[b] /\ data'[b] = data[b] /\ (b \in live <=> b \in live')
      /\ n \in live' => UNCHANGED <<next, data, live>>
      /\ n \notin live' => n \notin Elems(s)
      /\ live' \subseteq live /\ live \subseteq Address
  BY <1>1 DEF BaseInv, TypeInv
<1>3. Spared(s)
  <2>1. ASSUME NEW a \in live, a \in Elems(s) \/ a # n PROVE Untouched(a)
    BY <2>1, <1>2 DEF Untouched
  <2>2. Elems(s) \subseteq live /\ \A d \in Client : pc[d] = "push" => node[d] \in live
    BY DEF BaseInv, StackIs
  <2> QED
    BY <2>1, <2>2, <1>1 DEF Spared
<1>4. Typed
  <2>1. TypeInv /\ head' \in Refs /\ got' \in [Client -> Entries]
    BY DEF BaseInv, TypeInv
  <2>2. CASE UNCHANGED <<next, data, live>>
    BY <2>1, <2>2, TypedStays
  <2>3. CASE /\ live' = live \ {n}
             /\ next' = [a \in Address |-> IF a = n THEN NullRef ELSE next[a]]
             /\ data' = [a \in Address |-> IF a = n THEN Empty ELSE data[a]]
    <3>1. PICK S : S = {n}
      OBVIOUS
    <3>2. /\ live' = live \ S
          /\ next' = [a \in Address |-> IF a \in S THEN NullRef ELSE next[a]]
          /\ data' = [a \in Address |-> IF a \in S THEN Empty ELSE data[a]]
      BY <2>3, <3>1
    <3> QED
      BY <2>1, <3>2, TypedDelete
  <2> QED
    BY <2>2, <2>3
<1>5. Becomes(s, s)
  BY <1>3, <1>4, PopKeeps DEF Answers
<1>6. \A b : b # n => Holders(b)' = Holders(b)
  BY <1>1 DEF Holders, Holding
<1>7. Elems(s)' = Elems(s) /\ Elems(s) \subseteq live /\ Elems(s) \subseteq Address
  BY <1>2 DEF Elems, BaseInv, StackIs
<1>8. ASSUME NEW ref \in Refs, Balanced(ref), ref.ptr \in Elems(s) \cup {Null} PROVE Balanced(ref)'
  <2>1. CASE ref.ptr = n
    BY <2>1, <1>8, AddressAssumption
  <2>2. CASE ref.ptr # n
    BY <2>2, <1>6, <1>7, <1>8 DEF Balanced
  <2> QED
    BY <2>1, <2>2
<1>9. Balanced(head)'
  <2>1. PICK h : h = head
    OBVIOUS
  <2>2. h \in Refs /\ Balanced(h) /\ h.ptr \in Elems(s) \cup {Null}
    BY <2>1, FirstOf DEF CountedInv, BaseInv, TypeInv, StackIs
  <2>3. Balanced(h)' /\ h = head'
    BY <2>1, <2>2, <1>8
  <2> QED
    BY <2>3 DEF Balanced, Holders, Holding
<1>10. ASSUME NEW b \in Elems(s) PROVE Balanced(next[b])' /\ internal_count'[b] <= 0
  <2>1. PICK r : r = next[b]
    OBVIOUS
  <2>2. r \in Refs /\ Balanced(r) /\ r.ptr \in Elems(s) \cup {Null}
    BY <2>1, <1>7, FirstFollowsNone DEF BaseInv, TypeInv, CountedInv
  <2>3. next'[b] = r
    BY <2>1, <1>3 DEF Spared, Untouched
  <2>4. Balanced(r)'
    BY <2>2, <1>8
  <2>5. internal_count'[b] <= 0
    BY <1>7 DEF CountedInv
  <2> QED
    BY <2>3, <2>4, <2>5 DEF Balanced, Holders, Holding
<1>11. pc' \in [Client -> {"idle", "push", "increase", "exchange", "settle", "unref"}]
  <2>1. ASSUME NEW d \in Client
        PROVE  pc'[d] \in {"idle", "push", "increase", "exchange", "settle", "unref"}
    <3>1. CASE d = c
      BY <3>1
    <3>2. CASE d # c
      BY <3>2, <1>1 DEF CountedInv
    <3> QED
      BY <3>1, <3>2
  <2> QED
    BY <2>1 DEF Popping
<1>12. ASSUME NEW d \in Client, Holding(d)' \/ pc'[d] = "settle"
       PROVE  /\ d # c /\ node'[d] = node[d] /\ node[d] \in live'
              /\ \A e \in Client : pc'[e] = "push" => node'[e] # node'[d]
  <2>1. d # c /\ node'[d] = node[d] /\ (Holding(d) \/ pc[d] = "settle")
    BY <1>12, <1>1 DEF Holding
  <2>2. node[d] \in live /\ \A e \in Client : pc[e] = "push" => node[e] # node[d]
    BY <2>1 DEF CountedInv
  <2>3. node[d] \in live'
    BY <2>1, <2>2, <1>2
  <2>4. ASSUME NEW e \in Client, pc'[e] = "push" PROVE node'[e] # node'[d]
    <3>1. e # c /\ pc[e] = "push" /\ node'[e] = node[e]
      BY <2>4, <1>1
    <3> QED
      BY <3>1, <2>1, <2>2
  <2> QED
    BY <2>1, <2>3, <2>4
<1>13. ASSUME NEW d \in Client, pc'[d] = "exchange" PROVE old_head'[d].ptr = node'[d]
  BY <1>13, <1>1 DEF CountedInv
<1>14. ASSUME NEW d \in Client, pc'[d] = "push" PROVE internal_count'[node'[d]] = 0
  <2>1. d # c /\ pc[d] = "push" /\ node'[d] = node[d] /\ node[d] # n /\ node[d] \in Address
    BY <1>14, <1>1 DEF BaseInv, StackIs, TypeInv
  <2> QED
    BY <2>1 DEF CountedInv
<1>15. ASSUME NEW d \in Client, pc'[d] = "settle"
       PROVE  /\ node'[d] \notin Elems(s)
              /\ internal_count'[node'[d]] <= 0
              /\ Cardinality(Holders(node[d]))' = old_head'[d].external_count - 2 + internal_count'[node'[d]]
              /\ \A e \in Client : pc'[e] = "settle" /\ node'[e] = node'[d] => e = d
  <2>1. /\ d # c /\ pc[d] = "settle" /\ node'[d] = node[d] /\ old_head'[d] = old_head[d]
        /\ node[d] \in Address
    BY <1>15, <1>1, <1>12 DEF BaseInv, TypeInv
  <2>2. PICK k : k = node[d]
    OBVIOUS
  <2>3. Holders(node[d])' = Holders(k)'
    BY <2>1, <2>2 DEF Holders, Holding
  <2>4. /\ internal_count'[k] <= 0
        /\ Cardinality(Holders(k)') = old_head[d].external_count - 2 + internal_count'[k]
    <3>1. CASE k = n
      BY <3>1, <2>1, <2>2
    <3>2. CASE k # n
      BY <3>2, <2>1, <2>2, <1>6 DEF CountedInv
    <3> QED
      BY <3>1, <3>2
  <2>5. \A e \in Client : pc'[e] = "settle" /\ node'[e] = node'[d] => e = d
    BY <2>1, <1>1 DEF CountedInv
  <2> QED
    BY <2>1, <2>2, <2>3, <2>4, <2>5 DEF CountedInv
<1>16. ASSUME NEW b \in live' \ Elems(s), \A d \in Client : pc'[d] \in {"push", "settle"} => node'[d] # b
       PROVE  internal_count'[b] > 0 /\ Cardinality(Holders(b)') = internal_count'[b]
  <2>1. \A d \in Client \ {c} : pc[d] \in {"push", "settle"} => node[d] # b
    BY <1>16, <1>1
  <2>2. CASE b = n
    BY <2>1, <2>2, <1>16, <1>2
  <2>3. CASE b # n
    <3>1. \A d \in Client : pc[d] \in {"push", "settle"} => node[d] # b
      BY <2>1, <2>3
    <3> QED
      BY <3>1, <2>3, <1>2, <1>6, <1>16 DEF CountedInv
  <2> QED
    BY <2>2, <2>3
<1>17. old_head' \in [Client -> Refs]
  BY DEF CountedInv
<1>18. CountedInv(s)'
  BY <1>7, <1>9, <1>10, <1>11, <1>12, <1>13, <1>14, <1>15, <1>16, <1>17 DEF CountedInv
<1> QED
  BY <1>5, <1>18

LEMMA CountedSettle ==
    ASSUME NEW s, BaseInv(s), CountedInv(s), NEW c \in Client, Counted!Settle(c)
    PROVE  Becomes(s, s) /\ CountedInv(s)'
<1>1. PICK n : n = node[c]
  OBVIOUS
<1> DEFINE sum == internal_count[n] + (old_head[c].external_count - 2)
<1>2. /\ pc[c] = "settle" /\ UNCHANGED <<head, got, fault, old_head>>
      /\ pc' = [pc EXCEPT ![c] = "idle"] /\ todo' = [todo EXCEPT ![c] = Tail(@)]
      /\ node' = [node EXCEPT ![c] = Null]
      /\ internal_count' = [internal_count EXCEPT ![n] = sum]
  BY <1>1 DEF Counted!Settle, Counted!Returns, Counted!To, Counted!Holds, Counted!count_increase
<1>3. /\ sum # 0 => UNCHANGED <<next, data, live>>
      /\ sum = 0 =>
            /\ live' = live \ {n}
            /\ next' = [a \in Address |-> IF a = n THEN NullRef ELSE next[a]]
            /\ data' = [a \in Address |-> IF a = n THEN Empty ELSE data[a]]
  BY <1>1 DEF Counted!Settle, Counted!DeleteIf, Counted!Delete, Counted!count_increase,
     Counted!NullRef, NullRef, Counted!Empty, Empty
<1>4. /\ n \in live /\ n \in Address /\ n \notin Elems(s)
      /\ internal_count[n] \in Int /\ old_head[c].external_count \in Int
      /\ Cardinality(Holders(n)) = sum
      /\ \A d \in Client \ {c} : pc[d] = "settle" => node[d] # n
  <2>1. n \in live /\ n \in Address
    BY <1>1, <1>2 DEF CountedInv, BaseInv, TypeInv
  <2>2. internal_count[n] \in Int /\ old_head[c].external_count \in Int
    BY <2>1 DEF CountedInv, Refs
  <2>3. Cardinality(Holders(n)) = old_head[c].external_count - 2 + internal_count[n]
    BY <1>1, <1>2 DEF CountedInv
  <2> QED
    BY <2>1, <2>2, <2>3, <1>1, <1>2 DEF CountedInv
<1>5. sum \in Nat
  BY <1>4, HoldersFinite
<1>6. Popping(c)
  <2>1. todo[c] # <<>> /\ todo[c] \in Seq(Entries)
    BY <1>2 DEF BaseInv, CallsInv, TypeInv
  <2>2. Tail(todo[c]) \in Seq(Entries)
    BY <2>1
  <2> QED
    BY <2>2, <1>2, PlacesAre DEF Popping, BaseInv, TypeInv
<1>7. /\ pc'[c] = "idle"
      /\ \A d \in Client : d # c => pc'[d] = pc[d] /\ node'[d] = node[d]
  BY <1>2 DEF BaseInv, TypeInv
<1>8. Holders(n)' = Holders(n)
  BY <1>2, <1>7 DEF Holders, Holding
<1> HIDE DEF sum
<1>9. internal_count' \in [Address -> Int] /\ internal_count'[n] = sum
      /\ \A b \in Address \ {n} : internal_count'[b] = internal_count[b]
  BY <1>2, <1>4, <1>5 DEF CountedInv
<1>10. CASE sum # 0
  <2>1. sum > 0
    BY <1>5, <1>10
  <2> QED
    BY <1>1, <1>2, <1>3, <1>4, <1>6, <1>7, <1>8, <1>9, <1>10, <2>1, CountedReleased
<1>11. CASE sum = 0
  <2>1. \A d \in Client : Holding(d) => node[d] # n
    <3>1. Holders(n) = {}
      BY <1>4, <1>11, HoldersFinite, FS_EmptySet
    <3> QED
      BY <3>1 DEF Holders
  <2> QED
    BY <1>1, <1>2, <1>3, <1>4, <1>6, <1>7, <1>8, <1>9, <1>11, <2>1, CountedReleased
<1> QED
  BY <1>10, <1>11

LEMMA CountedUnref ==
    ASSUME NEW s, BaseInv(s), CountedInv(s), NEW c \in Client, Counted!Unref(c)
    PROVE  Becomes(s, s) /\ CountedInv(s)'
<1>1. PICK n : n = node[c]
  OBVIOUS
<1>2. /\ pc[c] = "unref" /\ UNCHANGED <<head, todo, got, fault, old_head>>
      /\ pc' = [pc EXCEPT ![c] = "increase"]
      /\ node' = [node EXCEPT ![c] = Null]
      /\ internal_count' = [internal_count EXCEPT ![n] = @ - 1]
  BY <1>1 DEF Counted!Unref, Counted!To, Counted!Holds
<1>3. /\ internal_count[n] # 1 => UNCHANGED <<next, data, live>>
      /\ internal_count[n] = 1 =>
            /\ live' = live \ {n}
            /\ next' = [a \in Address |-> IF a = n THEN NullRef ELSE next[a]]
            /\ data' = [a \in Address |-> IF a = n THEN Empty ELSE data[a]]
  BY <1>1 DEF Counted!Unref, Counted!DeleteIf, Counted!Delete,
     Counted!NullRef, NullRef, Counted!Empty, Empty
<1>4. /\ n \in live /\ n \in Address /\ internal_count[n] \in Int
      /\ \A d \in Client : pc[d] = "push" => node[d] # n
  BY <1>1, <1>2 DEF CountedInv, BaseInv, TypeInv, Holding
<1>5. Popping(c)
  BY <1>2, PlacesAre DEF Popping, BaseInv, TypeInv
<1>6. /\ pc'[c] = "increase"
      /\ \A d \in Client : d # c => pc'[d] = pc[d] /\ node'[d] = node[d]
  BY <1>2 DEF BaseInv, TypeInv
<1>7. c \in Holders(n) /\ Holders(n)' = Holders(n) \ {c}
  BY <1>1, <1>2, <1>6 DEF Holders, Holding
<1>8. Cardinality(Holders(n)') = Cardinality(Holders(n)) - 1 /\ Cardinality(Holders(n)) \in Nat
  BY <1>7, HoldersLose, HoldersFinite DEF BaseInv
<1>9. internal_count' \in [Address -> Int] /\ internal_count'[n] = internal_count[n] - 1
      /\ \A b \in Address \ {n} : internal_count'[b] = internal_count[b]
  BY <1>2, <1>4 DEF CountedInv
<1>10. ASSUME NEW d \in Client \ {c}, pc[d] = "settle", node[d] = n
       PROVE  /\ internal_count[n] <= 0 /\ internal_count'[n] <= 0
              /\ Cardinality(Holders(n)') = old_head[d].external_count - 2 + internal_count'[n]
  <2>1. /\ internal_count[n] <= 0 /\ old_head[d].external_count \in Int
        /\ Cardinality(Holders(n)) = old_head[d].external_count - 2 + internal_count[n]
    BY <1>10 DEF CountedInv, Refs
  <2> QED
    BY <2>1, <1>4, <1>8, <1>9
<1>11. n \in Elems(s) => internal_count[n] <= 0 /\ internal_count'[n] <= 0
  BY <1>4, <1>9 DEF CountedInv
<1>12. ASSUME NEW ref \in Refs, ref.ptr = n, n \in Elems(s), Balanced(ref) PROVE Balanced(ref)'
  <2>1. ref.external_count \in Int /\ Cardinality(Holders(n)) = ref.external_count - 1 + internal_count[n]
    BY <1>4, <1>12, AddressAssumption DEF Balanced, Refs
  <2>2. Cardinality(Holders(n)') = ref.external_count - 1 + internal_count'[n]
    BY <2>1, <1>4, <1>8, <1>9
  <2> QED
    BY <2>2, <1>12 DEF Balanced
<1>13. CASE n \notin Elems(s) /\ \A d \in Client \ {c} : pc[d] = "settle" => node[d] # n
  <2>1. Cardinality(Holders(n)) = internal_count[n] /\ internal_count[n] > 0
    BY <1>1, <1>2, <1>4, <1>13 DEF CountedInv
  <2>2. CASE internal_count[n] = 1
    <3>1. \A d \in Client \ {c} : Holding(d) => node[d] # n
      <4>1. Cardinality(Holders(n) \ {c}) = 0 /\ IsFiniteSet(Holders(n) \ {c})
        BY <2>1, <2>2, <1>7, <1>8, HoldersFinite, FS_RemoveElement
      <4>2. Holders(n) \ {c} = {}
        BY <4>1, FS_EmptySet
      <4> QED
        BY <4>2 DEF Holders
    <3> QED
      BY <3>1, <2>2, <1>1, <1>2, <1>3, <1>4, <1>5, <1>6, <1>9, <1>13, CountedReleased
  <2>3. CASE internal_count[n] # 1
    <3>1. internal_count'[n] > 0 /\ Cardinality(Holders(n)') = internal_count'[n]
      BY <2>1, <2>3, <1>4, <1>8, <1>9
    <3> QED
      BY <3>1, <2>3, <1>1, <1>2, <1>3, <1>4, <1>5, <1>6, <1>9, <1>13, CountedReleased
  <2> QED
    BY <2>2, <2>3
<1>14. CASE n \in Elems(s) \/ \E d \in Client \ {c} : pc[d] = "settle" /\ node[d] = n
  <2>1. internal_count[n] <= 0
    BY <1>10, <1>11, <1>14
  <2>2. UNCHANGED <<next, data, live>>
    BY <2>1, <1>3, <1>4
  <2> QED
    BY <2>2, <1>1, <1>2, <1>4, <1>5, <1>6, <1>9, <1>10, <1>11, <1>12, <1>14, CountedReleased
<1> QED
  BY <1>13, <1>14

(* So no pop() touches a node that is gone, and the counts stay balanced.   *)
LEMMA CountedSafe ==
    ASSUME NEW s, BaseInv(s), CountedInv(s), NEW c \in Client
    PROVE  Counted!Accessed(c) \subseteq live
BY DEF Counted!Accessed, CountedInv, Holding, BaseInv, StackIs

LEMMA CountedStep ==
    ASSUME NEW s, BaseInv(s), CountedInv(s), fault = "none", NEW c \in Client, Counted!ClientStep(c)
    PROVE  fault' = "none" /\ \E r : Becomes(s, r) /\ CountedInv(r)'
<1>1. Counted!Step(c)
  BY CountedSafe DEF Counted!ClientStep
<1>2. CASE Counted!PushCounted(c)
  <2>1. PushLoad(c) \/ PushExchange(c)
    BY <1>2, SamePushCounted DEF Counted!PushCounted, Counted!Push
  <2>2. fault' = "none"
    BY <2>1 DEF PushLoad, PushExchange
  <2> QED
    BY <1>2, <2>1, <2>2, CountedPushLoad, CountedPushExchange
<1>3. CASE Counted!PopLoad(c)
  BY <1>3, CountedPopLoad DEF Counted!PopLoad
<1>4. CASE Counted!Increase(c)
  BY <1>4, CountedIncrease DEF Counted!Increase
<1>5. CASE Counted!PopExchange(c)
  <2>1. fault' = "none"
    BY <1>5 DEF Counted!PopExchange
  <2> QED
    BY <1>5, <2>1, CountedTake, CountedMiss
<1>6. CASE Counted!Settle(c)
  BY <1>6, CountedSettle DEF Counted!Settle
<1>7. CASE Counted!Unref(c)
  BY <1>7, CountedUnref DEF Counted!Unref
<1> QED
  BY <1>1, <1>2, <1>3, <1>4, <1>5, <1>6, <1>7 DEF Counted!Step
-----------------------------------------------------------------------------
(* HazardStack.  What a client alone has: the node it pushes or has taken,  *)
(* or the nodes it scans for.                                               *)
Owns(c) ==
    CASE pc[c] = "push" -> {node[c]}
      [] pc[c] = "withdraw" -> {node[c]} \ {Null}
      [] OTHER -> Elems(current[c])

HazardPlaces(s) ==
    /\ nodes_to_reclaim \in Seq(Address) /\ Once(nodes_to_reclaim)
    /\ Elems(nodes_to_reclaim) \subseteq live \ Elems(s)
    /\ current \in [Client -> Seq(Address)]
    /\ \A c \in Client :
          /\ Once(current[c])
          /\ pc[c] \notin {"scan", "sweep"} => current[c] = <<>>
          /\ Owns(c) \subseteq live \ (Elems(s) \cup Elems(nodes_to_reclaim))
          /\ \A d \in Client \ {c} : Owns(c) \cap Owns(d) = {}
    /\ \A a \in live : a \in Elems(s) \cup Elems(nodes_to_reclaim) \/ \E c \in Client : a \in Owns(c)

(* The scan of c can still meet slot q when it is looking for a.            *)
Meets(c, q, a) == current[c] # <<>> /\ Head(current[c]) = a => slot[c] <= q

HazardInv(s) ==
    /\ pc \in [Client -> {"idle", "push", "publish", "reload", "exchange", "withdraw", "scan", "sweep"}]
    /\ id \in [Slot -> Client \cup {Null}]
    /\ pointer \in [Slot -> Address \cup {Null}]
    /\ slot \in [Client -> Nat]
    /\ HazardPlaces(s)
    /\ \A q, r \in Slot : id[q] = id[r] /\ id[q] # Null => q = r
    /\ \A c \in Client : pc[c] \notin {"idle", "push"} => \E q \in Slot : id[q] = c
    /\ \A c \in Client : \A q \in Slot :
          pc[c] \in {"reload", "exchange"} /\ id[q] = c => pointer[q] = node[c]
    /\ \A c \in Client : current[c] = <<>> => slot[c] = 0
    /\ \A c \in Client : pc[c] = "exchange" =>
          /\ node[c] \in live
          /\ \A d \in Client : pc[d] = "push" => node[d] # node[c]
          /\ \A q \in Slot : id[q] = c => \A d \in Client : Meets(d, q, node[c])

LEMMA SamePushHazard ==
    ASSUME NEW c \in Client
    PROVE  /\ Hazard!PushLoad(c) <=> PushLoad(c)
           /\ Hazard!PushExchange(c) <=> PushExchange(c)
<1>1. Hazard!PushLoad(c) <=> PushLoad(c)
  BY DEF Hazard!PushLoad, PushLoad, Hazard!Calls, Calls, Hazard!To, To, Hazard!Holds, Holds,
         Hazard!Empty, Empty
<1>2. Hazard!PushExchange(c) <=> PushExchange(c)
  BY DEF Hazard!PushExchange, PushExchange, Hazard!Returns, Returns, Hazard!To, To,
         Hazard!Ref, Ref
<1> QED
  BY <1>1, <1>2

LEMMA OwnedIs ==
    ASSUME NEW s, HazardInv(s), NEW c \in Client, NEW q \in Slot, id[q] = c
    PROVE  Hazard!Owned(c) = q
<1>1. \A r \in Slot : id[r] = c => r = q
  BY ClientAssumption DEF HazardInv
<1> QED
  BY <1>1 DEF Hazard!Owned

LEMMA OwnsStays ==
    ASSUME NEW d, pc'[d] = pc[d], node'[d] = node[d], current'[d] = current[d]
    PROVE  Owns(d)' = Owns(d)
<1>1. Elems(current[d])' = Elems(current[d])
  BY DEF Elems
<1>2. CASE pc[d] = "push"
  BY <1>2 DEF Owns
<1>3. CASE pc[d] = "withdraw"
  BY <1>3 DEF Owns
<1>4. CASE pc[d] \notin {"push", "withdraw"}
  <2>1. Owns(d) = Elems(current[d])
    BY <1>4 DEF Owns
  <2>2. Owns(d)' = Elems(current[d])'
    BY <1>4 DEF Owns
  <2> QED
    BY <1>1, <2>1, <2>2
<1> QED
  BY <1>2, <1>3, <1>4

(* Who neither pushes a node nor has taken one has those it scans for.      *)
LEMMA OwnsScanned ==
    ASSUME NEW d, pc[d] \notin {"push", "withdraw"}, pc'[d] \notin {"push", "withdraw"},
           current'[d] = current[d]
    PROVE  Owns(d)' = Owns(d)
<1>1. Owns(d) = Elems(current[d]) /\ Owns(d)' = Elems(current[d])'
  BY DEF Owns
<1>2. Elems(current[d])' = Elems(current[d])
  BY DEF Elems
<1> QED
  BY <1>1, <1>2

LEMMA SlotsAre ==
    /\ \A q \in Slot : q \in Nat
    /\ \A n \in Nat : n \notin Slot => \A q \in Slot : q < n
<1>1. Cardinality(Slot) \in Nat
  BY SlotAssumption, FS_CardinalityType
<1>2. PICK n \in Nat : n = Cardinality(Slot)
  BY <1>1
<1>3. Slot = 0 .. n - 1
  BY <1>2, SlotAssumption
<1> QED
  BY <1>3

(* A step of c that moves nodes between the stack, what it has itself and   *)
(* nodes_to_reclaim, takes some from the free ones, and frees others.       *)
LEMMA PlacesMove ==
    ASSUME NEW s, NEW r, HazardPlaces(s), NEW c \in Client, live' \in SUBSET Address,
           nodes_to_reclaim' \in Seq(Address), Once(nodes_to_reclaim)',
           current' \in [Client -> Seq(Address)], Once(current[c])',
           pc'[c] \notin {"scan", "sweep"} => current'[c] = <<>>,
           \A d \in Client \ {c} : pc'[d] = pc[d] /\ node'[d] = node[d] /\ current'[d] = current[d],
           NEW S, S = Elems(s), NEW T, T = Elems(r),
           NEW R, R = Elems(nodes_to_reclaim), NEW Q, Q = Elems(nodes_to_reclaim)',
           NEW O, O = Owns(c), NEW P, P = Owns(c)',
           T \cap Q = {}, T \cap P = {}, Q \cap P = {},
           (T \cup Q \cup P) \cap live \subseteq S \cup R \cup O,
           live' = (live \ (S \cup R \cup O)) \cup T \cup Q \cup P
    PROVE  HazardPlaces(r)'
<1>1. Elems(r)' = T
  BY DEF Elems
<1>2. ASSUME NEW d \in Client, d # c
      PROVE  Owns(d)' = Owns(d) /\ Owns(d) \subseteq live \ (S \cup R \cup O) /\ Once(current[d])'
  <2>1. Once(current[d])'
    BY <1>2 DEF HazardPlaces, Once
  <2>2. Owns(d)' = Owns(d)
    BY <1>2, OwnsStays
  <2>3. Owns(d) \subseteq live \ (S \cup R \cup O)
    BY <1>2 DEF HazardPlaces
  <2> QED
    BY <2>1, <2>2, <2>3
<1>3. ASSUME NEW d \in Client
      PROVE  /\ Owns(d)' \subseteq live' \ (T \cup Q)
             /\ \A e \in Client \ {d} : Owns(d)' \cap Owns(e)' = {}
  <2>1. CASE d = c
    BY <2>1, <1>2
  <2>2. CASE d # c
    <3>1. Owns(d)' \subseteq live' \ (T \cup Q \cup P)
      BY <2>2, <1>2
    <3>2. ASSUME NEW e \in Client \ {d} PROVE Owns(d)' \cap Owns(e)' = {}
      <4>1. CASE e = c
        BY <4>1, <3>1
      <4>2. CASE e # c
        BY <4>2, <2>2, <1>2 DEF HazardPlaces
      <4> QED
        BY <4>1, <4>2
    <3> QED
      BY <3>1, <3>2
  <2> QED
    BY <2>1, <2>2
<1>4. ASSUME NEW a \in live' PROVE a \in T \cup Q \/ \E d \in Client : a \in Owns(d)'
  <2>1. CASE a \in T \cup Q \cup P
    BY <2>1
  <2>2. CASE a \in live \ (S \cup R \cup O)
    <3>1. PICK d \in Client : a \in Owns(d)
      BY <2>2 DEF HazardPlaces
    <3>2. d # c
      BY <3>1, <2>2
    <3> QED
      BY <3>1, <3>2, <1>2
  <2> QED
    BY <2>1, <2>2, <1>4
<1>5. \A d \in Client : Once(current[d])' /\ (pc'[d] \notin {"scan", "sweep"} => current'[d] = <<>>)
  BY <1>2 DEF HazardPlaces
<1>6. Elems(nodes_to_reclaim)' \subseteq live' \ T
  OBVIOUS
<1> QED
  BY <1>1, <1>3, <1>4, <1>5, <1>6 DEF HazardPlaces

(* The same, where it stays in its scan and the stack stays what it is.     *)
Moves(S, R, Q, O, P) ==
    /\ S \cap Q = {} /\ S \cap P = {} /\ Q \cap P = {}
    /\ (S \cup Q \cup P) \cap live \subseteq S \cup R \cup O
    /\ live' = (live \ (S \cup R \cup O)) \cup S \cup Q \cup P

LEMMA PlacesScan ==
    ASSUME NEW s, HazardPlaces(s), NEW c \in Client, live' \in SUBSET Address,
           nodes_to_reclaim' \in Seq(Address), Once(nodes_to_reclaim)',
           current' \in [Client -> Seq(Address)], Once(current[c])',
           pc'[c] \in {"scan", "sweep"},
           \A d \in Client \ {c} : pc'[d] = pc[d] /\ node'[d] = node[d] /\ current'[d] = current[d],
           Moves(Elems(s), Elems(nodes_to_reclaim), Elems(nodes_to_reclaim)', Owns(c), Owns(c)')
    PROVE  HazardPlaces(s)'
BY PlacesMove DEF Moves

(* What else a step of c that gives and takes no slot must keep.            *)
LEMMA HazardKeeps ==
    ASSUME NEW s, NEW r, HazardInv(s), HazardPlaces(r)', NEW c \in Client, UNCHANGED id,
           \A d \in Client \ {c} : pc'[d] = pc[d] /\ node'[d] = node[d]
                                      /\ current'[d] = current[d] /\ slot'[d] = slot[d],
           pc' \in [Client -> {"idle", "push", "publish", "reload", "exchange", "withdraw", "scan", "sweep"}],
           slot' \in [Client -> Nat], current'[c] = <<>> => slot'[c] = 0,
           pointer' \in [Slot -> Address \cup {Null}],
           \A q \in Slot : id[q] # c => pointer'[q] = pointer[q],
           pc'[c] \notin {"idle", "push"} => pc[c] \notin {"idle", "push"},
           \A q \in Slot : pc'[c] \in {"reload", "exchange"} /\ id[q] = c => pointer'[q] = node'[c],
           pc'[c] = "exchange" =>
               /\ node'[c] \in live' /\ \A d \in Client : pc'[d] = "push" => node'[d] # node'[c]
               /\ \A q \in Slot : id[q] = c => \A d \in Client : Meets(d, q, node[c])',
           \A d \in Client \ {c} : pc[d] = "exchange" =>
               /\ node[d] \in live'
               /\ pc'[c] = "push" => node[d] # node'[c]
               /\ \A q \in Slot : id[q] = d /\ pointer[q] = node[d] => Meets(c, q, node[d])'
    PROVE  HazardInv(r)'
<1>1. \A q, t \in Slot : id'[q] = id'[t] /\ id'[q] # Null => q = t
  BY DEF HazardInv
<1>2. \A d \in Client : pc'[d] \notin {"idle", "push"} => \E q \in Slot : id'[q] = d
  BY DEF HazardInv
<1>3. ASSUME NEW d \in Client, NEW q \in Slot, pc'[d] \in {"reload", "exchange"}, id'[q] = d
      PROVE  pointer'[q] = node'[d]
  <2>1. CASE d = c
    BY <2>1, <1>3
  <2>2. CASE d # c
    BY <2>2, <1>3 DEF HazardInv
  <2> QED
    BY <2>1, <2>2
<1>4. \A d \in Client : current'[d] = <<>> => slot'[d] = 0
  BY DEF HazardInv
<1>5. ASSUME NEW d \in Client, pc'[d] = "exchange"
      PROVE  /\ node'[d] \in live'
             /\ \A e \in Client : pc'[e] = "push" => node'[e] # node'[d]
             /\ \A q \in Slot : id'[q] = d => \A e \in Client : Meets(e, q, node[d])'
  <2>1. CASE d = c
    <3>1. \A q \in Slot, e \in Client : Meets(e, q, node[c])' <=> Meets(e, q, node[d])'
      BY <2>1 DEF Meets
    <3> QED
      BY <3>1, <2>1, <1>5
  <2>2. CASE d # c
    <3>1. pc[d] = "exchange" /\ node'[d] = node[d] /\ node[d] \in live'
      BY <2>2, <1>5
    <3>2. ASSUME NEW e \in Client, pc'[e] = "push" PROVE node'[e] # node'[d]
      BY <2>2, <3>1, <3>2 DEF HazardInv
    <3>3. ASSUME NEW q \in Slot, id'[q] = d, NEW e \in Client PROVE Meets(e, q, node[d])'
      <4>1. pointer[q] = node[d]
        BY <3>1, <3>3 DEF HazardInv
      <4>2. CASE e = c
        <5>1. PICK a : a = node[d]
          OBVIOUS
        <5>2. Meets(c, q, a)'
          BY <5>1, <4>1, <2>2, <3>1, <3>3 DEF Meets
        <5> QED
          BY <5>1, <5>2, <4>2, <3>1 DEF Meets
      <4>3. CASE e # c
        <5>1. Meets(e, q, node[d])
          BY <3>1, <3>3 DEF HazardInv
        <5> QED
          BY <5>1, <4>3, <3>1 DEF Meets
      <4> QED
        BY <4>2, <4>3
    <3> QED
      BY <3>1, <3>2, <3>3
  <2> QED
    BY <2>1, <2>2
<1> QED
  BY <1>1, <1>2, <1>3, <1>4, <1>5 DEF HazardInv

(* The steps that move no node.                                             *)
LEMMA PlacesStay ==
    ASSUME NEW s, HazardPlaces(s), NEW c \in Client,
           UNCHANGED <<live, nodes_to_reclaim, current>>, Owns(c)' = Owns(c),
           pc'[c] \notin {"scan", "sweep"} => current[c] = <<>>,
           \A d \in Client \ {c} : pc'[d] = pc[d] /\ node'[d] = node[d]
    PROVE  HazardPlaces(s)'
<1>1. Elems(s)' = Elems(s) /\ Elems(nodes_to_reclaim)' = Elems(nodes_to_reclaim)
  BY DEF Elems
<1>2. \A d \in Client : Owns(d)' = Owns(d)
  BY OwnsStays
<1>3. Once(nodes_to_reclaim)' /\ \A d \in Client : Once(current[d])'
  BY DEF HazardPlaces, Once
<1>4. \A d \in Client : pc'[d] \notin {"scan", "sweep"} => current[d] = <<>>
  BY DEF HazardPlaces
<1> QED
  BY <1>1, <1>2, <1>3, <1>4 DEF HazardPlaces

LEMMA HazardPushLoad ==
    ASSUME NEW s, BaseInv(s), HazardInv(s), NEW c \in Client,
           PushLoad(c), UNCHANGED Hazard!hazardVars
    PROVE  Becomes(s, s) /\ HazardInv(s)'
<1>1. Becomes(s, s)
  BY PushLoadKeeps
<1>2. /\ pc[c] = "idle"
      /\ pc' = [pc EXCEPT ![c] = "push"]
      /\ UNCHANGED <<head, todo, got, fault, id, pointer, nodes_to_reclaim, current, slot>>
  BY DEF PushLoad, Calls, To, Hazard!hazardVars
<1>3. PICK a \in Address \ live :
         live' = live \cup {a} /\ node' = [node EXCEPT ![c] = a]
  BY DEF PushLoad, Holds
<1>4. /\ pc'[c] = "push" /\ node'[c] = a
      /\ \A d \in Client : d # c => pc'[d] = pc[d] /\ node'[d] = node[d]
  BY <1>2, <1>3 DEF BaseInv, TypeInv
<1>5. current[c] = <<>> /\ Owns(c) = {} /\ Owns(c)' = {a}
  <2>1. current[c] = <<>>
    BY <1>2 DEF HazardInv, HazardPlaces
  <2>2. Elems(current[c]) = {}
    BY <2>1 DEF Elems
  <2> QED
    BY <2>1, <2>2, <1>2, <1>4 DEF Owns
<1>6. HazardPlaces(s)'
  <2>1. PICK S, R : S = Elems(s) /\ R = Elems(nodes_to_reclaim)
    OBVIOUS
  <2>2. R = Elems(nodes_to_reclaim)' /\ Once(nodes_to_reclaim)' /\ Once(current[c])'
    BY <2>1, <1>2 DEF Elems, Once, HazardInv, HazardPlaces
  <2>3. S \subseteq live /\ R \subseteq live \ S /\ live \subseteq Address
    BY <2>1 DEF HazardInv, HazardPlaces, BaseInv, StackIs, TypeInv
  <2>4. live' = (live \ (S \cup R \cup {})) \cup S \cup R \cup {a}
    BY <2>3, <1>3
  <2>5. HazardPlaces(s)
    BY DEF HazardInv
  <2>6. /\ nodes_to_reclaim' \in Seq(Address) /\ current' \in [Client -> Seq(Address)]
        /\ \A d \in Client \ {c} : pc'[d] = pc[d] /\ node'[d] = node[d] /\ current'[d] = current[d]
        /\ current'[c] = <<>> /\ live' \in SUBSET Address
    BY <2>5, <2>3, <1>2, <1>3, <1>4, <1>5 DEF HazardPlaces
  <2>7. S \cap R = {} /\ S \cap {a} = {} /\ R \cap {a} = {}
        /\ (S \cup R \cup {a}) \cap live \subseteq S \cup R \cup {}
    BY <2>3, <1>3
  <2> QED
    BY <2>1, <2>2, <2>4, <2>5, <2>6, <2>7, <1>5, PlacesMove
<1>7. pc' \in [Client -> {"idle", "push", "publish", "reload", "exchange", "withdraw", "scan", "sweep"}]
  BY <1>2 DEF HazardInv
<1>8. \A d \in Client \ {c} : pc[d] = "exchange" =>
          node[d] \in live' /\ node[d] # a /\ \A q \in Slot : Meets(c, q, node[d])'
  BY <1>2, <1>3, <1>5 DEF HazardInv, Meets
<1>9. HazardInv(s)'
  BY <1>2, <1>4, <1>6, <1>7, <1>8, HazardKeeps DEF HazardInv
<1> QED
  BY <1>1, <1>9

LEMMA HazardPushExchange ==
    ASSUME NEW s, BaseInv(s), HazardInv(s), NEW c \in Client,
           PushExchange(c), UNCHANGED Hazard!hazardVars
    PROVE  \E r : Becomes(s, r) /\ HazardInv(r)'
<1>0. /\ pc[c] = "push" /\ UNCHANGED <<data, live, node, got, fault>>
      /\ UNCHANGED <<id, pointer, nodes_to_reclaim, current, slot>>
      /\ node[c] \in live \ Elems(s) /\ live \in SUBSET Address
      /\ Elems(s) \subseteq live
  BY DEF PushExchange, BaseInv, StackIs, TypeInv, Hazard!hazardVars
<1>1. PICK n : n = node[c]
  OBVIOUS
<1>2. HazardPlaces(s) /\ current[c] = <<>> /\ Owns(c) = {n}
  BY <1>0, <1>1 DEF HazardInv, HazardPlaces, Owns
<1>3. CASE Becomes(s, s) /\ UNCHANGED <<head, pc, todo, data, live, node, got>>
  <2>1. HazardPlaces(s)'
    BY <1>0, <1>2, <1>3, PlacesStay DEF Owns, Elems
  <2>2. HazardInv(s)'
    BY <2>1, <1>0, <1>2, <1>3 DEF HazardInv, Meets
  <2> QED
    BY <2>2, <1>3
<1>4. CASE BaseInv(<<node[c]>> \o s)' /\ Effect(s, <<node[c]>> \o s) /\ pc' = [pc EXCEPT ![c] = "idle"]
  <2> DEFINE r == <<n>> \o s
  <2>1. (<<node[c]>> \o s)' = r
    BY <1>0, <1>1
  <2>2. Becomes(s, r)
    <3>1. BaseInv(r)'
      BY <2>1, <1>4, <1>1 DEF BaseInv, StackIs, ValuesInv, Leads, At, Elems, Once
    <3>2. Effect(s, r)
      BY <1>4, <1>1
    <3> QED
      BY <3>1, <3>2 DEF Becomes
  <2>3. Elems(r) = Elems(s) \cup {n}
    <3>1. s \in Seq(Address) /\ n \in Address
      BY <1>0, <1>1 DEF BaseInv, StackIs, Leads
    <3> QED
      BY <3>1, PushElems
  <2> HIDE DEF r
  <2>4. /\ pc'[c] = "idle" /\ \A d \in Client : d # c => pc'[d] = pc[d]
        /\ pc' \in [Client -> {"idle", "push", "publish", "reload", "exchange", "withdraw", "scan", "sweep"}]
    BY <1>4 DEF HazardInv
  <2>5. Owns(c)' = {}
    BY <2>4, <1>0, <1>2 DEF Owns, Elems
  <2>6. HazardPlaces(r)'
    <3>1. PICK S, R : S = Elems(s) /\ R = Elems(nodes_to_reclaim)
      OBVIOUS
    <3>2. R = Elems(nodes_to_reclaim)' /\ Once(nodes_to_reclaim)' /\ Once(current[c])'
      BY <3>1, <1>0, <1>2 DEF Elems, Once, HazardPlaces
    <3>3. S \subseteq live /\ R \subseteq live \ S /\ n \in live \ (S \cup R)
      BY <3>1, <1>0, <1>1, <1>2 DEF HazardPlaces
    <3>4. live' = (live \ (S \cup R \cup {n})) \cup (S \cup {n}) \cup R \cup {}
      BY <3>3, <1>0
    <3>5. /\ nodes_to_reclaim' \in Seq(Address) /\ current' \in [Client -> Seq(Address)]
          /\ \A d \in Client \ {c} : pc'[d] = pc[d] /\ node'[d] = node[d] /\ current'[d] = current[d]
          /\ current'[c] = <<>> /\ live' \in SUBSET Address
      BY <1>0, <1>2, <2>4 DEF HazardPlaces
    <3>6. /\ (S \cup {n}) \cap R = {}
          /\ ((S \cup {n}) \cup R \cup {}) \cap live \subseteq S \cup R \cup {n}
      BY <3>3
    <3>7. PICK T : T = S \cup {n}
      OBVIOUS
    <3>8. T = Elems(r) /\ T \cap R = {} /\ (T \cup R \cup {}) \cap live \subseteq S \cup R \cup {n}
          /\ live' = (live \ (S \cup R \cup {n})) \cup T \cup R \cup {}
      BY <3>1, <3>4, <3>6, <3>7, <2>3
    <3> QED
      BY <3>1, <3>2, <3>5, <3>8, <1>2, <2>5, PlacesMove
  <2>7. \A d \in Client \ {c} : pc[d] = "exchange" =>
            node[d] \in live' /\ \A q \in Slot : Meets(c, q, node[d])'
    BY <1>0, <1>2 DEF HazardInv, Meets
  <2>8. HazardInv(r)'
    BY <2>4, <2>6, <2>7, <1>0, <1>2, HazardKeeps DEF HazardInv
  <2> QED
    BY <2>2, <2>8
<1> QED
  BY <1>3, <1>4, PushExchangeKeeps

LEMMA HazardPopCall ==
    ASSUME NEW s, BaseInv(s), HazardInv(s), NEW c \in Client, Hazard!PopCall(c)
    PROVE  Becomes(s, s) /\ HazardInv(s)'
<1>1. /\ pc[c] = "idle" /\ todo[c] # <<>> /\ Head(todo[c]) = Empty
      /\ pc' = [pc EXCEPT ![c] = "publish"]
      /\ node' = [node EXCEPT ![c] = head.ptr]
      /\ UNCHANGED <<head, next, data, live, todo, got, fault, pointer, nodes_to_reclaim, current, slot>>
  BY DEF Hazard!PopCall, Hazard!Calls, Hazard!To, Hazard!Holds, Hazard!Empty, Empty
<1>2. head.ptr \in Address \cup {Null} /\ current[c] = <<>>
  BY <1>1 DEF BaseInv, TypeInv, Refs, HazardInv, HazardPlaces
<1>3. Popping(c)
  BY <1>1, <1>2, PlacesAre DEF Popping, BaseInv, TypeInv
<1>4. Becomes(s, s)
  BY <1>1, <1>3, PopKeeps DEF BaseInv, TypeInv, Typed, Spared, Untouched, StackIs, Answers
<1>5. /\ pc'[c] = "publish"
      /\ \A d \in Client : d # c => pc'[d] = pc[d] /\ node'[d] = node[d]
  BY <1>1 DEF BaseInv, TypeInv
<1>6. HazardPlaces(s)'
  <2>1. HazardPlaces(s)
    BY DEF HazardInv
  <2>2. Owns(c)' = Owns(c)
    BY <1>1, <1>5, OwnsScanned
  <2> QED
    BY <2>1, <2>2, <1>1, <1>2, <1>5, PlacesStay
<1>7. PICK q \in Slot : /\ id' = [id EXCEPT ![q] = c] /\ id[q] \in {c, Null}
                        /\ \A t \in Slot : id[t] = c => t = q
  <2>1. CASE c \in {id[q] : q \in Slot}
    <3>1. PICK q \in Slot : id[q] = c
      BY <2>1
    <3>2. id' = [id EXCEPT ![q] = c]
      BY <2>1, <3>1 DEF Hazard!PopCall, HazardInv
    <3>3. \A t \in Slot : id[t] = c => t = q
      BY <3>1, ClientAssumption DEF HazardInv
    <3> QED
      BY <3>1, <3>2, <3>3
  <2>2. CASE c \notin {id[q] : q \in Slot}
    BY <2>2 DEF Hazard!PopCall
  <2> QED
    BY <2>1, <2>2
<1>8. /\ id' \in [Slot -> Client \cup {Null}] /\ id'[q] = c
      /\ \A t \in Slot : t # q => id'[t] = id[t] /\ id[t] # c
  BY <1>7 DEF HazardInv
<1>9. HazardInv(s)'
  <2>1. \A t, u \in Slot : id'[t] = id'[u] /\ id'[t] # Null => t = u
    BY <1>8 DEF HazardInv
  <2>2. ASSUME NEW d \in Client, d # c, NEW t \in Slot PROVE id[t] = d <=> id'[t] = d
    BY <2>2, <1>7, <1>8, ClientAssumption
  <2>3. ASSUME NEW d \in Client, pc'[d] \notin {"idle", "push"} PROVE \E t \in Slot : id'[t] = d
    BY <2>2, <2>3, <1>5, <1>8 DEF HazardInv
  <2>4. ASSUME NEW d \in Client, NEW t \in Slot, pc'[d] \in {"reload", "exchange"}, id'[t] = d
        PROVE  pointer'[t] = node'[d]
    BY <2>2, <2>4, <1>1, <1>5 DEF HazardInv
  <2>5. pc' \in [Client -> {"idle", "push", "publish", "reload", "exchange", "withdraw", "scan", "sweep"}]
    BY <1>1 DEF HazardInv
  <2>6. ASSUME NEW d \in Client, pc'[d] = "exchange"
        PROVE  /\ node'[d] \in live' /\ \A e \in Client : pc'[e] = "push" => node'[e] # node'[d]
               /\ \A t \in Slot : id'[t] = d => \A e \in Client : Meets(e, t, node[d])'
    BY <2>2, <2>6, <1>1, <1>5 DEF HazardInv, Meets
  <2> QED
    BY <2>1, <2>3, <2>4, <2>5, <2>6, <1>1, <1>6, <1>8 DEF HazardInv
<1> QED
  BY <1>4, <1>9

LEMMA HazardPublish ==
    ASSUME NEW s, BaseInv(s), HazardInv(s), NEW c \in Client, Hazard!Publish(c)
    PROVE  Becomes(s, s) /\ HazardInv(s)'
<1>1. /\ pc[c] = "publish"
      /\ pc' = [pc EXCEPT ![c] = "reload"]
      /\ pointer' = [pointer EXCEPT ![Hazard!Owned(c)] = node[c]]
      /\ UNCHANGED <<head, next, data, live, todo, node, got, fault, id, nodes_to_reclaim, current, slot>>
  BY DEF Hazard!Publish, Hazard!To
<1>2. PICK q \in Slot : id[q] = c
  BY <1>1 DEF HazardInv
<1>3. Hazard!Owned(c) = q /\ \A t \in Slot : id[t] = c => t = q
  BY <1>2, OwnedIs, ClientAssumption DEF HazardInv
<1>4. /\ pointer' \in [Slot -> Address \cup {Null}] /\ pointer'[q] = node[c]
      /\ \A t \in Slot : id[t] # c => pointer'[t] = pointer[t]
  BY <1>1, <1>2, <1>3 DEF HazardInv, BaseInv, TypeInv
<1>5. Popping(c)
  BY <1>1, PlacesAre DEF Popping, BaseInv, TypeInv
<1>6. Becomes(s, s)
  BY <1>1, <1>5, PopKeeps DEF BaseInv, TypeInv, Typed, Spared, Untouched, StackIs, Answers
<1>7. /\ pc'[c] = "reload" /\ current[c] = <<>> /\ HazardPlaces(s)
      /\ \A d \in Client : d # c => pc'[d] = pc[d] /\ node'[d] = node[d]
      /\ pc' \in [Client -> {"idle", "push", "publish", "reload", "exchange", "withdraw", "scan", "sweep"}]
  BY <1>1 DEF BaseInv, TypeInv, HazardInv, HazardPlaces
<1>8. HazardPlaces(s)'
  <2>1. Owns(c)' = Owns(c)
    BY <1>1, <1>7, OwnsScanned
  <2> QED
    BY <2>1, <1>1, <1>7, PlacesStay
<1>9. HazardInv(s)'
  BY <1>1, <1>2, <1>3, <1>4, <1>7, <1>8, HazardKeeps DEF HazardInv, Meets
<1> QED
  BY <1>6, <1>9

LEMMA HazardReload ==
    ASSUME NEW s, BaseInv(s), HazardInv(s), NEW c \in Client, Hazard!ReloadHead(c)
    PROVE  Becomes(s, s) /\ HazardInv(s)'
<1>1. /\ pc[c] = "reload"
      /\ node' = [node EXCEPT ![c] = head.ptr]
      /\ pc' = [pc EXCEPT ![c] = IF head.ptr # node[c] THEN "publish"
                                 ELSE IF head.ptr = Null THEN "withdraw" ELSE "exchange"]
      /\ got' = [got EXCEPT ![c] = IF node[c] = Null /\ head.ptr = Null THEN Empty ELSE @]
      /\ UNCHANGED <<head, next, data, live, todo, fault, id, pointer, nodes_to_reclaim, current, slot>>
  BY DEF Hazard!ReloadHead, Hazard!Holds, Hazard!To, Hazard!Empty, Empty, Hazard!hazardVars
<1>2. head.ptr \in Address \cup {Null} /\ current[c] = <<>> /\ HazardPlaces(s)
  BY <1>1 DEF BaseInv, TypeInv, Refs, HazardInv, HazardPlaces
<1>3. /\ node'[c] = head.ptr
      /\ pc'[c] = IF head.ptr # node[c] THEN "publish" ELSE IF head.ptr = Null THEN "withdraw" ELSE "exchange"
      /\ \A d \in Client : d # c => pc'[d] = pc[d] /\ node'[d] = node[d]
      /\ pc' \in [Client -> {"idle", "push", "publish", "reload", "exchange", "withdraw", "scan", "sweep"}]
  BY <1>1 DEF BaseInv, TypeInv, HazardInv
<1>4. Popping(c)
  BY <1>1, <1>2, PlacesAre DEF Popping, BaseInv, TypeInv
<1>5. Becomes(s, s)
  <2>1. got' \in [Client -> Entries]
    BY <1>1 DEF BaseInv, TypeInv, Entries
  <2> QED
    BY <2>1, <1>1, <1>4, PopKeeps DEF BaseInv, TypeInv, Typed, Spared, Untouched, StackIs, Answers
<1>6. HazardPlaces(s)'
  <2>1. Owns(c)' = Owns(c)
    BY <1>1, <1>2, <1>3 DEF Owns, Elems
  <2> QED
    BY <2>1, <1>1, <1>2, <1>3, PlacesStay
<1>7. CASE pc'[c] # "exchange"
  <2>1. pc'[c] \notin {"reload", "exchange", "push"} /\ pc'[c] \notin {"idle"}
    BY <1>3, <1>7
  <2>2. HazardInv(s)'
    BY <2>1, <1>1, <1>2, <1>3, <1>6, HazardKeeps DEF HazardInv, Meets
  <2> QED
    BY <2>2, <1>5
<1>8. CASE pc'[c] = "exchange"
  <2>1. head.ptr = node[c] /\ head.ptr # Null /\ node'[c] = node[c]
    BY <1>3, <1>8
  <2>2. node[c] \in Elems(s) /\ node[c] \in live
    BY <2>1, FirstOf DEF BaseInv, StackIs
  <2>3. \A d \in Client : pc[d] = "push" => node[d] # node[c]
    BY <2>2 DEF BaseInv, StackIs
  <2>4. ASSUME NEW d \in Client, current[d] # <<>>, Head(current[d]) = node[c] PROVE FALSE
    <3>1. current[d] \in Seq(Address) /\ current[d] # <<>>
      BY <1>2, <2>4 DEF HazardPlaces
    <3>2. 1 \in 1 .. Len(current[d]) /\ Head(current[d]) = current[d][1]
      BY <3>1
    <3>3. node[c] \in Elems(current[d])
      BY <2>4, <3>2 DEF Elems
    <3>4. Owns(d) = Elems(current[d])
      BY <2>4, <1>2 DEF Owns, HazardPlaces
    <3> QED
      BY <3>3, <3>4, <2>2, <1>2 DEF HazardPlaces
  <2>5. \A d \in Client : \A q \in Slot : Meets(d, q, node[c])'
    BY <2>1, <2>4, <1>1 DEF Meets
  <2>6. HazardInv(s)'
    BY <2>1, <2>2, <2>3, <2>5, <1>1, <1>2, <1>3, <1>6, <1>8, HazardKeeps DEF HazardInv, Meets
  <2> QED
    BY <2>6, <1>5
<1> QED
  BY <1>7, <1>8

LEMMA HazardTake ==
    ASSUME NEW s, BaseInv(s), HazardInv(s), NEW c \in Client, Hazard!PopExchange(c),
           head.ptr = node[c]
    PROVE  Becomes(s, Tail(s)) /\ HazardInv(Tail(s))'
<1>1. /\ pc[c] = "exchange" /\ head' = next[node[c]]
      /\ got' = [got EXCEPT ![c] = data[node[c]]]
      /\ pc' = [pc EXCEPT ![c] = "withdraw"]
      /\ UNCHANGED <<next, data, live, todo, node, fault, id, pointer, nodes_to_reclaim, current, slot>>
  BY DEF Hazard!PopExchange, Hazard!To, Hazard!hazardVars
<1>2. PICK n : n = node[c]
  OBVIOUS
<1>3. n \in live /\ n \in Address /\ n # Null /\ n \in Elems(s) /\ live \in SUBSET Address
  <2>1. n \in live /\ n \in Address /\ n # Null
    BY <1>1, <1>2, AddressAssumption DEF HazardInv, BaseInv, TypeInv
  <2> QED
    BY <2>1, <1>2, FirstOf DEF BaseInv, StackIs, TypeInv
<1>4. Popping(c)
  BY <1>1, PlacesAre DEF Popping, BaseInv, TypeInv
<1>5. Becomes(s, Tail(s))
  <2>1. Typed
    BY <1>1, <1>2, <1>3 DEF Typed, BaseInv, TypeInv
  <2> QED
    BY <2>1, <1>1, <1>2, <1>3, <1>4, PopTakes
<1>6. Elems(Tail(s)) = Elems(s) \ {n}
  <2>1. PICK h : h = head
    OBVIOUS
  <2> QED
    BY <2>1, <1>2, <1>3, TailLeads DEF BaseInv, StackIs
<1>7. /\ pc'[c] = "withdraw" /\ HazardPlaces(s)
      /\ current[c] = <<>> /\ Owns(c) = {} /\ Owns(c)' = {n}
      /\ \A d \in Client : d # c => pc'[d] = pc[d]
      /\ pc' \in [Client -> {"idle", "push", "publish", "reload", "exchange", "withdraw", "scan", "sweep"}]
  <2>1. pc'[c] = "withdraw" /\ HazardPlaces(s) /\ current[c] = <<>>
    BY <1>1 DEF HazardInv, HazardPlaces, BaseInv, TypeInv
  <2>2. Owns(c) = {}
    BY <2>1, <1>1 DEF Owns, Elems
  <2>3. Owns(c)' = {n}
    BY <2>1, <1>1, <1>2, <1>3 DEF Owns
  <2> QED
    BY <2>1, <2>2, <2>3, <1>1 DEF HazardInv
<1>8. HazardPlaces(Tail(s))'
  <2>1. PICK S, R, T : S = Elems(s) /\ R = Elems(nodes_to_reclaim) /\ T = S \ {n}
    OBVIOUS
  <2>2. R = Elems(nodes_to_reclaim)' /\ Once(nodes_to_reclaim)' /\ Once(current[c])'
    BY <2>1, <1>1, <1>7 DEF Elems, Once, HazardPlaces
  <2>3. S \subseteq live /\ R \subseteq live \ S /\ n \in S
    BY <2>1, <1>3, <1>7 DEF HazardPlaces, BaseInv, StackIs
  <2>4. T = Elems(Tail(s)) /\ live' = (live \ (S \cup R \cup {})) \cup T \cup R \cup {n}
    BY <2>1, <2>3, <1>1, <1>6
  <2>5. /\ nodes_to_reclaim' \in Seq(Address) /\ current' \in [Client -> Seq(Address)]
        /\ \A d \in Client \ {c} : pc'[d] = pc[d] /\ node'[d] = node[d] /\ current'[d] = current[d]
        /\ current'[c] = <<>> /\ live' \in SUBSET Address
    BY <1>1, <1>3, <1>7 DEF HazardPlaces
  <2>6. /\ T \cap R = {} /\ T \cap {n} = {} /\ R \cap {n} = {}
        /\ (T \cup R \cup {n}) \cap live \subseteq S \cup R \cup {}
    BY <2>1, <2>3
  <2> QED
    BY <2>1, <2>2, <2>4, <2>5, <2>6, <1>7, PlacesMove
<1>9. HazardInv(Tail(s))'
  BY <1>1, <1>7, <1>8, HazardKeeps DEF HazardInv, Meets
<1> QED
  BY <1>5, <1>9

(* Another was faster: the loop starts again.                               *)
LEMMA HazardMiss ==
    ASSUME NEW s, BaseInv(s), HazardInv(s), NEW c \in Client, Hazard!PopExchange(c),
           head.ptr # node[c]
    PROVE  Becomes(s, s) /\ HazardInv(s)'
<1>1. /\ pc[c] = "exchange"
      /\ node' = [node EXCEPT ![c] = head.ptr]
      /\ pc' = [pc EXCEPT ![c] = "publish"]
      /\ UNCHANGED <<head, next, data, live, todo, got, fault, id, pointer, nodes_to_reclaim, current, slot>>
  BY DEF Hazard!PopExchange, Hazard!Holds, Hazard!To, Hazard!hazardVars
<1>2. head.ptr \in Address \cup {Null} /\ current[c] = <<>> /\ HazardPlaces(s)
  BY <1>1 DEF BaseInv, TypeInv, Refs, HazardInv, HazardPlaces
<1>3. /\ pc'[c] = "publish"
      /\ \A d \in Client : d # c => pc'[d] = pc[d] /\ node'[d] = node[d]
      /\ pc' \in [Client -> {"idle", "push", "publish", "reload", "exchange", "withdraw", "scan", "sweep"}]
  BY <1>1 DEF BaseInv, TypeInv, HazardInv
<1>4. Popping(c)
  BY <1>1, <1>2, PlacesAre DEF Popping, BaseInv, TypeInv
<1>5. Becomes(s, s)
  BY <1>1, <1>4, PopKeeps DEF BaseInv, TypeInv, Typed, Spared, Untouched, StackIs, Answers
<1>6. HazardPlaces(s)'
  <2>1. Owns(c)' = Owns(c)
    BY <1>1, <1>2, <1>3 DEF Owns, Elems
  <2> QED
    BY <2>1, <1>1, <1>2, <1>3, PlacesStay
<1>7. HazardInv(s)'
  BY <1>1, <1>2, <1>3, <1>6, HazardKeeps DEF HazardInv, Meets
<1> QED
  BY <1>5, <1>7

LEMMA HazardWithdraw ==
    ASSUME NEW s, BaseInv(s), HazardInv(s), NEW c \in Client, Hazard!Withdraw(c)
    PROVE  Becomes(s, s) /\ HazardInv(s)'
<1>1. /\ pc[c] = "withdraw"
      /\ pointer' = [pointer EXCEPT ![Hazard!Owned(c)] = Null]
      /\ UNCHANGED <<head, next, data, live, node, got, fault, id, nodes_to_reclaim, slot>>
  BY DEF Hazard!Withdraw
<1>2. PICK n : n = node[c]
  OBVIOUS
<1>3. PICK q \in Slot : id[q] = c
  BY <1>1 DEF HazardInv
<1>4. Hazard!Owned(c) = q /\ \A t \in Slot : id[t] = c => t = q
  BY <1>3, OwnedIs, ClientAssumption DEF HazardInv
<1>5. /\ pointer' \in [Slot -> Address \cup {Null}]
      /\ \A t \in Slot : id[t] # c => pointer'[t] = pointer[t]
  BY <1>1, <1>3, <1>4 DEF HazardInv
<1>6. /\ HazardPlaces(s) /\ current[c] = <<>> /\ slot[c] = 0 /\ live \in SUBSET Address
      /\ n \in Address \cup {Null} /\ todo[c] # <<>> /\ todo[c] \in Seq(Entries)
  BY <1>1, <1>2 DEF HazardInv, HazardPlaces, BaseInv, TypeInv, CallsInv
<1>7. CASE n = Null
  <2>1. /\ pc' = [pc EXCEPT ![c] = "idle"] /\ todo' = [todo EXCEPT ![c] = Tail(@)]
        /\ UNCHANGED current
    BY <1>2, <1>7 DEF Hazard!Withdraw, Hazard!Returns, Hazard!To
  <2>2. Popping(c)
    <3>1. Tail(todo[c]) \in Seq(Entries)
      BY <1>6
    <3> QED
      BY <3>1, <2>1, <1>1, PlacesAre DEF Popping, BaseInv, TypeInv
  <2>3. Becomes(s, s)
    BY <1>1, <2>2, PopKeeps DEF BaseInv, TypeInv, Typed, Spared, Untouched, StackIs, Answers
  <2>4. /\ pc'[c] = "idle" /\ \A d \in Client : d # c => pc'[d] = pc[d]
        /\ pc' \in [Client -> {"idle", "push", "publish", "reload", "exchange", "withdraw", "scan", "sweep"}]
    BY <2>1 DEF HazardInv
  <2>5. HazardPlaces(s)'
    <3>1. Owns(c)' = Owns(c)
      BY <2>1, <2>4, <1>1, <1>2, <1>6, <1>7 DEF Owns, Elems
    <3> QED
      BY <3>1, <2>1, <2>4, <1>1, <1>6, PlacesStay
  <2>6. HazardInv(s)'
    BY <2>1, <2>4, <2>5, <1>1, <1>5, <1>6, HazardKeeps DEF HazardInv, Meets
  <2> QED
    BY <2>3, <2>6
<1>8. CASE n # Null
  <2>1. /\ pc' = [pc EXCEPT ![c] = "scan"] /\ current' = [current EXCEPT ![c] = <<n>>] /\ UNCHANGED todo
    BY <1>2, <1>8 DEF Hazard!Withdraw, Hazard!To
  <2>2. Popping(c)
    BY <2>1, <1>1, PlacesAre DEF Popping, BaseInv, TypeInv
  <2>3. Becomes(s, s)
    BY <2>1, <1>1, <2>2, PopKeeps DEF BaseInv, TypeInv, Typed, Spared, Untouched, StackIs, Answers
  <2>4. /\ pc'[c] = "scan" /\ \A d \in Client : d # c => pc'[d] = pc[d]
        /\ pc' \in [Client -> {"idle", "push", "publish", "reload", "exchange", "withdraw", "scan", "sweep"}]
    BY <2>1 DEF HazardInv
  <2>5. /\ current'[c] = <<n>> /\ current' \in [Client -> Seq(Address)]
        /\ \A d \in Client : d # c => current'[d] = current[d]
        /\ <<n>> # <<>> /\ Once(<<n>>) /\ Elems(<<n>>) = {n}
    <3>1. <<n>> \in Seq(Address) /\ Len(<<n>>) = 1 /\ <<n>>[1] = n
      BY <1>6, <1>8
    <3>2. current \in [Client -> Seq(Address)]
      BY <1>6 DEF HazardPlaces
    <3>3. \A i \in 1 .. Len(<<n>>) : i = 1
      BY <3>1
    <3>4. Once(<<n>>)
      BY <3>3 DEF Once
    <3>5. Elems(<<n>>) = {n}
      <4>1. 1 \in 1 .. Len(<<n>>)
        BY <3>1
      <4>2. \A i \in 1 .. Len(<<n>>) : <<n>>[i] = n
        BY <3>1, <3>3
      <4> QED
        BY <4>1, <4>2, <3>1 DEF Elems
    <3> QED
      BY <3>1, <3>2, <3>4, <3>5, <2>1
  <2>6. HazardPlaces(s)'
    <3>1. Owns(c) = {n} /\ Owns(c)' = {n}
      BY <2>4, <2>5, <1>1, <1>2, <1>8 DEF Owns, Elems
    <3>2. PICK S, R : S = Elems(s) /\ R = Elems(nodes_to_reclaim)
      OBVIOUS
    <3>3. R = Elems(nodes_to_reclaim)' /\ Once(nodes_to_reclaim)' /\ Once(current[c])'
      BY <3>2, <1>1, <1>6, <2>5 DEF Elems, Once, HazardPlaces
    <3>4. S \subseteq live /\ R \subseteq live \ S /\ n \in live \ (S \cup R)
      BY <3>1, <3>2, <1>6 DEF HazardPlaces, BaseInv, StackIs
    <3>5. live' = (live \ (S \cup R \cup {n})) \cup S \cup R \cup {n}
      BY <3>4, <1>1
    <3>6. /\ nodes_to_reclaim' \in Seq(Address) /\ live' \in SUBSET Address
          /\ \A d \in Client \ {c} : pc'[d] = pc[d] /\ node'[d] = node[d] /\ current'[d] = current[d]
      BY <1>1, <1>6, <2>4, <2>5 DEF HazardPlaces
    <3>7. /\ S \cap R = {} /\ S \cap {n} = {} /\ R \cap {n} = {}
          /\ (S \cup R \cup {n}) \cap live \subseteq S \cup R \cup {n}
      BY <3>4
    <3> QED
      BY <3>1, <3>2, <3>3, <3>5, <3>6, <3>7, <2>4, <2>5, <1>6, PlacesMove
  <2>7. \A t \in Slot : \A a : Meets(c, t, a)'
    <3>1. \A t \in Slot : 0 <= t
      BY SlotAssumption, FS_CardinalityType
    <3> QED
      BY <3>1, <1>1, <1>6 DEF Meets
  <2>8. HazardInv(s)'
    <3>1. \A d \in Client \ {c} : pc[d] = "exchange" =>
               /\ node[d] \in live'
               /\ \A t \in Slot : Meets(c, t, node[d])'
      <4>1. ASSUME NEW d \in Client \ {c}, pc[d] = "exchange", NEW t \in Slot
            PROVE  Meets(c, t, node[d])'
        BY <2>7, <1>1 DEF Meets
      <4> QED
        BY <4>1, <1>1 DEF HazardInv
    <3> QED
      BY <3>1, <2>1, <2>4, <2>5, <2>6, <1>1, <1>5, <1>6, HazardKeeps DEF HazardInv
  <2> QED
    BY <2>3, <2>8
<1> QED
  BY <1>7, <1>8

(* The rest of a sequence without its first element.                        *)
LEMMA TailElems ==
    ASSUME NEW t \in Seq(Address), t # <<>>, Once(t)
    PROVE  /\ Tail(t) \in Seq(Address) /\ Once(Tail(t)) /\ Head(t) \in Address
           /\ Elems(t) = Elems(Tail(t)) \cup {Head(t)} /\ Head(t) \notin Elems(Tail(t))
<1>1. /\ Tail(t) \in Seq(Address) /\ Len(Tail(t)) = Len(t) - 1 /\ Len(t) \in Nat /\ Len(t) > 0
      /\ Head(t) = t[1] /\ t[1] \in Address
      /\ \A i \in 1 .. Len(t) - 1 : Tail(t)[i] = t[i + 1]
  OBVIOUS
<1>2. /\ 1 \in 1 .. Len(t)
      /\ \A i \in 1 .. Len(Tail(t)) : i + 1 \in 1 .. Len(t) /\ Tail(t)[i] = t[i + 1] /\ i + 1 # 1
      /\ \A i \in 1 .. Len(t) : i = 1 \/ (i - 1 \in 1 .. Len(Tail(t)) /\ Tail(t)[i - 1] = t[i])
  BY <1>1
<1>3. Once(Tail(t))
  <2> SUFFICES ASSUME NEW i \in 1 .. Len(Tail(t)), NEW j \in 1 .. Len(Tail(t)), Tail(t)[i] = Tail(t)[j]
               PROVE  i = j
    BY DEF Once
  <2>1. i + 1 = j + 1
    BY <1>2 DEF Once
  <2> QED
    BY <2>1, <1>1
<1>4. Head(t) \notin Elems(Tail(t))
  BY <1>1, <1>2 DEF Once, Elems
<1>5. Elems(t) \subseteq Elems(Tail(t)) \cup {Head(t)}
  BY <1>1, <1>2 DEF Elems
<1>6. Elems(Tail(t)) \cup {Head(t)} \subseteq Elems(t)
  BY <1>1, <1>2 DEF Elems
<1> QED
  BY <1>1, <1>3, <1>4, <1>5, <1>6

LEMMA PushOnce ==
    ASSUME NEW t \in Seq(Address), NEW a \in Address \ Elems(t), Once(t)
    PROVE  <<a>> \o t \in Seq(Address) /\ Once(<<a>> \o t)
<1> DEFINE r == <<a>> \o t
<1>1. /\ r \in Seq(Address) /\ Len(r) = Len(t) + 1 /\ r[1] = a /\ Len(t) \in Nat
      /\ \A i \in 1 .. Len(t) : r[i + 1] = t[i]
  OBVIOUS
<1> HIDE DEF r
<1>2. \A i \in 1 .. Len(r) : i = 1 \/ (i - 1 \in 1 .. Len(t) /\ r[i] = t[i - 1])
  BY <1>1
<1>3. \A k \in 1 .. Len(t) : t[k] # a
  BY DEF Elems
<1>4. ASSUME NEW i \in 1 .. Len(r), NEW j \in 1 .. Len(r), r[i] = r[j] PROVE i = j
  <2>1. CASE i = 1 \/ j = 1
    BY <2>1, <1>1, <1>2, <1>3, <1>4
  <2>2. CASE i # 1 /\ j # 1
    <3>1. i - 1 \in 1 .. Len(t) /\ j - 1 \in 1 .. Len(t) /\ t[i - 1] = t[j - 1]
      BY <2>2, <1>2, <1>4
    <3>2. i - 1 = j - 1
      BY <3>1 DEF Once
    <3> QED
      BY <3>2, <1>1
  <2> QED
    BY <2>1, <2>2
<1> QED
  BY <1>1, <1>4 DEF Once, r

(* What the scans of a pop() have in common: they change no pc or node.     *)
LEMMA HazardScans ==
    ASSUME NEW s, BaseInv(s), HazardInv(s), NEW c \in Client, pc[c] \in {"scan", "sweep"},
           pc' \in [Client -> {"idle", "push", "publish", "reload", "exchange", "withdraw", "scan", "sweep"}],
           pc'[c] \in {"scan", "sweep"}, UNCHANGED <<node, todo, id, pointer>>,
           \A d \in Client \ {c} : pc'[d] = pc[d] /\ current'[d] = current[d] /\ slot'[d] = slot[d],
           slot' \in [Client -> Nat], current'[c] = <<>> => slot'[c] = 0,
           HazardPlaces(s)',
           \A d \in Client : pc[d] = "exchange" => node[d] \in live',
           \A q \in Slot, a \in Address : pointer[q] = a /\ Meets(c, q, a) => Meets(c, q, a)'
    PROVE  HazardInv(s)'
<1>1. ASSUME NEW d \in Client \ {c}, pc[d] = "exchange", NEW q \in Slot, id[q] = d,
             pointer[q] = node[d]
      PROVE  Meets(c, q, node[d])'
  <2>1. PICK a \in Address : a = node[d]
    BY <1>1, AddressAssumption DEF HazardInv, BaseInv, TypeInv
  <2>2. Meets(c, q, a)
    BY <1>1, <2>1 DEF HazardInv
  <2>3. Meets(c, q, a)'
    BY <1>1, <2>1, <2>2
  <2> QED
    BY <2>1, <2>3 DEF Meets
<1> QED
  BY <1>1, HazardKeeps DEF HazardInv

LEMMA HazardScanNext ==
    ASSUME NEW s, BaseInv(s), HazardInv(s), NEW c \in Client, Hazard!ScanNext(c)
    PROVE  Becomes(s, s) /\ HazardInv(s)'
<1>1. /\ pc[c] \in {"scan", "sweep"} /\ current[c] # <<>> /\ slot[c] \in Slot
      /\ UNCHANGED <<head, next, data, live, pc, todo, node, got, fault, id, pointer>>
  BY DEF Hazard!ScanNext
<1>2. PICK h : h = Head(current[c])
  OBVIOUS
<1>3. /\ HazardPlaces(s) /\ current \in [Client -> Seq(Address)] /\ current[c] \in Seq(Address)
      /\ Once(current[c]) /\ slot \in [Client -> Nat] /\ Owns(c) = Elems(current[c])
  BY <1>1 DEF HazardInv, HazardPlaces, Owns
<1>4. Popping(c)
  BY <1>1, PlacesAre DEF Popping, BaseInv, TypeInv
<1>5. Becomes(s, s)
  BY <1>1, <1>4, PopKeeps DEF BaseInv, TypeInv, Typed, Spared, Untouched, StackIs, Answers
<1>6. CASE pointer[slot[c]] # h
  <2>1. slot' = [slot EXCEPT ![c] = @ + 1] /\ UNCHANGED <<nodes_to_reclaim, current>>
    BY <1>2, <1>6 DEF Hazard!ScanNext
  <2>2. slot'[c] = slot[c] + 1 /\ slot' \in [Client -> Nat] /\ \A d \in Client \ {c} : slot'[d] = slot[d]
    BY <2>1, <1>3
  <2>3. HazardPlaces(s)'
    BY <2>1, <1>1, <1>3, PlacesStay DEF Owns, Elems
  <2>4. ASSUME NEW q \in Slot, NEW a \in Address, pointer[q] = a, Meets(c, q, a) PROVE Meets(c, q, a)'
    <3>1. q \in Int /\ slot[c] \in Int
      BY <1>3, SlotsAre
    <3>2. Head(current[c]) = a => slot[c] # q
      BY <1>2, <1>6, <2>4
    <3> QED
      BY <3>1, <3>2, <2>1, <2>2, <2>4, <1>1 DEF Meets
  <2>5. HazardInv(s)'
    BY <2>1, <2>2, <2>3, <2>4, <1>1, HazardScans DEF HazardInv
  <2> QED
    BY <2>5, <1>5
<1>7. CASE pointer[slot[c]] = h
  <2>1. /\ nodes_to_reclaim' = <<h>> \o nodes_to_reclaim
        /\ current' = [current EXCEPT ![c] = Tail(@)] /\ slot' = [slot EXCEPT ![c] = 0]
    BY <1>2, <1>7 DEF Hazard!ScanNext, Hazard!Judged
  <2>2. /\ Tail(current[c]) \in Seq(Address) /\ Once(Tail(current[c])) /\ h \in Address
        /\ Elems(current[c]) = Elems(Tail(current[c])) \cup {h} /\ h \notin Elems(Tail(current[c]))
    BY <1>1, <1>2, <1>3, TailElems
  <2>3. /\ current'[c] = Tail(current[c]) /\ slot'[c] = 0
        /\ current' \in [Client -> Seq(Address)] /\ slot' \in [Client -> Nat]
        /\ \A d \in Client \ {c} : slot'[d] = slot[d] /\ current'[d] = current[d]
    BY <2>1, <2>2, <1>3
  <2>4. HazardPlaces(s)'
    <3>1. PICK S, R, P : S = Elems(s) /\ R = Elems(nodes_to_reclaim) /\ P = Elems(Tail(current[c]))
      OBVIOUS
    <3>2. /\ nodes_to_reclaim \in Seq(Address) /\ Once(nodes_to_reclaim)
          /\ R \subseteq live \ S /\ S \subseteq live /\ P \cup {h} \subseteq live \ (S \cup R)
          /\ live \in SUBSET Address
      BY <3>1, <1>3, <2>2 DEF HazardPlaces, BaseInv, StackIs, TypeInv
    <3>3. nodes_to_reclaim' \in Seq(Address) /\ Once(<<h>> \o nodes_to_reclaim)
      BY <3>1, <3>2, <2>1, <2>2, PushOnce
    <3>4. Once(nodes_to_reclaim)'
      BY <3>3, <2>1 DEF Once
    <3>5. Elems(nodes_to_reclaim)' = R \cup {h}
      <4>1. Elems(<<h>> \o nodes_to_reclaim) = R \cup {h}
        BY <3>1, <3>2, <2>2, PushElems
      <4> QED
        BY <4>1, <2>1 DEF Elems
    <3>6. Owns(c)' = P /\ Once(current[c])'
      BY <3>1, <2>2, <2>3, <1>1 DEF Owns, Elems, Once
    <3>7. PICK Q, O : Q = R \cup {h} /\ O = P \cup {h}
      OBVIOUS
    <3>8. /\ Q = Elems(nodes_to_reclaim)' /\ O = Owns(c)
          /\ S \cap Q = {} /\ S \cap P = {} /\ Q \cap P = {}
          /\ (S \cup Q \cup P) \cap live \subseteq S \cup R \cup O
          /\ live' = (live \ (S \cup R \cup O)) \cup S \cup Q \cup P
      BY <3>1, <3>2, <3>5, <3>7, <2>2, <1>1, <1>3
    <3>9. /\ pc'[c] \in {"scan", "sweep"}
          /\ \A d \in Client \ {c} : pc'[d] = pc[d] /\ node'[d] = node[d] /\ current'[d] = current[d]
          /\ live' \in SUBSET Address
      BY <3>2, <2>3, <1>1
    <3>10. Moves(S, R, Q, O, P)
      BY <3>8 DEF Moves
    <3>11. Moves(Elems(s), Elems(nodes_to_reclaim), Elems(nodes_to_reclaim)', Owns(c), Owns(c)')
      BY <3>1, <3>6, <3>8, <3>10
    <3> QED
      BY <3>3, <3>4, <3>6, <3>9, <3>11, <2>3, <1>3, PlacesScan
  <2>5. ASSUME NEW q \in Slot, NEW a \in Address PROVE Meets(c, q, a)'
    <3>1. 0 <= q
      BY SlotAssumption, FS_CardinalityType
    <3> QED
      BY <3>1, <2>3 DEF Meets
  <2>6. HazardInv(s)'
    BY <2>3, <2>4, <2>5, <1>1, HazardScans DEF HazardInv
  <2> QED
    BY <2>6, <1>5
<1> QED
  BY <1>6, <1>7

LEMMA HazardDelete ==
    ASSUME NEW s, BaseInv(s), HazardInv(s), NEW c \in Client, Hazard!DeleteScanned(c)
    PROVE  Becomes(s, s) /\ HazardInv(s)'
<1>1. PICK h : h = Head(current[c])
  OBVIOUS
<1>2. /\ pc[c] \in {"scan", "sweep"} /\ current[c] # <<>> /\ slot[c] \notin Slot
      /\ UNCHANGED <<head, pc, todo, node, got, fault, id, pointer, nodes_to_reclaim>>
      /\ live' = live \ {h}
      /\ next' = [a \in Address |-> IF a \in {h} THEN NullRef ELSE next[a]]
      /\ data' = [a \in Address |-> IF a \in {h} THEN Empty ELSE data[a]]
      /\ current' = [current EXCEPT ![c] = Tail(@)] /\ slot' = [slot EXCEPT ![c] = 0]
  BY <1>1 DEF Hazard!DeleteScanned, Hazard!Delete, Hazard!Judged, Hazard!NullRef, NullRef,
     Hazard!Empty, Empty
<1>3. /\ HazardPlaces(s) /\ current \in [Client -> Seq(Address)] /\ current[c] \in Seq(Address)
      /\ Once(current[c]) /\ slot \in [Client -> Nat] /\ Owns(c) = Elems(current[c])
  BY <1>2 DEF HazardInv, HazardPlaces, Owns
<1>4. /\ Tail(current[c]) \in Seq(Address) /\ Once(Tail(current[c])) /\ h \in Address
      /\ Elems(current[c]) = Elems(Tail(current[c])) \cup {h} /\ h \notin Elems(Tail(current[c]))
  BY <1>1, <1>2, <1>3, TailElems
<1>5. Popping(c)
  BY <1>2, PlacesAre DEF Popping, BaseInv, TypeInv
<1>6. h \in live /\ h \notin Elems(s) /\ \A d \in Client : pc[d] = "push" => node[d] # h
  <2>1. h \in Owns(c)
    BY <1>3, <1>4
  <2>2. ASSUME NEW d \in Client, pc[d] = "push" PROVE node[d] # h
    <3>1. d # c /\ node[d] \in Owns(d)
      BY <2>2, <1>2 DEF Owns
    <3> QED
      BY <3>1, <2>1, <1>3 DEF HazardPlaces
  <2> QED
    BY <2>1, <2>2, <1>3 DEF HazardPlaces
<1>7. Becomes(s, s)
  <2>1. \A a \in live \ {h} : Untouched(a)
    BY <1>2 DEF Untouched, BaseInv, TypeInv
  <2>2. Spared(s)
    BY <2>1, <1>6 DEF Spared, BaseInv, StackIs
  <2>3. NullRef \in Refs /\ Empty \in Entries
    BY DEF NullRef, Refs, Entries
  <2>4. Typed
    BY <2>3, <1>2 DEF Typed, BaseInv, TypeInv
  <2> QED
    BY <2>2, <2>4, <1>2, <1>5, PopKeeps DEF Answers
<1>8. /\ current'[c] = Tail(current[c]) /\ slot'[c] = 0
      /\ current' \in [Client -> Seq(Address)] /\ slot' \in [Client -> Nat]
      /\ \A d \in Client \ {c} : slot'[d] = slot[d] /\ current'[d] = current[d]
  BY <1>2, <1>3, <1>4
<1>9. HazardPlaces(s)'
  <2>1. PICK S, R, P : S = Elems(s) /\ R = Elems(nodes_to_reclaim) /\ P = Elems(Tail(current[c]))
    OBVIOUS
  <2>2. /\ nodes_to_reclaim' \in Seq(Address) /\ Once(nodes_to_reclaim)' /\ R = Elems(nodes_to_reclaim)'
        /\ R \subseteq live \ S /\ S \subseteq live /\ P \cup {h} \subseteq live \ (S \cup R)
        /\ live \in SUBSET Address /\ live' \in SUBSET Address
    <3>1. Elems(nodes_to_reclaim)' = Elems(nodes_to_reclaim) /\ Once(nodes_to_reclaim)' = Once(nodes_to_reclaim)
      BY <1>2 DEF Elems, Once
    <3>2. /\ nodes_to_reclaim \in Seq(Address) /\ Once(nodes_to_reclaim) /\ R \subseteq live \ S
          /\ Elems(current[c]) \subseteq live \ (S \cup R)
      BY <2>1, <1>3 DEF HazardPlaces
    <3>3. S \subseteq live /\ live \in SUBSET Address
      BY <2>1 DEF BaseInv, StackIs, TypeInv
    <3> QED
      BY <3>1, <3>2, <3>3, <2>1, <1>2, <1>4
  <2>3. Owns(c)' = P /\ Once(current[c])'
    BY <2>1, <1>2, <1>4, <1>8 DEF Owns, Elems, Once
  <2>4. PICK O : O = P \cup {h}
    OBVIOUS
  <2>5. /\ O = Owns(c) /\ S \cap R = {} /\ S \cap P = {} /\ R \cap P = {}
        /\ (S \cup R \cup P) \cap live \subseteq S \cup R \cup O
        /\ live' = (live \ (S \cup R \cup O)) \cup S \cup R \cup P
    BY <2>1, <2>2, <2>4, <1>2, <1>3, <1>4
  <2>6. /\ pc'[c] \in {"scan", "sweep"}
        /\ \A d \in Client \ {c} : pc'[d] = pc[d] /\ node'[d] = node[d] /\ current'[d] = current[d]
    BY <1>2, <1>8
  <2>7. Moves(S, R, R, O, P)
    BY <2>5 DEF Moves
  <2>8. Moves(Elems(s), Elems(nodes_to_reclaim), Elems(nodes_to_reclaim)', Owns(c), Owns(c)')
    BY <2>1, <2>2, <2>3, <2>5, <2>7
  <2> QED
    BY <2>2, <2>3, <2>6, <2>8, <1>3, <1>8, PlacesScan
<1>10. ASSUME NEW d \in Client, pc[d] = "exchange" PROVE node[d] \in live'
  <2>1. PICK q \in Slot : id[q] = d
    BY <1>10 DEF HazardInv
  <2>2. node[d] \in live /\ Meets(c, q, node[d])
    BY <1>10, <2>1 DEF HazardInv
  <2>3. ASSUME node[d] = h PROVE FALSE
    <3>1. slot[c] <= q /\ slot[c] \in Nat
      BY <2>2, <2>3, <1>1, <1>2, <1>3 DEF Meets
    <3> QED
      BY <3>1, <1>2, SlotAssumption, FS_CardinalityType
  <2> QED
    BY <2>2, <2>3, <1>2
<1>11. ASSUME NEW q \in Slot, NEW a \in Address PROVE Meets(c, q, a)'
  <2>1. 0 <= q
    BY SlotAssumption, FS_CardinalityType
  <2> QED
    BY <2>1, <1>8 DEF Meets
<1>12. HazardInv(s)'
  BY <1>2, <1>8, <1>9, <1>10, <1>11, HazardScans DEF HazardInv
<1> QED
  BY <1>7, <1>12

LEMMA HazardClaim ==
    ASSUME NEW s, BaseInv(s), HazardInv(s), NEW c \in Client, Hazard!ClaimList(c)
    PROVE  Becomes(s, s) /\ HazardInv(s)'
<1>1. /\ pc[c] = "scan" /\ current[c] = <<>>
      /\ current' = [current EXCEPT ![c] = nodes_to_reclaim]
      /\ nodes_to_reclaim' = <<>>
      /\ pc' = [pc EXCEPT ![c] = "sweep"]
      /\ UNCHANGED <<head, next, data, live, todo, node, got, fault, id, pointer, slot>>
  BY DEF Hazard!ClaimList, Hazard!To
<1>2. /\ HazardPlaces(s) /\ current \in [Client -> Seq(Address)] /\ slot[c] = 0
      /\ nodes_to_reclaim \in Seq(Address) /\ Once(nodes_to_reclaim) /\ slot \in [Client -> Nat]
  BY <1>1 DEF HazardInv, HazardPlaces
<1>3. Popping(c)
  BY <1>1, PlacesAre DEF Popping, BaseInv, TypeInv
<1>4. Becomes(s, s)
  BY <1>1, <1>3, PopKeeps DEF BaseInv, TypeInv, Typed, Spared, Untouched, StackIs, Answers
<1>5. /\ pc'[c] = "sweep" /\ \A d \in Client \ {c} : pc'[d] = pc[d] /\ current'[d] = current[d]
      /\ pc' \in [Client -> {"idle", "push", "publish", "reload", "exchange", "withdraw", "scan", "sweep"}]
      /\ current'[c] = nodes_to_reclaim /\ current' \in [Client -> Seq(Address)]
  BY <1>1, <1>2 DEF HazardInv
<1>6. HazardPlaces(s)'
  <2>1. PICK S, R, E : S = Elems(s) /\ R = Elems(nodes_to_reclaim) /\ E = {}
    OBVIOUS
  <2>2. /\ nodes_to_reclaim' \in Seq(Address) /\ Once(nodes_to_reclaim)' /\ Once(current[c])'
        /\ Elems(nodes_to_reclaim)' = E
    <3>1. Elems(<<>>) = E /\ Once(<<>>) /\ <<>> \in Seq(Address)
      BY <2>1 DEF Elems, Once
    <3> QED
      BY <3>1, <1>1, <1>2, <1>5 DEF Elems, Once
  <2>3. Owns(c) = E /\ Owns(c)' = R
    <3>1. Elems(current[c]) = E
      BY <2>1, <1>1 DEF Elems
    <3> QED
      BY <3>1, <2>1, <1>1, <1>5 DEF Owns, Elems
  <2>4. S \subseteq live /\ R \subseteq live \ S /\ live \in SUBSET Address
    BY <2>1, <1>2 DEF HazardPlaces, BaseInv, StackIs, TypeInv
  <2>5. /\ S \cap E = {} /\ S \cap R = {} /\ E \cap R = {} /\ live' \in SUBSET Address
        /\ (S \cup E \cup R) \cap live \subseteq S \cup R \cup E
        /\ live' = (live \ (S \cup R \cup E)) \cup S \cup E \cup R
    BY <2>1, <2>4, <1>1
  <2>6. \A d \in Client \ {c} : pc'[d] = pc[d] /\ node'[d] = node[d] /\ current'[d] = current[d]
    BY <1>1, <1>5
  <2>7. Moves(S, R, E, E, R)
    BY <2>5 DEF Moves
  <2>8. Moves(Elems(s), Elems(nodes_to_reclaim), Elems(nodes_to_reclaim)', Owns(c), Owns(c)')
    BY <2>1, <2>2, <2>3, <2>7
  <2> QED
    BY <2>2, <2>5, <2>6, <2>8, <1>2, <1>5, PlacesScan
<1>7. ASSUME NEW q \in Slot, NEW a \in Address PROVE Meets(c, q, a)'
  <2>1. 0 <= q
    BY SlotAssumption, FS_CardinalityType
  <2> QED
    BY <2>1, <1>1, <1>2 DEF Meets
<1>8. \A d \in Client : pc[d] = "exchange" => node[d] \in live'
  BY <1>1 DEF HazardInv
<1>9. HazardInv(s)'
  BY <1>1, <1>2, <1>5, <1>6, <1>7, <1>8, HazardScans DEF HazardInv
<1> QED
  BY <1>4, <1>9

LEMMA HazardPopReturn ==
    ASSUME NEW s, BaseInv(s), HazardInv(s), NEW c \in Client, Hazard!PopReturn(c)
    PROVE  Becomes(s, s) /\ HazardInv(s)'
<1>1. /\ pc[c] = "sweep" /\ current[c] = <<>>
      /\ pc' = [pc EXCEPT ![c] = "idle"] /\ todo' = [todo EXCEPT ![c] = Tail(@)]
      /\ node' = [node EXCEPT ![c] = Null]
      /\ UNCHANGED <<head, next, data, live, got, fault, id, pointer, nodes_to_reclaim, current, slot>>
  BY DEF Hazard!PopReturn, Hazard!Returns, Hazard!To, Hazard!Holds, Hazard!hazardVars
<1>2. HazardPlaces(s) /\ todo[c] # <<>> /\ todo[c] \in Seq(Entries)
  BY <1>1 DEF HazardInv, BaseInv, TypeInv, CallsInv
<1>3. Tail(todo[c]) \in Seq(Entries)
  BY <1>2
<1>4. Popping(c)
  BY <1>1, <1>3, PlacesAre DEF Popping, BaseInv, TypeInv
<1>5. Becomes(s, s)
  BY <1>1, <1>4, PopKeeps DEF BaseInv, TypeInv, Typed, Spared, Untouched, StackIs, Answers
<1>6. /\ pc'[c] = "idle"
      /\ \A d \in Client : d # c => pc'[d] = pc[d] /\ node'[d] = node[d]
      /\ pc' \in [Client -> {"idle", "push", "publish", "reload", "exchange", "withdraw", "scan", "sweep"}]
  BY <1>1 DEF BaseInv, TypeInv, HazardInv
<1>7. HazardPlaces(s)'
  <2>1. Owns(c)' = Owns(c)
    BY <1>1, <1>6, OwnsScanned
  <2> QED
    BY <2>1, <1>1, <1>2, <1>6, PlacesStay
<1>8. HazardInv(s)'
  BY <1>1, <1>6, <1>7, HazardKeeps DEF HazardInv, Meets
<1> QED
  BY <1>5, <1>8

(* A thread that ends gives its slot back: it has nothing left to do.       *)
LEMMA HazardRelease ==
    ASSUME NEW s, BaseInv(s), HazardInv(s), NEW c \in Client, Hazard!Release(c)
    PROVE  Becomes(s, s) /\ HazardInv(s)'
<1>1. /\ todo[c] = <<>> /\ c \in {id[q] : q \in Slot}
      /\ id' = [id EXCEPT ![Hazard!Owned(c)] = Null]
      /\ pointer' = [pointer EXCEPT ![Hazard!Owned(c)] = Null]
      /\ UNCHANGED <<head, next, data, live, pc, todo, node, got, fault, nodes_to_reclaim, current, slot>>
  BY DEF Hazard!Release, Hazard!stackVars
<1>2. pc[c] = "idle"
  BY <1>1 DEF BaseInv, CallsInv
<1>3. PICK q \in Slot : id[q] = c
  BY <1>1
<1>4. Hazard!Owned(c) = q /\ c # Null
  BY <1>3, OwnedIs, ClientAssumption
<1>5. /\ id' \in [Slot -> Client \cup {Null}] /\ pointer' \in [Slot -> Address \cup {Null}]
      /\ id'[q] = Null /\ \A t \in Slot : t # q => id'[t] = id[t] /\ pointer'[t] = pointer[t]
  BY <1>1, <1>4 DEF HazardInv
<1>6. Becomes(s, s)
  BY <1>1, BaseStays DEF Becomes, Effect, Answers, Awaiting
<1>7. HazardPlaces(s)'
  <2>1. \A d \in Client : Owns(d)' = Owns(d)
    BY <1>1, OwnsStays
  <2>2. HazardPlaces(s) /\ \A d \in Client : pc[d] \notin {"scan", "sweep"} => current[d] = <<>>
    BY DEF HazardInv, HazardPlaces
  <2> QED
    BY <2>1, <2>2, <1>1, PlacesStay
<1>8. \A d \in Client : \A t \in Slot : id'[t] = d <=> id[t] = d /\ d # c
  <2>1. ASSUME NEW d \in Client, NEW t \in Slot PROVE id'[t] = d <=> id[t] = d /\ d # c
    <3>1. CASE t = q
      BY <3>1, <1>3, <1>5, ClientAssumption
    <3>2. CASE t # q
      <4>1. id[t] # c
        BY <3>2, <1>3, <1>4 DEF HazardInv
      <4> QED
        BY <4>1, <3>2, <1>5
    <3> QED
      BY <3>1, <3>2
  <2> QED
    BY <2>1
<1>9. HazardInv(s)'
  <2>1. \A t, u \in Slot : id'[t] = id'[u] /\ id'[t] # Null => t = u
    BY <1>5 DEF HazardInv
  <2>2. \A d \in Client : pc'[d] \notin {"idle", "push"} => \E t \in Slot : id'[t] = d
    BY <1>1, <1>2, <1>8 DEF HazardInv
  <2>3. ASSUME NEW d \in Client, NEW t \in Slot, pc'[d] \in {"reload", "exchange"}, id'[t] = d
        PROVE  pointer'[t] = node'[d]
    <3>1. t # q
      BY <2>3, <1>5, ClientAssumption
    <3> QED
      BY <3>1, <2>3, <1>1, <1>5 DEF HazardInv
  <2>4. ASSUME NEW d \in Client, pc'[d] = "exchange"
        PROVE  /\ node'[d] \in live' /\ \A e \in Client : pc'[e] = "push" => node'[e] # node'[d]
               /\ \A t \in Slot : id'[t] = d => \A e \in Client : Meets(e, t, node[d])'
    BY <2>4, <1>1, <1>8 DEF HazardInv, Meets
  <2>5. \A d \in Client : current'[d] = <<>> => slot'[d] = 0
    BY <1>1 DEF HazardInv
  <2>6. /\ pc' \in [Client -> {"idle", "push", "publish", "reload", "exchange", "withdraw", "scan", "sweep"}]
        /\ slot' \in [Client -> Nat]
    BY <1>1 DEF HazardInv
  <2> QED
    BY <2>1, <2>2, <2>3, <2>4, <2>5, <2>6, <1>5, <1>7 DEF HazardInv
<1> QED
  BY <1>6, <1>9

(* So no pop() reads a node that another has deleted.                       *)
LEMMA HazardSafe ==
    ASSUME NEW s, BaseInv(s), HazardInv(s), NEW c \in Client
    PROVE  Hazard!Accessed(c) \subseteq live
<1>1. CASE pc[c] = "push"
  BY <1>1 DEF Hazard!Accessed, BaseInv, StackIs
<1>2. CASE pc[c] = "exchange"
  BY <1>2 DEF Hazard!Accessed, HazardInv
<1>3. CASE pc[c] \in {"scan", "sweep"} /\ current[c] # <<>>
  <2>1. HazardPlaces(s) /\ current[c] \in Seq(Address) /\ Once(current[c]) /\ Owns(c) = Elems(current[c])
    BY <1>3 DEF HazardInv, HazardPlaces, Owns
  <2>2. Head(current[c]) \in Elems(current[c])
    BY <2>1, <1>3, TailElems
  <2> QED
    BY <2>1, <2>2, <1>3 DEF Hazard!Accessed, HazardPlaces
<1>4. CASE pc[c] \notin {"push", "exchange"} /\ ~(pc[c] \in {"scan", "sweep"} /\ current[c] # <<>>)
  BY <1>4 DEF Hazard!Accessed
<1> QED
  BY <1>1, <1>2, <1>3, <1>4

LEMMA HazardStep ==
    ASSUME NEW s, BaseInv(s), HazardInv(s), fault = "none", NEW c \in Client, Hazard!ClientStep(c)
    PROVE  fault' = "none" /\ \E r : Becomes(s, r) /\ HazardInv(r)'
<1>1. Hazard!Step(c)
  BY HazardSafe DEF Hazard!ClientStep
<1>2. CASE Hazard!PushPlain(c)
  <2>1. (PushLoad(c) \/ PushExchange(c)) /\ UNCHANGED Hazard!hazardVars
    BY <1>2, SamePushHazard DEF Hazard!PushPlain, Hazard!Push
  <2>2. fault' = "none"
    BY <2>1 DEF PushLoad, PushExchange
  <2> QED
    BY <2>1, <2>2, HazardPushLoad, HazardPushExchange
<1>3. CASE Hazard!PopCall(c)
  BY <1>3, HazardPopCall DEF Hazard!PopCall
<1>4. CASE Hazard!Publish(c)
  BY <1>4, HazardPublish DEF Hazard!Publish
<1>5. CASE Hazard!ReloadHead(c)
  BY <1>5, HazardReload DEF Hazard!ReloadHead
<1>6. CASE Hazard!PopExchange(c)
  <2>1. fault' = "none"
    BY <1>6 DEF Hazard!PopExchange
  <2> QED
    BY <1>6, <2>1, HazardTake, HazardMiss
<1>7. CASE Hazard!Withdraw(c)
  BY <1>7, HazardWithdraw DEF Hazard!Withdraw
<1>8. CASE Hazard!ScanNext(c)
  BY <1>8, HazardScanNext DEF Hazard!ScanNext
<1>9. CASE Hazard!DeleteScanned(c)
  BY <1>9, HazardDelete DEF Hazard!DeleteScanned
<1>10. CASE Hazard!ClaimList(c)
  BY <1>10, HazardClaim DEF Hazard!ClaimList
<1>11. CASE Hazard!PopReturn(c)
  BY <1>11, HazardPopReturn DEF Hazard!PopReturn
<1>12. CASE Hazard!Release(c)
  BY <1>12, HazardRelease DEF Hazard!Release, Hazard!stackVars
<1> QED
  BY <1>1, <1>2, <1>3, <1>4, <1>5, <1>6, <1>7, <1>8, <1>9, <1>10, <1>11, <1>12 DEF Hazard!Step
-----------------------------------------------------------------------------
(* PopCountStack, first what holds whatever threads_in_pop was at first:    *)
(* that only a pop() of an empty stack is about a null node.                *)
PopStates == {"idle", "push", "load", "next", "exchange", "alone", "claim", "leave", "chain",
              "chained", "decrement", "rechain", "rechained", "delete"}
PopRefs == {NullRef} \cup {Ref(a) : a \in Address}
PopShape ==
    /\ TypeInv
    /\ pc \in [Client -> PopStates]
    /\ head \in PopRefs /\ next \in [Address -> PopRefs] /\ to_be_deleted \in PopRefs
    /\ second \in [Client -> PopRefs] /\ nodes \in [Client -> PopRefs]
    /\ threads_in_pop \in Int /\ initial \in Int
    /\ \A c \in Client :
          /\ pc[c] # "idle" => todo[c] # <<>>
          /\ pc[c] \in {"push", "next", "exchange"} => node[c] # Null
          /\ pc[c] \in {"chained", "rechained"} => second[c].ptr # Null
          /\ pc[c] = "rechain" => nodes[c] # NullRef
          /\ pc[c] \in {"alone", "chain"} /\ node[c] = Null => got[c] = Empty

LEMMA SamePushPopCount ==
    ASSUME NEW c \in Client
    PROVE  /\ PopCount!PushLoad(c) <=> PushLoad(c)
           /\ PopCount!PushExchange(c) <=> PushExchange(c)
<1>1. PopCount!PushLoad(c) <=> PushLoad(c)
  BY DEF PopCount!PushLoad, PushLoad, PopCount!Calls, Calls, PopCount!To, To, PopCount!Holds, Holds,
         PopCount!Empty, Empty
<1>2. PopCount!PushExchange(c) <=> PushExchange(c)
  BY DEF PopCount!PushExchange, PushExchange, PopCount!Returns, Returns, PopCount!To, To,
         PopCount!Ref, Ref
<1> QED
  BY <1>1, <1>2

LEMMA PopRefFacts ==
    /\ PopRefs \subseteq Refs
    /\ NullRef \in PopRefs /\ NullRef.ptr = Null /\ Null \notin Address
    /\ \A a \in Address : Ref(a) \in PopRefs /\ Ref(a).ptr = a
    /\ \A r \in PopRefs : r = NullRef \/ (r.ptr \in Address /\ r = Ref(r.ptr))
    /\ \A r, t \in PopRefs : r.ptr = t.ptr => r = t
<1>1. /\ NullRef.ptr = Null /\ Null \notin Address /\ NullRef \in Refs
      /\ \A a \in Address : Ref(a).ptr = a /\ Ref(a) \in Refs
  BY AddressAssumption DEF Refs, NullRef, Ref
<1> QED
  BY <1>1 DEF PopRefs

(* A sequence of nodes has no null one, and it starts with ref if that is   *)
(* not null, whatever next holds.                                           *)
LEMMA NodesNotNull ==
    ASSUME NEW ref
    PROVE  /\ \A i \in DOMAIN NodesFrom(ref) : NodesFrom(ref)[i] # Null
           /\ \E m \in Nat : DOMAIN NodesFrom(ref) = 1 .. m /\ Len(NodesFrom(ref)) = m
           /\ ref.ptr \in Address => 1 \in DOMAIN NodesFrom(ref) /\ NodesFrom(ref)[1] = ref.ptr
<1> DEFINE C == Cardinality(Address)
           Along(g) == g = [i \in 1 .. C |->
               IF i = 1 THEN ref.ptr ELSE IF g[i - 1] = Null THEN Null ELSE next[g[i - 1]].ptr]
           at == CHOOSE g : Along(g)
           met == {i \in 1 .. C : at[i] # Null}
           upTo(n, g) == \A i \in 1 .. n : g[i] =
               IF i = 1 THEN ref.ptr ELSE IF g[i - 1] = Null THEN Null ELSE next[g[i - 1]].ptr
<1>1. C \in Nat
  BY AddressAssumption, FS_CardinalityType
<1>2. ASSUME NEW n \in Nat, NEW g, upTo(n, g) PROVE \E h : upTo(n + 1, h)
  <2> DEFINE last == IF n = 0 THEN ref.ptr ELSE IF g[n] = Null THEN Null ELSE next[g[n]].ptr
             h == [i \in 1 .. n + 1 |-> IF i <= n THEN g[i] ELSE last]
  <2>1. \A i \in 1 .. n : i \in 1 .. n + 1 /\ h[i] = g[i] /\ (i # 1 => i - 1 \in 1 .. n)
    OBVIOUS
  <2>2. h[n + 1] = last /\ (n = 0 <=> n + 1 = 1) /\ (n # 0 => n \in 1 .. n /\ (n + 1) - 1 = n)
    OBVIOUS
  <2> HIDE DEF h
  <2>3. ASSUME NEW i \in 1 .. n
        PROVE  h[i] = IF i = 1 THEN ref.ptr ELSE IF h[i - 1] = Null THEN Null ELSE next[h[i - 1]].ptr
    BY <2>1, <1>2
  <2>4. h[n + 1] = IF n + 1 = 1 THEN ref.ptr
                   ELSE IF h[(n + 1) - 1] = Null THEN Null ELSE next[h[(n + 1) - 1]].ptr
    BY <2>1, <2>2
  <2>5. \A i \in 1 .. n + 1 : i \in 1 .. n \/ i = n + 1
    OBVIOUS
  <2>6. upTo(n + 1, h)
    BY <2>3, <2>4, <2>5
  <2> QED
    BY <2>6
<1>3. \A n \in Nat : \E g : upTo(n, g)
  <2> HIDE DEF upTo
  <2> DEFINE Lacking == {n \in Nat : ~ \E g : upTo(n, g)}
  <2> SUFFICES ASSUME Lacking # {} PROVE FALSE
    OBVIOUS
  <2>1. PICK n \in Lacking : \A k \in Lacking : n <= k
    BY LeastNatural
  <2>2. CASE n = 0
    <3>1. upTo(0, <<>>)
      BY DEF upTo
    <3> QED
      BY <3>1, <2>1, <2>2
  <2>3. CASE n # 0
    <3>1. n - 1 \in Nat /\ n - 1 \notin Lacking /\ (n - 1) + 1 = n
      BY <2>1, <2>3
    <3>2. PICK g : upTo(n - 1, g)
      BY <3>1
    <3>3. \E h : upTo((n - 1) + 1, h)
      BY <3>1, <3>2, <1>2
    <3> QED
      BY <3>1, <3>3, <2>1
  <2> QED
    BY <2>2, <2>3
<1>4. \E g : Along(g)
  <2>1. PICK g : upTo(C, g)
    BY <1>1, <1>3
  <2> DEFINE h == [i \in 1 .. C |-> g[i]]
  <2>2. \A i \in 1 .. C : h[i] = g[i] /\ (i # 1 => i - 1 \in 1 .. C)
    BY <1>1
  <2>3. ASSUME NEW i \in 1 .. C
        PROVE  g[i] = IF i = 1 THEN ref.ptr ELSE IF h[i - 1] = Null THEN Null ELSE next[h[i - 1]].ptr
    BY <2>1, <2>2
  <2>4. Along(h)
    BY <2>3
  <2> QED
    BY <2>4
<1>5. Along(at)
  <2> HIDE DEF Along
  <2> QED
    BY <1>4
<1>6. /\ DOMAIN at = 1 .. C
      /\ \A i \in 1 .. C : at[i] =
            IF i = 1 THEN ref.ptr ELSE IF at[i - 1] = Null THEN Null ELSE next[at[i - 1]].ptr
  <2> DEFINE value(i) == IF i = 1 THEN ref.ptr
                         ELSE IF at[i - 1] = Null THEN Null ELSE next[at[i - 1]].ptr
  <2>1. at = [i \in 1 .. C |-> value(i)]
    BY <1>5
  <2> HIDE DEF value, at
  <2>2. DOMAIN at = 1 .. C /\ \A i \in 1 .. C : at[i] = value(i)
    BY <2>1
  <2> QED
    BY <2>2 DEF value
<1>7. NodesFrom(ref) = [i \in 1 .. Cardinality({i \in DOMAIN at : at[i] # Null}) |-> at[i]]
  BY DEF NodesFrom
<1> HIDE DEF at
<1>8. \E m \in 0 .. C : met = 1 .. m
  <2> DEFINE empty == {i \in 1 .. C : at[i] = Null}
  <2>1. CASE empty = {}
    <3>1. met = 1 .. C
      BY <2>1
    <3> QED
      BY <3>1, <1>1
  <2>2. CASE empty # {}
    <3>1. PICK j \in empty : \A i \in empty : j <= i
      <4>1. empty \in SUBSET Nat
        BY <1>1
      <4> QED
        BY <4>1, <2>2, LeastNatural
    <3> DEFINE later == {i \in 1 .. C : i > j /\ at[i] # Null}
    <3>2. later = {}
      <4> SUFFICES ASSUME later # {} PROVE FALSE
        OBVIOUS
      <4>1. PICK i \in later : \A k \in later : i <= k
        <5>1. later \in SUBSET Nat
          BY <1>1
        <5> QED
          BY <5>1, LeastNatural
      <4>2. i - 1 \in 1 .. C /\ i - 1 \notin later /\ i # 1 /\ i - 1 >= j
        BY <4>1, <1>1
      <4>3. at[i - 1] = Null
        BY <4>2, <3>1
      <4> QED
        BY <4>1, <4>2, <4>3, <1>6
    <3>3. \A i \in 1 .. C : at[i] # Null <=> i < j
      BY <3>1, <3>2
    <3>4. met = 1 .. j - 1 /\ j - 1 \in 0 .. C
      BY <3>3, <1>1
    <3> QED
      BY <3>4
  <2> QED
    BY <2>1, <2>2
<1>9. PICK m \in 0 .. C : met = 1 .. m
  BY <1>8
<1>10. m \in Nat /\ Cardinality(met) = m
  <2>1. /\ 1 \in Int /\ m \in Int
        /\ IF 1 > m THEN m = 0 ELSE m - 1 + 1 = m
    BY <1>1
  <2>2. Cardinality(1 .. m) = m
    BY <2>1, FS_Interval
  <2>3. m \in Nat
    BY <1>1
  <2> QED
    BY <2>2, <2>3, <1>9
<1>11. NodesFrom(ref) = [i \in 1 .. m |-> at[i]]
  <2>1. {i \in DOMAIN at : at[i] # Null} = met
    BY <1>6
  <2> QED
    BY <2>1, <1>7, <1>10
<1>12. /\ DOMAIN NodesFrom(ref) = 1 .. m /\ Len(NodesFrom(ref)) = m
       /\ \A i \in 1 .. m : NodesFrom(ref)[i] # Null
  BY <1>9, <1>10, <1>11
<1>13. ASSUME ref.ptr \in Address PROVE 1 \in 1 .. m /\ NodesFrom(ref)[1] = ref.ptr
  <2>1. 1 <= C
    <3>1. Address # {}
      BY <1>13
    <3>2. C # 0
      BY <3>1, AddressAssumption, FS_EmptySet
    <3> QED
      BY <3>2, <1>1
  <2>2. 1 \in 1 .. C /\ at[1] = ref.ptr
    BY <2>1, <1>1, <1>6
  <2>3. 1 \in met
    BY <2>2, <1>13, AddressAssumption
  <2> QED
    BY <2>2, <2>3, <1>9, <1>11
<1> QED
  BY <1>10, <1>12, <1>13

LEMMA SameNodes ==
    ASSUME NEW ref
    PROVE  /\ PopCount!NodesFrom(ref) = NodesFrom(ref)
           /\ Hazard!NodesFrom(ref) = NodesFrom(ref)
           /\ Counted!NodesFrom(ref) = NodesFrom(ref)
<1>1. PopCount!NodesFrom(ref) = NodesFrom(ref)
  BY DEF PopCount!NodesFrom, NodesFrom, PopCount!Cardinality, Cardinality
<1>2. Hazard!NodesFrom(ref) = NodesFrom(ref)
  BY DEF Hazard!NodesFrom, NodesFrom, Hazard!Cardinality, Cardinality
<1>3. Counted!NodesFrom(ref) = NodesFrom(ref)
  BY DEF Counted!NodesFrom, NodesFrom, Counted!Cardinality, Cardinality
<1> QED
  BY <1>1, <1>2, <1>3

LEMMA ShapeKeeps ==
    ASSUME PopShape, NEW c \in Client, TypeInv', pc' \in [Client -> PopStates],
           head' \in PopRefs, next' \in [Address -> PopRefs], to_be_deleted' \in PopRefs,
           second' \in [Client -> PopRefs], nodes' \in [Client -> PopRefs],
           threads_in_pop' \in Int, initial' \in Int,
           \A d \in Client \ {c} :
              /\ pc'[d] = pc[d] /\ todo'[d] = todo[d] /\ node'[d] = node[d] /\ got'[d] = got[d]
              /\ second'[d] = second[d] /\ nodes'[d] = nodes[d],
           pc'[c] # "idle" => todo'[c] # <<>>,
           pc'[c] \in {"push", "next", "exchange"} => node'[c] # Null,
           pc'[c] \in {"chained", "rechained"} => second'[c].ptr # Null,
           pc'[c] = "rechain" => nodes'[c] # NullRef,
           pc'[c] \in {"alone", "chain"} /\ node'[c] = Null => got'[c] = Empty
    PROVE  PopShape'
<1>1. NullRef' = NullRef
  BY DEF NullRef
<1>2. PopRefs' = PopRefs
  BY DEF PopRefs, NullRef, Ref
<1>3. ASSUME NEW d \in Client
      PROVE  /\ pc'[d] # "idle" => todo'[d] # <<>>
             /\ pc'[d] \in {"push", "next", "exchange"} => node'[d] # Null
             /\ pc'[d] \in {"chained", "rechained"} => second'[d].ptr # Null
             /\ pc'[d] = "rechain" => nodes'[d] # NullRef
             /\ pc'[d] \in {"alone", "chain"} /\ node'[d] = Null => got'[d] = Empty
  BY DEF PopShape
<1> QED
  BY <1>1, <1>2, <1>3 DEF PopShape, PopStates

(* Delete leaves the fields of the other nodes, and well-typed ones.        *)
LEMMA DeleteTyped ==
    ASSUME PopShape, NEW D, PopCount!Delete(D)
    PROVE  /\ next' \in [Address -> PopRefs] /\ next' \in [Address -> Refs]
           /\ data' \in [Address -> Entries]
           /\ live' = live \ D /\ live' \in SUBSET Address
           /\ \A a \in Address \ D : next'[a] = next[a] /\ data'[a] = data[a]
<1>1. /\ live' = live \ D
      /\ next' = [a \in Address |-> IF a \in D THEN NullRef ELSE next[a]]
      /\ data' = [a \in Address |-> IF a \in D THEN Empty ELSE data[a]]
  BY DEF PopCount!Delete, PopCount!NullRef, NullRef, PopCount!Empty, Empty
<1>2. NullRef \in PopRefs /\ PopRefs \subseteq Refs /\ Empty \in Entries
  BY PopRefFacts DEF Entries
<1>3. next \in [Address -> PopRefs] /\ data \in [Address -> Entries] /\ live \in SUBSET Address
  BY DEF PopShape, TypeInv
<1> QED
  BY <1>1, <1>2, <1>3

LEMMA ShapePush ==
    ASSUME PopShape, NEW c \in Client, PopCount!PushAlone(c)
    PROVE  PopShape'
<1>0. UNCHANGED <<threads_in_pop, to_be_deleted, second, nodes, initial>>
  BY DEF PopCount!PushAlone, PopCount!countVars
<1> USE PopRefFacts DEF PopShape
<1>1. CASE PushLoad(c)
  <2>1. /\ pc[c] = "idle" /\ todo[c] # <<>> /\ Head(todo[c]) # Empty
        /\ pc' = [pc EXCEPT ![c] = "push"]
        /\ UNCHANGED <<head, todo, got, fault>>
    BY <1>1 DEF PushLoad, Calls, To
  <2>2. PICK a \in Address \ live :
         /\ live' = live \cup {a}
         /\ data' = [data EXCEPT ![a] = Head(todo[c])]
         /\ next' = [next EXCEPT ![a] = head]
         /\ node' = [node EXCEPT ![c] = a]
    BY <1>1 DEF PushLoad, Holds
  <2>3. Head(todo[c]) \in Entries
    BY <2>1 DEF TypeInv
  <2>4. TypeInv'
    BY <2>1, <2>2, <2>3, PlacesAre DEF TypeInv
  <2>5. pc' \in [Client -> PopStates] /\ next' \in [Address -> PopRefs]
    BY <2>1, <2>2 DEF PopStates
  <2>6. /\ pc'[c] = "push" /\ node'[c] = a /\ a # Null
        /\ \A d \in Client \ {c} : pc'[d] = pc[d] /\ node'[d] = node[d]
    BY <2>1, <2>2 DEF TypeInv
  <2> QED
    BY <1>0, <2>1, <2>4, <2>5, <2>6, ShapeKeeps
<1>2. CASE PushExchange(c)
  <2>1. /\ pc[c] = "push" /\ UNCHANGED <<data, live, node, got, fault>>
        /\ node[c] \in Address /\ todo[c] # <<>>
    BY <1>2 DEF PushExchange, TypeInv
  <2>2. CASE head = next[node[c]] /\ head' = Ref(node[c]) /\ Returns(c) /\ UNCHANGED next
    <3>1. pc' = [pc EXCEPT ![c] = "idle"] /\ todo' = [todo EXCEPT ![c] = Tail(@)]
      BY <2>2 DEF Returns, To
    <3>2. Tail(todo[c]) \in Seq(Entries) /\ head' \in PopRefs
      BY <2>1, <2>2 DEF TypeInv
    <3>3. TypeInv'
      BY <2>1, <2>2, <3>1, <3>2, PlacesAre DEF TypeInv
    <3>4. pc' \in [Client -> PopStates] /\ pc'[c] = "idle"
          /\ \A d \in Client \ {c} : pc'[d] = pc[d] /\ todo'[d] = todo[d]
      BY <3>1 DEF PopStates, TypeInv
    <3> QED
      BY <1>0, <2>1, <2>2, <3>2, <3>3, <3>4, ShapeKeeps
  <2>3. CASE head # next[node[c]] /\ next' = [next EXCEPT ![node[c]] = head]
             /\ UNCHANGED <<head, pc, todo>>
    <3>1. TypeInv' /\ next' \in [Address -> PopRefs]
      BY <2>1, <2>3 DEF TypeInv
    <3> QED
      BY <1>0, <2>1, <2>3, <3>1, ShapeKeeps
  <2> QED
    BY <1>2, <2>2, <2>3 DEF PushExchange
<1> QED
  BY <1>1, <1>2, SamePushPopCount DEF PopCount!PushAlone, PopCount!Push

LEMMA ShapeReload ==
    ASSUME PopShape, NEW c \in Client, pc[c] \in {"load", "exchange"}, PopCount!Reload(c),
           UNCHANGED <<head, next, data, live, todo, threads_in_pop, to_be_deleted, nodes, initial>>,
           second' \in [Client -> PopRefs], \A d \in Client \ {c} : second'[d] = second[d]
    PROVE  PopShape'
<1>1. /\ node' = [node EXCEPT ![c] = head.ptr]
      /\ pc' = [pc EXCEPT ![c] = IF head.ptr = Null THEN "alone" ELSE "next"]
      /\ got' = [got EXCEPT ![c] = IF head.ptr = Null THEN Empty ELSE @]
  BY DEF PopCount!Reload, PopCount!Holds, PopCount!To, PopCount!Empty, Empty
<1>2. head.ptr \in Address \cup {Null} /\ Empty \in Entries /\ got[c] \in Entries
  BY DEF PopShape, TypeInv, Refs, Entries
<1>3. got' \in [Client -> Entries] /\ pc' \in [Client -> Places] /\ pc' \in [Client -> PopStates]
  BY <1>1, <1>2, PlacesAre DEF PopShape, TypeInv, PopStates
<1>4. TypeInv'
  BY <1>1, <1>2, <1>3 DEF PopShape, TypeInv
<1>5. \A d \in Client \ {c} : pc'[d] = pc[d] /\ node'[d] = node[d] /\ got'[d] = got[d]
  BY <1>1 DEF PopShape, TypeInv
<1>6. /\ pc'[c] = (IF head.ptr = Null THEN "alone" ELSE "next") /\ node'[c] = head.ptr
      /\ head.ptr = Null => got'[c] = Empty
  BY <1>1 DEF PopShape, TypeInv
<1> QED
  BY <1>3, <1>4, <1>5, <1>6, ShapeKeeps DEF PopShape

LEMMA ShapeStep ==
    ASSUME PopShape, NEW c \in Client, PopCount!Step(c), PopCount!Accessed(c) \subseteq live
    PROVE  PopShape' /\ UNCHANGED initial
<1> USE PopRefFacts
<1>1. CASE PopCount!PushAlone(c)
  BY <1>1, ShapePush DEF PopCount!PushAlone, PopCount!countVars
<1>2. CASE PopCount!PopEnter(c)
  <2>1. /\ pc' = [pc EXCEPT ![c] = "load"] /\ todo[c] # <<>>
        /\ threads_in_pop' = threads_in_pop + 1
        /\ UNCHANGED <<head, next, data, live, todo, node, got, fault,
                       to_be_deleted, second, nodes, initial>>
    BY <1>2 DEF PopCount!PopEnter, PopCount!Calls, PopCount!To
  <2>2. TypeInv' /\ pc' \in [Client -> PopStates] /\ pc'[c] = "load"
        /\ threads_in_pop' \in Int /\ \A d \in Client \ {c} : pc'[d] = pc[d]
    BY <2>1, PlacesAre DEF PopShape, TypeInv, PopStates
  <2> QED
    BY <2>1, <2>2, ShapeKeeps DEF PopShape
<1>3. CASE PopCount!PopLoad(c)
  BY <1>3, ShapeReload DEF PopCount!PopLoad, PopCount!countVars, PopShape
<1>4. CASE PopCount!PopNext(c)
  <2>1. /\ pc[c] = "next" /\ pc' = [pc EXCEPT ![c] = "exchange"]
        /\ second' = [second EXCEPT ![c] = next[node[c]]]
        /\ UNCHANGED <<head, next, data, live, todo, node, got, fault,
                       threads_in_pop, to_be_deleted, nodes, initial>>
    BY <1>4 DEF PopCount!PopNext, PopCount!To
  <2>2. node[c] \in Address /\ todo[c] # <<>>
    BY <2>1 DEF PopShape, TypeInv
  <2>3. /\ TypeInv' /\ pc' \in [Client -> PopStates] /\ pc'[c] = "exchange"
        /\ second' \in [Client -> PopRefs]
        /\ \A d \in Client \ {c} : pc'[d] = pc[d] /\ second'[d] = second[d]
    BY <2>1, <2>2, PlacesAre DEF PopShape, TypeInv, PopStates
  <2> QED
    BY <2>1, <2>2, <2>3, ShapeKeeps DEF PopShape
<1>5. CASE PopCount!PopExchange(c)
  <2>1. /\ pc[c] = "exchange"
        /\ second' = [second EXCEPT ![c] = NullRef]
        /\ UNCHANGED <<next, data, live, todo, fault, threads_in_pop, to_be_deleted, nodes, initial>>
    BY <1>5 DEF PopCount!PopExchange, PopCount!NullRef, NullRef
  <2>2. second' \in [Client -> PopRefs] /\ \A d \in Client \ {c} : second'[d] = second[d]
    BY <2>1 DEF PopShape
  <2>3. CASE head.ptr # node[c]
    BY <1>5, <2>1, <2>2, <2>3, ShapeReload DEF PopCount!PopExchange
  <2>4. CASE head.ptr = node[c]
    <3>1. /\ head' = second[c] /\ pc' = [pc EXCEPT ![c] = "alone"] /\ UNCHANGED node
          /\ got' = [got EXCEPT ![c] = data[node[c]]]
      BY <1>5, <2>4 DEF PopCount!PopExchange, PopCount!To
    <3>2. node[c] \in Address /\ node[c] # Null /\ todo[c] # <<>> /\ data[node[c]] \in Entries
          /\ second[c] \in PopRefs /\ second[c] \in Refs
      BY <2>1 DEF PopShape, TypeInv
    <3>3. /\ TypeInv' /\ pc' \in [Client -> PopStates] /\ pc'[c] = "alone" /\ head' \in PopRefs
          /\ \A d \in Client \ {c} : pc'[d] = pc[d] /\ got'[d] = got[d]
      BY <2>1, <3>1, <3>2, PlacesAre DEF PopShape, TypeInv, PopStates
    <3> QED
      BY <2>1, <2>2, <3>1, <3>2, <3>3, ShapeKeeps DEF PopShape
  <2> QED
    BY <2>1, <2>3, <2>4
<1>6. CASE PopCount!Alone(c)
  <2>1. /\ pc[c] = "alone" /\ pc' = [pc EXCEPT ![c] = IF threads_in_pop = 1 THEN "claim" ELSE "chain"]
        /\ UNCHANGED <<head, next, data, live, todo, node, got, fault,
                       threads_in_pop, to_be_deleted, second, nodes, initial>>
    BY <1>6 DEF PopCount!Alone, PopCount!To, PopCount!countVars
  <2>2. /\ TypeInv' /\ pc' \in [Client -> PopStates] /\ pc'[c] \in {"claim", "chain"}
        /\ \A d \in Client \ {c} : pc'[d] = pc[d]
        /\ todo[c] # <<>> /\ (node[c] = Null => got[c] = Empty)
    BY <2>1, PlacesAre DEF PopShape, TypeInv, PopStates
  <2> QED
    BY <2>1, <2>2, ShapeKeeps DEF PopShape
<1>7. CASE PopCount!Claim(c)
  <2>1. /\ pc[c] = "claim" /\ pc' = [pc EXCEPT ![c] = "leave"]
        /\ nodes' = [nodes EXCEPT ![c] = to_be_deleted] /\ to_be_deleted' = NullRef
        /\ UNCHANGED <<head, next, data, live, todo, node, got, fault, threads_in_pop, second, initial>>
    BY <1>7 DEF PopCount!Claim, PopCount!To, PopCount!NullRef, NullRef
  <2>2. /\ TypeInv' /\ pc' \in [Client -> PopStates] /\ pc'[c] = "leave" /\ todo[c] # <<>>
        /\ \A d \in Client \ {c} : pc'[d] = pc[d] /\ nodes'[d] = nodes[d]
        /\ nodes' \in [Client -> PopRefs]
    BY <2>1, PlacesAre DEF PopShape, TypeInv, PopStates
  <2> QED
    BY <2>1, <2>2, ShapeKeeps DEF PopShape
<1>8. ASSUME pc[c] # "idle", PopCount!Forget(c), PopCount!Returns(c),
             TypeInv => next' \in [Address -> Refs] /\ data' \in [Address -> Entries] /\ live' \in SUBSET Address,
             next' \in [Address -> PopRefs], threads_in_pop' \in Int,
             UNCHANGED <<head, got, fault, to_be_deleted, second, initial>>
      PROVE  PopShape' /\ UNCHANGED initial
  <2>1. /\ pc' = [pc EXCEPT ![c] = "idle"] /\ todo' = [todo EXCEPT ![c] = Tail(@)]
        /\ nodes' = [nodes EXCEPT ![c] = NullRef] /\ node' = [node EXCEPT ![c] = Null]
    BY <1>8 DEF PopCount!Forget, PopCount!Returns, PopCount!To, PopCount!Holds, PopCount!NullRef, NullRef
  <2>2. Tail(todo[c]) \in Seq(Entries) /\ todo[c] # <<>>
    BY <1>8 DEF PopShape, TypeInv
  <2>3. /\ TypeInv' /\ pc' \in [Client -> PopStates] /\ pc'[c] = "idle"
        /\ nodes' \in [Client -> PopRefs]
        /\ \A d \in Client \ {c} : pc'[d] = pc[d] /\ nodes'[d] = nodes[d] /\ node'[d] = node[d]
                                      /\ todo'[d] = todo[d]
    BY <1>8, <2>1, <2>2, PlacesAre DEF PopShape, TypeInv, PopStates
  <2> QED
    BY <1>8, <2>1, <2>3, ShapeKeeps DEF PopShape
<1>9. CASE PopCount!Leave(c)
  <2>1. /\ pc[c] = "leave" /\ threads_in_pop' = threads_in_pop - 1
        /\ UNCHANGED <<head, got, fault, to_be_deleted, second, initial>>
    BY <1>9 DEF PopCount!Leave
  <2>2. threads_in_pop' \in Int
    BY <2>1 DEF PopShape
  <2>3. CASE threads_in_pop - 1 # 0 /\ nodes[c] # NullRef
    <3>1. pc' = [pc EXCEPT ![c] = "rechain"] /\ UNCHANGED <<next, data, live, nodes, node, todo>>
      BY <1>9, <2>3 DEF PopCount!Leave, PopCount!To, PopCount!NullRef, NullRef
    <3>2. /\ TypeInv' /\ pc' \in [Client -> PopStates] /\ pc'[c] = "rechain" /\ todo[c] # <<>>
          /\ \A d \in Client \ {c} : pc'[d] = pc[d]
      BY <2>1, <3>1, PlacesAre DEF PopShape, TypeInv, PopStates
    <3> QED
      BY <2>1, <2>2, <2>3, <3>1, <3>2, ShapeKeeps DEF PopShape
  <2>4. CASE ~(threads_in_pop - 1 # 0 /\ nodes[c] # NullRef)
    <3>1. /\ \E D : PopCount!Delete(D)
          /\ PopCount!Forget(c) /\ PopCount!Returns(c)
      BY <1>9, <2>4 DEF PopCount!Leave, PopCount!NullRef, NullRef
    <3> QED
      BY <1>8, <2>1, <2>2, <3>1, DeleteTyped
  <2> QED
    BY <2>3, <2>4
<1>10. CASE PopCount!ChainLoad(c)
  <2>1. /\ pc[c] \in {"chain", "rechain"}
        /\ next' = [next EXCEPT ![PopCount!Last(c)] = to_be_deleted]
        /\ nodes' = [nodes EXCEPT ![c] = PopCount!First(c)]
        /\ second' = [second EXCEPT ![c] = Ref(PopCount!Last(c))]
        /\ pc' = [pc EXCEPT ![c] = IF pc[c] = "chain" THEN "chained" ELSE "rechained"]
        /\ UNCHANGED <<head, data, live, todo, node, got, fault, threads_in_pop, to_be_deleted, initial>>
    BY <1>10 DEF PopCount!ChainLoad, PopCount!To, PopCount!Ref, Ref
  <2>2. PopCount!Last(c) \in live /\ PopCount!First(c) \in PopRefs
    <3>1. CASE pc[c] = "chain"
      <4>1. node[c] \in live
        BY <3>1 DEF PopCount!Accessed
      <4> QED
        BY <4>1, <3>1 DEF PopCount!Last, PopCount!First, PopShape, TypeInv, PopCount!Ref, Ref
    <3>2. CASE pc[c] = "rechain"
      <4> DEFINE walk == NodesFrom(nodes[c])
      <4>1. nodes[c] \in PopRefs /\ nodes[c].ptr \in Address
        BY <3>2 DEF PopShape
      <4>2. PICK m \in Nat : DOMAIN walk = 1 .. m /\ Len(walk) = m /\ 1 \in 1 .. m
        BY <4>1, NodesNotNull
      <4>3. PopCount!Last(c) = walk[m]
        BY <3>2, <4>2, SameNodes DEF PopCount!Last
      <4>4. m \in DOMAIN walk
        BY <4>2
      <4>5. PopCount!NodeSet(nodes[c]) = {walk[i] : i \in DOMAIN walk}
        BY SameNodes DEF PopCount!NodeSet
      <4>6. walk[m] \in live
        BY <3>2, <4>4, <4>5 DEF PopCount!Accessed
      <4> QED
        BY <4>1, <4>3, <4>6, <3>2 DEF PopCount!First
    <3> QED
      BY <2>1, <3>1, <3>2
  <2> DEFINE last == PopCount!Last(c)
             first == PopCount!First(c)
  <2> HIDE DEF last, first
  <2>3. last \in Address /\ last # Null /\ Ref(last) \in PopRefs /\ Ref(last).ptr = last /\ first \in PopRefs
    BY <2>2 DEF PopShape, TypeInv, last, first
  <2>4. to_be_deleted \in PopRefs /\ to_be_deleted \in Refs
    BY DEF PopShape
  <2>5. /\ next' = [next EXCEPT ![last] = to_be_deleted]
        /\ nodes' = [nodes EXCEPT ![c] = first]
        /\ second' = [second EXCEPT ![c] = Ref(last)]
    BY <2>1 DEF last, first
  <2>6. /\ next' \in [Address -> PopRefs] /\ next' \in [Address -> Refs]
        /\ nodes' \in [Client -> PopRefs] /\ second' \in [Client -> PopRefs]
        /\ second'[c] = Ref(last)
        /\ \A d \in Client \ {c} : nodes'[d] = nodes[d] /\ second'[d] = second[d]
    BY <2>3, <2>4, <2>5 DEF PopShape, TypeInv
  <2>7. /\ pc' \in [Client -> PopStates] /\ pc' \in [Client -> Places]
        /\ pc'[c] \in {"chained", "rechained"} /\ todo[c] # <<>>
        /\ \A d \in Client \ {c} : pc'[d] = pc[d]
    BY <2>1, PlacesAre DEF PopShape, TypeInv, PopStates
  <2>8. TypeInv'
    BY <2>1, <2>6, <2>7 DEF PopShape, TypeInv
  <2> QED
    BY <2>1, <2>3, <2>6, <2>7, <2>8, ShapeKeeps DEF PopShape
<1>11. CASE PopCount!ChainExchange(c)
  <2>1. /\ pc[c] \in {"chained", "rechained"} /\ todo[c] # <<>> /\ second[c].ptr # Null
        /\ UNCHANGED <<head, data, live, todo, node, got, fault, threads_in_pop, nodes, initial>>
    BY <1>11 DEF PopCount!ChainExchange, PopShape
  <2>2. CASE to_be_deleted = next[second[c].ptr]
    <3>1. /\ to_be_deleted' = nodes[c] /\ second' = [second EXCEPT ![c] = NullRef]
          /\ pc' = [pc EXCEPT ![c] = IF pc[c] = "chained" THEN "decrement" ELSE "delete"]
          /\ UNCHANGED next
      BY <1>11, <2>2 DEF PopCount!ChainExchange, PopCount!To, PopCount!NullRef, NullRef
    <3>2. /\ TypeInv' /\ pc' \in [Client -> PopStates] /\ pc'[c] \in {"decrement", "delete"}
          /\ \A d \in Client \ {c} : pc'[d] = pc[d] /\ second'[d] = second[d]
          /\ to_be_deleted' \in PopRefs /\ second' \in [Client -> PopRefs]
      BY <2>1, <3>1, PlacesAre DEF PopShape, TypeInv, PopStates
    <3> QED
      BY <2>1, <3>1, <3>2, ShapeKeeps DEF PopShape
  <2>3. CASE to_be_deleted # next[second[c].ptr]
    <3>1. /\ next' = [next EXCEPT ![second[c].ptr] = to_be_deleted]
          /\ UNCHANGED <<to_be_deleted, second, pc>>
      BY <1>11, <2>3 DEF PopCount!ChainExchange
    <3>2. TypeInv' /\ next' \in [Address -> PopRefs]
      BY <2>1, <3>1 DEF PopShape, TypeInv
    <3> QED
      BY <2>1, <3>1, <3>2, ShapeKeeps DEF PopShape
  <2> QED
    BY <2>2, <2>3
<1>12. CASE PopCount!Decrement(c)
  <2>1. /\ pc[c] = "decrement" /\ threads_in_pop' = threads_in_pop - 1
        /\ PopCount!Forget(c) /\ PopCount!Returns(c)
        /\ UNCHANGED <<head, next, data, live, got, fault, to_be_deleted, second, initial>>
    BY <1>12 DEF PopCount!Decrement
  <2> QED
    BY <1>8, <2>1 DEF PopShape, TypeInv
<1>13. CASE PopCount!DeleteHead(c)
  <2>1. /\ pc[c] = "delete" /\ PopCount!Delete({node[c]})
        /\ PopCount!Forget(c) /\ PopCount!Returns(c)
        /\ UNCHANGED <<head, got, fault, threads_in_pop, to_be_deleted, second, initial>>
    BY <1>13 DEF PopCount!DeleteHead
  <2>2. threads_in_pop' \in Int
    BY <2>1 DEF PopShape
  <2> QED
    BY <1>8, <2>1, <2>2, DeleteTyped
<1> QED
  BY <1>1, <1>2, <1>3, <1>4, <1>5, <1>6, <1>7, <1>9, <1>10, <1>11, <1>12, <1>13 DEF PopCount!Step
-----------------------------------------------------------------------------
(* PopCountStack, when threads_in_pop was not negative at first.  w is the  *)
(* list of the nodes to be deleted, and k[c] the list that c has claimed or *)
(* that it chains; while c chains it, its last node leads elsewhere.        *)
Entered(c) == pc[c] \notin {"idle", "push", "rechain", "rechained", "delete"}
InPop == {c \in Client : Entered(c)}
Kept(c) ==
    CASE pc[c] = "push" -> {node[c]}
      [] pc[c] \in {"alone", "claim", "leave", "chain", "rechain", "rechained", "delete"} ->
            {node[c]} \ {Null}
      [] OTHER -> {}
Has(c, t) == Kept(c) \cup Elems(t)
Chained(ref, last, t) ==
    /\ t \in Seq(Address) /\ Once(t) /\ t # <<>>
    /\ ref.ptr = t[1] /\ last.ptr = t[Len(t)]
    /\ \A i \in 1 .. Len(t) - 1 : next[t[i]].ptr = t[i + 1]
Listed == {"leave", "rechain"}
Chaining == {"chained", "rechained"}

PopCountLists(s, w, k) ==
    /\ Leads(to_be_deleted, w)
    /\ k \in [Client -> Seq(Address)]
    /\ Elems(w) \subseteq live \ Elems(s)
    /\ \A c \in Client :
          /\ pc[c] \in Listed => Leads(nodes[c], k[c])
          /\ pc[c] \in Chaining => Chained(nodes[c], second[c], k[c])
          /\ pc[c] \notin Listed \cup Chaining => k[c] = <<>>
          /\ Kept(c) \cap Elems(k[c]) = {}
          /\ Has(c, k[c]) \subseteq live \ (Elems(s) \cup Elems(w))
          /\ \A d \in Client \ {c} : Has(c, k[c]) \cap Has(d, k[d]) = {}
    /\ \A a \in live : a \in Elems(s) \cup Elems(w) \/ \E c \in Client : a \in Has(c, k[c])

(* Who has found threads_in_pop to be 1 keeps a node that no other pop()    *)
(* can be about to read.                                                    *)
Excluding == {"claim", "leave", "rechain", "rechained", "delete"}
Reading == {"next", "exchange"}
PopCountInv(s, w, k) ==
    /\ PopShape
    /\ initial >= 0
    /\ threads_in_pop = initial + Cardinality(InPop)
    /\ PopCountLists(s, w, k)
    /\ \A c \in Client : pc[c] \in Reading =>
          /\ node[c] \in live
          /\ \A d \in Client : pc[d] = "push" \/ pc[d] \in Excluding => node[d] # node[c]
    /\ \A c \in Client : pc[c] = "exchange" /\ node[c] \in Elems(s) => second[c] = next[node[c]]

LEMMA KeptStays ==
    ASSUME NEW d, pc'[d] = pc[d], node'[d] = node[d]
    PROVE  Kept(d)' = Kept(d)
<1>1. CASE pc[d] = "push"
  BY <1>1 DEF Kept
<1>2. CASE pc[d] \in {"alone", "claim", "leave", "chain", "rechain", "rechained", "delete"}
  BY <1>2 DEF Kept
<1>3. CASE pc[d] \notin {"push", "alone", "claim", "leave", "chain", "rechain", "rechained", "delete"}
  BY <1>3 DEF Kept
<1> QED
  BY <1>1, <1>2, <1>3

LEMMA InPopFinite ==
    IsFiniteSet(InPop) /\ Cardinality(InPop) \in Nat
<1>1. InPop \subseteq Client
  BY DEF InPop
<1>2. IsFiniteSet(InPop)
  BY <1>1, ClientAssumption, FS_Subset
<1> QED
  BY <1>2, FS_CardinalityType

LEMMA InPopMoves ==
    ASSUME NEW c \in Client, \A d \in Client \ {c} : pc'[d] = pc[d]
    PROVE  /\ (Entered(c)' <=> Entered(c)) => Cardinality(InPop') = Cardinality(InPop)
           /\ ~Entered(c) /\ Entered(c)' => Cardinality(InPop') = Cardinality(InPop) + 1
           /\ Entered(c) /\ ~Entered(c)' => Cardinality(InPop') = Cardinality(InPop) - 1
<1>0. \A d \in Client \ {c} : Entered(d)' <=> Entered(d)
  BY DEF Entered
<1>1. ASSUME Entered(c)' <=> Entered(c) PROVE InPop' = InPop
  BY <1>0, <1>1 DEF InPop
<1>2. ASSUME ~Entered(c), Entered(c)' PROVE c \notin InPop /\ InPop' = InPop \cup {c}
  BY <1>0, <1>2 DEF InPop
<1>3. ASSUME Entered(c), ~Entered(c)' PROVE c \in InPop /\ InPop' = InPop \ {c}
  BY <1>0, <1>3 DEF InPop
<1> QED
  BY <1>1, <1>2, <1>3, InPopFinite, FS_AddElement, FS_RemoveElement

(* A step of c that moves nodes between the stack, the nodes to be deleted  *)
(* and what it has itself, takes some from the free ones, and frees others. *)
LEMMA ListsMove ==
    ASSUME NEW s, NEW w, NEW k, NEW r, NEW v, NEW m, PopCountLists(s, w, k),
           NEW c \in Client, live' \in SUBSET Address,
           Leads(to_be_deleted, v)', m \in [Client -> Seq(Address)],
           \A d \in Client \ {c} : /\ m[d] = k[d] /\ pc'[d] = pc[d] /\ node'[d] = node[d]
                                   /\ nodes'[d] = nodes[d] /\ second'[d] = second[d],
           pc'[c] \in Listed => Leads(nodes[c], m[c])',
           pc'[c] \in Chaining => Chained(nodes[c], second[c], m[c])',
           pc'[c] \notin Listed \cup Chaining => m[c] = <<>>,
           Kept(c)' \cap Elems(m[c]) = {},
           NEW S, S = Elems(s), NEW T, T = Elems(r),
           NEW W, W = Elems(w), NEW V, V = Elems(v),
           NEW O, O = Has(c, k[c]), NEW P, P = Has(c, m[c])',
           \A a \in live \ (S \cup W \cup O) : next'[a] = next[a],
           T \cap V = {}, T \cap P = {}, V \cap P = {},
           (T \cup V \cup P) \cap live \subseteq S \cup W \cup O,
           live' = (live \ (S \cup W \cup O)) \cup T \cup V \cup P
    PROVE  PopCountLists(r, v, m)'
<1>1. Elems(r)' = T /\ Elems(v)' = V
  BY DEF Elems
<1>2. ASSUME NEW d \in Client, d # c
      PROVE  /\ Has(d, m[d])' = Has(d, k[d]) /\ Has(d, k[d]) \subseteq live \ (S \cup W \cup O)
             /\ Kept(d)' \cap Elems(m[d])' = {}
             /\ pc'[d] \notin Listed \cup Chaining => m[d] = <<>>
  <2>1. Kept(d)' = Kept(d) /\ Elems(m[d])' = Elems(k[d])
    <3>1. m[d] = k[d] /\ Elems(m[d])' = Elems(m[d])
      BY <1>2 DEF Elems
    <3> QED
      BY <3>1, <1>2, KeptStays
  <2>2. Has(d, m[d])' = Has(d, k[d])
    BY <2>1 DEF Has
  <2> QED
    BY <2>1, <2>2, <1>2 DEF PopCountLists
<1>3. ASSUME NEW d \in Client, d # c
      PROVE  /\ pc'[d] \in Listed => Leads(nodes[d], m[d])'
             /\ pc'[d] \in Chaining => Chained(nodes[d], second[d], m[d])'
  <2>1. PICK t : t = k[d]
    OBVIOUS
  <2>2. \A a \in Elems(t) : next'[a] = next[a]
    BY <1>2, <1>3, <2>1 DEF Has
  <2>3. ASSUME pc'[d] \in Listed PROVE Leads(nodes[d], m[d])'
    <3>1. Leads(nodes[d], t)
      BY <1>3, <2>1, <2>3 DEF PopCountLists
    <3>2. PICK h : h = nodes[d]
      OBVIOUS
    <3>3. Leads(h, t)'
      BY <3>1, <3>2, <2>2, LeadsStays
    <3> QED
      BY <3>2, <3>3, <2>1, <1>3 DEF Leads, Once, At
  <2>4. ASSUME pc'[d] \in Chaining PROVE Chained(nodes[d], second[d], m[d])'
    <3>1. Chained(nodes[d], second[d], t)
      BY <1>3, <2>1, <2>4 DEF PopCountLists
    <3>2. \A i \in 1 .. Len(t) - 1 : i \in 1 .. Len(t) /\ t[i] \in Elems(t)
      BY <3>1 DEF Chained, Elems
    <3>3. ASSUME NEW i \in 1 .. Len(t) - 1 PROVE next'[t[i]].ptr = t[i + 1]
      <4>1. next[t[i]].ptr = t[i + 1]
        BY <3>1 DEF Chained
      <4>2. next'[t[i]] = next[t[i]]
        BY <3>2, <2>2
      <4> QED
        BY <4>1, <4>2
    <3>4. m[d] = t /\ nodes'[d] = nodes[d] /\ second'[d] = second[d]
      BY <2>1, <1>3
    <3>5. Once(t)' = Once(t)
      BY DEF Once
    <3>6. PICK h, l : h = nodes[d] /\ l = second[d]
      OBVIOUS
    <3>7. Chained(h, l, t)'
      BY <3>1, <3>3, <3>5, <3>6 DEF Chained
    <3> QED
      BY <3>4, <3>6, <3>7 DEF Chained, Once
  <2> QED
    BY <2>3, <2>4
<1>4. ASSUME NEW d \in Client
      PROVE  /\ Has(d, m[d])' \subseteq live' \ (T \cup V)
             /\ \A e \in Client \ {d} : Has(d, m[d])' \cap Has(e, m[e])' = {}
  <2>1. CASE d = c
    <3>1. P \subseteq live' \ (T \cup V)
      OBVIOUS
    <3>2. ASSUME NEW e \in Client \ {c} PROVE P \cap Has(e, m[e])' = {}
      <4>1. Has(e, m[e])' \subseteq live \ (S \cup W \cup O)
        BY <1>2
      <4> QED
        BY <4>1
    <3> QED
      BY <2>1, <3>1, <3>2
  <2>2. CASE d # c
    <3>1. Has(d, m[d])' \subseteq live' \ (T \cup V \cup P)
      BY <2>2, <1>2
    <3>2. ASSUME NEW e \in Client \ {d} PROVE Has(d, m[d])' \cap Has(e, m[e])' = {}
      <4>1. CASE e = c
        BY <4>1, <3>1
      <4>2. CASE e # c
        BY <4>2, <2>2, <1>2 DEF PopCountLists
      <4> QED
        BY <4>1, <4>2
    <3> QED
      BY <3>1, <3>2
  <2> QED
    BY <2>1, <2>2
<1>5. ASSUME NEW a \in live' PROVE a \in T \cup V \/ \E d \in Client : a \in Has(d, m[d])'
  <2>1. CASE a \in T \cup V \cup P
    BY <2>1
  <2>2. CASE a \in live \ (S \cup W \cup O)
    <3>1. PICK d \in Client : a \in Has(d, k[d])
      BY <2>2 DEF PopCountLists
    <3>2. d # c
      BY <3>1, <2>2
    <3> QED
      BY <3>1, <3>2, <1>2
  <2> QED
    BY <2>1, <2>2, <1>5
<1>6. ASSUME NEW d \in Client
      PROVE  /\ pc'[d] \in Listed => Leads(nodes[d], m[d])'
             /\ pc'[d] \in Chaining => Chained(nodes[d], second[d], m[d])'
             /\ pc'[d] \notin Listed \cup Chaining => m[d] = <<>>
             /\ Kept(d)' \cap Elems(m[d])' = {}
  <2>1. CASE d = c
    BY <2>1 DEF Elems, Leads, Once, At, Chained
  <2>2. CASE d # c
    BY <2>2, <1>2, <1>3
  <2> QED
    BY <2>1, <2>2
<1>7. V \subseteq live' \ T
  OBVIOUS
<1> QED
  BY <1>1, <1>4, <1>5, <1>6, <1>7 DEF PopCountLists, Listed, Chaining

(* The same, with what moves said by one operator.                          *)
Moved(S, W, O, T, V, P) ==
    /\ \A a \in live \ (S \cup W \cup O) : next'[a] = next[a]
    /\ T \cap V = {} /\ T \cap P = {} /\ V \cap P = {}
    /\ (T \cup V \cup P) \cap live \subseteq S \cup W \cup O
    /\ live' = (live \ (S \cup W \cup O)) \cup T \cup V \cup P

LEMMA ListsMoved ==
    ASSUME NEW s, NEW w, NEW k, NEW r, NEW v, NEW m, PopCountLists(s, w, k),
           NEW c \in Client, live' \in SUBSET Address,
           Leads(to_be_deleted, v)', m \in [Client -> Seq(Address)],
           \A d \in Client \ {c} : /\ m[d] = k[d] /\ pc'[d] = pc[d] /\ node'[d] = node[d]
                                   /\ nodes'[d] = nodes[d] /\ second'[d] = second[d],
           pc'[c] \in Listed => Leads(nodes[c], m[c])',
           pc'[c] \in Chaining => Chained(nodes[c], second[c], m[c])',
           pc'[c] \notin Listed \cup Chaining => m[c] = <<>>,
           Kept(c)' \cap Elems(m[c]) = {},
           Moved(Elems(s), Elems(w), Has(c, k[c]), Elems(r), Elems(v), Has(c, m[c])')
    PROVE  PopCountLists(r, v, m)'
BY ListsMove DEF Moved

(* What else a step of c must keep.                                         *)
LEMMA PopCountKeeps ==
    ASSUME NEW s, NEW w, NEW k, NEW r, NEW v, NEW m, PopCountInv(s, w, k),
           PopCountLists(r, v, m)', PopShape', UNCHANGED initial, NEW c \in Client,
           \A d \in Client \ {c} : pc'[d] = pc[d] /\ node'[d] = node[d] /\ second'[d] = second[d],
           \/ (Entered(c)' <=> Entered(c)) /\ threads_in_pop' = threads_in_pop
           \/ ~Entered(c) /\ Entered(c)' /\ threads_in_pop' = threads_in_pop + 1
           \/ Entered(c) /\ ~Entered(c)' /\ threads_in_pop' = threads_in_pop - 1,
           \A d \in Client \ {c} : pc[d] \in Reading =>
              /\ node[d] \in live'
              /\ pc'[c] = "push" \/ pc'[c] \in Excluding => node'[c] # node[d],
           \A d \in Client \ {c} : pc[d] = "exchange" /\ node[d] \in Elems(r) =>
              node[d] \in Elems(s) /\ next'[node[d]] = next[node[d]],
           pc'[c] \in Reading =>
              /\ node'[c] \in live'
              /\ \A d \in Client \ {c} : pc[d] = "push" \/ pc[d] \in Excluding => node[d] # node'[c],
           pc'[c] = "exchange" /\ node'[c] \in Elems(r) => second'[c] = next'[node'[c]]
    PROVE  PopCountInv(r, v, m)'
<1>1. threads_in_pop' = initial' + Cardinality(InPop')
  BY InPopMoves, InPopFinite DEF PopCountInv, PopShape
<1>2. ASSUME NEW d \in Client, pc'[d] \in Reading
      PROVE  /\ node'[d] \in live'
             /\ \A e \in Client : pc'[e] = "push" \/ pc'[e] \in Excluding => node'[e] # node'[d]
  <2>1. CASE d = c
    BY <2>1, <1>2 DEF Reading, Excluding
  <2>2. CASE d # c
    BY <2>2, <1>2 DEF PopCountInv
  <2> QED
    BY <2>1, <2>2
<1>3. ASSUME NEW d \in Client, pc'[d] = "exchange", node'[d] \in Elems(r)
      PROVE  second'[d] = next'[node'[d]]
  <2>1. CASE d = c
    BY <2>1, <1>3
  <2>2. CASE d # c
    BY <2>2, <1>3 DEF PopCountInv
  <2> QED
    BY <2>1, <2>2
<1>4. initial' >= 0
  BY DEF PopCountInv
<1>5. Elems(r)' = Elems(r) /\ Reading' = Reading /\ Excluding' = Excluding
  BY DEF Elems, Reading, Excluding
<1> QED
  BY <1>1, <1>2, <1>3, <1>4, <1>5 DEF PopCountInv

LEMMA WaitingStays ==
    ASSUME NEW w, Leads(to_be_deleted, w), UNCHANGED to_be_deleted,
           \A a \in Elems(w) : next'[a] = next[a]
    PROVE  Leads(to_be_deleted, w)'
<1>1. PICK h : h = to_be_deleted'
  OBVIOUS
<1>2. Leads(h, w)'
  BY <1>1, LeadsStays
<1> QED
  BY <1>1, <1>2 DEF Leads

(* What every step starts from.                                             *)
LEMMA PopCountFacts ==
    ASSUME NEW s, NEW w, NEW k, BaseInv(s), PopCountInv(s, w, k), NEW c \in Client
    PROVE  /\ PopCountLists(s, w, k) /\ k \in [Client -> Seq(Address)] /\ k[c] \in Seq(Address)
           /\ live \in SUBSET Address /\ Elems(s) \subseteq live /\ Elems(w) \subseteq live \ Elems(s)
           /\ Has(c, k[c]) \subseteq live \ (Elems(s) \cup Elems(w))
           /\ Leads(to_be_deleted, w) /\ Null \notin live
           /\ pc[c] \notin Listed \cup Chaining => k[c] = <<>> /\ Elems(k[c]) = {} /\ Has(c, k[c]) = Kept(c)
           /\ node[c] \in Address \cup {Null}
<1>1. PopCountLists(s, w, k) /\ k \in [Client -> Seq(Address)] /\ k[c] \in Seq(Address)
  BY DEF PopCountInv, PopCountLists
<1>2. live \in SUBSET Address /\ Elems(s) \subseteq live /\ Null \notin live /\ node[c] \in Address \cup {Null}
  BY AddressAssumption DEF BaseInv, TypeInv, StackIs
<1>3. ASSUME pc[c] \notin Listed \cup Chaining
      PROVE  k[c] = <<>> /\ Elems(k[c]) = {} /\ Has(c, k[c]) = Kept(c)
  <2>1. k[c] = <<>>
    BY <1>1, <1>3 DEF PopCountLists
  <2> QED
    BY <2>1 DEF Elems, Has
<1> QED
  BY <1>1, <1>2, <1>3 DEF PopCountLists

LEMMA PopCountPushLoad ==
    ASSUME NEW s, NEW w, NEW k, BaseInv(s), PopCountInv(s, w, k), PopShape', NEW c \in Client,
           PushLoad(c), UNCHANGED <<threads_in_pop, to_be_deleted, second, nodes, initial>>
    PROVE  Becomes(s, s) /\ PopCountInv(s, w, k)'
<1>1. Becomes(s, s)
  BY PushLoadKeeps
<1>2. /\ pc[c] = "idle"
      /\ pc' = [pc EXCEPT ![c] = "push"]
      /\ UNCHANGED <<head, todo, got, fault>>
  BY DEF PushLoad, Calls, To
<1>3. PICK a \in Address \ live :
         live' = live \cup {a} /\ node' = [node EXCEPT ![c] = a] /\ next' = [next EXCEPT ![a] = head]
  BY DEF PushLoad, Holds
<1>4. /\ pc'[c] = "push" /\ node'[c] = a
      /\ \A d \in Client : d # c => pc'[d] = pc[d] /\ node'[d] = node[d]
      /\ \A b \in live : next'[b] = next[b] /\ b # a
  BY <1>2, <1>3 DEF BaseInv, TypeInv
<1>5. /\ PopCountLists(s, w, k) /\ k \in [Client -> Seq(Address)] /\ k[c] = <<>>
      /\ live \in SUBSET Address /\ Elems(s) \subseteq live /\ Elems(w) \subseteq live \ Elems(s)
      /\ Leads(to_be_deleted, w) /\ Has(c, k[c]) = Kept(c) /\ Elems(k[c]) = {}
  BY <1>2, PopCountFacts DEF Listed, Chaining
<1>6. Kept(c) = {} /\ Kept(c)' = {a} /\ Has(c, k[c])' = {a}
  <2>1. Kept(c) = {} /\ Kept(c)' = {a}
    BY <1>2, <1>4 DEF Kept
  <2>2. Elems(k[c])' = {}
    BY <1>5 DEF Elems
  <2> QED
    BY <2>1, <2>2 DEF Has
<1>7. Leads(to_be_deleted, w)'
  BY <1>4, <1>5, WaitingStays
<1>8. PopCountLists(s, w, k)'
  <2>1. PICK S, W, O : S = Elems(s) /\ W = Elems(w) /\ O = {}
    OBVIOUS
  <2>2. PICK P : P = {a}
    OBVIOUS
  <2>3. /\ S \cap W = {} /\ S \cap P = {} /\ W \cap P = {}
        /\ (S \cup W \cup P) \cap live \subseteq S \cup W \cup O
        /\ live' = (live \ (S \cup W \cup O)) \cup S \cup W \cup P
        /\ live' \in SUBSET Address
    BY <2>1, <2>2, <1>3, <1>5
  <2>4. O = Has(c, k[c]) /\ P = Has(c, k[c])' /\ Kept(c)' \cap Elems(k[c]) = {}
        /\ \A b \in live \ (S \cup W \cup O) : next'[b] = next[b]
    BY <2>1, <2>2, <1>4, <1>5, <1>6
  <2>5. \A d \in Client \ {c} : /\ pc'[d] = pc[d] /\ node'[d] = node[d]
                                /\ nodes'[d] = nodes[d] /\ second'[d] = second[d]
    BY <1>4
  <2>6. pc'[c] \notin Listed \cup Chaining
    BY <1>4 DEF Listed, Chaining
  <2> QED
    BY <2>1, <2>3, <2>4, <2>5, <2>6, <1>5, <1>7, ListsMove
<1>9. ~Entered(c) /\ ~Entered(c)'
  BY <1>2, <1>4 DEF Entered
<1>10. \A d \in Client \ {c} : pc[d] \in Reading => node[d] \in live' /\ a # node[d]
  BY <1>3 DEF PopCountInv
<1>11. \A d \in Client \ {c} : pc[d] = "exchange" => next'[node[d]] = next[node[d]]
  BY <1>4 DEF PopCountInv, Reading
<1>12. pc'[c] \notin Reading /\ pc'[c] # "exchange"
  BY <1>4 DEF Reading
<1>13. PopCountInv(s, w, k)'
  BY <1>4, <1>8, <1>9, <1>10, <1>11, <1>12, PopCountKeeps
<1> QED
  BY <1>1, <1>13

(* The steps after which every node is where it was.                        *)
LEMMA ListsStay ==
    ASSUME NEW s, NEW w, NEW k, NEW m, BaseInv(s), PopCountInv(s, w, k), NEW c \in Client,
           UNCHANGED <<live, to_be_deleted>>, m \in [Client -> Seq(Address)],
           \A d \in Client \ {c} : /\ m[d] = k[d] /\ pc'[d] = pc[d] /\ node'[d] = node[d]
                                   /\ nodes'[d] = nodes[d] /\ second'[d] = second[d],
           pc'[c] \in Listed => Leads(nodes[c], m[c])',
           pc'[c] \in Chaining => Chained(nodes[c], second[c], m[c])',
           pc'[c] \notin Listed \cup Chaining => m[c] = <<>>,
           Kept(c)' \cap Elems(m[c]) = {},
           Has(c, m[c])' = Has(c, k[c]),
           \A a \in live \ Has(c, k[c]) : next'[a] = next[a]
    PROVE  PopCountLists(s, w, m)'
<1>1. /\ PopCountLists(s, w, k) /\ live \in SUBSET Address
      /\ Elems(s) \subseteq live /\ Elems(w) \subseteq live \ Elems(s)
      /\ Has(c, k[c]) \subseteq live \ (Elems(s) \cup Elems(w))
      /\ Leads(to_be_deleted, w)
  BY PopCountFacts
<1>2. Leads(to_be_deleted, w)'
  BY <1>1, WaitingStays
<1>3. PICK S, W, O : S = Elems(s) /\ W = Elems(w) /\ O = Has(c, k[c])
  OBVIOUS
<1>4. /\ S \cap W = {} /\ S \cap O = {} /\ W \cap O = {}
      /\ (S \cup W \cup O) \cap live \subseteq S \cup W \cup O
      /\ live' = (live \ (S \cup W \cup O)) \cup S \cup W \cup O
      /\ live' \in SUBSET Address
      /\ \A b \in live \ (S \cup W \cup O) : next'[b] = next[b]
      /\ O = Has(c, m[c])'
  BY <1>1, <1>3
<1> QED
  BY <1>1, <1>2, <1>3, <1>4, ListsMove

LEMMA PopCountPushExchange ==
    ASSUME NEW s, NEW w, NEW k, BaseInv(s), PopCountInv(s, w, k), PopShape', NEW c \in Client,
           PushExchange(c), UNCHANGED <<threads_in_pop, to_be_deleted, second, nodes, initial>>
    PROVE  \E r : Becomes(s, r) /\ PopCountInv(r, w, k)'
<1>0. /\ pc[c] = "push" /\ UNCHANGED <<data, live, node, got, fault>>
      /\ node[c] \in live \ Elems(s) /\ live \in SUBSET Address
  BY DEF PushExchange, BaseInv, StackIs, TypeInv
<1>1. PICK n : n = node[c]
  OBVIOUS
<1>2. /\ PopCountLists(s, w, k) /\ k \in [Client -> Seq(Address)] /\ k[c] = <<>>
      /\ Elems(s) \subseteq live /\ Elems(w) \subseteq live \ Elems(s)
      /\ Leads(to_be_deleted, w) /\ Has(c, k[c]) = Kept(c) /\ Elems(k[c]) = {}
      /\ Kept(c) \subseteq live \ (Elems(s) \cup Elems(w))
  BY <1>0, PopCountFacts DEF Listed, Chaining
<1>3. Kept(c) = {n}
  BY <1>0, <1>1 DEF Kept
<1>4. \A d \in Client \ {c} : pc[d] \in Reading => node[d] \in live /\ node[d] # n
  BY <1>0, <1>1 DEF PopCountInv
<1>5. CASE Becomes(s, s) /\ UNCHANGED <<head, pc, todo, data, live, node, got>>
  <2>1. \A a \in live \ {n} : next'[a] = next[a]
    BY <1>0, <1>1, <1>5 DEF PushExchange, BaseInv, TypeInv
  <2>2. pc'[c] = "push" /\ Kept(c)' = {n} /\ Has(c, k[c])' = {n}
    BY <1>0, <1>1, <1>2, <1>5 DEF Kept, Has, Elems
  <2>3. PopCountLists(s, w, k)'
    <3>1. Kept(c)' \cap Elems(k[c]) = {} /\ pc'[c] \notin Listed \cup Chaining
      BY <1>2, <2>2 DEF Listed, Chaining
    <3>2. Has(c, k[c])' = Has(c, k[c]) /\ \A a \in live \ Has(c, k[c]) : next'[a] = next[a]
      BY <1>2, <1>3, <2>1, <2>2
    <3> QED
      BY <3>1, <3>2, <1>2, <1>5, ListsStay
  <2>4. Entered(c)' <=> Entered(c)
    BY <1>5 DEF Entered
  <2>5. \A d \in Client \ {c} : pc[d] \in {"next", "exchange"} => next'[node[d]] = next[node[d]]
    BY <1>4, <2>1 DEF Reading
  <2>6. pc'[c] \notin Reading
    BY <2>2 DEF Reading
  <2>7. PopCountInv(s, w, k)'
    BY <1>1, <1>4, <1>5, <2>2, <2>3, <2>4, <2>5, <2>6, PopCountKeeps
  <2> QED
    BY <2>7, <1>5
<1>6. CASE BaseInv(<<node[c]>> \o s)' /\ Effect(s, <<node[c]>> \o s) /\ pc' = [pc EXCEPT ![c] = "idle"] /\ UNCHANGED next
  <2> DEFINE r == <<n>> \o s
  <2>1. (<<node[c]>> \o s)' = r
    BY <1>0, <1>1
  <2>2. Becomes(s, r)
    <3>1. BaseInv(r)'
      BY <2>1, <1>6, <1>1 DEF BaseInv, StackIs, ValuesInv, Leads, At, Elems, Once
    <3>2. Effect(s, r)
      BY <1>6, <1>1
    <3> QED
      BY <3>1, <3>2 DEF Becomes
  <2>3. Elems(r) = Elems(s) \cup {n}
    <3>1. s \in Seq(Address) /\ n \in Address
      BY <1>0, <1>1 DEF BaseInv, StackIs, Leads
    <3> QED
      BY <3>1, PushElems
  <2> HIDE DEF r
  <2>4. /\ pc'[c] = "idle" /\ \A d \in Client : d # c => pc'[d] = pc[d]
    BY <1>6 DEF BaseInv, TypeInv
  <2>5. Kept(c)' = {} /\ Has(c, k[c])' = {}
    BY <2>4, <1>2 DEF Kept, Has, Elems
  <2>6. PopCountLists(r, w, k)'
    <3>1. PICK S, W, O, T : S = Elems(s) /\ W = Elems(w) /\ O = {n} /\ T = S \cup {n}
      OBVIOUS
    <3>2. /\ S \subseteq live /\ W \subseteq live \ S /\ n \in live \ (S \cup W)
      BY <3>1, <1>2, <1>3
    <3>3. /\ T \cap W = {} /\ T \cap {} = {} /\ W \cap {} = {}
          /\ (T \cup W \cup {}) \cap live \subseteq S \cup W \cup O
          /\ live' = (live \ (S \cup W \cup O)) \cup T \cup W \cup {}
      BY <3>1, <3>2, <1>0
    <3>4. Leads(to_be_deleted, w)'
      BY <1>2, <1>6, WaitingStays
    <3>5. \A d \in Client \ {c} : /\ pc'[d] = pc[d] /\ node'[d] = node[d]
                                  /\ nodes'[d] = nodes[d] /\ second'[d] = second[d]
      BY <1>0, <2>4
    <3>6. pc'[c] \notin Listed \cup Chaining
      BY <2>4 DEF Listed, Chaining
    <3>7. T = Elems(r) /\ O = Has(c, k[c]) /\ live' \in SUBSET Address
      BY <3>1, <2>3, <1>0, <1>2, <1>3
    <3> QED
      BY <3>1, <3>3, <3>4, <3>5, <3>6, <3>7, <2>5, <1>2, <1>6, ListsMove
  <2>7. ~Entered(c) /\ ~Entered(c)'
    BY <2>4, <1>0 DEF Entered
  <2>8. pc'[c] \notin Reading \cup Excluding /\ pc'[c] # "push" /\ pc'[c] # "exchange"
    BY <2>4 DEF Reading, Excluding
  <2>9. \A d \in Client \ {c} : pc[d] = "exchange" /\ node[d] \in Elems(r) => node[d] \in Elems(s)
    BY <2>3, <1>4 DEF Reading
  <2>10. PopCountInv(r, w, k)'
    BY <2>4, <2>6, <2>7, <2>8, <2>9, <1>0, <1>4, <1>6, PopCountKeeps
  <2> QED
    BY <2>2, <2>10
<1> QED
  BY <1>5, <1>6, PushExchangeKeeps

LEMMA PopCountEnter ==
    ASSUME NEW s, NEW w, NEW k, BaseInv(s), PopCountInv(s, w, k), PopShape', NEW c \in Client,
           PopCount!PopEnter(c)
    PROVE  Becomes(s, s) /\ PopCountInv(s, w, k)'
<1>1. /\ pc[c] = "idle" /\ todo[c] # <<>> /\ Head(todo[c]) = Empty
      /\ pc' = [pc EXCEPT ![c] = "load"]
      /\ threads_in_pop' = threads_in_pop + 1
      /\ UNCHANGED <<head, next, data, live, todo, node, got, fault,
                     to_be_deleted, second, nodes, initial>>
  BY DEF PopCount!PopEnter, PopCount!Calls, PopCount!To, PopCount!Empty, Empty
<1>2. Popping(c)
  BY <1>1, PlacesAre DEF Popping, BaseInv, TypeInv
<1>3. Becomes(s, s)
  BY <1>1, <1>2, PopKeeps DEF BaseInv, TypeInv, Typed, Spared, Untouched, StackIs, Answers
<1>4. pc'[c] = "load" /\ \A d \in Client \ {c} : pc'[d] = pc[d]
  BY <1>1 DEF BaseInv, TypeInv
<1>5. k \in [Client -> Seq(Address)] /\ k[c] = <<>> /\ Has(c, k[c]) = Kept(c) /\ Elems(k[c]) = {}
  BY <1>1, PopCountFacts DEF Listed, Chaining
<1>6. PopCountLists(s, w, k)'
  <2>1. Kept(c) = {} /\ Kept(c)' = {} /\ Has(c, k[c])' = Has(c, k[c])
    BY <1>1, <1>4, <1>5 DEF Kept, Has, Elems
  <2>2. pc'[c] \notin Listed \cup Chaining
    BY <1>4 DEF Listed, Chaining
  <2> QED
    BY <2>1, <2>2, <1>1, <1>4, <1>5, ListsStay
<1>7. ~Entered(c) /\ Entered(c)'
  BY <1>1, <1>4 DEF Entered
<1>8. pc'[c] \notin Reading \cup Excluding /\ pc'[c] # "push" /\ pc'[c] # "exchange"
  BY <1>4 DEF Reading, Excluding
<1>9. \A d \in Client : pc[d] \in Reading => node[d] \in live
  BY DEF PopCountInv
<1>10. PopCountInv(s, w, k)'
  BY <1>1, <1>4, <1>6, <1>7, <1>8, <1>9, PopCountKeeps
<1> QED
  BY <1>3, <1>10

(* The head is read again: a null one ends the loop.                        *)
LEMMA PopCountReload ==
    ASSUME NEW s, NEW w, NEW k, BaseInv(s), PopCountInv(s, w, k), PopShape', NEW c \in Client,
           pc[c] \in {"load", "exchange"}, PopCount!Reload(c),
           UNCHANGED <<head, next, data, live, todo, threads_in_pop, to_be_deleted, nodes, initial>>,
           \A d \in Client \ {c} : second'[d] = second[d]
    PROVE  Becomes(s, s) /\ PopCountInv(s, w, k)'
<1>1. /\ node' = [node EXCEPT ![c] = head.ptr]
      /\ pc' = [pc EXCEPT ![c] = IF head.ptr = Null THEN "alone" ELSE "next"]
      /\ got' = [got EXCEPT ![c] = IF head.ptr = Null THEN Empty ELSE @]
  BY DEF PopCount!Reload, PopCount!Holds, PopCount!To, PopCount!Empty, Empty
<1>2. head.ptr \in Address \cup {Null} /\ Empty \in Entries
  BY DEF BaseInv, TypeInv, Refs, Entries
<1>3. /\ node'[c] = head.ptr /\ pc'[c] = (IF head.ptr = Null THEN "alone" ELSE "next")
      /\ \A d \in Client \ {c} : pc'[d] = pc[d] /\ node'[d] = node[d]
  BY <1>1 DEF BaseInv, TypeInv
<1>4. Becomes(s, s)
  <2>1. Popping(c)
    BY <1>1, <1>2, PlacesAre DEF Popping, BaseInv, TypeInv
  <2>2. got' \in [Client -> Entries]
    BY <1>1, <1>2 DEF BaseInv, TypeInv
  <2>3. Answers
    <3>1. CASE head.ptr = Null
      <4>1. got' = [got EXCEPT ![c] = Empty]
        BY <1>1, <3>1
      <4> QED
        BY <3>1, <4>1 DEF Answers
    <3>2. CASE head.ptr # Null
      <4>1. got \in [Client -> Entries] /\ got' = [got EXCEPT ![c] = @]
        BY <1>1, <3>2 DEF BaseInv, TypeInv
      <4>2. got' = got
        BY <4>1
      <4> QED
        BY <4>2 DEF Answers
    <3> QED
      BY <3>1, <3>2
  <2> QED
    BY <2>1, <2>2, <2>3, PopKeeps DEF BaseInv, TypeInv, Typed, Spared, Untouched, StackIs
<1>5. k \in [Client -> Seq(Address)] /\ k[c] = <<>> /\ Has(c, k[c]) = Kept(c) /\ Elems(k[c]) = {}
  BY PopCountFacts DEF Listed, Chaining
<1>6. PopCountLists(s, w, k)'
  <2>1. Kept(c) = {} /\ Kept(c)' = {}
    BY <1>3 DEF Kept
  <2>2. Has(c, k[c])' = Has(c, k[c])
    BY <2>1, <1>5 DEF Has, Elems
  <2>3. pc'[c] \notin Listed \cup Chaining
    BY <1>3 DEF Listed, Chaining
  <2> QED
    BY <2>1, <2>2, <2>3, <1>3, <1>5, ListsStay
<1>7. Entered(c)' <=> Entered(c)
  BY <1>3 DEF Entered
<1>8. pc'[c] \notin Excluding /\ pc'[c] # "push" /\ pc'[c] # "exchange"
  BY <1>3 DEF Excluding
<1>9. \A d \in Client : pc[d] \in Reading => node[d] \in live
  BY DEF PopCountInv
<1>10. ASSUME pc'[c] \in Reading
       PROVE  /\ node'[c] \in live
              /\ \A d \in Client \ {c} : pc[d] = "push" \/ pc[d] \in Excluding => node[d] # node'[c]
  <2>1. head.ptr # Null
    BY <1>3, <1>10 DEF Reading
  <2>2. head.ptr \in Elems(s) /\ head.ptr \in live
    BY <2>1, FirstOf DEF BaseInv, StackIs
  <2>3. ASSUME NEW d \in Client \ {c}, pc[d] = "push" \/ pc[d] \in Excluding, node[d] = head.ptr
        PROVE  FALSE
    <3>1. node[d] \in Kept(d)
      BY <2>1, <2>3 DEF Kept, Excluding
    <3>2. node[d] \in Has(d, k[d])
      BY <3>1 DEF Has
    <3> QED
      BY <3>2, <2>2, <2>3, PopCountFacts
  <2> QED
    BY <2>2, <2>3, <1>3
<1>11. PopCountInv(s, w, k)'
  BY <1>3, <1>6, <1>7, <1>8, <1>9, <1>10, PopCountKeeps
<1> QED
  BY <1>4, <1>11

LEMMA PopCountNext ==
    ASSUME NEW s, NEW w, NEW k, BaseInv(s), PopCountInv(s, w, k), PopShape', NEW c \in Client,
           PopCount!PopNext(c)
    PROVE  Becomes(s, s) /\ PopCountInv(s, w, k)'
<1>1. /\ pc[c] = "next" /\ pc' = [pc EXCEPT ![c] = "exchange"]
      /\ second' = [second EXCEPT ![c] = next[node[c]]]
      /\ UNCHANGED <<head, next, data, live, todo, node, got, fault,
                     threads_in_pop, to_be_deleted, nodes, initial>>
  BY DEF PopCount!PopNext, PopCount!To
<1>2. Becomes(s, s)
  <2>1. Popping(c)
    BY <1>1, PlacesAre DEF Popping, BaseInv, TypeInv
  <2> QED
    BY <2>1, <1>1, PopKeeps DEF BaseInv, TypeInv, Typed, Spared, Untouched, StackIs, Answers
<1>3. /\ pc'[c] = "exchange" /\ second'[c] = next[node[c]]
      /\ \A d \in Client \ {c} : pc'[d] = pc[d] /\ second'[d] = second[d]
  BY <1>1 DEF PopCountInv, PopShape
<1>4. k \in [Client -> Seq(Address)] /\ k[c] = <<>> /\ Has(c, k[c]) = Kept(c) /\ Elems(k[c]) = {}
  BY <1>1, PopCountFacts DEF Listed, Chaining
<1>5. PopCountLists(s, w, k)'
  <2>1. Kept(c) = {} /\ Kept(c)' = {}
    BY <1>1, <1>3 DEF Kept
  <2>2. Has(c, k[c])' = Has(c, k[c])
    BY <2>1, <1>4 DEF Has, Elems
  <2>3. pc'[c] \notin Listed \cup Chaining
    BY <1>3 DEF Listed, Chaining
  <2> QED
    BY <2>1, <2>2, <2>3, <1>1, <1>3, <1>4, ListsStay
<1>6. Entered(c)' <=> Entered(c)
  BY <1>1, <1>3 DEF Entered
<1>7. pc'[c] \notin Excluding /\ pc'[c] # "push" /\ pc[c] \in Reading
  BY <1>1, <1>3 DEF Excluding, Reading
<1>8. \A d \in Client : pc[d] \in Reading =>
          /\ node[d] \in live
          /\ \A e \in Client : pc[e] = "push" \/ pc[e] \in Excluding => node[e] # node[d]
  BY DEF PopCountInv
<1>9. PopCountInv(s, w, k)'
  BY <1>1, <1>3, <1>5, <1>6, <1>7, <1>8, PopCountKeeps
<1> QED
  BY <1>2, <1>9

LEMMA PopCountTake ==
    ASSUME NEW s, NEW w, NEW k, BaseInv(s), PopCountInv(s, w, k), PopShape', NEW c \in Client,
           PopCount!PopExchange(c), head.ptr = node[c]
    PROVE  Becomes(s, Tail(s)) /\ PopCountInv(Tail(s), w, k)'
<1>1. /\ pc[c] = "exchange" /\ head' = second[c] /\ pc' = [pc EXCEPT ![c] = "alone"]
      /\ got' = [got EXCEPT ![c] = data[node[c]]]
      /\ second' = [second EXCEPT ![c] = NullRef]
      /\ UNCHANGED <<next, data, live, todo, node, fault, threads_in_pop, to_be_deleted, nodes, initial>>
  BY DEF PopCount!PopExchange, PopCount!To, PopCount!NullRef, NullRef
<1>2. PICK n : n = node[c]
  OBVIOUS
<1>3. n \in live /\ n \in Address /\ n # Null /\ n \in Elems(s) /\ head' = next[head.ptr]
  <2>1. n \in live /\ n \in Address /\ n # Null
    BY <1>1, <1>2, AddressAssumption DEF PopCountInv, Reading, BaseInv, TypeInv
  <2>2. n \in Elems(s)
    BY <2>1, <1>2, FirstOf DEF BaseInv, StackIs
  <2> QED
    BY <2>1, <2>2, <1>1, <1>2 DEF PopCountInv
<1>4. Becomes(s, Tail(s))
  <2>1. Popping(c)
    BY <1>1, PlacesAre DEF Popping, BaseInv, TypeInv
  <2>2. Typed
    BY <1>1, <1>2, <1>3 DEF Typed, BaseInv, TypeInv
  <2>3. head.ptr # Null
    BY <1>2, <1>3
  <2> QED
    BY <2>1, <2>2, <2>3, <1>1, <1>3, PopTakes
<1>5. Elems(Tail(s)) = Elems(s) \ {n}
  <2>1. PICK h : h = head
    OBVIOUS
  <2> QED
    BY <2>1, <1>2, <1>3, TailLeads DEF BaseInv, StackIs
<1>6. /\ pc'[c] = "alone" /\ \A d \in Client \ {c} : pc'[d] = pc[d] /\ second'[d] = second[d]
  BY <1>1 DEF BaseInv, TypeInv, PopCountInv, PopShape
<1>7. /\ k \in [Client -> Seq(Address)] /\ k[c] = <<>> /\ Has(c, k[c]) = {} /\ Has(c, k[c])' = {n}
      /\ Kept(c)' \cap Elems(k[c]) = {} /\ Leads(to_be_deleted, w)'
      /\ Elems(s) \subseteq live /\ Elems(w) \subseteq live \ Elems(s) /\ live \in SUBSET Address
      /\ PopCountLists(s, w, k)
  <2>1. /\ k \in [Client -> Seq(Address)] /\ k[c] = <<>> /\ Has(c, k[c]) = Kept(c) /\ Elems(k[c]) = {}
        /\ Leads(to_be_deleted, w) /\ Elems(s) \subseteq live /\ Elems(w) \subseteq live \ Elems(s)
        /\ live \in SUBSET Address /\ PopCountLists(s, w, k)
    BY <1>1, PopCountFacts DEF Listed, Chaining
  <2>2. Kept(c) = {} /\ Kept(c)' = {n}
    BY <1>1, <1>2, <1>3, <1>6 DEF Kept
  <2>3. Has(c, k[c])' = {n}
    BY <2>1, <2>2 DEF Has, Elems
  <2>4. Leads(to_be_deleted, w)'
    BY <2>1, <1>1, WaitingStays
  <2> QED
    BY <2>1, <2>2, <2>3, <2>4
<1>8. PopCountLists(Tail(s), w, k)'
  <2>1. PICK S, W, T : S = Elems(s) /\ W = Elems(w) /\ T = S \ {n}
    OBVIOUS
  <2>2. PICK O, P : O = {} /\ P = {n}
    OBVIOUS
  <2>3. /\ T \cap W = {} /\ T \cap P = {} /\ W \cap P = {}
        /\ (T \cup W \cup P) \cap live \subseteq S \cup W \cup O
        /\ live' = (live \ (S \cup W \cup O)) \cup T \cup W \cup P
        /\ T = Elems(Tail(s)) /\ O = Has(c, k[c]) /\ P = Has(c, k[c])' /\ live' \in SUBSET Address
    BY <2>1, <2>2, <1>1, <1>3, <1>5, <1>7
  <2>4. pc'[c] \notin Listed \cup Chaining
    BY <1>6 DEF Listed, Chaining
  <2> QED
    BY <2>1, <2>3, <2>4, <1>1, <1>6, <1>7, ListsMove
<1>9. Entered(c)' <=> Entered(c)
  BY <1>1, <1>6 DEF Entered
<1>10. pc'[c] \notin Reading \cup Excluding /\ pc'[c] # "push" /\ pc'[c] # "exchange"
  BY <1>6 DEF Reading, Excluding
<1>11. \A d \in Client : pc[d] \in Reading => node[d] \in live
  BY DEF PopCountInv
<1>12. PopCountInv(Tail(s), w, k)'
  BY <1>1, <1>5, <1>6, <1>8, <1>9, <1>10, <1>11, PopCountKeeps
<1> QED
  BY <1>4, <1>12

(* One more in pop() than threads_in_pop was at first: only c is there.     *)
LEMMA OnlyOne ==
    ASSUME PopShape, initial >= 0, threads_in_pop = initial + Cardinality(InPop), threads_in_pop = 1,
           NEW c \in Client, Entered(c)
    PROVE  \A d \in Client \ {c} : pc[d] \notin Reading
<1>1. InPop \ {c} = {}
  <2>1. c \in InPop
    BY DEF InPop
  <2>2. Cardinality(InPop) \in Nat /\ Cardinality(InPop) <= 1 /\ IsFiniteSet(InPop)
    BY InPopFinite DEF PopShape
  <2>3. IsFiniteSet(InPop \ {c}) /\ Cardinality(InPop \ {c}) = Cardinality(InPop) - 1
    BY <2>1, <2>2, FS_RemoveElement
  <2>4. Cardinality(InPop \ {c}) \in Nat
    BY <2>3, FS_CardinalityType
  <2>5. Cardinality(InPop \ {c}) = 0
    BY <2>2, <2>3, <2>4
  <2> QED
    BY <2>3, <2>5, FS_EmptySet
<1>2. ASSUME NEW d \in Client \ {c}, pc[d] \in Reading PROVE FALSE
  <2>1. d \in InPop
    BY <1>2 DEF InPop, Entered, Reading
  <2> QED
    BY <2>1, <1>1
<1> QED
  BY <1>2

LEMMA PopCountAlone ==
    ASSUME NEW s, NEW w, NEW k, BaseInv(s), PopCountInv(s, w, k), PopShape', NEW c \in Client,
           PopCount!Alone(c)
    PROVE  Becomes(s, s) /\ PopCountInv(s, w, k)'
<1>1. /\ pc[c] = "alone" /\ pc' = [pc EXCEPT ![c] = IF threads_in_pop = 1 THEN "claim" ELSE "chain"]
      /\ UNCHANGED <<head, next, data, live, todo, node, got, fault,
                     threads_in_pop, to_be_deleted, second, nodes, initial>>
  BY DEF PopCount!Alone, PopCount!To, PopCount!countVars
<1>2. Becomes(s, s)
  <2>1. Popping(c)
    BY <1>1, PlacesAre DEF Popping, BaseInv, TypeInv
  <2> QED
    BY <2>1, <1>1, PopKeeps DEF BaseInv, TypeInv, Typed, Spared, Untouched, StackIs, Answers
<1>3. /\ pc'[c] \in {"claim", "chain"} /\ (pc'[c] = "claim" => threads_in_pop = 1)
      /\ \A d \in Client \ {c} : pc'[d] = pc[d]
  BY <1>1 DEF BaseInv, TypeInv
<1>4. k \in [Client -> Seq(Address)] /\ k[c] = <<>> /\ Has(c, k[c]) = Kept(c) /\ Elems(k[c]) = {}
  BY <1>1, PopCountFacts DEF Listed, Chaining
<1>5. PopCountLists(s, w, k)'
  <2>1. Kept(c)' = Kept(c)
    BY <1>1, <1>3 DEF Kept
  <2>2. Has(c, k[c])' = Has(c, k[c])
    BY <2>1, <1>4 DEF Has, Elems
  <2>3. pc'[c] \notin Listed \cup Chaining
    BY <1>3 DEF Listed, Chaining
  <2> QED
    BY <2>1, <2>2, <2>3, <1>1, <1>3, <1>4, ListsStay
<1>6. Entered(c) /\ Entered(c)'
  BY <1>1, <1>3 DEF Entered
<1>7. pc'[c] \notin Reading /\ pc'[c] # "push" /\ pc'[c] # "exchange"
  BY <1>3 DEF Reading
<1>8. \A d \in Client \ {c} : pc[d] \in Reading => node[d] \in live /\ pc'[c] \notin Excluding
  <2>1. pc'[c] \in Excluding => threads_in_pop = 1
    BY <1>3 DEF Excluding
  <2> QED
    BY <2>1, <1>6, OnlyOne DEF PopCountInv
<1>9. PopCountInv(s, w, k)'
  BY <1>1, <1>3, <1>5, <1>6, <1>7, <1>8, PopCountKeeps
<1> QED
  BY <1>2, <1>9

LEMMA PopCountClaim ==
    ASSUME NEW s, NEW w, NEW k, BaseInv(s), PopCountInv(s, w, k), PopShape', NEW c \in Client,
           PopCount!Claim(c)
    PROVE  Becomes(s, s) /\ PopCountInv(s, <<>>, [k EXCEPT ![c] = w])'
<1>1. /\ pc[c] = "claim" /\ pc' = [pc EXCEPT ![c] = "leave"]
      /\ nodes' = [nodes EXCEPT ![c] = to_be_deleted] /\ to_be_deleted' = NullRef
      /\ UNCHANGED <<head, next, data, live, todo, node, got, fault, threads_in_pop, second, initial>>
  BY DEF PopCount!Claim, PopCount!To, PopCount!NullRef, NullRef
<1>2. Becomes(s, s)
  <2>1. Popping(c)
    BY <1>1, PlacesAre DEF Popping, BaseInv, TypeInv
  <2> QED
    BY <2>1, <1>1, PopKeeps DEF BaseInv, TypeInv, Typed, Spared, Untouched, StackIs, Answers
<1>3. /\ pc'[c] = "leave" /\ nodes'[c] = to_be_deleted
      /\ \A d \in Client \ {c} : pc'[d] = pc[d] /\ nodes'[d] = nodes[d]
  BY <1>1 DEF BaseInv, TypeInv, PopCountInv, PopShape
<1>4. /\ k \in [Client -> Seq(Address)] /\ k[c] = <<>> /\ Has(c, k[c]) = Kept(c) /\ Elems(k[c]) = {}
      /\ Leads(to_be_deleted, w) /\ Elems(s) \subseteq live /\ Elems(w) \subseteq live \ Elems(s)
      /\ live \in SUBSET Address /\ PopCountLists(s, w, k)
      /\ Kept(c) \subseteq live \ (Elems(s) \cup Elems(w))
  <2>1. pc[c] \notin Listed \cup Chaining
    BY <1>1 DEF Listed, Chaining
  <2>2. /\ PopCountLists(s, w, k) /\ k \in [Client -> Seq(Address)]
        /\ live \in SUBSET Address /\ Elems(s) \subseteq live /\ Elems(w) \subseteq live \ Elems(s)
        /\ Leads(to_be_deleted, w) /\ Has(c, k[c]) \subseteq live \ (Elems(s) \cup Elems(w))
    BY PopCountFacts
  <2>3. k[c] = <<>> /\ Has(c, k[c]) = Kept(c) /\ Elems(k[c]) = {}
    BY <2>1, PopCountFacts
  <2> QED
    BY <2>2, <2>3
<1> DEFINE m == [k EXCEPT ![c] = w]
<1>5. /\ w \in Seq(Address) /\ m \in [Client -> Seq(Address)] /\ m[c] = w
      /\ \A d \in Client \ {c} : m[d] = k[d]
  BY <1>4 DEF Leads
<1> HIDE DEF m
<1>6. PopCountLists(s, <<>>, m)'
  <2>1. Kept(c)' = Kept(c)
    BY <1>1, <1>3 DEF Kept
  <2>2. PICK t : t = m
    OBVIOUS
  <2>3. Has(c, t[c])' = Kept(c) \cup Elems(w) /\ Kept(c)' \cap Elems(t[c]) = {}
    BY <2>1, <2>2, <1>4, <1>5 DEF Has, Elems
  <2>4. Leads(to_be_deleted, <<>>)' /\ Elems(<<>>) = {}
    <3>1. NullRef.ptr = Null
      BY PopRefFacts
    <3>2. PICK h : h = to_be_deleted'
      OBVIOUS
    <3>3. Leads(h, <<>>)' /\ Elems(<<>>) = {}
      BY <3>1, <3>2, <1>1, EmptyLeads DEF Leads
    <3> QED
      BY <3>2, <3>3 DEF Leads
  <2>5. Leads(nodes[c], t[c])'
    <3>1. PICK h : h = to_be_deleted
      OBVIOUS
    <3>2. Leads(h, w)'
      BY <3>1, <1>1, <1>4, LeadsStays
    <3> QED
      BY <3>1, <3>2, <2>2, <1>3, <1>5 DEF Leads, Once, At
  <2>6. PICK S, W, O : S = Elems(s) /\ W = Elems(w) /\ O = Kept(c)
    OBVIOUS
  <2>7. PICK P, V : P = O \cup W /\ V = {}
    OBVIOUS
  <2>8. /\ S \cap V = {} /\ S \cap P = {} /\ V \cap P = {}
        /\ (S \cup V \cup P) \cap live \subseteq S \cup W \cup O
        /\ live' = (live \ (S \cup W \cup O)) \cup S \cup V \cup P
        /\ O = Has(c, k[c]) /\ P = Has(c, t[c])' /\ V = Elems(<<>>) /\ live' \in SUBSET Address
    BY <2>3, <2>4, <2>6, <2>7, <1>1, <1>4
  <2>9. pc'[c] \in Listed /\ pc'[c] \notin Chaining
    BY <1>3 DEF Listed, Chaining
  <2>10. \A d \in Client \ {c} : /\ t[d] = k[d] /\ pc'[d] = pc[d] /\ node'[d] = node[d]
                                 /\ nodes'[d] = nodes[d] /\ second'[d] = second[d]
    BY <2>2, <1>1, <1>3, <1>5
  <2>11. t \in [Client -> Seq(Address)] /\ \A a \in live : next'[a] = next[a]
    BY <2>2, <1>1, <1>5
  <2>12. PopCountLists(s, <<>>, t)'
    <3>1. Moved(S, W, O, S, V, P)
      BY <2>8, <2>11 DEF Moved
    <3>2. Moved(Elems(s), Elems(w), Has(c, k[c]), Elems(s), Elems(<<>>), Has(c, t[c])')
      BY <3>1, <2>6, <2>8
    <3>3. /\ pc'[c] \in Listed => Leads(nodes[c], t[c])'
          /\ pc'[c] \in Chaining => Chained(nodes[c], second[c], t[c])'
          /\ pc'[c] \notin Listed \cup Chaining => t[c] = <<>>
      BY <2>5, <2>9
    <3>4. PICK e : e = <<>>
      OBVIOUS
    <3>5. Leads(to_be_deleted, e)'
      BY <2>4, <3>4 DEF Leads, Once, At
    <3>6. Moved(Elems(s), Elems(w), Has(c, k[c]), Elems(s), Elems(e), Has(c, t[c])')
      BY <3>2, <3>4
    <3>7. Kept(c)' \cap Elems(t[c]) = {} /\ live' \in SUBSET Address /\ PopCountLists(s, w, k)
      BY <2>3, <2>8, <1>4
    <3>8. PopCountLists(s, e, t)'
      BY <3>3, <3>5, <3>6, <3>7, <2>10, <2>11, ListsMoved
    <3> QED
      BY <3>4, <3>8 DEF PopCountLists, Leads, Once, At, Elems
  <2> QED
    BY <2>2, <2>12
<1>7. Entered(c) /\ Entered(c)'
  BY <1>1, <1>3 DEF Entered
<1>8. pc'[c] \notin Reading /\ pc'[c] # "push" /\ pc'[c] # "exchange" /\ pc[c] \in Excluding
  BY <1>1, <1>3 DEF Reading, Excluding
<1>9. \A d \in Client \ {c} : pc[d] \in Reading => node[d] \in live /\ node[c] # node[d]
  BY <1>8 DEF PopCountInv
<1>10. PopCountInv(s, <<>>, m)'
  BY <1>1, <1>3, <1>6, <1>7, <1>8, <1>9, PopCountKeeps
<1> QED
  BY <1>2, <1>10 DEF m

(* The end of a pop(): c gives up all that it has, and nobody reads it.     *)
LEMMA PopCountGone ==
    ASSUME NEW s, NEW w, NEW k, BaseInv(s), PopCountInv(s, w, k), PopShape', NEW c \in Client,
           pc[c] \notin {"idle", "push"}, PopCount!Forget(c), PopCount!Returns(c),
           live' = live \ Has(c, k[c]),
           \A a \in live \ Has(c, k[c]) : next'[a] = next[a] /\ data'[a] = data[a],
           UNCHANGED <<head, got, fault, to_be_deleted, second, initial>>,
           \A d \in Client \ {c} : pc[d] \in Reading => node[d] \notin Has(c, k[c]),
           \/ Entered(c) /\ threads_in_pop' = threads_in_pop - 1
           \/ ~Entered(c) /\ UNCHANGED threads_in_pop
    PROVE  Becomes(s, s) /\ \E m : PopCountInv(s, w, m)'
<1>1. /\ pc' = [pc EXCEPT ![c] = "idle"] /\ todo' = [todo EXCEPT ![c] = Tail(@)]
      /\ nodes' = [nodes EXCEPT ![c] = NullRef] /\ node' = [node EXCEPT ![c] = Null]
  BY DEF PopCount!Forget, PopCount!Returns, PopCount!To, PopCount!Holds, PopCount!NullRef, NullRef
<1>2. /\ PopCountLists(s, w, k) /\ k \in [Client -> Seq(Address)]
      /\ live \in SUBSET Address /\ Elems(s) \subseteq live /\ Elems(w) \subseteq live \ Elems(s)
      /\ Has(c, k[c]) \subseteq live \ (Elems(s) \cup Elems(w))
      /\ Leads(to_be_deleted, w)
  BY PopCountFacts
<1>3. /\ pc'[c] = "idle"
      /\ \A d \in Client \ {c} : pc'[d] = pc[d] /\ node'[d] = node[d] /\ nodes'[d] = nodes[d]
  BY <1>1 DEF BaseInv, TypeInv, PopCountInv, PopShape
<1>4. ASSUME NEW d \in Client, pc[d] = "push"
      PROVE  d # c /\ node[d] \in live \ Has(c, k[c])
  <2>1. d # c /\ node[d] \in Has(d, k[d]) /\ node[d] \in live
    BY <1>4 DEF Has, Kept, BaseInv, StackIs
  <2> QED
    BY <2>1, <1>2 DEF PopCountLists
<1>5. Becomes(s, s)
  <2>1. Popping(c)
    <3>1. todo[c] # <<>> /\ todo[c] \in Seq(Entries)
      BY DEF BaseInv, CallsInv, TypeInv
    <3>2. Tail(todo[c]) \in Seq(Entries)
      BY <3>1
    <3> QED
      BY <3>2, <1>1, PlacesAre DEF Popping, BaseInv, TypeInv
  <2>2. \A a \in live \ Has(c, k[c]) : Untouched(a)
    BY DEF Untouched
  <2>3. Spared(s)
    BY <2>2, <1>2, <1>4 DEF Spared
  <2>4. Typed
    BY DEF Typed, PopShape, TypeInv
  <2> QED
    BY <2>1, <2>3, <2>4, PopKeeps DEF Answers
<1> DEFINE m == [k EXCEPT ![c] = <<>>]
<1>6. /\ m \in [Client -> Seq(Address)] /\ m[c] = <<>> /\ \A d \in Client \ {c} : m[d] = k[d]
  BY <1>2
<1> HIDE DEF m
<1>7. PICK t : t = m
  OBVIOUS
<1>8. PopCountLists(s, w, t)'
  <2>1. Kept(c)' = {}
    BY <1>3 DEF Kept
  <2>2. Elems(t[c]) = {} /\ Has(c, t[c])' = {}
    BY <2>1, <1>6, <1>7 DEF Has, Elems
  <2>3. Leads(to_be_deleted, w)'
    BY <1>2, WaitingStays
  <2>4. PICK S, W, O : S = Elems(s) /\ W = Elems(w) /\ O = Has(c, k[c])
    OBVIOUS
  <2>5. PICK P : P = {}
    OBVIOUS
  <2>6. /\ S \cap W = {} /\ S \cap P = {} /\ W \cap P = {}
        /\ (S \cup W \cup P) \cap live \subseteq S \cup W \cup O
        /\ live' = (live \ (S \cup W \cup O)) \cup S \cup W \cup P
        /\ live' \in SUBSET Address /\ P = Has(c, t[c])'
        /\ \A a \in live \ (S \cup W \cup O) : next'[a] = next[a]
    BY <2>2, <2>4, <2>5, <1>2
  <2>7. pc'[c] \notin Listed \cup Chaining
    BY <1>3 DEF Listed, Chaining
  <2>8. t \in [Client -> Seq(Address)] /\ t[c] = <<>> /\ Kept(c)' \cap Elems(t[c]) = {}
    BY <2>1, <1>6, <1>7
  <2>9. \A d \in Client \ {c} : /\ t[d] = k[d] /\ pc'[d] = pc[d] /\ node'[d] = node[d]
                                /\ nodes'[d] = nodes[d] /\ second'[d] = second[d]
    BY <1>3, <1>6, <1>7
  <2>10. Moved(S, W, O, S, W, P)
    BY <2>6 DEF Moved
  <2>11. Moved(Elems(s), Elems(w), Has(c, k[c]), Elems(s), Elems(w), Has(c, t[c])')
    BY <2>4, <2>6, <2>10
  <2> QED
    BY <2>3, <2>6, <2>7, <2>8, <2>9, <2>11, <1>2, ListsMoved
<1>9. ~Entered(c)'
  BY <1>3 DEF Entered
<1>10. pc'[c] \notin Reading \cup Excluding /\ pc'[c] # "push" /\ pc'[c] # "exchange"
  BY <1>3 DEF Reading, Excluding
<1>11. \A d \in Client \ {c} : pc[d] \in Reading => node[d] \in live' /\ next'[node[d]] = next[node[d]]
  BY DEF PopCountInv
<1>12. PopCountInv(s, w, t)'
  BY <1>3, <1>8, <1>9, <1>10, <1>11, PopCountKeeps DEF Reading
<1> QED
  BY <1>5, <1>12

LEMMA PopCountDecrement ==
    ASSUME NEW s, NEW w, NEW k, BaseInv(s), PopCountInv(s, w, k), PopShape', NEW c \in Client,
           PopCount!Decrement(c)
    PROVE  Becomes(s, s) /\ \E m : PopCountInv(s, w, m)'
<1>1. /\ pc[c] = "decrement" /\ threads_in_pop' = threads_in_pop - 1
      /\ PopCount!Forget(c) /\ PopCount!Returns(c)
      /\ UNCHANGED <<head, next, data, live, got, fault, to_be_deleted, second, initial>>
  BY DEF PopCount!Decrement
<1>2. Has(c, k[c]) = {}
  BY <1>1, PopCountFacts DEF Kept, Listed, Chaining
<1>3. Entered(c)
  BY <1>1 DEF Entered
<1> QED
  BY <1>1, <1>2, <1>3, PopCountGone

LEMMA PopCountDelete ==
    ASSUME NEW s, NEW w, NEW k, BaseInv(s), PopCountInv(s, w, k), PopShape', NEW c \in Client,
           PopCount!DeleteHead(c)
    PROVE  Becomes(s, s) /\ \E m : PopCountInv(s, w, m)'
<1>1. /\ pc[c] = "delete" /\ PopCount!Delete({node[c]})
      /\ PopCount!Forget(c) /\ PopCount!Returns(c)
      /\ UNCHANGED <<head, got, fault, threads_in_pop, to_be_deleted, second, initial>>
  BY DEF PopCount!DeleteHead
<1>2. Has(c, k[c]) = {node[c]} \ {Null} /\ Null \notin live /\ live \in SUBSET Address
  BY <1>1, PopCountFacts DEF Kept, Listed, Chaining
<1>3. /\ live' = live \ {node[c]}
      /\ \A a \in Address \ {node[c]} : next'[a] = next[a] /\ data'[a] = data[a]
  BY <1>1, DeleteTyped DEF PopCountInv
<1>4. ~Entered(c) /\ pc[c] \in Excluding
  BY <1>1 DEF Entered, Excluding
<1>5. \A d \in Client \ {c} : pc[d] \in Reading => node[d] \notin Has(c, k[c])
  BY <1>2, <1>4 DEF PopCountInv
<1> QED
  BY <1>1, <1>2, <1>3, <1>4, <1>5, PopCountGone

(* The list that a client has claimed is the one that it deletes.           *)
LEMMA ListIs ==
    ASSUME NEW ref, NEW t, Leads(ref, t)
    PROVE  PopCount!NodeSet(ref) = Elems(t) /\ PopCount!NodesFrom(ref) = t
<1>1. PopCount!NodesFrom(ref) = t
  BY NodesAre, SameNodes
<1>2. DOMAIN t = 1 .. Len(t)
  BY DEF Leads
<1> QED
  BY <1>1, <1>2 DEF PopCount!NodeSet, Elems

LEMMA PopCountLeave ==
    ASSUME NEW s, NEW w, NEW k, BaseInv(s), PopCountInv(s, w, k), PopShape', NEW c \in Client,
           PopCount!Leave(c)
    PROVE  Becomes(s, s) /\ \E m : PopCountInv(s, w, m)'
<1>1. /\ pc[c] = "leave" /\ threads_in_pop' = threads_in_pop - 1
      /\ UNCHANGED <<head, got, fault, to_be_deleted, second, initial>>
  BY DEF PopCount!Leave
<1>2. /\ Leads(nodes[c], k[c]) /\ Kept(c) = {node[c]} \ {Null} /\ Entered(c) /\ pc[c] \in Excluding
      /\ k \in [Client -> Seq(Address)] /\ Null \notin live /\ live \in SUBSET Address
      /\ Has(c, k[c]) \subseteq live /\ Has(c, k[c]) = Kept(c) \cup Elems(k[c])
      /\ Kept(c) \cap Elems(k[c]) = {}
  <2>1. PopCountLists(s, w, k) /\ pc[c] \in Listed
    BY <1>1 DEF PopCountInv, Listed
  <2> QED
    BY <1>1, <2>1, PopCountFacts DEF PopCountLists, Kept, Entered, Excluding, Has
<1>3. PopCount!NodeSet(nodes[c]) = Elems(k[c])
  BY <1>2, ListIs
<1>4. \A d \in Client \ {c} : pc[d] \in Reading => node[d] \in live /\ node[d] # node[c]
  BY <1>2 DEF PopCountInv
<1>5. CASE threads_in_pop - 1 # 0 /\ nodes[c] # NullRef
  <2>1. pc' = [pc EXCEPT ![c] = "rechain"] /\ UNCHANGED <<next, data, live, nodes, node, todo>>
    BY <1>5 DEF PopCount!Leave, PopCount!To, PopCount!NullRef, NullRef
  <2>2. Becomes(s, s)
    <3>1. Popping(c)
      BY <1>1, <2>1, PlacesAre DEF Popping, BaseInv, TypeInv
    <3> QED
      BY <3>1, <1>1, <2>1, PopKeeps DEF BaseInv, TypeInv, Typed, Spared, Untouched, StackIs, Answers
  <2>3. pc'[c] = "rechain" /\ \A d \in Client \ {c} : pc'[d] = pc[d]
    BY <2>1 DEF BaseInv, TypeInv
  <2>4. PopCountLists(s, w, k)'
    <3>1. Kept(c)' = Kept(c) /\ Has(c, k[c])' = Has(c, k[c])
      BY <1>1, <2>1, <2>3 DEF Kept, Has, Elems
    <3>2. pc'[c] \in Listed /\ pc'[c] \notin Chaining
      BY <2>3 DEF Listed, Chaining
    <3>3. Leads(nodes[c], k[c])'
      BY <1>2, <2>1 DEF Leads, Once, At
    <3> QED
      BY <3>1, <3>2, <3>3, <1>1, <1>2, <2>1, <2>3, ListsStay
  <2>5. ~Entered(c)'
    BY <2>3 DEF Entered
  <2>6. pc'[c] \notin Reading /\ pc'[c] # "push" /\ pc'[c] # "exchange"
    BY <2>3 DEF Reading
  <2>7. PopCountInv(s, w, k)'
    BY <1>1, <1>2, <1>4, <2>1, <2>3, <2>4, <2>5, <2>6, PopCountKeeps
  <2> QED
    BY <2>2, <2>7
<1>6. CASE threads_in_pop - 1 = 0
  <2>1. /\ PopCount!Delete(Elems(k[c]) \cup {node[c]})
        /\ PopCount!Forget(c) /\ PopCount!Returns(c)
    BY <1>3, <1>6 DEF PopCount!Leave
  <2>2. /\ live' = live \ (Elems(k[c]) \cup {node[c]})
        /\ \A a \in Address \ (Elems(k[c]) \cup {node[c]}) : next'[a] = next[a] /\ data'[a] = data[a]
    BY <2>1, DeleteTyped DEF PopCountInv
  <2>3. live' = live \ Has(c, k[c]) /\ \A a \in live \ Has(c, k[c]) : next'[a] = next[a] /\ data'[a] = data[a]
    BY <2>2, <1>2
  <2>4. threads_in_pop = 1
    BY <1>6 DEF PopCountInv, PopShape
  <2>5. \A d \in Client \ {c} : pc[d] \notin Reading
    BY <2>4, <1>2, OnlyOne DEF PopCountInv
  <2> QED
    BY <1>1, <1>2, <2>1, <2>3, <2>5, PopCountGone
<1>7. CASE threads_in_pop - 1 # 0 /\ nodes[c] = NullRef
  <2>1. /\ PopCount!Delete({} \cup {node[c]})
        /\ PopCount!Forget(c) /\ PopCount!Returns(c)
    BY <1>7 DEF PopCount!Leave, PopCount!NullRef, NullRef
  <2>2. /\ live' = live \ ({} \cup {node[c]})
        /\ \A a \in Address \ ({} \cup {node[c]}) : next'[a] = next[a] /\ data'[a] = data[a]
    BY <2>1, DeleteTyped DEF PopCountInv
  <2>3. Elems(k[c]) = {}
    <3>1. nodes[c].ptr = Null /\ k[c] \in Seq(Address) /\ Null \notin Address
      BY <1>2, <1>7, PopRefFacts
    <3>2. k[c] = <<>>
      <4>1. ASSUME Len(k[c]) > 0 PROVE FALSE
        <5>1. 1 \in 1 .. Len(k[c]) /\ k[c][1] \in Address
          BY <3>1, <4>1
        <5> QED
          BY <5>1, <3>1, <1>2 DEF Leads, At
      <4> QED
        BY <4>1, <3>1
    <3> QED
      BY <3>2 DEF Elems
  <2>4. live' = live \ Has(c, k[c]) /\ \A a \in live \ Has(c, k[c]) : next'[a] = next[a] /\ data'[a] = data[a]
    BY <2>2, <2>3, <1>2
  <2>5. \A d \in Client \ {c} : pc[d] \in Reading => node[d] \notin Has(c, k[c])
    BY <2>3, <1>2, <1>4
  <2> QED
    BY <1>1, <1>2, <2>1, <2>4, <2>5, PopCountGone
<1> QED
  BY <1>5, <1>6, <1>7

(* chain_pending_nodes() writes next of its last node: a step of c that     *)
(* writes next of a node that it has, and keeps what it has.                *)
LEMMA PopCountWrites ==
    ASSUME NEW s, NEW w, NEW k, NEW m, BaseInv(s), PopCountInv(s, w, k), PopShape', NEW c \in Client,
           pc[c] # "push", pc[c] # "idle", NEW n \in Has(c, k[c]),
           next' = [next EXCEPT ![n] = to_be_deleted],
           UNCHANGED <<head, data, live, todo, node, got, fault, threads_in_pop, to_be_deleted, initial>>,
           \A d \in Client \ {c} : pc'[d] = pc[d] /\ nodes'[d] = nodes[d] /\ second'[d] = second[d]
                                      /\ m[d] = k[d],
           pc'[c] \in Chaining, Chained(nodes[c], second[c], m[c])', m \in [Client -> Seq(Address)],
           Kept(c)' \cap Elems(m[c]) = {}, Has(c, m[c])' = Has(c, k[c]),
           Entered(c)' <=> Entered(c), pc'[c] \in Excluding => pc[c] \in Excluding
    PROVE  Becomes(s, s) /\ PopCountInv(s, w, m)'
<1>1. Has(c, k[c]) \subseteq live \ (Elems(s) \cup Elems(w)) /\ live \in SUBSET Address
      /\ Elems(s) \subseteq live /\ PopCountLists(s, w, k)
  BY PopCountFacts
<1>2. \A a \in Address \ {n} : next'[a] = next[a]
  BY DEF BaseInv, TypeInv
<1>3. pc'[c] \notin Reading /\ pc'[c] # "push" /\ pc'[c] # "exchange" /\ pc'[c] \notin Listed
  BY DEF Chaining, Reading, Listed
<1>4. ASSUME NEW d \in Client, pc[d] = "push" PROVE node[d] \in live /\ node[d] # n
  <2>1. d # c /\ node[d] \in Has(d, k[d]) /\ node[d] \in live
    BY <1>4 DEF Has, Kept, BaseInv, StackIs
  <2> QED
    BY <2>1, <1>1 DEF PopCountLists
<1>5. Becomes(s, s)
  <2>1. pc'[c] # "idle" /\ pc' \in [Client -> Places]
    BY DEF Chaining, PopShape, TypeInv
  <2>2. Popping(c)
    BY <2>1, <1>3, PlacesAre DEF Popping, BaseInv, TypeInv
  <2>3. Spared(s)
    BY <1>1, <1>2, <1>4 DEF Spared, Untouched
  <2>4. Typed
    BY DEF Typed, PopShape, TypeInv
  <2> QED
    BY <2>2, <2>3, <2>4, PopKeeps DEF Answers
<1>6. PopCountLists(s, w, m)'
  BY <1>1, <1>2, <1>3, ListsStay DEF Chaining, Listed
<1>7. \A d \in Client \ {c} : pc[d] \in Reading =>
          node[d] \in live /\ (pc[c] \in Excluding => node[c] # node[d])
  BY DEF PopCountInv
<1>8. \A d \in Client : node[d] \in Elems(s) => next'[node[d]] = next[node[d]]
  BY <1>1, <1>2
<1>9. \A d \in Client \ {c} : pc'[d] = pc[d] /\ node'[d] = node[d] /\ second'[d] = second[d]
  OBVIOUS
<1>10. \A d \in Client \ {c} : pc[d] \in Reading =>
          /\ node[d] \in live'
          /\ pc'[c] = "push" \/ pc'[c] \in Excluding => node'[c] # node[d]
  BY <1>3, <1>7
<1>11. \A d \in Client \ {c} : pc[d] = "exchange" /\ node[d] \in Elems(s) =>
          node[d] \in Elems(s) /\ next'[node[d]] = next[node[d]]
  BY <1>8
<1>12. (Entered(c)' <=> Entered(c)) /\ threads_in_pop' = threads_in_pop
  OBVIOUS
<1>13. PopCountInv(s, w, m)'
  BY <1>3, <1>6, <1>9, <1>10, <1>11, <1>12, PopCountKeeps
<1> QED
  BY <1>5, <1>13

LEMMA PopCountChainLoad ==
    ASSUME NEW s, NEW w, NEW k, BaseInv(s), PopCountInv(s, w, k), PopShape', NEW c \in Client,
           PopCount!ChainLoad(c), PopCount!Accessed(c) \subseteq live
    PROVE  Becomes(s, s) /\ \E m : PopCountInv(s, w, m)'
<1>1. PICK n, f : n = PopCount!Last(c) /\ f = PopCount!First(c)
  OBVIOUS
<1>2. /\ pc[c] \in {"chain", "rechain"}
      /\ next' = [next EXCEPT ![n] = to_be_deleted]
      /\ nodes' = [nodes EXCEPT ![c] = f]
      /\ second' = [second EXCEPT ![c] = Ref(n)]
      /\ pc' = [pc EXCEPT ![c] = IF pc[c] = "chain" THEN "chained" ELSE "rechained"]
      /\ UNCHANGED <<head, data, live, todo, node, got, fault, threads_in_pop, to_be_deleted, initial>>
  BY <1>1 DEF PopCount!ChainLoad, PopCount!To, PopCount!Ref, Ref
<1>3. /\ pc'[c] = (IF pc[c] = "chain" THEN "chained" ELSE "rechained")
      /\ nodes'[c] = f /\ second'[c] = Ref(n) /\ Ref(n).ptr = n
      /\ \A d \in Client \ {c} : pc'[d] = pc[d] /\ nodes'[d] = nodes[d] /\ second'[d] = second[d]
  BY <1>2 DEF BaseInv, TypeInv, PopCountInv, PopShape, Ref
<1>4. /\ k \in [Client -> Seq(Address)] /\ k[c] \in Seq(Address) /\ PopCountLists(s, w, k)
      /\ live \in SUBSET Address /\ Has(c, k[c]) = Kept(c) \cup Elems(k[c]) /\ Null \notin live
  BY PopCountFacts DEF Has
<1>5. Kept(c) = {node[c]} \ {Null}
  BY <1>2 DEF Kept
<1>6. CASE pc[c] = "chain"
  <2>1. n = node[c] /\ n \in live /\ f = Ref(n) /\ f.ptr = n /\ n \in Address
    <3>1. node[c] \in live
      BY <1>6 DEF PopCount!Accessed
    <3> QED
      BY <3>1, <1>1, <1>4, <1>6 DEF PopCount!Last, PopCount!First, PopCount!Ref, Ref
  <2>2. k[c] = <<>> /\ Has(c, k[c]) = {n}
    <3>1. k[c] = <<>> /\ Has(c, k[c]) = Kept(c)
      BY <1>6, PopCountFacts DEF Listed, Chaining
    <3> QED
      BY <3>1, <2>1, <1>4, <1>5
  <2> DEFINE m == [k EXCEPT ![c] = <<n>>]
  <2>3. /\ m \in [Client -> Seq(Address)] /\ m[c] = <<n>> /\ \A d \in Client \ {c} : m[d] = k[d]
    BY <2>1, <1>4
  <2>4. <<n>> \in Seq(Address) /\ Len(<<n>>) = 1 /\ <<n>>[1] = n /\ Once(<<n>>) /\ Elems(<<n>>) = {n}
        /\ <<n>> # <<>> /\ 1 .. Len(<<n>>) - 1 = {}
    <3>1. <<n>> \in Seq(Address) /\ Len(<<n>>) = 1 /\ <<n>>[1] = n
      BY <2>1
    <3>2. \A i \in 1 .. Len(<<n>>) : i = 1
      BY <3>1
    <3>3. Once(<<n>>)
      BY <3>2 DEF Once
    <3>4. 1 \in 1 .. Len(<<n>>) /\ \A i \in 1 .. Len(<<n>>) : <<n>>[i] = n
      BY <3>1, <3>2
    <3>5. Elems(<<n>>) = {n}
      BY <3>1, <3>4 DEF Elems
    <3> QED
      BY <3>1, <3>3, <3>5
  <2> HIDE DEF m
  <2>5. PICK t : t = m
    OBVIOUS
  <2>6. Chained(nodes[c], second[c], t[c])'
    BY <2>1, <2>3, <2>4, <2>5, <1>3 DEF Chained, Once
  <2>7. pc'[c] = "chained" /\ Kept(c)' = {} /\ Has(c, t[c])' = {n}
    <3>1. pc'[c] = "chained" /\ Kept(c)' = {}
      BY <1>3, <1>6 DEF Kept
    <3>2. t[c] = <<n>>
      BY <2>3, <2>5
    <3>3. Elems(t[c]) = {n} /\ Elems(t[c])' = Elems(t[c])
      BY <3>2, <2>4 DEF Elems
    <3> QED
      BY <3>1, <3>3 DEF Has
  <2>8. pc'[c] \in Chaining /\ pc'[c] \notin Excluding /\ Entered(c) /\ Entered(c)'
    BY <2>7, <1>6 DEF Chaining, Excluding, Entered
  <2>9. Becomes(s, s) /\ PopCountInv(s, w, t)'
    <3>1. n \in Has(c, k[c]) /\ Has(c, t[c])' = Has(c, k[c]) /\ Kept(c)' \cap Elems(t[c]) = {}
      BY <2>2, <2>7
    <3>2. pc[c] # "push" /\ pc[c] # "idle"
      BY <1>6
    <3>3. t \in [Client -> Seq(Address)] /\ \A d \in Client \ {c} : /\ pc'[d] = pc[d] /\ t[d] = k[d]
                                           /\ nodes'[d] = nodes[d] /\ second'[d] = second[d]
      BY <2>3, <2>5, <1>3
    <3>4. (Entered(c)' <=> Entered(c)) /\ (pc'[c] \in Excluding => pc[c] \in Excluding)
      BY <2>8
    <3>5. pc'[c] \in Chaining /\ PopShape'
      BY <2>8
    <3>6. /\ next' = [next EXCEPT ![n] = to_be_deleted]
          /\ UNCHANGED <<head, data, live, todo, node, got, fault, threads_in_pop, to_be_deleted, initial>>
      BY <1>2
    <3> QED
      BY <3>1, <3>2, <3>3, <3>4, <3>5, <3>6, <2>6, PopCountWrites
  <2> QED
    BY <2>9
<1>7. CASE pc[c] = "rechain"
  <2>1. Leads(nodes[c], k[c]) /\ Kept(c) \cap Elems(k[c]) = {}
    BY <1>4, <1>7 DEF PopCountLists, Listed
  <2>2. f = nodes[c] /\ n = k[c][Len(k[c])]
    <3>1. PopCount!NodesFrom(nodes[c]) = k[c]
      BY <2>1, ListIs
    <3> QED
      BY <3>1, <1>1, <1>7 DEF PopCount!First, PopCount!Last
  <2>3. /\ Len(k[c]) \in Nat /\ Len(k[c]) > 0 /\ k[c] # <<>> /\ nodes[c].ptr = k[c][1]
        /\ Len(k[c]) \in 1 .. Len(k[c])
    <3>1. nodes[c].ptr # Null
      BY <1>7, PopRefFacts, AddressAssumption DEF PopCountInv, PopShape
    <3> QED
      BY <3>1, <2>1, FirstOf DEF BaseInv
  <2>4. n \in Elems(k[c]) /\ n \in Has(c, k[c])
    BY <2>2, <2>3, <1>4 DEF Elems
  <2>5. ASSUME NEW i \in 1 .. Len(k[c]) - 1 PROVE next'[k[c][i]].ptr = k[c][i + 1]
    <3>1. i \in 1 .. Len(k[c]) /\ i + 1 \in 1 .. Len(k[c]) /\ i # Len(k[c])
      BY <2>3, <2>5
    <3>2. k[c][i] # n /\ k[c][i] \in Address
      BY <3>1, <2>1, <2>2, <2>3 DEF Leads, Once
    <3>3. next'[k[c][i]] = next[k[c][i]]
      BY <3>2, <1>2 DEF BaseInv, TypeInv
    <3> QED
      BY <3>1, <3>3, <2>1 DEF Leads, At
  <2>6. Chained(nodes[c], second[c], k[c])'
    <3>1. Once(k[c])'
      BY <2>1 DEF Leads, Once
    <3> QED
      BY <3>1, <2>2, <2>3, <2>5, <1>3, <1>4 DEF Chained
  <2>7. pc'[c] = "rechained" /\ Kept(c)' = Kept(c) /\ Has(c, k[c])' = Has(c, k[c])
    <3>1. pc'[c] = "rechained" /\ Kept(c)' = Kept(c)
      BY <1>2, <1>3, <1>7 DEF Kept
    <3> QED
      BY <3>1 DEF Has, Elems
  <2>8. pc'[c] \in Chaining /\ pc[c] \in Excluding /\ ~Entered(c) /\ ~Entered(c)'
    BY <2>7, <1>7 DEF Chaining, Excluding, Entered
  <2>9. Becomes(s, s) /\ PopCountInv(s, w, k)'
    BY <2>1, <2>4, <2>6, <2>7, <2>8, <1>2, <1>3, <1>4, PopCountWrites
  <2> QED
    BY <2>9
<1> QED
  BY <1>2, <1>6, <1>7

(* A chained list put before the nodes to be deleted.                       *)
LEMMA JoinLeads ==
    ASSUME NEW ref, NEW last, NEW t, Chained(ref, last, t), NEW rest, NEW w, Leads(rest, w),
           next[last.ptr].ptr = rest.ptr, Elems(t) \cap Elems(w) = {}
    PROVE  Leads(ref, t \o w) /\ Elems(t \o w) = Elems(t) \cup Elems(w)
<1> DEFINE r == t \o w
           a == Len(t)
           b == Len(w)
<1>1. /\ t \in Seq(Address) /\ w \in Seq(Address) /\ a \in Nat /\ b \in Nat /\ a > 0
      /\ r \in Seq(Address) /\ Len(r) = a + b
      /\ \A i \in 1 .. a : r[i] = t[i]
      /\ \A i \in 1 .. b : r[a + i] = w[i]
  <2>1. t \in Seq(Address) /\ w \in Seq(Address) /\ t # <<>>
    BY DEF Chained, Leads
  <2> QED
    BY <2>1
<1> HIDE DEF r, a, b
<1>2. \A i \in 1 .. a + b : (i \in 1 .. a /\ r[i] = t[i]) \/ (i - a \in 1 .. b /\ r[i] = w[i - a])
  <2>1. ASSUME NEW i \in 1 .. a + b, i \notin 1 .. a PROVE i - a \in 1 .. b /\ r[i] = w[i - a]
    <3>1. i - a \in 1 .. b /\ a + (i - a) = i
      BY <2>1, <1>1
    <3> QED
      BY <3>1, <1>1
  <2> QED
    BY <2>1, <1>1
<1>3. Elems(r) = Elems(t) \cup Elems(w)
  <2>1. ASSUME NEW i \in 1 .. a + b PROVE r[i] \in Elems(t) \cup Elems(w)
    <3>1. CASE i \in 1 .. a /\ r[i] = t[i]
      BY <3>1 DEF Elems, a
    <3>2. CASE i - a \in 1 .. b /\ r[i] = w[i - a]
      BY <3>2 DEF Elems, b
    <3> QED
      BY <3>1, <3>2, <1>2
  <2>2. /\ \A i \in 1 .. a : i \in 1 .. a + b /\ r[i] = t[i]
        /\ \A i \in 1 .. b : a + i \in 1 .. a + b /\ r[a + i] = w[i]
    BY <1>1
  <2>3. Elems(t) \cup Elems(w) \subseteq Elems(r)
    <3>1. ASSUME NEW i \in 1 .. a PROVE t[i] \in Elems(r)
      BY <2>2, <1>1 DEF Elems
    <3>2. ASSUME NEW i \in 1 .. b PROVE w[i] \in Elems(r)
      BY <2>2, <1>1 DEF Elems
    <3> QED
      BY <3>1, <3>2 DEF Elems, a, b
  <2>4. Elems(r) \subseteq Elems(t) \cup Elems(w)
    BY <2>1, <1>1 DEF Elems
  <2> QED
    BY <2>3, <2>4
<1>4. Once(r)
  <2> SUFFICES ASSUME NEW i \in 1 .. a + b, NEW j \in 1 .. a + b, r[i] = r[j] PROVE i = j
    BY <1>1 DEF Once
  <2>1. \A p \in 1 .. a, q \in 1 .. b : t[p] # w[q]
    BY DEF Elems, a, b
  <2>2. CASE i \in 1 .. a /\ r[i] = t[i] /\ j \in 1 .. a /\ r[j] = t[j]
    BY <2>2 DEF Chained, Once, a
  <2>3. CASE i - a \in 1 .. b /\ r[i] = w[i - a] /\ j - a \in 1 .. b /\ r[j] = w[j - a]
    <3>1. i - a = j - a
      BY <2>3 DEF Leads, Once, b
    <3> QED
      BY <3>1, <1>1
  <2> QED
    BY <2>1, <2>2, <2>3, <1>2
<1>5. /\ \A i \in 1 .. a : At(r, i) = t[i]
      /\ \A i \in 1 .. b + 1 : At(r, a + i) = At(w, i)
  <2>1. ASSUME NEW i \in 1 .. a PROVE At(r, i) = t[i]
    <3>1. i \in 1 .. a + b
      BY <1>1
    <3> QED
      BY <3>1, <1>1 DEF At
  <2>2. ASSUME NEW i \in 1 .. b + 1 PROVE At(r, a + i) = At(w, i)
    <3>1. a + i \in 1 .. a + b <=> i \in 1 .. b
      BY <1>1
    <3> QED
      BY <3>1, <1>1 DEF At, b
  <2> QED
    BY <2>1, <2>2
<1>6. ref.ptr = At(r, 1)
  <2>1. 1 \in 1 .. a
    BY <1>1
  <2> QED
    BY <2>1, <1>5 DEF Chained
<1>7. ASSUME NEW i \in 1 .. a + b PROVE next[r[i]].ptr = At(r, i + 1)
  <2>1. CASE i \in 1 .. a /\ r[i] = t[i] /\ i # a
    <3>1. i \in 1 .. a - 1 /\ i + 1 \in 1 .. a
      BY <2>1, <1>1
    <3> QED
      BY <3>1, <2>1, <1>5 DEF Chained, a
  <2>2. CASE i = a
    <3>1. r[i] = last.ptr /\ rest.ptr = At(w, 1) /\ 1 \in 1 .. b + 1 /\ a \in 1 .. a
      BY <2>2, <1>1 DEF Chained, Leads, a
    <3> QED
      BY <3>1, <2>2, <1>5
  <2>3. CASE i - a \in 1 .. b /\ r[i] = w[i - a]
    <3>1. next[w[i - a]].ptr = At(w, (i - a) + 1)
      BY <2>3 DEF Leads, b
    <3>2. (i - a) + 1 \in 1 .. b + 1 /\ a + ((i - a) + 1) = i + 1
      BY <2>3, <1>1
    <3> QED
      BY <3>1, <3>2, <2>3, <1>5
  <2> QED
    BY <2>1, <2>2, <2>3, <1>2
<1> QED
  BY <1>1, <1>3, <1>4, <1>6, <1>7 DEF Leads, r

LEMMA PopCountChainExchange ==
    ASSUME NEW s, NEW w, NEW k, BaseInv(s), PopCountInv(s, w, k), PopShape', NEW c \in Client,
           PopCount!ChainExchange(c)
    PROVE  Becomes(s, s) /\ \E v : \E m : PopCountInv(s, v, m)'
<1>1. PICK n : n = second[c].ptr
  OBVIOUS
<1>2. /\ pc[c] \in Chaining
      /\ UNCHANGED <<head, data, live, todo, node, got, fault, threads_in_pop, nodes, initial>>
  BY DEF PopCount!ChainExchange, Chaining
<1>3. /\ k \in [Client -> Seq(Address)] /\ k[c] \in Seq(Address) /\ PopCountLists(s, w, k)
      /\ live \in SUBSET Address /\ Has(c, k[c]) = Kept(c) \cup Elems(k[c]) /\ Null \notin live
      /\ Elems(s) \subseteq live /\ Elems(w) \subseteq live \ Elems(s)
      /\ Has(c, k[c]) \subseteq live \ (Elems(s) \cup Elems(w)) /\ Leads(to_be_deleted, w)
  BY PopCountFacts DEF Has
<1>4. Chained(nodes[c], second[c], k[c]) /\ Kept(c) \cap Elems(k[c]) = {}
  BY <1>2, <1>3 DEF PopCountLists
<1>5. n \in Elems(k[c]) /\ n \in Has(c, k[c]) /\ n = k[c][Len(k[c])] /\ Len(k[c]) \in Nat
  <2>1. k[c] # <<>> /\ n = k[c][Len(k[c])]
    BY <1>1, <1>4 DEF Chained
  <2>2. Len(k[c]) \in 1 .. Len(k[c])
    BY <2>1, <1>3
  <2> QED
    BY <2>1, <2>2, <1>3 DEF Elems
<1>6. CASE to_be_deleted # next[n]
  <2>1. next' = [next EXCEPT ![n] = to_be_deleted] /\ UNCHANGED <<to_be_deleted, second, pc>>
    BY <1>1, <1>6 DEF PopCount!ChainExchange
  <2>2. ASSUME NEW i \in 1 .. Len(k[c]) - 1 PROVE next'[k[c][i]].ptr = k[c][i + 1]
    <3>1. i \in 1 .. Len(k[c]) /\ Len(k[c]) \in 1 .. Len(k[c]) /\ i # Len(k[c])
      BY <1>5, <2>2
    <3>2. k[c][i] # n /\ k[c][i] \in Address
      BY <3>1, <1>3, <1>4, <1>5 DEF Chained, Once
    <3>3. next'[k[c][i]] = next[k[c][i]]
      BY <3>2, <2>1 DEF BaseInv, TypeInv
    <3> QED
      BY <3>3, <1>4 DEF Chained
  <2>3. Chained(nodes[c], second[c], k[c])'
    <3>1. Once(k[c])'
      BY <1>4 DEF Chained, Once
    <3> QED
      BY <3>1, <2>1, <2>2, <1>2, <1>4 DEF Chained
  <2>4. /\ Kept(c)' = Kept(c) /\ Has(c, k[c])' = Has(c, k[c]) /\ (Entered(c)' <=> Entered(c))
    <3>1. Kept(c)' = Kept(c)
      BY <2>1, <1>2 DEF Kept
    <3> QED
      BY <3>1, <2>1 DEF Has, Elems, Entered
  <2>5. pc[c] # "push" /\ pc[c] # "idle"
    BY <1>2 DEF Chaining
  <2>6. Becomes(s, s) /\ PopCountInv(s, w, k)'
    BY <2>1, <2>3, <2>4, <2>5, <1>2, <1>3, <1>4, <1>5, PopCountWrites
  <2> QED
    BY <2>6
<1>7. CASE to_be_deleted = next[n]
  <2>1. /\ to_be_deleted' = nodes[c] /\ second' = [second EXCEPT ![c] = NullRef]
        /\ pc' = [pc EXCEPT ![c] = IF pc[c] = "chained" THEN "decrement" ELSE "delete"]
        /\ UNCHANGED next
    BY <1>1, <1>7 DEF PopCount!ChainExchange, PopCount!To, PopCount!NullRef, NullRef
  <2>2. Becomes(s, s)
    <3>1. Popping(c)
      BY <2>1, <1>2, PlacesAre DEF Popping, BaseInv, TypeInv, Chaining
    <3> QED
      BY <3>1, <2>1, <1>2, PopKeeps DEF BaseInv, TypeInv, Typed, Spared, Untouched, StackIs, Answers
  <2>3. /\ pc'[c] = (IF pc[c] = "chained" THEN "decrement" ELSE "delete")
        /\ \A d \in Client \ {c} : pc'[d] = pc[d] /\ second'[d] = second[d]
    BY <2>1 DEF BaseInv, TypeInv, PopCountInv, PopShape
  <2> DEFINE m == [k EXCEPT ![c] = <<>>]
             v == k[c] \o w
  <2>4. m \in [Client -> Seq(Address)] /\ m[c] = <<>> /\ \A d \in Client \ {c} : m[d] = k[d]
    BY <1>3
  <2>5. Leads(nodes[c], v) /\ Elems(v) = Elems(k[c]) \cup Elems(w)
    <3>1. Elems(k[c]) \cap Elems(w) = {}
      BY <1>3
    <3>2. next[n].ptr = to_be_deleted.ptr
      BY <1>7
    <3> QED
      BY <3>1, <3>2, <1>1, <1>3, <1>4, JoinLeads
  <2> HIDE DEF m, v
  <2>6. PICK t, u : t = m /\ u = v
    OBVIOUS
  <2>7. Leads(to_be_deleted, u)'
    BY <2>1, <2>5, <2>6 DEF Leads, At, Once
  <2>8. Kept(c)' = Kept(c) /\ Has(c, t[c])' = Kept(c)
    <3>1. Kept(c)' = Kept(c)
      BY <2>3, <1>2 DEF Kept, Chaining
    <3>2. Elems(t[c])' = {}
      BY <2>4, <2>6 DEF Elems
    <3> QED
      BY <3>1, <3>2 DEF Has
  <2>9. PopCountLists(s, u, t)'
    <3>1. PICK S, W, O, P : S = Elems(s) /\ W = Elems(w) /\ O = Has(c, k[c]) /\ P = Kept(c)
      OBVIOUS
    <3>2. PICK V : V = Elems(u)
      OBVIOUS
    <3>3. /\ S \cap V = {} /\ S \cap P = {} /\ V \cap P = {}
          /\ (S \cup V \cup P) \cap live \subseteq S \cup W \cup O
          /\ live' = (live \ (S \cup W \cup O)) \cup S \cup V \cup P
          /\ P = Has(c, t[c])' /\ live' \in SUBSET Address
      <4>1. V = Elems(k[c]) \cup W /\ O = P \cup Elems(k[c]) /\ P \cap Elems(k[c]) = {}
        BY <3>1, <3>2, <2>5, <2>6, <1>3, <1>4
      <4>2. S \subseteq live /\ W \subseteq live \ S /\ O \subseteq live \ (S \cup W) /\ live' = live
        BY <3>1, <1>2, <1>3
      <4> QED
        BY <4>1, <4>2, <3>1, <2>8, <1>3
    <3>4. pc'[c] \notin Listed \cup Chaining
      BY <2>3 DEF Listed, Chaining
    <3>5. /\ t \in [Client -> Seq(Address)] /\ t[c] = <<>> /\ Kept(c)' \cap Elems(t[c]) = {}
      BY <2>4, <2>6 DEF Elems
    <3>6. \A d \in Client \ {c} : /\ t[d] = k[d] /\ pc'[d] = pc[d] /\ node'[d] = node[d]
                                  /\ nodes'[d] = nodes[d] /\ second'[d] = second[d]
      BY <2>3, <2>4, <2>6, <1>2
    <3>7. \A a \in live : next'[a] = next[a]
      BY <2>1
    <3>8. Moved(S, W, O, S, V, P)
      BY <3>3, <3>7 DEF Moved
    <3>9. Moved(Elems(s), Elems(w), Has(c, k[c]), Elems(s), Elems(u), Has(c, t[c])')
      BY <3>1, <3>2, <3>3, <3>8
    <3>10. live' \in SUBSET Address /\ PopCountLists(s, w, k)
      BY <3>3, <1>3
    <3>11. /\ pc'[c] \in Listed => Leads(nodes[c], t[c])'
           /\ pc'[c] \in Chaining => Chained(nodes[c], second[c], t[c])'
           /\ pc'[c] \notin Listed \cup Chaining => t[c] = <<>>
      BY <3>4, <3>5
    <3> QED
      BY <3>5, <3>6, <3>9, <3>10, <3>11, <2>7, ListsMoved
  <2>10. Entered(c)' <=> Entered(c)
    BY <2>3, <1>2 DEF Entered, Chaining
  <2>11. pc'[c] \notin Reading /\ pc'[c] # "push" /\ pc'[c] # "exchange"
         /\ (pc'[c] \in Excluding => pc[c] \in Excluding)
    BY <2>3, <1>2 DEF Reading, Excluding, Chaining
  <2>12. \A d \in Client \ {c} : pc[d] \in Reading =>
             node[d] \in live /\ (pc[c] \in Excluding => node[c] # node[d])
    BY DEF PopCountInv
  <2>13. PopCountInv(s, u, t)'
    BY <2>1, <2>3, <2>9, <2>10, <2>11, <2>12, <1>2, PopCountKeeps
  <2> QED
    BY <2>2, <2>13
<1> QED
  BY <1>6, <1>7

(* So no node is deleted while a pop() may read it: what is dereferenced is *)
(* there, but for the null node that a pop() of an empty stack chains.      *)
LEMMA PopCountSafe ==
    ASSUME NEW s, NEW w, NEW k, BaseInv(s), PopCountInv(s, w, k), NEW c \in Client
    PROVE  PopCount!Accessed(c) \subseteq live \cup {Null}
<1>1. PopCountLists(s, w, k) /\ Has(c, k[c]) \subseteq live
  BY PopCountFacts
<1>2. CASE pc[c] \in {"push", "next", "chain"}
  <2>1. node[c] \in live \cup {Null}
    BY <1>1, <1>2 DEF Has, Kept, PopCountInv, Reading
  <2> QED
    BY <2>1, <1>2 DEF PopCount!Accessed
<1>3. CASE pc[c] \in Listed
  <2>1. PopCount!NodeSet(nodes[c]) = Elems(k[c])
    BY <1>1, <1>3, ListIs DEF PopCountLists
  <2>2. Kept(c) = {node[c]} \ {Null}
    BY <1>3 DEF Kept, Listed
  <2> QED
    BY <2>1, <2>2, <1>1, <1>3 DEF PopCount!Accessed, Listed, Has
<1>4. CASE pc[c] \in Chaining
  <2>1. Chained(nodes[c], second[c], k[c])
    BY <1>1, <1>4 DEF PopCountLists
  <2>2. Len(k[c]) \in 1 .. Len(k[c])
    BY <2>1 DEF Chained
  <2>3. second[c].ptr \in Elems(k[c])
    BY <2>1, <2>2 DEF Chained, Elems
  <2> QED
    BY <2>3, <1>1, <1>4 DEF PopCount!Accessed, Chaining, Has
<1>5. CASE pc[c] = "delete"
  <2>1. Kept(c) = {node[c]} \ {Null}
    BY <1>5 DEF Kept
  <2> QED
    BY <2>1, <1>1, <1>5 DEF PopCount!Accessed, Has
<1>6. CASE pc[c] \notin {"push", "next", "chain", "delete"} \cup Listed \cup Chaining
  BY <1>6 DEF PopCount!Accessed, Listed, Chaining
<1> QED
  BY <1>2, <1>3, <1>4, <1>5, <1>6

LEMMA PopCountStep ==
    ASSUME NEW s, NEW w, NEW k, BaseInv(s), PopCountInv(s, w, k), NEW c \in Client,
           PopCount!Step(c), PopCount!Accessed(c) \subseteq live
    PROVE  \E r : \E v : \E m : Becomes(s, r) /\ PopCountInv(r, v, m)'
<1>1. PopShape'
  BY ShapeStep DEF PopCountInv
<1>2. CASE PopCount!PushAlone(c)
  <2>1. (PushLoad(c) \/ PushExchange(c)) /\ UNCHANGED <<threads_in_pop, to_be_deleted, second, nodes, initial>>
    BY <1>2, SamePushPopCount DEF PopCount!PushAlone, PopCount!Push, PopCount!countVars
  <2> QED
    BY <1>1, <2>1, PopCountPushLoad, PopCountPushExchange
<1>3. CASE PopCount!PopEnter(c)
  BY <1>1, <1>3, PopCountEnter
<1>4. CASE PopCount!PopLoad(c)
  BY <1>1, <1>4, PopCountReload DEF PopCount!PopLoad, PopCount!countVars
<1>5. CASE PopCount!PopNext(c)
  BY <1>1, <1>5, PopCountNext
<1>6. CASE PopCount!PopExchange(c)
  <2>1. CASE head.ptr = node[c]
    BY <1>1, <1>6, <2>1, PopCountTake
  <2>2. CASE head.ptr # node[c]
    <3>1. \A d \in Client \ {c} : second'[d] = second[d]
      BY <1>6 DEF PopCount!PopExchange, PopCountInv, PopShape
    <3> QED
      BY <1>1, <1>6, <2>2, <3>1, PopCountReload DEF PopCount!PopExchange
  <2> QED
    BY <2>1, <2>2
<1>7. CASE PopCount!Alone(c)
  BY <1>1, <1>7, PopCountAlone
<1>8. CASE PopCount!Claim(c)
  BY <1>1, <1>8, PopCountClaim
<1>9. CASE PopCount!Leave(c)
  BY <1>1, <1>9, PopCountLeave
<1>10. CASE PopCount!ChainLoad(c)
  BY <1>1, <1>10, PopCountChainLoad
<1>11. CASE PopCount!ChainExchange(c)
  BY <1>1, <1>11, PopCountChainExchange
<1>12. CASE PopCount!Decrement(c)
  BY <1>1, <1>12, PopCountDecrement
<1>13. CASE PopCount!DeleteHead(c)
  BY <1>1, <1>13, PopCountDelete
<1> QED
  BY <1>2, <1>3, <1>4, <1>5, <1>6, <1>7, <1>8, <1>9, <1>10, <1>11, <1>12, <1>13 DEF PopCount!Step
-----------------------------------------------------------------------------
(* The three stacks together.                                               *)
StacksInv ==
    /\ scheme \in {"pop count", "hazard", "counted"}
    /\ scheme = "counted" => fault = "none" /\ \E s : BaseInv(s) /\ CountedInv(s)
    /\ scheme = "hazard" => fault = "none" /\ \E s : BaseInv(s) /\ HazardInv(s)
    /\ scheme = "pop count" =>
          /\ PopShape
          /\ PopCount!NullChained
          /\ initial >= 0 =>
                /\ fault # "freed"
                /\ \E s : \E w : \E k : BaseInv(s) /\ PopCountInv(s, w, k)

LEMMA SameStackInit ==
    /\ PopCount!StackInit <=> StackInit
    /\ Hazard!StackInit <=> StackInit
    /\ Counted!StackInit <=> StackInit
BY DEF PopCount!StackInit, Hazard!StackInit, Counted!StackInit, StackInit,
       PopCount!NullRef, Hazard!NullRef, Counted!NullRef, NullRef,
       PopCount!Empty, Hazard!Empty, Counted!Empty, Empty

LEMMA InitBase ==
    ASSUME StackInit
    PROVE  BaseInv(<<>>) /\ todo \in Scripts
<1> USE DEF StackInit
<1>1. TypeInv
  <2>1. NullRef \in Refs /\ Empty \in Entries
    BY DEF NullRef, Refs, Entries
  <2>2. todo \in [Client -> Seq(Entries)]
    BY ScriptsAssumption DEF Entries
  <2> QED
    BY <2>1, <2>2, PlacesAre DEF TypeInv
<1>2. CallsInv
  <2>1. ASSUME PushedOnce
        PROVE  \A c, d \in Client : \A i \in 1 .. Len(todo[c]), j \in 1 .. Len(todo[d]) :
                  todo[c][i] = todo[d][j] /\ todo[c][i] # Empty => c = d /\ i = j
    BY <2>1 DEF PushedOnce
  <2> QED
    BY <2>1 DEF CallsInv
<1>3. Leads(head, <<>>) /\ Elems(<<>>) = {}
  <2>1. NullRef.ptr = Null
    BY DEF NullRef
  <2> QED
    BY <2>1, EmptyLeads
<1>4. StackIs(<<>>)
  BY <1>3 DEF StackIs
<1>5. ValuesInv(<<>>)
  BY DEF ValuesInv
<1> QED
  BY <1>1, <1>2, <1>4, <1>5 DEF BaseInv

LEMMA InitCounted ==
    ASSUME Counted!Init
    PROVE  fault = "none" /\ BaseInv(<<>>) /\ CountedInv(<<>>)
<1>1. /\ StackInit
      /\ internal_count = [a \in Address |-> 0] /\ old_head = [c \in Client |-> NullRef]
  BY SameStackInit DEF Counted!Init, Counted!NullRef, NullRef
<1>2. BaseInv(<<>>) /\ Elems(<<>>) = {}
  BY <1>1, InitBase DEF Elems
<1>3. NullRef \in Refs /\ NullRef.ptr = Null
  BY DEF NullRef, Refs
<1>4. CountedInv(<<>>)
  BY <1>1, <1>2, <1>3 DEF CountedInv, StackInit, Holding, Balanced
<1> QED
  BY <1>1, <1>2, <1>4 DEF StackInit

LEMMA InitHazard ==
    ASSUME Hazard!Init
    PROVE  fault = "none" /\ BaseInv(<<>>) /\ HazardInv(<<>>)
<1>1. /\ StackInit
      /\ id = [q \in Slot |-> Null] /\ pointer = [q \in Slot |-> Null]
      /\ nodes_to_reclaim = <<>> /\ current = [c \in Client |-> <<>>] /\ slot = [c \in Client |-> 0]
  BY SameStackInit DEF Hazard!Init
<1>2. BaseInv(<<>>) /\ Elems(<<>>) = {} /\ Once(<<>>) /\ <<>> \in Seq(Address)
  BY <1>1, InitBase DEF Elems, Once
<1>3. HazardPlaces(<<>>)
  <2>1. \A c \in Client : Owns(c) = {} /\ current[c] = <<>>
    BY <1>1, <1>2 DEF Owns, StackInit
  <2> QED
    BY <2>1, <1>1, <1>2 DEF HazardPlaces, StackInit
<1>4. HazardInv(<<>>)
  BY <1>1, <1>3 DEF HazardInv, StackInit
<1> QED
  BY <1>1, <1>2, <1>4 DEF StackInit

LEMMA InitPopCount ==
    ASSUME PopCount!Init
    PROVE  /\ fault = "none" /\ PopShape
           /\ initial >= 0 => BaseInv(<<>>) /\ PopCountInv(<<>>, <<>>, [c \in Client |-> <<>>])
<1>1. /\ StackInit
      /\ initial \in Int /\ threads_in_pop = initial /\ to_be_deleted = NullRef
      /\ second = [c \in Client |-> NullRef] /\ nodes = [c \in Client |-> NullRef]
  BY SameStackInit, InitialCountsAssumption DEF PopCount!Init, PopCount!NullRef, NullRef
<1>2. BaseInv(<<>>)
  BY <1>1, InitBase
<1>3. PopShape
  BY <1>1, <1>2, PopRefFacts DEF PopShape, BaseInv, StackInit, PopStates
<1> DEFINE k == [c \in Client |-> <<>>]
<1>4. PopCountLists(<<>>, <<>>, k)
  <2>1. Leads(to_be_deleted, <<>>) /\ Elems(<<>>) = {}
    BY <1>1, PopRefFacts, EmptyLeads
  <2>2. \A c \in Client : k[c] = <<>> /\ Kept(c) = {} /\ Has(c, k[c]) = {}
    BY <1>1, <2>1 DEF Kept, Has, StackInit
  <2>3. k \in [Client -> Seq(Address)]
    OBVIOUS
  <2> HIDE DEF k
  <2> QED
    BY <2>1, <2>2, <2>3, <1>1 DEF PopCountLists, StackInit, Listed, Chaining
<1>5. threads_in_pop = initial + Cardinality(InPop)
  <2>1. InPop = {}
    BY <1>1 DEF InPop, Entered, StackInit
  <2>2. Cardinality(InPop) = 0
    BY <2>1, FS_EmptySet
  <2> QED
    BY <2>2, <1>1
<1> HIDE DEF k
<1>6. initial >= 0 => PopCountInv(<<>>, <<>>, k)
  BY <1>1, <1>3, <1>4, <1>5 DEF PopCountInv, StackInit, Reading
<1> QED
  BY <1>1, <1>2, <1>3, <1>6 DEF StackInit, k

LEMMA StacksInit == Init => StacksInv
<1> SUFFICES ASSUME Init PROVE StacksInv
  OBVIOUS
<1>1. CASE scheme = "pop count" /\ PopCount!Init
  BY <1>1, InitPopCount DEF StacksInv, PopCount!NullChained
<1>2. CASE scheme = "hazard" /\ Hazard!Init
  BY <1>2, InitHazard DEF StacksInv
<1>3. CASE scheme = "counted" /\ Counted!Init
  BY <1>3, InitCounted DEF StacksInv
<1> QED
  BY <1>1, <1>2, <1>3 DEF Init

LEMMA CountedStays ==
    ASSUME NEW s, CountedInv(s), UNCHANGED Counted!vars
    PROVE  CountedInv(s)'
<1>1. UNCHANGED <<head, next, live, pc, node, internal_count, old_head>>
  BY DEF Counted!vars, Counted!stackVars
<1>2. \A a : Holders(a)' = Holders(a)
  BY <1>1 DEF Holders, Holding
<1>3. /\ Balanced(head)'
      /\ \A a \in Elems(s) : Balanced(next[a])'
  BY <1>1, <1>2 DEF CountedInv, Balanced, Holders, Holding
<1>4. \A c \in Client : Holders(node[c])' = Holders(node[c])
  BY <1>1 DEF Holders, Holding
<1> QED
  BY <1>1, <1>2, <1>3, <1>4 DEF CountedInv, Elems, Holding

LEMMA HazardStays ==
    ASSUME NEW s, HazardInv(s), UNCHANGED Hazard!vars
    PROVE  HazardInv(s)'
<1>1. /\ UNCHANGED <<head, next, live, pc, node, id, pointer, nodes_to_reclaim, current, slot>>
  BY DEF Hazard!vars, Hazard!stackVars
<1>2. \A c \in Client : Owns(c)' = Owns(c)
  BY <1>1, OwnsStays
<1>3. Elems(s)' = Elems(s) /\ Elems(nodes_to_reclaim)' = Elems(nodes_to_reclaim)
  BY <1>1 DEF Elems
<1>4. HazardPlaces(s)'
  BY <1>1, <1>2, <1>3 DEF HazardInv, HazardPlaces, Once
<1> QED
  BY <1>1, <1>4 DEF HazardInv, Meets

LEMMA ShapeStays ==
    ASSUME PopShape,
           UNCHANGED <<head, next, data, live, pc, todo, node, got,
                       threads_in_pop, to_be_deleted, second, nodes, initial>>
    PROVE  PopShape'
BY DEF PopShape, TypeInv, PopRefs, NullRef, Ref, PopStates

LEMMA PopCountStays ==
    ASSUME NEW s, NEW w, NEW k, PopCountInv(s, w, k),
           UNCHANGED <<head, next, data, live, pc, todo, node, got,
                       threads_in_pop, to_be_deleted, second, nodes, initial>>
    PROVE  PopCountInv(s, w, k)'
<1>1. PopShape'
  BY ShapeStays DEF PopCountInv
<1>2. PopCountLists(s, w, k)'
  <2>1. PopCountLists(s, w, k)
    BY DEF PopCountInv
  <2>2. \A c \in Client : Kept(c)' = Kept(c)
    BY KeptStays
  <2>3. Elems(s)' = Elems(s) /\ Elems(w)' = Elems(w) /\ \A c \in Client : Elems(k[c])' = Elems(k[c])
    BY DEF Elems
  <2>4. \A c \in Client : Has(c, k[c])' = Has(c, k[c])
    BY <2>2, <2>3 DEF Has
  <2>5. Leads(to_be_deleted, w)'
    BY <2>1, WaitingStays DEF PopCountLists
  <2>6. \A c \in Client : pc'[c] \in Listed => Leads(nodes[c], k[c])'
    BY <2>1 DEF PopCountLists, Leads, Once, At
  <2>7. \A c \in Client : pc'[c] \in Chaining => Chained(nodes[c], second[c], k[c])'
    BY <2>1 DEF PopCountLists, Chained, Once
  <2>8. Listed' = Listed /\ Chaining' = Chaining
    BY DEF Listed, Chaining
  <2> QED
    BY <2>1, <2>2, <2>3, <2>4, <2>5, <2>6, <2>7, <2>8 DEF PopCountLists
<1>3. InPop' = InPop
  BY DEF InPop, Entered
<1> QED
  BY <1>1, <1>2, <1>3 DEF PopCountInv, Elems, Reading, Excluding
-----------------------------------------------------------------------------
(* What a pop() dereferences is null only where it chains an empty stack.   *)
LEMMA NullOnlyChained ==
    ASSUME PopShape, NEW c \in Client, Null \in PopCount!Accessed(c)
    PROVE  pc[c] = "chain" /\ node[c] = Null /\ got[c] = Empty
<1>1. Null \notin PopCount!NodeSet(nodes[c])
  BY SameNodes, NodesNotNull DEF PopCount!NodeSet
<1>2. pc[c] = "chain" /\ node[c] = Null
  BY <1>1 DEF PopCount!Accessed, PopShape
<1> QED
  BY <1>2 DEF PopShape

LEMMA PopCountFault ==
    ASSUME NEW c \in Client, PopCount!Step(c)
    PROVE  fault' = fault
BY DEF PopCount!Step, PopCount!PushAlone, PopCount!Push, PopCount!PushLoad, PopCount!PushExchange,
       PopCount!PopEnter, PopCount!PopLoad, PopCount!PopNext, PopCount!PopExchange, PopCount!Alone,
       PopCount!Claim, PopCount!Leave, PopCount!ChainLoad, PopCount!ChainExchange,
       PopCount!Decrement, PopCount!DeleteHead

LEMMA PopCountNextKeeps ==
    ASSUME scheme = "pop count", StacksInv, PopCount!Next, UNCHANGED scheme
    PROVE  StacksInv'
<1> USE DEF StacksInv
<1>1. ASSUME fault = "none", NEW c \in Client, PopCount!Step(c), PopCount!Accessed(c) \subseteq live
      PROVE  StacksInv'
  <2>1. PopShape' /\ initial' = initial /\ fault' = "none"
    BY <1>1, ShapeStep, PopCountFault
  <2>2. PopCount!NullChained'
    BY <2>1 DEF PopCount!NullChained
  <2>3. initial >= 0 => \E r : \E v : \E m : BaseInv(r)' /\ PopCountInv(r, v, m)'
    BY <1>1, PopCountStep DEF Becomes
  <2> QED
    BY <2>1, <2>2, <2>3
<1>2. ASSUME fault = "none", NEW c \in Client, NEW a \in PopCount!Accessed(c), PopCount!Dereference(a),
             UNCHANGED PopCount!countVars
      PROVE  StacksInv'
  <2>1. /\ a \notin live /\ fault' = (IF a = Null THEN "null" ELSE "freed")
        /\ UNCHANGED <<head, next, data, live, pc, todo, node, got,
                       threads_in_pop, to_be_deleted, second, nodes, initial>>
    BY <1>2 DEF PopCount!Dereference, PopCount!countVars
  <2>2. PopShape'
    BY <2>1, ShapeStays
  <2>3. PopCount!NullChained'
    <3>1. a = Null => pc[c] = "chain" /\ node[c] = Null /\ got[c] = Empty
      BY <1>2, NullOnlyChained
    <3> QED
      BY <3>1, <2>1 DEF PopCount!NullChained, PopCount!Empty, Empty
  <2>4. ASSUME initial >= 0
        PROVE  fault' # "freed" /\ \E s : \E w : \E k : BaseInv(s)' /\ PopCountInv(s, w, k)'
    <3>1. PICK s : \E w : \E k : BaseInv(s) /\ PopCountInv(s, w, k)
      BY <2>4
    <3>2. PICK w : \E k : BaseInv(s) /\ PopCountInv(s, w, k)
      BY <3>1
    <3>3. PICK k : BaseInv(s) /\ PopCountInv(s, w, k)
      BY <3>2
    <3>4. a = Null
      BY <3>3, <1>2, <2>1, PopCountSafe
    <3>5. BaseInv(s)' /\ PopCountInv(s, w, k)'
      BY <3>3, <2>1, BaseStays, PopCountStays
    <3> QED
      BY <3>4, <3>5, <2>1
  <2> QED
    BY <2>1, <2>2, <2>3, <2>4
<1>3. ASSUME UNCHANGED PopCount!vars PROVE StacksInv'
  <2>1. UNCHANGED <<head, next, data, live, pc, todo, node, got, fault,
                    threads_in_pop, to_be_deleted, second, nodes, initial>>
    BY <1>3 DEF PopCount!vars, PopCount!stackVars
  <2>2. PopShape' /\ PopCount!NullChained'
    BY <2>1, ShapeStays DEF PopCount!NullChained
  <2>3. ASSUME initial >= 0
        PROVE  \E s : \E w : \E k : BaseInv(s)' /\ PopCountInv(s, w, k)'
    BY <2>1, <2>3, BaseStays, PopCountStays
  <2> QED
    BY <2>1, <2>2, <2>3
<1> QED
  BY <1>1, <1>2, <1>3 DEF PopCount!Next, PopCount!ClientStep

LEMMA StacksStep == StacksInv /\ [Next]_vars => StacksInv'
<1> SUFFICES ASSUME StacksInv, [Next]_vars PROVE StacksInv'
  OBVIOUS
<1>1. CASE scheme = "pop count"
  <2>1. scheme' = scheme /\ (PopCount!Next \/ UNCHANGED <<scheme, PopCount!vars>>)
    BY <1>1 DEF Next, vars, stackVars, popCountVars, PopCount!vars, PopCount!stackVars
  <2>2. CASE UNCHANGED scheme /\ PopCount!Next
    BY <1>1, <2>2, PopCountNextKeeps
  <2>3. CASE UNCHANGED <<scheme, PopCount!vars>>
    <3>1. UNCHANGED <<scheme, head, next, data, live, pc, todo, node, got, fault,
                      threads_in_pop, to_be_deleted, second, nodes, initial>>
      BY <2>3 DEF PopCount!vars, PopCount!stackVars
    <3>2. PopShape' /\ PopCount!NullChained'
      BY <1>1, <3>1, ShapeStays DEF PopCount!NullChained, StacksInv
    <3>3. initial >= 0 => \E s : \E w : \E k : BaseInv(s)' /\ PopCountInv(s, w, k)'
      BY <1>1, <3>1, BaseStays, PopCountStays DEF StacksInv
    <3> QED
      BY <1>1, <3>1, <3>2, <3>3 DEF StacksInv
  <2> QED
    BY <1>1, <2>1, <2>2, <2>3 DEF Next
<1>2. CASE scheme = "hazard"
  <2>1. scheme' = scheme /\ (Hazard!Next \/ UNCHANGED Hazard!vars)
    BY <1>2 DEF Next, vars, stackVars, hazardVars, Hazard!vars, Hazard!stackVars
  <2>2. PICK s : BaseInv(s) /\ HazardInv(s)
    BY <1>2 DEF StacksInv
  <2>3. CASE UNCHANGED Hazard!vars
    <3>1. UNCHANGED <<head, next, data, live, pc, todo, node, got, fault>>
      BY <2>3 DEF Hazard!vars, Hazard!stackVars
    <3> QED
      BY <1>2, <2>1, <2>2, <2>3, <3>1, BaseStays, HazardStays DEF StacksInv
  <2>4. CASE \E c \in Client : Hazard!ClientStep(c)
    BY <1>2, <2>1, <2>2, <2>4, HazardStep DEF StacksInv, Becomes
  <2> QED
    BY <2>1, <2>3, <2>4 DEF Hazard!Next
<1>3. CASE scheme = "counted"
  <2>1. scheme' = scheme /\ (Counted!Next \/ UNCHANGED Counted!vars)
    BY <1>3 DEF Next, vars, stackVars, countedVars, Counted!vars, Counted!stackVars
  <2>2. PICK s : BaseInv(s) /\ CountedInv(s)
    BY <1>3 DEF StacksInv
  <2>3. CASE UNCHANGED Counted!vars
    <3>1. UNCHANGED <<head, next, data, live, pc, todo, node, got, fault>>
      BY <2>3 DEF Counted!vars, Counted!stackVars
    <3> QED
      BY <1>3, <2>1, <2>2, <2>3, <3>1, BaseStays, CountedStays DEF StacksInv
  <2>4. CASE \E c \in Client : Counted!ClientStep(c)
    BY <1>3, <2>1, <2>2, <2>4, CountedStep DEF StacksInv, Becomes
  <2> QED
    BY <2>1, <2>3, <2>4 DEF Counted!Next
<1> QED
  BY <1>1, <1>2, <1>3 DEF StacksInv

(* The nodes that a pop() reads are not deleted under it: by none of the    *)
(* three stacks, but by that of lock-free-stack2.cpp only when the          *)
(* uninitialized threads_in_pop was not negative; and what that one         *)
(* dereferences otherwise is the null node of a pop() of an empty stack.    *)
THEOREM NoUse == Spec => []NoUseAfterFree
<1>1. StacksInv => NoUseAfterFree
  <2>1. ASSUME scheme = "pop count", StacksInv PROVE PopCount!NoUseAfterFree /\ PopCount!NullChained
    <3>1. PopShape /\ PopCount!NullChained /\ (initial >= 0 => fault # "freed")
      BY <2>1 DEF StacksInv
    <3>2. initial >= 0 \/ initial < 0
      BY <3>1 DEF PopShape
    <3> QED
      BY <3>1, <3>2 DEF PopCount!NoUseAfterFree
  <2> QED
    BY <2>1 DEF StacksInv, NoUseAfterFree, Hazard!NoUseAfterFree, Counted!NoUseAfterFree
<1> QED
  BY <1>1, StacksInit, StacksStep, PTL DEF Spec

LEMMA NodesSame ==
    ASSUME NEW ref, NEW t, Leads(ref, t)
    PROVE  /\ {PopCount!NodesFrom(ref)[i] : i \in DOMAIN PopCount!NodesFrom(ref)} = Elems(t)
           /\ {Hazard!NodesFrom(ref)[i] : i \in DOMAIN Hazard!NodesFrom(ref)} = Elems(t)
           /\ {Counted!NodesFrom(ref)[i] : i \in DOMAIN Counted!NodesFrom(ref)} = Elems(t)
<1>1. DOMAIN t = 1 .. Len(t)
  BY DEF Leads
<1> QED
  BY <1>1, NodesAre, SameNodes DEF Elems

(* Between calls every node is on the stack, or waits where it will be      *)
(* found: in nodes_to_reclaim, each once, or in to_be_deleted; the stack    *)
(* that counts references has none that waits.                              *)
THEOREM NothingLeaks == Spec => []NoLeak
<1>1. ASSUME StacksInv, scheme = "counted" PROVE Counted!NoLeak
  <2>1. PICK s : BaseInv(s) /\ CountedInv(s)
    BY <1>1 DEF StacksInv
  <2>2. {Counted!Nodes[i] : i \in DOMAIN Counted!Nodes} = Elems(s)
    BY <2>1, NodesSame DEF BaseInv, StackIs, Counted!Nodes
  <2>3. ASSUME \A c \in Client : pc[c] = "idle" PROVE live = Elems(s)
    <3>1. ASSUME NEW a \in live \ Elems(s) PROVE FALSE
      <4>1. internal_count[a] > 0 /\ Cardinality(Holders(a)) = internal_count[a]
        BY <2>1, <2>3, <3>1 DEF CountedInv
      <4>2. Holders(a) = {}
        BY <2>3 DEF Holders, Holding
      <4> QED
        BY <4>1, <4>2, FS_EmptySet
    <3> QED
      BY <3>1, <2>1 DEF BaseInv, StackIs
  <2> QED
    BY <2>2, <2>3 DEF Counted!NoLeak
<1>2. ASSUME StacksInv, scheme = "hazard" PROVE Hazard!NoLeak
  <2>1. PICK s : BaseInv(s) /\ HazardInv(s)
    BY <1>2 DEF StacksInv
  <2>2. {Hazard!Nodes[i] : i \in DOMAIN Hazard!Nodes} = Elems(s)
    BY <2>1, NodesSame DEF BaseInv, StackIs, Hazard!Nodes
  <2>3. /\ nodes_to_reclaim \in Seq(Address) /\ Once(nodes_to_reclaim)
        /\ DOMAIN nodes_to_reclaim = 1 .. Len(nodes_to_reclaim)
        /\ {nodes_to_reclaim[i] : i \in DOMAIN nodes_to_reclaim} = Elems(nodes_to_reclaim)
    BY <2>1 DEF HazardInv, HazardPlaces, Elems
  <2>4. ASSUME \A c \in Client : pc[c] = "idle" PROVE live = Elems(s) \cup Elems(nodes_to_reclaim)
    <3>1. ASSUME NEW c \in Client PROVE Owns(c) = {}
      <4>1. pc[c] = "idle" /\ current[c] = <<>>
        BY <2>1, <2>4 DEF HazardInv, HazardPlaces
      <4>2. Owns(c) = Elems(current[c]) /\ Elems(<<>>) = {}
        BY <4>1 DEF Owns, Elems
      <4> QED
        BY <4>1, <4>2
    <3> QED
      BY <3>1, <2>1 DEF HazardInv, HazardPlaces, BaseInv, StackIs
  <2>5. \A i, j \in DOMAIN nodes_to_reclaim : i # j => nodes_to_reclaim[i] # nodes_to_reclaim[j]
    BY <2>3 DEF Once
  <2> QED
    BY <2>2, <2>3, <2>4, <2>5 DEF Hazard!NoLeak
<1>3. ASSUME StacksInv, scheme = "pop count", initial >= 0 PROVE PopCount!NoLeak
  <2>1. PICK s : \E w : \E k : BaseInv(s) /\ PopCountInv(s, w, k)
    BY <1>3 DEF StacksInv
  <2>2. PICK w : \E k : BaseInv(s) /\ PopCountInv(s, w, k)
    BY <2>1
  <2>3. PICK k : BaseInv(s) /\ PopCountInv(s, w, k)
    BY <2>2
  <2>4. PopCountLists(s, w, k) /\ Leads(head, s) /\ Elems(s) \subseteq live
    BY <2>3 DEF PopCountInv, BaseInv, StackIs
  <2>5. PopCount!NodeSet(head) = Elems(s) /\ PopCount!NodeSet(to_be_deleted) = Elems(w)
    BY <2>4, ListIs DEF PopCountLists
  <2>6. ASSUME \A c \in Client : pc[c] = "idle" PROVE live = Elems(s) \cup Elems(w)
    <3>1. \A c \in Client : Has(c, k[c]) = {}
      BY <2>3, <2>6, PopCountFacts DEF Kept, Listed, Chaining
    <3> QED
      BY <3>1, <2>4 DEF PopCountLists
  <2> QED
    BY <2>4, <2>5, <2>6 DEF PopCount!NoLeak, PopCountLists
<1>4. StacksInv => NoLeak
  BY <1>1, <1>2, <1>3 DEF NoLeak
<1> QED
  BY <1>4, StacksInit, StacksStep, PTL DEF Spec
-----------------------------------------------------------------------------
(* The items of LifoStack are what the nodes of s hold, its fresh values    *)
(* those that are still to be pushed.                                       *)
LEMMA ItemsAre == \A s : BaseInv(s) => Items = [i \in 1 .. Len(s) |-> data[s[i]]]
<1> SUFFICES ASSUME NEW s, BaseInv(s) PROVE Items = [i \in 1 .. Len(s) |-> data[s[i]]]
  OBVIOUS
<1>1. Nodes = s /\ DOMAIN s = 1 .. Len(s)
  BY NodesAre DEF Nodes, BaseInv, StackIs, Leads
<1> QED
  BY <1>1 DEF Items

LEMMA FreshIs == \A s : BaseInv(s) => Fresh = Awaiting
<1> SUFFICES ASSUME NEW s, BaseInv(s) PROVE Fresh = Awaiting
  OBVIOUS
<1>1. \A c \in Client : DOMAIN todo[c] = 1 .. Len(todo[c])
  BY DEF BaseInv, TypeInv
<1>2. Items = [i \in 1 .. Len(s) |-> data[s[i]]]
  BY ItemsAre
<1>3. ASSUME NEW c \in Client, NEW i \in 1 .. Len(todo[c]), NEW j \in DOMAIN Items
      PROVE  todo[c][i] # Items[j]
  <2>1. j \in 1 .. Len(s) /\ Items[j] = data[s[j]]
    BY <1>2, <1>3
  <2>2. todo[c][i] # data[s[j]]
    BY <2>1, PushedOnceAssumption DEF BaseInv, ValuesInv
  <2> QED
    BY <2>1, <2>2
<1>4. Fresh \subseteq Awaiting
  BY <1>1 DEF Fresh, Awaiting
<1>5. Awaiting \subseteq Fresh
  <2> SUFFICES ASSUME NEW v \in Awaiting PROVE v \in Fresh
    OBVIOUS
  <2>1. PICK c \in Client : \E i \in 1 .. Len(todo[c]) : todo[c][i] = v
    BY DEF Awaiting
  <2>2. v \in {todo[c][i] : i \in DOMAIN todo[c]}
    BY <2>1, <1>1
  <2>3. v \notin {Items[i] : i \in DOMAIN Items}
    BY <2>1, <1>3
  <2>4. v \in Value
    BY DEF Awaiting
  <2> QED
    BY <2>2, <2>3, <2>4 DEF Fresh
<1> QED
  BY <1>4, <1>5

LEMMA ItemsAreNext ==
    /\ \A s : BaseInv(s)' => Items' = [i \in 1 .. Len(s) |-> data'[s[i]]]
    /\ \A s : BaseInv(s)' => Fresh' = Awaiting'
<1>1. (\A s : BaseInv(s) => Items = [i \in 1 .. Len(s) |-> data[s[i]]])'
  BY ItemsAre, PTL
<1>2. (\A s : BaseInv(s) => Fresh = Awaiting)'
  BY FreshIs, PTL
<1> QED
  BY <1>1, <1>2

(* So each effect on s is a step of LifoStack, or none.                     *)
LEMMA EffectMaps ==
    ASSUME NEW s, NEW r, BaseInv(s), Becomes(s, r)
    PROVE  Lifo!Next \/ UNCHANGED <<Items, Fresh, got>>
<1>1. /\ Items = [i \in 1 .. Len(s) |-> data[s[i]]] /\ Items' = [i \in 1 .. Len(r) |-> data'[r[i]]]
      /\ Fresh = Awaiting /\ Fresh' = Awaiting'
  BY ItemsAre, FreshIs, ItemsAreNext DEF Becomes
<1>2. s \in Seq(Address) /\ Len(s) \in Nat /\ \A i \in 1 .. Len(s) : s[i] \in Elems(s)
  BY DEF BaseInv, StackIs, Leads, Elems
<1>3. \A a \in Elems(s) : data'[a] = data[a]
  BY DEF Becomes, Effect
<1>4. \A i \in 1 .. Len(s) : data'[s[i]] = data[s[i]]
  BY <1>2, <1>3
<1>5. CASE r = s /\ Awaiting' = Awaiting /\ Answers
  <2>1. Items' = Items /\ Fresh' = Fresh
    BY <1>1, <1>4, <1>5
  <2>2. CASE got' = got
    BY <2>1, <2>2
  <2>3. CASE head.ptr = Null /\ \E c \in Client : got' = [got EXCEPT ![c] = Empty]
    <3>1. s = <<>>
      <4>1. ASSUME s # <<>> PROVE FALSE
        <5>1. 1 \in 1 .. Len(s) /\ s[1] \in Address /\ head.ptr = s[1]
          BY <4>1, <1>2 DEF BaseInv, StackIs, Leads, At
        <5> QED
          BY <5>1, <2>3, AddressAssumption
      <4> QED
        BY <4>1
    <3>2. Items = <<>>
      BY <3>1, <1>1
    <3>3. PICK c \in Client : got' = [got EXCEPT ![c] = Empty]
      BY <2>3
    <3>4. Lifo!PopEmpty(c)
      BY <2>1, <3>2, <3>3 DEF Lifo!PopEmpty
    <3> QED
      BY <3>4 DEF Lifo!Next
  <2> QED
    BY <1>5, <2>2, <2>3 DEF Answers
<1>6. CASE /\ s # <<>> /\ r = Tail(s) /\ Awaiting' = Awaiting
           /\ \E c \in Client : got' = [got EXCEPT ![c] = data[s[1]]]
  <2>1. /\ Len(s) > 0 /\ Len(r) = Len(s) - 1 /\ 1 \in 1 .. Len(s)
        /\ \A i \in 1 .. Len(r) : r[i] = s[i + 1] /\ i + 1 \in 1 .. Len(s)
    BY <1>2, <1>6
  <2>2. \A i \in 1 .. Len(s) : data[s[i]] \in Entries
    BY <1>2 DEF BaseInv, TypeInv
  <2>3. Items \in Seq(Entries) /\ Len(Items) = Len(s) /\ Items # <<>> /\ Head(Items) = data[s[1]]
    BY <1>1, <1>2, <2>1, <2>2
  <2>4. Items' = Tail(Items)
    <3>1. Tail(Items) = [i \in 1 .. Len(s) - 1 |-> Items[i + 1]]
      <4>1. PICK t : t = Items
        OBVIOUS
      <4>2. t \in Seq(Entries) /\ Len(t) = Len(s) /\ t # <<>>
        BY <4>1, <2>3
      <4>3. PICK u : u = Tail(t)
        OBVIOUS
      <4>4. u \in Seq(Entries) /\ Len(u) = Len(s) - 1 /\ \A i \in 1 .. Len(s) - 1 : u[i] = t[i + 1]
        BY <4>2, <4>3
      <4>5. u = [i \in 1 .. Len(s) - 1 |-> t[i + 1]]
        BY <4>4, <1>2
      <4> QED
        BY <4>1, <4>3, <4>5
    <3>2. \A i \in 1 .. Len(r) : data'[r[i]] = Items[i + 1]
      BY <2>1, <1>1, <1>4
    <3> QED
      BY <3>1, <3>2, <2>1, <1>1
  <2>5. PICK c \in Client : got' = [got EXCEPT ![c] = data[s[1]]]
    BY <1>6
  <2>6. Lifo!Pop(c)
    BY <2>3, <2>4, <2>5, <1>1, <1>6 DEF Lifo!Pop
  <2> QED
    BY <2>6 DEF Lifo!Next
<1>7. CASE \E a \in Address : /\ r = <<a>> \o s /\ data'[a] = data[a] /\ got' = got
                              /\ data[a] \in Awaiting /\ Awaiting' = Awaiting \ {data[a]}
  <2>1. PICK a \in Address : /\ r = <<a>> \o s /\ data'[a] = data[a] /\ got' = got
                             /\ data[a] \in Awaiting /\ Awaiting' = Awaiting \ {data[a]}
    BY <1>7
  <2>2. /\ Len(r) = Len(s) + 1 /\ r[1] = a
        /\ \A i \in 2 .. Len(r) : r[i] = s[i - 1] /\ i - 1 \in 1 .. Len(s)
    BY <2>1, <1>2
  <2>3. PICK v \in Value : v = data[a]
    BY <2>1 DEF Awaiting
  <2>4. \A i \in 1 .. Len(s) : data[s[i]] \in Entries
    BY <1>2 DEF BaseInv, TypeInv
  <2>5. Items \in Seq(Entries) /\ Len(Items) = Len(s) /\ v \in Entries
    BY <1>1, <1>2, <2>4 DEF Entries
  <2>6. Items' = <<v>> \o Items
    <3>1. <<v>> \o Items = [i \in 1 .. Len(s) + 1 |-> IF i = 1 THEN v ELSE Items[i - 1]]
      BY <2>5
    <3>2. ASSUME NEW i \in 1 .. Len(r) PROVE data'[r[i]] = IF i = 1 THEN v ELSE Items[i - 1]
      <4>1. CASE i = 1
        BY <4>1, <2>1, <2>2, <2>3
      <4>2. CASE i # 1
        <5>1. i \in 2 .. Len(r)
          BY <4>2, <2>2, <1>2
        <5>2. r[i] = s[i - 1] /\ i - 1 \in 1 .. Len(s)
          BY <5>1, <2>2
        <5> QED
          BY <4>2, <5>2, <1>1, <1>4
      <4> QED
        BY <4>1, <4>2
    <3>3. Items' = [i \in 1 .. Len(r) |-> data'[r[i]]]
      BY <1>1
    <3>4. Items' = [i \in 1 .. Len(s) + 1 |-> IF i = 1 THEN v ELSE Items[i - 1]]
      BY <3>2, <3>3, <2>2
    <3> QED
      BY <3>1, <3>4
  <2>7. Lifo!Push(v)
    BY <2>1, <2>3, <2>6, <1>1 DEF Lifo!Push
  <2> QED
    BY <2>7 DEF Lifo!Next
<1> QED
  BY <1>5, <1>6, <1>7 DEF Becomes, Effect

LEMMA NothingSeen ==
    ASSUME UNCHANGED <<head, next, data, todo, got>>
    PROVE  UNCHANGED <<Items, Fresh, got>>
<1>1. UNCHANGED Items
  BY DEF Items, Nodes, NodesFrom
<1> QED
  BY <1>1 DEF Fresh

LEMMA StepMaps ==
    ASSUME StacksInv, [Next]_vars, initial >= 0 \/ scheme # "pop count"
    PROVE  Lifo!Next \/ UNCHANGED <<Items, Fresh, got>>
<1>1. CASE scheme = "pop count"
  <2>1. PopCount!Next \/ UNCHANGED PopCount!vars
    BY <1>1 DEF Next, vars, stackVars, popCountVars, PopCount!vars, PopCount!stackVars
  <2>2. ASSUME NEW c \in Client, PopCount!Step(c), PopCount!Accessed(c) \subseteq live
        PROVE  Lifo!Next \/ UNCHANGED <<Items, Fresh, got>>
    <3>1. PICK s : \E w : \E k : BaseInv(s) /\ PopCountInv(s, w, k)
      BY <1>1 DEF StacksInv
    <3>2. PICK w : \E k : BaseInv(s) /\ PopCountInv(s, w, k)
      BY <3>1
    <3>3. PICK k : BaseInv(s) /\ PopCountInv(s, w, k)
      BY <3>2
    <3>4. \E r : Becomes(s, r)
      BY <3>3, <2>2, PopCountStep
    <3> QED
      BY <3>3, <3>4, EffectMaps
  <2>3. CASE \E c \in Client : \E a \in PopCount!Accessed(c) : PopCount!Dereference(a)
    BY <2>3, NothingSeen DEF PopCount!Dereference
  <2>4. CASE UNCHANGED PopCount!vars
    BY <2>4, NothingSeen DEF PopCount!vars, PopCount!stackVars
  <2> QED
    BY <2>1, <2>2, <2>3, <2>4 DEF PopCount!Next, PopCount!ClientStep
<1>2. CASE scheme = "hazard"
  <2>1. PICK s : BaseInv(s) /\ HazardInv(s)
    BY <1>2 DEF StacksInv
  <2>2. fault = "none" /\ (Hazard!Next \/ UNCHANGED Hazard!vars)
    BY <1>2 DEF StacksInv, Next, vars, stackVars, hazardVars, Hazard!vars, Hazard!stackVars
  <2>3. CASE \E c \in Client : Hazard!ClientStep(c)
    BY <2>1, <2>2, <2>3, HazardStep, EffectMaps
  <2>4. CASE UNCHANGED Hazard!vars
    BY <2>4, NothingSeen DEF Hazard!vars, Hazard!stackVars
  <2> QED
    BY <2>2, <2>3, <2>4 DEF Hazard!Next
<1>3. CASE scheme = "counted"
  <2>1. PICK s : BaseInv(s) /\ CountedInv(s)
    BY <1>3 DEF StacksInv
  <2>2. fault = "none" /\ (Counted!Next \/ UNCHANGED Counted!vars)
    BY <1>3 DEF StacksInv, Next, vars, stackVars, countedVars, Counted!vars, Counted!stackVars
  <2>3. CASE \E c \in Client : Counted!ClientStep(c)
    BY <2>1, <2>2, <2>3, CountedStep, EffectMaps
  <2>4. CASE UNCHANGED Counted!vars
    BY <2>4, NothingSeen DEF Counted!vars, Counted!stackVars
  <2> QED
    BY <2>2, <2>3, <2>4 DEF Counted!Next
<1> QED
  BY <1>1, <1>2, <1>3 DEF StacksInv

(* The stacks are linearizable: where no value is pushed twice, each step   *)
(* is a step of LifoStack or none, push() and pop() at the exchange that    *)
(* succeeds, a pop() of an empty stack where it reads the null head; only   *)
(* lock-free-stack2.cpp needs threads_in_pop not to start below 0.          *)
THEOREM Linearizable == Spec => ImplementsLifo
<1>1. StacksInv /\ [Next]_vars => [initial >= 0 => Lifo!Next]_<<Items, Fresh, got>>
  BY StepMaps
<1> QED
  BY <1>1, StacksInit, StacksStep, PTL DEF Spec, ImplementsLifo
=============================================================================
