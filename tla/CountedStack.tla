----------------------------- MODULE CountedStack -----------------------------
(***************************************************************************)
(* src/lock-free-stack-with-ref-counting.cpp, which                        *)
(* quick-sort-with-blocks-stack.cpp repeats: head counts the pops that     *)
(* started from it, a node counts down those that gave up, and whoever     *)
(* brings the sum to 0 deletes the node.  next of a node on the stack is   *)
(* not written, so that reading it and the exchange of head are one step.  *)
(***************************************************************************)
EXTENDS LockFreeStack

CONSTANT MaxExternal      \* bounds the external counts
VARIABLES
    internal_count,
    old_head

vars == <<stackVars, internal_count, old_head>>

Init ==
    /\ StackInit
    /\ internal_count = [a \in Address |-> 0]
    /\ old_head = [c \in Client |-> NullRef]

PopLoad(c) ==
    /\ Calls(c, "increase")
    /\ Head(todo[c]) = Empty
    /\ old_head' = [old_head EXCEPT ![c] = head]
    /\ UNCHANGED <<head, next, data, live, todo, node, got, fault, internal_count>>

(* increase_head_count(): also a null head is counted.                      *)
Increase(c) ==
    /\ pc[c] = "increase"
    /\ IF head = old_head[c]
       THEN /\ head.external_count < MaxExternal
            /\ head' = [head EXCEPT !.external_count = @ + 1]
            /\ old_head' = [old_head EXCEPT ![c] = head']
            /\ Holds(c, head.ptr)
            /\ IF head.ptr = Null THEN Returns(c) /\ got' = [got EXCEPT ![c] = Empty]
               ELSE To(c, "exchange") /\ UNCHANGED <<todo, got>>
       ELSE /\ old_head' = [old_head EXCEPT ![c] = head]
            /\ UNCHANGED <<head, pc, todo, node, got>>
    /\ UNCHANGED <<next, data, live, fault, internal_count>>

PopExchange(c) ==
    /\ pc[c] = "exchange"
    /\ IF head = old_head[c]
       THEN /\ head' = next[node[c]]
            /\ got' = [got EXCEPT ![c] = data[node[c]]]
            /\ To(c, "settle")
            /\ UNCHANGED old_head
       ELSE /\ old_head' = [old_head EXCEPT ![c] = head]
            /\ To(c, "unref")
            /\ UNCHANGED <<head, got>>
    /\ UNCHANGED <<next, data, live, todo, node, fault, internal_count>>

DeleteIf(condition, a) == IF condition THEN Delete({a}) ELSE UNCHANGED <<next, data, live>>

(* Mutant: the reference of the popper itself is not taken off.             *)
count_increase_Off(c) == old_head[c].external_count - 1
count_increase(c) == old_head[c].external_count - 2

(* The winner adds the external count, less its own reference and that of   *)
(* the list.                                                                *)
Settle(c) ==
    /\ pc[c] = "settle"
    /\ LET sum == internal_count[node[c]] + count_increase(c)
       IN  /\ internal_count' = [internal_count EXCEPT ![node[c]] = sum]
           /\ DeleteIf(sum = 0, node[c])
    /\ Returns(c)
    /\ Holds(c, Null)
    /\ UNCHANGED <<head, got, fault, old_head>>

(* Mutant: a loser deletes when it finds 0.                                 *)
UnrefEarly(c) ==
    /\ pc[c] = "unref"
    /\ internal_count' = [internal_count EXCEPT ![node[c]] = @ - 1]
    /\ DeleteIf(internal_count[node[c]] = 0, node[c])
    /\ To(c, "increase")
    /\ Holds(c, Null)
    /\ UNCHANGED <<head, todo, got, fault, old_head>>

Unref(c) ==
    /\ pc[c] = "unref"
    /\ internal_count' = [internal_count EXCEPT ![node[c]] = @ - 1]
    /\ DeleteIf(internal_count[node[c]] = 1, node[c])
    /\ To(c, "increase")
    /\ Holds(c, Null)
    /\ UNCHANGED <<head, todo, got, fault, old_head>>

(* A new node starts with internal_count 0.                                 *)
PushCounted(c) ==
    /\ Push(c)
    /\ internal_count' = [a \in Address |-> IF a \in live' \ live THEN 0 ELSE internal_count[a]]
    /\ UNCHANGED old_head

Accessed(c) == IF pc[c] \in {"push", "exchange", "settle", "unref"} THEN {node[c]} ELSE {}

Step(c) ==
    \/ PushCounted(c) \/ PopLoad(c) \/ Increase(c) \/ PopExchange(c) \/ Settle(c) \/ Unref(c)

ClientStep(c) ==
    IF Accessed(c) \subseteq live THEN Step(c)
    ELSE (\E a \in Accessed(c) : Dereference(a)) /\ UNCHANGED <<internal_count, old_head>>

(* Two pops can make each other's exchange fail for ever, and each time     *)
(* they count one more: the model stops at the bound.                       *)
AtBound == head.external_count = MaxExternal

Next ==
    \/ fault = "none" /\ \E c \in Client : ClientStep(c)
    \/ (Stopped \/ AtBound) /\ UNCHANGED vars
Spec == Init /\ [][Next]_vars
-----------------------------------------------------------------------------
(* Properties.                                                              *)

(* The two halves of the count balance on every interleaving: no node is    *)
(* deleted twice or while a pop() may still touch it.                       *)
NoUseAfterFree == fault = "none"

(* What is allocated is on the stack: nodes are deleted as soon as the last *)
(* pop() that saw them is over.                                             *)
NoLeak == (\A c \in Client : pc[c] = "idle") => live = {Nodes[i] : i \in DOMAIN Nodes}
=============================================================================
