------------------------------ MODULE LifoStack ------------------------------
(***************************************************************************)
(* What the lock-free stacks promise: push() and pop() take effect in one  *)
(* step between call and return, on a sequence whose head is the top.      *)
(***************************************************************************)
EXTENDS Sequences

CONSTANTS Client, Value, Empty
VARIABLES
    items,
    fresh,     \* the values that have not been pushed
    got        \* what the last pop() of each client took: Empty if nothing

vars == <<items, fresh, got>>

Init == items = <<>> /\ fresh \subseteq Value /\ got = [c \in Client |-> Empty]

Push(v) ==
    /\ v \in fresh
    /\ items' = <<v>> \o items
    /\ fresh' = fresh \ {v}
    /\ UNCHANGED got

Pop(c) ==
    /\ items # <<>>
    /\ got' = [got EXCEPT ![c] = Head(items)]
    /\ items' = Tail(items)
    /\ UNCHANGED fresh

PopEmpty(c) ==
    /\ items = <<>>
    /\ got' = [got EXCEPT ![c] = Empty]
    /\ UNCHANGED <<items, fresh>>

Next == (\E v \in Value : Push(v)) \/ (\E c \in Client : Pop(c) \/ PopEmpty(c))

Spec == Init /\ [][Next]_vars
=============================================================================
