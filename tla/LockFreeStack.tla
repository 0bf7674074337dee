---------------------------- MODULE LockFreeStack ----------------------------
(***************************************************************************)
(* What the lock-free stacks share: the linked nodes and push(), which is  *)
(* all that src/lock_free_stack.cpp has.  HazardStack, PopCountStack and   *)
(* CountedStack add their pop() and how they reclaim what it takes out.    *)
(*                                                                         *)
(* head and next hold an address and an external_count; only CountedStack  *)
(* changes the count, for the others it says no more than the address.     *)
(* The weak exchanges may also fail for no reason: they are tried again.   *)
(***************************************************************************)
EXTENDS Integers, Sequences, FiniteSets

CONSTANTS
    Client,
    Address,     \* where nodes can be allocated; delete gives them back
    Null,
    Scripts      \* [Client -> Seq(Value \cup {Empty})], where Empty stands for pop()

Empty == 0

ASSUME ClientAssumption == IsFiniteSet(Client) /\ Null \notin Client
ASSUME AddressAssumption == IsFiniteSet(Address) /\ Null \notin Address

VARIABLES
    head,
    next, data,      \* of the node at each address
    live,            \* the addresses that are allocated
    pc, todo,        \* what each client does now and has still to do
    node,            \* new_node, or the node that pop() is about
    got,             \* the result of the last pop()
    fault            \* what kind of address was dereferenced, once it has been

stackVars == <<head, next, data, live, pc, todo, node, got, fault>>

NullRef == [external_count |-> 0, ptr |-> Null]
Ref(a) == [external_count |-> 1, ptr |-> a]

StackInit ==
    /\ head = NullRef
    /\ next = [a \in Address |-> NullRef]
    /\ data = [a \in Address |-> Empty]
    /\ live = {}
    /\ pc = [c \in Client |-> "idle"]
    /\ todo \in Scripts
    /\ node = [c \in Client |-> Null]
    /\ got = [c \in Client |-> Empty]
    /\ fault = "none"

To(c, where) == pc' = [pc EXCEPT ![c] = where]
Holds(c, a) == node' = [node EXCEPT ![c] = a]
Calls(c, where) == pc[c] = "idle" /\ todo[c] # <<>> /\ To(c, where)
Returns(c) == To(c, "idle") /\ todo' = [todo EXCEPT ![c] = Tail(@)]

(* Deleting nodes; an address that is free holds nothing.                   *)
Delete(nodes) ==
    /\ live' = live \ nodes
    /\ next' = [a \in Address |-> IF a \in nodes THEN NullRef ELSE next[a]]
    /\ data' = [a \in Address |-> IF a \in nodes THEN Empty ELSE data[a]]

(* new Node(data), and head.load() into its next.                           *)
PushLoad(c) ==
    /\ Calls(c, "push")
    /\ Head(todo[c]) # Empty
    /\ \E a \in Address \ live :
          /\ live' = live \cup {a}
          /\ data' = [data EXCEPT ![a] = Head(todo[c])]
          /\ next' = [next EXCEPT ![a] = head]
          /\ Holds(c, a)
    /\ UNCHANGED <<head, todo, got, fault>>

(* Mutant: head is overwritten whatever it has become.                      *)
PushExchangeByStore(c) ==
    /\ pc[c] = "push"
    /\ head' = Ref(node[c]) /\ Returns(c) /\ UNCHANGED next
    /\ UNCHANGED <<data, live, node, got, fault>>

PushExchange(c) ==
    /\ pc[c] = "push"
    /\ \/ /\ head = next[node[c]]
          /\ head' = Ref(node[c])
          /\ Returns(c)
          /\ UNCHANGED next
       \/ /\ head # next[node[c]]
          /\ next' = [next EXCEPT ![node[c]] = head]
          /\ UNCHANGED <<head, pc, todo>>
    /\ UNCHANGED <<data, live, node, got, fault>>

Push(c) == PushLoad(c) \/ PushExchange(c)

(* An access to a node that is not there: what follows is undefined.        *)
Dereference(a) ==
    /\ a \notin live
    /\ fault' = IF a = Null THEN "null" ELSE "freed"
    /\ UNCHANGED <<head, next, data, live, pc, todo, node, got>>

Stopped == fault # "none" \/ \A c \in Client : todo[c] = <<>>
-----------------------------------------------------------------------------
(* The nodes from ref along next, and the stack as a sequence of values,    *)
(* its top first.                                                           *)
NodesFrom(ref) ==
    LET at[i \in 1 .. Cardinality(Address)] ==
            IF i = 1 THEN ref.ptr
            ELSE IF at[i - 1] = Null THEN Null ELSE next[at[i - 1]].ptr
        length == Cardinality({i \in DOMAIN at : at[i] # Null})
    IN  [i \in 1 .. length |-> at[i]]
Nodes == NodesFrom(head)
Items == [i \in DOMAIN Nodes |-> data[Nodes[i]]]
Unpushed == UNION {{todo[c][i] : i \in DOMAIN todo[c]} : c \in Client} \ {Empty}
=============================================================================
