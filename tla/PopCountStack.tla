---------------------------- MODULE PopCountStack ----------------------------
(***************************************************************************)
(* src/lock-free-stack2.cpp: nodes that pop() takes out are deleted by a   *)
(* thread that finds itself alone in pop(), and wait in to_be_deleted      *)
(* otherwise.                                                              *)
(*                                                                         *)
(* threads_in_pop has no initializer.  Before C++20 its first value is     *)
(* whatever the memory holds; InitialCounts are the values tried.          *)
(***************************************************************************)
EXTENDS LockFreeStack

CONSTANT InitialCounts
VARIABLES threads_in_pop, to_be_deleted,
          second,       \* what was read from next of the head, in pop()
          nodes,        \* the list of nodes a client deletes or chains
          initial       \* the first value of threads_in_pop

vars == <<stackVars, threads_in_pop, to_be_deleted, second, nodes, initial>>
countVars == <<threads_in_pop, to_be_deleted, second, nodes, initial>>

Init ==
    /\ StackInit
    /\ initial \in InitialCounts
    /\ threads_in_pop = initial
    /\ to_be_deleted = NullRef
    /\ second = [c \in Client |-> NullRef]
    /\ nodes = [c \in Client |-> NullRef]

PushAlone(c) == Push(c) /\ UNCHANGED countVars

PopEnter(c) ==
    /\ Calls(c, "load")
    /\ Head(todo[c]) = Empty
    /\ threads_in_pop' = threads_in_pop + 1
    /\ UNCHANGED <<head, next, data, live, todo, node, got, fault,
                   to_be_deleted, second, nodes, initial>>

(* old_head is the head; when it is null the loop ends.                     *)
Reload(c) ==
    /\ Holds(c, head.ptr)
    /\ To(c, IF head.ptr = Null THEN "alone" ELSE "next")
    /\ got' = [got EXCEPT ![c] = IF head.ptr = Null THEN Empty ELSE @]

PopLoad(c) ==
    /\ pc[c] = "load"
    /\ Reload(c)
    /\ UNCHANGED <<head, next, data, live, todo, fault, countVars>>

PopNext(c) ==
    /\ pc[c] = "next"
    /\ second' = [second EXCEPT ![c] = next[node[c]]]
    /\ To(c, "exchange")
    /\ UNCHANGED <<head, next, data, live, todo, node, got, fault,
                   threads_in_pop, to_be_deleted, nodes, initial>>

PopExchange(c) ==
    /\ pc[c] = "exchange"
    /\ IF head.ptr = node[c]
       THEN head' = second[c] /\ To(c, "alone") /\ UNCHANGED node
            /\ got' = [got EXCEPT ![c] = data[node[c]]]
       ELSE Reload(c) /\ UNCHANGED head
    /\ second' = [second EXCEPT ![c] = NullRef]
    /\ UNCHANGED <<next, data, live, todo, fault, threads_in_pop, to_be_deleted, nodes, initial>>

(* try_reclaim(), from the test of threads_in_pop.                          *)
Alone(c) ==
    /\ pc[c] = "alone"
    /\ To(c, IF threads_in_pop = 1 THEN "claim" ELSE "chain")
    /\ UNCHANGED <<head, next, data, live, todo, node, got, fault, countVars>>

Claim(c) ==
    /\ pc[c] = "claim"
    /\ nodes' = [nodes EXCEPT ![c] = to_be_deleted]
    /\ to_be_deleted' = NullRef
    /\ To(c, "leave")
    /\ UNCHANGED <<head, next, data, live, todo, node, got, fault, threads_in_pop, second, initial>>

NodeSet(ref) == {NodesFrom(ref)[i] : i \in DOMAIN NodesFrom(ref)}
Forget(c) == nodes' = [nodes EXCEPT ![c] = NullRef] /\ Holds(c, Null)

(* Mutant: the claimed nodes are deleted whoever has entered.               *)
LeaveDeleting(c) ==
    /\ pc[c] = "leave"
    /\ threads_in_pop' = threads_in_pop - 1
    /\ Delete(NodeSet(nodes[c]) \cup {node[c]}) /\ Forget(c) /\ Returns(c)
    /\ UNCHANGED <<head, got, fault, to_be_deleted, second, initial>>

(* The claimed nodes are deleted if nobody has entered meanwhile.           *)
Leave(c) ==
    /\ pc[c] = "leave"
    /\ threads_in_pop' = threads_in_pop - 1
    /\ IF threads_in_pop - 1 # 0 /\ nodes[c] # NullRef
       THEN To(c, "rechain") /\ UNCHANGED <<next, data, live, nodes, node, todo>>
       ELSE /\ Delete((IF threads_in_pop - 1 = 0 THEN NodeSet(nodes[c]) ELSE {}) \cup {node[c]})
            /\ Forget(c)
            /\ Returns(c)
    /\ UNCHANGED <<head, got, fault, to_be_deleted, second, initial>>

(* chain_pending_node(old_head), chain_pending_nodes(nodes_to_delete).      *)
First(c) == IF pc[c] \in {"chain", "chained"} THEN Ref(node[c]) ELSE nodes[c]
Last(c) ==
    IF pc[c] \in {"chain", "chained"} THEN node[c]
    ELSE LET walk == NodesFrom(nodes[c]) IN walk[Len(walk)]

ChainLoad(c) ==
    /\ pc[c] \in {"chain", "rechain"}
    /\ next' = [next EXCEPT ![Last(c)] = to_be_deleted]
    /\ nodes' = [nodes EXCEPT ![c] = First(c)]
    /\ second' = [second EXCEPT ![c] = Ref(Last(c))]
    /\ To(c, IF pc[c] = "chain" THEN "chained" ELSE "rechained")
    /\ UNCHANGED <<head, data, live, todo, node, got, fault, threads_in_pop, to_be_deleted, initial>>

ChainExchange(c) ==
    /\ pc[c] \in {"chained", "rechained"}
    /\ LET last == second[c].ptr
       IN  IF to_be_deleted = next[last]
           THEN /\ to_be_deleted' = nodes[c]
                /\ second' = [second EXCEPT ![c] = NullRef]
                /\ To(c, IF pc[c] = "chained" THEN "decrement" ELSE "delete")
                /\ UNCHANGED next
           ELSE /\ next' = [next EXCEPT ![last] = to_be_deleted]
                /\ UNCHANGED <<to_be_deleted, second, pc>>
    /\ UNCHANGED <<head, data, live, todo, node, got, fault, threads_in_pop, nodes, initial>>

Decrement(c) ==
    /\ pc[c] = "decrement"
    /\ threads_in_pop' = threads_in_pop - 1
    /\ Forget(c)
    /\ Returns(c)
    /\ UNCHANGED <<head, next, data, live, got, fault, to_be_deleted, second, initial>>

DeleteHead(c) ==
    /\ pc[c] = "delete"
    /\ Delete({node[c]})
    /\ Forget(c)
    /\ Returns(c)
    /\ UNCHANGED <<head, got, fault, threads_in_pop, to_be_deleted, second, initial>>

(* The node whose members the next step of a client reads or writes, and    *)
(* the nodes it deletes.                                                    *)
Accessed(c) ==
    CASE pc[c] \in {"push", "next"} -> {node[c]}
      [] pc[c] = "chain" -> {node[c]}
      [] pc[c] = "rechain" -> NodeSet(nodes[c])
      [] pc[c] \in {"chained", "rechained"} -> {second[c].ptr}
      [] pc[c] = "leave" -> NodeSet(nodes[c]) \cup ({node[c]} \ {Null})
      [] pc[c] = "delete" -> {node[c]} \ {Null}
      [] OTHER -> {}

Step(c) ==
    \/ PushAlone(c)
    \/ PopEnter(c) \/ PopLoad(c) \/ PopNext(c) \/ PopExchange(c) \/ Alone(c) \/ Claim(c)
    \/ Leave(c) \/ ChainLoad(c) \/ ChainExchange(c) \/ Decrement(c) \/ DeleteHead(c)

ClientStep(c) ==
    IF Accessed(c) \subseteq live THEN Step(c)
    ELSE (\E a \in Accessed(c) : Dereference(a)) /\ UNCHANGED countVars

Next == (fault = "none" /\ \E c \in Client : ClientStep(c)) \/ (Stopped /\ UNCHANGED vars)
Spec == Init /\ [][Next]_vars
-----------------------------------------------------------------------------
(* Properties.                                                              *)

(* Counted from zero, threads_in_pop keeps a node from being deleted while  *)
(* a thread that could still read its next is in pop().                     *)
NoUseAfterFree == fault = "freed" => initial < 0

(* The other way to fail: pop() on an empty stack, when threads_in_pop says *)
(* that another thread is in pop(), chains a null node.                     *)
NullChained ==
    fault = "null" => \E c \in Client : pc[c] = "chain" /\ node[c] = Null /\ got[c] = Empty

(* Every node is on the stack, waits to be deleted or is held by a client.  *)
NoLeak ==
    /\ NodeSet(head) \cap NodeSet(to_be_deleted) = {}
    /\ (\A c \in Client : pc[c] = "idle") => live = NodeSet(head) \cup NodeSet(to_be_deleted)
=============================================================================
