----------------------------- MODULE HazardStack -----------------------------
(***************************************************************************)
(* src/lock-free-stack-with-hp.cpp: pop() publishes the node it is about   *)
(* to read in the slot of its thread, and a node that was taken out is     *)
(* deleted when no slot holds it; the others wait in nodes_to_reclaim.     *)
(* next of a node is never written once the node is on the stack, so that  *)
(* reading it and the exchange of head are one step.                       *)
(***************************************************************************)
EXTENDS LockFreeStack

CONSTANT Slot     \* 0 .. MAX_HAZARD_POINTERS - 1, no fewer than threads
VARIABLES
    id, pointer,          \* of each slot: who has it, and what it protects
    nodes_to_reclaim,     \* sequences of nodes
    current,              \* what a client scans for: its node, or the claimed list
    slot                  \* where its scan is

vars == <<stackVars, id, pointer, nodes_to_reclaim, current, slot>>
hazardVars == <<id, pointer, nodes_to_reclaim, current, slot>>

Init ==
    /\ StackInit
    /\ id = [s \in Slot |-> Null]
    /\ pointer = [s \in Slot |-> Null]
    /\ nodes_to_reclaim = <<>>
    /\ current = [c \in Client |-> <<>>]
    /\ slot = [c \in Client |-> 0]

PushPlain(c) == Push(c) /\ UNCHANGED hazardVars

Owned(c) == CHOOSE s \in Slot : id[s] = c

(* HPOwner(): the first slot without an owner, and head.load().             *)
PopCall(c) ==
    /\ Calls(c, "publish")
    /\ Head(todo[c]) = Empty
    /\ IF c \in {id[s] : s \in Slot} THEN UNCHANGED id
       ELSE \E s \in Slot :
               /\ id[s] = Null
               /\ \A r \in Slot : r < s => id[r] # Null
               /\ id' = [id EXCEPT ![s] = c]
    /\ Holds(c, head.ptr)
    /\ UNCHANGED <<head, next, data, live, todo, got, fault,
                   pointer, nodes_to_reclaim, current, slot>>

Publish(c) ==
    /\ pc[c] = "publish"
    /\ pointer' = [pointer EXCEPT ![Owned(c)] = node[c]]
    /\ To(c, "reload")
    /\ UNCHANGED <<head, next, data, live, todo, node, got, fault,
                   id, nodes_to_reclaim, current, slot>>

(* Mutant: head is not read again.                                          *)
ReloadTrusted(c) ==
    /\ pc[c] = "reload"
    /\ To(c, IF node[c] = Null THEN "withdraw" ELSE "exchange")
    /\ got' = [got EXCEPT ![c] = IF node[c] = Null THEN Empty ELSE @]
    /\ UNCHANGED <<head, next, data, live, todo, node, fault, hazardVars>>

ReloadHead(c) ==
    /\ pc[c] = "reload"
    /\ Holds(c, head.ptr)
    /\ To(c, IF head.ptr # node[c] THEN "publish"
             ELSE IF head.ptr = Null THEN "withdraw" ELSE "exchange")
    /\ got' = [got EXCEPT ![c] = IF node[c] = Null /\ head.ptr = Null THEN Empty ELSE @]
    /\ UNCHANGED <<head, next, data, live, todo, fault, hazardVars>>

PopExchange(c) ==
    /\ pc[c] = "exchange"
    /\ IF head.ptr = node[c]
       THEN /\ head' = next[node[c]]
            /\ got' = [got EXCEPT ![c] = data[node[c]]]
            /\ To(c, "withdraw")
            /\ UNCHANGED node
       ELSE Holds(c, head.ptr) /\ To(c, "publish") /\ UNCHANGED <<head, got>>
    /\ UNCHANGED <<next, data, live, todo, fault, hazardVars>>

Withdraw(c) ==
    /\ pc[c] = "withdraw"
    /\ pointer' = [pointer EXCEPT ![Owned(c)] = Null]
    /\ IF node[c] = Null THEN Returns(c) /\ UNCHANGED current
       ELSE To(c, "scan") /\ current' = [current EXCEPT ![c] = <<node[c]>>] /\ UNCHANGED todo
    /\ UNCHANGED <<head, next, data, live, node, got, fault, id, nodes_to_reclaim, slot>>

(* outstanding_hazard_pointers_for(), one slot at a time: for the node of   *)
(* pop(), and then for each node of the list that it claims.                *)
Judged(c) ==
    /\ current' = [current EXCEPT ![c] = Tail(@)]
    /\ slot' = [slot EXCEPT ![c] = 0]

ScanNext(c) ==
    /\ pc[c] \in {"scan", "sweep"}
    /\ current[c] # <<>>
    /\ slot[c] \in Slot
    /\ IF pointer[slot[c]] = Head(current[c])
       THEN nodes_to_reclaim' = <<Head(current[c])>> \o nodes_to_reclaim /\ Judged(c)
       ELSE slot' = [slot EXCEPT ![c] = @ + 1] /\ UNCHANGED <<nodes_to_reclaim, current>>
    /\ UNCHANGED <<head, next, data, live, pc, todo, node, got, fault, id, pointer>>

DeleteScanned(c) ==
    /\ pc[c] \in {"scan", "sweep"}
    /\ current[c] # <<>>
    /\ slot[c] \notin Slot
    /\ Delete({Head(current[c])})
    /\ Judged(c)
    /\ UNCHANGED <<head, pc, todo, node, got, fault, id, pointer, nodes_to_reclaim>>

(* Mutant: what other threads still protect is not put back.                *)
ClaimListDropped(c) ==
    /\ pc[c] = "scan"
    /\ current[c] = <<>>
    /\ current' = [current EXCEPT ![c] = IF nodes_to_reclaim = <<>> THEN <<>>
                                         ELSE <<Head(nodes_to_reclaim)>>]
    /\ nodes_to_reclaim' = <<>>
    /\ To(c, "sweep")
    /\ UNCHANGED <<head, next, data, live, todo, node, got, fault, id, pointer, slot>>

ClaimList(c) ==
    /\ pc[c] = "scan"
    /\ current[c] = <<>>
    /\ current' = [current EXCEPT ![c] = nodes_to_reclaim]
    /\ nodes_to_reclaim' = <<>>
    /\ To(c, "sweep")
    /\ UNCHANGED <<head, next, data, live, todo, node, got, fault, id, pointer, slot>>

PopReturn(c) ==
    /\ pc[c] = "sweep"
    /\ current[c] = <<>>
    /\ Returns(c)
    /\ Holds(c, Null)
    /\ UNCHANGED <<head, next, data, live, got, fault, hazardVars>>

(* ~HPOwner() when the thread ends.                                         *)
Release(c) ==
    /\ todo[c] = <<>>
    /\ c \in {id[s] : s \in Slot}
    /\ id' = [id EXCEPT ![Owned(c)] = Null]
    /\ pointer' = [pointer EXCEPT ![Owned(c)] = Null]
    /\ UNCHANGED <<stackVars, nodes_to_reclaim, current, slot>>

Accessed(c) ==
    CASE pc[c] \in {"push", "exchange"} -> {node[c]}
      [] pc[c] \in {"scan", "sweep"} /\ current[c] # <<>> -> {Head(current[c])}
      [] OTHER -> {}

Step(c) ==
    \/ PushPlain(c)
    \/ PopCall(c) \/ Publish(c) \/ ReloadHead(c) \/ PopExchange(c) \/ Withdraw(c)
    \/ ScanNext(c) \/ DeleteScanned(c) \/ ClaimList(c) \/ PopReturn(c) \/ Release(c)

ClientStep(c) ==
    IF Accessed(c) \subseteq live THEN Step(c)
    ELSE (\E a \in Accessed(c) : Dereference(a)) /\ UNCHANGED hazardVars

Next == (fault = "none" /\ \E c \in Client : ClientStep(c)) \/ (Stopped /\ UNCHANGED vars)
Spec == Init /\ [][Next]_vars
-----------------------------------------------------------------------------
(* Properties.                                                              *)

(* No pop() reads a node that another has deleted, and none is deleted      *)
(* twice, though slots are scanned one after the other while they change.   *)
NoUseAfterFree == fault = "none"

(* Every node is on the stack or waits to be reclaimed, exactly once.       *)
NoLeak ==
    /\ \A i, j \in DOMAIN nodes_to_reclaim : i # j => nodes_to_reclaim[i] # nodes_to_reclaim[j]
    /\ (\A c \in Client : pc[c] = "idle") =>
          live = {Nodes[i] : i \in DOMAIN Nodes}
                    \cup {nodes_to_reclaim[i] : i \in DOMAIN nodes_to_reclaim}
=============================================================================
