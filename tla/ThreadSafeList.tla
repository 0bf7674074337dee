---------------------------- MODULE ThreadSafeList ----------------------------
(***************************************************************************)
(* The list of src/thread-safe-list.cpp: a mutex per node and traversals   *)
(* that lock the next node before they unlock the one they stand on.       *)
(*                                                                         *)
(* find_first_if() is left out: its parameter has another name than its    *)
(* body, so that it does not compile once it is used.                      *)
(***************************************************************************)
EXTENDS Integers, Sequences, FiniteSets, SequencesExt

CONSTANTS
    Client,
    ListCalls,     \* functions from Client to sequences of calls
    Nobody       \* the owner of a mutex that is not locked

(* A node goes by the element in it; no element is pushed twice.            *)
HeadNode == 0
Nil == -1

VARIABLES
    todo, pc,
    next,            \* next of HeadNode and of each node
    owner,           \* of each node's mutex
    allocated,       \* the nodes that are allocated
    removed,         \* history: the elements that were unlinked
    current, ahead,  \* the locals current and next of each traversal
    visited,         \* the elements f, or p, was called with
    snapshot         \* history: the list when the traversal locked its head

vars == <<todo, pc, next, owner, allocated, removed, current, ahead, visited, snapshot>>

Push(x) == [call |-> "push_front", element |-> x]
ForEach == [call |-> "for_each"]
RemoveIf(p) == [call |-> "remove_if", p |-> p]     \* the elements p is true of

Calls(c) == Head(todo[c])
Pushed(c) == {x \in ToSet(todo[c]) : x.call = "push_front"}

Contents ==
    LET Follow[n \in DOMAIN next] ==
            IF next[n] = Nil THEN <<>> ELSE <<next[n]>> \o Follow[next[n]]
    IN  Follow[HeadNode]

Init ==
    /\ todo \in ListCalls
    /\ pc = [c \in Client |-> "idle"]
    /\ LET nodes == {HeadNode} \cup {x.element : x \in UNION {Pushed(c) : c \in Client}}
       IN  /\ next = [n \in nodes |-> Nil]
           /\ owner = [n \in nodes |-> Nobody]
    /\ allocated = {HeadNode}
    /\ removed = {}
    /\ current = [c \in Client |-> HeadNode]
    /\ ahead = [c \in Client |-> Nil]
    /\ visited = [c \in Client |-> <<>>]
    /\ snapshot = [c \in Client |-> <<>>]

Goto(c, from, to) == pc[c] = from /\ pc' = [pc EXCEPT ![c] = to]

-----------------------------------------------------------------------------
(* push_front() holds the mutex of the head from its first access on.       *)
PushFront(c) ==
    /\ todo[c] # <<>>
    /\ Calls(c).call = "push_front"
    /\ owner[HeadNode] = Nobody
    /\ LET new_node == Calls(c).element
       IN  /\ next' = [next EXCEPT ![HeadNode] = new_node, ![new_node] = next[HeadNode]]
           /\ allocated' = allocated \cup {new_node}
    /\ todo' = [todo EXCEPT ![c] = Tail(@)]
    /\ UNCHANGED <<pc, owner, removed, current, ahead, visited, snapshot>>

(* for_each() and remove_if()                                               *)
LockHead(c) ==
    /\ todo[c] # <<>>
    /\ Calls(c).call # "push_front"
    /\ owner[HeadNode] = Nobody
    /\ Goto(c, "idle", "read next")
    /\ owner' = [owner EXCEPT ![HeadNode] = c]
    /\ current' = [current EXCEPT ![c] = HeadNode]
    /\ visited' = [visited EXCEPT ![c] = <<>>]
    /\ snapshot' = [snapshot EXCEPT ![c] = Contents]
    /\ UNCHANGED <<todo, next, allocated, removed, ahead>>

ReadNext(c) ==
    /\ next[current[c]] # Nil
    /\ Goto(c, "read next", "lock next")
    /\ ahead' = [ahead EXCEPT ![c] = next[current[c]]]
    /\ UNCHANGED <<todo, next, owner, allocated, removed, current, visited, snapshot>>

(* Mutant: the node is unlocked before the next one is locked.              *)
ReadNextUnlocking(c) ==
    /\ next[current[c]] # Nil
    /\ Goto(c, "read next", "lock next")
    /\ ahead' = [ahead EXCEPT ![c] = next[current[c]]]
    /\ owner' = [owner EXCEPT ![current[c]] = Nobody]
    /\ UNCHANGED <<todo, next, allocated, removed, current, visited, snapshot>>

AtEnd(c) ==
    /\ next[current[c]] = Nil
    /\ Goto(c, "read next", "idle")
    /\ owner' = [owner EXCEPT ![current[c]] = Nobody]
    /\ todo' = [todo EXCEPT ![c] = Tail(@)]
    /\ UNCHANGED <<next, allocated, removed, current, ahead, visited, snapshot>>

Matches(c) == Calls(c).call = "remove_if" /\ ahead[c] \in Calls(c).p

LockNext(c) ==
    /\ Goto(c, "lock next", IF Matches(c) THEN "unlink" ELSE "unlock")
    /\ owner[ahead[c]] = Nobody
    /\ owner' = [owner EXCEPT ![ahead[c]] = c]
    /\ UNCHANGED <<todo, next, allocated, removed, current, ahead, visited, snapshot>>

(* lock.unlock(); in for_each(), f is called after it.                      *)
Unlock(c) ==
    /\ Goto(c, "unlock", "advance")
    /\ owner' = [owner EXCEPT ![current[c]] = Nobody]
    /\ UNCHANGED <<todo, next, allocated, removed, current, ahead, visited, snapshot>>

Advance(c) ==
    /\ Goto(c, "advance", "read next")
    /\ visited' = [visited EXCEPT ![c] = Append(@, ahead[c])]
    /\ current' = [current EXCEPT ![c] = ahead[c]]
    /\ UNCHANGED <<todo, next, owner, allocated, removed, ahead, snapshot>>

(* Mutant: the rest of the list goes with the node.                         *)
UnlinkRest(c) ==
    /\ Goto(c, "unlink", "delete")
    /\ next' = [next EXCEPT ![current[c]] = Nil]
    /\ owner' = [owner EXCEPT ![ahead[c]] = Nobody]
    /\ removed' = removed \cup {ahead[c]}
    /\ UNCHANGED <<todo, allocated, current, ahead, visited, snapshot>>

(* Lines 58-60: the node is unlinked and its mutex unlocked...              *)
Unlink(c) ==
    /\ Goto(c, "unlink", "delete")
    /\ next' = [next EXCEPT ![current[c]] = next[ahead[c]], ![ahead[c]] = Nil]
    /\ owner' = [owner EXCEPT ![ahead[c]] = Nobody]
    /\ removed' = removed \cup {ahead[c]}
    /\ UNCHANGED <<todo, allocated, current, ahead, visited, snapshot>>

(* ... and old_next goes out of scope.                                      *)
Delete(c) ==
    /\ Goto(c, "delete", "read next")
    /\ allocated' = allocated \ {ahead[c]}
    /\ UNCHANGED <<todo, next, owner, removed, current, ahead, visited, snapshot>>

-----------------------------------------------------------------------------
Step(c) ==
    \/ PushFront(c) \/ LockHead(c) \/ ReadNext(c) \/ AtEnd(c) \/ LockNext(c)
    \/ Unlock(c) \/ Advance(c) \/ Unlink(c) \/ Delete(c)

Ended == \A c \in Client : todo[c] = <<>>
Next == (\E c \in Client : Step(c)) \/ (Ended /\ UNCHANGED vars)
Spec == Init /\ [][Next]_vars /\ \A c \in Client : WF_vars(Step(c))

-----------------------------------------------------------------------------
(* Properties.                                                              *)

(* Whoever waits for the mutex of a node, or goes on from one, has one that *)
(* is not deleted, though others remove nodes before and behind it, and     *)
(* exactly what is in the list is allocated.                                *)
NoUseAfterFree ==
    /\ \A c \in Client :
          /\ pc[c] \notin {"idle", "advance"} => current[c] \in allocated
          /\ pc[c] \in {"lock next", "unlink", "unlock", "advance", "delete"} => ahead[c] \in allocated
    /\ allocated = {HeadNode} \cup ToSet(Contents) \cup
                       {ahead[c] : c \in {d \in Client : pc[d] = "delete"}}

(* Traversals do not overtake each other: what one visits is what was in    *)
(* the list when it began, in that order, except for what others remove     *)
(* ahead of it.                                                             *)
Within(s, t) == \E keep \in SUBSET DOMAIN t :
                    s = [i \in 1 .. Cardinality(keep) |->
                            t[CHOOSE k \in keep : Cardinality({j \in keep : j <= k}) = i]]
TraversalComplete ==
    \A c \in Client :
        /\ Within(visited[c], snapshot[c])
        /\ \A i, j \in DOMAIN snapshot[c] :
              i < j /\ snapshot[c][j] \in ToSet(visited[c]) =>
                  snapshot[c][i] \in ToSet(visited[c]) \cup removed
        /\ pc[c] = "read next" /\ next[current[c]] = Nil =>
              ToSet(snapshot[c]) \subseteq ToSet(visited[c]) \cup removed
=============================================================================
