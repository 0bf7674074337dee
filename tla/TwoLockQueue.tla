----------------------------- MODULE TwoLockQueue -----------------------------
(***************************************************************************)
(* The queues with a mutex for each end: Queue of data-separated-queue.cpp *)
(* and push() and try_pop() of complex-interface-data-separated-queue.cpp, *)
(* which differ in the order in which push() fills the dummy node.  (The   *)
(* second file's wait_and_pop() and try_pop(T&) are templates that do not  *)
(* compile once they are used.)                                            *)
(*                                                                         *)
(* Nodes are numbered in the order of their allocation; the last one in    *)
(* the list is the dummy that tail points to.                              *)
(***************************************************************************)
EXTENDS Integers, Sequences, FiniteSets

CONSTANTS
    Client,
    QueueCalls,     \* functions from Client to what it calls: a value to push, or Empty to pop
    Empty,       \* what try_pop() returns when it finds nothing
    Free         \* a mutex nobody owns, and a unique_ptr that is empty

VARIABLES
    todo, pc,
    fill,                  \* the members of the dummy push() sets, in that order
    head, tail,
    next, value,           \* of the nodes, as sequences over their numbers
    live,                  \* the nodes that are allocated
    head_mutex, tail_mutex,
    node,                  \* the node a call works on: new_node, or old_head
    returned,              \* what the last try_pop() of each client returned
    sawEmpty               \* history: the queue was empty during this call

vars == <<todo, pc, fill, head, tail, next, value, live, head_mutex, tail_mutex, node,
          returned, sawEmpty>>

DataFirst == <<"value", "next">>
NextFirst == <<"next", "value">>

Init ==
    /\ todo \in QueueCalls
    /\ fill \in {DataFirst, NextFirst}
    /\ pc = [c \in Client |-> "idle"]
    /\ head = 1 /\ tail = 1
    /\ next = <<Free>> /\ value = <<Empty>>
    /\ live = {1}
    /\ head_mutex = Free /\ tail_mutex = Free
    /\ node = [c \in Client |-> Free]
    /\ returned = [c \in Client |-> Empty]
    /\ sawEmpty = [c \in Client |-> FALSE]

Goto(c, from, to) == pc[c] = from /\ pc' = [pc EXCEPT ![c] = to]

-----------------------------------------------------------------------------
(* push(): node is the new dummy                                            *)
Call(c) ==
    /\ todo[c] # <<>>
    /\ Goto(c, "idle", IF Head(todo[c]) = Empty THEN "lock head" ELSE "lock tail")
    /\ UNCHANGED <<todo, fill, head, tail, next, value, live, head_mutex, tail_mutex, node, returned>>

(* Mutant: push() does not lock tail_mutex.                                 *)
LockTailNot(c) ==
    /\ Goto(c, "lock tail", "fill 1")
    /\ node' = [node EXCEPT ![c] = Len(next) + 1]
    /\ live' = live \cup {Len(next) + 1}
    /\ next' = Append(next, Free)
    /\ value' = Append(value, Empty)
    /\ UNCHANGED <<todo, fill, head, tail, head_mutex, tail_mutex, returned>>

LockTail(c) ==
    /\ Goto(c, "lock tail", "fill 1")
    /\ tail_mutex = Free
    /\ tail_mutex' = c
    /\ node' = [node EXCEPT ![c] = Len(next) + 1]
    /\ live' = live \cup {Len(next) + 1}
    /\ next' = Append(next, Free)
    /\ value' = Append(value, Empty)
    /\ UNCHANGED <<todo, fill, head, tail, head_mutex, returned>>

Fills(c, member) ==
    IF member = "value"
    THEN value' = [value EXCEPT ![tail] = Head(todo[c])] /\ UNCHANGED next
    ELSE next' = [next EXCEPT ![tail] = node[c]] /\ UNCHANGED value

Fill(c) ==
    /\ \/ Goto(c, "fill 1", "fill 2") /\ Fills(c, fill[1])
       \/ Goto(c, "fill 2", "swing") /\ Fills(c, fill[2])
    /\ UNCHANGED <<todo, fill, head, tail, live, head_mutex, tail_mutex, node, returned>>

SwingTail(c) ==
    /\ Goto(c, "swing", "unlock tail")
    /\ tail' = node[c]
    /\ node' = [node EXCEPT ![c] = Free]
    /\ UNCHANGED <<todo, fill, head, next, value, live, head_mutex, tail_mutex, returned>>

UnlockTail(c) ==
    /\ Goto(c, "unlock tail", "idle")
    /\ tail_mutex' = Free
    /\ todo' = [todo EXCEPT ![c] = Tail(@)]
    /\ UNCHANGED <<fill, head, tail, next, value, live, head_mutex, node, returned>>

-----------------------------------------------------------------------------
(* try_pop() and pop_head(): node is old_head                               *)
LockHead(c) ==
    /\ Goto(c, "lock head", "get tail")
    /\ head_mutex = Free
    /\ head_mutex' = c
    /\ UNCHANGED <<todo, fill, head, tail, next, value, live, tail_mutex, node, returned>>

Answer(c, v) ==
    /\ returned' = [returned EXCEPT ![c] = v]
    /\ todo' = [todo EXCEPT ![c] = Tail(@)]

(* Mutant: the queue counts as empty when the head has no successor.        *)
GetTailNext(c) ==
    /\ \/ /\ next[head] # Free
          /\ Goto(c, "get tail", "move head")
          /\ UNCHANGED <<head_mutex, todo, returned>>
       \/ /\ next[head] = Free
          /\ Goto(c, "get tail", "idle")
          /\ head_mutex' = Free
          /\ Answer(c, Empty)
    /\ UNCHANGED <<fill, head, tail, next, value, live, tail_mutex, node>>

(* get_tail() in its own critical section.                                  *)
GetTail(c) ==
    /\ tail_mutex = Free
    /\ \/ /\ head # tail
          /\ Goto(c, "get tail", "move head")
          /\ UNCHANGED <<head_mutex, todo, returned>>
       \/ /\ head = tail
          /\ Goto(c, "get tail", "idle")
          /\ head_mutex' = Free
          /\ Answer(c, Empty)
    /\ UNCHANGED <<fill, head, tail, next, value, live, tail_mutex, node>>

MoveHead(c) ==
    /\ Goto(c, "move head", "read value")
    /\ node' = [node EXCEPT ![c] = head]
    /\ head' = next[head]
    /\ next' = [next EXCEPT ![head] = Free]
    /\ head_mutex' = Free
    /\ UNCHANGED <<todo, fill, tail, value, live, tail_mutex, returned>>

(* The value is read, and old_head deleted, outside of both mutexes.        *)
ReadValue(c) ==
    /\ Goto(c, "read value", "idle")
    /\ Answer(c, value[node[c]])
    /\ live' = live \ {node[c]}
    /\ node' = [node EXCEPT ![c] = Free]
    /\ UNCHANGED <<fill, head, tail, next, value, head_mutex, tail_mutex>>

-----------------------------------------------------------------------------
(* The abstract queue.                                                      *)
Items == LET Follow[n \in 1 .. Len(next)] ==
                 IF n = tail \/ next[n] = Free THEN <<>> ELSE <<value[n]>> \o Follow[next[n]]
         IN  Follow[head]
Status == [c \in Client |->
              CASE pc[c] = "idle" -> "idle"
                [] pc[c] \in {"lock tail", "fill 1", "fill 2", "swing"} -> "enqueue"
                [] pc[c] = "unlock tail" -> "enqueued"
                [] pc[c] \in {"lock head", "get tail", "move head"} -> "dequeue"
                [] pc[c] = "read value" -> "dequeued"]
Observe == sawEmpty' = [c \in Client |-> Status'[c] = "dequeue" /\ (sawEmpty[c] \/ Items' = <<>>)]

Step(c) ==
    /\ \/ Call(c) \/ LockTail(c) \/ Fill(c) \/ SwingTail(c) \/ UnlockTail(c)
       \/ LockHead(c) \/ GetTail(c) \/ MoveHead(c) \/ ReadValue(c)
    /\ Observe

Ended == \A c \in Client : todo[c] = <<>>
Next == (\E c \in Client : Step(c)) \/ (Ended /\ UNCHANGED vars)
Spec == Init /\ [][Next]_vars /\ \A c \in Client : WF_vars(Step(c))

-----------------------------------------------------------------------------
(* Properties.                                                              *)

(* What the next step of c reads and writes without an atomic access.       *)
Reads(c) ==
    CASE pc[c] = "get tail" /\ tail_mutex = Free -> {<<"head">>, <<"tail">>}
      [] pc[c] = "move head" -> {<<"head">>, <<head, "next">>}
      [] pc[c] \in {"fill 1", "fill 2", "swing"} -> {<<"tail">>}
      [] pc[c] = "read value" -> {<<node[c], "value">>}
      [] OTHER -> {}
Writes(c) ==
    CASE pc[c] = "fill 1" -> {<<tail, fill[1]>>}
      [] pc[c] = "fill 2" -> {<<tail, fill[2]>>}
      [] pc[c] = "swing" -> {<<"tail">>}
      [] pc[c] = "move head" -> {<<"head">>, <<head, "next">>}
      [] pc[c] = "read value" -> {<<node[c], "value">>, <<node[c], "next">>}
      [] OTHER -> {}

(* Both ends work on one node when the queue is nearly empty, each under    *)
(* its own mutex: they never access the same member of it, or a pointer, at *)
(* once, and no node is used after it was deleted.                          *)
NoDataRace ==
    /\ \A c, d \in Client : c # d => Writes(c) \cap (Reads(d) \cup Writes(d)) = {}
    /\ {head, tail} \subseteq live
    /\ \A c \in Client : node[c] # Free => node[c] \in live

(* The queue is linearizable: push() takes effect when it moves tail, and   *)
(* try_pop() when it moves head.                                            *)
Value == UNION {UNION {{s[c][i] : i \in DOMAIN s[c]} : c \in Client} : s \in QueueCalls} \ {Empty}
Val == [c \in Client |->
           CASE Status[c] = "enqueue" -> Head(todo[c])
             [] Status[c] = "dequeued" -> value[node[c]]
             [] OTHER -> Empty]
Fifo == INSTANCE FifoQueue WITH
    Item <- Value, NoItem <- Empty, Initial <- Empty, items <- Items, status <- Status, val <- Val
ImplementsFifo == Fifo!Spec
=============================================================================
