------------------------------ MODULE FifoQueue ------------------------------
(***************************************************************************)
(* What a thread-safe FIFO queue promises its callers: every call takes    *)
(* effect at one moment between its invocation and its return.             *)
(*                                                                         *)
(* A dequeue that returns Empty is right if the queue was empty at some    *)
(* moment of the call; sawEmpty remembers that there was one.              *)
(***************************************************************************)
EXTENDS Integers, Sequences

CONSTANTS
    Client,   \* the threads that call the queue
    Item,     \* what may be enqueued
    NoItem,   \* what a dequeue returns when it found nothing
    Initial   \* what results are before the first call

VARIABLES
    items,     \* the contents, oldest first
    status,    \* per client: no call, a call before, or a call after its effect
    val,       \* per client: the item being enqueued, or dequeued
    sawEmpty,  \* per client: the queue was empty at some moment of this call
    returned   \* per client: what its last dequeue returned

qvars == <<items, status, val, sawEmpty, returned>>

Status == {"idle", "enqueue", "enqueued", "dequeue", "dequeued"}

Init ==
    /\ items = <<>>
    /\ status = [c \in Client |-> "idle"]
    /\ val = [c \in Client |-> NoItem]
    /\ sawEmpty = [c \in Client |-> FALSE]
    /\ returned = [c \in Client |-> Initial]

Moves(c, from, to) ==
    /\ status[c] = from
    /\ status' = [status EXCEPT ![c] = to]

(* Every step updates sawEmpty for all the calls in progress.               *)
Observe ==
    sawEmpty' = [c \in Client |-> /\ status'[c] = "dequeue"
                                  /\ sawEmpty[c] \/ items' = <<>>]

InvokeEnqueue(c) ==
    /\ Moves(c, "idle", "enqueue")
    /\ \E v \in Item : val' = [val EXCEPT ![c] = v]
    /\ Observe
    /\ UNCHANGED <<items, returned>>

Enqueue(c) ==
    /\ Moves(c, "enqueue", "enqueued")
    /\ items' = Append(items, val[c])
    /\ val' = [val EXCEPT ![c] = NoItem]
    /\ Observe
    /\ UNCHANGED returned

RespondEnqueue(c) ==
    /\ Moves(c, "enqueued", "idle")
    /\ Observe
    /\ UNCHANGED <<items, val, returned>>

InvokeDequeue(c) ==
    /\ Moves(c, "idle", "dequeue")
    /\ Observe
    /\ UNCHANGED <<items, val, returned>>

Dequeue(c) ==
    /\ items # <<>>
    /\ Moves(c, "dequeue", "dequeued")
    /\ items' = Tail(items)
    /\ val' = [val EXCEPT ![c] = Head(items)]
    /\ Observe
    /\ UNCHANGED returned

RespondDequeue(c) ==
    /\ Moves(c, "dequeued", "idle")
    /\ returned' = [returned EXCEPT ![c] = val[c]]
    /\ val' = [val EXCEPT ![c] = NoItem]
    /\ Observe
    /\ UNCHANGED items

RespondEmpty(c) ==
    /\ sawEmpty[c]
    /\ Moves(c, "dequeue", "idle")
    /\ returned' = [returned EXCEPT ![c] = NoItem]
    /\ Observe
    /\ UNCHANGED <<items, val>>

Next ==
    \E c \in Client :
        \/ InvokeEnqueue(c) \/ Enqueue(c) \/ RespondEnqueue(c)
        \/ InvokeDequeue(c) \/ Dequeue(c) \/ RespondDequeue(c) \/ RespondEmpty(c)

Spec == Init /\ [][Next]_qvars
=============================================================================
