---------------------- MODULE ThreadSafeQueueRefinement ----------------------
(***************************************************************************)
(* ThreadSafeQueue implements FifoQueue.  enqueue() takes effect when it   *)
(* links its Element (line 126), dequeue() when it moves head (line 152).  *)
(* sawEmpty is a history variable: the code knows nothing of it.           *)
(***************************************************************************)
EXTENDS ThreadSafeQueue, TLC

VARIABLE sawEmpty

(* The values in the Elements after the first one.                          *)
Contents(first, link, data) ==
    LET at == Walk(first, link)
        length == Cardinality({i \in 1 .. Cardinality(Addr) : at[i] # Null})
    IN  [i \in 1 .. length |-> data[at[i]]]

StatusOf(p) ==
    CASE p \in EnqueuePc \ {"enq_swing"}  -> "enqueue"
      [] p = "enq_swing"                  -> "enqueued"
      [] p \in DequeuePc \ {"deq_remove"} -> "dequeue"
      [] p = "deq_remove"                 -> "dequeued"
      [] OTHER                            -> "idle"

itemsView == Contents(head, next, stored_value)
statusView == [t \in Threads |-> StatusOf(pc[t])]
valView == [t \in Threads |->
              CASE statusView[t] = "enqueue"  -> stored_value[new_element[t]]
                [] statusView[t] = "dequeued" -> stored_value[succ[t]]
                [] OTHER                      -> Empty]

HistoryInit == Init /\ sawEmpty = [t \in Threads |-> FALSE]
HistoryNext ==
    /\ Next
    /\ sawEmpty' = [t \in Threads |-> /\ statusView'[t] = "dequeue"
                                      /\ sawEmpty[t] \/ itemsView' = <<>>]
HistorySpec == HistoryInit /\ [][HistoryNext]_<<vars, sawEmpty>>

Fifo == INSTANCE FifoQueue WITH
    Client <- Threads, Item <- Value, NoItem <- Empty, Initial <- Empty,
    items <- itemsView, status <- statusView, val <- valView,
    returned <- result

(* The queue is linearizable: whatever the interleaving of the threads, the *)
(* hazards and the deletions, callers see a FIFO queue that loses nothing,  *)
(* invents nothing and says EMPTY only if it was.                           *)
ImplementsFifo == Fifo!Spec
=============================================================================
