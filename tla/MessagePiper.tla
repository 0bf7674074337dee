----------------------------- MODULE MessagePiper -----------------------------
(***************************************************************************)
(* src/numerator.cpp: the edges of a graph of message processors are a     *)
(* list of types; a chain of base classes, one per edge and the last edge  *)
(* first, numbers the processors and the edges and gives each edge a       *)
(* queue.  main() pings processor 0 and then lets each edge in turn        *)
(* deliver a message.                                                      *)
(***************************************************************************)
EXTENDS Integers, Sequences, FiniteSets, SequencesExt

CONSTANTS Trees, Rounds     \* the lists of edges tried; the iterations of main()'s loop

Edge(from, to, message) == [From |-> from, To |-> to, Message |-> message]
MainTree == <<Edge("A", "B", "IntMessage"), Edge("B", "A", "DoubleMessage")>>

VARIABLES
    edges,                      \* in the order of registration: that of the tree reversed
    message_processors,         \* the type of each
    cur_from_index, cur_to_index,   \* of each edge that is registered
    dest_pipes,                 \* per processor, the edges that lead to it
    queues,                     \* per edge
    turn                        \* how often main() has called NotifyAboutMessage(), or -1

vars == <<edges, message_processors, cur_from_index, cur_to_index, dest_pipes, queues, turn>>

Init ==
    /\ \E tree \in Trees : edges = Reverse(tree)
    /\ message_processors = <<>>
    /\ cur_from_index = <<>> /\ cur_to_index = <<>>
    /\ dest_pipes = <<>>
    /\ queues = <<>>
    /\ turn = -1

(* Mutant: a processor is looked for among those before the last.           *)
IndexInFront(before, type) ==
    LET known == {i \in DOMAIN before : i < Len(before) /\ before[i] = type}
    IN  IF known = {} THEN 0 ELSE CHOOSE i \in known : TRUE

-----------------------------------------------------------------------------
(* GetMessageProcessorIndexImpl() of the base class knows the processors of *)
(* the edges before; 0 if there is none.                                    *)
IndexIn(before, type) ==
    LET known == {i \in DOMAIN before : before[i] = type}
    IN  IF known = {} THEN 0 ELSE CHOOSE i \in known : TRUE

(* Both ends of an edge, two different processors, are looked for in the    *)
(* base class.                                                              *)
AddMessageProcessors ==
    LET e == Len(cur_to_index) + 1
        from == IndexIn(message_processors, edges[e].From)
        withFrom == IF from = 0 THEN Append(message_processors, edges[e].From) ELSE message_processors
        to == IndexIn(message_processors, edges[e].To)
        withTo == IF to = 0 THEN Append(withFrom, edges[e].To) ELSE withFrom
        to_index == IF to = 0 THEN Len(withTo) ELSE to
    IN  /\ turn = -1 /\ e <= Len(edges)
        /\ message_processors' = withTo
        /\ cur_from_index' = Append(cur_from_index, IF from = 0 THEN Len(withFrom) ELSE from)
        /\ cur_to_index' = Append(cur_to_index, to_index)
        /\ dest_pipes' = [p \in DOMAIN withTo |->
                             (IF p \in DOMAIN dest_pipes THEN dest_pipes[p] ELSE {}) \cup
                             (IF p = to_index THEN {e} ELSE {})]
        /\ queues' = [i \in 1 .. e |-> <<>>]
        /\ UNCHANGED <<edges, turn>>

-----------------------------------------------------------------------------
(* Send() finds the queue by the type of the edge.                          *)
Sent(qs, from, to, message, a) ==
    [e \in DOMAIN qs |-> IF edges[e] = Edge(from, to, message) THEN Append(qs[e], a) ELSE qs[e]]

(* Ping() of processor 0, if it is a B; that of an A is empty.              *)
Ping ==
    /\ Reverse(edges) = MainTree /\ Len(cur_to_index) = Len(edges)
    /\ turn = -1
    /\ turn' = 0
    /\ queues' = IF message_processors[1] = "B" THEN Sent(queues, "B", "A", "DoubleMessage", 1) ELSE queues
    /\ UNCHANGED <<edges, message_processors, cur_from_index, cur_to_index, dest_pipes>>

(* Receive() of an A answers with an IntMessage, that of a B with a double. *)
Receive(processor, qs, value) ==
    IF processor = "A" THEN Sent(qs, "A", "B", "IntMessage", value + 2)
    ELSE Sent(qs, "B", "A", "DoubleMessage", value + 3)

(* NotifyAboutMessage() of edge 0 and edge 1 in turn: the front of the      *)
(* queue goes to Receive() of the processor that the edge leads to.         *)
Turn == (turn % 2) + 1
NotifyAboutMessage ==
    /\ turn >= 0 /\ turn < 2 * Rounds
    /\ queues[Turn] # <<>>
    /\ LET value == Head(queues[Turn])
           rest == [queues EXCEPT ![Turn] = Tail(@)]
       IN  queues' = Receive(message_processors[cur_to_index[Turn]], rest, value)
    /\ turn' = turn + 1
    /\ UNCHANGED <<edges, message_processors, cur_from_index, cur_to_index, dest_pipes>>

Step == AddMessageProcessors \/ Ping \/ NotifyAboutMessage
Ended == IF Reverse(edges) = MainTree THEN turn = 2 * Rounds ELSE Len(cur_to_index) = Len(edges)
Next == Step \/ (Ended /\ UNCHANGED vars)
Spec == Init /\ [][Next]_vars /\ WF_vars(Step)

-----------------------------------------------------------------------------
(* Properties.                                                              *)

(* Every edge is wired to a processor of the type it names, and there is    *)
(* one of each.                                                             *)
Wired ==
    /\ \A e \in DOMAIN cur_to_index :
          /\ message_processors[cur_from_index[e]] = edges[e].From
          /\ message_processors[cur_to_index[e]] = edges[e].To
          /\ {p \in DOMAIN dest_pipes : e \in dest_pipes[p]} = {cur_to_index[e]}
    /\ IsInjective(message_processors)

(* When main() has an edge deliver a message there is exactly one, and it   *)
(* is there: no front() of an empty queue.                                  *)
OneInTransit ==
    turn >= 0 => \A e \in DOMAIN queues : Len(queues[e]) = IF e = Turn THEN 1 ELSE 0

(* main() gets to the end of its loop.                                      *)
Termination == <>Ended
=============================================================================
