---------------------------- MODULE MessagePassing ----------------------------
(***************************************************************************)
(* src/message-passing.cpp: two agents at the ends of a MessagePipe, each  *)
(* a state machine in a thread of its own.  A state sends messages and     *)
(* then waits for one that a handler of its chain accepts: its dispatcher  *)
(* drops what no handler accepts, and ends the agent with an exception on  *)
(* CloseQueueMessage.                                                      *)
(***************************************************************************)
EXTENDS Integers, Sequences, FiniteSets

Agent == {"Proposer", "Acceptor"}
Other(a) == CHOOSE b \in Agent : b # a
Closed == "closed"

(* A message of a type that nobody handles, which the Proposer may send     *)
(* before all others.  (That of main() does not.)                           *)
Unexpected == "Unexpected"

(* What each state sends before it waits, and its handlers: what a message  *)
(* makes the agent send and which state comes next.                         *)
NoHandlers == [m \in {} |-> <<>>]
States(a) ==
    IF a = "Proposer"
    THEN [initial_state |->
             [sends |-> <<"NumberToOutput", "SwitchState">>,
              handles |-> [m \in {"IHaveSwitchedMyState"} |-> [sends |-> <<>>, state |-> "new_state"]]],
          new_state |->
             [sends |-> <<"NumberToIncrementAndOutput", "CloseQueueMessage">>, handles |-> NoHandlers]]
    ELSE [initial_state |->
             [sends |-> <<>>,
              handles |-> [m \in {"NumberToOutput", "SwitchState"} |->
                              IF m = "SwitchState"
                              THEN [sends |-> <<"IHaveSwitchedMyState">>, state |-> "new_state"]
                              ELSE [sends |-> <<>>, state |-> "initial_state"]]],
          new_state |->
             [sends |-> <<>>,
              handles |-> [m \in {"NumberToIncrementAndOutput"} |->
                              [sends |-> <<"CloseQueueMessage">>, state |-> "new_state"]]]]

VARIABLES
    data,       \* the Queue that each agent receives from
    state,      \* of each StatefullRunner
    sending,    \* what an agent has still to send before it goes on
    running,    \* what it does after that: call its state, wait, or nothing any more
    dropped     \* history: the messages that no handler accepted

vars == <<data, state, sending, running, dropped>>

Init ==
    /\ data = [a \in Agent |-> <<>>]
    /\ state = [a \in Agent |-> "initial_state"]
    /\ \E first \in {<<>>, <<Unexpected>>} :
          sending = [a \in Agent |-> IF a = "Proposer" THEN first ELSE <<>>]
    /\ running = [a \in Agent |-> "call"]
    /\ dropped = <<>>

-----------------------------------------------------------------------------
(* run() calls the state.                                                   *)
CallState(a) ==
    /\ running[a] = "call" /\ sending[a] = <<>>
    /\ sending' = [sending EXCEPT ![a] = States(a)[state[a]].sends]
    /\ running' = [running EXCEPT ![a] = "wait"]
    /\ UNCHANGED <<data, state, dropped>>

(* Mutant: the message overtakes what waits in the queue.                   *)
SendFirst(a) ==
    /\ sending[a] # <<>>
    /\ data' = [data EXCEPT ![Other(a)] = <<Head(sending[a])>> \o @]
    /\ sending' = [sending EXCEPT ![a] = Tail(@)]
    /\ UNCHANGED <<state, running, dropped>>

(* Queue::push() to the other agent; a waiting pop() is woken with it.      *)
Send(a) ==
    /\ sending[a] # <<>>
    /\ data' = [data EXCEPT ![Other(a)] = Append(@, Head(sending[a]))]
    /\ sending' = [sending EXCEPT ![a] = Tail(@)]
    /\ UNCHANGED <<state, running, dropped>>

(* wait_and_dispatch() takes the next message, blocking until there is one. *)
Pops(a) ==
    /\ running[a] = "wait" /\ sending[a] = <<>>
    /\ data[a] # <<>>
    /\ data' = [data EXCEPT ![a] = Tail(@)]
Handlers(a) == States(a)[state[a]].handles

(* TemplateDispatcher::dispatch() finds the message's type in its chain,    *)
(* and the dispatcher's destructor ends.                                    *)
Handle(a) ==
    /\ Pops(a)
    /\ Head(data[a]) \in DOMAIN Handlers(a)
    /\ LET f == Handlers(a)[Head(data[a])]
       IN  /\ state' = [state EXCEPT ![a] = f.state]
           /\ sending' = [sending EXCEPT ![a] = f.sends]
    /\ running' = [running EXCEPT ![a] = "call"]
    /\ UNCHANGED dropped

(* Dispatcher::dispatch(): the end of the chain                             *)
Close(a) ==
    /\ Pops(a)
    /\ Head(data[a]) = "CloseQueueMessage"
    /\ running' = [running EXCEPT ![a] = Closed]
    /\ UNCHANGED <<state, sending, dropped>>
Drop(a) ==
    /\ Pops(a)
    /\ Head(data[a]) \notin DOMAIN Handlers(a) \cup {"CloseQueueMessage"}
    /\ dropped' = Append(dropped, <<a, Head(data[a])>>)
    /\ UNCHANGED <<state, sending, running>>

Step(a) == CallState(a) \/ Send(a) \/ Handle(a) \/ Close(a) \/ Drop(a)
Ended == \A a \in Agent : running[a] = Closed
Next == (\E a \in Agent : Step(a)) \/ (Ended /\ UNCHANGED vars)
Spec == Init /\ [][Next]_vars /\ \A a \in Agent : WF_vars(Step(a))

-----------------------------------------------------------------------------
(* Properties.                                                              *)

(* The agents agree on when they switch their states: every message of the  *)
(* protocol reaches the other agent in a state that handles it, whatever is *)
(* dropped before it, and none is left unread in the end.                   *)
NothingDropped ==
    /\ \A i \in DOMAIN dropped : dropped[i][2] = Unexpected
    /\ Ended => \A a \in Agent : data[a] = <<>>

(* Both agents end: neither waits for a message that the other never sends. *)
Termination == <>Ended
=============================================================================
