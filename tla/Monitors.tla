------------------------------- MODULE Monitors -------------------------------
(***************************************************************************)
(* Classes whose operations hold one mutex from their first to their last  *)
(* access, so that each is one step, and the programs that use them: the   *)
(* queues with one lock (src/queue-consumer-producer.cpp, test-queue.cpp,  *)
(* complex-interface-queue.cpp, shared-ptr-queue.cpp), the stack of        *)
(* mutex-stack.cpp, the turns of semaphore.cpp and the counter of          *)
(* shared_mutex.cpp.                                                       *)
(*                                                                         *)
(* What is left to go wrong is the waiting.  A thread that finds its       *)
(* condition false gives up the mutex and sleeps on a condition variable;  *)
(* it tests again when it is notified, or when it wakes for no reason.     *)
(***************************************************************************)
EXTENDS Integers, Sequences, FiniteSets

CONSTANTS
    Client,
    Programs,     \* records: what each client calls, and the capacity max_size
    None

VARIABLES
    todo,        \* the calls each client has still to make
    asleep,      \* the condition variable each client sleeps on, or "awake"
    max_size,
    items,       \* the queue, its front first, or the stack, its top last
    taken,       \* by each client, in order
    current, ready,     \* of semaphore.cpp
    terminated          \* an exception left a thread

vars == <<todo, asleep, max_size, items, taken, current, ready, terminated>>

Init ==
    /\ \E s \in Programs : todo = s.calls /\ max_size = s.max_size
    /\ asleep = [c \in Client |-> "awake"]
    /\ items = <<>>
    /\ taken = [c \in Client |-> <<>>]
    /\ current = 0
    /\ ready = FALSE
    /\ terminated = FALSE

-----------------------------------------------------------------------------
(* The condition variables                                                  *)

Calls(c, op) == todo[c] # <<>> /\ asleep[c] = "awake" /\ Head(todo[c])[1] = op
Argument(c) == Head(todo[c])[2]
Sleepers(cv) == {c \in Client : asleep[c] = cv}

Sleep(c, cv) ==
    /\ asleep' = [asleep EXCEPT ![c] = cv]
    /\ UNCHANGED <<todo, max_size, items, taken, current, ready, terminated>>

Wake(clients) == asleep' = [c \in Client |-> IF c \in clients THEN "awake" ELSE asleep[c]]
NotifyAll(cv) == Wake(Sleepers(cv))

(* Mutant: nobody is notified unless the queue was empty.                   *)
NotifyFirst(cv) == IF Sleepers(cv) = {} \/ items # <<>> THEN UNCHANGED asleep
                   ELSE \E c \in Sleepers(cv) : Wake({c})

NotifyOne(cv) == IF Sleepers(cv) = {} THEN UNCHANGED asleep
                 ELSE \E c \in Sleepers(cv) : Wake({c})

Spurious(c) ==
    /\ asleep[c] # "awake"
    /\ Wake({c})
    /\ UNCHANGED <<todo, max_size, items, taken, current, ready, terminated>>

Returns(c) == todo' = [todo EXCEPT ![c] = Tail(@)]

Puts(c, new_items) ==
    /\ items' = new_items
    /\ Returns(c)
    /\ UNCHANGED <<max_size, taken, current, ready, terminated>>
(* Mutant: one element beyond is taken, if there is one.                    *)
TakesNext(c, i) ==
    LET k == IF i < Len(items) THEN i + 1 ELSE i
    IN  /\ taken' = [taken EXCEPT ![c] = Append(@, items[k])]
        /\ items' = SubSeq(items, 1, k - 1) \o SubSeq(items, k + 1, Len(items))
        /\ Returns(c)
        /\ UNCHANGED <<max_size, current, ready, terminated>>
Takes(c, i) ==
    /\ taken' = [taken EXCEPT ![c] = Append(@, items[i])]
    /\ items' = SubSeq(items, 1, i - 1) \o SubSeq(items, i + 1, Len(items))
    /\ Returns(c)
    /\ UNCHANGED <<max_size, current, ready, terminated>>
Finds(c, nothing) ==
    /\ taken' = [taken EXCEPT ![c] = Append(@, nothing)]
    /\ Returns(c)
    /\ UNCHANGED <<asleep, max_size, items, current, ready, terminated>>

-----------------------------------------------------------------------------
(* Queue of queue-consumer-producer.cpp and test-queue.cpp                  *)
(* Mutant: the size is not waited for.                                      *)
PushUnbounded(c) ==
    /\ Calls(c, "Push")
    /\ Puts(c, Append(items, Argument(c))) /\ NotifyAll("empty_condition")

Push(c) ==
    /\ Calls(c, "Push")
    /\ \/ Len(items) < max_size /\ Puts(c, Append(items, Argument(c))) /\ NotifyAll("empty_condition")
       \/ Len(items) >= max_size /\ Sleep(c, "full_condition")
Pop(c) ==
    /\ Calls(c, "Pop")
    /\ \/ items # <<>> /\ Takes(c, 1) /\ NotifyAll("full_condition")
       \/ items = <<>> /\ Sleep(c, "empty_condition")

(* ComplexInterfaceQueue and SharedPtrQueue: push() wakes one waiting pop.  *)
push(c) == Calls(c, "push") /\ Puts(c, Append(items, Argument(c))) /\ NotifyOne("cond")
wait_and_pop(c) ==
    /\ Calls(c, "wait_and_pop")
    /\ \/ items # <<>> /\ Takes(c, 1) /\ UNCHANGED asleep
       \/ items = <<>> /\ Sleep(c, "cond")
try_pop(c) ==
    /\ Calls(c, "try_pop")
    /\ \/ items # <<>> /\ Takes(c, 1) /\ UNCHANGED asleep
       \/ items = <<>> /\ Finds(c, None)

shared_push(c) == Calls(c, "shared_push") /\ Puts(c, Append(items, Argument(c))) /\ NotifyOne("cv")
shared_wait_and_pop(c) ==
    /\ Calls(c, "shared_wait_and_pop")
    /\ \/ items # <<>> /\ Takes(c, 1) /\ UNCHANGED asleep
       \/ items = <<>> /\ Sleep(c, "cv")

(* MutexStack: pop() of an empty stack throws, and main() catches nothing.  *)
stack_push(c) == Calls(c, "stack_push") /\ Puts(c, Append(items, Argument(c))) /\ UNCHANGED asleep
stack_pop(c) ==
    /\ Calls(c, "stack_pop")
    /\ \/ items # <<>> /\ Takes(c, Len(items)) /\ UNCHANGED asleep
       \/ /\ items = <<>>
          /\ terminated' = TRUE
          /\ UNCHANGED <<todo, asleep, max_size, items, taken, current, ready>>

(* semaphore.cpp: print_num() and run()                                     *)
print_num(c) ==
    /\ Calls(c, "print_num")
    /\ IF Argument(c) = current /\ ready
       THEN /\ current' = current + 1
            /\ taken' = [taken EXCEPT ![c] = Append(@, current)]
            /\ NotifyAll("turn")
            /\ Returns(c)
            /\ UNCHANGED <<max_size, items, ready, terminated>>
       ELSE Sleep(c, "turn")
run(c) ==
    /\ Calls(c, "run")
    /\ ready' = TRUE
    /\ NotifyAll("turn")
    /\ Returns(c)
    /\ UNCHANGED <<max_size, items, taken, current, terminated>>

(* ThreadSafeCounter: increment() and get() are calls of their own, so that *)
(* a thread may print what another has counted.                             *)
increment(c) ==
    /\ Calls(c, "increment")
    /\ current' = current + 1
    /\ Returns(c)
    /\ UNCHANGED <<asleep, max_size, items, taken, ready, terminated>>
get(c) == Calls(c, "get") /\ Finds(c, current)

-----------------------------------------------------------------------------
Ended == terminated \/ \A c \in Client : todo[c] = <<>>

Step(c) ==
    /\ ~terminated
    /\ \/ Push(c) \/ Pop(c) \/ push(c) \/ wait_and_pop(c) \/ try_pop(c)
       \/ shared_push(c) \/ shared_wait_and_pop(c) \/ stack_push(c) \/ stack_pop(c)
       \/ print_num(c) \/ run(c) \/ increment(c) \/ get(c)

Next == (\E c \in Client : Step(c) \/ Spurious(c)) \/ (Ended /\ UNCHANGED vars)
Spec == Init /\ [][Next]_vars /\ \A c \in Client : WF_vars(Step(c))

-----------------------------------------------------------------------------
(* The main() functions, the one of queue-consumer-producer.cpp with n      *)
(* instead of ten million elements and a smaller queue, that of             *)
(* semaphore.cpp with fewer threads.                                        *)
Times(n, call) == [i \in 1 .. n |-> call]
Pushes(op, producer, n) == [i \in 1 .. n |-> <<op, 10 * producer + i>>]
ConsumerProducer(n, size) ==
    [calls |-> <<Pushes("Push", 0, n), Times(n, <<"Pop">>), <<>>, <<>> >>, max_size |-> size]
TwoOfEach(n, size) ==
    [calls |-> <<Pushes("Push", 0, n), Pushes("Push", 1, n), Times(n, <<"Pop">>), Times(n, <<"Pop">>)>>,
     max_size |-> size]
ThreeConsumers ==
    [calls |-> <<Pushes("push", 0, 4), Times(2, <<"wait_and_pop">>), <<<<"wait_and_pop">>>>, <<<<"try_pop">>>> >>,
     max_size |-> 0]
SharedTwoConsumers ==
    [calls |-> <<Pushes("shared_push", 0, 2), <<<<"shared_wait_and_pop">>>>, <<<<"shared_wait_and_pop">>>>, <<>> >>,
     max_size |-> 0]
TestConcurrentPushAndPopOnEmptyQueue ==
    [calls |-> << <<<<"Push", 42>>>>, <<<<"Pop">>>>, <<>>, <<>> >>, max_size |-> 2]
ComplexInterfaceMain ==
    [calls |-> << <<<<"push", 1>>>>, <<<<"wait_and_pop">>>>, <<>>, <<>> >>, max_size |-> 0]
SharedPtrMain ==
    [calls |-> << <<<<"shared_push", 4>>, <<"shared_wait_and_pop">>>>, <<>>, <<>>, <<>> >>, max_size |-> 0]
MutexStackMain ==
    [calls |-> << <<<<"stack_push", 1>>>>, <<<<"stack_pop">>>>, <<>>, <<>> >>, max_size |-> 0]
SemaphoreMain(n) ==
    [calls |-> [c \in 1 .. 4 |-> IF c = 4 THEN <<<<"run">>>>
                                 ELSE IF c <= n THEN <<<<"print_num", c - 1>>>> ELSE <<>>],
     max_size |-> 0]
CounterMain(n) ==
    [calls |-> [c \in 1 .. 4 |-> IF c <= 2 THEN [i \in 1 .. 2 * n |-> IF i % 2 = 1 THEN <<"increment">>
                                                                      ELSE <<"get">>]
                                 ELSE <<>>],
     max_size |-> 0]

(* A program has one object, so it calls operations of one class; only      *)
(* Queue has a bound.                                                       *)
Classes == {{"Push", "Pop"}, {"push", "wait_and_pop", "try_pop"}, {"shared_push", "shared_wait_and_pop"},
            {"stack_push", "stack_pop"}, {"print_num", "run"}, {"increment", "get"}}
WithArgument == {"Push", "push", "shared_push", "stack_push", "print_num"}
CallsOf(class) == {<<op>> : op \in class \ WithArgument} \cup ((class \cap WithArgument) \X Nat)
OneClass(program) ==
    /\ \E class \in Classes : program.calls \in [Client -> Seq(CallsOf(class))]
    /\ program.max_size \in Nat

-----------------------------------------------------------------------------
(* Properties.                                                              *)

(* No queue holds more than it may, however many producers wait for the     *)
(* same place, and nobody terminates the program but a stack found empty.   *)
Bounded ==
    /\ max_size > 0 => Len(items) <= max_size
    /\ terminated => items = <<>> /\ \E c \in Client : Calls(c, "stack_pop")

(* Whatever a client waits for is not there, and where one client only is   *)
(* notified, there are enough awake for what is in the queue: no wakeup is  *)
(* lost or goes to somebody who cannot use it.                              *)
Awake(op) == {c \in Client : Calls(c, op)}
NoLostWakeup ==
    /\ \A c \in Client :
          /\ asleep[c] = "full_condition" => Len(items) >= max_size
          /\ asleep[c] = "empty_condition" => items = <<>>
          /\ asleep[c] = "turn" => ~(ready /\ Argument(c) = current)
    /\ Sleepers("cond") # {} => Len(items) <= Cardinality(Awake("wait_and_pop") \cup Awake("try_pop"))
    /\ Sleepers("cv") # {} => Len(items) <= Cardinality(Awake("shared_wait_and_pop"))

(* A client takes what one producer pushed in the order in which it was     *)
(* pushed, and no call of get() sees less than one before it and what the   *)
(* client has counted since.                                                *)
SameProducer(v, w) == v \div 10 = w \div 10
InOrder ==
    \A c \in Client : \A i, j \in DOMAIN taken[c] :
        i < j /\ None \notin {taken[c][i], taken[c][j]} /\ SameProducer(taken[c][i], taken[c][j])
            => taken[c][i] < taken[c][j]

(* All calls return, when no queue is asked for more than was put in.       *)
Termination == <>Ended
=============================================================================
