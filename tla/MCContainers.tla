----------------------------- MODULE MCContainers -----------------------------
(* The mutex with levels, and what is built on mutexes, in one run; which   *)
(* says what a behaviour is about.                                          *)
EXTENDS HierarchicalMutex, Sequences, FiniteSets

CONSTANTS
    Client, Programs, QueueCalls, ListCalls, TableCalls, MaxPushes,
    None, Empty, Free, Nobody, Default, num_buckets
VARIABLES
    which,
    todo, pc, next, head, tail, value, live, returned, current,    \* of several
    asleep, max_size, items, taken, ready, terminated,
    fill, head_mutex, tail_mutex, node, sawEmpty,
    list_owner, allocated, removed, ahead, visited, snapshot,
    data, readers, writers, entry, mapping,
    dummy, pushed, popped, dangling

Monitor == INSTANCE Monitors
Queue == INSTANCE TwoLockQueue
List == INSTANCE ThreadSafeList WITH owner <- list_owner
Table == INSTANCE HashTable
Single == INSTANCE SequentialQueues

monitorVars == <<asleep, max_size, items, taken, ready, terminated>>
queueVars == <<fill, head_mutex, tail_mutex, node, sawEmpty>>
listVars == <<list_owner, allocated, removed, ahead, visited, snapshot>>
tableVars == <<data, readers, writers, entry, mapping>>
singleVars == <<dummy, pushed, popped, dangling>>
nodeVars == <<head, tail, value, live>>
allVars == <<vars, which, todo, pc, next, nodeVars, returned, current,
             monitorVars, queueVars, listVars, tableVars, singleVars>>

NoMonitor == asleep = 0 /\ max_size = 0 /\ items = 0 /\ taken = 0 /\ ready = 0 /\ terminated = 0
NoQueue == fill = 0 /\ head_mutex = 0 /\ tail_mutex = 0 /\ node = 0 /\ sawEmpty = 0
NoList == list_owner = 0 /\ allocated = 0 /\ removed = 0 /\ ahead = 0 /\ visited = 0 /\ snapshot = 0
NoTable == data = 0 /\ readers = 0 /\ writers = 0 /\ entry = 0 /\ mapping = 0
NoSingle == dummy = 0 /\ pushed = 0 /\ popped = 0 /\ dangling = 0
NoNodes == head = 0 /\ tail = 0 /\ value = 0 /\ live = 0
NoCalls == todo = 0 /\ pc = 0 /\ current = 0

ContainersInit ==
    /\ Init
    /\ \/ /\ which = "mutex"
          /\ NoMonitor /\ NoQueue /\ NoList /\ NoTable /\ NoSingle /\ NoNodes /\ NoCalls
          /\ next = 0 /\ returned = 0
       \/ /\ which = "monitor" /\ Monitor!Init
          /\ NoQueue /\ NoList /\ NoTable /\ NoSingle /\ NoNodes
          /\ pc = 0 /\ next = 0 /\ returned = 0
       \/ /\ which = "queue" /\ Queue!Init
          /\ NoMonitor /\ NoList /\ NoTable /\ NoSingle
          /\ current = 0
       \/ /\ which = "list" /\ List!Init
          /\ NoMonitor /\ NoQueue /\ NoTable /\ NoSingle /\ NoNodes
          /\ returned = 0
       \/ /\ which = "table" /\ Table!Init
          /\ NoMonitor /\ NoQueue /\ NoList /\ NoSingle /\ NoNodes
          /\ next = 0 /\ current = 0
       \/ /\ which = "single" /\ Single!Init
          /\ NoMonitor /\ NoQueue /\ NoList /\ NoTable /\ NoCalls
          /\ returned = 0

(* What a behaviour is not about does not change.                           *)
MonitorOnly == UNCHANGED <<vars, which, pc, next, nodeVars, returned, queueVars, listVars, tableVars, singleVars>>
QueueOnly == UNCHANGED <<vars, which, current, monitorVars, listVars, tableVars, singleVars>>
ListOnly == UNCHANGED <<vars, which, nodeVars, returned, monitorVars, queueVars, tableVars, singleVars>>
TableOnly == UNCHANGED <<vars, which, next, nodeVars, current, monitorVars, queueVars, listVars, singleVars>>
SingleOnly == UNCHANGED <<vars, which, todo, pc, returned, current, monitorVars, queueVars, listVars, tableVars>>
MutexOnly == UNCHANGED <<which, todo, pc, next, nodeVars, returned, current,
                         monitorVars, queueVars, listVars, tableVars, singleVars>>

Step(c) ==
    \/ which = "monitor" /\ Monitor!Step(c) /\ MonitorOnly
    \/ which = "queue" /\ Queue!Step(c) /\ QueueOnly
    \/ which = "list" /\ List!Step(c) /\ ListOnly
    \/ which = "table" /\ Table!Step(c) /\ TableOnly
    \/ which = "single" /\ Single!Step /\ SingleOnly

AllEnded ==
    CASE which = "mutex" -> FALSE
      [] which = "monitor" -> Monitor!Ended
      [] which = "single" -> Single!Ended
      [] OTHER -> Queue!Ended

ContainersNext ==
    \/ \E c \in Client : Step(c)
    \/ \E c \in Client : which = "monitor" /\ Monitor!Spurious(c) /\ MonitorOnly
    \/ which = "mutex" /\ Next /\ MutexOnly
    \/ AllEnded /\ UNCHANGED allVars
ContainersSpec ==
    ContainersInit /\ [][ContainersNext]_allVars /\ \A c \in Client : WF_allVars(Step(c))
-----------------------------------------------------------------------------
(* The calls, which are made of operators that do not depend on them.       *)
Mains == INSTANCE Monitors WITH Programs <- {}
L == INSTANCE ThreadSafeList WITH ListCalls <- {}, owner <- list_owner
T == INSTANCE HashTable WITH TableCalls <- {}
MCPrograms ==
    {Mains!ConsumerProducer(4, 2), Mains!TwoOfEach(2, 1),
     Mains!TestConcurrentPushAndPopOnEmptyQueue, Mains!ThreeConsumers,
     Mains!SharedTwoConsumers, Mains!ComplexInterfaceMain, Mains!SharedPtrMain,
     Mains!MutexStackMain, Mains!SemaphoreMain(3), Mains!CounterMain(3)}

(* Free is no mutex owner and a null pointer; nodes of the queue are numbers. *)
ASSUME CallsAssumption ==
    /\ Free \notin Client /\ Free \notin Nat
    /\ QueueCalls \subseteq [Client -> Seq(Queue!Value \cup {Empty})]

(* Keys are numbers, and the table has a bucket.                             *)
TableRequests == UNION {{calls[c][i] : i \in DOMAIN calls[c]} : c \in Client, calls \in TableCalls}
ASSUME TableAssumption ==
    /\ num_buckets \in Nat \ {0}
    /\ TableCalls \subseteq [Client -> Seq(TableRequests)]
    /\ \A request \in TableRequests : request.key \in Int

(* No element is pushed twice, nor one that the list takes for a null        *)
(* pointer or its head; and Nobody is none of the clients.                   *)
ListRequests == UNION {{calls[c][i] : i \in DOMAIN calls[c]} : c \in Client, calls \in ListCalls}
ASSUME ListAssumption ==
    /\ Nobody \notin Client
    /\ ListCalls \subseteq [Client -> Seq(ListRequests)]
    /\ \A calls \in ListCalls, c, d \in Client :
          \A i \in DOMAIN calls[c], j \in DOMAIN calls[d] :
              /\ calls[c][i].call = "push_front" => calls[c][i].element \notin {List!HeadNode, List!Nil}
              /\ calls[c][i].call = "push_front" /\ calls[d][j].call = "push_front"
                    /\ calls[c][i].element = calls[d][j].element => c = d /\ i = j

(* A program calls the operations of one class.                              *)
ASSUME ProgramsAssumption ==
    IsFiniteSet(Client) /\ \A program \in Programs : Monitor!OneClass(program)

MCQueueCalls ==
    {<< <<1, 0>>, <<2, 0>>, <<0, 0>>, <<>> >>, << <<1, 2, 0>>, <<0, 0>>, <<3>>, <<>> >>}
MCListCalls ==
    {<< <<L!Push(1), L!Push(2), L!Push(3), L!ForEach>>, <<L!RemoveIf({1, 2, 3})>>,
        <<L!RemoveIf({2}), L!ForEach>>, <<>> >>,
     << <<L!Push(1), L!Push(2), L!ForEach>>, <<L!RemoveIf({1}), L!Push(3)>>,
        <<L!ForEach, L!RemoveIf({1, 2})>>, <<>> >>}
MCTableCalls ==
    {<< <<T!Set(1, 5), T!Set(3, 6), T!Erase(1)>>, <<T!Set(1, 7), T!Get(3), T!Get(1)>>,
        <<T!Erase(3), T!Set(1, 8), T!Get(2)>>, <<>> >>}
Zero == 0
Minus1 == -1
MCLevel == [m \in Mutex |-> m]
-----------------------------------------------------------------------------
(* Properties, each that of what a behaviour is about.                      *)

(* Nothing is used after it was deleted or while somebody else changes it:  *)
(* no node, no entry, no iterator.                                          *)
NoFault ==
    /\ which = "queue" => Queue!NoDataRace
    /\ which = "list" => List!NoUseAfterFree
    /\ which = "table" => Table!IteratorValid
    /\ which = "single" => Single!NoneDangling

(* Each container holds what its calls amount to: values in order, one      *)
(* entry per key, every element that nobody removed.                        *)
RightContents ==
    /\ which = "monitor" => Monitor!Bounded /\ Monitor!InOrder
    /\ which = "list" => List!TraversalComplete
    /\ which = "table" => Table!IsMap
    /\ which = "single" => Single!FirstInFirstOut

(* The queue with two locks is linearizable.                                *)
Abstract == IF which = "queue" THEN <<Queue!Items, Queue!Status, Queue!Val, sawEmpty, returned>> ELSE <<>>
ImplementsFifo ==
    /\ which = "queue" => Queue!Fifo!Init
    /\ [][which = "queue" => Queue!Fifo!Next]_Abstract

(* Who sleeps on a condition variable has nothing to wake up for, or        *)
(* somebody else is awake for it; and so all calls return, those on locks   *)
(* too that are taken hand over hand.                                       *)
NoLostWakeup == which = "monitor" => Monitor!NoLostWakeup
AllReturn == which # "mutex" => <>AllEnded
=============================================================================
