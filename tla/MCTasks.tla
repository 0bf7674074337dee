------------------------------- MODULE MCTasks -------------------------------
(* The algorithms that run in threads, and the two small systems of actors, *)
(* in one run; program says what a behaviour is about.                      *)
EXTENDS PartialSumBarrier

CONSTANTS
    Algorithms, Lengths, hardware_concurrency, min_per_thread, Matches,   \* of ParallelBlocks
    Kinds, LeafLength, Lists,                                             \* of AsyncHalves
    Trees, Rounds                                                         \* of MessagePiper
VARIABLES
    program,
    matches, result, visits,                                     \* of both kinds of algorithm
    which, range_length, num_threads, block_start, block, chunk, block_pc, sum, range_element,
    end_values, done_flag, returned,
    kind, call_input, status, at, done,
    waits, flag, registered, set_clear_mutex, lk, asleep, condition, alive, worker, main,
    data, state, sending, running, dropped,
    edges, message_processors, cur_from_index, cur_to_index, dest_pipes, queues, turn

Blocks == INSTANCE ParallelBlocks
          WITH data_length <- range_length, element <- range_element, pc <- block_pc
Halves == INSTANCE AsyncHalves WITH input <- call_input
Interruptible == INSTANCE InterruptibleThread
Messages == INSTANCE MessagePassing
Piper == INSTANCE MessagePiper

(* An edge from a processor to itself would declare one member function of  *)
(* Piper twice.                                                             *)
ASSUME TreesAssumption == \A tree \in Trees : \A i \in DOMAIN tree : tree[i].From # tree[i].To

rangeVars == <<matches, result, visits>>
blockVars == <<which, range_length, num_threads, block_start, block, chunk, block_pc, sum, range_element,
               end_values, done_flag, returned>>
halfVars == <<kind, call_input, status, at, done>>
threadVars == <<waits, flag, registered, set_clear_mutex, lk, asleep, condition, alive, worker, main>>
agentVars == <<data, state, sending, running, dropped>>
piperVars == <<edges, message_processors, cur_from_index, cur_to_index, dest_pipes, queues, turn>>
allVars == <<vars, program, rangeVars, blockVars, halfVars, threadVars, agentVars, piperVars>>

NoRange == matches = 0 /\ result = 0 /\ visits = 0
NoBlocks ==
    /\ which = 0 /\ range_length = 0 /\ num_threads = 0 /\ block_start = 0 /\ block = 0 /\ chunk = 0
    /\ block_pc = 0 /\ sum = 0 /\ range_element = 0 /\ end_values = 0 /\ done_flag = 0 /\ returned = 0
NoHalves == kind = 0 /\ call_input = 0 /\ status = 0 /\ at = 0 /\ done = 0
NoThread ==
    /\ waits = 0 /\ flag = 0 /\ registered = 0 /\ set_clear_mutex = 0 /\ lk = 0 /\ asleep = 0
    /\ condition = 0 /\ alive = 0 /\ worker = 0 /\ main = 0
NoAgents == data = 0 /\ state = 0 /\ sending = 0 /\ running = 0 /\ dropped = 0
NoPiper ==
    /\ edges = 0 /\ message_processors = 0 /\ cur_from_index = 0 /\ cur_to_index = 0
    /\ dest_pipes = 0 /\ queues = 0 /\ turn = 0

TasksInit ==
    /\ Init
    /\ \/ program = "prefix sums" /\ NoRange /\ NoBlocks /\ NoHalves /\ NoThread /\ NoAgents /\ NoPiper
       \/ program = "blocks" /\ Blocks!Init /\ NoHalves /\ NoThread /\ NoAgents /\ NoPiper
       \/ program = "halves" /\ Halves!Init /\ NoBlocks /\ NoThread /\ NoAgents /\ NoPiper
       \/ program = "interruption" /\ Interruptible!Init /\ NoRange /\ NoBlocks /\ NoHalves /\ NoAgents /\ NoPiper
       \/ program = "messages" /\ Messages!Init /\ NoRange /\ NoBlocks /\ NoHalves /\ NoThread /\ NoPiper
       \/ program = "piper" /\ Piper!Init /\ NoRange /\ NoBlocks /\ NoHalves /\ NoThread /\ NoAgents

(* What a behaviour is not about does not change.                           *)
SumsOnly == UNCHANGED <<program, rangeVars, blockVars, halfVars, threadVars, agentVars, piperVars>>
BlocksOnly == UNCHANGED <<vars, program, halfVars, threadVars, agentVars, piperVars>>
HalvesOnly == UNCHANGED <<vars, program, blockVars, threadVars, agentVars, piperVars>>
ThreadOnly == UNCHANGED <<vars, program, rangeVars, blockVars, halfVars, agentVars, piperVars>>
AgentsOnly == UNCHANGED <<vars, program, rangeVars, blockVars, halfVars, threadVars, piperVars>>
PiperOnly == UNCHANGED <<vars, program, rangeVars, blockVars, halfVars, threadVars, agentVars>>

StepOf(i) ==
    \/ program = "prefix sums" /\ ThreadStep(i) /\ SumsOnly
    \/ program = "blocks" /\ i = 0 /\ Blocks!Step /\ BlocksOnly
    \/ program = "halves" /\ i = 0 /\ (\E p \in Halves!Calls : Halves!Step(p)) /\ HalvesOnly
    \/ program = "interruption" /\ i = 0 /\ Interruptible!WorkerStep /\ ThreadOnly
    \/ program = "interruption" /\ i = 1 /\ Interruptible!MainStep /\ ThreadOnly
    \/ program = "messages" /\ i = 0 /\ Messages!Step("Proposer") /\ AgentsOnly
    \/ program = "messages" /\ i = 1 /\ Messages!Step("Acceptor") /\ AgentsOnly
    \/ program = "piper" /\ i = 0 /\ Piper!Step /\ PiperOnly

AllEnded ==
    CASE program = "prefix sums" -> Joined
      [] program = "blocks" -> Blocks!Ended
      [] program = "halves" -> Halves!Ended
      [] program = "interruption" -> Interruptible!Ended
      [] program = "messages" -> Messages!Ended
      [] program = "piper" -> Piper!Ended

TasksNext ==
    \/ \E i \in Thread : StepOf(i)
    \/ program = "interruption" /\ (Interruptible!Fulfil \/ Interruptible!Spurious) /\ ThreadOnly
    \/ AllEnded /\ UNCHANGED allVars
TasksSpec == TasksInit /\ [][TasksNext]_allVars /\ \A i \in Thread : WF_allVars(StepOf(i))
-----------------------------------------------------------------------------
(* The inputs.  Powers of ten, so that no two different sets of elements    *)
(* add up alike.                                                            *)
MCThread == 0 .. Capacity - 1
MCInput == [i \in MCThread |-> 10^i]
MCAlgorithms == {"for_each", "packaged", "find", "partial_sum", "execute_parallel"}
MCMatches == {{}, {2}, {1, 5, 8}, {3, 4}}
MCLists == {<<3, 1, 2>>, <<2, 3, 1>>}
MCTrees ==
    LET E(from, to) == Piper!Edge(from, to, "M")
    IN  {Piper!MainTree, <<E("A", "B"), E("B", "C"), E("C", "A")>>, <<E("A", "B"), E("A", "C"), E("B", "C")>>,
         <<E("A", "B"), E("C", "D")>>, <<E("A", "B"), E("C", "B"), E("A", "C"), E("D", "A")>>}
-----------------------------------------------------------------------------
(* Properties, each that of what a behaviour is about.                      *)

(* Work is handed out whole and once: no element is in two blocks or in     *)
(* none, no edge is wired to the wrong processor, and what a processor is   *)
(* told to take is in its queue.                                            *)
HandedOutOnce ==
    /\ program = "blocks" => Blocks!BlocksApart
    /\ program = "piper" => Piper!Wired /\ Piper!OneInTransit

(* The parallel algorithms return what one thread would have computed.      *)
Results ==
    /\ program = "prefix sums" => PrefixSums
    /\ program = "blocks" => Blocks!Results
    /\ program = "halves" => Halves!Results

(* No interruption comes to nothing, and no message to an agent that is not *)
(* in the state for it.                                                     *)
NothingLost ==
    /\ program = "interruption" => Interruptible!NoLostInterrupt
    /\ program = "messages" => Messages!NothingDropped

(* All of them end.                                                         *)
AllTerminate == <>AllEnded
=============================================================================
