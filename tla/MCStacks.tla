------------------------------- MODULE MCStacks -------------------------------
(* The three stacks in one run; scheme says which one a behaviour is about. *)
EXTENDS LockFreeStack, TLC
CONSTANTS InitialCounts, Slot, MaxExternal, Value
VARIABLES scheme, threads_in_pop, to_be_deleted, second, nodes, initial,
          id, pointer, nodes_to_reclaim, current, slot, internal_count, old_head

ASSUME ScriptsAssumption == Scripts \subseteq [Client -> Seq(Value \cup {Empty})]
ASSUME ValueAssumption == Empty \notin Value
ASSUME SlotAssumption == IsFiniteSet(Slot) /\ Slot = 0 .. Cardinality(Slot) - 1
ASSUME InitialCountsAssumption == InitialCounts \subseteq Int

(* No value is pushed twice, so that values tell the order of the stack.    *)
PushedOnce ==
    \A script \in Scripts : \A c, d \in Client :
        \A i \in 1 .. Len(script[c]), j \in 1 .. Len(script[d]) :
            script[c][i] = script[d][j] /\ script[c][i] # Empty => c = d /\ i = j
ASSUME PushedOnceAssumption == PushedOnce

PopCount == INSTANCE PopCountStack
Hazard == INSTANCE HazardStack
Counted == INSTANCE CountedStack
popCountVars == <<threads_in_pop, to_be_deleted, second, nodes, initial>>
hazardVars == <<id, pointer, nodes_to_reclaim, current, slot>>
countedVars == <<internal_count, old_head>>
vars == <<stackVars, scheme, popCountVars, hazardVars, countedVars>>

NoPopCount == threads_in_pop = 0 /\ to_be_deleted = 0 /\ second = 0 /\ nodes = 0 /\ initial = 0
NoHazard == id = 0 /\ pointer = 0 /\ nodes_to_reclaim = 0 /\ current = 0 /\ slot = 0
NoCounted == internal_count = 0 /\ old_head = 0
Init ==
    \/ scheme = "pop count" /\ PopCount!Init /\ NoHazard /\ NoCounted
    \/ scheme = "hazard" /\ Hazard!Init /\ NoPopCount /\ NoCounted
    \/ scheme = "counted" /\ Counted!Init /\ NoPopCount /\ NoHazard
Next ==
    /\ UNCHANGED scheme
    /\ \/ scheme = "pop count" /\ PopCount!Next /\ UNCHANGED <<hazardVars, countedVars>>
       \/ scheme = "hazard" /\ Hazard!Next /\ UNCHANGED <<popCountVars, countedVars>>
       \/ scheme = "counted" /\ Counted!Next /\ UNCHANGED <<popCountVars, hazardVars>>
Spec == Init /\ [][Next]_vars
-----------------------------------------------------------------------------
(* Properties, each that of the scheme.                                     *)

(* The nodes that a pop() reads are not deleted under it, by any scheme;    *)
(* and only a pop() of an empty stack beside another one dereferences null. *)
NoUseAfterFree ==
    /\ scheme = "pop count" => PopCount!NoUseAfterFree /\ PopCount!NullChained
    /\ scheme = "hazard" => Hazard!NoUseAfterFree
    /\ scheme = "counted" => Counted!NoUseAfterFree

(* Between calls, every node is where it can still be found, unless a count *)
(* that started below zero let one be deleted and taken again.              *)
NoLeak ==
    fault = "none" =>
        /\ scheme = "pop count" /\ initial >= 0 => PopCount!NoLeak
        /\ scheme = "hazard" => Hazard!NoLeak
        /\ scheme = "counted" => Counted!NoLeak

(* push() and pop() are those of a stack, at the exchange that succeeds, or *)
(* where pop() reads a null head; but for a count that started below zero.  *)
Stored == {data[a] : a \in live} \ {Empty}
Fresh == {v \in Value : \E c \in Client : v \in {todo[c][i] : i \in DOMAIN todo[c]}
                          /\ v \notin {Items[i] : i \in DOMAIN Items}}
Lifo == INSTANCE LifoStack WITH items <- Items, fresh <- Fresh
ImplementsLifo == [][initial >= 0 => Lifo!Next]_<<Items, Fresh, got>>

MCInitialCounts == {-1, 0, 1}
MCScripts == {<< <<1, Empty>>, <<2, Empty>>, <<Empty>> >>}
AddressSymmetry == Permutations(Address)
==============================================================================
