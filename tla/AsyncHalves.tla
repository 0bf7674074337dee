------------------------------ MODULE AsyncHalves ------------------------------
(***************************************************************************)
(* The recursive algorithms on std::async: parallel-for-each-with-async    *)
(* .cpp, parallel-accumulate-async.cpp, parallel-find-async.cpp and async- *)
(* sequential-sort.cpp.  A call hands one part of its input to std::async  *)
(* and does the other part itself.  std::async may start a thread or defer *)
(* the call until its future is asked for the result.                      *)
(*                                                                         *)
(* A call goes by the path from the first one to it: 1 for each part that  *)
(* was handed over, 2 for each that was not.                               *)
(***************************************************************************)
EXTENDS Integers, Sequences, FiniteSets, SequencesExt, TLC

CONSTANTS
    Kinds,        \* which of the algorithms are run
    Lengths,      \* of the range
    LeafLength,   \* up to which a range is not divided
    Matches,      \* the sets of positions at which parallel_find() finds a match
    Lists         \* what the sort is called with

VARIABLES
    kind, matches,
    input,       \* of each call, by its path: a range <<first, end>> or a list
    status,      \* of each call
    at,          \* the position of its loop
    result,      \* what it returned
    done,        \* the flag of parallel_find()
    visits       \* history: how often f was called for each element

vars == <<kind, matches, input, status, at, result, done, visits>>

Root == <<>>
AsyncPart(p) == Append(p, 1)
DirectPart(p) == Append(p, 2)
Calls == DOMAIN input
End(range) == range[2]
Nothing == IF kind = "sort" THEN <<>> ELSE 0

Init ==
    /\ kind \in Kinds
    /\ \E n \in Lengths, list \in Lists :
          /\ input = [p \in {Root} |-> IF kind = "sort" THEN list ELSE <<1, n + 1>>]
          /\ matches \in IF kind = "find" THEN {m \cap (1 .. n) : m \in Matches} ELSE {{}}
          /\ visits = [k \in 1 .. n |-> 0]
    /\ status = [p \in {Root} |-> "run"]
    /\ at = [p \in {Root} |-> 1]
    /\ result = [p \in {Root} |-> Nothing]
    /\ done = FALSE

IsLeaf(p) == IF kind = "sort" THEN input[p] = <<>>
             ELSE input[p][2] - input[p][1] <= LeafLength

Returns(p, value) ==
    /\ status' = [status EXCEPT ![p] = "returned"]
    /\ result' = [result EXCEPT ![p] = value]
    /\ UNCHANGED <<kind, matches, input>>

-----------------------------------------------------------------------------
(* A range that is not divided                                              *)
RunLeaf(p) == status[p] = "run" /\ IsLeaf(p)

VisitLeaf(p) ==
    /\ RunLeaf(p) /\ kind \in {"for_each", "accumulate"}
    /\ visits' = [k \in DOMAIN visits |->
                     IF k \in input[p][1] .. input[p][2] - 1 THEN visits[k] + 1 ELSE visits[k]]
    /\ Returns(p, FoldLeft(LAMBDA s, k : s + 2^k, 0,
                           [i \in 1 .. input[p][2] - input[p][1] |-> input[p][1] + i - 1]))
    /\ UNCHANGED <<at, done>>

(* The loop of parallel_find_impl(): the flag is tested for each element,   *)
(* and set in a step of its own, so that several calls may find a match.    *)
FindNext(p) ==
    /\ RunLeaf(p) /\ kind = "find"
    /\ at[p] # End(input[p]) /\ ~done
    /\ IF at[p] \in matches
       THEN status' = [status EXCEPT ![p] = "store"] /\ UNCHANGED at
       ELSE at' = [at EXCEPT ![p] = @ + 1] /\ UNCHANGED status
    /\ UNCHANGED <<kind, matches, input, result, done, visits>>
StoreDone(p) ==
    /\ status[p] = "store"
    /\ done' = TRUE
    /\ Returns(p, at[p])
    /\ UNCHANGED <<at, visits>>
FindEnds(p) ==
    /\ RunLeaf(p) /\ kind = "find"
    /\ at[p] = End(input[p]) \/ done
    /\ Returns(p, End(input[p]))
    /\ UNCHANGED <<at, done, visits>>
SortEmpty(p) ==
    /\ RunLeaf(p) /\ kind = "sort"
    /\ Returns(p, <<>>)
    /\ UNCHANGED <<at, done, visits>>

-----------------------------------------------------------------------------
(* The parts: the second half of a find and the first half of the others    *)
(* are handed over, and what is below the first element of a list;          *)
(* std::partition leaves both parts in any order.                           *)
Orders(S) == {s \in [1 .. Cardinality(S) -> S] : IsInjective(s)}
Parts(p) ==
    IF kind = "sort"
    THEN {<<lower, higher>> : lower \in Orders({x \in ToSet(Tail(input[p])) : x < Head(input[p])}),
                              higher \in Orders({x \in ToSet(Tail(input[p])) : x >= Head(input[p])})}
    ELSE LET first == input[p][1]
             mid_point == first + (input[p][2] - first) \div 2
             lower == <<first, mid_point>>
             upper == <<mid_point, input[p][2]>>
         IN  {IF kind = "find" THEN <<upper, lower>> ELSE <<lower, upper>>}

With(f, p, a, d) == f @@ (AsyncPart(p) :> a) @@ (DirectPart(p) :> d)

Split(p) ==
    /\ status[p] = "run" /\ ~IsLeaf(p)
    /\ \E parts \in Parts(p), policy \in {"run", "deferred"} :
          /\ input' = With(input, p, parts[1], parts[2])
          /\ status' = With([status EXCEPT ![p] = "direct"], p, policy, "run")
          /\ at' = With(at, p, IF kind = "sort" THEN 1 ELSE parts[1][1],
                               IF kind = "sort" THEN 1 ELSE parts[2][1])
    /\ result' = With(result, p, Nothing, Nothing)
    /\ UNCHANGED <<kind, matches, done, visits>>

(* Mutant: the result is compared with last_iter.                           *)
FoundLast(p) == kind = "find" /\ result[DirectPart(p)] # End(input[p])
(* The half that parallel_find_impl() searched itself had a match.          *)
Found(p) == kind = "find" /\ result[DirectPart(p)] # End(input[DirectPart(p)])

(* The future is destroyed: a thread is waited for, a deferred call dropped.*)
ReturnFound(p) ==
    /\ status[p] = "direct"
    /\ status[DirectPart(p)] = "returned" /\ Found(p)
    /\ status[AsyncPart(p)] \in {"returned", "deferred"}
    /\ Returns(p, result[DirectPart(p)])
    /\ UNCHANGED <<at, done, visits>>

(* get() runs a deferred call in the thread that asks.                      *)
GetDeferred(p) ==
    /\ status[p] = "direct"
    /\ status[DirectPart(p)] = "returned" /\ ~Found(p)
    /\ status[AsyncPart(p)] = "deferred"
    /\ status' = [status EXCEPT ![AsyncPart(p)] = "run"]
    /\ UNCHANGED <<kind, matches, input, at, result, done, visits>>

Combined(p) ==
    LET async_result == result[AsyncPart(p)]
        direct_result == result[DirectPart(p)]
    IN  CASE kind = "find" -> async_result
          [] kind = "sort" -> async_result \o <<Head(input[p])>> \o direct_result
          [] OTHER         -> async_result + direct_result
Get(p) ==
    /\ status[p] = "direct"
    /\ status[DirectPart(p)] = "returned" /\ ~Found(p)
    /\ status[AsyncPart(p)] = "returned"
    /\ Returns(p, Combined(p))
    /\ UNCHANGED <<at, done, visits>>

Step(p) ==
    \/ VisitLeaf(p) \/ FindNext(p) \/ StoreDone(p) \/ FindEnds(p) \/ SortEmpty(p)
    \/ Split(p) \/ ReturnFound(p) \/ GetDeferred(p) \/ Get(p)

Ended == status[Root] = "returned"
Next == (\E p \in Calls : Step(p)) \/ (Ended /\ UNCHANGED vars)
Spec == Init /\ [][Next]_vars /\ WF_vars(\E p \in Calls : Step(p))

-----------------------------------------------------------------------------
(* Properties.                                                              *)

(* Whatever is deferred and whoever finds a match first, the call returns   *)
(* what one thread would have: a match if there is one, though the flag     *)
(* stops others halfway and their results say that there is none, and more  *)
(* than one call may find a match before the flag is set; each element once *)
(* in the sum; the sorted list.                                             *)
Results ==
    Ended =>
        CASE kind = "find" -> IF matches = {} THEN result[Root] = End(input[Root])
                              ELSE result[Root] \in matches
          [] kind = "sort" -> result[Root] = SetToSortSeq(ToSet(input[Root]), LAMBDA x, y : x < y)
          [] OTHER -> /\ \A k \in DOMAIN visits : visits[k] = 1
                      /\ result[Root] = FoldLeft(LAMBDA s, k : s + 2^k, 0, [k \in DOMAIN visits |-> k])

(* No call is asked for the result of one that never runs.                  *)
Termination == <>Ended
=============================================================================
