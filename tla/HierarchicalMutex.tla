-------------------------- MODULE HierarchicalMutex --------------------------
(***************************************************************************)
(* The class HeirarchicalMutex of src/hierarchical-mutex.cpp: a mutex with *)
(* a level, and per thread the set of the levels it holds.  lock() and     *)
(* try_lock() throw when the thread already holds a lower level.           *)
(*                                                                         *)
(* The clients are any threads that lock what they do not hold and unlock  *)
(* what they hold, in any order; std::mutex leaves anything else undefined.*)
(***************************************************************************)
EXTENDS Integers

CONSTANTS
    Thread,
    Mutex,
    Level,      \* this_mutex_hierarchical_level
    NoOwner,
    NoMutex

(* Two mutexes of one level would share an element of active_levels: the    *)
(* class keeps its promise only for distinct levels, as main() has them.    *)
ASSUME LevelAssumption ==
    /\ Level \in [Mutex -> Nat]
    /\ \A m, n \in Mutex : Level[m] = Level[n] => m = n
ASSUME NoOwnerAssumption == NoOwner \notin Thread
ASSUME NoMutexAssumption == NoMutex \notin Mutex

VARIABLES
    owner,          \* of the std::mutex inside
    active_levels,  \* thread_local
    waiting,        \* the mutex a thread is blocked on inside lock()
    outcome         \* how the last call of a thread ended

vars == <<owner, active_levels, waiting, outcome>>

Init ==
    /\ owner = [m \in Mutex |-> NoOwner]
    /\ active_levels = [t \in Thread |-> {}]
    /\ waiting = [t \in Thread |-> NoMutex]
    /\ outcome = [t \in Thread |-> "none"]

Running(t) == waiting[t] = NoMutex

(* Mutant: check_level() looks at the greatest level held.                  *)
ViolatesGreatest(t, m) ==
    active_levels[t] # {} /\ \A l \in active_levels[t] : l < Level[m]

(* check_level() throws when the least level held is below the mutex's.     *)
Violates(t, m) == \E l \in active_levels[t] : l < Level[m]

Take(t, m) ==
    /\ owner' = [owner EXCEPT ![m] = t]
    /\ active_levels' = [active_levels EXCEPT ![t] = @ \cup {Level[m]}]

Ends(t, result) == outcome' = [outcome EXCEPT ![t] = result]

(* Mutant: lock() does not check the level.                                 *)
LockUnchecked(t, m) ==
    /\ Running(t)
    /\ owner[m] # t
    /\ waiting' = [waiting EXCEPT ![t] = m]
    /\ UNCHANGED <<owner, active_levels, outcome>>

(* lock() up to the wait for the std::mutex.                                *)
Lock(t, m) ==
    /\ Running(t)
    /\ owner[m] # t
    /\ ~Violates(t, m)
    /\ waiting' = [waiting EXCEPT ![t] = m]
    /\ UNCHANGED <<owner, active_levels, outcome>>

Acquire(t, m) ==
    /\ waiting[t] = m
    /\ owner[m] = NoOwner
    /\ Take(t, m)
    /\ waiting' = [waiting EXCEPT ![t] = NoMutex]
    /\ Ends(t, "locked")

TryLock(t, m) ==
    /\ Running(t)
    /\ owner[m] = NoOwner
    /\ ~Violates(t, m)
    /\ Take(t, m)
    /\ Ends(t, "locked")
    /\ UNCHANGED waiting

(* std::mutex::try_lock() may fail though nobody holds the mutex.           *)
TryLockFails(t, m) ==
    /\ Running(t)
    /\ owner[m] # t
    /\ ~Violates(t, m)
    /\ Ends(t, "busy")
    /\ UNCHANGED <<owner, active_levels, waiting>>

(* The std::logic_error that lock() and try_lock() throw.                   *)
Throw(t, m) ==
    /\ Running(t)
    /\ owner[m] # t
    /\ Violates(t, m)
    /\ Ends(t, "threw")
    /\ UNCHANGED <<owner, active_levels, waiting>>

(* Mutant: unlock() erases the least level instead of its own.              *)
UnlockLeast(t, m) ==
    /\ Running(t)
    /\ owner[m] = t
    /\ \E least \in active_levels[t] :
          /\ \A l \in active_levels[t] : least <= l
          /\ active_levels' = [active_levels EXCEPT ![t] = @ \ {least}]
    /\ owner' = [owner EXCEPT ![m] = NoOwner]
    /\ Ends(t, "unlocked")
    /\ UNCHANGED waiting

Unlock(t, m) ==
    /\ Running(t)
    /\ owner[m] = t
    /\ active_levels' = [active_levels EXCEPT ![t] = @ \ {Level[m]}]
    /\ owner' = [owner EXCEPT ![m] = NoOwner]
    /\ Ends(t, "unlocked")
    /\ UNCHANGED waiting

Next ==
    \E t \in Thread, m \in Mutex :
        \/ Lock(t, m) \/ Acquire(t, m) \/ TryLock(t, m) \/ TryLockFails(t, m)
        \/ Throw(t, m) \/ Unlock(t, m)

Spec == Init /\ [][Next]_vars

-----------------------------------------------------------------------------
(* Properties.                                                              *)

TypeOK ==
    /\ owner \in [Mutex -> Thread \cup {NoOwner}]
    /\ active_levels \in [Thread -> SUBSET Nat]
    /\ waiting \in [Thread -> Mutex \cup {NoMutex}]
    /\ outcome \in [Thread -> {"none", "locked", "busy", "threw", "unlocked"}]

(* active_levels is exact, in whatever order a thread unlocks: it has the   *)
(* levels of the mutexes the thread owns and no others.                     *)
LevelsExact ==
    \A t \in Thread : active_levels[t] = {Level[m] : m \in {n \in Mutex : owner[n] = t}}

(* A thread is only ever blocked on a mutex below all that it holds.        *)
BlockedBelow ==
    \A t \in Thread, m \in Mutex :
        waiting[t] # NoMutex /\ owner[m] = t => Level[waiting[t]] < Level[m]

(* No set of threads wait for each other: no deadlock, however many threads *)
(* and mutexes there are.  This is what the hierarchy is for.               *)
WaitForEachOther(S) ==
    \A t \in S : waiting[t] # NoMutex /\ owner[waiting[t]] \in S
DeadlockFree == \A S \in SUBSET Thread : S # {} => ~WaitForEachOther(S)
=============================================================================
