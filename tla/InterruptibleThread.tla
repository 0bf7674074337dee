-------------------------- MODULE InterruptibleThread --------------------------
(***************************************************************************)
(* src/interruptible-thread.cpp: a thread runs a function and main()       *)
(* interrupts it and joins it.  waits says what the function does: what    *)
(* BackgroundThread() does, or a loop around one of the four forms of      *)
(* InterruptibleWait(), which a third party may end by making what is      *)
(* waited for true.                                                        *)
(***************************************************************************)
EXTENDS Integers

VARIABLES
    waits,             \* "never", "cv", "predicate", "any", "future"
    flag,              \* of the InterruptibleFlag
    registered,        \* "none", or which of thread_cond and thread_cond_any is set
    set_clear_mutex,   \* its owner
    lk,                \* whether the function holds the mutex of its condition
    asleep,            \* the thread sleeps on its condition variable
    condition,         \* the predicate, or whether the future is ready
    alive,             \* the thread_local flag exists
    worker, main       \* where the two threads are

vars == <<waits, flag, registered, set_clear_mutex, lk, asleep, condition, alive, worker, main>>

Init ==
    /\ waits \in {"never", "cv", "predicate", "any", "future"}
    /\ flag = FALSE
    /\ registered = "none"
    /\ set_clear_mutex = "free"
    /\ lk = FALSE
    /\ asleep = FALSE
    /\ condition = FALSE
    /\ alive = TRUE
    /\ worker = "call"
    /\ main = "store"

Worker(from, to) == worker = from /\ worker' = to
Main(from, to) == main = from /\ main' = to

-----------------------------------------------------------------------------
(* The function.  Its loop goes on until it is interrupted, or what it      *)
(* waits for has come.                                                      *)
Call ==
    /\ Worker("call", IF condition THEN "end"
                      ELSE IF waits = "future" THEN "poll"
                      ELSE IF waits = "any" THEN "custom lock" ELSE "first point")
    /\ lk' = (waits \notin {"never", "future"})
    /\ UNCHANGED <<waits, flag, registered, set_clear_mutex, asleep, condition, alive, main>>

(* InterruptionPoint() of BackgroundThread(), and the first of a wait.      *)
FirstPoint ==
    /\ Worker("first point", IF flag THEN "end" ELSE IF waits = "never" THEN "call" ELSE "register")
    /\ UNCHANGED <<waits, flag, registered, set_clear_mutex, lk, asleep, condition, alive, main>>

(* SetConditionVariable()                                                   *)
Register ==
    /\ Worker("register", "second point")
    /\ set_clear_mutex = "free"
    /\ registered' = "cond"
    /\ UNCHANGED <<waits, flag, set_clear_mutex, lk, asleep, condition, alive, main>>

(* Lines 127 and 137.                                                       *)
SecondPoint ==
    /\ Worker("second point", CASE waits = "cv" -> IF flag THEN "clear and throw" ELSE "wait"
                                [] OTHER -> IF flag \/ condition THEN "third point" ELSE "wait")
    /\ UNCHANGED <<waits, flag, registered, set_clear_mutex, lk, asleep, condition, alive, main>>

(* wait_for() gives up lk and sleeps, until it is notified or 1 ms later.   *)
Wait ==
    /\ Worker("wait", "wake")
    /\ asleep' = TRUE
    /\ lk' = FALSE
    /\ UNCHANGED <<waits, flag, registered, set_clear_mutex, condition, alive, main>>
TimeOut ==
    /\ asleep /\ waits \in {"cv", "predicate"}
    /\ asleep' = FALSE
    /\ UNCHANGED <<waits, flag, registered, set_clear_mutex, lk, condition, alive, worker, main>>
Wake ==
    /\ Worker("wake", IF waits = "predicate" THEN "second point" ELSE "third point")
    /\ ~asleep /\ waits # "any"
    /\ lk' = TRUE
    /\ UNCHANGED <<waits, flag, registered, set_clear_mutex, asleep, condition, alive, main>>

ThirdPoint ==
    /\ Worker("third point", IF flag THEN "clear and throw" ELSE "clear")
    /\ UNCHANGED <<waits, flag, registered, set_clear_mutex, lk, asleep, condition, alive, main>>

(* ~ClearCvOnDestruct                                                       *)
Clear ==
    /\ Worker("clear", "call") \/ Worker("clear and throw", "end")
    /\ set_clear_mutex = "free"
    /\ registered' = "none"
    /\ UNCHANGED <<waits, flag, set_clear_mutex, lk, asleep, condition, alive, main>>

-----------------------------------------------------------------------------
(* Wait() of the flag, with its CustomLock                                  *)
CustomLock ==
    /\ Worker("custom lock", "check")
    /\ set_clear_mutex = "free"
    /\ set_clear_mutex' = "worker"
    /\ registered' = "any"
    /\ UNCHANGED <<waits, flag, lk, asleep, condition, alive, main>>

(* InterruptionPoint(), and ~CustomLock when it throws.                     *)
Check ==
    /\ \/ ~flag /\ Worker("check", "sleep") /\ UNCHANGED <<registered, set_clear_mutex>>
       \/ flag /\ Worker("check", "end") /\ registered' = "none" /\ set_clear_mutex' = "free"
    /\ UNCHANGED <<waits, flag, lk, asleep, condition, alive, main>>

(* Mutant: the mutex is given up before the sleep.                          *)
CheckUnlocking ==
    /\ \/ ~flag /\ Worker("check", "sleep") /\ set_clear_mutex' = "free" /\ UNCHANGED registered
       \/ flag /\ Worker("check", "end") /\ registered' = "none" /\ set_clear_mutex' = "free"
    /\ UNCHANGED <<waits, flag, lk, asleep, condition, alive, main>>

(* condition_variable_any gives up both mutexes and sleeps: what is         *)
(* notified after they are free finds it asleep.                            *)
Sleep ==
    /\ Worker("sleep", "wake")
    /\ asleep' = TRUE
    /\ lk' = FALSE
    /\ set_clear_mutex' = "free"
    /\ UNCHANGED <<waits, flag, registered, condition, alive, main>>

(* std::lock takes both, the last InterruptionPoint() and ~CustomLock.      *)
WakeAny ==
    /\ Worker("wake", "check again")
    /\ ~asleep /\ waits = "any" /\ set_clear_mutex = "free"
    /\ set_clear_mutex' = "worker"
    /\ lk' = TRUE
    /\ UNCHANGED <<waits, flag, registered, asleep, condition, alive, main>>
CheckAgain ==
    /\ Worker("check again", IF flag THEN "end" ELSE "call")
    /\ registered' = "none"
    /\ set_clear_mutex' = "free"
    /\ UNCHANGED <<waits, flag, lk, asleep, condition, alive, main>>

(* The form for a future: wait_for() times out unless it is ready.          *)
Poll ==
    /\ Worker("poll", IF flag \/ condition THEN "end" ELSE "poll")
    /\ UNCHANGED <<waits, flag, registered, set_clear_mutex, lk, asleep, condition, alive, main>>

(* The thread ends and its thread_local objects with it.                    *)
End ==
    /\ Worker("end", "ended")
    /\ lk' = FALSE
    /\ alive' = FALSE
    /\ UNCHANGED <<waits, flag, registered, set_clear_mutex, asleep, condition, main>>

-----------------------------------------------------------------------------
(* Interrupt() and Set(), and Join() in main()                              *)
Store ==
    /\ Main("store", "lock")
    /\ flag' = TRUE
    /\ UNCHANGED <<waits, registered, set_clear_mutex, lk, asleep, condition, alive, worker>>
Lock ==
    /\ Main("lock", "notify")
    /\ set_clear_mutex = "free"
    /\ set_clear_mutex' = "main"
    /\ UNCHANGED <<waits, flag, registered, lk, asleep, condition, alive, worker>>
(* Mutant: thread_cond is the only one that is notified.                    *)
NotifyCond ==
    /\ Main("notify", "join")
    /\ asleep' = (asleep /\ registered # "cond")
    /\ set_clear_mutex' = "free"
    /\ UNCHANGED <<waits, flag, registered, lk, condition, alive, worker>>
Notify ==
    /\ Main("notify", "join")
    /\ asleep' = (asleep /\ registered = "none")
    /\ set_clear_mutex' = "free"
    /\ UNCHANGED <<waits, flag, registered, lk, condition, alive, worker>>
Join ==
    /\ Main("join", "joined")
    /\ worker = "ended"
    /\ UNCHANGED <<waits, flag, registered, set_clear_mutex, lk, asleep, condition, alive, worker>>

(* A third thread, with the mutex of the condition, makes it true and       *)
(* notifies; and a sleeper may wake for no reason.                          *)
Fulfil ==
    /\ ~condition /\ ~lk /\ waits # "never"
    /\ condition' = TRUE
    /\ asleep' = FALSE
    /\ UNCHANGED <<waits, flag, registered, set_clear_mutex, lk, alive, worker, main>>
Spurious ==
    /\ asleep
    /\ asleep' = FALSE
    /\ UNCHANGED <<waits, flag, registered, set_clear_mutex, lk, condition, alive, worker, main>>

-----------------------------------------------------------------------------
WorkerStep ==
    \/ Call \/ FirstPoint \/ Register \/ SecondPoint \/ Wait \/ TimeOut \/ Wake \/ ThirdPoint \/ Clear
    \/ CustomLock \/ Check \/ Sleep \/ WakeAny \/ CheckAgain \/ Poll \/ End
MainStep == Store \/ Lock \/ Notify \/ Join

Ended == main = "joined"
Next == WorkerStep \/ MainStep \/ Fulfil \/ Spurious \/ (Ended /\ UNCHANGED vars)
Spec == Init /\ [][Next]_vars /\ WF_vars(WorkerStep) /\ WF_vars(MainStep)

-----------------------------------------------------------------------------
(* Properties.                                                              *)

(* Set() notifies no condition variable whose waiter has left the wait, and *)
(* a thread that sleeps on a condition_variable_any, without a timeout, is  *)
(* still to be notified when it has been interrupted: no such interruption  *)
(* is lost, whatever came between the test of the flag and the sleep.       *)
NoLostInterrupt ==
    /\ registered # "none" => worker \notin {"call", "first point", "end", "ended"}
    /\ asleep /\ waits = "any" /\ flag => main \in {"lock", "notify"}

(* Once interrupted, every function ends and main() joins its thread.       *)
Termination == <>Ended

(* An expectation of main() that the code does not meet: the flag that      *)
(* Set() works on exists until it returns.  It is about BackgroundThread(), *)
(* which nothing but an interruption ends: such a thread has seen the flag  *)
(* that Set() has stored and gone while Set() is about to lock the mutex.   *)
FlagOutlivesSet == waits = "never" /\ main \in {"store", "lock", "notify"} => alive
=============================================================================
