------------------------ MODULE ThreadSafeQueueProofs ------------------------
(***************************************************************************)
(* Proofs about ThreadSafeQueue, for every number of threads, every set of *)
(* addresses and every script of calls.                                    *)
(***************************************************************************)
EXTENDS ThreadSafeQueue, FiniteSetTheorems, TLAPS

(* How far a thread is inside a HazardPointer call agrees with the call it  *)
(* made, and the locals it will read through are not null.                  *)
ProtectPc == {"enq_protect", "deq_protect_head", "deq_protect_next"}

StageInv ==
    \A t \in Threads :
        /\ pc[t] \in ProtectPc <=> stage[t] \in Protecting \cup {"protected"}
        /\ pc[t] = "deq_remove" => stage[t] \in Removing \cup {"removed"}
        /\ pc[t] = "cleanup" => stage[t] \in Removing \cup {"clear", "removed"}
        /\ pc[t] \notin ProtectPc \cup {"deq_remove", "cleanup"} => stage[t] = "out"
        /\ stage[t] = "clear" => cursor[t] < dimention
        /\ stage[t] = "scan" => cursor[t] < dimention * threadnum

LocalInv ==
    \A t \in Threads :
        /\ pc[t] \in EnqueuePc \cup DequeuePc => todo[t] # <<>>
        /\ pc[t] \in EnqueuePc => new_element[t] \in Addr
        /\ pc[t] \in (EnqueuePc \cup DequeuePc) \ {"enq_protect", "deq_protect_head"}
              => node[t] \in Addr
        /\ pc[t] \in {"enq_help", "deq_tail", "deq_help", "deq_move", "deq_remove"}
              => succ[t] \in Addr
        /\ pc[t] \in {"enq_protect", "deq_protect_head"}
           /\ stage[t] \in {"store", "reload", "leave", "protected"}
              => old_value[t] \in Addr

(* The threads each counter counts.                                         *)
Protectors == {t \in Threads : stage[t] \in
                  {"check", "load", "store", "reload", "leave", "backoff"}}
Freers == {t \in Threads : stage[t] \in {"wait", "scan", "delete", "retract"}}

CountInv ==
    /\ protect_count = Cardinality(Protectors)
    /\ free_count = Cardinality(Freers)

(* What a scan has passed is null or registered, and stays so until the     *)
(* deletions are done.                                                      *)
ScanInv ==
    \A t \in Threads :
        /\ stage[t] = "scan" =>
              \A i \in Slots : i < cursor[t] =>
                  stored_pointers[i] \in registered[t] \cup {Null}
        /\ stage[t] = "delete" =>
              \A i \in Slots : stored_pointers[i] \in registered[t] \cup {Null}

TypeInv == TypeOK /\ StageInv /\ LocalInv
Inv == TypeInv /\ CountInv /\ HandshakeExclusion /\ ScanInv

-----------------------------------------------------------------------------
(* Initially the types and the control invariants hold.                     *)
LEMMA InitTypeInv == Init => TypeInv
BY ThreadnumAssumption, CallsAssumption
DEF Init, HPInit, TypeInv, TypeOK, HPTypeOK, StageInv, LocalInv, Slots, Threads, dimention,
    Stages, Protecting, Removing, Pc, ProtectPc, EnqueuePc, DequeuePc

(* Every step of every thread, and of the destructor, keeps them.           *)
LEMMA NextTypeInv == TypeInv /\ [Next]_vars => TypeInv'
<1> SUFFICES ASSUME TypeInv, [Next]_vars PROVE TypeInv'
  OBVIOUS
<1> USE ThreadnumAssumption, NullAssumption, ValueAssumption
    DEF TypeInv, TypeOK, HPTypeOK, StageInv, LocalInv, Stages, Protecting, Removing,
        Pc, ProtectPc, EnqueuePc, DequeuePc, Goto, Step, dimention, Slots, SlotOf, Threads,
        localVars, sharedVars, hpVars, queueVars, callVars, vars,
        Exchanges, CallProtect, CallRemove, CallCleanup, Return, Unset, Empty, Call
<1>1. ASSUME NEW t \in Threads, pc[t] \in ProtectPc, EnterProtect(t),
              UNCHANGED <<queueVars, callVars>>
       PROVE TypeInv'
  <2>1. TypeOK'
    BY <1>1, SMTT(30) DEF EnterProtect
  <2>2. StageInv'
    BY <1>1 DEF EnterProtect
  <2>3. LocalInv'
    BY <1>1 DEF EnterProtect
  <2> QED
    BY <2>1, <2>2, <2>3
<1>2. ASSUME NEW t \in Threads, pc[t] \in ProtectPc, CheckFree(t),
              UNCHANGED <<queueVars, callVars>>
       PROVE TypeInv'
  <2>1. TypeOK'
    BY <1>2 DEF CheckFree
  <2>2. StageInv'
    BY <1>2 DEF CheckFree
  <2>3. LocalInv'
    BY <1>2 DEF CheckFree
  <2> QED
    BY <2>1, <2>2, <2>3
<1>3. ASSUME NEW t \in Threads, pc[t] \in ProtectPc, StoreHazard(t),
              UNCHANGED <<queueVars, callVars>>
       PROVE TypeInv'
  <2>1. TypeOK'
    BY <1>3 DEF StoreHazard
  <2>2. StageInv'
    BY <1>3 DEF StoreHazard
  <2>3. LocalInv'
    BY <1>3 DEF StoreHazard
  <2> QED
    BY <2>1, <2>2, <2>3
<1>4. ASSUME NEW t \in Threads, pc[t] \in ProtectPc, LeaveProtect(t),
              UNCHANGED <<queueVars, callVars>>
       PROVE TypeInv'
  <2>1. TypeOK'
    BY <1>4, SMTT(30) DEF LeaveProtect
  <2>2. StageInv'
    BY <1>4 DEF LeaveProtect
  <2>3. LocalInv'
    BY <1>4 DEF LeaveProtect
  <2> QED
    BY <2>1, <2>2, <2>3
<1>5. ASSUME NEW t \in Threads, pc[t] \in ProtectPc, BackOff(t),
              UNCHANGED <<queueVars, callVars>>
       PROVE TypeInv'
  <2>1. TypeOK'
    <3>1. stage' \in [Threads -> Stages]
      BY <1>5 DEF BackOff
    <3>2. protect_count' \in Int
      BY <1>5 DEF BackOff
    <3> QED
      BY <1>5, <3>1, <3>2 DEF BackOff
  <2>2. StageInv'
    BY <1>5 DEF BackOff
  <2>3. LocalInv'
    BY <1>5 DEF BackOff
  <2> QED
    BY <2>1, <2>2, <2>3
<1>6. ASSUME NEW t \in Threads, ClearSlot(t), UNCHANGED <<queueVars, callVars>>
       PROVE TypeInv'
  <2>1. TypeOK'
    <3>1. stage' \in [Threads -> Stages]
      BY <1>6 DEF ClearSlot
    <3>2. stored_pointers' \in [Slots -> Addr \cup {Null}]
      BY <1>6 DEF ClearSlot
    <3>3. cursor' \in [Threads -> Nat]
      BY <1>6, SMTT(30) DEF ClearSlot
    <3> QED
      BY <1>6, <3>1, <3>2, <3>3 DEF ClearSlot
  <2>2. StageInv'
    BY <1>6 DEF ClearSlot
  <2>3. LocalInv'
    BY <1>6 DEF ClearSlot
  <2> QED
    BY <2>1, <2>2, <2>3
<1>7. ASSUME NEW t \in Threads, Announce(t), UNCHANGED <<queueVars, callVars>>
       PROVE TypeInv'
  <2>1. TypeOK'
    BY <1>7, SMTT(30) DEF Announce
  <2>2. StageInv'
    BY <1>7 DEF Announce
  <2>3. LocalInv'
    BY <1>7 DEF Announce
  <2> QED
    BY <2>1, <2>2, <2>3
<1>8. ASSUME NEW t \in Threads, AwaitProtectors(t), UNCHANGED <<queueVars, callVars>>
       PROVE TypeInv'
  <2>1. TypeOK'
    BY <1>8 DEF AwaitProtectors
  <2>2. StageInv'
    <3>1. stage' = [stage EXCEPT ![t] = "scan"] /\ cursor' = [cursor EXCEPT ![t] = 0]
      BY <1>8 DEF AwaitProtectors
    <3>2. 0 < dimention * threadnum
      OBVIOUS
    <3>3. stage[t] = "wait" /\ pc' = pc
      BY <1>8 DEF AwaitProtectors
    <3> QED
      BY <3>1, <3>2, <3>3
  <2>3. LocalInv'
    BY <1>8 DEF AwaitProtectors
  <2> QED
    BY <2>1, <2>2, <2>3
<1>9. ASSUME NEW t \in Threads, ScanSlot(t), UNCHANGED <<queueVars, callVars>>
       PROVE TypeInv'
  <2>1. TypeOK'
    <3>1. stage' \in [Threads -> Stages]
      BY <1>9 DEF ScanSlot
    <3>2. registered' \in [Threads -> SUBSET Addr]
      BY <1>9 DEF ScanSlot
    <3>3. cursor' \in [Threads -> Nat]
      BY <1>9 DEF ScanSlot
    <3> QED
      BY <1>9, <3>1, <3>2, <3>3 DEF ScanSlot
  <2>2. StageInv'
    BY <1>9 DEF ScanSlot
  <2>3. LocalInv'
    BY <1>9 DEF ScanSlot
  <2> QED
    BY <2>1, <2>2, <2>3
<1>10. ASSUME NEW t \in Threads, DeleteUnregistered(t), UNCHANGED <<queueVars, callVars>>
       PROVE TypeInv'
  <2>1. TypeOK'
    BY <1>10 DEF DeleteUnregistered
  <2>2. StageInv'
    BY <1>10 DEF DeleteUnregistered
  <2>3. LocalInv'
    BY <1>10 DEF DeleteUnregistered
  <2> QED
    BY <2>1, <2>2, <2>3
<1>11. ASSUME NEW t \in Threads, Retract(t), UNCHANGED <<queueVars, callVars>>
       PROVE TypeInv'
  <2>1. TypeOK'
    BY <1>11 DEF Retract
  <2>2. StageInv'
    BY <1>11 DEF Retract
  <2>3. LocalInv'
    BY <1>11 DEF Retract
  <2> QED
    BY <2>1, <2>2, <2>3
<1>12. ASSUME NEW t \in Threads, pc[t] \in ProtectPc, LoadPointer(t, Protected(t)),
              UNCHANGED <<queueVars, callVars>>
       PROVE TypeInv'
  BY <1>12 DEF LoadPointer, Protected
<1>13. ASSUME NEW t \in Threads, pc[t] \in ProtectPc, ReloadPointer(t, Protected(t)),
              UNCHANGED <<queueVars, callVars>>
       PROVE TypeInv'
  BY <1>13 DEF ReloadPointer, Protected
<1>14. ASSUME NEW t \in Threads, Enqueue(t) PROVE TypeInv'
  <2>1. TypeOK'
    BY <1>14, SMTT(30) DEF Enqueue
  <2>2. StageInv'
    BY <1>14 DEF Enqueue
  <2>3. LocalInv'
    BY <1>14 DEF Enqueue
  <2> QED
    BY <2>1, <2>2, <2>3
<1>15. ASSUME NEW t \in Threads, EnqueueProtected(t) PROVE TypeInv'
  <2>1. TypeOK'
    BY <1>15 DEF EnqueueProtected
  <2>2. StageInv'
    BY <1>15 DEF EnqueueProtected
  <2>3. LocalInv'
    BY <1>15 DEF EnqueueProtected
  <2> QED
    BY <2>1, <2>2, <2>3
<1>16. ASSUME NEW t \in Threads, EnqueueNext(t) PROVE TypeInv'
  <2>1. TypeOK'
    BY <1>16 DEF EnqueueNext
  <2>2. StageInv'
    BY <1>16, ZenonT(60) DEF EnqueueNext
  <2>3. LocalInv'
    BY <1>16 DEF EnqueueNext
  <2> QED
    BY <2>1, <2>2, <2>3
<1>17. ASSUME NEW t \in Threads, EnqueueHelp(t) PROVE TypeInv'
  <2>1. TypeOK'
    BY <1>17, SMTT(30) DEF EnqueueHelp
  <2>2. StageInv'
    BY <1>17 DEF EnqueueHelp
  <2>3. LocalInv'
    BY <1>17 DEF EnqueueHelp
  <2> QED
    BY <2>1, <2>2, <2>3
<1>18. ASSUME NEW t \in Threads, EnqueueLink(t) PROVE TypeInv'
  <2>1. TypeOK'
    BY <1>18 DEF EnqueueLink
  <2>2. StageInv'
    BY <1>18, ZenonT(60) DEF EnqueueLink
  <2>3. LocalInv'
    BY <1>18 DEF EnqueueLink
  <2> QED
    BY <2>1, <2>2, <2>3
<1>19. ASSUME NEW t \in Threads, EnqueueRetry(t) PROVE TypeInv'
  <2>1. TypeOK'
    BY <1>19, SMTT(30) DEF EnqueueRetry
  <2>2. StageInv'
    BY <1>19 DEF EnqueueRetry
  <2>3. LocalInv'
    BY <1>19 DEF EnqueueRetry
  <2> QED
    BY <2>1, <2>2, <2>3
<1>20. ASSUME NEW t \in Threads, EnqueueSwing(t) PROVE TypeInv'
  <2>1. TypeOK'
    <3>1. pc' \in [Threads -> Pc]
      BY <1>20 DEF EnqueueSwing
    <3>2. tail' \in Addr
      BY <1>20 DEF EnqueueSwing
    <3>3. todo' \in [Threads -> Seq(Call)]
      BY <1>20 DEF EnqueueSwing
    <3>4. new_element' \in [Threads -> Addr \cup {Null}]
      BY <1>20 DEF EnqueueSwing
    <3>5. node' \in [Threads -> Addr \cup {Null}]
      BY <1>20 DEF EnqueueSwing
    <3>6. succ' \in [Threads -> Addr \cup {Null}]
      BY <1>20 DEF EnqueueSwing
    <3> QED
      BY <1>20, <3>1, <3>2, <3>3, <3>4, <3>5, <3>6 DEF EnqueueSwing
  <2>2. StageInv'
    BY <1>20 DEF EnqueueSwing
  <2>3. LocalInv'
    BY <1>20 DEF EnqueueSwing
  <2> QED
    BY <2>1, <2>2, <2>3
<1>21. ASSUME NEW t \in Threads, Dequeue(t) PROVE TypeInv'
  <2>1. TypeOK'
    BY <1>21, SMTT(30) DEF Dequeue
  <2>2. StageInv'
    BY <1>21 DEF Dequeue
  <2>3. LocalInv'
    BY <1>21 DEF Dequeue
  <2> QED
    BY <2>1, <2>2, <2>3
<1>22. ASSUME NEW t \in Threads, DequeueHeadProtected(t) PROVE TypeInv'
  <2>1. TypeOK'
    <3>1. pc' \in [Threads -> Pc]
      BY <1>22 DEF DequeueHeadProtected
    <3>2. stage' \in [Threads -> Stages]
      BY <1>22 DEF DequeueHeadProtected
    <3>3. slot' \in [Threads -> 0 .. dimention - 1]
      BY <1>22 DEF DequeueHeadProtected
    <3>4. node' \in [Threads -> Addr \cup {Null}]
      BY <1>22 DEF DequeueHeadProtected
    <3> QED
      BY <1>22, <3>1, <3>2, <3>3, <3>4 DEF DequeueHeadProtected
  <2>2. StageInv'
    BY <1>22 DEF DequeueHeadProtected
  <2>3. LocalInv'
    BY <1>22 DEF DequeueHeadProtected
  <2> QED
    BY <2>1, <2>2, <2>3
<1>23. ASSUME NEW t \in Threads, DequeueNextProtected(t) PROVE TypeInv'
  <2>1. TypeOK'
    BY <1>23 DEF DequeueNextProtected
  <2>2. StageInv'
    BY <1>23 DEF DequeueNextProtected
  <2>3. LocalInv'
    BY <1>23 DEF DequeueNextProtected
  <2> QED
    BY <2>1, <2>2, <2>3
<1>24. ASSUME NEW t \in Threads, DequeueRecheck(t) PROVE TypeInv'
  <2>1. TypeOK'
    BY <1>24 DEF DequeueRecheck
  <2>2. StageInv'
    BY <1>24, ZenonT(60) DEF DequeueRecheck
  <2>3. LocalInv'
    BY <1>24 DEF DequeueRecheck
  <2> QED
    BY <2>1, <2>2, <2>3
<1>25. ASSUME NEW t \in Threads, DequeueStale(t) PROVE TypeInv'
  <2>1. TypeOK'
    BY <1>25 DEF DequeueStale
  <2>2. StageInv'
    BY <1>25 DEF DequeueStale
  <2>3. LocalInv'
    BY <1>25 DEF DequeueStale
  <2> QED
    BY <2>1, <2>2, <2>3
<1>26. ASSUME NEW t \in Threads, DequeueEmpty(t) PROVE TypeInv'
  <2>1. TypeOK'
    <3>1. pc' \in [Threads -> Pc]
      BY <1>26 DEF DequeueEmpty
    <3>2. result' \in [Threads -> Value \cup {Unset, Empty}]
      BY <1>26 DEF DequeueEmpty
    <3>3. todo' \in [Threads -> Seq(Call)]
      BY <1>26, SMTT(20) DEF DequeueEmpty
    <3>4. node' \in [Threads -> Addr \cup {Null}]
      BY <1>26 DEF DequeueEmpty
    <3>5. succ' \in [Threads -> Addr \cup {Null}]
      BY <1>26 DEF DequeueEmpty
    <3> QED
      BY <1>26, <3>1, <3>2, <3>3, <3>4, <3>5 DEF DequeueEmpty
  <2>2. StageInv'
    BY <1>26, ZenonT(60) DEF DequeueEmpty
  <2>3. LocalInv'
    BY <1>26 DEF DequeueEmpty
  <2> QED
    BY <2>1, <2>2, <2>3
<1>27. ASSUME NEW t \in Threads, DequeueTail(t) PROVE TypeInv'
  <2>1. TypeOK'
    BY <1>27 DEF DequeueTail
  <2>2. StageInv'
    BY <1>27, ZenonT(60) DEF DequeueTail
  <2>3. LocalInv'
    BY <1>27 DEF DequeueTail
  <2> QED
    BY <2>1, <2>2, <2>3
<1>28. ASSUME NEW t \in Threads, DequeueHelp(t) PROVE TypeInv'
  <2>1. TypeOK'
    BY <1>28 DEF DequeueHelp
  <2>2. StageInv'
    BY <1>28 DEF DequeueHelp
  <2>3. LocalInv'
    BY <1>28 DEF DequeueHelp
  <2> QED
    BY <2>1, <2>2, <2>3
<1>29. ASSUME NEW t \in Threads, DequeueMove(t) PROVE TypeInv'
  <2>1. TypeOK'
    BY <1>29, SMTT(30) DEF DequeueMove
  <2>2. StageInv'
    BY <1>29 DEF DequeueMove
  <2>3. LocalInv'
    BY <1>29 DEF DequeueMove
  <2> QED
    BY <2>1, <2>2, <2>3
<1>30. ASSUME NEW t \in Threads, DequeueRetry(t) PROVE TypeInv'
  <2>1. TypeOK'
    <3>1. pc' \in [Threads -> Pc]
      BY <1>30 DEF DequeueRetry
    <3>2. /\ stage' \in [Threads -> Stages]
          /\ slot' \in [Threads -> 0 .. dimention - 1]
      BY <1>30, SMTT(20) DEF DequeueRetry
    <3> QED
      BY <1>30, <3>1, <3>2 DEF DequeueRetry
  <2>2. StageInv'
    BY <1>30 DEF DequeueRetry
  <2>3. LocalInv'
    BY <1>30 DEF DequeueRetry
  <2> QED
    BY <2>1, <2>2, <2>3
<1>31. ASSUME NEW t \in Threads, DequeueReturn(t) PROVE TypeInv'
  <2>1. TypeOK'
    <3>1. pc' \in [Threads -> Pc]
      BY <1>31 DEF DequeueReturn
    <3>2. stage' \in [Threads -> Stages]
      BY <1>31 DEF DequeueReturn
    <3>3. result' \in [Threads -> Value \cup {Unset, Empty}]
      BY <1>31 DEF DequeueReturn
    <3>4. todo' \in [Threads -> Seq(Call)]
      BY <1>31 DEF DequeueReturn
    <3>5. node' \in [Threads -> Addr \cup {Null}]
      BY <1>31 DEF DequeueReturn
    <3>6. succ' \in [Threads -> Addr \cup {Null}]
      BY <1>31 DEF DequeueReturn
    <3> QED
      BY <1>31, <3>1, <3>2, <3>3, <3>4, <3>5, <3>6 DEF DequeueReturn
  <2>2. StageInv'
    BY <1>31 DEF DequeueReturn
  <2>3. LocalInv'
    BY <1>31 DEF DequeueReturn
  <2> QED
    BY <2>1, <2>2, <2>3
<1>32. ASSUME NEW t \in Threads, CleanupLocals(t) PROVE TypeInv'
  <2>1. TypeOK'
    BY <1>32 DEF CleanupLocals
  <2>2. StageInv'
    <3>1. stage' = [stage EXCEPT ![t] = "clear"] /\ pc' = [pc EXCEPT ![t] = "cleanup"]
      BY <1>32 DEF CleanupLocals
    <3>2. cursor' = [cursor EXCEPT ![t] = 0]
      BY <1>32 DEF CleanupLocals
    <3> QED
      BY <3>1, <3>2
  <2>3. LocalInv'
    BY <1>32 DEF CleanupLocals
  <2> QED
    BY <2>1, <2>2, <2>3
<1>33. ASSUME NEW t \in Threads, Join(t) PROVE TypeInv'
  <2>1. TypeOK'
    BY <1>33 DEF Join
  <2>2. StageInv'
    BY <1>33 DEF Join
  <2>3. LocalInv'
    BY <1>33 DEF Join
  <2> QED
    BY <2>1, <2>2, <2>3
<1>34. CASE Destroy
  <2>1. TypeOK'
    BY <1>34 DEF Destroy
  <2>2. StageInv'
    BY <1>34 DEF Destroy
  <2>3. LocalInv'
    BY <1>34 DEF Destroy
  <2> QED
    BY <2>1, <2>2, <2>3
<1>35. CASE DestroyNode
  <2>1. TypeOK'
    BY <1>35 DEF DestroyNode
  <2>2. StageInv'
    BY <1>35 DEF DestroyNode
  <2>3. LocalInv'
    BY <1>35 DEF DestroyNode
  <2> QED
    BY <2>1, <2>2, <2>3
<1>36. CASE Destroyed
  <2>1. TypeOK'
    BY <1>36 DEF Destroyed
  <2>2. StageInv'
    BY <1>36 DEF Destroyed
  <2>3. LocalInv'
    BY <1>36 DEF Destroyed
  <2> QED
    BY <2>1, <2>2, <2>3
<1>37. CASE UNCHANGED vars
  BY <1>37
<1> QED
  BY <1>1, <1>2, <1>3, <1>4, <1>5, <1>6, <1>7, <1>8, <1>9, <1>10, <1>11, <1>12, <1>13, <1>14, <1>15, <1>16, <1>17, <1>18, <1>19, <1>20, <1>21, <1>22, <1>23, <1>24, <1>25, <1>26, <1>27, <1>28, <1>29, <1>30, <1>31, <1>32, <1>33, <1>34, <1>35, <1>36, <1>37
  DEF Next, ThreadStep, HazardStep, ProtectStep, RemoveStep, EnqueueStep, DequeueStep,
      DestructorStep, Finished

(* Type correctness, of the heap and of every thread's locals: in           *)
(* particular no thread ever reads through a null pointer.                  *)
THEOREM TypeCorrect == Spec => []TypeOK
<1>1. Init => TypeInv
  BY InitTypeInv
<1>2. TypeInv /\ [Next]_vars => TypeInv'
  BY NextTypeInv
<1>3. TypeInv => TypeOK
  BY DEF TypeInv
<1> QED
  BY <1>1, <1>2, <1>3, PTL DEF Spec

-----------------------------------------------------------------------------
(* The handshake.  The steps of ThreadSafeQueue itself, and ClearSlot, leave *)
(* alone everything the handshake is about.                                 *)
Quiet(t) ==
    /\ UNCHANGED <<protect_count, free_count, registered>>
    /\ \A i \in Slots : stored_pointers'[i] \in {stored_pointers[i], Null}
    /\ \A u \in Threads \ {t} : stage'[u] = stage[u] /\ cursor'[u] = cursor[u]
    /\ {stage[t], stage'[t]} \subseteq
          {"out", "enter", "protected", "clear", "announce", "removed"}

(* The calls, the returns and the clearing of slots are quiet.              *)
LEMMA CallsAreQuiet ==
    ASSUME TypeInv, NEW t \in Threads,
           \/ EnqueueStep(t) \/ DequeueStep(t) \/ CleanupLocals(t) \/ Join(t)
           \/ ClearSlot(t)
    PROVE  Quiet(t)
<1> USE DEF TypeInv, TypeOK, HPTypeOK, StageInv, Quiet, Goto, Step, sharedVars, localVars,
            hpVars, CallProtect, CallRemove, CallCleanup, ProtectPc, EnqueuePc, DequeuePc
<1>1. CASE EnqueueStep(t)
  BY <1>1 DEF EnqueueStep, Enqueue, EnqueueProtected, EnqueueNext, EnqueueHelp, EnqueueLink,
              EnqueueRetry, EnqueueSwing
<1>2. CASE DequeueStep(t)
  BY <1>2 DEF DequeueStep, Dequeue, DequeueHeadProtected, DequeueNextProtected,
              DequeueRecheck, DequeueStale, DequeueEmpty, DequeueTail, DequeueHelp,
              DequeueMove, DequeueRetry, DequeueReturn
<1>3. CASE CleanupLocals(t)
  BY <1>3 DEF CleanupLocals
<1>4. CASE Join(t)
  BY <1>4 DEF Join
<1>5. CASE ClearSlot(t)
  BY <1>5, NullAssumption DEF ClearSlot
<1> QED
  BY <1>1, <1>2, <1>3, <1>4, <1>5

(* Counting a thread in or out.                                             *)
LEMMA Counting ==
    ASSUME NEW S \in SUBSET Threads, NEW t \in Threads
    PROVE  /\ Cardinality(S) \in Nat
           /\ t \notin S => Cardinality(S \cup {t}) = Cardinality(S) + 1
           /\ t \in S => Cardinality(S \ {t}) = Cardinality(S) - 1
           /\ Cardinality(S) = 0 => t \notin S
<1>1. IsFiniteSet(Threads)
  BY FS_Interval, ThreadnumAssumption DEF Threads
<1>2. IsFiniteSet(S)
  BY <1>1, FS_Subset
<1> QED
  BY <1>2, FS_CardinalityType, FS_AddElement, FS_RemoveElement, FS_EmptySet

(* Before the threads start nobody is counted and nothing is scanned.       *)
LEMMA InitInv == Init => Inv
<1> SUFFICES ASSUME Init PROVE Inv
  OBVIOUS
<1>1. TypeInv
  BY InitTypeInv
<1>2. \A t \in Threads : stage[t] = "out"
  BY DEF Init, HPInit
<1>3. Protectors = {} /\ Freers = {}
  BY <1>2 DEF Protectors, Freers
<1>4. CountInv
  BY <1>3, FS_EmptySet DEF CountInv, Init, HPInit
<1> QED
  BY <1>1, <1>2, <1>4 DEF Inv, HandshakeExclusion, ScanInv

(* The steps inside HazardPointer, other than ClearSlot, that the handshake *)
(* has to be proved about.                                                  *)
InsideStep(t) ==
    \/ EnterProtect(t)
    \/ CheckFree(t)
    \/ LoadPointer(t, Protected(t))
    \/ StoreHazard(t)
    \/ ReloadPointer(t, Protected(t))
    \/ LeaveProtect(t)
    \/ BackOff(t)
    \/ Announce(t)
    \/ AwaitProtectors(t)
    \/ ScanSlot(t)
    \/ DeleteUnregistered(t)
    \/ Retract(t)

(* A step is quiet, is one inside HazardPointer, or leaves the class alone. *)
LEMMA NextSteps ==
    ASSUME TypeInv, [Next]_vars
    PROVE  \/ \E t \in Threads : Quiet(t)
           \/ \E t \in Threads : InsideStep(t) /\ UNCHANGED <<queueVars, callVars>>
           \/ UNCHANGED <<stored_pointers, protect_count, free_count, stage, registered, cursor>>
<1>1. CASE \E t \in Threads : ThreadStep(t)
  <2>1. PICK t \in Threads : ThreadStep(t)
    BY <1>1
  <2>2. CASE HazardStep(t) /\ ~ClearSlot(t)
    BY <2>2 DEF HazardStep, ProtectStep, RemoveStep, InsideStep
  <2> QED
    BY <2>1, <2>2, CallsAreQuiet DEF ThreadStep
<1>2. CASE DestructorStep \/ Finished \/ UNCHANGED vars
  BY <1>2 DEF DestructorStep, Destroy, DestroyNode, Destroyed, Finished, vars, hpVars, localVars
<1> QED
  BY <1>1, <1>2 DEF Next

(* protect_count and free_count count the threads between their increment and*)
(* their decrement (lines 40, 47, 51 and 63, 81).                           *)
LEMMA NextCountInv == TypeInv /\ CountInv /\ [Next]_vars => CountInv'
<1> SUFFICES ASSUME TypeInv, CountInv, [Next]_vars PROVE CountInv'
  OBVIOUS
<1> USE DEF CountInv, Step, TypeInv, TypeOK, HPTypeOK, sharedVars, localVars
<1>1. stage \in [Threads -> Stages] /\ stage' \in [Threads -> Stages]
  BY NextTypeInv
<1>2. /\ Protectors \in SUBSET Threads
      /\ Freers \in SUBSET Threads
  BY DEF Protectors, Freers
<1>3. ASSUME NEW t \in Threads, Quiet(t) PROVE CountInv'
  <2>1. Protectors' = Protectors /\ Freers' = Freers
    BY <1>3 DEF Protectors, Freers, Quiet
  <2> QED
    BY <1>3, <2>1 DEF Quiet
<1>4. ASSUME NEW t \in Threads, EnterProtect(t) PROVE CountInv'
  <2>1. /\ t \notin Protectors
        /\ Protectors' = Protectors \cup {t}
        /\ Freers' = Freers
    BY <1>4 DEF EnterProtect, Protectors, Freers
  <2> QED
    BY <1>4, <1>2, <2>1, Counting DEF EnterProtect
<1>5. ASSUME NEW t \in Threads, LeaveProtect(t) \/ BackOff(t) PROVE CountInv'
  <2>1. /\ t \in Protectors
        /\ Protectors' = Protectors \ {t}
        /\ Freers' = Freers
    BY <1>5 DEF LeaveProtect, BackOff, Protectors, Freers
  <2> QED
    BY <1>5, <1>2, <2>1, Counting DEF LeaveProtect, BackOff
<1>6. ASSUME NEW t \in Threads, Announce(t) PROVE CountInv'
  <2>1. /\ t \notin Freers
        /\ Freers' = Freers \cup {t}
        /\ Protectors' = Protectors
    BY <1>6 DEF Announce, Protectors, Freers
  <2> QED
    BY <1>6, <1>2, <2>1, Counting DEF Announce
<1>7. ASSUME NEW t \in Threads, Retract(t) PROVE CountInv'
  <2>1. /\ t \in Freers
        /\ Freers' = Freers \ {t}
        /\ Protectors' = Protectors
    BY <1>7 DEF Retract, Protectors, Freers
  <2> QED
    BY <1>7, <1>2, <2>1, Counting DEF Retract
<1>8. ASSUME NEW t \in Threads, InsideStep(t),
             ~(EnterProtect(t) \/ LeaveProtect(t) \/ BackOff(t) \/ Announce(t) \/ Retract(t))
      PROVE  CountInv'
  <2>1. Protectors' = Protectors /\ Freers' = Freers
    BY <1>8, SMTT(20) DEF InsideStep, CheckFree, LoadPointer, StoreHazard, ReloadPointer,
                AwaitProtectors, ScanSlot, DeleteUnregistered, Protectors, Freers
  <2>2. UNCHANGED <<protect_count, free_count>>
    BY <1>8 DEF InsideStep, CheckFree, LoadPointer, StoreHazard, ReloadPointer,
                AwaitProtectors, ScanSlot, DeleteUnregistered
  <2> QED
    BY <2>1, <2>2
<1>9. CASE UNCHANGED <<stored_pointers, protect_count, free_count, stage, registered, cursor>>
  BY <1>9 DEF Protectors, Freers
<1> QED
  BY <1>3, <1>4, <1>5, <1>6, <1>7, <1>8, <1>9, NextSteps

(* The two steps that could break the exclusion each look at the counter of *)
(* the other side.                                                          *)
LEMMA NextExclusion ==
    TypeInv /\ CountInv /\ HandshakeExclusion /\ [Next]_vars => HandshakeExclusion'
<1> SUFFICES ASSUME TypeInv, CountInv, HandshakeExclusion, [Next]_vars
             PROVE  HandshakeExclusion'
  OBVIOUS
<1> USE DEF CountInv, Step, TypeInv, TypeOK, HPTypeOK, HandshakeExclusion
<1>1. /\ Protectors \in SUBSET Threads
      /\ Freers \in SUBSET Threads
  BY DEF Protectors, Freers
<1>2. ASSUME NEW t \in Threads, Quiet(t) PROVE HandshakeExclusion'
  BY <1>2 DEF Quiet
<1>3. ASSUME NEW t \in Threads, CheckFree(t) PROVE HandshakeExclusion'
  <2>1. CASE free_count = 0
    <3>1. \A u \in Threads : u \notin Freers
      BY <2>1, <1>1, Counting
    <3> QED
      BY <1>3, <3>1 DEF CheckFree, Freers
  <2>2. CASE free_count # 0
    BY <1>3, <2>2 DEF CheckFree
  <2> QED
    BY <2>1, <2>2
<1>4. ASSUME NEW t \in Threads, AwaitProtectors(t) PROVE HandshakeExclusion'
  <2>1. Cardinality(Protectors) = 0
    <3>1. Cardinality(Protectors) \in Nat
      BY <1>1, Counting
    <3> QED
      BY <1>4, <3>1 DEF AwaitProtectors
  <2>2. \A u \in Threads : u \notin Protectors
    BY <2>1, <1>1, Counting
  <2> QED
    BY <1>4, <2>2 DEF AwaitProtectors, Protectors
<1>5. ASSUME NEW t \in Threads, InsideStep(t), ~CheckFree(t), ~AwaitProtectors(t)
      PROVE  HandshakeExclusion'
  BY <1>5 DEF InsideStep, EnterProtect, LoadPointer, StoreHazard, ReloadPointer, LeaveProtect,
              BackOff, Announce, ScanSlot, DeleteUnregistered, Retract
<1>6. CASE UNCHANGED <<stored_pointers, protect_count, free_count, stage, registered, cursor>>
  BY <1>6
<1> QED
  BY <1>2, <1>3, <1>4, <1>5, <1>6, NextSteps

(* Since no slot is written during a scan (the exclusion), what the scan has*)
(* read stays true until the deletions (lines 68-80).                       *)
LEMMA NextScanInv ==
    TypeInv /\ HandshakeExclusion /\ ScanInv /\ [Next]_vars => ScanInv'
<1> SUFFICES ASSUME TypeInv, HandshakeExclusion, ScanInv, [Next]_vars PROVE ScanInv'
  OBVIOUS
<1> USE NullAssumption, ThreadnumAssumption
    DEF Step, TypeInv, TypeOK, HPTypeOK, ScanInv, sharedVars, localVars
<1>1. ASSUME NEW t \in Threads, Quiet(t) PROVE ScanInv'
  BY <1>1 DEF Quiet
<1>2. ASSUME NEW t \in Threads, StoreHazard(t) PROVE ScanInv'
  BY <1>2 DEF StoreHazard, HandshakeExclusion
<1>3. ASSUME NEW t \in Threads, AwaitProtectors(t) PROVE ScanInv'
  BY <1>3 DEF AwaitProtectors, Slots, dimention
<1>4. ASSUME NEW t \in Threads, ScanSlot(t) PROVE ScanInv'
  <2>1. cursor[t] \in Slots
    BY <1>4 DEF ScanSlot, StageInv, Slots, dimention, Threads
  <2> QED
    BY <1>4, <2>1 DEF ScanSlot, Slots, dimention
<1>5. ASSUME NEW t \in Threads, DeleteUnregistered(t) PROVE ScanInv'
  BY <1>5 DEF DeleteUnregistered
<1>6. ASSUME NEW t \in Threads, InsideStep(t),
             ~(StoreHazard(t) \/ AwaitProtectors(t) \/ ScanSlot(t) \/ DeleteUnregistered(t))
      PROVE  ScanInv'
  <2>1. UNCHANGED <<stored_pointers, registered, cursor>>
    BY <1>6 DEF InsideStep, EnterProtect, CheckFree, LoadPointer, ReloadPointer, LeaveProtect,
                BackOff, Announce, Retract
  <2>2. \A u \in Threads : stage'[u] \in {"scan", "delete"} => stage'[u] = stage[u]
    BY <1>6 DEF InsideStep, EnterProtect, CheckFree, LoadPointer, ReloadPointer, LeaveProtect,
                BackOff, Announce, Retract
  <2> QED
    BY <2>1, <2>2
<1>7. CASE UNCHANGED <<stored_pointers, protect_count, free_count, stage, registered, cursor>>
  BY <1>7
<1> QED
  BY <1>1, <1>2, <1>3, <1>4, <1>5, <1>6, <1>7, NextSteps

(* The inductive invariant holds in every reachable state.                  *)
LEMMA Invariance == Spec => []Inv
<1>1. Inv /\ [Next]_vars => Inv'
  BY NextTypeInv, NextCountInv, NextExclusion, NextScanInv DEF Inv
<1> QED
  BY InitInv, <1>1, PTL DEF Spec

(* For any number of threads, no protect() is between its first load and    *)
(* its last while a real_remove() reads the slots or deletes.               *)
THEOREM Handshake == Spec => []HandshakeExclusion
<1>1. Inv => HandshakeExclusion
  BY DEF Inv
<1> QED
  BY <1>1, Invariance, PTL

(* For any number of threads, nothing that a slot holds is deleted.         *)
THEOREM HazardsRespected == Spec => DeletesOnlyUnhazarded
<1> DEFINE Safe == ~Destructing =>
                      \A a \in live \ live' : \A i \in Slots : stored_pointers[i] # a
<1>1. Inv /\ [Next]_vars => [Safe]_vars
  <2> SUFFICES ASSUME Inv, [Next]_vars PROVE Safe \/ UNCHANGED vars
    OBVIOUS
  <2>1. ASSUME NEW t \in Threads, DeleteUnregistered(t) PROVE Safe
    BY <2>1, NullAssumption
    DEF Inv, ScanInv, DeleteUnregistered, Step, TypeInv, TypeOK, HPTypeOK
  <2>2. ASSUME NEW t \in Threads, HazardStep(t), ~DeleteUnregistered(t) PROVE Safe
    BY <2>2 DEF HazardStep, ProtectStep, RemoveStep, EnterProtect, CheckFree, LoadPointer,
                StoreHazard, ReloadPointer, LeaveProtect, BackOff, ClearSlot, Announce,
                AwaitProtectors, ScanSlot, Retract, sharedVars
  <2>3. ASSUME NEW t \in Threads, EnqueueStep(t) PROVE Safe
    BY <2>3 DEF EnqueueStep, Enqueue, EnqueueProtected, EnqueueNext, EnqueueHelp, EnqueueLink,
                EnqueueRetry, EnqueueSwing, CallProtect, sharedVars, hpVars
  <2>4. ASSUME NEW t \in Threads, DequeueStep(t) PROVE Safe
    BY <2>4 DEF DequeueStep, Dequeue, DequeueHeadProtected, DequeueNextProtected,
                DequeueRecheck, DequeueStale, DequeueEmpty, DequeueTail, DequeueHelp,
                DequeueMove, DequeueRetry, DequeueReturn, CallProtect, CallRemove,
                sharedVars, hpVars
  <2>5. ASSUME NEW t \in Threads, CleanupLocals(t) \/ Join(t) PROVE Safe
    BY <2>5 DEF CleanupLocals, Join, CallCleanup, sharedVars
  <2>6. CASE Destroy \/ Destroyed
    BY <2>6 DEF Destroy, Destroyed, hpVars
  <2>7. CASE DestroyNode
    BY <2>7, ThreadnumAssumption DEF DestroyNode, Destructing, Threads
  <2> QED
    BY <2>1, <2>2, <2>3, <2>4, <2>5, <2>6, <2>7
    DEF Next, ThreadStep, DestructorStep, Finished
<1> QED
  BY <1>1, Invariance, PTL DEF Spec, DeletesOnlyUnhazarded
-----------------------------------------------------------------------------
(***************************************************************************)
(* Proof that ThreadSafeQueue never touches an Element that was deleted,   *)
(* for every number of threads, every set of addresses and every script of *)
(* calls.                                                                  *)
(*                                                                         *)
(* Every allocated Element is fresh (an enqueue() has not linked it yet),  *)
(* retired (in the pointers_to_delete of a thread), or a node of the list; *)
(* the nodes are closed under next, no two of them have the same           *)
(* successor, and the first one is nobody's successor.  So nothing need be *)
(* said of the order of the list, and no induction over it is needed.      *)
(***************************************************************************)

Retired == {a \in Addr : \E t \in Threads : a \in pointers_to_delete[t]}
Linked  == {a \in live : \A t \in Threads : a \notin Private(t)}
Nodes   == Linked \ Retired
First   == IF Destructing THEN to_delete ELSE head

HeapInv ==
    \A t \in Threads :
        /\ pointers_to_delete[t] \subseteq Linked
        /\ Private(t) \subseteq live
        /\ \A u \in Threads \ {t} :
              /\ pointers_to_delete[t] \cap pointers_to_delete[u] = {}
              /\ Private(t) \cap Private(u) = {}

ListInv ==
    /\ First \in Nodes \cup {Null}
    /\ ~Destructing => head \in Nodes /\ tail \in Nodes
    /\ \A a \in Nodes : next[a] # Null => next[a] \in Nodes \ {First}
    /\ \A a, b \in Nodes : next[a] = next[b] /\ next[a] # Null => a = b
    /\ \A a \in Retired : next[a] # Null
    /\ \A t \in Threads : \A a \in Private(t) : next[a] = Null

(* The destructor runs when every thread has been joined.                   *)
PhaseInv ==
    Destructing => \A t \in Threads : pc[t] \in {"destroying", "destroyed"}

(* What a thread may rely on while it is inside a call: its hazard slot     *)
(* num holds the Element a, which is linked.                                *)
Holds(t, num, a) == stored_pointers[SlotOf(t, num)] = a /\ a \in Linked

ProtectInv(t) ==
    /\ pc[t] = "enq_protect" => slot[t] = 0
    /\ pc[t] = "deq_protect_head" => slot[t] = 1
    /\ pc[t] = "deq_protect_next" => slot[t] = 2
    /\ pc[t] \in ProtectPc /\ stage[t] \in {"reload", "leave", "protected"} =>
          stored_pointers[SlotOf(t, slot[t])] = old_value[t]
    /\ pc[t] \in {"enq_protect", "deq_protect_head"} /\ stage[t] \in {"leave", "protected"} =>
          old_value[t] \in Linked
    /\ pc[t] = "deq_protect_head" /\ stage[t] \in {"leave", "protected"} =>
          (old_value[t] \in Nodes => old_value[t] = head)

EnqueueInv(t) ==
    /\ pc[t] \in {"enq_next", "enq_help", "enq_link", "enq_swing"} => Holds(t, 0, node[t])
    /\ pc[t] = "enq_help" => succ[t] = next[node[t]]
    /\ pc[t] = "enq_swing" => new_element[t] = next[node[t]]

DequeueInv(t) ==
    /\ pc[t] \in {"deq_protect_next", "deq_check", "deq_tail", "deq_help", "deq_move"} =>
          Holds(t, 1, node[t]) /\ (node[t] \in Nodes => node[t] = head)
    /\ pc[t] = "deq_protect_next" /\ stage[t] \in {"leave", "protected"} =>
          old_value[t] \in {Null, next[node[t]]}
    /\ pc[t] = "deq_check" =>
          /\ stored_pointers[SlotOf(t, 2)] = succ[t]
          /\ succ[t] \in {Null, next[node[t]]}
    /\ pc[t] \in {"deq_tail", "deq_help", "deq_move"} =>
          /\ Holds(t, 2, succ[t])
          /\ succ[t] = next[node[t]]
    /\ pc[t] = "deq_move" /\ node[t] \in Nodes => node[t] # tail
    /\ pc[t] = "deq_remove" => Holds(t, 2, succ[t])

HoldInv == \A t \in Threads : ProtectInv(t) /\ EnqueueInv(t) /\ DequeueInv(t)

MemoryInv == HeapInv /\ ListInv /\ PhaseInv /\ HoldInv
-----------------------------------------------------------------------------
(* The slots of two threads are different.                                  *)
LEMMA SlotsApart ==
    ASSUME NEW t \in Threads, NEW num \in 0 .. 2
    PROVE  /\ SlotOf(t, num) \in Slots
           /\ \A u \in Threads \ {t} : \A m \in 0 .. 2 : SlotOf(u, m) # SlotOf(t, num)
BY ThreadnumAssumption DEF SlotOf, Slots, Threads, dimention

(* A step of one thread leaves the locals and the slots of the others alone.*)
Elsewhere(t) ==
    \A u \in Threads \ {t} :
        /\ pc'[u] = pc[u]
        /\ stage'[u] = stage[u]
        /\ slot'[u] = slot[u]
        /\ old_value'[u] = old_value[u]
        /\ node'[u] = node[u]
        /\ succ'[u] = succ[u]
        /\ new_element'[u] = new_element[u]
        /\ \A num \in 0 .. 2 : stored_pointers'[SlotOf(u, num)] = stored_pointers[SlotOf(u, num)]

LEMMA OnlyItsOwn ==
    ASSUME TypeInv, NEW t \in Threads, ThreadStep(t)
    PROVE  Elsewhere(t)
<1> USE DEF TypeInv, TypeOK, HPTypeOK, Elsewhere, Goto, Step, Return, sharedVars, localVars,
            hpVars, queueVars, callVars, CallProtect, CallRemove, CallCleanup
<1>1. CASE EnqueueStep(t)
  <2>1. CASE Enqueue(t)
    BY <2>1 DEF Enqueue
  <2>2. CASE EnqueueProtected(t)
    BY <2>2 DEF EnqueueProtected
  <2>3. CASE EnqueueNext(t)
    BY <2>3 DEF EnqueueNext
  <2>4. CASE EnqueueHelp(t)
    BY <2>4 DEF EnqueueHelp
  <2>5. CASE EnqueueLink(t)
    BY <2>5 DEF EnqueueLink
  <2>6. CASE EnqueueRetry(t)
    BY <2>6 DEF EnqueueRetry
  <2>7. CASE EnqueueSwing(t)
    BY <2>7 DEF EnqueueSwing
  <2> QED
    BY <1>1, <2>1, <2>2, <2>3, <2>4, <2>5, <2>6, <2>7
    DEF EnqueueStep
<1>2. CASE DequeueStep(t)
  <2>1. CASE Dequeue(t)
    BY <2>1 DEF Dequeue
  <2>2. CASE DequeueHeadProtected(t)
    BY <2>2 DEF DequeueHeadProtected
  <2>3. CASE DequeueNextProtected(t)
    BY <2>3 DEF DequeueNextProtected
  <2>4. CASE DequeueRecheck(t)
    BY <2>4 DEF DequeueRecheck
  <2>5. CASE DequeueStale(t)
    BY <2>5 DEF DequeueStale
  <2>6. CASE DequeueEmpty(t)
    BY <2>6 DEF DequeueEmpty
  <2>7. CASE DequeueTail(t)
    BY <2>7 DEF DequeueTail
  <2>8. CASE DequeueHelp(t)
    BY <2>8 DEF DequeueHelp
  <2>9. CASE DequeueMove(t)
    BY <2>9 DEF DequeueMove
  <2>10. CASE DequeueRetry(t)
    BY <2>10 DEF DequeueRetry
  <2>11. CASE DequeueReturn(t)
    BY <2>11 DEF DequeueReturn
  <2> QED
    BY <1>2, <2>1, <2>2, <2>3, <2>4, <2>5, <2>6, <2>7, <2>8, <2>9, <2>10, <2>11
    DEF DequeueStep
<1>3. CASE CleanupLocals(t) \/ Join(t)
  BY <1>3 DEF CleanupLocals, Join
<1>4. CASE HazardStep(t) /\ StoreHazard(t)
  <2>1. slot[t] \in 0 .. 2
    BY DEF dimention
  <2>2. \A u \in Threads \ {t} : \A m \in 0 .. 2 :
           stored_pointers'[SlotOf(u, m)] = stored_pointers[SlotOf(u, m)]
    BY <1>4, <2>1, SlotsApart DEF StoreHazard
  <2> QED
    BY <1>4, <2>2 DEF HazardStep, StoreHazard
<1>5. CASE HazardStep(t) /\ ClearSlot(t)
  <2>1. cursor[t] \in 0 .. 2
    BY <1>5 DEF ClearSlot, StageInv, dimention
  <2>2. \A u \in Threads \ {t} : \A m \in 0 .. 2 :
           stored_pointers'[SlotOf(u, m)] = stored_pointers[SlotOf(u, m)]
    BY <1>5, <2>1, SlotsApart DEF ClearSlot
  <2> QED
    BY <1>5, <2>2 DEF HazardStep, ClearSlot
<1>6. CASE HazardStep(t) /\ ~(StoreHazard(t) \/ ClearSlot(t))
  BY <1>6 DEF HazardStep, ProtectStep, RemoveStep, EnterProtect, CheckFree, LoadPointer,
              ReloadPointer, LeaveProtect, BackOff, Announce, AwaitProtectors, ScanSlot,
              DeleteUnregistered, Retract
<1> QED
  BY <1>1, <1>2, <1>3, <1>4, <1>5, <1>6 DEF ThreadStep

(* The threads run before the destructor only.                              *)
LEMMA Running ==
    ASSUME TypeInv, PhaseInv, NEW t \in Threads, ThreadStep(t)
    PROVE  ~Destructing /\ ~Destructing'
<1> USE DEF TypeInv, TypeOK, HPTypeOK, Pc, EnqueuePc, DequeuePc
<1>1. pc[t] \notin {"destroying", "destroyed"} /\ pc'[t] \notin {"destroying", "destroyed"}
  <2>1. CASE EnqueueStep(t)
    BY <2>1 DEF EnqueueStep, Enqueue, EnqueueProtected, EnqueueNext, EnqueueHelp, EnqueueLink,
              EnqueueRetry, EnqueueSwing, Goto
  <2>2. CASE DequeueStep(t)
    BY <2>2 DEF DequeueStep, Dequeue, DequeueHeadProtected, DequeueNextProtected,
              DequeueRecheck, DequeueStale, DequeueEmpty, DequeueTail, DequeueHelp,
              DequeueMove, DequeueRetry, DequeueReturn, Goto
  <2>3. CASE CleanupLocals(t) \/ Join(t)
    BY <2>3 DEF CleanupLocals, Join, Goto
  <2>4. CASE HazardStep(t)
    <3>1. stage[t] # "out" /\ pc' = pc
      BY <2>4 DEF HazardStep, ProtectStep, RemoveStep, EnterProtect, CheckFree, LoadPointer,
              StoreHazard, ReloadPointer, LeaveProtect, BackOff, ClearSlot, Announce,
              AwaitProtectors, ScanSlot, DeleteUnregistered, Retract, Step, callVars
    <3> QED
      BY <3>1 DEF StageInv, ProtectPc
  <2> QED
    BY <2>1, <2>2, <2>3, <2>4 DEF ThreadStep
<1>2. ~Destructing
  BY <1>1 DEF PhaseInv
<1> QED
  BY <1>1, <1>2, OnlyItsOwn DEF Destructing, Elsewhere

-----------------------------------------------------------------------------
(* What a step may do to the Elements while other threads rely on theirs:   *)
(* what a slot holds stays linked, a successor is for ever, nothing returns *)
(* to the list, the head is left only by retiring it, and tail does not     *)
(* move back to it.                                                         *)
Considerate ==
    /\ \A i \in Slots : stored_pointers[i] \in Linked => stored_pointers[i] \in Linked'
    /\ \A a \in Linked : next[a] # Null => next'[a] = next[a]
    /\ \A a \in Linked : a \in Nodes' => a \in Nodes
    /\ head \in Nodes' => head' = head
    /\ head' = head /\ tail # head => tail' # head

(* What a step does to the list: nothing, or it appends the Element that t  *)
(* made, or it takes the first node off.                                    *)
ListStays ==
    /\ Nodes' = Nodes /\ First' = First
    /\ \A a \in Nodes : next'[a] = next[a]

ListGrows(t) ==
    /\ Nodes' = Nodes \cup {new_element[t]} /\ First' = First /\ First # Null
    /\ node[t] \in Nodes /\ new_element[t] \in Addr \ Nodes
    /\ next[node[t]] = Null /\ next[new_element[t]] = Null
    /\ next' = [next EXCEPT ![node[t]] = new_element[t]]

ListShrinks ==
    /\ First # Null
    /\ Nodes' = Nodes \ {First} /\ First' = next[First]
    /\ UNCHANGED next

(* After a considerate step what the others rely on stays true.                                            *)
LEMMA OthersHold ==
    ASSUME TypeInv, HoldInv, NEW t \in Threads, Elsewhere(t), Considerate,
           NEW u \in Threads \ {t}
    PROVE  (ProtectInv(u) /\ EnqueueInv(u) /\ DequeueInv(u))'
<1>1. /\ pc'[u] = pc[u] /\ stage'[u] = stage[u] /\ slot'[u] = slot[u]
      /\ old_value'[u] = old_value[u] /\ node'[u] = node[u] /\ succ'[u] = succ[u]
      /\ new_element'[u] = new_element[u]
      /\ \A num \in 0 .. 2 : stored_pointers'[SlotOf(u, num)] = stored_pointers[SlotOf(u, num)]
  BY DEF Elsewhere
<1>2. \A num \in 0 .. 2 : SlotOf(u, num) \in Slots
  BY SlotsApart
<1>3. \A num \in 0 .. 2, a \in Linked : Holds(u, num, a) => Holds(u, num, a)'
  BY <1>1, <1>2 DEF Considerate, Holds
<1>4. slot[u] \in 0 .. 2
  BY DEF TypeInv, TypeOK, HPTypeOK, dimention
<1>5. ProtectInv(u)'
  BY <1>1, <1>2, <1>4, SMTT(30) DEF HoldInv, ProtectInv, Considerate, SlotOf, ProtectPc
<1>6. EnqueueInv(u)'
  <2>1. EnqueueInv(u)
    BY DEF HoldInv
  <2>2. pc[u] \in {"enq_next", "enq_help", "enq_link", "enq_swing"} =>
           Holds(u, 0, node[u]) /\ Holds(u, 0, node[u])'
    BY <1>1, <1>3, <2>1 DEF EnqueueInv, Holds
  <2>3. pc[u] = "enq_help" => succ[u] # Null
    BY NullAssumption DEF TypeInv, LocalInv
  <2>4. pc[u] = "enq_swing" => new_element[u] # Null
    BY NullAssumption DEF TypeInv, LocalInv, EnqueuePc
  <2> QED
    BY <1>1, <2>1, <2>2, <2>3, <2>4 DEF EnqueueInv, Considerate, Holds
<1>7. DequeueInv(u)'
  <2>1. DequeueInv(u)
    BY DEF HoldInv
  <2>2. pc[u] \in {"deq_protect_next", "deq_check", "deq_tail", "deq_help", "deq_move"} =>
           /\ Holds(u, 1, node[u])'
           /\ node[u] \in Linked
           /\ next[node[u]] # Null => next'[node[u]] = next[node[u]]
           /\ node[u] \in Nodes' => node[u] \in Nodes /\ node[u] = head'
    BY <1>1, <1>3, <2>1 DEF DequeueInv, Holds, Considerate
  <2>3. pc[u] \in {"deq_tail", "deq_help", "deq_move", "deq_remove"} => Holds(u, 2, succ[u])'
    BY <1>1, <1>3, <2>1 DEF DequeueInv, Holds
  <2>4. pc[u] \in {"deq_tail", "deq_help", "deq_move"} =>
           succ[u] = next'[node[u]]
    <3>1. pc[u] \in {"deq_tail", "deq_help", "deq_move"} => succ[u] # Null
      BY NullAssumption DEF TypeInv, LocalInv
    <3> QED
      BY <2>1, <2>2, <3>1 DEF DequeueInv, Considerate
  <2>5. pc[u] = "deq_move" /\ node[u] \in Nodes' => node[u] # tail'
    BY <2>1, <2>2, <2>4 DEF DequeueInv, Considerate
  <2> QED
    BY <1>1, <2>1, <2>2, <2>3, <2>4, <2>5 DEF DequeueInv, Holds
<1> QED
  BY <1>5, <1>6, <1>7

(* A step that neither allocates, links, moves head or tail, retires nor    *)
(* deletes changes nothing about the Elements.                              *)
Memory == <<live, pointers_to_delete, head, tail, next, to_delete>>

LEMMA KeepMemory ==
    ASSUME TypeInv, HeapInv, ListInv, PhaseInv, NEW t \in Threads, ThreadStep(t),
           UNCHANGED Memory, Private(t)' = Private(t)
    PROVE  HeapInv' /\ ListInv' /\ Considerate /\ ListStays /\ Linked' = Linked
<1>1. ~Destructing /\ ~Destructing'
  BY Running
<1>2. \A u \in Threads : Private(u)' = Private(u)
  BY OnlyItsOwn DEF Elsewhere, Private
<1>3. Linked' = Linked /\ Retired' = Retired /\ First' = First
  BY <1>1, <1>2 DEF Memory, Linked, Retired, First
<1>4. Nodes' = Nodes
  BY <1>3 DEF Nodes
<1>5. HeapInv'
  BY <1>2, <1>3 DEF HeapInv, Memory
<1>6. ListInv'
  BY <1>1, <1>2, <1>3, <1>4 DEF ListInv, Memory
<1>7. Considerate
  BY <1>3, <1>4 DEF Considerate, Memory
<1> QED
  BY <1>3, <1>4, <1>5, <1>6, <1>7 DEF ListStays, Memory

-----------------------------------------------------------------------------
(* The steps that do change something about the Elements.                   *)

(* new Element: an address that was not allocated, so nobody holds it.      *)
LEMMA KeepEnqueue ==
    ASSUME TypeInv, HeapInv, ListInv, PhaseInv, NEW t \in Threads, Enqueue(t)
    PROVE  HeapInv' /\ ListInv' /\ Considerate /\ ListStays
<1>1. ThreadStep(t)
  BY DEF ThreadStep, EnqueueStep
<1>2. ~Destructing /\ ~Destructing'
  BY <1>1, Running
<1>3. PICK e \in Addr \ live :
         /\ live' = live \cup {e}
         /\ next' = [next EXCEPT ![e] = Null]
         /\ new_element' = [new_element EXCEPT ![t] = e]
  BY DEF Enqueue
<1>4. UNCHANGED <<pointers_to_delete, head, tail, to_delete>>
  BY DEF Enqueue
<1>5. Private(t) = {} /\ Private(t)' = {e}
  BY <1>3 DEF Enqueue, Goto, Private, EnqueuePc, TypeInv, TypeOK
<1>6. \A u \in Threads \ {t} : Private(u)' = Private(u)
  BY <1>1, OnlyItsOwn DEF Elsewhere, Private
<1>7. \A u \in Threads : Private(u) \subseteq live
  BY DEF HeapInv
<1>8. Linked' = Linked
  BY <1>3, <1>5, <1>6, <1>7 DEF Linked
<1>9. Retired' = Retired /\ Nodes' = Nodes /\ First' = First
  BY <1>2, <1>4, <1>8 DEF Retired, Nodes, First
<1>10. \A a \in live : next'[a] = next[a]
  BY <1>3 DEF TypeInv, TypeOK, HPTypeOK
<1>11. Linked \subseteq live /\ Nodes \subseteq live /\ Retired \subseteq live
  BY DEF Linked, Nodes, Retired, HeapInv
<1>12. HeapInv'
  BY <1>3, <1>4, <1>5, <1>6, <1>7, <1>8 DEF HeapInv
<1>13. ListInv'
  <2>1. next'[e] = Null
    BY <1>3 DEF TypeInv, TypeOK
  <2>2. \A u \in Threads : \A a \in Private(u)' : next'[a] = Null
    BY <1>5, <1>6, <1>7, <1>10, <2>1 DEF ListInv
  <2> QED
    BY <1>2, <1>4, <1>9, <1>10, <1>11, <2>2 DEF ListInv
<1>14. Considerate
  BY <1>4, <1>8, <1>9, <1>10, <1>11 DEF Considerate
<1> QED
  BY <1>9, <1>10, <1>11, <1>12, <1>13, <1>14 DEF ListStays

(* The exchange of next that links the new Element: node is not retired, as *)
(* its next is null.                                                        *)
LEMMA KeepLink ==
    ASSUME TypeInv, HeapInv, ListInv, PhaseInv, HoldInv, NEW t \in Threads, EnqueueLink(t)
    PROVE  HeapInv' /\ ListInv' /\ Considerate /\ ListGrows(t)
<1> DEFINE e == new_element[t]
           n == node[t]
<1>1. ThreadStep(t)
  BY DEF ThreadStep, EnqueueStep
<1>2. ~Destructing /\ ~Destructing'
  BY <1>1, Running
<1>3. /\ pc[t] = "enq_link" /\ pc'[t] = "enq_swing"
      /\ e \in Addr /\ n \in Addr
      /\ next[n] = Null
      /\ next' = [next EXCEPT ![n] = e]
      /\ UNCHANGED <<live, pointers_to_delete, head, tail, to_delete, stored_pointers, new_element>>
  BY DEF EnqueueLink, Goto, Exchanges, TypeInv, TypeOK, LocalInv, EnqueuePc, hpVars
<1>4. Private(t) = {e} /\ Private(t)' = {}
  BY <1>3 DEF Private, EnqueuePc
<1>5. \A u \in Threads \ {t} : Private(u)' = Private(u)
  BY <1>1, OnlyItsOwn DEF Elsewhere, Private
<1>6. e \in live /\ e \notin Linked /\ next[e] = Null
  BY <1>4 DEF HeapInv, ListInv, Linked
<1>7. Linked' = Linked \cup {e}
  BY <1>3, <1>4, <1>5, <1>6 DEF Linked, HeapInv
<1>8. Retired' = Retired /\ First' = First /\ e \notin Retired
  BY <1>2, <1>3, <1>6 DEF Retired, First, HeapInv
<1>9. Nodes' = Nodes \cup {e}
  BY <1>7, <1>8 DEF Nodes
<1>10. n \in Linked /\ n \in Nodes /\ n # e
  BY <1>3, <1>6 DEF HoldInv, EnqueueInv, Holds, ListInv, Nodes
<1>11. next'[n] = e /\ \A a \in Addr \ {n} : next'[a] = next[a]
  BY <1>3 DEF TypeInv, TypeOK
<1>12. Linked \subseteq Addr /\ Nodes \subseteq Linked /\ Retired \subseteq Addr /\ First \in Nodes
  BY <1>2 DEF Linked, Nodes, Retired, TypeInv, TypeOK, HPTypeOK, ListInv, First
<1>13. HeapInv'
  BY <1>3, <1>4, <1>5, <1>7 DEF HeapInv
<1>14. ListInv'
  <2>1. /\ next'[e] = Null
        /\ \A a \in Nodes \ {n} : next'[a] = next[a]
    BY <1>3, <1>6, <1>10, <1>11, <1>12
  <2>2. ASSUME NEW a \in Nodes', next'[a] # Null PROVE next'[a] \in Nodes' \ {First'}
    <3>1. CASE a = n
      BY <3>1, <1>6, <1>8, <1>9, <1>11, <1>12
    <3>2. CASE a # n
      <4>1. a \in Nodes \ {n}
        BY <3>2, <2>2, <2>1, <1>9
      <4>2. next[a] \in Nodes \ {First}
        BY <4>1, <2>1, <2>2 DEF ListInv
      <4> QED
        BY <4>1, <4>2, <2>1, <1>8, <1>9
    <3> QED
      BY <3>1, <3>2
  <2>3. ASSUME NEW a \in Nodes', NEW b \in Nodes', next'[a] = next'[b], next'[a] # Null
        PROVE  a = b
    <3>1. a \in Nodes /\ b \in Nodes
      BY <2>1, <2>3, <1>9
    <3>2. \A x \in Nodes : next[x] # e
      BY <1>3, <1>6, <1>12, NullAssumption DEF ListInv
    <3> QED
      BY <3>1, <3>2, <2>1, <2>3, <1>11 DEF ListInv
  <2>4. \A a \in Retired' : next'[a] # Null
    BY <1>3, <1>8, <1>11, <1>12, NullAssumption DEF ListInv
  <2>5. \A u \in Threads : \A a \in Private(u)' : next'[a] = Null
    <3>1. \A u \in Threads : \A a \in Private(u) : a \in Addr \ {n}
      BY <1>10 DEF Linked, HeapInv, TypeInv, TypeOK, HPTypeOK
    <3> QED
      BY <1>4, <1>5, <1>11, <3>1 DEF ListInv
  <2>6. First' \in Nodes' \cup {Null} /\ (~Destructing' => head' \in Nodes' /\ tail' \in Nodes')
    BY <1>2, <1>3, <1>8, <1>9, <1>12 DEF ListInv
  <2> QED
    BY <2>2, <2>3, <2>4, <2>5, <2>6 DEF ListInv
<1>15. Considerate
  BY <1>3, <1>6, <1>7, <1>9, <1>11, <1>12 DEF Considerate
<1>16. ListGrows(t)
  BY <1>3, <1>6, <1>8, <1>9, <1>10, <1>12, NullAssumption DEF ListGrows
<1> QED
  BY <1>13, <1>14, <1>15, <1>16

(* tail moves to the successor of the node it is at, if at all.             *)
LEMMA KeepTail ==
    ASSUME TypeInv, HeapInv, ListInv, PhaseInv, NEW t \in Threads, ThreadStep(t),
           UNCHANGED <<live, pointers_to_delete, head, next, to_delete>>,
           Private(t)' = Private(t),
           tail' \in {tail, next[tail]} \ {Null}
    PROVE  HeapInv' /\ ListInv' /\ Considerate /\ ListStays /\ Linked' = Linked
<1>1. ~Destructing /\ ~Destructing'
  BY Running
<1>2. \A u \in Threads : Private(u)' = Private(u)
  BY OnlyItsOwn DEF Elsewhere, Private
<1>3. Linked' = Linked /\ Retired' = Retired /\ First' = First
  BY <1>1, <1>2 DEF Linked, Retired, First
<1>4. Nodes' = Nodes
  BY <1>3 DEF Nodes
<1>5. HeapInv'
  BY <1>2, <1>3 DEF HeapInv
<1>6. tail' \in Nodes /\ (tail # head => tail' # head)
  BY <1>1 DEF ListInv, First
<1>7. ListInv'
  BY <1>1, <1>2, <1>3, <1>4, <1>6 DEF ListInv
<1>8. Considerate
  BY <1>3, <1>4, <1>6 DEF Considerate
<1> QED
  BY <1>3, <1>4, <1>5, <1>7, <1>8 DEF ListStays

(* The exchange of head, with which the old head is retired: tail is not    *)
(* there any more (line 148), and no node leads to it.                      *)
LEMMA KeepMove ==
    ASSUME TypeInv, HeapInv, ListInv, PhaseInv, HoldInv, NEW t \in Threads, DequeueMove(t)
    PROVE  HeapInv' /\ ListInv' /\ Considerate /\ ListShrinks /\ Linked' = Linked
<1> DEFINE n == node[t]
<1>1. ThreadStep(t)
  BY DEF ThreadStep, DequeueStep
<1>2. ~Destructing /\ ~Destructing'
  BY <1>1, Running
<1>3. /\ pc[t] = "deq_move" /\ pc'[t] = "deq_remove"
      /\ n = head /\ head' = succ[t] /\ succ[t] \in Addr
      /\ pointers_to_delete' = [pointers_to_delete EXCEPT ![t] = @ \cup {n}]
      /\ UNCHANGED <<live, tail, next, to_delete, stored_pointers, new_element>>
  BY DEF DequeueMove, Goto, Exchanges, CallRemove, TypeInv, TypeOK, LocalInv
<1>4. n \in Nodes /\ n # tail /\ tail \in Nodes /\ First = n
  BY <1>2, <1>3 DEF HoldInv, DequeueInv, ListInv, First
<1>5. succ[t] = next[n] /\ next[n] # Null
  BY <1>3, NullAssumption DEF HoldInv, DequeueInv
<1>6. \A u \in Threads : Private(u)' = Private(u)
  BY <1>1, <1>3, OnlyItsOwn DEF Elsewhere, Private, EnqueuePc
<1>7. Linked' = Linked
  BY <1>3, <1>6 DEF Linked
<1>8. Nodes \subseteq Addr /\ Nodes \subseteq Linked
  BY DEF Nodes, Linked, TypeInv, TypeOK, HPTypeOK
<1>9. Retired' = Retired \cup {n} /\ n \notin Retired
  BY <1>3, <1>4, <1>8 DEF Retired, Nodes, TypeInv, TypeOK, HPTypeOK
<1>10. Nodes' = Nodes \ {n}
  BY <1>7, <1>9 DEF Nodes
<1>11. First' = next[n] /\ next[n] \in Nodes \ {n}
  BY <1>2, <1>3, <1>4, <1>5 DEF First, ListInv
<1>12. HeapInv'
  <2>1. \A u \in Threads \ {t} : pointers_to_delete'[u] = pointers_to_delete[u]
    BY <1>3 DEF TypeInv, TypeOK, HPTypeOK
  <2>2. pointers_to_delete'[t] = pointers_to_delete[t] \cup {n}
    BY <1>3 DEF TypeInv, TypeOK, HPTypeOK
  <2>3. \A u \in Threads : n \notin pointers_to_delete[u]
    BY <1>4, <1>8, <1>9 DEF Retired
  <2> QED
    BY <1>3, <1>4, <1>6, <1>7, <1>8, <2>1, <2>2, <2>3 DEF HeapInv
<1>13. ListInv'
  <2>1. \A a \in Nodes' : next'[a] # Null => next'[a] \in Nodes' \ {First'}
    BY <1>3, <1>4, <1>5, <1>10, <1>11 DEF ListInv
  <2>2. \A a, b \in Nodes' : next'[a] = next'[b] /\ next'[a] # Null => a = b
    BY <1>3, <1>10 DEF ListInv
  <2>3. \A a \in Retired' : next'[a] # Null
    BY <1>3, <1>5, <1>9 DEF ListInv
  <2>4. head' \in Nodes' /\ tail' \in Nodes' /\ First' \in Nodes'
    BY <1>3, <1>4, <1>5, <1>10, <1>11
  <2>5. \A u \in Threads : \A a \in Private(u)' : next'[a] = Null
    BY <1>3, <1>6 DEF ListInv
  <2> QED
    BY <2>1, <2>2, <2>3, <2>4, <2>5 DEF ListInv
<1>14. Considerate
  BY <1>3, <1>4, <1>5, <1>7, <1>10, <1>11 DEF Considerate
<1>15. ListShrinks
  BY <1>3, <1>4, <1>8, <1>10, <1>11, NullAssumption DEF ListShrinks
<1> QED
  BY <1>7, <1>12, <1>13, <1>14, <1>15

(* The deletions: what is deleted is retired, and no slot holds it.         *)
LEMMA KeepDelete ==
    ASSUME Inv, HeapInv, ListInv, PhaseInv, NEW t \in Threads, DeleteUnregistered(t),
           ThreadStep(t), UNCHANGED <<queueVars, callVars>>
    PROVE  HeapInv' /\ ListInv' /\ Considerate /\ ListStays
<1> DEFINE deleted == pointers_to_delete[t] \ registered[t]
<1>1. ~Destructing /\ ~Destructing'
  BY Running DEF Inv
<1>2. /\ stage[t] = "delete"
      /\ live' = live \ deleted
      /\ pointers_to_delete' = [pointers_to_delete EXCEPT ![t] = @ \ deleted]
      /\ UNCHANGED stored_pointers
  BY DEF DeleteUnregistered, Step, Inv, TypeInv, TypeOK, HPTypeOK
<1>3. UNCHANGED <<head, tail, next, to_delete>> /\ \A u \in Threads : Private(u)' = Private(u)
  BY DEF queueVars, callVars, Private
<1>4. \A i \in Slots : stored_pointers[i] \notin deleted
  BY <1>2, NullAssumption DEF Inv, ScanInv, TypeInv, TypeOK, HPTypeOK
<1>5. Linked' = Linked \ deleted
  BY <1>2, <1>3 DEF Linked
<1>6. /\ pointers_to_delete'[t] = pointers_to_delete[t] \ deleted
      /\ \A u \in Threads \ {t} : pointers_to_delete'[u] = pointers_to_delete[u]
  BY <1>2 DEF Inv, TypeInv, TypeOK, HPTypeOK
<1>7. deleted \subseteq pointers_to_delete[t] /\ deleted \subseteq Addr
  BY DEF Inv, TypeInv, TypeOK, HPTypeOK
<1>8. Retired' = Retired \ deleted /\ deleted \subseteq Retired
  BY <1>6, <1>7 DEF Retired, HeapInv
<1>9. Nodes' = Nodes
  BY <1>5, <1>8 DEF Nodes
<1>10. First' = First
  BY <1>1, <1>3 DEF First
<1>11. HeapInv'
  <2>1. \A u \in Threads : Private(u) \cap deleted = {}
    BY <1>7 DEF HeapInv, Linked
  <2> QED
    BY <1>2, <1>3, <1>5, <1>6, <1>7, <2>1 DEF HeapInv
<1>12. ListInv'
  BY <1>1, <1>3, <1>8, <1>9, <1>10 DEF ListInv
<1>13. Considerate
  BY <1>2, <1>3, <1>4, <1>5, <1>9 DEF Considerate
<1> QED
  BY <1>3, <1>9, <1>10, <1>11, <1>12, <1>13 DEF ListStays

-----------------------------------------------------------------------------
(* What a thread itself may rely on after its step.                         *)
Relies(t) == ProtectInv(t) /\ EnqueueInv(t) /\ DequeueInv(t)

(* Inside protect(): the value that was reloaded is linked, as tail and head*)
(* are.                                                                     *)
LEMMA OwnProtect ==
    ASSUME TypeInv, ListInv, PhaseInv, HoldInv, NEW t \in Threads, pc[t] \in ProtectPc,
           ProtectStep(t, Protected(t)), UNCHANGED <<queueVars, callVars>>, Linked' = Linked,
           Nodes' = Nodes, ~Destructing
    PROVE  Relies(t)'
<1> USE DEF Step, ProtectPc, sharedVars, localVars, queueVars, callVars
<1>1. ProtectInv(t) /\ EnqueueInv(t) /\ DequeueInv(t)
  BY DEF HoldInv
<1>2. /\ slot[t] \in 0 .. 2
      /\ SlotOf(t, slot[t]) \in Slots /\ SlotOf(t, 1) # SlotOf(t, 2)
  BY SlotsApart DEF TypeInv, TypeOK, HPTypeOK, dimention, SlotOf, Threads
<1>3. UNCHANGED <<pc, slot, node>>
  BY DEF ProtectStep, EnterProtect, CheckFree, LoadPointer, StoreHazard, ReloadPointer,
         LeaveProtect, BackOff
<1>4. pc[t] = "deq_protect_next" =>
         stored_pointers'[SlotOf(t, 1)] = stored_pointers[SlotOf(t, 1)]
  BY <1>1, <1>2, SlotsApart
  DEF ProtectStep, EnterProtect, CheckFree, LoadPointer, StoreHazard, ReloadPointer,
      LeaveProtect, BackOff, ProtectInv, TypeInv, TypeOK, HPTypeOK
<1>5. EnqueueInv(t)'
  BY <1>3 DEF EnqueueInv
<1>6. stage \in [Threads -> Stages] /\ old_value \in [Threads -> Addr \cup {Null}]
      /\ stored_pointers \in [Slots -> Addr \cup {Null}]
  BY DEF TypeInv, TypeOK, HPTypeOK
<1>7. tail \in Linked /\ head \in Linked
  BY DEF ListInv, Nodes
<1>8. CASE EnterProtect(t) \/ CheckFree(t) \/ LoadPointer(t, Protected(t)) \/ BackOff(t)
  <2>1. stage'[t] \notin {"reload", "leave", "protected"}
    BY <1>8, <1>6 DEF EnterProtect, CheckFree, LoadPointer, BackOff
  <2> QED
    BY <2>1, <1>1, <1>3, <1>4, <1>5 DEF Relies, ProtectInv, DequeueInv, Holds
<1>9. CASE StoreHazard(t)
  <2>1. stage'[t] = "reload" /\ stored_pointers'[SlotOf(t, slot[t])] = old_value[t]
        /\ UNCHANGED old_value
    BY <1>9, <1>2, <1>6 DEF StoreHazard
  <2> QED
    BY <2>1, <1>1, <1>3, <1>4, <1>5 DEF Relies, ProtectInv, DequeueInv, Holds
<1>10. CASE ReloadPointer(t, Protected(t))
  <2>1. /\ UNCHANGED <<old_value, stored_pointers>>
        /\ stage[t] = "reload"
        /\ stage'[t] \in {"leave", "load"}
        /\ stage'[t] = "leave" => Protected(t) = old_value[t]
    BY <1>10, <1>6 DEF ReloadPointer
  <2>2. ProtectInv(t)'
    BY <2>1, <1>1, <1>3, <1>7 DEF ProtectInv, Protected
  <2>3. DequeueInv(t)'
    BY <2>1, <1>1, <1>3, <1>4 DEF DequeueInv, Holds, Protected
  <2> QED
    BY <2>2, <2>3, <1>5 DEF Relies
<1>11. CASE LeaveProtect(t)
  <2>1. stage[t] = "leave" /\ UNCHANGED <<old_value, stored_pointers>>
    BY <1>11 DEF LeaveProtect
  <2> QED
    BY <2>1, <1>1, <1>3, <1>4, <1>5 DEF Relies, ProtectInv, DequeueInv, Holds
<1> QED
  BY <1>8, <1>9, <1>10, <1>11 DEF ProtectStep

(* Inside remove() and cleanup(): the slots that are cleared protect nothing *)
(* any more, and the deletions respect the others.                          *)
LEMMA OwnRemove ==
    ASSUME TypeInv, HoldInv, NEW t \in Threads, RemoveStep(t),
           UNCHANGED <<queueVars, callVars>>, Considerate
    PROVE  Relies(t)'
<1>1. pc'[t] = pc[t] /\ pc[t] \in {"deq_remove", "cleanup"} /\ succ'[t] = succ[t]
  BY DEF callVars, RemoveStep, ClearSlot, Announce, AwaitProtectors, ScanSlot,
         DeleteUnregistered, Retract, Step, TypeInv, TypeOK, HPTypeOK, StageInv, ProtectPc,
         Protecting, Removing, Stages
<1>2. pc[t] = "deq_remove" => UNCHANGED stored_pointers
  BY DEF RemoveStep, ClearSlot, Announce, AwaitProtectors, ScanSlot, DeleteUnregistered,
         Retract, Step, TypeInv, StageInv, Removing, sharedVars
<1>3. SlotOf(t, 2) \in Slots
  BY SlotsApart
<1>4. pc[t] = "deq_remove" => Holds(t, 2, succ[t])
  BY DEF HoldInv, DequeueInv
<1> QED
  BY <1>1, <1>2, <1>3, <1>4
  DEF Relies, ProtectInv, EnqueueInv, DequeueInv, Considerate, Holds, ProtectPc

(* The steps of enqueue().                                                  *)
LEMMA OwnEnqueue ==
    ASSUME TypeInv, HoldInv, NEW t \in Threads, EnqueueStep(t), Considerate
    PROVE  Relies(t)'
<1> USE DEF Relies, ProtectInv, EnqueueInv, DequeueInv, Goto, Step, ProtectPc, TypeInv, TypeOK,
            HPTypeOK
<1>1. ProtectInv(t) /\ EnqueueInv(t)
  BY DEF HoldInv
<1>2. SlotOf(t, 0) \in Slots
  BY SlotsApart
<1>3. CASE Enqueue(t)
  <2>1. pc'[t] = "enq_protect" /\ stage'[t] = "enter" /\ slot'[t] = 0
    BY <1>3 DEF Enqueue, dimention
  <2> QED
    BY <2>1
<1>4. CASE EnqueueProtected(t)
  <2>1. /\ pc[t] = "enq_protect" /\ stage[t] = "protected" /\ pc'[t] = "enq_next"
        /\ stage'[t] = "out" /\ node'[t] = old_value[t] /\ UNCHANGED stored_pointers
    BY <1>4 DEF EnqueueProtected, sharedVars
  <2> QED
    BY <2>1, <1>1, <1>2 DEF Holds, Considerate
<1>5. CASE EnqueueNext(t)
  <2>1. /\ pc[t] = "enq_next" /\ pc'[t] \in {"enq_link", "enq_help"}
        /\ succ'[t] = next[node[t]] /\ UNCHANGED <<node, next, stored_pointers>>
    BY <1>5 DEF EnqueueNext, hpVars, queueVars
  <2> QED
    BY <2>1, <1>1, <1>2 DEF Holds, Considerate
<1>6. CASE EnqueueHelp(t) \/ EnqueueRetry(t)
  <2>1. pc'[t] = "enq_protect" /\ stage'[t] = "enter" /\ slot'[t] = 0
    BY <1>6 DEF EnqueueHelp, EnqueueRetry, CallProtect, dimention
  <2> QED
    BY <2>1
<1>7. CASE EnqueueLink(t)
  <2>1. /\ pc[t] = "enq_link" /\ pc'[t] = "enq_swing" /\ node[t] \in Addr
        /\ next' = [next EXCEPT ![node[t]] = new_element[t]]
        /\ UNCHANGED <<node, new_element, stored_pointers>>
    BY <1>7 DEF EnqueueLink, hpVars, LocalInv, EnqueuePc
  <2> QED
    BY <2>1, <1>1, <1>2 DEF Holds, Considerate
<1>8. CASE EnqueueSwing(t)
  <2>1. pc'[t] = "idle"
    BY <1>8 DEF EnqueueSwing
  <2> QED
    BY <2>1
<1> QED
  BY <1>3, <1>4, <1>5, <1>6, <1>7, <1>8 DEF EnqueueStep

(* The steps of dequeue().  Once node is seen to be the head, its successor *)
(* is in the list, and the slot that holds it protects it.                  *)
LEMMA OwnDequeue ==
    ASSUME TypeInv, ListInv, PhaseInv, HoldInv, NEW t \in Threads, DequeueStep(t), Considerate,
           ~Destructing, Linked' = Linked, DequeueMove(t) \/ Nodes' = Nodes
    PROVE  Relies(t)'
<1> USE DEF Relies, ProtectInv, EnqueueInv, DequeueInv, Goto, Step, ProtectPc, TypeInv, TypeOK,
            HPTypeOK
<1>1. ProtectInv(t) /\ DequeueInv(t)
  BY DEF HoldInv
<1>2. CASE Dequeue(t) \/ DequeueStale(t) \/ DequeueHelp(t) \/ DequeueRetry(t)
  <2>1. pc'[t] = "deq_protect_head" /\ stage'[t] = "enter" /\ slot'[t] = 1
    BY <1>2 DEF Dequeue, DequeueStale, DequeueHelp, DequeueRetry, CallProtect, dimention
  <2> QED
    BY <2>1
<1>3. CASE DequeueHeadProtected(t)
  <2>1. /\ pc[t] = "deq_protect_head" /\ stage[t] = "protected" /\ pc'[t] = "deq_protect_next"
        /\ stage'[t] = "enter" /\ slot'[t] = 2 /\ node'[t] = old_value[t]
        /\ UNCHANGED <<stored_pointers, head>>
    BY <1>3 DEF DequeueHeadProtected, CallProtect, sharedVars, queueVars, dimention
  <2>2. Nodes' = Nodes
    BY <2>1 DEF DequeueMove
  <2> QED
    BY <2>1, <2>2, <1>1 DEF Holds
<1>4. CASE DequeueNextProtected(t)
  <2>1. /\ pc[t] = "deq_protect_next" /\ stage[t] = "protected" /\ pc'[t] = "deq_check"
        /\ succ'[t] = old_value[t] /\ UNCHANGED <<node, next, head, stored_pointers>>
    BY <1>4 DEF DequeueNextProtected, sharedVars, queueVars
  <2>2. Nodes' = Nodes
    BY <2>1 DEF DequeueMove
  <2> QED
    BY <2>1, <2>2, <1>1 DEF Holds
<1>5. CASE DequeueRecheck(t)
  <2>1. /\ pc[t] = "deq_check" /\ pc'[t] = "deq_tail" /\ node[t] = head /\ succ[t] # Null
        /\ UNCHANGED <<node, succ, next, head, stored_pointers>>
    BY <1>5 DEF DequeueRecheck, hpVars, queueVars
  <2>2. Nodes' = Nodes
    BY <2>1 DEF DequeueMove
  <2>3. succ[t] = next[head] /\ succ[t] \in Linked
    BY <2>1, <1>1 DEF ListInv, Nodes
  <2> QED
    BY <2>1, <2>2, <2>3, <1>1 DEF Holds
<1>6. CASE DequeueEmpty(t) \/ DequeueReturn(t)
  <2>1. pc'[t] = "idle"
    BY <1>6 DEF DequeueEmpty, DequeueReturn
  <2> QED
    BY <2>1
<1>7. CASE DequeueTail(t)
  <2>1. /\ pc[t] = "deq_tail" /\ pc'[t] \in {"deq_help", "deq_move"}
        /\ pc'[t] = "deq_move" => node[t] # tail
        /\ UNCHANGED <<node, succ, next, head, tail, stored_pointers>>
    BY <1>7 DEF DequeueTail, hpVars, queueVars
  <2>2. Nodes' = Nodes
    BY <2>1 DEF DequeueMove
  <2> QED
    BY <2>1, <2>2, <1>1 DEF Holds
<1>8. CASE DequeueMove(t)
  <2>1. /\ pc[t] = "deq_move" /\ pc'[t] = "deq_remove"
        /\ UNCHANGED <<succ, stored_pointers>>
    BY <1>8 DEF DequeueMove, CallRemove
  <2> QED
    BY <2>1, <1>8, <1>1 DEF Holds
<1> QED
  BY <1>2, <1>3, <1>4, <1>5, <1>6, <1>7, <1>8 DEF DequeueStep

(* Each exchange of tail finds node there, and writes its successor.        *)
LEMMA TailSteps ==
    ASSUME TypeInv, HoldInv, NEW t \in Threads,
           EnqueueHelp(t) \/ EnqueueSwing(t) \/ DequeueHelp(t)
    PROVE  /\ UNCHANGED <<live, pointers_to_delete, head, next, to_delete>>
           /\ Private(t)' = Private(t)
           /\ tail' \in {tail, next[tail]} \ {Null}
<1> USE NullAssumption
    DEF TypeInv, TypeOK, HPTypeOK, LocalInv, HoldInv, Goto, Exchanges, Private, EnqueuePc
<1>1. CASE EnqueueHelp(t)
  BY <1>1 DEF EnqueueHelp, EnqueueInv, CallProtect, sharedVars
<1>2. CASE EnqueueSwing(t)
  BY <1>2 DEF EnqueueSwing, EnqueueInv, hpVars
<1>3. CASE DequeueHelp(t)
  BY <1>3 DEF DequeueHelp, DequeueInv, CallProtect, sharedVars
<1> QED
  BY <1>1, <1>2, <1>3

(* The other steps do not change the Elements at all.                       *)
LEMMA OtherSteps ==
    ASSUME TypeInv, NEW t \in Threads, ThreadStep(t),
           ~(Enqueue(t) \/ EnqueueLink(t) \/ DequeueMove(t)),
           ~(EnqueueHelp(t) \/ EnqueueSwing(t) \/ DequeueHelp(t)),
           ~(HazardStep(t) /\ DeleteUnregistered(t))
    PROVE  UNCHANGED Memory /\ Private(t)' = Private(t)
<1> USE DEF TypeInv, TypeOK, Goto, Private, EnqueuePc, Memory, sharedVars, localVars, hpVars,
            queueVars, callVars, CallProtect, CallCleanup
<1>1. CASE HazardStep(t)
  <2>1. UNCHANGED <<live, pointers_to_delete>>
    BY <1>1 DEF HazardStep, ProtectStep, RemoveStep, EnterProtect, CheckFree, LoadPointer,
       StoreHazard, ReloadPointer, LeaveProtect, BackOff, ClearSlot, Announce, AwaitProtectors,
       ScanSlot, Retract
  <2> QED
    BY <1>1, <2>1 DEF HazardStep
<1>2. CASE EnqueueStep(t)
  BY <1>2 DEF EnqueueStep, EnqueueProtected, EnqueueNext, EnqueueRetry
<1>3. CASE DequeueStep(t)
  BY <1>3 DEF DequeueStep, Dequeue, DequeueHeadProtected, DequeueNextProtected,
              DequeueRecheck, DequeueStale, DequeueEmpty, DequeueTail, DequeueRetry,
              DequeueReturn, Return
<1>4. CASE CleanupLocals(t) \/ Join(t)
  BY <1>4 DEF CleanupLocals, Join
<1> QED
  BY <1>1, <1>2, <1>3, <1>4 DEF ThreadStep

-----------------------------------------------------------------------------
(* Together: each step of a thread keeps the invariant.                     *)
LEMMA ThreadKeeps ==
    ASSUME Inv, MemoryInv, NEW t \in Threads, ThreadStep(t)
    PROVE  MemoryInv'
<1> USE DEF MemoryInv
<1>1. TypeInv
  BY DEF Inv
<1>2. ~Destructing /\ ~Destructing'
  BY <1>1, Running
<1>3. HeapInv' /\ ListInv' /\ Considerate /\ Relies(t)'
  <2>1. CASE Enqueue(t)
    BY <2>1, <1>1, KeepEnqueue, OwnEnqueue DEF EnqueueStep
  <2>2. CASE EnqueueLink(t)
    BY <2>2, <1>1, KeepLink, OwnEnqueue DEF EnqueueStep
  <2>3. CASE DequeueMove(t)
    BY <2>3, <1>1, <1>2, KeepMove, OwnDequeue DEF DequeueStep
  <2>4. CASE EnqueueHelp(t) \/ EnqueueSwing(t) \/ DequeueHelp(t)
    <3>1. HeapInv' /\ ListInv' /\ Considerate /\ Linked' = Linked /\ Nodes' = Nodes
      BY <2>4, <1>1, KeepTail, TailSteps DEF ListStays
    <3>2. EnqueueStep(t) \/ DequeueStep(t)
      BY <2>4 DEF EnqueueStep, DequeueStep
    <3> QED
      BY <3>1, <3>2, <1>1, <1>2, OwnEnqueue, OwnDequeue
  <2>5. CASE HazardStep(t) /\ DeleteUnregistered(t)
    <3>1. HeapInv' /\ ListInv' /\ Considerate
      BY <2>5, KeepDelete DEF HazardStep
    <3> QED
      BY <2>5, <3>1, <1>1, OwnRemove DEF HazardStep, RemoveStep
  <2>6. CASE ~(Enqueue(t) \/ EnqueueLink(t) \/ DequeueMove(t)) /\
             ~(EnqueueHelp(t) \/ EnqueueSwing(t) \/ DequeueHelp(t)) /\
             ~(HazardStep(t) /\ DeleteUnregistered(t))
    <3>1. HeapInv' /\ ListInv' /\ Considerate /\ Linked' = Linked /\ Nodes' = Nodes
      BY <2>6, <1>1, KeepMemory, OtherSteps DEF ListStays
    <3>2. CASE HazardStep(t)
      BY <3>1, <3>2, <1>1, <1>2, OwnProtect, OwnRemove DEF HazardStep, ProtectPc
    <3>3. CASE EnqueueStep(t) \/ DequeueStep(t)
      BY <3>1, <3>3, <1>1, <1>2, OwnEnqueue, OwnDequeue
    <3>4. CASE CleanupLocals(t) \/ Join(t)
      <4>1. pc'[t] \in {"cleanup", "joined"}
        BY <3>4, <1>1 DEF CleanupLocals, Join, Goto, TypeInv, TypeOK
      <4> QED
        BY <3>1, <4>1 DEF Relies, ProtectInv, EnqueueInv, DequeueInv, ProtectPc
    <3> QED
      BY <3>2, <3>3, <3>4 DEF ThreadStep
  <2> QED
    BY <2>1, <2>2, <2>3, <2>4, <2>5, <2>6
<1>4. HoldInv'
  BY <1>1, <1>3, OnlyItsOwn, OthersHold DEF HoldInv, Relies
<1>5. PhaseInv'
  BY <1>2 DEF PhaseInv
<1> QED
  BY <1>3, <1>4, <1>5

(* What each step does to the list: an enqueue() links one Element behind   *)
(* the last, a dequeue() takes the first one off, no other step matters.    *)
LEMMA ThreadList ==
    ASSUME Inv, MemoryInv, NEW t \in Threads, ThreadStep(t)
    PROVE  \/ ListStays
           \/ EnqueueLink(t) /\ ListGrows(t)
           \/ DequeueMove(t) /\ ListShrinks
<1> USE DEF MemoryInv
<1>1. TypeInv
  BY DEF Inv
<1>2. CASE Enqueue(t)
  BY <1>1, <1>2, KeepEnqueue
<1>3. CASE EnqueueLink(t)
  BY <1>1, <1>3, KeepLink
<1>4. CASE DequeueMove(t)
  BY <1>1, <1>4, KeepMove
<1>5. CASE EnqueueHelp(t) \/ EnqueueSwing(t) \/ DequeueHelp(t)
  BY <1>1, <1>5, KeepTail, TailSteps
<1>6. CASE HazardStep(t) /\ DeleteUnregistered(t)
  BY <1>6, KeepDelete DEF HazardStep
<1>7. CASE ~(Enqueue(t) \/ EnqueueLink(t) \/ DequeueMove(t)) /\
           ~(EnqueueHelp(t) \/ EnqueueSwing(t) \/ DequeueHelp(t)) /\
           ~(HazardStep(t) /\ DeleteUnregistered(t))
  BY <1>1, <1>7, KeepMemory, OtherSteps
<1> QED
  BY <1>2, <1>3, <1>4, <1>5, <1>6, <1>7

(* So does each step of the destructor, which takes the list apart from its *)
(* first node on: the next one is nobody's successor then.                  *)
LEMMA DestructorKeeps ==
    ASSUME TypeInv, MemoryInv, DestructorStep
    PROVE  MemoryInv' /\ (ListStays \/ ListShrinks)
<1> USE DEF MemoryInv, TypeInv, TypeOK, HPTypeOK
<1>1. 0 \in Threads
  BY ThreadnumAssumption DEF Threads
<1>2. \A t \in Threads : pc[t] \in {"joined", "destroying"} /\ pc'[t] \in {"destroying", "destroyed"}
  BY DEF DestructorStep, Destroy, DestroyNode, Destroyed
<1>3. PhaseInv' /\ HoldInv'
  BY <1>2 DEF PhaseInv, HoldInv, ProtectInv, EnqueueInv, DequeueInv, ProtectPc
<1>4. Destructing'
  BY <1>1, <1>2 DEF Destructing
<1>5. /\ \A t \in Threads : Private(t) = {} /\ Private(t)' = {}
      /\ UNCHANGED <<pointers_to_delete, next>>
  BY <1>2 DEF Private, EnqueuePc, DestructorStep, Destroy, DestroyNode, Destroyed, hpVars, queueVars
<1>6. Linked = live /\ Linked' = live' /\ Retired' = Retired
  BY <1>5 DEF Linked, Retired
<1>7. CASE Destroy
  <2>1. ~Destructing /\ First' = First /\ UNCHANGED live
    BY <1>7, <1>4 DEF Destroy, Destructing, First, hpVars
  <2>2. Nodes' = Nodes
    BY <2>1, <1>6 DEF Nodes
  <2> QED
    BY <2>1, <2>2, <1>3, <1>4, <1>5, <1>6 DEF HeapInv, ListInv, ListStays
<1>8. CASE DestroyNode
  <2>1. /\ Destructing /\ First = to_delete /\ First # Null
        /\ First' = next[First] /\ live' = live \ {First}
    BY <1>8, <1>1, <1>4 DEF DestroyNode, Destructing, First
  <2>2. First \in Nodes /\ First \notin Retired
    BY <2>1 DEF ListInv, Nodes
  <2>3. Nodes' = Nodes \ {First}
    BY <2>1, <1>6 DEF Nodes
  <2>4. HeapInv'
    BY <2>1, <2>2, <1>5, <1>6 DEF HeapInv, Retired
  <2>5. First' \in Nodes' \cup {Null}
    BY <2>1, <2>2, <2>3 DEF ListInv
  <2>6. \A a \in Nodes' : next'[a] # Null => next'[a] \in Nodes' \ {First'}
    BY <2>1, <2>2, <2>3, <1>5 DEF ListInv
  <2>7. ListInv'
    BY <2>3, <2>5, <2>6, <1>4, <1>5, <1>6 DEF ListInv
  <2> QED
    BY <2>1, <2>3, <2>4, <2>7, <1>3, <1>5 DEF ListShrinks
<1>9. CASE Destroyed
  <2>1. Destructing /\ First' = First /\ UNCHANGED live
    BY <1>9, <1>1, <1>4 DEF Destroyed, Destructing, First, hpVars
  <2>2. Nodes' = Nodes
    BY <2>1, <1>6 DEF Nodes
  <2> QED
    BY <2>1, <2>2, <1>3, <1>4, <1>5, <1>6 DEF HeapInv, ListInv, ListStays
<1> QED
  BY <1>7, <1>8, <1>9 DEF DestructorStep

(* At the beginning the dummy Element is the list.                          *)
LEMMA InitMemoryInv == Init => MemoryInv
<1> SUFFICES ASSUME Init PROVE MemoryInv
  OBVIOUS
<1>1. PICK dummy \in Addr :
         /\ live = {dummy} /\ head = dummy /\ tail = dummy
         /\ next = [a \in Addr |-> Null]
         /\ pc = [t \in Threads |-> "idle"]
         /\ pointers_to_delete = [t \in Threads |-> {}]
  BY DEF Init, HPInit
<1>2. ~Destructing /\ \A t \in Threads : Private(t) = {}
  BY <1>1 DEF Destructing, Private, EnqueuePc
<1>3. Retired = {} /\ Linked = {dummy} /\ Nodes = {dummy} /\ First = dummy
  BY <1>1, <1>2 DEF Retired, Linked, Nodes, First
<1> QED
  BY <1>1, <1>2, <1>3
  DEF MemoryInv, HeapInv, ListInv, PhaseInv, HoldInv, ProtectInv, EnqueueInv, DequeueInv, ProtectPc

(* A step that changes nothing keeps the invariant.                         *)
LEMMA StutterKeeps ==
    ASSUME MemoryInv, UNCHANGED vars
    PROVE  MemoryInv'
BY DEF vars, hpVars, queueVars, callVars, MemoryInv, HeapInv, ListInv, PhaseInv, HoldInv,
       ProtectInv, EnqueueInv, DequeueInv, Holds, Linked, Retired, Nodes, First, Destructing,
       Private

LEMMA MemoryInvariance == Spec => [](Inv /\ MemoryInv)
<1>1. Inv /\ MemoryInv /\ [Next]_vars => MemoryInv'
  BY ThreadKeeps, DestructorKeeps, StutterKeeps DEF Inv, Next, Finished
<1>2. Init => MemoryInv
  BY InitMemoryInv
<1> QED
  BY <1>1, <1>2, Invariance, PTL DEF Spec

(* For any number of threads, addresses and calls, no step of enqueue(),    *)
(* dequeue() or the destructor reads or writes an Element that was deleted: *)
(* hazard pointers of this class do what they are for.                      *)
THEOREM MemorySafe == Spec => []NoUseAfterFree
<1>1. ASSUME Inv, MemoryInv PROVE NoUseAfterFree
  <2> SUFFICES ASSUME NEW t \in Threads PROVE Dereferenced(t) \subseteq live
    BY DEF NoUseAfterFree
  <2>1. Linked \subseteq live /\ Nodes \subseteq Linked
    BY DEF Linked, Nodes
  <2>2. pc[t] \in {"enq_next", "enq_link", "deq_protect_next"} => node[t] \in live
    BY <2>1, <1>1 DEF MemoryInv, HoldInv, EnqueueInv, DequeueInv, Holds
  <2>3. pc[t] = "deq_remove" => succ[t] \in live
    BY <2>1, <1>1 DEF MemoryInv, HoldInv, DequeueInv, Holds
  <2>4. pc[t] = "destroying" => to_delete \in live \cup {Null}
    BY <2>1, <1>1 DEF MemoryInv, ListInv, First, Destructing
  <2> QED
    BY <2>2, <2>3, <2>4 DEF Dereferenced
<1> QED
  BY <1>1, MemoryInvariance, PTL

(* For any number of threads, head and tail move to the successor of the    *)
(* Element they point to and nowhere else: no exchange succeeds on an       *)
(* address that was deleted and allocated again in between.                 *)
THEOREM NoABA == Spec => AdvanceByOne
<1> DEFINE ByOne == (head' # head => head' = next[head]) /\ (tail' # tail => tail' = next[tail])
<1>1. Inv /\ MemoryInv /\ [Next]_vars => [ByOne]_vars
  <2> SUFFICES ASSUME Inv, MemoryInv, [Next]_vars PROVE ByOne \/ UNCHANGED vars
    OBVIOUS
  <2>1. ASSUME NEW t \in Threads, DequeueMove(t) PROVE ByOne
    BY <2>1 DEF DequeueMove, Goto, Exchanges, MemoryInv, HoldInv, DequeueInv
  <2>2. ASSUME NEW t \in Threads, EnqueueHelp(t) \/ EnqueueSwing(t) \/ DequeueHelp(t)
        PROVE  ByOne
    BY <2>2, TailSteps DEF Inv, MemoryInv
  <2>3. ASSUME NEW t \in Threads, ThreadStep(t), ~DequeueMove(t),
               ~(EnqueueHelp(t) \/ EnqueueSwing(t) \/ DequeueHelp(t))
        PROVE  UNCHANGED <<head, tail>>
    <3>1. CASE Enqueue(t) \/ EnqueueLink(t)
      BY <3>1 DEF Enqueue, EnqueueLink
    <3>2. CASE HazardStep(t)
      BY <3>2 DEF HazardStep, queueVars
    <3> QED
      BY <2>3, <3>1, <3>2, OtherSteps DEF Memory, Inv
  <2>4. CASE DestructorStep
    BY <2>4 DEF DestructorStep, Destroy, DestroyNode, Destroyed, queueVars
  <2> QED
    BY <2>1, <2>2, <2>3, <2>4 DEF Next, Finished
<1> QED
  BY <1>1, MemoryInvariance, PTL DEF Spec, AdvanceByOne
=============================================================================
