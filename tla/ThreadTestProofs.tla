-------------------------- MODULE ThreadTestProofs --------------------------
(***************************************************************************)
(* Theorems about the condition variables of synch.cc, for every set of    *)
(* threads and of condition variables of one lock, and about the classes   *)
(* that threadtest.cc tests and that use them, for any number of threads,  *)
(* any sizes and any items.                                                *)
(*                                                                         *)
(* Everything but SortedInsert() of DLList, which test 3 calls, keeps to    *)
(* the discipline of a monitor: the steps of such a program are described  *)
(* once, the signals that are on their way are counted, and the classes     *)
(* are treated one after the other.  For test 3, whose threads keep the     *)
(* lock, the lock's invariant is proved anew.                              *)
(***************************************************************************)
EXTENDS ThreadTest, LockProofs, WellFoundedInduction

-----------------------------------------------------------------------------
(* Where each thread is: the program counters of the three layers (kernel,  *)
(* lock, condition variable) agree.                                        *)

\* The semaphores whose P() thread t can be in, given its two phases.
ExpectedP(t) ==
    IF phase[t] = "acquiring" THEN {mutex}
    ELSE IF condPhase[t] = "waiting" THEN {cond[t]}
    ELSE IF condPhase[t] = "idle" /\ phase[t] # "acquired" THEN Others \cup {NULL}
    ELSE {NULL}

PhasesAgree ==
    /\ phase \in [Threads -> Phases]
    /\ condPhase \in [Threads -> CondPhases]
    /\ cond \in [Threads -> Conds \cup {NULL}]
    /\ inP \in [Threads -> Semaphores \cup {NULL}]
    /\ \A t \in Threads :
         /\ inP[t] \in ExpectedP(t)
         /\ condPhase[t] = "idle" <=> cond[t] = NULL
         /\ condPhase[t] \in {"released", "waiting", "signalled"}
              => phase[t] = "outside"
         /\ condPhase[t] \in {"signalling", "broadcasting", "broadcastV"}
              => phase[t] = "holding"
         /\ condPhase[t] = "reacquiring" => phase[t] \in {"acquiring", "acquired"}

\* What the threads do besides, and the machine, leaves every operation of the
\* monitor where it is, and the values of its semaphores.
LEMMA OthersMove ==
    ASSUME NEW t \in Threads
    PROVE  /\ COtherStep(t) =>
                /\ condPhase[t] = "idle" /\ phase[t] \in {"outside", "holding"}
                /\ \/ UNCHANGED inP
                   \/ \E s \in Others : inP' = [inP EXCEPT ![t] = s]
                   \/ inP' = [inP EXCEPT ![t] = NULL]
           /\ CMachineStep => UNCHANGED inP
           /\ COtherStep(t) \/ CMachineStep =>
                /\ UNCHANGED << phase, condPhase, cond, blockNum >>
                /\ \/ UNCHANGED value
                   \/ \E s \in Others : \E k : value' = [value EXCEPT ![s] = k]
<1> USE DEF condVars, lockKept
<1>1. ASSUME NEW s \in Others
      PROVE  /\ PEnter(t, s) => inP' = [inP EXCEPT ![t] = s] /\ UNCHANGED value
             /\ PTake(t, s) => /\ inP' = [inP EXCEPT ![t] = NULL]
                              /\ \E k : value' = [value EXCEPT ![s] = k]
             /\ PSleep(t, s) \/ Schedule(s) => UNCHANGED << inP, value >>
             /\ V(s) \/ Interrupt(s) =>
                  UNCHANGED inP /\ \E k : value' = [value EXCEPT ![s] = k]
  BY VMovesNobody DEF PEnter, PTake, PSleep, Schedule, Interrupt, semaphoreVars
<1>2. ASSUME COtherStep(t)
      PROVE  \/ \E u \in Threads : Fork(u)
             \/ Yield
             \/ Finish
             \/ \E s \in Others : \/ PEnter(t, s) \/ PSleep(t, s) \/ PTake(t, s)
                                 \/ V(s) \/ Schedule(s)
  BY <1>2 DEF COtherStep
<1>3. ASSUME CMachineStep
      PROVE  Dispatch \/ Halt \/ Preempt \/ \E s \in Others : Interrupt(s)
  BY <1>3 DEF CMachineStep
<1>4. COtherStep(t) => /\ condPhase[t] = "idle" /\ phase[t] \in {"outside", "holding"}
                       /\ UNCHANGED << phase, condPhase, cond, blockNum >>
  BY DEF COtherStep
<1>5. CMachineStep => UNCHANGED << phase, condPhase, cond, blockNum >>
  BY DEF CMachineStep
<1> QED
  BY <1>1, <1>2, <1>3, <1>4, <1>5, SwitchMovesNobody

\* No step makes them disagree.
LEMMA PhasesStayAgreed ==
    ASSUME PhasesAgree, [CNext]_cvars
    PROVE  PhasesAgree'
<1> USE KernelAssumption, LockAssumption, ConditionAssumption
<1> USE DEF PhasesAgree, ExpectedP, Phases, CondPhases, Others
<1>1. ASSUME UNCHANGED << phase, condPhase, cond, inP >>
      PROVE  PhasesAgree'
  BY <1>1
<1>2. ASSUME NEW t \in Threads, CAcquireStep(t)
      PROVE  PhasesAgree'
  <2>1. CASE condPhase[t] = "idle" /\ (Acquire(t) \/ AcquireReturn(t))
    BY <1>2, <2>1, LockMoves DEF CAcquireStep, condVars
  <2>2. CASE AcquireSleep(t)
    BY <1>1, <1>2, <2>2, SwitchMovesNobody DEF CAcquireStep, AcquireSleep, condVars
  <2>3. CASE AcquireTake(t)
    <3>1. phase[t] = "acquiring"
      BY <2>3, LockMoves
    <3> QED
      BY <1>2, <2>3, <3>1, LockMoves DEF CAcquireStep, condVars
  <2> QED
    BY <1>2, <2>1, <2>2, <2>3 DEF CAcquireStep
<1>3. ASSUME NEW t \in Threads, CReleaseStep(t)
      PROVE  PhasesAgree'
  BY <1>3, LockMoves DEF CReleaseStep, condVars
<1>4. ASSUME NEW t \in Threads, COtherStep(t)
      PROVE  PhasesAgree'
  BY <1>4, OthersMove
<1>5. ASSUME NEW t \in Threads, NEW c \in Conds, CWaitStep(t, c)
      PROVE  PhasesAgree'
  <2>1. CASE Wait(t, c)
    BY <2>1, LockMoves DEF Wait, Goes
  <2>2. CASE WaitEnter(t, c)
    BY <2>2 DEF WaitEnter, Goes, PEnter, lockKept
  <2>3. CASE WaitSleep(t, c)
    BY <1>1, <2>3, SwitchMovesNobody DEF WaitSleep, lockKept, condVars
  <2>4. CASE WaitTake(t, c)
    BY <2>4 DEF WaitTake, Goes, PTake, lockKept
  <2>5. CASE WaitReacquire(t, c)
    BY <2>5, LockMoves DEF WaitReacquire, Goes
  <2>6. CASE WaitReturn(t, c)
    BY <2>6, LockMoves DEF WaitReturn, Goes
  <2> QED
    BY <1>5, <2>1, <2>2, <2>3, <2>4, <2>5, <2>6 DEF CWaitStep
<1>6. ASSUME NEW t \in Threads, NEW c \in Conds, CSignalStep(t, c)
      PROVE  PhasesAgree'
  <2>1. CASE Signal(t, c)
    BY <2>1, VMovesNobody DEF Signal, Goes, InLock, Executing, lockKept
  <2>2. CASE SignalReturn(t, c)
    BY <2>2 DEF SignalReturn, Goes, lvars, kvars
  <2> QED
    BY <1>6, <2>1, <2>2 DEF CSignalStep
<1>7. ASSUME NEW t \in Threads, NEW c \in Conds, CBroadcastStep(t, c)
      PROVE  PhasesAgree'
  <2>1. CASE Broadcast(t, c)
    BY <2>1 DEF Broadcast, Goes, InLock, Executing, lvars, kvars
  <2>2. CASE BroadcastV(t, c)
    BY <2>2, VMovesNobody DEF BroadcastV, Goes, lockKept
  <2>3. CASE BroadcastCount(t, c) \/ BroadcastReturn(t, c)
    BY <2>3 DEF BroadcastCount, BroadcastReturn, Goes, lvars, kvars
  <2> QED
    BY <1>7, <2>1, <2>2, <2>3 DEF CBroadcastStep
<1>8. CASE CMachineStep
  BY <1>1, <1>8, OthersMove
<1>9. CASE UNCHANGED cvars
  BY <1>1, <1>9 DEF cvars, lvars, kvars, condVars
<1> QED
  BY <1>2, <1>3, <1>4, <1>5, <1>6, <1>7, <1>8, <1>9 DEF CNext

\* PhasesAgree holds in every state.
LEMMA PhasesAlwaysAgree == CSpec => []PhasesAgree
<1>1. CInit => PhasesAgree
  BY KernelAssumption, LockAssumption, ConditionAssumption
     DEF CInit, LInit, KInit, PhasesAgree, ExpectedP, Phases, CondPhases
<1> QED
  BY <1>1, PhasesStayAgreed, PTL DEF CSpec

-----------------------------------------------------------------------------
(* Refinement of the lock.                                                 *)

\* A program with condition variables is a program with a lock: Wait() returns
\* inside the critical section it left, and all that is proved of the lock and
\* of the kernel holds for it.
THEOREM ConditionIsLockClient == CSpec => UsesLockProperly
<1>1. CInit => LInit
  BY DEF CInit
<1>2. PhasesAgree /\ [CNext]_cvars => [LNext]_lvars
  <2> SUFFICES ASSUME PhasesAgree, [CNext]_cvars
               PROVE  LNext \/ UNCHANGED lvars
    OBVIOUS
  <2> USE ConditionAssumption DEF LNext, LockStep, OtherStep, lockKept
  <2>1. ASSUME NEW t \in Threads, CAcquireStep(t) \/ CReleaseStep(t)
        PROVE  LNext
    BY <2>1 DEF CAcquireStep, CReleaseStep
  <2>2. ASSUME NEW t \in Threads, COtherStep(t)
        PROVE  LNext
    BY <2>2 DEF COtherStep, Others
  <2>3. ASSUME NEW t \in Threads, NEW c \in Conds, CWaitStep(t, c)
        PROVE  LNext
    <3>1. CASE Wait(t, c) \/ WaitReacquire(t, c) \/ WaitReturn(t, c)
      BY <3>1 DEF Wait, WaitReacquire, WaitReturn
    <3>2. CASE WaitEnter(t, c) \/ WaitSleep(t, c) \/ WaitTake(t, c)
      <4>1. phase[t] = "outside" /\ c \in Semaphores \ {mutex}
        BY <3>2 DEF WaitEnter, WaitSleep, WaitTake, Goes, PhasesAgree
      <4> QED
        BY <3>2, <4>1 DEF WaitEnter, WaitSleep, WaitTake
    <3> QED
      BY <2>3, <3>1, <3>2 DEF CWaitStep
  <2>4. ASSUME NEW t \in Threads, NEW c \in Conds,
               CSignalStep(t, c) \/ CBroadcastStep(t, c)
        PROVE  LNext \/ UNCHANGED lvars
    <3>1. CASE Signal(t, c) \/ BroadcastV(t, c)
      <4>1. phase[t] = "holding" /\ c \in Semaphores \ {mutex}
        BY <3>1 DEF Signal, BroadcastV, InLock, Goes, PhasesAgree
      <4> QED
        BY <3>1, <4>1 DEF Signal, BroadcastV
    <3>2. CASE \/ SignalReturn(t, c) \/ Broadcast(t, c)
               \/ BroadcastCount(t, c) \/ BroadcastReturn(t, c)
      BY <3>2 DEF SignalReturn, Broadcast, BroadcastCount, BroadcastReturn
    <3> QED
      BY <2>4, <3>1, <3>2 DEF CSignalStep, CBroadcastStep
  <2>5. CASE CMachineStep
    BY <2>5 DEF CMachineStep, LMachineStep, Others
  <2>6. CASE UNCHANGED cvars
    BY <2>6 DEF cvars
  <2> QED
    BY <2>1, <2>2, <2>3, <2>4, <2>5, <2>6 DEF CNext
<1> QED
  BY <1>1, <1>2, PhasesAlwaysAgree, PTL DEF CSpec, LSpec, UsesLockProperly

-----------------------------------------------------------------------------
(* What blockNum counts.                                                   *)

\* A thread that goes from one phase to another is counted where it arrives
\* and no longer where it was.
LEMMA AtGoes ==
    ASSUME PhasesAgree, NEW t \in Threads, NEW c \in Conds,
           NEW from \in CondPhases, NEW to \in CondPhases, from # to,
           Goes(t, from, to, c), NEW S \in SUBSET (CondPhases \ {"idle"})
    PROVE  /\ \A d \in Conds : d # c => At(d, S)' = At(d, S)
           /\ Cardinality(At(c, S)) \in Nat
           /\ Cardinality(At(c, S)') =
                Cardinality(At(c, S)) + (IF to \in S THEN 1 ELSE 0)
                                      - (IF from \in S THEN 1 ELSE 0)
<1> USE KernelAssumption, ConditionAssumption DEF PhasesAgree
<1> NULL \notin Conds
  OBVIOUS
<1>1. /\ condPhase[t] = from
      /\ cond[t] = IF from = "idle" THEN NULL ELSE c
      /\ condPhase' = [condPhase EXCEPT ![t] = to]
      /\ cond' = [cond EXCEPT ![t] = IF to = "idle" THEN NULL ELSE c]
  BY DEF Goes
<1>2. IsFiniteSet(At(c, S)) /\ Cardinality(At(c, S)) \in Nat
  BY FS_Subset, FS_CardinalityType DEF At
<1>3. ASSUME NEW d \in Conds, d # c
      PROVE  At(d, S)' = At(d, S)
  BY <1>1, <1>3 DEF At
<1>4. t \in At(c, S) <=> from \in S
  BY <1>1 DEF At
<1>5. At(c, S)' = IF to \in S THEN At(c, S) \cup {t} ELSE At(c, S) \ {t}
  BY <1>1 DEF At
<1>6. Cardinality(At(c, S)') =
        Cardinality(At(c, S)) + (IF to \in S THEN 1 ELSE 0)
                              - (IF from \in S THEN 1 ELSE 0)
  <2> DEFINE n  == Cardinality(At(c, S))
             n1 == Cardinality(At(c, S)')
  <2>1. n \in Nat
    BY <1>2
  <2>2. ASSUME to \in S
        PROVE  n1 = IF from \in S THEN n ELSE n + 1
    <3>1. n1 = Cardinality(At(c, S) \cup {t})
      BY <1>5, <2>2, Zenon
    <3>2. Cardinality(At(c, S) \cup {t}) = IF t \in At(c, S) THEN n ELSE n + 1
      BY <1>2, FS_AddElement, Zenon
    <3> QED
      BY <1>4, <3>1, <3>2, Zenon
  <2>3. ASSUME to \notin S
        PROVE  n1 = IF from \in S THEN n - 1 ELSE n
    <3>1. n1 = Cardinality(At(c, S) \ {t})
      BY <1>5, <2>3, Zenon
    <3>2. Cardinality(At(c, S) \ {t}) = IF t \in At(c, S) THEN n - 1 ELSE n
      BY <1>2, FS_RemoveElement, Zenon
    <3> QED
      BY <1>4, <3>1, <3>2, Zenon
  <2> HIDE DEF n, n1
  <2>4. n1 = n + (IF to \in S THEN 1 ELSE 0) - (IF from \in S THEN 1 ELSE 0)
    BY <2>1, <2>2, <2>3
  <2> QED
    BY <2>4 DEF n, n1
<1> QED
  BY <1>2, <1>3, <1>6

\* Threads that do not move are counted where they were.
LEMMA AtKept ==
    ASSUME UNCHANGED << condPhase, cond >>
    PROVE  \A c \in Conds : \A S \in SUBSET CondPhases : At(c, S)' = At(c, S)
BY DEF At

BInv ==
    /\ blockNum \in [Conds -> Int]
    /\ BlockNumBalance

\* BInv holds in every state.
LEMMA BInvAlways == CSpec => []BInv
<1> USE KernelAssumption, LockAssumption, ConditionAssumption
<1>1. CInit => BInv
  <2> SUFFICES ASSUME CInit
               PROVE  BInv
    OBVIOUS
  <2>1. \A c \in Conds : At(c, {"signalling", "broadcastV"}) = {} /\ At(c, {"signalled"}) = {}
    BY DEF CInit, At
  <2>2. \A c \in Conds : value[c] = 0 /\ blockNum[c] = 0
    BY DEF CInit, LInit, KInit
  <2> QED
    BY <2>1, <2>2, FS_EmptySet DEF CInit, BInv, BlockNumBalance
<1>2. PhasesAgree /\ KTypeOK /\ BInv /\ [CNext]_cvars => BInv'
  <2> SUFFICES ASSUME PhasesAgree, KTypeOK, BInv, [CNext]_cvars
               PROVE  BInv'
    OBVIOUS
  <2> DEFINE posting(c) == Cardinality(At(c, {"signalling", "broadcastV"}))
             passing(c) == Cardinality(At(c, {"signalled"}))
  <2> USE DEF BInv, CondPhases
  <2> /\ \A s \in Semaphores : value[s] \in Int
      /\ \A c \in Conds : value[c] + blockNum[c] = posting(c) - passing(c)
    BY DEF KTypeOK, BlockNumBalance
  <2> HIDE DEF posting, passing
  <2>0. ASSUME blockNum' \in [Conds -> Int],
               \A c \in Conds : value'[c] + blockNum'[c] = posting(c)' - passing(c)'
        PROVE  BInv'
    BY <2>0 DEF BlockNumBalance, posting, passing
  <2>1. ASSUME UNCHANGED << condPhase, cond, blockNum >>,
               \A c \in Conds : value'[c] = value[c]
        PROVE  BInv'
    <3>1. \A c \in Conds : posting(c)' = posting(c) /\ passing(c)' = passing(c)
      BY <2>1, AtKept DEF posting, passing
    <3> QED
      BY <2>0, <2>1, <3>1
  <2>2. ASSUME NEW t \in Threads,
               \/ UNCHANGED << value >>
               \/ value' = [value EXCEPT ![mutex] = value[mutex] - 1]
               \/ value' = [value EXCEPT ![mutex] = value[mutex] + 1]
        PROVE  \A c \in Conds : value'[c] = value[c]
    BY <2>2 DEF KTypeOK
  <2>3. ASSUME NEW t \in Threads, CAcquireStep(t) \/ CReleaseStep(t)
        PROVE  BInv'
    <3>1. UNCHANGED << condPhase, cond, blockNum >>
      BY <2>3 DEF CAcquireStep, CReleaseStep, condVars
    <3>2. \A c \in Conds : value'[c] = value[c]
      BY <2>2, <2>3, LockMoves, SwitchMovesNobody
         DEF CAcquireStep, CReleaseStep, AcquireSleep
    <3> QED
      BY <2>1, <3>1, <3>2
  <2>4. ASSUME NEW t \in Threads, COtherStep(t) \/ CMachineStep
        PROVE  BInv'
    <3>1. \A c \in Conds : value'[c] = value[c]
      BY <2>4, OthersMove DEF Others, KTypeOK
    <3> QED
      BY <2>1, <2>4, <3>1, OthersMove
  <2>5. ASSUME NEW t \in Threads, NEW c \in Conds,
               NEW from \in CondPhases, NEW to \in CondPhases, from # to,
               Goes(t, from, to, c),
               blockNum' \in [Conds -> Int],
               \A d \in Conds : d # c => value'[d] = value[d] /\ blockNum'[d] = blockNum[d],
               value'[c] + blockNum'[c] = value[c] + blockNum[c]
                 + (IF to \in {"signalling", "broadcastV"} THEN 1 ELSE 0)
                 - (IF from \in {"signalling", "broadcastV"} THEN 1 ELSE 0)
                 - (IF to = "signalled" THEN 1 ELSE 0)
                 + (IF from = "signalled" THEN 1 ELSE 0)
        PROVE  BInv'
    <3>1. /\ \A d \in Conds : d # c => posting(d)' = posting(d)
          /\ posting(c) \in Nat
          /\ posting(c)' = posting(c)
               + (IF to \in {"signalling", "broadcastV"} THEN 1 ELSE 0)
               - (IF from \in {"signalling", "broadcastV"} THEN 1 ELSE 0)
      <4> DEFINE S == {"signalling", "broadcastV"}
      <4>1. S \in SUBSET (CondPhases \ {"idle"})
        OBVIOUS
      <4> HIDE DEF S
      <4>2. /\ \A d \in Conds : d # c => At(d, S)' = At(d, S)
            /\ Cardinality(At(c, S)) \in Nat
            /\ Cardinality(At(c, S)') =
                 Cardinality(At(c, S)) + (IF to \in S THEN 1 ELSE 0)
                                       - (IF from \in S THEN 1 ELSE 0)
        BY <2>5, <4>1, AtGoes, SMTT(30)
      <4> QED
        BY <4>2 DEF posting, S
    <3>2. /\ \A d \in Conds : d # c => passing(d)' = passing(d)
          /\ passing(c) \in Nat
          /\ passing(c)' = passing(c) + (IF to \in {"signalled"} THEN 1 ELSE 0)
                                      - (IF from \in {"signalled"} THEN 1 ELSE 0)
      BY <2>5, AtGoes DEF passing
    <3>3. value'[c] + blockNum'[c] = posting(c)' - passing(c)'
      BY <2>5, <3>1, <3>2
    <3> QED
      BY <2>0, <2>5, <3>1, <3>2, <3>3
  <2>6. ASSUME NEW t \in Threads, NEW c \in Conds, CWaitStep(t, c)
        PROVE  BInv'
    <3>1. CASE Wait(t, c)
      BY <2>2, <2>5, <3>1, LockMoves DEF Wait
    <3>2. CASE WaitEnter(t, c)
      BY <2>5, <3>2 DEF WaitEnter, PEnter
    <3>3. CASE WaitSleep(t, c)
      BY <2>1, <3>3, SwitchMovesNobody DEF WaitSleep, condVars
    <3>4. CASE WaitTake(t, c)
      <4>1. value' = [value EXCEPT ![c] = value[c] - 1]
        BY <3>4 DEF WaitTake, PTake
      <4>2. /\ value'[c] = value[c] - 1
            /\ \A d \in Conds : d # c => value'[d] = value[d]
        BY <4>1 DEF KTypeOK
      <4>3. Goes(t, "waiting", "signalled", c) /\ UNCHANGED blockNum
        BY <3>4 DEF WaitTake
      <4> QED
        BY <2>5, <4>2, <4>3
    <3>5. CASE WaitReacquire(t, c)
      BY <2>5, <3>5, LockMoves DEF WaitReacquire
    <3>6. CASE WaitReturn(t, c)
      BY <2>5, <3>6, LockMoves DEF WaitReturn
    <3> QED
      BY <2>6, <3>1, <3>2, <3>3, <3>4, <3>5, <3>6 DEF CWaitStep
  <2>7. ASSUME NEW t \in Threads, NEW c \in Conds, V(c), UNCHANGED blockNum
        PROVE  /\ \A d \in Conds : d # c => value'[d] = value[d] /\ blockNum'[d] = blockNum[d]
               /\ value'[c] + blockNum'[c] = value[c] + blockNum[c] + 1
    BY <2>7, VMovesNobody DEF KTypeOK
  <2>8. ASSUME NEW t \in Threads, NEW c \in Conds, CSignalStep(t, c)
        PROVE  BInv'
    <3>1. CASE Signal(t, c)
      BY <2>5, <2>7, <3>1 DEF Signal
    <3>2. CASE SignalReturn(t, c)
      BY <2>5, <3>2 DEF SignalReturn, lvars, kvars
    <3> QED
      BY <2>8, <3>1, <3>2 DEF CSignalStep
  <2>9. ASSUME NEW t \in Threads, NEW c \in Conds, CBroadcastStep(t, c)
        PROVE  BInv'
    <3>1. CASE Broadcast(t, c)
      BY <2>5, <3>1 DEF Broadcast, lvars, kvars
    <3>2. CASE BroadcastV(t, c)
      BY <2>5, <2>7, <3>2 DEF BroadcastV
    <3>3. CASE BroadcastCount(t, c)
      BY <2>5, <3>3 DEF BroadcastCount, lvars, kvars
    <3>4. CASE BroadcastReturn(t, c)
      BY <2>5, <3>4 DEF BroadcastReturn, lvars, kvars
    <3> QED
      BY <2>9, <3>1, <3>2, <3>3, <3>4 DEF CBroadcastStep
  <2>10. CASE UNCHANGED cvars
    BY <2>1, <2>10 DEF cvars, lvars, kvars, condVars
  <2> QED
    BY KernelAssumption, <2>3, <2>4, <2>6, <2>8, <2>9, <2>10 DEF CNext
<1> QED
  BY <1>1, <1>2, PhasesAlwaysAgree, ConditionIsLockClient, LockIsKernelClient,
     Typing, PTL DEF CSpec, UsesLockProperly

\* The counter of class Condition is minus the number of remembered signals,
\* up to the operations in progress: it never counts the blocked threads.
THEOREM BlockNumIsBalance == CSpec => []BlockNumBalance
BY BInvAlways, PTL DEF BInv

\* Every variable of the condition variables, of the lock and of the kernel below
\* them keeps its type.
THEOREM ConditionTyping == CSpec => []CTypeOK
<1>1. LTypeOK /\ PhasesAgree /\ BInv => CTypeOK
  BY DEF PhasesAgree, BInv, CTypeOK
<1> QED
  BY <1>1, LockTyping, ConditionIsLockClient, PhasesAlwaysAgree, BInvAlways, PTL
     DEF UsesLockProperly

\* Wait() releases the lock before it is queued, and still no signal is lost:
\* when the machine halts with a thread in the P() of Wait(), none is left over
\* (synch.cc:136-146).
THEOREM SignalsAreNotLost == CSpec => []NoSignalLost
<1> DEFINE Due == mode = "Halted" =>
                    \A t \in Threads, s \in Semaphores : inP[t] = s =>
                        t \in Range(queue[s]) /\ value[s] = 0 /\ pending[s] = 0
<1>1. PhasesAgree /\ Due => NoSignalLost
  <2> SUFFICES ASSUME PhasesAgree, Due, mode = "Halted", NEW c \in Conds,
                      NEW t \in At(c, {"waiting"})
               PROVE  value[c] = 0
    BY DEF NoSignalLost
  <2>1. t \in Threads /\ inP[t] = c
    BY DEF At, PhasesAgree, ExpectedP
  <2> QED
    BY <2>1, ConditionAssumption
<1>2. KSpec => []Due
  BY HaltedSleepersAreDue
<1> HIDE DEF Due
<1> QED
  BY <1>1, <1>2, PhasesAlwaysAgree, ConditionIsLockClient, LockIsKernelClient, PTL
     DEF UsesLockProperly

\* One thread at a time is in the monitor, and its lock's owner is known.
THEOREM ConditionIsConsistent == CSpec => []CConsistent
BY ConditionTyping, LockSafety, ConditionIsLockClient, BlockNumIsBalance, PTL
   DEF CConsistent, UsesLockProperly

\* A machine that halts leaves nobody in Acquire() with the lock free, nor in Wait()
\* with a signal left over.
THEOREM NobodyIsForgotten == CSpec => []NobodyForgotten
BY SignalsAreNotLost, NoLockIsLost, ConditionIsLockClient, PTL
   DEF NobodyForgotten, UsesLockProperly

-----------------------------------------------------------------------------
(* Programs that keep to the monitor.                                      *)

\* Where a thread is in lock->Acquire(), has the lock, is at the test of a loop
\* or in the Wait() it guards, or is in a Signal() or before the last Release().
Entering == {"append", "remove", "map", "write", "read", "alloc", "release",
             "dappend", "dremove"}
Within   == {"appended", "yielded", "removed", "mapping", "written", "taken",
             "find", "placed", "cleared", "dlink", "dsignal", "dremoved"}
AtTest   == {"test", "room", "bytes", "occupied", "dtest"}
AtSignal == {"signalled", "done", "posted", "drelease"}

\* The condition variable of each of these loops.
CondOf(p) ==
    CASE p = "test" -> listEmpty
      [] p = "room" -> full
      [] p = "bytes" -> empty
      [] p = "occupied" -> tableEmpty
      [] p = "dtest" -> dllistEmpty

MonitorStep(t) ==
    \/ \E p \in Entering : Calls(t, p)
    \/ Acquiring(t)
    \/ \E p \in Entering, q \in Within \cup AtTest : Enters(t, p, q)
    \/ \E p \in Within \cup AtTest, q \in Within : Works(t, p, q)
    \/ \E p, q \in Within : /\ Executing(t) /\ Moves(t, p, q) /\ Yield
                           /\ UNCHANGED << lockKept, condVars >>
    \/ \E p \in AtTest : InLock(t) /\ StartsWait(t, p, CondOf(p))
    \/ \E c \in Conds : Waits(t, c) \/ SignalReturns(t, c)
    \/ \E p \in Within, q \in AtSignal, c \in Conds : Signals(t, p, q, c)
    \/ \E p \in Within \cup AtSignal : Leaves(t, p)
    \/ OutsideStep(t)

MonitorNext == (\E t \in Threads : MonitorStep(t)) \/ MMachineStep

\* How far a thread is in its operation agrees with what it does in the lock and
\* in the condition variables.
AgreesAt(t) ==
    \/ pc[t] = "none" /\ phase[t] = "outside" /\ condPhase[t] = "idle"
    \/ pc[t] \in Entering /\ phase[t] \in {"acquiring", "acquired"} /\ condPhase[t] = "idle"
    \/ pc[t] \in Within /\ InLock(t)
    \/ /\ pc[t] \in AtTest
       /\ \/ InLock(t)
          \/ /\ condPhase[t] \in {"released", "waiting", "signalled", "reacquiring"}
             /\ cond[t] = CondOf(pc[t])
    \/ /\ pc[t] \in AtSignal
       /\ phase[t] = "holding" /\ condPhase[t] \in {"idle", "signalling"}

Agree ==
    /\ pc \in [Threads -> {"none"} \cup Entering \cup Within \cup AtTest \cup AtSignal]
    /\ \A t \in Threads : AgreesAt(t) /\ inP[t] \notin Others
    /\ PhasesAgree

\* Each is one of the condition variables.
LEMMA CondsOfLoops ==
    \A p \in AtTest : CondOf(p) \in Conds
BY SynchListAssumption, BoundedBufferAssumption, TableAssumption, DLListAssumption
   DEF AtTest, CondOf

\* The steps of such a program are those of a program with condition variables.
LEMMA MonitorIsConditionClient ==
    ASSUME Agree, [MonitorNext]_mvars
    PROVE  [CNext]_cvars
<1> USE DEF Agree, AgreesAt, Entering, Within, AtTest, AtSignal, InLock
<1>1. ASSUME NEW t \in Threads, NEW p \in Entering, Calls(t, p)
      PROVE  CNext
  BY <1>1 DEF Calls, Moves, CNext, CAcquireStep
<1>2. ASSUME NEW t \in Threads, Acquiring(t)
      PROVE  CNext
  BY <1>2 DEF Acquiring, CNext, CAcquireStep
<1>3. ASSUME NEW t \in Threads, NEW p, NEW q, Enters(t, p, q)
      PROVE  CNext
  BY <1>3 DEF Enters, CNext, CAcquireStep
<1>4. ASSUME NEW t \in Threads, NEW p, NEW q, Works(t, p, q)
      PROVE  UNCHANGED cvars
  BY <1>4 DEF Works
<1>5. ASSUME NEW t \in Threads, NEW p \in Within, NEW q, Executing(t), Moves(t, p, q),
             Yield, UNCHANGED << lockKept, condVars >>
      PROVE  CNext
  BY <1>5 DEF Moves, CNext, COtherStep
<1>6. ASSUME NEW t \in Threads, NEW p \in AtTest, StartsWait(t, p, CondOf(p))
      PROVE  CNext
  BY <1>6, CondsOfLoops DEF StartsWait, CNext, CWaitStep
<1>7. ASSUME NEW t \in Threads, NEW c \in Conds, Waits(t, c) \/ SignalReturns(t, c)
      PROVE  CNext
  BY <1>7 DEF Waits, SignalReturns, CNext, CWaitStep, CSignalStep
<1>8. ASSUME NEW t \in Threads, NEW p, NEW q, NEW c \in Conds, Signals(t, p, q, c)
      PROVE  CNext
  BY <1>8 DEF Signals, CNext, CSignalStep
<1>9. ASSUME NEW t \in Threads, NEW p, Leaves(t, p)
      PROVE  CNext
  BY <1>9 DEF Leaves, CNext, CReleaseStep
<1>10. ASSUME NEW t \in Threads, OutsideStep(t)
       PROVE  CNext
  BY <1>10 DEF OutsideStep, CNext, COtherStep
<1>11. CASE MMachineStep
  BY <1>11 DEF MMachineStep, CNext
<1>12. CASE UNCHANGED mvars
  BY <1>12 DEF mvars
<1> QED
  BY <1>1, <1>2, <1>3, <1>4, <1>5, <1>6, <1>7, <1>8, <1>9, <1>10, <1>11, <1>12
     DEF MonitorNext, MonitorStep

\* No step of such a program makes them disagree.
LEMMA MonitorStaysAgreed ==
    ASSUME Agree, [MonitorNext]_mvars
    PROVE  Agree'
<1> USE KernelAssumption, LockAssumption, ConditionAssumption
<1> USE DEF Agree, AgreesAt, Entering, Within, AtTest, AtSignal, InLock
<1>0. PhasesAgree'
  <2>1. [CNext]_cvars
    BY MonitorIsConditionClient
  <2> QED
    BY <2>1, PhasesStayAgreed
<1>1. /\ phase \in [Threads -> Phases] /\ condPhase \in [Threads -> CondPhases]
      /\ \A t \in Threads : inP[t] = mutex => phase[t] = "acquiring"
      /\ inP \in [Threads -> Semaphores \cup {NULL}]
  BY DEF PhasesAgree, ExpectedP, Others
\* What is left to show when only t moves.
<1>2. ASSUME NEW t \in Threads,
             pc' \in [Threads -> {"none"} \cup Entering \cup Within \cup AtTest \cup AtSignal],
             \A u \in Threads \ {t} :
                /\ pc'[u] = pc[u] /\ inP'[u] = inP[u]
                /\ phase'[u] = phase[u] /\ condPhase'[u] = condPhase[u] /\ cond'[u] = cond[u],
             AgreesAt(t)', inP'[t] \notin Others
      PROVE  Agree'
  BY <1>0, <1>2 DEF Others
<1>3. ASSUME UNCHANGED << pc, inP, phase, condPhase, cond >>
      PROVE  Agree'
  BY <1>0, <1>3 DEF Others
<1>4. ASSUME NEW t \in Threads, NEW p \in Entering, Calls(t, p)
      PROVE  Agree'
  BY <1>1, <1>2, <1>4, LockMoves DEF Calls, Moves, condVars, Others
<1>5. ASSUME NEW t \in Threads, Acquiring(t)
      PROVE  Agree'
  BY <1>1, <1>2, <1>3, <1>5, LockMoves, SwitchMovesNobody
     DEF Acquiring, AcquireSleep, condVars, Others
<1>6. ASSUME NEW t \in Threads, NEW p \in Entering, NEW q \in Within \cup AtTest, Enters(t, p, q)
      PROVE  Agree'
  BY <1>1, <1>2, <1>6, LockMoves DEF Enters, Moves, condVars, Others
<1>7. ASSUME NEW t \in Threads, NEW p \in Within \cup AtTest, NEW q \in Within, Works(t, p, q)
      PROVE  Agree'
  BY <1>1, <1>2, <1>7 DEF Works, Moves, cvars, lvars, kvars, condVars
<1>8. ASSUME NEW t \in Threads, NEW p \in Within, NEW q \in Within, Executing(t),
             Moves(t, p, q), Yield, UNCHANGED << lockKept, condVars >>
      PROVE  Agree'
  BY <1>1, <1>2, <1>8, SwitchMovesNobody DEF Moves, lockKept, condVars
<1>9. ASSUME NEW t \in Threads, NEW p \in AtTest, StartsWait(t, p, CondOf(p))
      PROVE  Agree'
  BY <1>1, <1>2, <1>9, LockMoves, CondsOfLoops DEF StartsWait, Wait, Goes, Others, PhasesAgree
<1>10. ASSUME NEW t \in Threads, NEW c \in Conds, Waits(t, c)
       PROVE  Agree'
  <2> /\ c \in Semaphores \ {mutex}
      /\ condPhase[t] \in {"released", "waiting", "signalled", "reacquiring"} => pc[t] \in AtTest
    OBVIOUS
  <2>1. CASE WaitEnter(t, c)
    BY <1>1, <1>2, <1>10, <2>1 DEF Waits, WaitEnter, Goes, PEnter, lockKept, Others
  <2>2. CASE WaitSleep(t, c)
    BY <1>3, <1>10, <2>2, SwitchMovesNobody DEF Waits, WaitSleep, lockKept, condVars
  <2>3. CASE WaitTake(t, c)
    BY <1>1, <1>2, <1>10, <2>3 DEF Waits, WaitTake, Goes, PTake, lockKept, Others
  <2>4. CASE WaitReacquire(t, c)
    BY <1>1, <1>2, <1>10, <2>4, LockMoves DEF Waits, WaitReacquire, Goes, Others
  <2>5. CASE WaitReturn(t, c)
    BY <1>1, <1>2, <1>10, <2>5, LockMoves DEF Waits, WaitReturn, Goes, Others
  <2> QED
    BY <1>10, <2>1, <2>2, <2>3, <2>4, <2>5 DEF Waits
<1>11. ASSUME NEW t \in Threads, NEW c \in Conds, SignalReturns(t, c)
       PROVE  Agree'
  <2> condPhase[t] = "signalling" => pc[t] \in AtSignal
    BY DEF PhasesAgree
  <2> QED
    BY <1>1, <1>2, <1>11 DEF SignalReturns, SignalReturn, Goes, lvars, kvars, PhasesAgree
<1>12. ASSUME NEW t \in Threads, NEW p \in Within, NEW q \in AtSignal, NEW c \in Conds,
              Signals(t, p, q, c)
       PROVE  Agree'
  BY <1>1, <1>2, <1>12, VMovesNobody DEF Signals, Signal, Goes, Moves, InLock, lockKept
<1>13. ASSUME NEW t \in Threads, NEW p \in Within \cup AtSignal, Leaves(t, p)
       PROVE  Agree'
  BY <1>1, <1>2, <1>13, LockMoves DEF Leaves, Moves, condVars, Others
<1>14. ASSUME NEW t \in Threads, OutsideStep(t) \/ MMachineStep
       PROVE  Agree'
  <2>1. OutsideStep(t) => UNCHANGED << pc, phase, condPhase, cond, inP >>
    BY SwitchMovesNobody DEF OutsideStep, lockKept, condVars
  <2>2. MMachineStep => UNCHANGED << pc, phase, condPhase, cond, inP >>
    BY OthersMove DEF MMachineStep
  <2> QED
    BY <1>3, <1>14, <2>1, <2>2
<1>15. CASE UNCHANGED mvars
  BY <1>3, <1>15 DEF mvars, cvars, lvars, kvars, condVars
<1> HIDE DEF Agree, AgreesAt, Entering, Within, AtTest, AtSignal, InLock
<1> QED
  BY <1>4, <1>5, <1>6, <1>7, <1>8, <1>9, <1>10, <1>11, <1>12, <1>13, <1>14, <1>15
     DEF MonitorNext, MonitorStep

-----------------------------------------------------------------------------
(* The tests are such programs, but for test 3.                            *)

\* Where the threads are in each test; in three of them the main thread only forks
\* the others.
PointsOf(n) ==
    CASE n = 0 -> {"none", "dappend", "dlink", "dsignal", "drelease",
                   "dremove", "dtest", "dremoved"}
      [] n = 3 -> {"none", "insert", "search", "head", "middle", "end", "kept", "again",
                   "dsignal", "drelease"}
      [] n = 4 -> ListPoints
      [] n = 5 -> TablePoints
      [] n = 6 -> BufferPoints

InPlace ==
    /\ testnum \in {0, 3, 4, 5, 6}
    /\ << testnum, threadnum, which >> \in Runs
    /\ pc \in [Threads -> PointsOf(testnum)]
    /\ testnum \in {0, 3, 5} => pc[Main] = "none"

\* The steps of SynchList.
LEMMA ListSteps ==
    ASSUME SNext
    PROVE  MonitorNext
<1> USE DEF MonitorNext, MonitorStep, Entering, Within, AtTest, AtSignal
<1>1. ASSUME NEW t \in Threads, AppendStep(t)
      PROVE  MonitorNext
  <2>1. CASE \E x \in Items : AppendCall(t, x)
    BY <2>1 DEF AppendCall
  <2>2. CASE AppendYield(t)
    BY <2>2 DEF AppendYield, lockKept, condVars
  <2>3. CASE AppendSignal(t) \/ AppendSignalReturn(t)
    BY <2>3, SynchListAssumption DEF AppendSignal, AppendSignalReturn
  <2>4. CASE AppendItem(t) \/ AppendReturn(t)
    BY <2>4 DEF AppendItem, AppendReturn
  <2> QED
    BY <1>1, <2>1, <2>2, <2>3, <2>4 DEF AppendStep
<1>2. ASSUME NEW t \in Threads, RemoveStep(t)
      PROVE  MonitorNext
  <2>1. CASE RemoveWait(t) \/ RemoveWaits(t)
    BY <2>1, SynchListAssumption DEF RemoveWait, RemoveWaits, CondOf
  <2>2. CASE RemoveCall(t) \/ RemoveEnter(t) \/ RemoveItem(t) \/ RemoveReturn(t)
    BY <2>2 DEF RemoveCall, RemoveEnter, RemoveItem, RemoveReturn
  <2> QED
    BY <1>2, <2>1, <2>2 DEF RemoveStep
<1>3. ASSUME NEW t \in Threads, MapcarStep(t)
      PROVE  MonitorNext
  BY <1>3 DEF MapcarStep, MapcarCall, MapcarEnter, MapcarReturn
<1> QED
  BY <1>1, <1>2, <1>3 DEF SNext

\* The steps of BoundedBuffer.
LEMMA BufferSteps ==
    ASSUME BNext
    PROVE  MonitorNext
<1> USE DEF MonitorNext, MonitorStep, Entering, Within, AtTest, AtSignal
<1>1. ASSUME NEW t \in Threads, WriteStep(t)
      PROVE  MonitorNext
  <2>1. CASE WriteWait(t) \/ WriteSignal(t)
    BY <2>1, BoundedBufferAssumption DEF WriteWait, WriteSignal, CondOf
  <2>2. CASE (\E d \in Chunks : WriteCall(t, d)) \/ WriteEnter(t) \/ WriteBytes(t)
    BY <2>2 DEF WriteCall, WriteEnter, WriteBytes
  <2> QED
    BY <1>1, <2>1, <2>2 DEF WriteStep
<1>2. ASSUME NEW t \in Threads, ReadStep(t)
      PROVE  MonitorNext
  <2>1. CASE ReadWait(t) \/ ReadSignal(t)
    BY <2>1, BoundedBufferAssumption DEF ReadWait, ReadSignal, CondOf
  <2>2. CASE (\E n \in Sizes : ReadCall(t, n)) \/ ReadEnter(t) \/ ReadBytes(t)
    BY <2>2 DEF ReadCall, ReadEnter, ReadBytes
  <2> QED
    BY <1>2, <2>1, <2>2 DEF ReadStep
<1>3. ASSUME NEW t \in Threads, Waiting(t) \/ SignalDone(t) \/ Return(t)
      PROVE  MonitorNext
  BY <1>3 DEF Waiting, SignalDone, Return
<1> QED
  BY <1>1, <1>2, <1>3 DEF BNext

\* The steps of Table.
LEMMA TableSteps ==
    ASSUME NEW t \in Threads,
           AllocCall(t) \/ (\E i : ReleaseCall(t, i)) \/ TableStep(t)
    PROVE  MonitorStep(t)
<1> USE DEF MonitorStep, Entering, Within, AtTest, AtSignal
<1>1. CASE AllocCall(t) \/ \E i : ReleaseCall(t, i)
  BY <1>1 DEF AllocCall, ReleaseCall
<1>2. CASE AllocEnter(t) \/ AllocPlace(t) \/ AllocReturn(t)
           \/ ReleaseEnter(t) \/ ReleasePlace(t) \/ ReleaseReturn(t)
  BY <1>2 DEF AllocEnter, AllocPlace, AllocReturn, ReleaseEnter, ReleasePlace, ReleaseReturn
<1>3. CASE AllocSignal(t) \/ AllocSignalReturn(t) \/ ReleaseWait(t) \/ ReleaseWaits(t)
  BY <1>3, TableAssumption
     DEF AllocSignal, AllocSignalReturn, ReleaseWait, ReleaseWaits, CondOf
<1> QED
  BY <1>1, <1>2, <1>3 DEF TableStep

\* The steps of Append() and Remove() of DLList.
LEMMA DLListSteps ==
    ASSUME NEW t \in Threads, pc[t] \in PointsOf(0),
           DAppendCall(t) \/ DRemoveCall(t) \/ DLLStep(t)
    PROVE  MonitorStep(t)
<1> USE DEF MonitorStep, Entering, Within, AtTest, AtSignal
<1>1. CASE DAppendCall(t) \/ DRemoveCall(t)
  BY <1>1 DEF DAppendCall, DRemoveCall
<1>2. CASE DAppendEnter(t) \/ DAppendLink(t) \/ DReturn(t) \/ DRemoveEnter(t) \/ DRemoveFirst(t)
  BY <1>2 DEF DAppendEnter, DAppendLink, DReturn, DRemoveEnter, DRemoveFirst
<1>3. CASE DSignal(t) \/ DSignalReturn(t) \/ DRemoveWait(t) \/ DRemoveWaits(t)
  BY <1>3, DLListAssumption DEF DSignal, DSignalReturn, DRemoveWait, DRemoveWaits, CondOf
<1>4. CASE \/ InsertOnly(t) \/ SearchHead(t) \/ (\E p : SearchMiddle(t, p) \/ SearchEnd(t, p))
           \/ InsertHead(t) \/ InsertMiddle(t) \/ InsertEnd(t) \/ InsertSleeps(t)
  BY <1>4 DEF PointsOf, InsertOnly, SearchHead, SearchMiddle, SearchEnd, InsertHead,
              InsertMiddle, InsertEnd, InsertSleeps, Works, Moves, YieldsIf
<1> QED
  BY <1>1, <1>2, <1>3, <1>4 DEF DLLStep

\* Where the steps of each class lead.
LEMMA StepsStayInClass ==
    /\ SNext => \/ UNCHANGED pc
                \/ \E t \in Threads, q \in ListPoints : pc' = [pc EXCEPT ![t] = q]
    /\ BNext => \/ UNCHANGED pc
                \/ \E t \in Threads, q \in BufferPoints : pc' = [pc EXCEPT ![t] = q]
    /\ \A t \in Threads :
         /\ AllocCall(t) \/ (\E i : ReleaseCall(t, i)) \/ TableStep(t) =>
              UNCHANGED pc \/ \E q \in TablePoints : pc' = [pc EXCEPT ![t] = q]
         /\ pc[t] \in PointsOf(0) /\ (DAppendCall(t) \/ DRemoveCall(t) \/ DLLStep(t)) =>
              UNCHANGED pc \/ \E q \in PointsOf(0) : pc' = [pc EXCEPT ![t] = q]
         /\ pc[t] \in PointsOf(3)
            /\ (InsertCall(t) \/ InsertCallAgain(t) \/ (\E k : InsertEnter(t, k)) \/ DLLStep(t)) =>
              UNCHANGED pc \/ \E q \in PointsOf(3) : pc' = [pc EXCEPT ![t] = q]
<1> USE DEF Moves, Calls, Enters, Works, StartsWait, Waits, Signals, SignalReturns, Leaves
<1>1. ASSUME NEW t \in Threads, AppendStep(t) \/ RemoveStep(t) \/ MapcarStep(t)
      PROVE  UNCHANGED pc \/ \E q \in ListPoints : pc' = [pc EXCEPT ![t] = q]
  BY <1>1 DEF AppendStep, RemoveStep, MapcarStep, ListPoints, AppendCall, AppendItem,
     AppendYield, AppendSignal, AppendSignalReturn, AppendReturn, RemoveCall, RemoveEnter,
     RemoveWait, RemoveWaits, RemoveItem, RemoveReturn, MapcarCall, MapcarEnter, MapcarReturn
<1>2. ASSUME NEW t \in Threads,
             WriteStep(t) \/ ReadStep(t) \/ Waiting(t) \/ SignalDone(t) \/ Return(t)
      PROVE  UNCHANGED pc \/ \E q \in BufferPoints : pc' = [pc EXCEPT ![t] = q]
  BY <1>2 DEF WriteStep, ReadStep, Waiting, SignalDone, Return, BufferPoints, WriteCall,
     WriteEnter, WriteWait, WriteBytes, WriteSignal, ReadCall, ReadEnter, ReadWait,
     ReadBytes, ReadSignal
<1>3. ASSUME NEW t \in Threads, AllocCall(t) \/ (\E i : ReleaseCall(t, i)) \/ TableStep(t)
      PROVE  UNCHANGED pc \/ \E q \in TablePoints : pc' = [pc EXCEPT ![t] = q]
  BY <1>3 DEF AllocCall, ReleaseCall, TableStep, TablePoints, AllocEnter, AllocPlace,
     AllocSignal, AllocSignalReturn, AllocReturn, ReleaseEnter, ReleaseWait, ReleaseWaits,
     ReleasePlace, ReleaseReturn
<1>4. ASSUME NEW t \in Threads, pc[t] \in PointsOf(0),
             DAppendCall(t) \/ DRemoveCall(t) \/ DLLStep(t)
      PROVE  UNCHANGED pc \/ \E q \in PointsOf(0) : pc' = [pc EXCEPT ![t] = q]
  BY <1>4 DEF DLLStep, PointsOf, DAppendCall, DRemoveCall, DAppendEnter, DAppendLink, DSignal,
     DSignalReturn, DReturn, DRemoveEnter, DRemoveWait, DRemoveWaits, DRemoveFirst, InsertOnly,
     SearchHead, SearchMiddle, SearchEnd, InsertHead, InsertMiddle, InsertEnd, InsertSleeps, YieldsIf
<1>5. ASSUME NEW t \in Threads, pc[t] \in PointsOf(3),
             \/ InsertCall(t) \/ InsertCallAgain(t)
             \/ (\E k : InsertEnter(t, k)) \/ DLLStep(t)
      PROVE  UNCHANGED pc \/ \E q \in PointsOf(3) : pc' = [pc EXCEPT ![t] = q]
  BY <1>5 DEF DLLStep, PointsOf, InsertCall, InsertCallAgain, InsertEnter, DAppendEnter,
     DAppendLink, DSignal, DSignalReturn, DReturn, DRemoveEnter, DRemoveWait, DRemoveWaits,
     DRemoveFirst, InsertOnly, SearchHead, SearchMiddle, SearchEnd, InsertHead, InsertMiddle,
     InsertEnd, InsertSleeps, YieldsIf
<1>6. (\E t \in Threads : Acquiring(t) \/ OutsideStep(t)) \/ MMachineStep => UNCHANGED pc
  BY DEF Acquiring, OutsideStep, MMachineStep
<1>7. SNext => \/ UNCHANGED pc
               \/ \E t \in Threads, q \in ListPoints : pc' = [pc EXCEPT ![t] = q]
  BY <1>1, <1>6 DEF SNext
<1>8. BNext => \/ UNCHANGED pc
               \/ \E t \in Threads, q \in BufferPoints : pc' = [pc EXCEPT ![t] = q]
  BY <1>2, <1>6 DEF BNext
<1> QED
  BY <1>3, <1>4, <1>5, <1>7, <1>8

\* The steps that the three scripted tests have in common.
LEMMA ScriptSteps ==
    ASSUME InPlace, testnum \in {0, 3, 5}, ScriptRest
    PROVE  UNCHANGED pc /\ (testnum # 3 => MonitorNext)
<1> USE KernelAssumption DEF MonitorNext, MonitorStep, InPlace
<1>1. ASSUME NEW t \in Tested, Acquiring(t)
      PROVE  UNCHANGED pc /\ MonitorNext
  BY <1>1 DEF Acquiring, Tested
<1>2. ASSUME NEW t \in Tested, TestedRest(t)
      PROVE  UNCHANGED pc /\ (testnum # 3 => MonitorNext)
  <2>1. UNCHANGED pc
    BY <1>2 DEF TestedRest
  <2>2. ASSUME testnum # 3
        PROVE  OutsideStep(t)
    <3>1. pc[t] = "none"
      BY <1>2, <2>2 DEF TestedRest, PointsOf, TablePoints, Tested
    <3> QED
      BY <1>2, <3>1 DEF TestedRest, OutsideStep
  <2> QED
    BY <2>1, <2>2 DEF Tested
<1>3. CASE MainStep
  <2>1. OutsideStep(Main) /\ UNCHANGED pc
    BY <1>3 DEF MainStep, OutsideStep, Forked, Tested
  <2> QED
    BY <2>1
<1>4. CASE MMachineStep
  BY <1>4 DEF MMachineStep
<1> QED
  BY <1>1, <1>2, <1>3, <1>4 DEF ScriptRest

\* Every test but test 3 keeps to the monitor.
LEMMA TestsAreMonitors ==
    ASSUME InPlace, testnum # 3, [TNext]_tvars
    PROVE  [MonitorNext]_mvars
<1> USE DEF InPlace
<1>1. ASSUME testnum \in {0, 5}, ScriptRest
      PROVE  MonitorNext
  BY <1>1, ScriptSteps
<1>2. ASSUME testnum = 0, NEW t \in Tested, DLListTest(t)
      PROVE  MonitorNext
  <2>1. t \in Threads /\ pc[t] \in PointsOf(0)
    BY <1>2 DEF Tested
  <2>2. MonitorStep(t)
    BY <1>2, <2>1, DLListSteps DEF DLListTest
  <2> QED
    BY <2>1, <2>2 DEF MonitorNext
<1>3. ASSUME testnum = 5, NEW t \in Tested, TableTest(t)
      PROVE  MonitorNext
  <2>1. t \in Threads
    BY DEF Tested
  <2>2. MonitorStep(t)
    BY <1>3, <2>1, TableSteps DEF TableTest
  <2> QED
    BY <2>1, <2>2 DEF MonitorNext
<1>4. CASE UNCHANGED tvars
  BY <1>4 DEF tvars
<1> QED
  BY <1>1, <1>2, <1>3, <1>4, ListSteps, BufferSteps DEF TNext

LEMMA EverybodyStaysInPlace ==
    ASSUME InPlace, [TNext]_tvars
    PROVE  InPlace'
<1> USE KernelAssumption DEF InPlace
<1>0. UNCHANGED << testnum, threadnum, which >>
  BY DEF TNext, DLListTest, DLListTest3, TableTest, NextCall, testVars, tvars
<1>1. ASSUME NEW t \in Threads, NEW q \in PointsOf(testnum),
             pc' = [pc EXCEPT ![t] = q], testnum \in {0, 3, 5} => t # Main
      PROVE  InPlace'
  BY <1>0, <1>1
<1>2. ASSUME UNCHANGED pc
      PROVE  InPlace'
  BY <1>0, <1>2
<1>3. ASSUME testnum = 0, NEW t \in Tested, DLListTest(t)
      PROVE  InPlace'
  <2>1. t \in Threads /\ t # Main /\ pc[t] \in PointsOf(0)
    BY <1>3 DEF Tested
  <2>2. UNCHANGED pc \/ \E q \in PointsOf(0) : pc' = [pc EXCEPT ![t] = q]
    BY <1>3, <2>1, StepsStayInClass DEF DLListTest
  <2> QED
    BY <1>1, <1>2, <1>3, <2>1, <2>2
<1>4. ASSUME testnum = 3, NEW t \in Tested, DLListTest3(t)
      PROVE  InPlace'
  <2>1. t \in Threads /\ t # Main /\ pc[t] \in PointsOf(3)
    BY <1>4 DEF Tested
  <2>2. UNCHANGED pc \/ \E q \in PointsOf(3) : pc' = [pc EXCEPT ![t] = q]
    BY <1>4, <2>1, StepsStayInClass DEF DLListTest3
  <2> QED
    BY <1>1, <1>2, <1>4, <2>1, <2>2
<1>5. ASSUME testnum = 5, NEW t \in Tested, TableTest(t)
      PROVE  InPlace'
  <2>1. t \in Threads /\ t # Main
    BY DEF Tested
  <2>2. UNCHANGED pc \/ \E q \in TablePoints : pc' = [pc EXCEPT ![t] = q]
    BY <1>5, <2>1, StepsStayInClass DEF TableTest
  <2> QED
    BY <1>1, <1>2, <1>5, <2>1, <2>2 DEF PointsOf
<1>6. ASSUME testnum \in {0, 3, 5}, ScriptRest
      PROVE  InPlace'
  BY <1>2, <1>6, ScriptSteps
<1>7. ASSUME testnum = 4, SNext
      PROVE  InPlace'
  BY <1>1, <1>2, <1>7, StepsStayInClass DEF PointsOf
<1>8. ASSUME testnum = 6, BNext
      PROVE  InPlace'
  BY <1>1, <1>2, <1>8, StepsStayInClass DEF PointsOf
<1>9. CASE UNCHANGED tvars
  BY <1>2, <1>9 DEF tvars, mvars
<1> QED
  BY <1>3, <1>4, <1>5, <1>6, <1>7, <1>8, <1>9 DEF TNext

\* InPlace holds in every state, and the test stays the same.
LEMMA EverybodyInPlace ==
    /\ TSpec => []InPlace
    /\ TSpec /\ testnum # 3 => [](testnum # 3)
    /\ TSpec /\ testnum = 3 => [](testnum = 3)
<1>1. TInit => InPlace
  <2> SUFFICES ASSUME TInit
               PROVE  InPlace
    OBVIOUS
  <2>1. PICK r \in Runs : testnum = r[1] /\ threadnum = r[2] /\ which = r[3]
    BY DEF TInit
  <2> DEFINE N == 1..Cardinality(Tested)
             F == [Tested -> 0..Cardinality(Tested) - 1]
  <2>2. << testnum, threadnum, which >> \in Runs /\ testnum \in {0, 3, 4, 5, 6}
    <3>1. r \in {0, 3, 4, 5, 6} \X N \X F
      BY ThreadTestAssumption
    <3> HIDE DEF N, F
    <3>2. r = << r[1], r[2], r[3] >> /\ r[1] \in {0, 3, 4, 5, 6}
      BY <3>1
    <3> QED
      BY <2>1, <3>2
  <2> QED
    BY <2>2, KernelAssumption
       DEF TInit, SInit, MInit, InPlace, PointsOf, ListPoints, BufferPoints, TablePoints
<1>2. [TNext]_tvars => UNCHANGED testnum
  BY DEF TNext, DLListTest, DLListTest3, TableTest, NextCall, testVars, tvars
<1>3. testnum # 3 /\ [TNext]_tvars => (testnum # 3)'
  BY <1>2
<1>4. testnum = 3 /\ [TNext]_tvars => (testnum = 3)'
  BY <1>2
<1> QED
  BY <1>1, <1>3, <1>4, EverybodyStaysInPlace, PTL DEF TSpec

\* Agree holds in every state of the other tests.
LEMMA TestsAlwaysAgree == TSpec /\ testnum # 3 => []Agree
<1>1. TInit => Agree
  BY KernelAssumption, LockAssumption, ConditionAssumption
     DEF TInit, SInit, MInit, CInit, LInit, KInit, Agree, AgreesAt, PhasesAgree,
         ExpectedP, Phases, CondPhases, Others, InLock
<1>2. InPlace /\ testnum # 3 /\ Agree /\ [TNext]_tvars => Agree'
  BY TestsAreMonitors, MonitorStaysAgreed
<1> QED
  BY <1>1, <1>2, EverybodyInPlace, PTL DEF TSpec

\* Four of the five tests use the lock and the condition variables as the most
\* general client of Condition does: all that is proved of it holds for them.
THEOREM TestsAreConditionClients == TSpec /\ testnum # 3 => CSpec
<1>1. TInit => CInit
  BY DEF TInit, SInit, MInit
<1>2. InPlace /\ testnum # 3 /\ Agree /\ [TNext]_tvars => [CNext]_cvars
  BY TestsAreMonitors, MonitorIsConditionClient
<1> QED
  BY <1>1, <1>2, EverybodyInPlace, TestsAlwaysAgree, PTL DEF TSpec, CSpec

-----------------------------------------------------------------------------
(* What a halt leaves behind.                                              *)

\* The kernel steps in which nobody finishes keep a thread from being blocked
\* outside P().
LEMMA NobodyFinishes ==
    ASSUME KTypeOK, QInv,
           \/ \E t \in Threads, s \in Semaphores : PEnter(t, s) \/ PSleep(t, s) \/ PTake(t, s)
           \/ \E s \in Semaphores : V(s)
           \/ \E t \in Threads : Executing(t) /\ (Yield \/ \E u \in Threads : Fork(u))
           \/ Dispatch \/ Halt \/ Preempt \/ UNCHANGED kvars
    PROVE  \A u \in Threads :
             /\ status[u] # "JUST_CREATED" => status'[u] # "JUST_CREATED"
             /\ status'[u] = "BLOCKED" =>
                  inP'[u] # NULL \/ (status[u] = "BLOCKED" /\ inP'[u] = inP[u])
<1> USE KernelAssumption DEF KTypeOK, ThreadStatus
<1>1. ASSUME NEW t \in Threads, NEW s \in Semaphores, PEnter(t, s) \/ PSleep(t, s) \/ PTake(t, s)
      PROVE  \A u \in Threads :
             /\ status[u] # "JUST_CREATED" => status'[u] # "JUST_CREATED"
             /\ status'[u] = "BLOCKED" =>
                  inP'[u] # NULL \/ (status[u] = "BLOCKED" /\ inP'[u] = inP[u])
  BY <1>1 DEF PEnter, PSleep, PTake, Executing, InsideP, Block, threadVars
<1>2. ASSUME NEW s \in Semaphores, V(s), queue[s] # << >>
      PROVE  \E h \in Threads : status' = [status EXCEPT ![h] = "READY"]
  <2>1. Head(queue[s]) \in Threads
    BY <1>2
  <2> QED
    BY <1>2, <2>1, Zenon DEF V, ReadyToRun
<1>3. ASSUME NEW s \in Semaphores, V(s)
      PROVE  /\ UNCHANGED inP
             /\ UNCHANGED status \/ \E h \in Threads : status' = [status EXCEPT ![h] = "READY"]
  <2>1. CASE queue[s] = << >>
    BY <1>3, <2>1 DEF V
  <2> QED
    BY <1>2, <1>3, <2>1, VMovesNobody
<1>4. ASSUME SwitchAway \/ Dispatch
      PROVE  /\ UNCHANGED inP
             /\ \A u \in Threads : status'[u] \in {status[u], "READY", "RUNNING"}
  BY <1>4 DEF SwitchAway, Dispatch, semaphoreVars
<1>5. ASSUME NEW u \in Threads, Fork(u)
      PROVE  UNCHANGED inP /\ status' = [status EXCEPT ![u] = "READY"]
  BY <1>5 DEF Fork, ReadyToRun, semaphoreVars
<1>6. ASSUME UNCHANGED kvars \/ Halt
      PROVE  UNCHANGED << inP, status >>
  BY <1>6 DEF kvars, Halt, semaphoreVars
<1> QED
  BY <1>1, <1>3, <1>4, <1>5, <1>6 DEF Yield, Preempt

\* A thread inside an operation has been forked and has not finished.
CallersAlive ==
    \A t \in Threads : pc[t] # "none" =>
        /\ status[t] # "JUST_CREATED"
        /\ status[t] = "BLOCKED" => inP[t] # NULL

LEMMA CallersStayAlive ==
    ASSUME KTypeOK, QInv, Agree, CallersAlive, [MonitorNext]_mvars
    PROVE  CallersAlive'
<1> USE LockAssumption, ConditionAssumption DEF CallersAlive, KTypeOK
<1> DEFINE Kept == \A u \in Threads :
             /\ status[u] # "JUST_CREATED" => status'[u] # "JUST_CREATED"
             /\ status'[u] = "BLOCKED" =>
                  inP'[u] # NULL \/ (status[u] = "BLOCKED" /\ inP'[u] = inP[u])
<1>1. ASSUME Kept, \A u \in Threads : pc'[u] # "none" => pc[u] # "none"
      PROVE  CallersAlive'
  BY <1>1
<1>2. pc \in [Threads -> {"none"} \cup Entering \cup Within \cup AtTest \cup AtSignal]
  BY DEF Agree
<1> HIDE DEF Kept
<1>3. ASSUME NEW t \in Threads, NEW p \in Entering, Calls(t, p)
      PROVE  CallersAlive'
  BY <1>2, <1>3 DEF Calls, Moves, Acquire, PEnter, Executing, threadVars
<1>4. ASSUME NEW t \in Threads, Acquiring(t)
      PROVE  CallersAlive'
  BY <1>1, <1>4, NobodyFinishes DEF Acquiring, AcquireSleep, AcquireTake, Kept
<1>5. ASSUME NEW t \in Threads, NEW p \in Entering \cup Within \cup AtTest, NEW q,
             Enters(t, p, q) \/ Works(t, p, q)
      PROVE  CallersAlive'
  <2>1. p # "none" /\ Moves(t, p, q) /\ UNCHANGED kvars
    BY <1>5 DEF Entering, Within, AtTest, Enters, Works, AcquireReturn, cvars, lvars
  <2> QED
    BY <1>1, <1>2, <2>1, NobodyFinishes DEF Kept, Moves
<1>6. ASSUME NEW t \in Threads, NEW p \in Within, NEW q, Executing(t), Moves(t, p, q), Yield
      PROVE  CallersAlive'
  BY <1>1, <1>2, <1>6, NobodyFinishes DEF Kept, Moves, Within
<1>7. ASSUME NEW t \in Threads, NEW p \in AtTest, StartsWait(t, p, CondOf(p))
      PROVE  CallersAlive'
  BY <1>1, <1>7, NobodyFinishes DEF StartsWait, Wait, Release, Kept
<1>8. ASSUME NEW t \in Threads, NEW c \in Conds, Waits(t, c) \/ SignalReturns(t, c)
      PROVE  CallersAlive'
  <2>1. c \in Semaphores /\ mutex \in Semaphores
    OBVIOUS
  <2>2. /\ UNCHANGED pc
        /\ \/ PEnter(t, c) \/ PSleep(t, c) \/ PTake(t, c) \/ PEnter(t, mutex)
           \/ UNCHANGED kvars
    BY <1>8 DEF Waits, SignalReturns, WaitEnter, WaitSleep, WaitTake, WaitReacquire,
       WaitReturn, Acquire, AcquireReturn, SignalReturn, lvars
  <2> QED
    BY <1>1, <2>1, <2>2, NobodyFinishes DEF Kept
<1>9. ASSUME NEW t \in Threads, NEW p \in Within, NEW q, NEW c \in Conds, Signals(t, p, q, c)
      PROVE  CallersAlive'
  <2>1. c \in Semaphores
    OBVIOUS
  <2> QED
    BY <1>1, <1>2, <1>9, <2>1, NobodyFinishes DEF Signals, Signal, Kept, Moves, Within
<1>10. ASSUME NEW t \in Threads, NEW p, Leaves(t, p)
       PROVE  CallersAlive'
  BY <1>1, <1>2, <1>10, NobodyFinishes DEF Leaves, Release, Moves, Kept
<1>11. ASSUME NEW t \in Threads, OutsideStep(t)
       PROVE  CallersAlive'
  <2>1. CASE Finish
    <3>1. /\ t = currentThread /\ pc[t] = "none" /\ UNCHANGED << pc, inP >>
          /\ status' = [status EXCEPT ![t] = "BLOCKED"]
      BY <1>11, <2>1 DEF OutsideStep, Executing, Finish, Block, semaphoreVars
    <3> QED
      BY <3>1
  <2>2. CASE Yield \/ \E u \in Threads : Fork(u)
    BY <1>1, <1>11, <2>2, NobodyFinishes DEF OutsideStep, Kept
  <2> QED
    BY <1>11, <2>1, <2>2 DEF OutsideStep
<1>12. CASE MMachineStep
  BY <1>1, <1>12, NobodyFinishes DEF MMachineStep, CMachineStep, Interrupt, Others, Kept
<1>13. CASE UNCHANGED mvars
  BY <1>1, <1>13, NobodyFinishes DEF mvars, cvars, lvars, Kept
<1> QED
  BY <1>3, <1>4, <1>5, <1>6, <1>7, <1>8, <1>9, <1>10, <1>11, <1>12, <1>13
     DEF MonitorNext, MonitorStep

\* A thread that has been forked has been forked for good: no step of such a program
\* gives it its first status again.
LEMMA ForkedForGood ==
    ASSUME KTypeOK, QInv, [MonitorNext]_mvars, NEW u \in Threads, status[u] # "JUST_CREATED"
    PROVE  status'[u] # "JUST_CREATED"
<1> USE LockAssumption, ConditionAssumption
<1> DEFINE Kernel ==
             \/ \E t \in Threads, s \in Semaphores : PEnter(t, s) \/ PSleep(t, s) \/ PTake(t, s)
             \/ \E s \in Semaphores : V(s)
             \/ \E t \in Threads : Executing(t) /\ (Yield \/ \E v \in Threads : Fork(v))
             \/ Dispatch \/ Halt \/ Preempt \/ UNCHANGED kvars
<1>1. CASE Kernel
  BY <1>1, NobodyFinishes
<1>2. CASE Finish
  BY <1>2 DEF Finish, Block, KTypeOK
<1>3. ASSUME NEW t \in Threads, NEW p \in Entering, Calls(t, p)
      PROVE  Kernel
  BY <1>3 DEF Calls, Acquire
<1>4. ASSUME NEW t \in Threads, Acquiring(t)
      PROVE  Kernel
  BY <1>4 DEF Acquiring, AcquireSleep, AcquireTake
<1>5. ASSUME NEW t \in Threads, NEW p, NEW q, Enters(t, p, q) \/ Works(t, p, q)
      PROVE  Kernel
  BY <1>5 DEF Enters, Works, AcquireReturn, cvars, lvars
<1>6. ASSUME NEW t \in Threads, Executing(t), Yield
      PROVE  Kernel
  BY <1>6
<1>7. ASSUME NEW t \in Threads, NEW p, NEW c \in Conds, StartsWait(t, p, c)
      PROVE  Kernel
  BY <1>7 DEF StartsWait, Wait, Release
<1>8. ASSUME NEW t \in Threads, NEW c \in Conds, Waits(t, c) \/ SignalReturns(t, c)
      PROVE  Kernel
  <2>1. c \in Semaphores /\ mutex \in Semaphores
    OBVIOUS
  <2>2. \/ PEnter(t, c) \/ PSleep(t, c) \/ PTake(t, c) \/ PEnter(t, mutex)
        \/ UNCHANGED kvars
    BY <1>8 DEF Waits, SignalReturns, WaitEnter, WaitSleep, WaitTake, WaitReacquire,
       WaitReturn, Acquire, AcquireReturn, SignalReturn, lvars
  <2> QED
    BY <2>1, <2>2
<1>9. ASSUME NEW t \in Threads, NEW p, NEW q, NEW c \in Conds, Signals(t, p, q, c)
      PROVE  Kernel
  BY <1>9 DEF Signals, Signal
<1>10. ASSUME NEW t \in Threads, NEW p, Leaves(t, p)
       PROVE  Kernel
  BY <1>10 DEF Leaves, Release
<1>11. ASSUME NEW t \in Threads, OutsideStep(t)
       PROVE  Kernel \/ Finish
  BY <1>11 DEF OutsideStep
<1>12. CASE MMachineStep
  BY <1>1, <1>12 DEF MMachineStep, CMachineStep, Interrupt, Others
<1>13. CASE UNCHANGED mvars
  BY <1>1, <1>13 DEF mvars, cvars, lvars
<1> HIDE DEF Kernel
<1> QED
  BY <1>1, <1>2, <1>3, <1>4, <1>5, <1>6, <1>7, <1>8, <1>9, <1>10, <1>11, <1>12, <1>13,
     CondsOfLoops DEF MonitorNext, MonitorStep

\* In a halted machine everybody who is in an operation sleeps in the P() of a
\* Wait() whose condition variable remembers no signal: the lock is free.
OnlyWaitersLeft ==
    mode = "Halted" =>
        \A t \in Threads : pc[t] # "none" =>
            /\ pc[t] \in AtTest
            /\ condPhase[t] = "waiting"
            /\ value[CondOf(pc[t])] = 0

\* What is known of every state of the tests that keep to the monitor.
MonitorKnown ==
    /\ KTypeOK /\ QInv /\ LInv /\ Agree /\ CallersAlive /\ OnlyWaitersLeft
    /\ blockNum \in [Conds -> Int]
    /\ threadHoldLock \in Threads \cup {NULL}

THEOREM MonitorsAreKnown == TSpec /\ testnum # 3 => []MonitorKnown
<1> DEFINE Due == mode = "Halted" =>
                    \A t \in Threads, s \in Semaphores : inP[t] = s =>
                        t \in Range(queue[s]) /\ value[s] = 0 /\ pending[s] = 0
<1>1. TInit => CallersAlive
  BY DEF TInit, SInit, MInit, CallersAlive
<1>2. KTypeOK /\ QInv /\ Agree /\ InPlace /\ testnum # 3 /\ CallersAlive /\ [TNext]_tvars
        => CallersAlive'
  BY TestsAreMonitors, CallersStayAlive
<1>3. KTypeOK /\ Agree /\ CallersAlive /\ AtRest /\ NoStuckAcquire /\ Due
        => OnlyWaitersLeft
  <2> SUFFICES ASSUME KTypeOK, Agree, CallersAlive, AtRest, NoStuckAcquire, Due,
                      mode = "Halted", NEW t \in Threads, pc[t] # "none"
               PROVE  /\ pc[t] \in AtTest
                      /\ condPhase[t] = "waiting"
                      /\ value[CondOf(pc[t])] = 0
    BY DEF OnlyWaitersLeft
  <2> USE DEF Agree, AgreesAt, PhasesAgree, ExpectedP, InLock, Entering, Within, AtTest, AtSignal
  <2>1. \A u \in Threads : pc[u] # "none" => inP[u] # NULL /\ inP[u] \notin Others
    BY DEF AtRest, CallersAlive, KTypeOK, ThreadStatus
  <2>2. \A u \in Threads : phase[u] # "acquired" /\ phase[u] # "holding"
    BY <2>1 DEF Others
  <2>3. phase[t] # "acquiring"
    BY <2>2 DEF NoStuckAcquire, Inside
  <2>4. condPhase[t] = "waiting" /\ pc[t] \in AtTest /\ cond[t] = CondOf(pc[t])
    BY <2>1, <2>2, <2>3 DEF Phases
  <2>5. inP[t] = cond[t] /\ cond[t] \in Semaphores
    BY <2>3, <2>4, CondsOfLoops, ConditionAssumption
  <2> QED
    BY <2>4, <2>5
<1>4. KSpec => []Due
  BY HaltedSleepersAreDue
<1>5. CTypeOK => KTypeOK /\ blockNum \in [Conds -> Int] /\ threadHoldLock \in Threads \cup {NULL}
  BY DEF CTypeOK, LTypeOK
<1> HIDE DEF Due
<1> QED
  BY <1>1, <1>2, <1>3, <1>4, <1>5, TestsAreConditionClients, ConditionIsLockClient,
     LockIsKernelClient, ConditionTyping, QueuesExact, LockInvariant, NoLockIsLost,
     AlwaysAtRest, EverybodyInPlace, TestsAlwaysAgree, PTL
     DEF TSpec, UsesLockProperly, MonitorKnown, QInv

\* In every test: where the threads are, and what is known.
Known == InPlace /\ (testnum # 3 => MonitorKnown)

LEMMA AlwaysKnown == TSpec => []Known
<1>1. testnum # 3 \/ testnum = 3
  OBVIOUS
<1>2. testnum # 3 <=> ~(testnum = 3)
  OBVIOUS
<1> QED
  BY <1>1, <1>2, MonitorsAreKnown, EverybodyInPlace, PTL DEF Known

-----------------------------------------------------------------------------
(* Counting the signals.                                                   *)

\* The size of a set from which only one element comes or goes.
LEMMA OneMoves ==
    ASSUME NEW S, IsFiniteSet(S), NEW S1, NEW e, S1 \ {e} = S \ {e}
    PROVE  /\ IsFiniteSet(S1)
           /\ Cardinality(S) \in Nat
           /\ Cardinality(S1) \in Nat
           /\ Cardinality(S1) = Cardinality(S) + (IF e \in S1 THEN 1 ELSE 0)
                                               - (IF e \in S THEN 1 ELSE 0)
<1> DEFINE n == Cardinality(S)
           n1 == Cardinality(S1)
<1>1. n \in Nat
  BY FS_CardinalityType
<1>2. CASE e \in S /\ e \in S1
  <2>1. S1 = S
    BY <1>2
  <2> QED
    BY <1>1, <1>2, <2>1
<1>3. CASE e \notin S /\ e \notin S1
  <2>1. S1 = S
    BY <1>3
  <2> QED
    BY <1>1, <1>3, <2>1
<1>4. CASE e \notin S /\ e \in S1
  <2>1. S1 = S \cup {e}
    BY <1>4
  <2>2. IsFiniteSet(S1) /\ n1 = IF e \in S THEN n ELSE n + 1
    BY <2>1, FS_AddElement, Zenon
  <2> HIDE DEF n, n1
  <2>3. n1 = n + 1
    BY <1>4, <2>2
  <2>4. n1 = n + (IF e \in S1 THEN 1 ELSE 0) - (IF e \in S THEN 1 ELSE 0) /\ n1 \in Nat
    BY <1>1, <1>4, <2>3
  <2> QED
    BY <1>1, <2>2, <2>4 DEF n, n1
<1>5. CASE e \in S /\ e \notin S1
  <2>1. S1 = S \ {e}
    BY <1>5
  <2>2. IsFiniteSet(S1) /\ n1 = IF e \in S THEN n - 1 ELSE n
    BY <2>1, FS_RemoveElement, Zenon
  <2>3. n1 \in Nat
    BY <2>2, FS_CardinalityType
  <2> HIDE DEF n, n1
  <2>4. n1 = n - 1
    BY <1>5, <2>2
  <2>5. n1 = n + (IF e \in S1 THEN 1 ELSE 0) - (IF e \in S THEN 1 ELSE 0)
    BY <1>1, <1>5, <2>4
  <2> QED
    BY <1>1, <2>2, <2>3, <2>5 DEF n, n1
<1> QED
  BY <1>2, <1>3, <1>4, <1>5

\* The threads that will test the condition of the loop at p without being woken
\* again, and those at the points P, which have still to signal.
Due(p, P) ==
    {t \in Threads : \/ pc[t] \in P
                     \/ pc[t] = p /\ condPhase[t] \notin {"released", "waiting"}}

\* What is on the way to the loop at p: the signals remembered and these threads.
Coming(p, P) == value[CondOf(p)] + Cardinality(Due(p, P))

One(b) == IF b THEN 1 ELSE 0

\* Only the thread that moves changes what is coming.
LEMMA ComingOfOne ==
    ASSUME KTypeOK, Agree, NEW p \in AtTest, NEW P \in SUBSET Within, NEW t \in Threads,
           \A u \in Threads \ {t} : pc'[u] = pc[u] /\ condPhase'[u] = condPhase[u],
           value'[CondOf(p)] \in Int
    PROVE  /\ Coming(p, P) \in Nat
           /\ Coming(p, P)' = Coming(p, P) + (value'[CondOf(p)] - value[CondOf(p)])
                + One(t \in Due(p, P)') - One(t \in Due(p, P))
<1> DEFINE S == Due(p, P)
           n == Cardinality(S)
           n1 == Cardinality(S')
           v == value[CondOf(p)]
           v1 == value'[CondOf(p)]
<1>1. IsFiniteSet(S)
  BY KernelAssumption, FS_Subset DEF Due
<1>2. S' \ {t} = S \ {t}
  BY DEF Due
<1>3. n \in Nat /\ n1 \in Nat /\ n1 = n + One(t \in S') - One(t \in S)
  BY <1>1, <1>2, OneMoves DEF One
<1>4. v \in Nat
  BY CondsOfLoops, ConditionAssumption DEF KTypeOK
<1>5. Coming(p, P) = v + n /\ Coming(p, P)' = v1 + n1
  BY DEF Coming
<1> HIDE DEF n, n1, v, v1, S
<1>6. Coming(p, P)' = Coming(p, P) + (v1 - v) + One(t \in S') - One(t \in S)
  <2>1. One(t \in S') \in Int /\ One(t \in S) \in Int /\ v1 \in Int
    BY DEF One, v1
  <2> QED
    BY <1>3, <1>4, <1>5, <2>1
<1> QED
  BY <1>3, <1>4, <1>5, <1>6 DEF S, v, v1

\* No two loops in use wait on the condition variable of the loop at p.
Alone(p) == \A t \in Threads : pc[t] \in AtTest /\ CondOf(pc[t]) = CondOf(p) => pc[t] = p

\* A number of signals and threads.
LEMMA ComingIsNumber ==
    ASSUME KTypeOK, NEW p \in AtTest, NEW P
    PROVE  /\ Coming(p, P) \in Nat
           /\ value[CondOf(p)] \in Nat
           /\ Coming(p, P) >= value[CondOf(p)]
<1>1. Cardinality(Due(p, P)) \in Nat
  BY KernelAssumption, FS_Subset, FS_CardinalityType DEF Due
<1>2. value[CondOf(p)] \in Nat
  BY CondsOfLoops, ConditionAssumption DEF KTypeOK
<1> QED
  BY <1>1, <1>2 DEF Coming

\* A thread at the loop counts.
LEMMA ComingOfMember ==
    ASSUME KTypeOK, NEW p \in AtTest, NEW P, Due(p, P) # {}
    PROVE  Coming(p, P) >= 1
<1>1. IsFiniteSet(Due(p, P))
  BY KernelAssumption, FS_Subset DEF Due
<1>2. Cardinality(Due(p, P)) \in Nat /\ Cardinality(Due(p, P)) # 0
  BY <1>1, FS_CardinalityType, FS_EmptySet
<1>3. value[CondOf(p)] \in Nat
  BY ComingIsNumber
<1> QED
  BY <1>2, <1>3 DEF Coming

\* When the machine halts with a thread at the loop, nothing is on the way to it.
LEMMA NothingComing ==
    ASSUME MonitorKnown, mode = "Halted", NEW p \in AtTest, NEW P \in SUBSET Within,
           NEW t \in Threads, pc[t] = p
    PROVE  Coming(p, P) = 0 /\ condPhase[t] = "waiting"
<1>1. /\ value[CondOf(p)] = 0 /\ condPhase[t] = "waiting"
      /\ \A u \in Threads : pc[u] # "none" => pc[u] \in AtTest /\ condPhase[u] = "waiting"
  BY DEF MonitorKnown, OnlyWaitersLeft, AtTest
<1>2. Due(p, P) = {}
  BY <1>1 DEF Due, Within, AtTest
<1> QED
  BY <1>1, <1>2, FS_EmptySet DEF Coming

\* Steps that move no thread and touch no condition variable change nothing.
LEMMA ComingKept ==
    ASSUME NEW p, NEW P, UNCHANGED << pc, condPhase >>,
           value'[CondOf(p)] = value[CondOf(p)]
    PROVE  Coming(p, P)' = Coming(p, P)
BY DEF Coming, Due

\* The steps of a monitor that neither come to a loop nor leave it, nor signal.
Aside(t) ==
    \/ \E a \in Entering : Calls(t, a)
    \/ Acquiring(t)
    \/ \E c \in Conds : Waits(t, c) \/ SignalReturns(t, c)
    \/ OutsideStep(t)
    \/ MMachineStep
    \/ UNCHANGED mvars

\* Those that work on the data, or yield within it.
Proceeds(t, a, b) ==
    \/ Works(t, a, b)
    \/ a \in Within /\ Moves(t, a, b) /\ Yield /\ UNCHANGED condVars

\* What the steps of a monitor do to it.
Accounted(p, P) ==
    /\ \A t \in Threads : Aside(t) => Coming(p, P)' = Coming(p, P)
    /\ \A t \in Threads, a \in Entering, b \in Within \cup AtTest :
         Enters(t, a, b) => Coming(p, P)' = Coming(p, P) + One(b = p \/ b \in P)
    /\ \A t \in Threads, a \in Within \cup AtTest, b \in Within :
         Proceeds(t, a, b) =>
           Coming(p, P)' = Coming(p, P) + One(b \in P) - One(a = p \/ a \in P)
    /\ \A t \in Threads, a \in AtTest :
         InLock(t) /\ StartsWait(t, a, CondOf(a)) =>
           Coming(p, P)' = Coming(p, P) - One(a = p)
    /\ \A t \in Threads, a \in Within, b \in AtSignal, c \in Conds :
         Signals(t, a, b, c) =>
           Coming(p, P)' = Coming(p, P) + One(c = CondOf(p)) - One(a \in P)
    /\ \A t \in Threads, a \in Within \cup AtSignal :
         Leaves(t, a) => Coming(p, P)' = Coming(p, P) - One(a \in P)

LEMMA ComingMoves ==
    ASSUME KTypeOK, Agree, NEW p \in AtTest, NEW P \in SUBSET Within, Alone(p)
    PROVE  Accounted(p, P)
<1> USE KernelAssumption, LockAssumption, ConditionAssumption, CondsOfLoops
<1> DEFINE C == Coming(p, P)
           v == value[CondOf(p)]
<1>1. /\ CondOf(p) \in Conds /\ CondOf(p) # mutex /\ CondOf(p) \notin Others
      /\ value \in [Semaphores -> 0..MaxValue]
      /\ C \in Nat /\ v \in Nat
  BY ComingIsNumber DEF Others, KTypeOK
<1>2. /\ pc \in [Threads -> {"none"} \cup Entering \cup Within \cup AtTest \cup AtSignal]
      /\ condPhase \in [Threads -> CondPhases]
      /\ phase \in [Threads -> Phases]
  BY DEF Agree, PhasesAgree
<1>3. ASSUME NEW t \in Threads, value'[CondOf(p)] \in Int,
             \A u \in Threads \ {t} : pc'[u] = pc[u] /\ condPhase'[u] = condPhase[u]
      PROVE  C' = C + (value'[CondOf(p)] - v) + One(t \in Due(p, P)') - One(t \in Due(p, P))
  BY <1>3, ComingOfOne
<1>4. ASSUME NEW t \in Threads
      PROVE  /\ t \in Due(p, P) <=>
                  pc[t] \in P \/ (pc[t] = p /\ condPhase[t] \notin {"released", "waiting"})
             /\ t \in Due(p, P)' <=>
                  pc'[t] \in P \/ (pc'[t] = p /\ condPhase'[t] \notin {"released", "waiting"})
  BY DEF Due
<1>5. \A b : One(b) \in {0, 1} /\ (b <=> One(b) = 1)
  BY DEF One
<1> USE DEF Entering, Within, AtTest, AtSignal
<1> HIDE DEF C, v
\* What is left to show when only t moves.
<1> DEFINE N(b) == One(b = p \/ b \in P)
<1>20. \A b : N(b) \in {0, 1} /\ (b \notin {p} \cup P => N(b) = 0)
  BY DEF One
<1> HIDE DEF N
<1>6. ASSUME NEW t \in Threads, NEW b, pc' = [pc EXCEPT ![t] = b], UNCHANGED condPhase,
             condPhase[t] \notin {"released", "waiting"},
             value'[CondOf(p)] = value[CondOf(p)]
      PROVE  C' = C + N(b) - N(pc[t])
  <2>1. pc'[t] = b /\ condPhase'[t] = condPhase[t]
    BY <1>2, <1>6
  <2>2. \A u \in Threads \ {t} : pc'[u] = pc[u] /\ condPhase'[u] = condPhase[u]
    BY <1>2, <1>6
  <2>3. One(t \in Due(p, P)') = N(b) /\ One(t \in Due(p, P)) = N(pc[t])
    BY <1>4, <1>6, <2>1 DEF One, N
  <2> QED
    BY <1>1, <1>3, <1>6, <1>20, <2>2, <2>3 DEF v
<1>7. ASSUME NEW t \in Threads, NEW a \in Entering, Calls(t, a)
      PROVE  C' = C
  <2>1. /\ pc[t] = "none" /\ pc' = [pc EXCEPT ![t] = a] /\ UNCHANGED << value, condPhase >>
        /\ condPhase[t] \notin {"released", "waiting"}
    BY <1>7, LockMoves DEF Calls, Moves, condVars, Agree, AgreesAt
  <2>2. N(a) = 0 /\ N("none") = 0
    BY <1>20
  <2>3. C' = C + N(a) - N("none")
    BY <1>6, <2>1
  <2> QED
    BY <1>1, <2>2, <2>3
<1>8. ASSUME NEW t \in Threads, NEW a \in Entering, NEW b \in Within \cup AtTest, Enters(t, a, b)
      PROVE  C' = C + N(b)
  <2>1. /\ pc[t] = a /\ pc' = [pc EXCEPT ![t] = b] /\ UNCHANGED << value, condPhase >>
        /\ condPhase[t] \notin {"released", "waiting"}
    BY <1>8, LockMoves DEF Enters, Moves, condVars
  <2>2. N(a) = 0 /\ N(b) \in Nat
    BY <1>20
  <2>3. C' = C + N(b) - N(a)
    BY <1>6, <2>1
  <2> QED
    BY <1>1, <2>2, <2>3
<1>9. ASSUME NEW t \in Threads, NEW a \in Within \cup AtTest, NEW b \in Within,
             Proceeds(t, a, b)
      PROVE  C' = C + One(b \in P) - N(a)
  <2>1. /\ pc[t] = a /\ pc' = [pc EXCEPT ![t] = b] /\ UNCHANGED << value, condPhase >>
        /\ condPhase[t] \notin {"released", "waiting"}
    BY <1>9, SwitchMovesNobody
       DEF Proceeds, Works, Moves, InLock, cvars, lvars, kvars, condVars, semaphoreVars,
           Agree, AgreesAt
  <2>2. N(b) = One(b \in P) /\ One(b \in P) \in Nat /\ N(a) \in Nat
    BY <1>20 DEF One, N
  <2> QED
    BY <1>1, <1>6, <2>1, <2>2
<1>10. ASSUME NEW t \in Threads, NEW a \in AtTest, InLock(t), StartsWait(t, a, CondOf(a))
       PROVE  C' = C - One(a = p)
  <2>1. /\ pc[t] = a /\ UNCHANGED pc /\ condPhase' = [condPhase EXCEPT ![t] = "released"]
        /\ condPhase[t] = "idle" /\ value' = [value EXCEPT ![mutex] = value[mutex] + 1]
    BY <1>10, LockMoves DEF StartsWait, Wait, Goes
  <2>2. /\ value'[CondOf(p)] = v /\ condPhase'[t] = "released"
        /\ \A u \in Threads \ {t} : pc'[u] = pc[u] /\ condPhase'[u] = condPhase[u]
    BY <1>1, <1>2, <2>1 DEF v
  <2>3. One(t \in Due(p, P)') = 0 /\ One(t \in Due(p, P)) = One(a = p)
    BY <1>4, <2>1, <2>2 DEF One
  <2> QED
    BY <1>1, <1>3, <1>5, <2>2, <2>3
<1>11. ASSUME NEW t \in Threads, NEW a \in Within, NEW b \in AtSignal, NEW c \in Conds,
              Signals(t, a, b, c)
       PROVE  C' = C + One(c = CondOf(p)) - One(a \in P)
  <2>1. /\ pc[t] = a /\ pc' = [pc EXCEPT ![t] = b]
        /\ condPhase' = [condPhase EXCEPT ![t] = "signalling"]
        /\ condPhase[t] = "idle" /\ value' = [value EXCEPT ![c] = value[c] + 1]
    BY <1>11, VMovesNobody DEF Signals, Moves, Signal, Goes
  <2>2. /\ value'[CondOf(p)] = v + One(c = CondOf(p)) /\ pc'[t] = b
        /\ \A u \in Threads \ {t} : pc'[u] = pc[u] /\ condPhase'[u] = condPhase[u]
    BY <1>1, <1>2, <2>1 DEF v, One
  <2>3. One(t \in Due(p, P)') = 0 /\ One(t \in Due(p, P)) = One(a \in P)
    BY <1>4, <2>1, <2>2 DEF One
  <2> QED
    BY <1>1, <1>3, <1>5, <2>2, <2>3
<1>12. ASSUME NEW t \in Threads, NEW a \in Within \cup AtSignal, Leaves(t, a)
       PROVE  C' = C - One(a \in P)
  <2>1. /\ pc[t] = a /\ pc' = [pc EXCEPT ![t] = "none"] /\ UNCHANGED condPhase
        /\ condPhase[t] = "idle" /\ value' = [value EXCEPT ![mutex] = value[mutex] + 1]
    BY <1>12, LockMoves DEF Leaves, Moves, condVars
  <2>2. value'[CondOf(p)] = v
    BY <1>1, <2>1 DEF v
  <2>3. N("none") = 0 /\ N(a) = One(a \in P) /\ One(a \in P) \in Nat
    BY <1>20 DEF One, N
  <2>4. C' = C + N("none") - N(a)
    BY <1>6, <2>1, <2>2 DEF v
  <2> QED
    BY <1>1, <2>3, <2>4
<1>13. ASSUME NEW t \in Threads, Acquiring(t)
       PROVE  C' = C
  <2>1. UNCHANGED << pc, condPhase >> /\ value'[CondOf(p)] = value[CondOf(p)]
    BY <1>1, <1>13, LockMoves, SwitchMovesNobody DEF Acquiring, AcquireSleep, condVars
  <2> QED
    BY <2>1, ComingKept DEF C
<1>14. ASSUME NEW t \in Threads, NEW c \in Conds, Waits(t, c)
       PROVE  C' = C
  <2> /\ c \in Semaphores \ {mutex} /\ UNCHANGED pc
      /\ condPhase[t] \in {"released", "waiting", "signalled", "reacquiring"} =>
           pc[t] \in AtTest /\ cond[t] = CondOf(pc[t])
    BY <1>14 DEF Agree, AgreesAt, InLock, Waits
  <2>1. CASE WaitEnter(t, c)
    <3>1. /\ condPhase' = [condPhase EXCEPT ![t] = "waiting"] /\ condPhase[t] = "released"
          /\ UNCHANGED << value, pc >>
      BY <1>14, <2>1 DEF WaitEnter, Goes, PEnter
    <3>2. One(t \in Due(p, P)') = One(t \in Due(p, P))
      BY <1>2, <1>4, <3>1 DEF One
    <3> QED
      BY <1>1, <1>2, <1>3, <1>5, <3>1, <3>2 DEF v
  <2>2. CASE WaitSleep(t, c)
    <3>1. UNCHANGED << pc, condPhase, value >>
      BY <1>14, <2>2, SwitchMovesNobody DEF WaitSleep, condVars
    <3> QED
      BY <3>1, ComingKept DEF C
  <2>3. CASE WaitTake(t, c)
    <3>1. /\ condPhase' = [condPhase EXCEPT ![t] = "signalled"] /\ condPhase[t] = "waiting"
          /\ value' = [value EXCEPT ![c] = value[c] - 1] /\ UNCHANGED pc
          /\ cond[t] = c
      BY <1>14, <2>3 DEF WaitTake, Goes, PTake
    <3>2. pc[t] \in AtTest /\ (pc[t] = p <=> c = CondOf(p))
      BY <3>1 DEF Alone
    <3>3. One(t \in Due(p, P)') = One(c = CondOf(p)) /\ One(t \in Due(p, P)) = 0
      BY <1>2, <1>4, <3>1, <3>2 DEF One
    <3>4. value'[CondOf(p)] = v - One(c = CondOf(p))
      BY <1>1, <3>1 DEF v, One
    <3> QED
      BY <1>1, <1>2, <1>3, <1>5, <3>1, <3>3, <3>4 DEF v
  <2>4. CASE WaitReacquire(t, c) \/ WaitReturn(t, c)
    <3>1. /\ \E k \in {"reacquiring", "idle"} : condPhase' = [condPhase EXCEPT ![t] = k]
          /\ condPhase[t] \in {"signalled", "reacquiring"} /\ UNCHANGED << value, pc >>
      BY <1>14, <2>4, LockMoves DEF WaitReacquire, WaitReturn, Goes
    <3>2. One(t \in Due(p, P)') = One(t \in Due(p, P))
      BY <1>2, <1>4, <3>1 DEF One
    <3> QED
      BY <1>1, <1>2, <1>3, <1>5, <3>1, <3>2 DEF v
  <2> QED
    BY <1>14, <2>1, <2>2, <2>3, <2>4 DEF Waits
<1>15. ASSUME NEW t \in Threads, NEW c \in Conds, SignalReturns(t, c)
       PROVE  C' = C
  <2>1. /\ condPhase' = [condPhase EXCEPT ![t] = "idle"] /\ condPhase[t] = "signalling"
        /\ UNCHANGED << value, pc >>
    BY <1>15 DEF SignalReturns, SignalReturn, Goes, lvars, kvars, semaphoreVars
  <2>2. One(t \in Due(p, P)') = One(t \in Due(p, P))
    BY <1>2, <1>4, <2>1 DEF One
  <2> QED
    BY <1>1, <1>2, <1>3, <1>5, <2>1, <2>2 DEF v
<1>16. ASSUME NEW t \in Threads, OutsideStep(t)
       PROVE  C' = C
  <2>1. UNCHANGED << pc, condPhase, value >>
    BY <1>16, SwitchMovesNobody DEF OutsideStep, condVars
  <2> QED
    BY <2>1, ComingKept DEF C
<1>17. ASSUME MMachineStep
       PROVE  C' = C
  <2>1. /\ UNCHANGED << pc, condPhase >>
        /\ UNCHANGED value \/ \E s \in Others : \E k : value' = [value EXCEPT ![s] = k]
    BY <1>17, OthersMove DEF MMachineStep
  <2>2. value'[CondOf(p)] = value[CondOf(p)]
    BY <1>1, <2>1
  <2> QED
    BY <2>1, <2>2, ComingKept DEF C
<1>18. ASSUME UNCHANGED mvars
       PROVE  C' = C
  BY <1>18, ComingKept DEF C, mvars, cvars, lvars, kvars, condVars, semaphoreVars
<1> HIDE DEF Entering, Within, AtTest, AtSignal
<1>19. \A t \in Threads : Aside(t) => C' = C
  BY <1>7, <1>13, <1>14, <1>15, <1>16, <1>17, <1>18 DEF Aside
<1> QED
  BY <1>8, <1>9, <1>10, <1>11, <1>12, <1>19, Zenon DEF Accounted, C, N

\* Where the steps of a monitor take a thread.
LEMMA PointsMove ==
    ASSUME NEW t, NEW a, NEW b, NEW c
    PROVE  /\ Calls(t, b) => pc[t] = "none" /\ pc' = [pc EXCEPT ![t] = b]
           /\ Enters(t, a, b) \/ Proceeds(t, a, b) \/ Signals(t, a, b, c) =>
                pc[t] = a /\ pc' = [pc EXCEPT ![t] = b]
           /\ Leaves(t, a) => pc[t] = a /\ pc' = [pc EXCEPT ![t] = "none"]
           /\ StartsWait(t, a, c) => pc[t] = a /\ UNCHANGED pc
           /\ Waits(t, c) \/ SignalReturns(t, c) \/ Acquiring(t) \/ OutsideStep(t)
              \/ MMachineStep \/ UNCHANGED mvars => UNCHANGED pc
BY DEF Calls, Enters, Proceeds, Works, Signals, Moves, Leaves, StartsWait, Waits,
       SignalReturns, Acquiring, OutsideStep, MMachineStep, mvars

\* Only Wait() puts a thread to sleep, and a sleeper stays where it is.
LEMMA SleepersStay ==
    ASSUME Agree, NEW t \in Threads,
           \/ Aside(t)
           \/ \E a, b, c : \/ Enters(t, a, b) \/ Signals(t, a, b, c) \/ Leaves(t, a)
                           \/ a \in Within \cup AtTest /\ Proceeds(t, a, b)
    PROVE  \A u \in Threads : condPhase'[u] \in {"released", "waiting"} =>
             condPhase[u] \in {"released", "waiting"} /\ pc'[u] = pc[u]
<1> USE DEF Agree, AgreesAt, PhasesAgree, InLock
<1>1. ASSUME condPhase[t] \notin {"released", "waiting"}, UNCHANGED condPhase,
             UNCHANGED pc \/ \E b : pc' = [pc EXCEPT ![t] = b]
      PROVE  \A u \in Threads : condPhase'[u] \in {"released", "waiting"} =>
               condPhase[u] \in {"released", "waiting"} /\ pc'[u] = pc[u]
  BY <1>1
<1>2. ASSUME NEW a, NEW b, Enters(t, a, b) \/ Leaves(t, a) \/ Calls(t, a)
      PROVE  /\ condPhase[t] \notin {"released", "waiting"} /\ UNCHANGED condPhase
             /\ \E q : pc' = [pc EXCEPT ![t] = q]
  BY <1>2 DEF Enters, Leaves, Calls, Moves, condVars, Entering, Within, AtTest, AtSignal
<1>3. ASSUME NEW a \in Within \cup AtTest, NEW b, Proceeds(t, a, b)
      PROVE  /\ condPhase[t] \notin {"released", "waiting"} /\ UNCHANGED condPhase
             /\ \E q : pc' = [pc EXCEPT ![t] = q]
  BY <1>3 DEF Proceeds, Works, Moves, cvars, condVars, Entering, Within, AtTest, AtSignal
<1>4. ASSUME NEW a, NEW b, NEW c, Signals(t, a, b, c)
      PROVE  \A u \in Threads : condPhase'[u] \in {"released", "waiting"} =>
               condPhase[u] \in {"released", "waiting"} /\ pc'[u] = pc[u]
  BY <1>4 DEF Signals, Moves, Signal, Goes
<1>5. ASSUME NEW c \in Conds, Waits(t, c) \/ SignalReturns(t, c)
      PROVE  \A u \in Threads : condPhase'[u] \in {"released", "waiting"} =>
               condPhase[u] \in {"released", "waiting"} /\ pc'[u] = pc[u]
  BY <1>5 DEF Waits, SignalReturns, WaitEnter, WaitSleep, WaitTake, WaitReacquire, WaitReturn,
     SignalReturn, Goes, condVars
<1>6. ASSUME Acquiring(t) \/ OutsideStep(t) \/ MMachineStep \/ UNCHANGED mvars
      PROVE  UNCHANGED << pc, condPhase >>
  BY <1>6 DEF Acquiring, OutsideStep, MMachineStep, CMachineStep, mvars, cvars, condVars
<1> HIDE DEF Agree, AgreesAt, PhasesAgree, InLock
<1>7. CASE Aside(t)
  BY <1>1, <1>2, <1>5, <1>6, <1>7 DEF Aside
<1> QED
  BY <1>1, <1>2, <1>3, <1>4, <1>7

-----------------------------------------------------------------------------
(* SynchList.                                                              *)

\* The Append()s that have still to signal.
Appending == {"appended", "yielded"}

\* An Append() carries an item to the list, and as long as an item is on the list
\* something is on the way to the loop of Remove().
ListInv ==
    /\ STypeOK
    /\ \A t \in Threads : pc[t] = "append" => item[t] \in Items
    /\ Len(list) <= Coming("test", Appending)

\* The steps that leave the list alone.
LEMMA ListStaysCovered ==
    ASSUME KTypeOK, Agree, pc \in [Threads -> ListPoints], ListInv, [SNext]_svars
    PROVE  ListInv'
<1> USE KernelAssumption, SynchListAssumption
<1> DEFINE C == Coming("test", Appending)
<1>1. /\ Alone("test") /\ "test" \in AtTest
      /\ Appending \in SUBSET Within /\ CondOf("test") = listEmpty
  BY DEF Alone, ListPoints, CondOf, AtTest, Appending, Within
<1>2. C \in Nat
  BY <1>1, ComingIsNumber
<1>3. Accounted("test", Appending)
  BY <1>1, ComingMoves
<1>4. /\ list \in Seq(Items) /\ item \in [Threads -> Items \cup {NULL}]
      /\ \A t \in Threads : /\ pc[t] = "append" => item[t] \in Items
                            /\ pc[t] = "removed" => item[t] # NULL
      /\ Len(list) <= C
  BY DEF ListInv, STypeOK, C
\* What is left to show of each step.
<1>5. ASSUME /\ list' \in Seq(Items) /\ item' \in [Threads -> Items \cup {NULL}]
             /\ \A t \in Threads : /\ pc'[t] = "append" => item'[t] \in Items
                                   /\ pc'[t] = "removed" => item'[t] # NULL
             /\ Len(list') <= C'
      PROVE  ListInv'
  BY <1>5 DEF ListInv, STypeOK, C
<1>6. ASSUME UNCHANGED << list, item >>, C' = C \/ C' = C + 1,
             UNCHANGED pc \/ \E t \in Threads, q \in ListPoints \ {"append", "removed"} :
                               pc' = [pc EXCEPT ![t] = q]
      PROVE  ListInv'
  <2>1. Len(list) \in Nat
    BY <1>4
  <2> QED
    BY <1>2, <1>4, <1>5, <1>6, <2>1
<1>20. ASSUME NEW t \in Threads
       PROVE  /\ Aside(t) => C' = C
              /\ Enters(t, "append", "appended") \/ Enters(t, "remove", "test") => C' = C + 1
              /\ Enters(t, "map", "mapping") => C' = C
              /\ Proceeds(t, "appended", "yielded") => C' = C
              /\ Signals(t, "yielded", "signalled", listEmpty) => C' = C
              /\ Proceeds(t, "test", "removed") => C' = C - 1
              /\ Leaves(t, "signalled") \/ Leaves(t, "removed") \/ Leaves(t, "mapping") => C' = C
              /\ InLock(t) /\ StartsWait(t, "test", listEmpty) => C' = C - 1
  BY <1>1, <1>2, <1>3 DEF C, Accounted, Entering, Within, AtTest, AtSignal, Appending, One
<1> USE DEF ListPoints
<1>7. ASSUME NEW t \in Threads, NEW x \in Items, AppendCall(t, x)
      PROVE  ListInv'
  <2>1. C' = C /\ pc' = [pc EXCEPT ![t] = "append"]
    BY <1>7, <1>20, PointsMove DEF AppendCall, Aside, Entering
  <2> QED
    BY <1>4, <1>5, <1>7, <2>1 DEF AppendCall
<1>8. ASSUME NEW t \in Threads, AppendItem(t)
      PROVE  ListInv'
  <2>1. C' = C + 1 /\ pc[t] = "append" /\ pc' = [pc EXCEPT ![t] = "appended"]
    BY <1>8, <1>20, PointsMove DEF AppendItem
  <2>2. list' \in Seq(Items) /\ Len(list') = Len(list) + 1 /\ Len(list) \in Nat
    BY <1>4, <1>8, <2>1 DEF AppendItem
  <2> QED
    BY <1>2, <1>4, <1>5, <1>8, <2>1, <2>2 DEF AppendItem
<1>9. ASSUME NEW t \in Threads, AppendYield(t)
      PROVE  ListInv'
  <2>0. Proceeds(t, "appended", "yielded")
    BY <1>9 DEF AppendYield, Proceeds, Within
  <2>1. C' = C /\ pc' = [pc EXCEPT ![t] = "yielded"]
    BY <1>2, <1>20, <2>0, PointsMove
  <2> QED
    BY <1>2, <1>6, <1>9, <2>1 DEF AppendYield
<1>10. ASSUME NEW t \in Threads, AppendSignal(t)
       PROVE  ListInv'
  <2>0. Signals(t, "yielded", "signalled", listEmpty)
    BY <1>10 DEF AppendSignal
  <2>1. C' = C /\ pc' = [pc EXCEPT ![t] = "signalled"]
    BY <1>2, <1>20, <2>0, PointsMove
  <2> QED
    BY <1>2, <1>6, <1>10, <2>1 DEF AppendSignal
<1>11. ASSUME NEW t \in Threads, AppendSignalReturn(t) \/ RemoveWaits(t)
       PROVE  ListInv'
  <2>0. Aside(t) /\ UNCHANGED pc
    BY <1>11, PointsMove DEF AppendSignalReturn, RemoveWaits, Aside
  <2>1. C' = C /\ UNCHANGED pc
    BY <1>2, <1>20, <2>0
  <2> QED
    BY <1>2, <1>6, <1>11, <2>1 DEF AppendSignalReturn, RemoveWaits
<1>12. ASSUME NEW t \in Threads, AppendReturn(t) \/ RemoveReturn(t)
       PROVE  ListInv'
  <2>1. C' = C /\ pc' = [pc EXCEPT ![t] = "none"]
    BY <1>12, <1>20, PointsMove DEF AppendReturn, RemoveReturn
  <2> QED
    BY <1>2, <1>4, <1>5, <1>12, <2>1 DEF AppendReturn, RemoveReturn
<1>13. ASSUME NEW t \in Threads, RemoveCall(t) \/ MapcarCall(t)
       PROVE  ListInv'
  <2>0. Aside(t) /\ \E q \in {"remove", "map"} : pc' = [pc EXCEPT ![t] = q]
    BY <1>13, PointsMove DEF RemoveCall, MapcarCall, Aside, Entering
  <2>1. C' = C /\ \E q \in {"remove", "map"} : pc' = [pc EXCEPT ![t] = q]
    BY <1>2, <1>20, <2>0
  <2> QED
    BY <1>6, <1>13, <2>1 DEF RemoveCall, MapcarCall
<1>14. ASSUME NEW t \in Threads, RemoveEnter(t) \/ MapcarEnter(t)
       PROVE  ListInv'
  <2>1. CASE RemoveEnter(t)
    <3>1. C' = C + 1 /\ pc' = [pc EXCEPT ![t] = "test"]
      BY <1>20, <2>1, PointsMove DEF RemoveEnter
    <3> QED
      BY <1>6, <2>1, <3>1 DEF RemoveEnter
  <2>2. CASE MapcarEnter(t)
    <3>1. C' = C /\ pc' = [pc EXCEPT ![t] = "mapping"]
      BY <1>20, <2>2, PointsMove DEF MapcarEnter
    <3> QED
      BY <1>6, <2>2, <3>1 DEF MapcarEnter
  <2> QED
    BY <1>14, <2>1, <2>2
<1>15. ASSUME NEW t \in Threads, RemoveWait(t)
       PROVE  ListInv'
  <2>1. list = << >> /\ UNCHANGED << pc, list, item >> /\ Len(list) = 0
    BY <1>15 DEF RemoveWait, StartsWait
  <2>2. C' = C - 1 /\ InLock(t) /\ pc[t] = "test"
    BY <1>1, <1>15, <1>20, PointsMove DEF RemoveWait
  <2>3. t \in Due("test", Appending)
    BY <2>2 DEF Due, InLock
  <2>4. C >= 1
    BY <1>1, <2>3, ComingOfMember DEF C
  <2> QED
    BY <1>2, <1>4, <1>5, <2>1, <2>2, <2>4
<1>16. ASSUME NEW t \in Threads, RemoveItem(t)
       PROVE  ListInv'
  <2>1. C' = C - 1 /\ pc' = [pc EXCEPT ![t] = "removed"]
    BY <1>16, <1>20, PointsMove DEF RemoveItem, Proceeds
  <2>2. /\ list' \in Seq(Items) /\ Len(list') = Len(list) - 1 /\ Len(list) \in Nat
        /\ Head(list) \in Items
    BY <1>4, <1>16 DEF RemoveItem
  <2> QED
    BY <1>2, <1>4, <1>5, <1>16, <2>1, <2>2 DEF RemoveItem
<1>17. ASSUME NEW t \in Threads, MapcarReturn(t)
       PROVE  ListInv'
  <2>0. Leaves(t, "mapping")
    BY <1>17 DEF MapcarReturn
  <2>1. C' = C /\ pc' = [pc EXCEPT ![t] = "none"]
    BY <1>2, <1>20, <2>0, PointsMove
  <2> QED
    BY <1>2, <1>6, <1>17, <2>1 DEF MapcarReturn
<1>18. ASSUME (\E t \in Threads : Acquiring(t) \/ OutsideStep(t)) \/ MMachineStep,
              UNCHANGED << list, item >>
       PROVE  ListInv'
  <2>0. \E t \in Threads : Aside(t) /\ UNCHANGED pc
    BY <1>18, PointsMove DEF Aside
  <2>1. C' = C /\ UNCHANGED pc
    BY <1>2, <1>20, <2>0
  <2> QED
    BY <1>2, <1>6, <1>18, <2>1
<1>19. CASE UNCHANGED svars
  <2>1. C' = C /\ UNCHANGED << pc, list, item >>
    BY <1>2, <1>19, <1>20 DEF svars, mvars, Aside
  <2> QED
    BY <1>2, <1>6, <2>1
<1> QED
  BY <1>7, <1>8, <1>9, <1>10, <1>11, <1>12, <1>13, <1>14, <1>15, <1>16, <1>17, <1>18, <1>19
     DEF SNext, AppendStep, RemoveStep, MapcarStep

\* Only test 4 uses the list.
ListSafe ==
    IF testnum = 4 THEN ListInv
    ELSE list = << >> /\ item = [t \in Threads |-> NULL]

LEMMA ListAlwaysSafe == TSpec => []ListSafe
<1>1. Known /\ TInit => ListSafe
  <2> SUFFICES ASSUME Known, TInit, testnum = 4
               PROVE  ListInv
    BY DEF TInit, SInit, ListSafe
  <2>1. Coming("test", Appending) \in Nat
    BY ComingIsNumber DEF Known, MonitorKnown, AtTest
  <2>2. list = << >> /\ item = [t \in Threads |-> NULL] /\ pc = [t \in Threads |-> "none"]
    BY DEF TInit, SInit, MInit
  <2> QED
    BY <2>1, <2>2 DEF ListInv, STypeOK
<1>2. Known /\ ListSafe /\ [TNext]_tvars => ListSafe'
  <2> SUFFICES ASSUME Known, ListSafe, [TNext]_tvars
               PROVE  ListSafe'
    OBVIOUS
  <2>1. UNCHANGED testnum
    BY DEF TNext, DLListTest, DLListTest3, TableTest, NextCall, testVars, tvars
  <2>2. CASE testnum = 4
    <3>1. [SNext]_svars
      BY <2>2 DEF TNext, tvars, svars, listVars
    <3>2. KTypeOK /\ Agree /\ pc \in [Threads -> ListPoints]
      BY <2>2 DEF Known, MonitorKnown, InPlace, PointsOf
    <3> QED
      BY <2>1, <2>2, <3>1, <3>2, ListStaysCovered DEF ListSafe
  <2>3. CASE testnum # 4
    <3>1. UNCHANGED listVars
      BY <2>3 DEF TNext, tvars
    <3> QED
      BY <2>1, <2>3, <3>1 DEF ListSafe, listVars
  <2> QED
    BY <2>2, <2>3
<1> QED
  BY <1>1, <1>2, AlwaysKnown, PTL DEF TSpec

\* The list always holds items, and a thread that has come out of Remove() has one:
\* the assertion of synchlist.cc:83 is true.
THEOREM ListTyping == TSpec => []STypeOK
<1>1. Known /\ ListSafe => STypeOK
  <2> SUFFICES ASSUME Known, ListSafe, testnum # 4
               PROVE  STypeOK
    BY DEF ListSafe, ListInv
  <2>1. \A t \in Threads : pc[t] # "removed"
    BY DEF Known, InPlace, PointsOf, BufferPoints, TablePoints
  <2> QED
    BY <2>1 DEF ListSafe, STypeOK
<1> QED
  BY <1>1, AlwaysKnown, ListAlwaysSafe, PTL

\* No wakeup is lost across Append() and Remove(): a machine that halts leaves nobody
\* in Remove() beside an item.
THEOREM NoRemoverStranded == TSpec => []NoStrandedRemover
<1>1. Known /\ ListSafe => NoStrandedRemover
  <2> SUFFICES ASSUME Known, ListSafe, mode = "Halted",
                      NEW t \in Threads, pc[t] \in {"remove", "test"}
               PROVE  list = << >>
    BY DEF NoStrandedRemover
  <2>1. testnum = 4 /\ MonitorKnown
    BY DEF Known, InPlace, PointsOf, BufferPoints, TablePoints
  <2>2. pc[t] = "test"
    BY <2>1 DEF MonitorKnown, OnlyWaitersLeft, AtTest
  <2>3. Coming("test", Appending) = 0
    BY <2>1, <2>2, NothingComing DEF AtTest, Appending, Within
  <2> QED
    BY <2>1, <2>3 DEF ListSafe, ListInv, STypeOK
<1> QED
  BY <1>1, AlwaysKnown, ListAlwaysSafe, PTL

\* What a thread has asked of the list.
Asked(p) ==
    CASE p = "append" -> "append"
      [] p \in {"appended", "yielded", "signalled", "removed"} -> "done"
      [] p \in {"remove", "test"} -> "remove"
      [] OTHER -> "none"

\* The synchronized list implements the abstract queue, in every test.
THEOREM ListIsQueue == TSpec => ImplementsQueue
<1>1. TInit => Queue!AInit
  BY DEF TInit, SInit, MInit, Queue!AInit
<1>2. Known /\ ListSafe /\ [TNext]_tvars => [Queue!ANext]_(Queue!avars)
  <2> DEFINE asked == [t \in Threads |-> Asked(pc[t])]
  <2> SUFFICES ASSUME Known, ListSafe, [TNext]_tvars
               PROVE  \/ UNCHANGED << list, asked, item >>
                      \/ Queue!ANext
    BY DEF Queue!avars, Asked
  <2>0. pc \in [Threads -> PointsOf(testnum)] /\ pc' \in [Threads -> PointsOf(testnum)]
        /\ testnum \in {0, 3, 4, 5, 6}
    <3>1. InPlace' /\ UNCHANGED testnum
      BY EverybodyStaysInPlace
         DEF Known, TNext, DLListTest, DLListTest3, TableTest, NextCall, testVars, tvars
    <3> QED
      BY <3>1 DEF Known, InPlace
  <2>1. CASE testnum # 4
    <3>1. \A t \in Threads : asked[t] = "none" /\ asked'[t] = "none"
      BY <2>0, <2>1 DEF PointsOf, BufferPoints, TablePoints, Asked
    <3>2. UNCHANGED asked /\ UNCHANGED listVars
      BY <2>1, <3>1 DEF TNext, tvars
    <3> QED
      BY <3>2 DEF listVars
  <2>2. ASSUME testnum = 4, SNext
        PROVE  \/ UNCHANGED << list, asked, item >>
               \/ Queue!ANext
    <3>1. ListInv /\ pc \in [Threads -> ListPoints] /\ pc' \in [Threads -> ListPoints]
          /\ item \in [Threads -> Items \cup {NULL}]
      BY <2>0, <2>2 DEF ListSafe, ListInv, STypeOK, PointsOf
\* One thread moves on, or none.
    <3>2. ASSUME UNCHANGED pc
          PROVE  UNCHANGED asked
      BY <3>2
    <3>3. ASSUME NEW t \in Threads, NEW q \in ListPoints, pc' = [pc EXCEPT ![t] = q]
          PROVE  asked' = [asked EXCEPT ![t] = Asked(q)]
      BY <3>1, <3>3
    <3>4. \A t \in Threads : asked[t] = Asked(pc[t])
      OBVIOUS
    <3>5. Queue!ANext <=>
            \E t \in Threads :
              /\ asked'[t] # asked[t]
              /\ \/ \E x \in Items : /\ asked[t] = "none"
                                     /\ asked' = [asked EXCEPT ![t] = "append"]
                                     /\ item' = [item EXCEPT ![t] = x]
                                     /\ UNCHANGED list
                 \/ /\ asked[t] = "append"
                    /\ list' = Append(list, item[t])
                    /\ asked' = [asked EXCEPT ![t] = "done"]
                    /\ UNCHANGED item
                 \/ /\ asked[t] = "none"
                    /\ asked' = [asked EXCEPT ![t] = "remove"]
                    /\ UNCHANGED << list, item >>
                 \/ /\ asked[t] = "remove"
                    /\ list # << >>
                    /\ item' = [item EXCEPT ![t] = Head(list)]
                    /\ list' = Tail(list)
                    /\ asked' = [asked EXCEPT ![t] = "done"]
                 \/ /\ asked[t] = "done"
                    /\ asked' = [asked EXCEPT ![t] = "none"]
                    /\ item' = [item EXCEPT ![t] = NULL]
                    /\ UNCHANGED list
      BY Zenon DEF Asked, Queue!ANext, Queue!CallAppend, Queue!DoAppend, Queue!CallRemove, Queue!DoRemove,
         Queue!Return
    <3>6. ASSUME NEW t \in Threads, NEW q \in ListPoints, pc' = [pc EXCEPT ![t] = q],
                 UNCHANGED << list, item >>, Asked(q) = Asked(pc[t])
          PROVE  UNCHANGED << list, asked, item >>
      BY <3>1, <3>6
    <3>7. asked \in [Threads -> {"append", "remove", "done", "none"}]
      BY DEF Asked
    <3> HIDE DEF asked
    <3> USE DEF ListPoints, Asked
    <3>8. ASSUME NEW t \in Threads, NEW x \in Items, AppendCall(t, x)
          PROVE  Queue!ANext
      <4>1. pc[t] = "none" /\ pc' = [pc EXCEPT ![t] = "append"]
        BY <3>8, PointsMove DEF AppendCall
      <4>2. asked[t] = "none" /\ asked' = [asked EXCEPT ![t] = "append"]
        BY <3>3, <3>4, <4>1
      <4> QED
        BY <3>5, <3>7, <3>8, <4>2 DEF AppendCall
    <3>9. ASSUME NEW t \in Threads, AppendItem(t)
          PROVE  Queue!ANext
      <4>1. pc[t] = "append" /\ pc' = [pc EXCEPT ![t] = "appended"]
        BY <3>9, PointsMove DEF AppendItem
      <4>2. asked[t] = "append" /\ asked' = [asked EXCEPT ![t] = "done"]
        BY <3>3, <3>4, <4>1
      <4> QED
        BY <3>5, <3>7, <3>9, <4>2 DEF AppendItem
    <3>10. ASSUME NEW t \in Threads, RemoveCall(t)
           PROVE  Queue!ANext
      <4>1. pc[t] = "none" /\ pc' = [pc EXCEPT ![t] = "remove"]
        BY <3>10, PointsMove DEF RemoveCall
      <4>2. asked[t] = "none" /\ asked' = [asked EXCEPT ![t] = "remove"]
        BY <3>3, <3>4, <4>1
      <4> QED
        BY <3>5, <3>7, <3>10, <4>2 DEF RemoveCall
    <3>11. ASSUME NEW t \in Threads, RemoveItem(t)
           PROVE  Queue!ANext
      <4>1. pc[t] = "test" /\ pc' = [pc EXCEPT ![t] = "removed"]
        BY <3>11, PointsMove DEF RemoveItem, Proceeds
      <4>2. asked[t] = "remove" /\ asked' = [asked EXCEPT ![t] = "done"]
        BY <3>3, <3>4, <4>1
      <4> QED
        BY <3>5, <3>7, <3>11, <4>2 DEF RemoveItem
    <3>12. ASSUME NEW t \in Threads, AppendReturn(t) \/ RemoveReturn(t)
           PROVE  Queue!ANext
      <4>1. pc[t] \in {"signalled", "removed"} /\ pc' = [pc EXCEPT ![t] = "none"]
        BY <3>12, PointsMove DEF AppendReturn, RemoveReturn
      <4>2. asked[t] = "done" /\ asked' = [asked EXCEPT ![t] = "none"]
        BY <3>3, <3>4, <4>1
      <4> QED
        BY <3>5, <3>7, <3>12, <4>2 DEF AppendReturn, RemoveReturn
    <3>13. ASSUME NEW t \in Threads,
                  \/ AppendYield(t) \/ AppendSignal(t) \/ RemoveEnter(t)
                  \/ MapcarCall(t) \/ MapcarEnter(t) \/ MapcarReturn(t)
           PROVE  UNCHANGED << list, asked, item >>
      <4>1. /\ UNCHANGED << list, item >>
            /\ \E q \in ListPoints : pc' = [pc EXCEPT ![t] = q] /\ Asked(q) = Asked(pc[t])
        BY <3>13 DEF AppendYield, AppendSignal, RemoveEnter, MapcarCall, MapcarEnter, MapcarReturn,
           Calls, Enters, Signals, Leaves, Moves
      <4> QED
        BY <3>6, <4>1
    <3>14. ASSUME NEW t \in Threads, AppendSignalReturn(t) \/ RemoveWait(t) \/ RemoveWaits(t)
           PROVE  UNCHANGED << list, asked, item >>
      BY <3>2, <3>14
         DEF AppendSignalReturn, RemoveWait, RemoveWaits, SignalReturns, StartsWait, Waits
    <3>15. ASSUME (\E t \in Threads : Acquiring(t) \/ OutsideStep(t)) \/ MMachineStep,
                  UNCHANGED << list, item >>
           PROVE  UNCHANGED << list, asked, item >>
      BY <3>2, <3>15 DEF Acquiring, OutsideStep, MMachineStep
    <3> QED
      BY <2>2, <3>8, <3>9, <3>10, <3>11, <3>12, <3>13, <3>14, <3>15
         DEF SNext, AppendStep, RemoveStep, MapcarStep
  <2>3. CASE UNCHANGED tvars
    BY <2>3 DEF tvars, mvars, listVars
  <2> QED
    BY <2>1, <2>2, <2>3 DEF TNext
<1> QED
  BY <1>1, <1>2, AlwaysKnown, ListAlwaysSafe, PTL DEF TSpec, ImplementsQueue, Queue!ASpec

-----------------------------------------------------------------------------
(* BoundedBuffer.                                                          *)

\* An index that runs over the end of the ring once.
LEMMA Wrap ==
    ASSUME NEW x \in Nat, x < 2 * maxSize
    PROVE  x % maxSize = IF x < maxSize THEN x ELSE x - maxSize
BY BoundedBufferAssumption

\* The places of the ring, counted from one of them.
LEMMA OffsetOfPlace ==
    ASSUME NEW h \in 0..maxSize - 1, NEW k \in 0..maxSize - 1
    PROVE  /\ (h + k) % maxSize \in 0..maxSize - 1
           /\ Offset((h + k) % maxSize, h) = k
<1> DEFINE p == (h + k) % maxSize
<1>1. p = IF h + k < maxSize THEN h + k ELSE h + k - maxSize
  <2> DEFINE x == h + k
  <2>1. x \in Nat /\ x < 2 * maxSize
    BY BoundedBufferAssumption
  <2> HIDE DEF x
  <2>2. x % maxSize = IF x < maxSize THEN x ELSE x - maxSize
    BY <2>1, Wrap
  <2> QED
    BY <2>2, BoundedBufferAssumption DEF x
<1> HIDE DEF p
<1>2. p \in 0..maxSize - 1
  BY <1>1, BoundedBufferAssumption
<1>3. (p - h + maxSize) % maxSize = k
  <2>1. p - h + maxSize \in Nat /\ p - h + maxSize < 2 * maxSize
    BY <1>1, <1>2, BoundedBufferAssumption
  <2> QED
    BY <1>1, <2>1, Wrap, BoundedBufferAssumption
<1> QED
  BY <1>2, <1>3 DEF Offset, p

\* Counting from a place k further on.
LEMMA OffsetMoves ==
    ASSUME NEW i \in 0..maxSize - 1, NEW h \in 0..maxSize - 1, NEW k \in 0..maxSize
    PROVE  /\ Offset(i, h) \in 0..maxSize - 1
           /\ Offset(i, (h + k) % maxSize) =
                IF Offset(i, h) >= k THEN Offset(i, h) - k ELSE Offset(i, h) - k + maxSize
<1> USE BoundedBufferAssumption
<1> DEFINE o == Offset(i, h)
           g == (h + k) % maxSize
           og == Offset(i, g)
<1>1. o = IF i < h THEN i - h + maxSize ELSE i - h
  <2>1. i - h + maxSize \in Nat /\ i - h + maxSize < 2 * maxSize
    OBVIOUS
  <2> QED
    BY <2>1, Wrap DEF Offset
<1>2. g = IF h + k < maxSize THEN h + k ELSE h + k - maxSize
  <2> DEFINE x == h + k
  <2>1. x \in Nat /\ x < 2 * maxSize
    OBVIOUS
  <2> HIDE DEF x
  <2>2. x % maxSize = IF x < maxSize THEN x ELSE x - maxSize
    BY <2>1, Wrap
  <2> QED
    BY <2>2 DEF x
<1> HIDE DEF g
<1>3. g \in 0..maxSize - 1
  BY <1>2
<1>4. og = IF i < g THEN i - g + maxSize ELSE i - g
  <2> DEFINE x == i - g + maxSize
  <2>1. x \in Nat /\ x < 2 * maxSize
    BY <1>3
  <2> HIDE DEF x
  <2>2. x % maxSize = IF x < maxSize THEN x ELSE x - maxSize
    BY <2>1, Wrap
  <2>3. og = x % maxSize
    BY DEF x, Offset
  <2> QED
    BY <1>3, <2>2, <2>3 DEF x
<1> HIDE DEF o, og
<1>5. o \in 0..maxSize - 1 /\ og = IF o >= k THEN o - k ELSE o - k + maxSize
  BY <1>1, <1>2, <1>4
<1> QED
  BY <1>5 DEF o, og, g

\* What a thread writes at a time fits into the buffer.
LEMMA ChunksFit ==
    /\ \A d \in Chunks : /\ Len(d) \in 1..maxSize
                         /\ d \in [1..Len(d) -> Bytes]
                         /\ d \in Seq(Bytes)
    /\ Sizes \subseteq 1..maxSize
<1>1. ASSUME NEW d \in Chunks
      PROVE  Len(d) \in 1..maxSize /\ d \in [1..Len(d) -> Bytes] /\ d \in Seq(Bytes)
  <2>1. PICK n \in 1..maxSize : d \in [1..n -> Bytes]
    BY BoundedBufferAssumption
  <2>2. n \in Nat /\ d \in Seq(Bytes)
    BY <2>1, SeqDef, BoundedBufferAssumption
  <2>3. Len(d) = n
    BY <2>1, <2>2, LenProperties
  <2> QED
    BY <2>1, <2>2, <2>3
<1> QED
  BY <1>1 DEF Sizes

\* The ring, and what the threads work on in their operations.
RingInv ==
    /\ BTypeOK
    /\ RingConsistent
    /\ program \in [Threads -> Tasks]
    /\ \A t \in Threads :
         /\ pc[t] # "none" => size[t] = program[t].size
         /\ pc[t] \in {"write", "room"} => data[t] \in Chunks /\ size[t] = Len(data[t])

\* Bytes are written behind those that are used.
LEMMA WriteKeepsRing ==
    ASSUME RingInv, NEW t \in Threads, WriteBytes(t)
    PROVE  RingInv'
<1> USE BoundedBufferAssumption
<1> DEFINE n == size[t]
           d == data[t]
<1>1. /\ buffer \in [0..maxSize - 1 -> Bytes \cup {NULL}]
      /\ head \in 0..maxSize - 1 /\ tail \in 0..maxSize - 1 /\ usedSize \in 0..maxSize
      /\ pc[t] = "room" /\ pc' = [pc EXCEPT ![t] = "written"]
  BY DEF RingInv, BTypeOK, WriteBytes, Works, Moves
<1>2. /\ n \in 1..maxSize /\ d \in [1..n -> Bytes]
      /\ usedSize + n \in 0..maxSize
  BY <1>1, ChunksFit DEF RingInv, BTypeOK, WriteBytes
<1>3. /\ tail = (head + usedSize) % maxSize
      /\ \A i \in 0..maxSize - 1 : Offset(i, head) < usedSize => buffer[i] \in Bytes
  BY <1>1 DEF RingInv, RingConsistent
<1>4. \A i \in 0..maxSize - 1 :
        /\ Offset(i, head) \in 0..maxSize - 1
        /\ Offset(i, tail) = IF Offset(i, head) >= usedSize THEN Offset(i, head) - usedSize
                             ELSE Offset(i, head) - usedSize + maxSize
  <2> SUFFICES ASSUME NEW i \in 0..maxSize - 1
               PROVE  /\ Offset(i, head) \in 0..maxSize - 1
                      /\ Offset(i, tail) =
                           IF Offset(i, head) >= usedSize THEN Offset(i, head) - usedSize
                           ELSE Offset(i, head) - usedSize + maxSize
    OBVIOUS
  <2>1. head \in 0..maxSize - 1 /\ usedSize \in 0..maxSize
    BY <1>1
  <2> QED
    BY <1>3, <2>1, OffsetMoves
<1>5. /\ buffer' = [i \in 0..maxSize - 1 |->
                      IF Offset(i, tail) < n THEN d[Offset(i, tail) + 1] ELSE buffer[i]]
      /\ tail' = (tail + n) % maxSize /\ usedSize' = usedSize + n
      /\ UNCHANGED << head, data, size, program >>
  BY <1>1 DEF WriteBytes
<1> HIDE DEF n, d
<1>6. \A i \in 0..maxSize - 1 : Offset(i, tail) < n => d[Offset(i, tail) + 1] \in Bytes
  <2> SUFFICES ASSUME NEW i \in 0..maxSize - 1, Offset(i, tail) < n
               PROVE  d[Offset(i, tail) + 1] \in Bytes
    OBVIOUS
  <2> DEFINE o == Offset(i, tail)
  <2>1. o \in Nat
    <3>1. tail \in 0..maxSize - 1
      BY <1>1
    <3> QED
      BY <3>1, OffsetMoves
  <2> HIDE DEF o
  <2>2. o < n
    BY DEF o
  <2>3. o + 1 \in 1..n
    BY <1>2, <2>1, <2>2
  <2> QED
    BY <1>2, <2>3 DEF o
<1>7. buffer' \in [0..maxSize - 1 -> Bytes \cup {NULL}]
  BY <1>1, <1>5, <1>6
<1>8. \A i \in 0..maxSize - 1 : Offset(i, head) < usedSize + n => buffer'[i] \in Bytes
  <2> SUFFICES ASSUME NEW i \in 0..maxSize - 1, Offset(i, head) < usedSize + n
               PROVE  buffer'[i] \in Bytes
    OBVIOUS
  <2>1. CASE Offset(i, tail) < n
    BY <1>5, <1>6, <2>1
  <2>2. CASE ~(Offset(i, tail) < n)
    <3>1. Offset(i, head) < usedSize
      <4>1. /\ Offset(i, head) \in Int
            /\ Offset(i, head) >= usedSize => Offset(i, tail) = Offset(i, head) - usedSize
        BY <1>4
      <4>2. n \in Int /\ usedSize \in Int
        BY <1>1, <1>2
      <4> QED
        BY <2>2, <4>1, <4>2
    <3> QED
      BY <1>3, <1>5, <2>2, <3>1
  <2> QED
    BY <2>1, <2>2
<1>9. tail' = (head + (usedSize + n)) % maxSize
  <2> DEFINE x == head + usedSize
             y == tail + n
             z == head + (usedSize + n)
  <2>1. /\ x \in Nat /\ x < 2 * maxSize
        /\ tail = IF x < maxSize THEN x ELSE x - maxSize
    <3>1. x \in Nat /\ x < 2 * maxSize
      BY <1>1
    <3> HIDE DEF x
    <3>2. x % maxSize = IF x < maxSize THEN x ELSE x - maxSize
      BY <3>1, Wrap
    <3> QED
      BY <1>3, <3>1, <3>2 DEF x
  <2>2. y \in Nat /\ y < 2 * maxSize /\ z \in Nat /\ z < 2 * maxSize
    BY <1>1, <1>2
  <2>3. z = y \/ z = y + maxSize
    BY <1>1, <1>2, <2>1
  <2>4. tail' = y % maxSize
    BY <1>5
  <2> HIDE DEF x, y, z
  <2>5. /\ y % maxSize = IF y < maxSize THEN y ELSE y - maxSize
        /\ z % maxSize = IF z < maxSize THEN z ELSE z - maxSize
    BY <2>2, Wrap
  <2>6. y % maxSize = z % maxSize
    BY <2>2, <2>3, <2>5
  <2> QED
    BY <2>4, <2>6 DEF z
<1>10. tail' \in 0..maxSize - 1
  BY <1>1, <1>2, <1>9
<1>11. BTypeOK'
  BY <1>2, <1>5, <1>7, <1>10 DEF RingInv, BTypeOK
<1>12. RingConsistent'
  BY <1>5, <1>7, <1>8, <1>9 DEF RingConsistent, Offset
<1> QED
  BY <1>1, <1>5, <1>11, <1>12 DEF RingInv

\* Bytes are read from the front of those that are used.
LEMMA ReadKeepsRing ==
    ASSUME RingInv, NEW t \in Threads, ReadBytes(t)
    PROVE  RingInv'
<1> USE BoundedBufferAssumption
<1> DEFINE n == size[t]
<1>1. /\ buffer \in [0..maxSize - 1 -> Bytes \cup {NULL}]
      /\ head \in 0..maxSize - 1 /\ tail \in 0..maxSize - 1 /\ usedSize \in 0..maxSize
      /\ pc[t] = "bytes" /\ pc' = [pc EXCEPT ![t] = "taken"]
      /\ data \in [Threads -> UNION {[1..k -> Bytes] : k \in 0..maxSize}]
  BY DEF RingInv, BTypeOK, ReadBytes, Works, Moves
<1>2. n \in 1..maxSize /\ usedSize - n \in 0..maxSize
  <2>1. n \in Sizes
    BY <1>1 DEF RingInv, Tasks
  <2>2. n \in 1..maxSize
    BY <2>1, ChunksFit
  <2>3. usedSize - n >= 0
    BY DEF ReadBytes
  <2> HIDE DEF n
  <2> QED
    BY <1>1, <2>2, <2>3
<1>3. /\ tail = (head + usedSize) % maxSize
      /\ \A i \in 0..maxSize - 1 : Offset(i, head) < usedSize => buffer[i] \in Bytes
  BY <1>1 DEF RingInv, RingConsistent
<1>4. /\ data' = [data EXCEPT ![t] = [i \in 1..n |-> buffer[(head + i - 1) % maxSize]]]
      /\ head' = (head + n) % maxSize /\ usedSize' = usedSize - n
      /\ UNCHANGED << buffer, tail, size, program >>
  BY DEF ReadBytes
<1> HIDE DEF n
<1>5. \A i \in 0..maxSize - 1 :
        /\ Offset(i, head) \in 0..maxSize - 1
        /\ Offset(i, head') = IF Offset(i, head) >= n THEN Offset(i, head) - n
                              ELSE Offset(i, head) - n + maxSize
  <2> SUFFICES ASSUME NEW i \in 0..maxSize - 1
               PROVE  /\ Offset(i, head) \in 0..maxSize - 1
                      /\ Offset(i, (head + n) % maxSize) =
                           IF Offset(i, head) >= n THEN Offset(i, head) - n
                           ELSE Offset(i, head) - n + maxSize
    BY <1>4
  <2>1. n \in 0..maxSize
    BY <1>2
  <2> QED
    BY <1>1, <2>1, OffsetMoves
<1>6. head' \in 0..maxSize - 1
  BY <1>1, <1>2, <1>4
<1>7. \A i \in 0..maxSize - 1 : Offset(i, head') < usedSize' => buffer'[i] \in Bytes
  <2> SUFFICES ASSUME NEW i \in 0..maxSize - 1, Offset(i, head') < usedSize - n
               PROVE  buffer[i] \in Bytes
    BY <1>4
  <2>1. Offset(i, head) < usedSize
    BY <1>1, <1>2, <1>5, SMTT(30)
  <2> QED
    BY <1>3, <2>1
<1>8. \A i \in 1..n : buffer[(head + i - 1) % maxSize] \in Bytes
  <2> SUFFICES ASSUME NEW i \in 1..n
               PROVE  buffer[(head + i - 1) % maxSize] \in Bytes
    OBVIOUS
  <2> DEFINE k == i - 1
             p == (head + k) % maxSize
  <2>1. k \in 0..maxSize - 1 /\ k < usedSize /\ head + i - 1 = head + k
    BY <1>1, <1>2
  <2> HIDE DEF k
  <2>2. p \in 0..maxSize - 1 /\ Offset(p, head) = k
    BY <1>1, <2>1, OffsetOfPlace
  <2> HIDE DEF p
  <2>3. buffer[p] \in Bytes
    BY <1>1, <1>3, <2>1, <2>2
  <2> QED
    BY <2>1, <2>3 DEF p
<1>9. data' \in [Threads -> UNION {[1..k -> Bytes] : k \in 0..maxSize}]
  <2>1. [i \in 1..n |-> buffer[(head + i - 1) % maxSize]]
          \in UNION {[1..k -> Bytes] : k \in 0..maxSize}
    BY <1>2, <1>8
  <2> QED
    BY <1>1, <1>4, <2>1
<1>10. tail' = (head' + usedSize') % maxSize
  <2> DEFINE x == head + n
             y == head' + (usedSize - n)
             z == head + usedSize
  <2>1. /\ x \in Nat /\ x < 2 * maxSize
        /\ head' = IF x < maxSize THEN x ELSE x - maxSize
    <3>1. x \in Nat /\ x < 2 * maxSize
      BY <1>1, <1>2
    <3> HIDE DEF x
    <3>2. x % maxSize = IF x < maxSize THEN x ELSE x - maxSize
      BY <3>1, Wrap
    <3> QED
      BY <1>4, <3>1, <3>2 DEF x
  <2>2. y \in Nat /\ y < 2 * maxSize /\ z \in Nat /\ z < 2 * maxSize
    <3>1. \A a \in 0..maxSize - 1, b \in 0..maxSize : a + b \in Nat /\ a + b < 2 * maxSize
      OBVIOUS
    <3> QED
      BY <1>1, <1>2, <1>6, <3>1
  <2>3. z = y \/ z = y + maxSize
    BY <1>1, <1>2, <1>6, <2>1
  <2>4. tail' = z % maxSize
    BY <1>3, <1>4
  <2> HIDE DEF x, y, z
  <2>5. /\ y % maxSize = IF y < maxSize THEN y ELSE y - maxSize
        /\ z % maxSize = IF z < maxSize THEN z ELSE z - maxSize
    BY <2>2, Wrap
  <2>6. y % maxSize = z % maxSize
    BY <2>2, <2>3, <2>5
  <2> QED
    BY <1>4, <2>4, <2>6 DEF y
<1>11. BTypeOK'
  BY <1>1, <1>2, <1>4, <1>6, <1>9 DEF RingInv, BTypeOK
<1>12. RingConsistent'
  <2>1. DOMAIN buffer' = 0..maxSize - 1
    BY <1>1, <1>4
  <2> QED
    BY <1>7, <1>10, <2>1 DEF RingConsistent, Offset
<1> QED
  BY <1>1, <1>4, <1>11, <1>12 DEF RingInv

LEMMA RingStaysRight ==
    ASSUME pc \in [Threads -> BufferPoints], RingInv, [BNext]_bvars
    PROVE  RingInv'
<1> USE DEF BufferPoints
<1>1. /\ size \in [Threads -> Sizes \cup {0}]
      /\ data \in [Threads -> UNION {[1..n -> Bytes] : n \in 0..maxSize}]
      /\ program \in [Threads -> Tasks]
      /\ \A t \in Threads :
           /\ pc[t] # "none" => size[t] = program[t].size
           /\ pc[t] \in {"write", "room"} => data[t] \in Chunks /\ size[t] = Len(data[t])
  BY DEF RingInv, BTypeOK
\* What is left to show of the steps that leave the ring alone.
<1>2. ASSUME UNCHANGED << bufferVars, program >>,
             size' \in [Threads -> Sizes \cup {0}],
             data' \in [Threads -> UNION {[1..n -> Bytes] : n \in 0..maxSize}],
             \A t \in Threads :
               /\ pc'[t] # "none" => size'[t] = program[t].size
               /\ pc'[t] \in {"write", "room"} => data'[t] \in Chunks /\ size'[t] = Len(data'[t])
      PROVE  RingInv'
  <2>1. UNCHANGED << buffer, head, tail, usedSize, program >>
    BY <1>2 DEF bufferVars
  <2>2. RingConsistent'
    BY <2>1 DEF RingInv, RingConsistent, Offset
  <2>3. BTypeOK'
    BY <1>2, <2>1 DEF RingInv, BTypeOK
  <2> QED
    BY <1>1, <1>2, <2>1, <2>2, <2>3 DEF RingInv
<1>3. ASSUME NEW t \in Threads, NEW d \in Chunks,
             program[t] = [op |-> "write", size |-> Len(d)], WriteCall(t, d)
      PROVE  RingInv'
  <2>1. pc[t] = "none" /\ pc' = [pc EXCEPT ![t] = "write"]
    BY <1>3, PointsMove DEF WriteCall
  <2>2. Len(d) \in Sizes /\ d \in UNION {[1..n -> Bytes] : n \in 0..maxSize}
    BY ChunksFit, BoundedBufferAssumption DEF Sizes
  <2>3. /\ data' = [data EXCEPT ![t] = d] /\ size' = [size EXCEPT ![t] = Len(d)]
        /\ UNCHANGED << bufferVars, program >> /\ program[t].size = Len(d)
    BY <1>3 DEF WriteCall
  <2> QED
    BY <1>1, <1>2, <2>1, <2>2, <2>3
<1>4. ASSUME NEW t \in Threads, NEW n \in Sizes,
             program[t] = [op |-> "read", size |-> n], ReadCall(t, n)
      PROVE  RingInv'
  <2>1. pc[t] = "none" /\ pc' = [pc EXCEPT ![t] = "read"]
    BY <1>4, PointsMove DEF ReadCall
  <2>2. /\ size' = [size EXCEPT ![t] = n] /\ UNCHANGED data
        /\ UNCHANGED << bufferVars, program >> /\ program[t].size = n
    BY <1>4 DEF ReadCall
  <2> QED
    BY <1>1, <1>2, <2>1, <2>2
<1>5. ASSUME NEW t \in Threads, Return(t)
      PROVE  RingInv'
  <2>1. pc' = [pc EXCEPT ![t] = "none"]
    BY <1>5, PointsMove DEF Return
  <2>2. << >> \in UNION {[1..n -> Bytes] : n \in 0..maxSize}
    <3>1. << >> \in [1..0 -> Bytes] /\ 0 \in 0..maxSize
      BY BoundedBufferAssumption
    <3> QED
      BY <3>1
  <2>3. /\ data' = [data EXCEPT ![t] = << >>] /\ size' = [size EXCEPT ![t] = 0]
        /\ UNCHANGED << bufferVars, program >>
    BY <1>5 DEF Return
  <2> QED
    BY <1>1, <1>2, <2>1, <2>2, <2>3
\* The steps that only take a thread from one point of an operation to another.
<1>6. ASSUME UNCHANGED << bufferVars, data, size, program >>,
             \/ UNCHANGED pc
             \/ \E t \in Threads, q \in BufferPoints :
                  /\ pc' = [pc EXCEPT ![t] = q] /\ pc[t] # "none"
                  /\ q = "room" => pc[t] = "write"
                  /\ q # "write"
      PROVE  RingInv'
  BY <1>1, <1>2, <1>6
<1>7. ASSUME NEW t \in Threads,
             WriteEnter(t) \/ WriteSignal(t) \/ ReadEnter(t) \/ ReadSignal(t)
      PROVE  RingInv'
  <2>1. /\ UNCHANGED << bufferVars, data, size, program >>
        /\ \E q \in {"room", "done", "bytes"} :
             /\ pc' = [pc EXCEPT ![t] = q] /\ pc[t] # "none" /\ (q = "room" => pc[t] = "write")
    BY <1>7 DEF WriteEnter, WriteSignal, ReadEnter, ReadSignal, Enters, Signals, Moves
  <2> QED
    BY <1>6, <2>1
<1>8. ASSUME NEW t \in Threads,
             WriteWait(t) \/ ReadWait(t) \/ Waiting(t) \/ SignalDone(t)
      PROVE  RingInv'
  BY <1>6, <1>8 DEF WriteWait, ReadWait, Waiting, SignalDone, StartsWait, Waits, SignalReturns
<1>9. ASSUME (\E t \in Threads : Acquiring(t) \/ OutsideStep(t)) \/ MMachineStep,
             UNCHANGED << bufferVars, data, size, program >>
      PROVE  RingInv'
  BY <1>6, <1>9 DEF Acquiring, OutsideStep, MMachineStep
<1>10. CASE UNCHANGED bvars
  BY <1>6, <1>10 DEF bvars, mvars
<1> QED
  BY <1>3, <1>4, <1>5, <1>7, <1>8, <1>9, <1>10, WriteKeepsRing, ReadKeepsRing
     DEF BNext, WriteStep, ReadStep

\* While somebody sleeps in a loop of the buffer, what there is falls short of
\* what the sleepers and those on the way to the loop want: with one size for all
\* the threads that have been forked.
RingCovered ==
    OneSize => \A t \in Threads : condPhase[t] \in {"released", "waiting"} =>
        /\ pc[t] = "bytes" => usedSize < size[t] * (Coming("bytes", {"written"}) + 1)
        /\ pc[t] = "room" => maxSize - usedSize < size[t] * (Coming("room", {"taken"}) + 1)

\* One more thread on the way, or one less, is as many bytes more or less.
LEMMA Wanted ==
    ASSUME NEW n \in Nat \ {0}, NEW k \in Nat
    PROVE  /\ n * (k + 1) \in Nat
           /\ n * (k + 1) >= n
           /\ n * ((k + 1) + 1) = n * (k + 1) + n
           /\ n * ((k - 1) + 1) = n * (k + 1) - n
OBVIOUS

LEMMA RingStaysCovered ==
    ASSUME KTypeOK, QInv, Agree, CallersAlive, CallersAlive',
           pc \in [Threads -> BufferPoints], pc' \in [Threads -> BufferPoints],
           RingInv, RingInv', RingCovered, [BNext]_bvars
    PROVE  RingCovered'
<1> USE BoundedBufferAssumption, KernelAssumption
<1> DEFINE R == Coming("bytes", {"written"})
           W == Coming("room", {"taken"})
<1>1. /\ Alone("bytes") /\ Alone("room") /\ "bytes" \in AtTest /\ "room" \in AtTest
      /\ {"written"} \in SUBSET Within /\ {"taken"} \in SUBSET Within
      /\ CondOf("bytes") = empty /\ CondOf("room") = full
  BY DEF Alone, BufferPoints, CondOf, AtTest, Within
<1>2. R \in Nat /\ W \in Nat
  BY <1>1, ComingIsNumber
<1>3. Accounted("bytes", {"written"}) /\ Accounted("room", {"taken"})
  BY <1>1, ComingMoves
<1>4. ASSUME NEW t \in Threads
      PROVE  /\ Aside(t) => R' = R /\ W' = W
             /\ Enters(t, "write", "room") => R' = R /\ W' = W + 1
             /\ Enters(t, "read", "bytes") => R' = R + 1 /\ W' = W
             /\ Proceeds(t, "room", "written") => R' = R + 1 /\ W' = W - 1
             /\ Proceeds(t, "bytes", "taken") => R' = R - 1 /\ W' = W + 1
             /\ Signals(t, "written", "done", empty) => R' = R /\ W' = W
             /\ Signals(t, "taken", "done", full) => R' = R /\ W' = W
             /\ Leaves(t, "done") => R' = R /\ W' = W
             /\ InLock(t) /\ StartsWait(t, "room", full) => R' = R /\ W' = W - 1
             /\ InLock(t) /\ StartsWait(t, "bytes", empty) => R' = R - 1 /\ W' = W
  <2>1. /\ Aside(t) => R' = R
        /\ Enters(t, "write", "room") => R' = R
        /\ Enters(t, "read", "bytes") => R' = R + 1
        /\ Proceeds(t, "room", "written") => R' = R + 1
        /\ Proceeds(t, "bytes", "taken") => R' = R - 1
        /\ Signals(t, "written", "done", empty) => R' = R
        /\ Signals(t, "taken", "done", full) => R' = R
        /\ Leaves(t, "done") => R' = R
        /\ InLock(t) /\ StartsWait(t, "room", full) => R' = R
        /\ InLock(t) /\ StartsWait(t, "bytes", empty) => R' = R - 1
    BY <1>1, <1>2, <1>3 DEF Accounted, Entering, Within, AtTest, AtSignal, One
  <2>2. /\ Aside(t) => W' = W
        /\ Enters(t, "write", "room") => W' = W + 1
        /\ Enters(t, "read", "bytes") => W' = W
        /\ Proceeds(t, "room", "written") => W' = W - 1
        /\ Proceeds(t, "bytes", "taken") => W' = W + 1
        /\ Signals(t, "written", "done", empty) => W' = W
        /\ Signals(t, "taken", "done", full) => W' = W
        /\ Leaves(t, "done") => W' = W
        /\ InLock(t) /\ StartsWait(t, "room", full) => W' = W - 1
        /\ InLock(t) /\ StartsWait(t, "bytes", empty) => W' = W
    BY <1>1, <1>2, <1>3 DEF Accounted, Entering, Within, AtTest, AtSignal, One
  <2> QED
    BY <2>1, <2>2
<1> HIDE DEF R, W
<1> SUFFICES ASSUME OneSize', NEW u \in Threads, condPhase'[u] \in {"released", "waiting"},
                    pc'[u] # "none"
             PROVE  /\ pc'[u] = "bytes" => usedSize' < size'[u] * (R' + 1)
                    /\ pc'[u] = "room" => maxSize - usedSize' < size'[u] * (W' + 1)
  BY DEF RingCovered, R, W
\* The one size.
<1> DEFINE n == program[u].size
<1>5. /\ n \in 1..maxSize /\ n \in Nat \ {0}
      /\ usedSize \in Nat /\ maxSize \in Nat
      /\ program' = program
      /\ pc'[u] # "none" => size'[u] = n
      /\ \A t \in Threads : pc[t] # "none" => size[t] = n
      /\ OneSize
  <2>1. program' = program
    BY DEF BNext, WriteStep, ReadStep, WriteCall, WriteEnter, WriteWait, WriteBytes, WriteSignal,
       ReadCall, ReadEnter, ReadWait, ReadBytes, ReadSignal, Waiting, SignalDone, Return, bvars
  <2>2. program \in [Threads -> Tasks]
    BY DEF RingInv
  <2>3. \A t \in Threads : status[t] # "JUST_CREATED" =>
           status'[t] # "JUST_CREATED" /\ program[t].size = n
    <3>1. [MonitorNext]_mvars
      BY BufferSteps DEF bvars
    <3>2. status'[u] # "JUST_CREATED"
      BY DEF CallersAlive
    <3> QED
      BY <2>1, <3>1, <3>2, ForkedForGood DEF OneSize
  <2>4. OneSize
    BY <2>3 DEF OneSize
  <2>5. n \in Sizes
    BY <2>2 DEF Tasks
  <2>6. usedSize \in Nat
    BY DEF RingInv, BTypeOK
  <2>7. n \in 1..maxSize /\ n \in Nat \ {0}
    <3>1. n \in 1..maxSize /\ maxSize \in Nat
      BY <2>5, ChunksFit
    <3> HIDE DEF n
    <3> QED
      BY <3>1
  <2>8. pc'[u] # "none" => size'[u] = n
    BY <2>1 DEF RingInv
  <2>9. \A t \in Threads : pc[t] # "none" => size[t] = n
    BY <2>3 DEF RingInv, CallersAlive
  <2> QED
    BY <2>1, <2>6, <2>7, <2>8, <2>9, <2>4
<1> HIDE DEF n
<1>6. ASSUME condPhase[u] \in {"released", "waiting"}, pc'[u] = pc[u]
      PROVE  /\ pc'[u] = "bytes" => usedSize < n * (R + 1)
             /\ pc'[u] = "room" => maxSize - usedSize < n * (W + 1)
  BY <1>5, <1>6 DEF RingCovered, R, W
<1>7. /\ n * (R + 1) \in Nat /\ n * (W + 1) \in Nat
      /\ n * ((R + 1) + 1) = n * (R + 1) + n /\ n * ((W + 1) + 1) = n * (W + 1) + n
      /\ n * ((R - 1) + 1) = n * (R + 1) - n /\ n * ((W - 1) + 1) = n * (W + 1) - n
  BY <1>2, <1>5, Wanted
\* The steps that put nobody to sleep.
<1>8. ASSUME condPhase[u] \in {"released", "waiting"}, pc'[u] = pc[u],
             \/ usedSize' = usedSize /\ R' \in {R, R + 1} /\ W' \in {W, W + 1}
             \/ usedSize' = usedSize + n /\ R' = R + 1 /\ W' = W - 1
             \/ usedSize' = usedSize - n /\ R' = R - 1 /\ W' = W + 1
      PROVE  /\ pc'[u] = "bytes" => usedSize' < size'[u] * (R' + 1)
             /\ pc'[u] = "room" => maxSize - usedSize' < size'[u] * (W' + 1)
  <2>1. ASSUME pc'[u] = "bytes"
        PROVE  usedSize' < size'[u] * (R' + 1)
    <3>1. usedSize < n * (R + 1) /\ size'[u] = n
      BY <1>5, <1>6, <1>8, <2>1
    <3>2. CASE usedSize' = usedSize /\ R' = R
      BY <3>1, <3>2
    <3>3. CASE usedSize' = usedSize /\ R' = R + 1
      BY <1>5, <1>7, <3>1, <3>3
    <3>4. CASE usedSize' = usedSize + n /\ R' = R + 1
      BY <1>5, <1>7, <3>1, <3>4
    <3>5. CASE usedSize' = usedSize - n /\ R' = R - 1
      BY <1>5, <1>7, <3>1, <3>5
    <3> QED
      BY <1>8, <3>2, <3>3, <3>4, <3>5
  <2>2. ASSUME pc'[u] = "room"
        PROVE  maxSize - usedSize' < size'[u] * (W' + 1)
    <3>1. maxSize - usedSize < n * (W + 1) /\ size'[u] = n
      BY <1>5, <1>6, <1>8, <2>2
    <3>2. CASE usedSize' = usedSize /\ W' = W
      BY <3>1, <3>2
    <3>3. CASE usedSize' = usedSize /\ W' = W + 1
      BY <1>5, <1>7, <3>1, <3>3
    <3>4. CASE usedSize' = usedSize + n /\ W' = W - 1
      BY <1>5, <1>7, <3>1, <3>4
    <3>5. CASE usedSize' = usedSize - n /\ W' = W + 1
      BY <1>5, <1>7, <3>1, <3>5
    <3> QED
      BY <1>8, <3>2, <3>3, <3>4, <3>5
  <2> QED
    BY <2>1, <2>2
<1>9. ASSUME NEW t \in Threads,
             \/ Aside(t)
             \/ \E a, b, c : \/ Enters(t, a, b) \/ Signals(t, a, b, c) \/ Leaves(t, a)
                             \/ a \in Within \cup AtTest /\ Proceeds(t, a, b)
      PROVE  condPhase[u] \in {"released", "waiting"} /\ pc'[u] = pc[u]
  BY <1>9, SleepersStay
<1>10. ASSUME NEW t \in Threads, Aside(t), usedSize' = usedSize
       PROVE  /\ pc'[u] = "bytes" => usedSize' < size'[u] * (R' + 1)
              /\ pc'[u] = "room" => maxSize - usedSize' < size'[u] * (W' + 1)
  BY <1>4, <1>8, <1>9, <1>10
<1>11. ASSUME NEW t \in Threads, NEW d \in Chunks, WriteCall(t, d)
       PROVE  Aside(t) /\ usedSize' = usedSize
  BY <1>11 DEF WriteCall, Aside, Entering, bufferVars
<1>12. ASSUME NEW t \in Threads, NEW k \in Sizes, ReadCall(t, k)
       PROVE  Aside(t) /\ usedSize' = usedSize
  BY <1>12 DEF ReadCall, Aside, Entering, bufferVars
<1>13. ASSUME NEW t \in Threads, Waiting(t) \/ SignalDone(t)
       PROVE  Aside(t) /\ usedSize' = usedSize
  BY <1>13 DEF Waiting, SignalDone, Aside, bufferVars
<1>14. ASSUME UNCHANGED bvars \/ /\ (\E t \in Threads : Acquiring(t) \/ OutsideStep(t)) \/ MMachineStep
                                 /\ UNCHANGED << bufferVars, data, size, program >>
       PROVE  \E t \in Threads : Aside(t) /\ usedSize' = usedSize
  BY <1>14 DEF Aside, bufferVars, bvars
<1>15. ASSUME NEW t \in Threads, WriteEnter(t) \/ ReadEnter(t)
       PROVE  /\ pc'[u] = "bytes" => usedSize' < size'[u] * (R' + 1)
              /\ pc'[u] = "room" => maxSize - usedSize' < size'[u] * (W' + 1)
  <2>1. Enters(t, "write", "room") \/ Enters(t, "read", "bytes")
    BY <1>15 DEF WriteEnter, ReadEnter
  <2>2. usedSize' = usedSize
    BY <1>15 DEF WriteEnter, ReadEnter, bufferVars
  <2>3. condPhase[u] \in {"released", "waiting"} /\ pc'[u] = pc[u]
    BY <1>9, <2>1
  <2>4. R' \in {R, R + 1} /\ W' \in {W, W + 1}
    BY <1>4, <2>1
  <2> QED
    BY <1>8, <2>2, <2>3, <2>4
<1>16. ASSUME NEW t \in Threads, WriteSignal(t) \/ ReadSignal(t) \/ Return(t)
       PROVE  /\ pc'[u] = "bytes" => usedSize' < size'[u] * (R' + 1)
              /\ pc'[u] = "room" => maxSize - usedSize' < size'[u] * (W' + 1)
  <2>1. \/ Signals(t, "written", "done", empty) \/ Signals(t, "taken", "done", full)
        \/ Leaves(t, "done")
    BY <1>16 DEF WriteSignal, ReadSignal, Return
  <2>2. usedSize' = usedSize
    BY <1>16 DEF WriteSignal, ReadSignal, Return, bufferVars
  <2>3. condPhase[u] \in {"released", "waiting"} /\ pc'[u] = pc[u]
    BY <1>9, <2>1
  <2>4. R' = R /\ W' = W
    BY <1>4, <2>1
  <2> QED
    BY <1>8, <2>2, <2>3, <2>4
<1>17. ASSUME NEW t \in Threads, WriteBytes(t) \/ ReadBytes(t)
       PROVE  /\ pc'[u] = "bytes" => usedSize' < size'[u] * (R' + 1)
              /\ pc'[u] = "room" => maxSize - usedSize' < size'[u] * (W' + 1)
  <2>1. CASE WriteBytes(t)
    <3>1. Proceeds(t, "room", "written") /\ "room" \in Within \cup AtTest
      BY <2>1 DEF WriteBytes, Proceeds, AtTest
    <3>2. pc[t] = "room" /\ usedSize' = usedSize + size[t]
      BY <2>1 DEF WriteBytes, Works, Moves
    <3> QED
      BY <1>4, <1>5, <1>8, <1>9, <3>1, <3>2
  <2>2. CASE ReadBytes(t)
    <3>1. Proceeds(t, "bytes", "taken") /\ "bytes" \in Within \cup AtTest
      BY <2>2 DEF ReadBytes, Proceeds, AtTest
    <3>2. pc[t] = "bytes" /\ usedSize' = usedSize - size[t]
      BY <2>2 DEF ReadBytes, Works, Moves
    <3> QED
      BY <1>4, <1>5, <1>8, <1>9, <3>1, <3>2
  <2> QED
    BY <1>17, <2>1, <2>2
\* A thread goes to sleep for want of less than n, and it was on the way itself.
<1>18. ASSUME NEW t \in Threads, WriteWait(t)
       PROVE  /\ pc'[u] = "bytes" => usedSize' < size'[u] * (R' + 1)
              /\ pc'[u] = "room" => maxSize - usedSize' < size'[u] * (W' + 1)
  <2>1. /\ InLock(t) /\ pc[t] = "room" /\ UNCHANGED << pc, usedSize >>
        /\ maxSize - usedSize < size[t]
        /\ \A v \in Threads \ {t} : condPhase'[v] = condPhase[v]
        /\ StartsWait(t, "room", full)
    BY <1>18 DEF WriteWait, StartsWait, Wait, Goes, bufferVars
  <2>2. R' = R /\ W' = W - 1
    BY <1>4, <2>1
  <2>3. W >= 1
    <3>1. t \in Due("room", {"taken"})
      BY <2>1 DEF Due, InLock
    <3> QED
      BY <1>1, <3>1, ComingOfMember DEF W
  <2>4. n * (W' + 1) >= n
    <3>1. W' \in Nat
      BY <1>2, <2>2, <2>3
    <3> QED
      BY <1>5, <3>1, Wanted
  <2>5. maxSize - usedSize' < n * (W' + 1)
    <3>1. n * (W' + 1) \in Int
      BY <1>2, <1>5, <2>2
    <3> QED
      BY <1>5, <2>1, <2>4, <3>1
  <2>6. ASSUME pc'[u] = "bytes"
        PROVE  usedSize' < size'[u] * (R' + 1)
    BY <1>5, <1>6, <2>1, <2>2, <2>6
  <2> QED
    BY <1>5, <2>1, <2>5, <2>6
<1>19. ASSUME NEW t \in Threads, ReadWait(t)
       PROVE  /\ pc'[u] = "bytes" => usedSize' < size'[u] * (R' + 1)
              /\ pc'[u] = "room" => maxSize - usedSize' < size'[u] * (W' + 1)
  <2>1. /\ InLock(t) /\ pc[t] = "bytes" /\ UNCHANGED << pc, usedSize >>
        /\ usedSize - size[t] < 0
        /\ \A v \in Threads \ {t} : condPhase'[v] = condPhase[v]
        /\ StartsWait(t, "bytes", empty)
    BY <1>19 DEF ReadWait, StartsWait, Wait, Goes, bufferVars
  <2>2. R' = R - 1 /\ W' = W
    BY <1>4, <2>1
  <2>3. R >= 1
    <3>1. t \in Due("bytes", {"written"})
      BY <2>1 DEF Due, InLock
    <3> QED
      BY <1>1, <3>1, ComingOfMember DEF R
  <2>4. n * (R' + 1) >= n
    <3>1. R' \in Nat
      BY <1>2, <2>2, <2>3
    <3> QED
      BY <1>5, <3>1, Wanted
  <2>5. usedSize' < n * (R' + 1)
    <3>1. n * (R' + 1) \in Int
      BY <1>2, <1>5, <2>2
    <3> QED
      BY <1>5, <2>1, <2>4, <3>1
  <2>6. ASSUME pc'[u] = "room"
        PROVE  maxSize - usedSize' < size'[u] * (W' + 1)
    BY <1>5, <1>6, <2>1, <2>2, <2>6
  <2> QED
    BY <1>5, <2>1, <2>5, <2>6
<1> QED
  BY <1>10, <1>11, <1>12, <1>13, <1>14, <1>15, <1>16, <1>17, <1>18, <1>19
     DEF BNext, WriteStep, ReadStep

\* A ring on which nothing is.
EmptyRing ==
    /\ buffer = [i \in 0..maxSize - 1 |-> NULL]
    /\ head = 0
    /\ tail = 0
    /\ usedSize = 0
    /\ data = [t \in Threads |-> << >>]
    /\ size = [t \in Threads |-> 0]

LEMMA EmptyRingRight == EmptyRing => BTypeOK /\ RingConsistent
<1> SUFFICES ASSUME EmptyRing
             PROVE  BTypeOK /\ RingConsistent
  OBVIOUS
<1> USE BoundedBufferAssumption DEF EmptyRing
<1>1. tail = (head + usedSize) % maxSize
  <2>1. 0 % maxSize = 0
    BY Wrap
  <2> QED
    BY <2>1
<1>2. \A i \in 0..maxSize - 1 : Offset(i, head) \in 0..maxSize - 1
  BY OffsetMoves
<1>3. DOMAIN buffer = 0..maxSize - 1 /\ usedSize = 0
  OBVIOUS
<1>4. RingConsistent
  BY <1>1, <1>2, <1>3 DEF RingConsistent
<1>5. << >> \in UNION {[1..n -> Bytes] : n \in 0..maxSize}
  <2>1. << >> \in [1..0 -> Bytes] /\ 0 \in 0..maxSize
    OBVIOUS
  <2> QED
    BY <2>1
<1>6. BTypeOK
  BY <1>5 DEF BTypeOK
<1> QED
  BY <1>4, <1>6

\* Only test 6 uses the ring.
RingSafe == IF testnum = 6 THEN RingInv /\ RingCovered ELSE EmptyRing

LEMMA RingAlwaysSafe == TSpec => []RingSafe
<1>1. Known /\ TInit => RingSafe
  <2> SUFFICES ASSUME Known, TInit
               PROVE  RingSafe
    OBVIOUS
  <2>1. EmptyRing /\ pc = [t \in Threads |-> "none"]
    BY DEF TInit, SInit, MInit, BInit, EmptyRing
  <2>2. CASE testnum = 6
    <3>1. program \in [Threads -> Tasks]
      BY <2>2, BoundedBufferAssumption DEF TInit
    <3> QED
      BY <2>1, <2>2, <3>1, EmptyRingRight DEF RingSafe, RingInv, RingCovered
  <2> QED
    BY <2>1, <2>2 DEF RingSafe
<1>2. Known /\ Known' /\ RingSafe /\ [TNext]_tvars => RingSafe'
  <2> SUFFICES ASSUME Known, Known', RingSafe, [TNext]_tvars
               PROVE  RingSafe'
    OBVIOUS
  <2>1. UNCHANGED testnum
    BY DEF TNext, DLListTest, DLListTest3, TableTest, NextCall, testVars, tvars
  <2>2. CASE testnum = 6
    <3>1. [BNext]_bvars
      BY <2>2 DEF TNext, tvars, bvars, ringVars
    <3>2. /\ KTypeOK /\ QInv /\ Agree /\ CallersAlive /\ pc \in [Threads -> BufferPoints]
          /\ RingInv /\ RingCovered
      BY <2>2 DEF Known, MonitorKnown, InPlace, PointsOf, RingSafe
    <3>3. RingInv'
      BY <3>1, <3>2, RingStaysRight
    <3>4. CallersAlive' /\ pc' \in [Threads -> BufferPoints]
      BY <2>1, <2>2 DEF Known, MonitorKnown, InPlace, PointsOf
    <3> QED
      BY <2>1, <2>2, <3>1, <3>2, <3>3, <3>4, RingStaysCovered DEF RingSafe
  <2>3. CASE testnum # 6
    <3>1. UNCHANGED ringVars
      BY <2>3 DEF TNext, tvars
    <3> QED
      BY <2>1, <2>3, <3>1 DEF RingSafe, EmptyRing, ringVars, bufferVars
  <2> QED
    BY <2>2, <2>3
<1> QED
  BY <1>1, <1>2, AlwaysKnown, PTL DEF TSpec

\* The ring and its counters stay consistent in every test, whatever the threads write
\* and read at a time.
THEOREM RingStaysConsistent == TSpec => [](BTypeOK /\ RingConsistent)
<1>1. RingSafe => BTypeOK /\ RingConsistent
  BY EmptyRingRight DEF RingSafe, RingInv
<1> QED
  BY <1>1, RingAlwaysSafe, PTL

\* With one size for all the threads that have been forked, no wakeup is lost across
\* Write() and Read(): a machine that halts leaves nobody waiting for bytes that are
\* there or for room that is there.
THEOREM NoThreadStranded == TSpec => []NoStrandedThread
<1>1. Known /\ RingSafe => NoStrandedThread
  <2> SUFFICES ASSUME Known, RingSafe, mode = "Halted", OneSize,
                      NEW t \in Threads, pc[t] \in {"write", "room", "read", "bytes"}
               PROVE  /\ pc[t] \in {"write", "room"} => maxSize - usedSize < size[t]
                      /\ pc[t] \in {"read", "bytes"} => usedSize < size[t]
    BY DEF NoStrandedThread
  <2>1. testnum = 6 /\ MonitorKnown
    BY DEF Known, InPlace, PointsOf, ListPoints, TablePoints
  <2>2. pc[t] \in {"room", "bytes"}
    BY <2>1 DEF MonitorKnown, OnlyWaitersLeft, AtTest
  <2>3. RingCovered /\ size[t] * (0 + 1) = size[t]
    <3>1. size[t] \in Int
      <4>1. size[t] \in Sizes \cup {0}
        BY <2>1 DEF RingSafe, RingInv, BTypeOK
      <4>2. Sizes \subseteq 1..maxSize
        BY ChunksFit
      <4>3. size[t] \in 1..maxSize \/ size[t] = 0
        BY <4>1, <4>2, Zenon
      <4> QED
        BY <4>3
    <3> QED
      BY <2>1, <3>1 DEF RingSafe
  <2>4. CASE pc[t] = "room"
    <3>1. Coming("room", {"taken"}) = 0 /\ condPhase[t] = "waiting"
      BY <2>1, <2>4, NothingComing DEF AtTest, Within
    <3> QED
      BY <2>3, <2>4, <3>1 DEF RingCovered
  <2>5. CASE pc[t] = "bytes"
    <3>1. Coming("bytes", {"written"}) = 0 /\ condPhase[t] = "waiting"
      BY <2>1, <2>5, NothingComing DEF AtTest, Within
    <3> QED
      BY <2>3, <2>5, <3>1 DEF RingCovered
  <2> QED
    BY <2>2, <2>4, <2>5
<1> QED
  BY <1>1, AlwaysKnown, RingAlwaysSafe, PTL

\* Going on round the ring in two steps, or in one.
LEMMA WrapTwice ==
    ASSUME NEW h \in 0..maxSize - 1, NEW a \in 0..maxSize, NEW b \in 0..maxSize - 1,
           a + b < maxSize
    PROVE  (((h + a) % maxSize) + b) % maxSize = (h + a + b) % maxSize
<1> USE BoundedBufferAssumption
<1> DEFINE g == (h + a) % maxSize
           x == h + a
           y == g + b
           z == h + a + b
<1>1. x \in Nat /\ x < 2 * maxSize
  OBVIOUS
<1>2. z \in Nat /\ z < 2 * maxSize
  OBVIOUS
<1>3. g = IF x < maxSize THEN x ELSE x - maxSize
  <2> HIDE DEF x
  <2>1. x % maxSize = IF x < maxSize THEN x ELSE x - maxSize
    BY <1>1, Wrap
  <2> QED
    BY <2>1 DEF x
<1> HIDE DEF g
<1>4. y \in Nat /\ y < 2 * maxSize /\ (z = y \/ z = y + maxSize)
  BY <1>1, <1>3
<1> HIDE DEF x, y, z
<1>5. /\ y % maxSize = IF y < maxSize THEN y ELSE y - maxSize
      /\ z % maxSize = IF z < maxSize THEN z ELSE z - maxSize
  BY <1>2, <1>4, Wrap
<1>6. y % maxSize = z % maxSize
  BY <1>2, <1>4, <1>5
<1> QED
  BY <1>6 DEF y, z, g

\* The bytes that are in the ring, oldest first.
Contents == [i \in 1..usedSize |-> buffer[(head + i - 1) % maxSize]]

LEMMA ContentsAreBytes == RingInv => Contents \in Seq(Bytes) /\ Len(Contents) = usedSize
<1> SUFFICES ASSUME RingInv
             PROVE  Contents \in Seq(Bytes) /\ Len(Contents) = usedSize
  OBVIOUS
<1> USE BoundedBufferAssumption
<1>1. /\ head \in 0..maxSize - 1 /\ usedSize \in 0..maxSize
      /\ \A i \in 0..maxSize - 1 : Offset(i, head) < usedSize => buffer[i] \in Bytes
  BY DEF RingInv, BTypeOK, RingConsistent
<1>2. ASSUME NEW i \in 1..usedSize
      PROVE  buffer[(head + i - 1) % maxSize] \in Bytes
  <2> DEFINE k == i - 1
             p == (head + k) % maxSize
  <2>1. k \in 0..maxSize - 1 /\ k < usedSize /\ head + i - 1 = head + k
    BY <1>1
  <2> HIDE DEF k
  <2>2. p \in 0..maxSize - 1 /\ Offset(p, head) = k
    BY <1>1, <2>1, OffsetOfPlace
  <2> HIDE DEF p
  <2>3. buffer[p] \in Bytes
    BY <1>1, <2>1, <2>2
  <2> QED
    BY <2>1, <2>3 DEF p
<1>3. Contents \in [1..usedSize -> Bytes]
  BY <1>2 DEF Contents
<1>4. usedSize \in Nat
  BY <1>1
<1>5. Contents \in Seq(Bytes)
  BY <1>3, <1>4, SeqDef
<1> QED
  BY <1>3, <1>4, <1>5, LenProperties

\* A write puts its bytes behind those that are there, all of them.
LEMMA WriteExtends ==
    ASSUME RingInv, NEW t \in Threads, WriteBytes(t)
    PROVE  /\ Len(Contents) + size[t] <= maxSize
           /\ Contents' = Contents \o data[t]
<1> USE BoundedBufferAssumption
<1> DEFINE n == size[t]
           d == data[t]
<1>1. /\ head \in 0..maxSize - 1 /\ usedSize \in 0..maxSize
      /\ buffer \in [0..maxSize - 1 -> Bytes \cup {NULL}]
      /\ tail = (head + usedSize) % maxSize
      /\ pc[t] = "room"
  BY DEF RingInv, BTypeOK, RingConsistent, WriteBytes, Works, Moves
<1>2. d \in Seq(Bytes) /\ Len(d) = n /\ n \in 1..maxSize
  BY <1>1, ChunksFit DEF RingInv
<1>3. /\ maxSize - usedSize >= n
      /\ buffer' = [i \in DOMAIN buffer |->
                      IF Offset(i, tail) < n THEN d[Offset(i, tail) + 1] ELSE buffer[i]]
      /\ usedSize' = usedSize + n /\ head' = head
  BY DEF WriteBytes
<1> HIDE DEF n, d
<1>4. usedSize + n \in 0..maxSize
  BY <1>1, <1>2, <1>3
<1>5. Contents \in Seq(Bytes) /\ Len(Contents) = usedSize
  BY ContentsAreBytes
<1>6. Contents' \in Seq(Bytes) /\ Len(Contents') = usedSize + n
  <2>1. RingInv' => (Contents \in Seq(Bytes) /\ Len(Contents) = usedSize)'
    BY ContentsAreBytes, PTL
  <2> QED
    BY <1>3, <2>1, WriteKeepsRing
<1>7. ASSUME NEW i \in 1..usedSize + n
      PROVE  Contents'[i] = (Contents \o d)[i]
  <2> DEFINE k == i - 1
             p == (head + k) % maxSize
  <2>1. k \in 0..maxSize - 1 /\ head + i - 1 = head + k /\ i = k + 1 /\ k < usedSize + n
    BY <1>1, <1>4
  <2> HIDE DEF k
  <2>2. p \in 0..maxSize - 1 /\ Offset(p, head) = k
    BY <1>1, <2>1, OffsetOfPlace
  <2>3. Contents'[i] = buffer'[p]
    BY <1>3, <2>1 DEF Contents
  <2> HIDE DEF p
  <2>4. Offset(p, tail) = IF k >= usedSize THEN k - usedSize ELSE k - usedSize + maxSize
    BY <1>1, <2>2, OffsetMoves
  <2>5. buffer'[p] = IF Offset(p, tail) < n THEN d[Offset(p, tail) + 1] ELSE buffer[p]
    BY <1>1, <1>3, <2>2
  <2>6. CASE k < usedSize
    <3>1. ~(Offset(p, tail) < n)
      BY <1>1, <1>2, <1>4, <2>1, <2>4, <2>6, SMTT(30)
    <3>2. Contents[i] = buffer[p]
      BY <1>1, <2>1, <2>6 DEF Contents, p
    <3>3. (Contents \o d)[i] = Contents[i]
      BY <1>1, <1>2, <1>5, <2>1, <2>6, ConcatProperties
    <3> QED
      BY <2>3, <2>5, <3>1, <3>2, <3>3
  <2>7. CASE k >= usedSize
    <3>1. Offset(p, tail) < n /\ Offset(p, tail) + 1 = i - usedSize
      BY <1>1, <1>2, <2>1, <2>4, <2>7
    <3>2. (Contents \o d)[i] = d[i - usedSize]
      BY <1>1, <1>2, <1>5, <2>1, <2>7, ConcatProperties
    <3> QED
      BY <2>3, <2>5, <3>1, <3>2
  <2>8. k < usedSize \/ k >= usedSize
    BY <1>1, <2>1
  <2> QED
    BY <2>6, <2>7, <2>8
<1>8. Contents' = Contents \o d
  <2>1. (Contents \o d) \in Seq(Bytes) /\ Len(Contents \o d) = usedSize + n
    BY <1>2, <1>5, ConcatProperties
  <2> QED
    BY <1>6, <1>7, <2>1, SeqEqual
<1> QED
  BY <1>4, <1>5, <1>8 DEF n, d

\* A read takes the oldest bytes.
LEMMA ReadTakes ==
    ASSUME RingInv, NEW t \in Threads, ReadBytes(t)
    PROVE  /\ Len(Contents) >= size[t]
           /\ data' = [data EXCEPT ![t] = SubSeq(Contents, 1, size[t])]
           /\ Contents' = SubSeq(Contents, size[t] + 1, Len(Contents))
<1> USE BoundedBufferAssumption
<1> DEFINE n == size[t]
<1>1. /\ head \in 0..maxSize - 1 /\ usedSize \in 0..maxSize
      /\ pc[t] = "bytes"
  BY DEF RingInv, BTypeOK, ReadBytes, Works, Moves
<1>2. n \in 1..maxSize /\ n <= usedSize
  <2>1. n \in Sizes
    BY <1>1 DEF RingInv, Tasks
  <2>2. n \in 1..maxSize
    BY <2>1, ChunksFit
  <2>3. usedSize - n >= 0
    BY DEF ReadBytes
  <2> HIDE DEF n
  <2> QED
    BY <1>1, <2>2, <2>3
<1>3. /\ data' = [data EXCEPT ![t] = [i \in 1..n |-> buffer[(head + i - 1) % maxSize]]]
      /\ head' = (head + n) % maxSize /\ usedSize' = usedSize - n
      /\ buffer' = buffer
  BY DEF ReadBytes
<1> HIDE DEF n
<1>4. Contents \in Seq(Bytes) /\ Len(Contents) = usedSize
  BY ContentsAreBytes
<1>5. SubSeq(Contents, 1, n) = [i \in 1..n |-> buffer[(head + i - 1) % maxSize]]
  <2>1. SubSeq(Contents, 1, n) = [i \in 1..n |-> Contents[i]]
    BY <1>2, <1>4
  <2>2. \A i \in 1..n : Contents[i] = buffer[(head + i - 1) % maxSize]
    BY <1>1, <1>2 DEF Contents
  <2> QED
    BY <2>1, <2>2
<1>6. Contents' = [i \in 1..usedSize - n |-> Contents[i + n]]
  <2> SUFFICES ASSUME NEW i \in 1..usedSize - n
               PROVE  buffer[(((head + n) % maxSize) + i - 1) % maxSize] = Contents[i + n]
    BY <1>3 DEF Contents
  <2>1. /\ i + n \in 1..usedSize /\ i - 1 \in 0..maxSize - 1 /\ n \in 0..maxSize
        /\ n + (i - 1) < maxSize
    BY <1>1, <1>2
  <2>2. (((head + n) % maxSize) + (i - 1)) % maxSize = (head + n + (i - 1)) % maxSize
    BY <1>1, <2>1, WrapTwice
  <2>3. ((head + n) % maxSize) + i - 1 = ((head + n) % maxSize) + (i - 1)
    BY <1>1, <2>1
  <2>4. head + n + (i - 1) = head + (i + n) - 1
    BY <1>1, <2>1
  <2> QED
    BY <2>1, <2>2, <2>3, <2>4 DEF Contents
<1>7. SubSeq(Contents, n + 1, usedSize) = [i \in 1..usedSize - n |-> Contents[i + n]]
  <2>1. SubSeq(Contents, n + 1, usedSize) =
          [i \in 1..usedSize - (n + 1) + 1 |-> Contents[i + (n + 1) - 1]]
    BY <1>1, <1>2, <1>4
  <2>2. usedSize - (n + 1) + 1 = usedSize - n
    BY <1>1, <1>2
  <2>3. \A i \in 1..usedSize - n : i + (n + 1) - 1 = i + n
    BY <1>1, <1>2
  <2> QED
    BY <2>1, <2>2, <2>3
<1> QED
  BY <1>2, <1>3, <1>4, <1>5, <1>6, <1>7 DEF n

\* What a thread has asked of the ring.
RingAsked(p) ==
    CASE p \in {"write", "room"} -> "write"
      [] p \in {"read", "bytes"} -> "read"
      [] p \in {"written", "taken", "done"} -> "done"
      [] OTHER -> "none"

\* The bounded buffer implements the abstract stream of bytes, in every test: a write
\* puts its bytes behind the others in one piece, a read takes the oldest ones.
THEOREM BufferIsStream == TSpec => ImplementsStream
<1>1. TInit => Stream!AInit
  <2> SUFFICES ASSUME TInit
               PROVE  Stream!AInit
    OBVIOUS
  <2>1. /\ usedSize = 0 /\ pc = [t \in Threads |-> "none"]
        /\ size = [t \in Threads |-> 0] /\ data = [t \in Threads |-> << >>]
    BY DEF TInit, SInit, MInit, BInit
  <2>2. Contents = << >>
    BY <2>1 DEF Contents
  <2> QED
    BY <2>1, <2>2 DEF Stream!AInit, Contents
<1>2. Known /\ RingSafe /\ [TNext]_tvars => [Stream!ANext]_(Stream!avars)
  <2> DEFINE asked == [t \in Threads |-> RingAsked(pc[t])]
  <2> SUFFICES ASSUME Known, RingSafe, [TNext]_tvars
               PROVE  \/ UNCHANGED << Contents, asked, size, data >>
                      \/ Stream!ANext
    BY DEF Stream!avars, RingAsked, Contents
  <2>0. pc \in [Threads -> PointsOf(testnum)] /\ pc' \in [Threads -> PointsOf(testnum)]
        /\ testnum \in {0, 3, 4, 5, 6}
    <3>1. InPlace' /\ UNCHANGED testnum
      BY EverybodyStaysInPlace
         DEF Known, TNext, DLListTest, DLListTest3, TableTest, NextCall, testVars, tvars
    <3> QED
      BY <3>1 DEF Known, InPlace
  <2>1. CASE testnum # 6
    <3>1. \A t \in Threads : asked[t] = "none" /\ asked'[t] = "none"
      BY <2>0, <2>1 DEF PointsOf, ListPoints, TablePoints, RingAsked
    <3>2. UNCHANGED asked /\ UNCHANGED ringVars
      BY <2>1, <3>1 DEF TNext, tvars
    <3> QED
      BY <3>2 DEF ringVars, bufferVars, Contents
  <2>2. ASSUME testnum = 6, BNext
        PROVE  \/ UNCHANGED << Contents, asked, size, data >>
               \/ Stream!ANext
    <3>1. RingInv /\ pc \in [Threads -> BufferPoints] /\ pc' \in [Threads -> BufferPoints]
          /\ size \in [Threads -> Sizes \cup {0}]
      BY <2>0, <2>2 DEF RingSafe, RingInv, BTypeOK, PointsOf
\* One thread moves on, or none.
    <3>2. ASSUME UNCHANGED pc
          PROVE  UNCHANGED asked
      BY <3>2
    <3>3. ASSUME NEW t \in Threads, NEW q \in BufferPoints, pc' = [pc EXCEPT ![t] = q]
          PROVE  asked' = [asked EXCEPT ![t] = RingAsked(q)]
      BY <3>1, <3>3
    <3>4. \A t \in Threads : asked[t] = RingAsked(pc[t])
      OBVIOUS
    <3>5. Stream!ANext <=>
            \E t \in Threads :
              /\ asked'[t] # asked[t]
              /\ \/ \E d \in Chunks : /\ asked[t] = "none"
                                      /\ asked' = [asked EXCEPT ![t] = "write"]
                                      /\ size' = [size EXCEPT ![t] = Len(d)]
                                      /\ data' = [data EXCEPT ![t] = d]
                                      /\ UNCHANGED Contents
                 \/ /\ asked[t] = "write"
                    /\ Len(Contents) + size[t] <= maxSize
                    /\ Contents' = Contents \o data[t]
                    /\ asked' = [asked EXCEPT ![t] = "done"]
                    /\ UNCHANGED << size, data >>
                 \/ \E n \in Sizes : /\ asked[t] = "none"
                                     /\ asked' = [asked EXCEPT ![t] = "read"]
                                     /\ size' = [size EXCEPT ![t] = n]
                                     /\ UNCHANGED << Contents, data >>
                 \/ /\ asked[t] = "read"
                    /\ Len(Contents) >= size[t]
                    /\ data' = [data EXCEPT ![t] = SubSeq(Contents, 1, size[t])]
                    /\ Contents' = SubSeq(Contents, size[t] + 1, Len(Contents))
                    /\ asked' = [asked EXCEPT ![t] = "done"]
                    /\ UNCHANGED size
                 \/ /\ asked[t] = "done"
                    /\ asked' = [asked EXCEPT ![t] = "none"]
                    /\ size' = [size EXCEPT ![t] = 0]
                    /\ data' = [data EXCEPT ![t] = << >>]
                    /\ UNCHANGED Contents
      BY Zenon DEF RingAsked, Contents, Stream!ANext, Stream!CallWrite, Stream!DoWrite,
         Stream!CallRead, Stream!DoRead, Stream!Return
    <3>6. ASSUME UNCHANGED bufferVars
          PROVE  UNCHANGED Contents
      BY <3>6 DEF bufferVars, Contents
    <3>7. ASSUME NEW t \in Threads, NEW q \in BufferPoints, pc' = [pc EXCEPT ![t] = q],
                 UNCHANGED << bufferVars, size, data >>, RingAsked(q) = RingAsked(pc[t])
          PROVE  UNCHANGED << Contents, asked, size, data >>
      BY <3>1, <3>6, <3>7
    <3>8. asked \in [Threads -> {"write", "read", "done", "none"}]
      BY DEF RingAsked
    <3> HIDE DEF asked
    <3> USE DEF BufferPoints, RingAsked
    <3>9. ASSUME NEW t \in Threads, NEW d \in Chunks, WriteCall(t, d)
          PROVE  Stream!ANext
      <4>1. pc[t] = "none" /\ pc' = [pc EXCEPT ![t] = "write"]
        BY <3>9, PointsMove DEF WriteCall
      <4>2. asked[t] = "none" /\ asked' = [asked EXCEPT ![t] = "write"]
        BY <3>3, <3>4, <4>1
      <4> QED
        BY <3>5, <3>6, <3>8, <3>9, <4>2 DEF WriteCall
    <3>10. ASSUME NEW t \in Threads, WriteBytes(t)
           PROVE  Stream!ANext
      <4>1. pc[t] = "room" /\ pc' = [pc EXCEPT ![t] = "written"] /\ UNCHANGED << size, data >>
        BY <3>10, PointsMove DEF WriteBytes, Proceeds
      <4>2. asked[t] = "write" /\ asked' = [asked EXCEPT ![t] = "done"]
        BY <3>3, <3>4, <4>1
      <4>3. Len(Contents) + size[t] <= maxSize /\ Contents' = Contents \o data[t]
        BY <3>1, <3>10, WriteExtends
      <4> QED
        BY <3>5, <3>8, <4>1, <4>2, <4>3
    <3>11. ASSUME NEW t \in Threads, NEW n \in Sizes, ReadCall(t, n)
           PROVE  Stream!ANext
      <4>1. pc[t] = "none" /\ pc' = [pc EXCEPT ![t] = "read"]
        BY <3>11, PointsMove DEF ReadCall
      <4>2. asked[t] = "none" /\ asked' = [asked EXCEPT ![t] = "read"]
        BY <3>3, <3>4, <4>1
      <4> QED
        BY <3>5, <3>6, <3>8, <3>11, <4>2 DEF ReadCall
    <3>12. ASSUME NEW t \in Threads, ReadBytes(t)
           PROVE  Stream!ANext
      <4>1. pc[t] = "bytes" /\ pc' = [pc EXCEPT ![t] = "taken"] /\ UNCHANGED size
        BY <3>12, PointsMove DEF ReadBytes, Proceeds
      <4>2. asked[t] = "read" /\ asked' = [asked EXCEPT ![t] = "done"]
        BY <3>3, <3>4, <4>1
      <4>3. /\ Len(Contents) >= size[t]
            /\ data' = [data EXCEPT ![t] = SubSeq(Contents, 1, size[t])]
            /\ Contents' = SubSeq(Contents, size[t] + 1, Len(Contents))
        BY <3>1, <3>12, ReadTakes
      <4> QED
        BY <3>5, <3>8, <4>1, <4>2, <4>3
    <3>13. ASSUME NEW t \in Threads, Return(t)
           PROVE  Stream!ANext
      <4>1. pc[t] = "done" /\ pc' = [pc EXCEPT ![t] = "none"]
        BY <3>13, PointsMove DEF Return
      <4>2. asked[t] = "done" /\ asked' = [asked EXCEPT ![t] = "none"]
        BY <3>3, <3>4, <4>1
      <4> QED
        BY <3>5, <3>6, <3>8, <3>13, <4>2 DEF Return
    <3>14. ASSUME NEW t \in Threads,
                  WriteEnter(t) \/ WriteSignal(t) \/ ReadEnter(t) \/ ReadSignal(t)
           PROVE  UNCHANGED << Contents, asked, size, data >>
      <4>1. /\ UNCHANGED << bufferVars, size, data >>
            /\ \E q \in BufferPoints :
                 pc' = [pc EXCEPT ![t] = q] /\ RingAsked(q) = RingAsked(pc[t])
        BY <3>14 DEF WriteEnter, WriteSignal, ReadEnter, ReadSignal, Enters, Signals, Moves
      <4> QED
        BY <3>7, <4>1
    <3>15. ASSUME NEW t \in Threads,
                  WriteWait(t) \/ ReadWait(t) \/ Waiting(t) \/ SignalDone(t)
           PROVE  UNCHANGED << Contents, asked, size, data >>
      BY <3>2, <3>6, <3>15
         DEF WriteWait, ReadWait, Waiting, SignalDone, StartsWait, Waits, SignalReturns
    <3>16. ASSUME (\E t \in Threads : Acquiring(t) \/ OutsideStep(t)) \/ MMachineStep,
                  UNCHANGED << bufferVars, data, size, program >>
           PROVE  UNCHANGED << Contents, asked, size, data >>
      BY <3>2, <3>6, <3>16 DEF Acquiring, OutsideStep, MMachineStep
    <3> QED
      BY <2>2, <3>9, <3>10, <3>11, <3>12, <3>13, <3>14, <3>15, <3>16
         DEF BNext, WriteStep, ReadStep
  <2>3. CASE UNCHANGED tvars
    BY <2>3 DEF tvars, mvars, ringVars, bufferVars, Contents
  <2> QED
    BY <2>1, <2>2, <2>3 DEF TNext
<1> QED
  BY <1>1, <1>2, AlwaysKnown, RingAlwaysSafe, PTL DEF TSpec, ImplementsStream, Stream!ASpec

-----------------------------------------------------------------------------
(* Table.                                                                  *)

\* The kernel steps by which u is not forked.
LEMMA StaysUnborn ==
    ASSUME KTypeOK, QInv, NEW u \in Threads, status[u] = "JUST_CREATED",
           \/ \E t \in Threads, s \in Semaphores : PEnter(t, s) \/ PSleep(t, s) \/ PTake(t, s)
           \/ \E s \in Semaphores : V(s)
           \/ \E t \in Threads :
                Executing(t) /\ (Yield \/ Finish \/ \E v \in Threads \ {u} : Fork(v))
           \/ Dispatch \/ Halt \/ Preempt \/ UNCHANGED kvars
    PROVE  status'[u] = "JUST_CREATED"
<1> USE KernelAssumption DEF KTypeOK, ThreadStatus, Executing
<1>1. ASSUME NEW t \in Threads, NEW s \in Semaphores, PEnter(t, s) \/ PSleep(t, s) \/ PTake(t, s)
      PROVE  status'[u] = "JUST_CREATED"
  BY <1>1 DEF PEnter, PSleep, PTake, InsideP, Block, threadVars
<1>2. ASSUME NEW s \in Semaphores, V(s)
      PROVE  status'[u] = "JUST_CREATED"
  <2>1. CASE queue[s] = << >>
    BY <1>2, <2>1 DEF V
  <2>2. CASE queue[s] # << >>
    <3>1. Head(queue[s]) \in Range(queue[s])
      BY <2>2 DEF Range
    <3>2. Head(queue[s]) \in Threads /\ status[Head(queue[s])] = "BLOCKED"
      BY <3>1 DEF QInv, WaitQueuesExact
    <3>3. status' = [status EXCEPT ![Head(queue[s])] = "READY"]
      BY <1>2, <2>2, Zenon DEF V, ReadyToRun
    <3> QED
      BY <3>2, <3>3
  <2> QED
    BY <2>1, <2>2
<1>3. ASSUME readyList # << >>
      PROVE  Head(readyList) \in Threads /\ status[Head(readyList)] = "READY"
  <2>1. Head(readyList) \in Range(readyList) /\ Head(readyList) \in Threads
    BY <1>3 DEF Range
  <2> QED
    BY <2>1 DEF QInv, ReadyListExact
<1>4. ASSUME SwitchAway, status[currentThread] = "RUNNING"
      PROVE  status'[u] = "JUST_CREATED"
  BY <1>3, <1>4 DEF SwitchAway
<1>5. ASSUME Dispatch
      PROVE  status'[u] = "JUST_CREATED"
  BY <1>3, <1>5 DEF Dispatch
<1>6. ASSUME NEW v \in Threads \ {u}, Fork(v)
      PROVE  status'[u] = "JUST_CREATED"
  BY <1>6 DEF Fork, ReadyToRun
<1>7. ASSUME Finish, status[currentThread] = "RUNNING"
      PROVE  status'[u] = "JUST_CREATED"
  BY <1>7 DEF Finish, Block
<1>8. ASSUME UNCHANGED kvars \/ Halt
      PROVE  status'[u] = "JUST_CREATED"
  BY <1>8 DEF kvars, Halt
<1> QED
  BY <1>1, <1>2, <1>4, <1>5, <1>6, <1>7, <1>8 DEF Yield, Preempt

\* The threads whose number is not below threadnum are never forked.
OthersUnborn == \A u \in Tested \ Forked : status[u] = "JUST_CREATED"

LEMMA OthersStayUnborn ==
    ASSUME KTypeOK, QInv, testnum = 5, OthersUnborn, [TNext]_tvars
    PROVE  OthersUnborn'
<1> USE LockAssumption, ConditionAssumption, TableAssumption
<1>1. UNCHANGED << testnum, threadnum, which >>
  BY DEF TNext, TableTest, NextCall, testVars, tvars
<1>2. Forked' = Forked
  BY <1>1 DEF Forked
<1> SUFFICES ASSUME NEW u \in Tested \ Forked
             PROVE  status'[u] = "JUST_CREATED"
  BY <1>2 DEF OthersUnborn
<1>3. u \in Threads /\ status[u] = "JUST_CREATED" /\ mutex \in Semaphores /\ tableEmpty \in Semaphores
  BY DEF OthersUnborn, Tested
<1>4. ASSUME NEW t \in Threads,
             \/ Calls(t, "alloc") \/ Calls(t, "release") \/ Acquiring(t)
             \/ (\E a, b : Enters(t, a, b) \/ Works(t, a, b))
             \/ (\E a, b : Signals(t, a, b, tableEmpty)) \/ SignalReturns(t, tableEmpty)
             \/ (\E a : Leaves(t, a)) \/ (\E a : StartsWait(t, a, tableEmpty))
             \/ Waits(t, tableEmpty)
      PROVE  status'[u] = "JUST_CREATED"
  <2>1. \/ PEnter(t, mutex) \/ PSleep(t, mutex) \/ PTake(t, mutex)
        \/ PEnter(t, tableEmpty) \/ PSleep(t, tableEmpty) \/ PTake(t, tableEmpty)
        \/ V(mutex) \/ V(tableEmpty) \/ UNCHANGED kvars
    BY <1>4 DEF Calls, Acquire, Acquiring, AcquireSleep, AcquireTake, Enters, AcquireReturn, Works,
       Signals, Signal, SignalReturns, SignalReturn, Leaves, Release, StartsWait, Wait, Waits,
       WaitEnter, WaitSleep, WaitTake, WaitReacquire, WaitReturn, cvars, lvars
  <2> QED
    BY <1>3, <2>1, StaysUnborn
<1>5. ASSUME NEW t \in Tested, TableTest(t)
      PROVE  status'[u] = "JUST_CREATED"
  <2>1. t \in Threads
    BY DEF Tested
  <2> QED
    BY <1>4, <1>5, <2>1 DEF TableTest, TableStep, AllocCall, ReleaseCall, AllocEnter, AllocPlace,
       AllocSignal, AllocSignalReturn, AllocReturn, ReleaseEnter, ReleaseWait, ReleaseWaits,
       ReleasePlace, ReleaseReturn
<1>6. ASSUME ScriptRest
      PROVE  status'[u] = "JUST_CREATED"
  <2>1. ASSUME NEW t \in Tested, Acquiring(t)
        PROVE  status'[u] = "JUST_CREATED"
    BY <1>4, <2>1 DEF Tested
  <2>2. ASSUME NEW t \in Tested, TestedRest(t)
        PROVE  status'[u] = "JUST_CREATED"
    BY <1>3, <2>2, StaysUnborn DEF TestedRest, Tested
  <2>3. CASE MainStep
    <3>1. \A t \in Forked : t \in Threads \ {u}
      BY DEF Forked, Tested
    <3> QED
      BY <1>3, <2>3, <3>1, StaysUnborn, KernelAssumption DEF MainStep
  <2>4. CASE MMachineStep
    BY <1>3, <2>4, StaysUnborn DEF MMachineStep, CMachineStep, Interrupt, Others
  <2> QED
    BY <1>6, <2>1, <2>2, <2>3, <2>4 DEF ScriptRest
<1>7. CASE UNCHANGED tvars
  BY <1>3, <1>7, StaysUnborn DEF tvars, mvars, cvars, lvars
<1> QED
  BY <1>5, <1>6, <1>7 DEF TNext

\* The threads that release.
Releasers == {t \in Forked : which[t] % 2 = 0}

\* The table, its counter and the threads that are in Release().
TableInv ==
    /\ TableTypeOK
    /\ CountExact
    /\ \A t \in Threads : pc[t] \in {"release", "occupied", "cleared"} => which[t] % 2 = 0

\* While the one thread that releases waits, a place it wants is free only as long as
\* nothing is on the way to it.
TableCovered ==
    \A r \in Threads : Releasers = {r} /\ pc[r] = "occupied" /\ tableBase[index[r]] =>
        Coming("occupied", {"placed"}) >= 1

\* The numbers of the threads.
LEMMA NumbersOfThreads == InPlace => \A t \in Tested : which[t] \in Nat
<1> SUFFICES ASSUME InPlace, NEW t \in Tested
             PROVE  which[t] \in Nat
  OBVIOUS
<1>1. which \in [Tested -> 0..Cardinality(Tested) - 1]
  BY ThreadTestAssumption DEF InPlace
<1> QED
  BY <1>1

\* The number of places in use.
LEMMA UsedCounts ==
    tableBase \in [0..TableSize - 1 -> BOOLEAN] =>
        IsFiniteSet(Used) /\ Cardinality(Used) \in 0..TableSize
<1> SUFFICES ASSUME tableBase \in [0..TableSize - 1 -> BOOLEAN]
             PROVE  IsFiniteSet(Used) /\ Cardinality(Used) \in 0..TableSize
  OBVIOUS
<1> USE TableAssumption
<1>1. IsFiniteSet(0..TableSize - 1) /\ Cardinality(0..TableSize - 1) = TableSize
  BY FS_Interval
<1>2. Used \in SUBSET (0..TableSize - 1)
  BY DEF Used
<1>3. IsFiniteSet(Used) /\ Cardinality(Used) <= Cardinality(0..TableSize - 1)
  BY <1>1, <1>2, FS_Subset
<1>4. Cardinality(Used) \in Nat
  BY <1>3, FS_CardinalityType
<1> QED
  BY <1>1, <1>3, <1>4

LEMMA TableStaysRight ==
    ASSUME Known, testnum = 5, TableInv, step \in [Threads -> Nat], [TNext]_tvars
    PROVE  TableInv' /\ step' \in [Threads -> Nat]
<1> USE TableAssumption
<1>1. /\ pc \in [Threads -> TablePoints]
      /\ tableBase \in [0..TableSize - 1 -> BOOLEAN]
      /\ cnt = Cardinality(Used) /\ cnt \in 0..TableSize
      /\ index \in [Threads -> 0..TableSize - 1]
      /\ \A t \in Threads : pc[t] \in {"release", "occupied", "cleared"} => which[t] % 2 = 0
  BY DEF Known, InPlace, PointsOf, TableInv, TableTypeOK, CountExact
<1>2. UNCHANGED << testnum, threadnum, which >>
  BY DEF TNext, TableTest, NextCall, testVars, tvars
<1>3. step' \in [Threads -> Nat]
  BY DEF TNext, TableTest, NextCall, testVars, tvars
\* What is left to show of the steps that leave the places alone.
<1>4. ASSUME UNCHANGED << tableBase, cnt >>, index' \in [Threads -> 0..TableSize - 1],
             \/ UNCHANGED pc
             \/ \E t \in Threads, q \in TablePoints :
                  /\ pc' = [pc EXCEPT ![t] = q]
                  /\ \/ q \notin {"release", "occupied", "cleared"}
                     \/ which[t] % 2 = 0
      PROVE  TableInv'
  <2>1. TableTypeOK' /\ CountExact'
    BY <1>1, <1>4 DEF TableTypeOK, CountExact, Used
  <2>2. \A t \in Threads : pc'[t] \in {"release", "occupied", "cleared"} => which'[t] % 2 = 0
    BY <1>1, <1>2, <1>4
  <2> QED
    BY <2>1, <2>2 DEF TableInv
<1>5. ASSUME NEW t \in Tested, TableTest(t)
      PROVE  TableInv'
  <2>1. t \in Threads /\ which[t] \in Nat
    BY NumbersOfThreads DEF Tested, Known
  <2>2. CASE AllocCall(t) \/ AllocEnter(t) \/ AllocSignal(t) \/ AllocReturn(t) \/ ReleaseReturn(t)
    <3>1. /\ UNCHANGED tableVars
          /\ \E q \in {"alloc", "find", "posted", "none"} : pc' = [pc EXCEPT ![t] = q]
      BY <2>2 DEF AllocCall, AllocEnter, AllocSignal, AllocReturn, ReleaseReturn, Calls, Enters,
         Signals, Leaves, Moves
    <3> QED
      BY <1>1, <1>4, <2>1, <3>1 DEF tableVars, TablePoints
  <2>3. CASE ReleaseCall(t, step[t]) /\ step[t] < oprnum /\ (which[t] % 2) # 1
    <3>1. which[t] % 2 = 0
      BY <2>1, <2>3
    <3>2. /\ UNCHANGED << tableBase, cnt >> /\ index' = [index EXCEPT ![t] = step[t]]
          /\ pc' = [pc EXCEPT ![t] = "release"]
      BY <2>3 DEF ReleaseCall, Calls, Moves
    <3>3. step[t] \in 0..TableSize - 1
      BY <2>1, <2>3, ThreadTestAssumption
    <3> QED
      BY <1>1, <1>4, <2>1, <3>1, <3>2, <3>3 DEF TablePoints
  <2>4. CASE ReleaseEnter(t)
    <3>1. /\ UNCHANGED tableVars /\ pc[t] = "release"
          /\ pc' = [pc EXCEPT ![t] = "occupied"]
      BY <2>4 DEF ReleaseEnter, Enters, Moves
    <3> QED
      BY <1>1, <1>4, <2>1, <3>1 DEF tableVars, TablePoints
  <2>5. CASE AllocSignalReturn(t) \/ ReleaseWait(t) \/ ReleaseWaits(t)
    <3>1. UNCHANGED tableVars /\ UNCHANGED pc
      BY <2>5 DEF AllocSignalReturn, ReleaseWait, ReleaseWaits, SignalReturns, StartsWait, Waits
    <3> QED
      BY <1>1, <1>4, <3>1 DEF tableVars
  <2>6. CASE AllocPlace(t)
    <3>1. PICK i \in DOMAIN tableBase \ Used : tableBase' = [tableBase EXCEPT ![i] = TRUE]
      BY <2>6 DEF AllocPlace
    <3>2. /\ cnt' = cnt + 1 /\ index' = index /\ pc' = [pc EXCEPT ![t] = "placed"]
      BY <2>6 DEF AllocPlace, Works, Moves
    <3>3. tableBase' \in [0..TableSize - 1 -> BOOLEAN] /\ Used' = Used \cup {i} /\ i \notin Used
      BY <1>1, <3>1 DEF Used
    <3>4. IsFiniteSet(Used)
      BY <1>1, UsedCounts
    <3>5. Cardinality(Used') = Cardinality(Used) + 1
      BY <3>3, <3>4, FS_AddElement
    <3>6. Cardinality(Used') \in 0..TableSize
      <4>1. (tableBase \in [0..TableSize - 1 -> BOOLEAN])' 
              => (IsFiniteSet(Used) /\ Cardinality(Used) \in 0..TableSize)'
        BY UsedCounts, PTL
      <4> QED
        BY <3>3, <4>1
    <3>7. \A u \in Threads : pc'[u] \in {"release", "occupied", "cleared"} => which'[u] % 2 = 0
      BY <1>1, <1>2, <2>1, <3>2
    <3> QED
      BY <1>1, <3>2, <3>3, <3>5, <3>6, <3>7 DEF TableInv, TableTypeOK, CountExact
  <2>7. CASE ReleasePlace(t)
    <3> DEFINE i == index[t]
    <3>1. /\ tableBase' = [tableBase EXCEPT ![i] = FALSE] /\ tableBase[i]
          /\ cnt' = cnt - 1 /\ index' = index /\ pc' = [pc EXCEPT ![t] = "cleared"]
          /\ pc[t] = "occupied"
      BY <2>7 DEF ReleasePlace, Works, Moves
    <3>2. i \in 0..TableSize - 1
      BY <1>1, <2>1
    <3>3. tableBase' \in [0..TableSize - 1 -> BOOLEAN] /\ Used' = Used \ {i} /\ i \in Used
      BY <1>1, <3>1, <3>2 DEF Used
    <3> HIDE DEF i
    <3>4. IsFiniteSet(Used)
      BY <1>1, UsedCounts
    <3>5. Cardinality(Used') = Cardinality(Used) - 1
      BY <3>3, <3>4, FS_RemoveElement
    <3>6. Cardinality(Used') \in 0..TableSize
      <4>1. (tableBase \in [0..TableSize - 1 -> BOOLEAN])' 
              => (IsFiniteSet(Used) /\ Cardinality(Used) \in 0..TableSize)'
        BY UsedCounts, PTL
      <4> QED
        BY <3>3, <4>1
    <3>7. \A u \in Threads : pc'[u] \in {"release", "occupied", "cleared"} => which'[u] % 2 = 0
      BY <1>1, <1>2, <2>1, <3>1
    <3> QED
      BY <1>1, <3>1, <3>3, <3>5, <3>6, <3>7 DEF TableInv, TableTypeOK, CountExact
  <2> QED
    BY <1>5, <2>2, <2>3, <2>4, <2>5, <2>6, <2>7 DEF TableTest, TableStep
<1>6. ASSUME ScriptRest, UNCHANGED << tableVars, testVars >>
      PROVE  TableInv'
  BY <1>1, <1>4, <1>6, ScriptSteps DEF Known, tableVars
<1>7. ASSUME UNCHANGED tvars
      PROVE  TableInv'
  <2>1. UNCHANGED << tableBase, cnt, index, pc >>
    BY <1>7 DEF tvars, mvars, tableVars
  <2>2. index' \in [Threads -> 0..TableSize - 1]
    BY <1>1, <2>1
  <2> QED
    BY <1>4, <2>1, <2>2
<1> QED
  BY <1>3, <1>5, <1>6, <1>7 DEF TNext

LEMMA TableStaysCovered ==
    ASSUME Known, testnum = 5, OthersUnborn, TableInv, TableCovered, [TNext]_tvars
    PROVE  TableCovered'
<1> USE TableAssumption
<1> DEFINE C == Coming("occupied", {"placed"})
<1>1. /\ KTypeOK /\ Agree /\ pc \in [Threads -> TablePoints] /\ pc[Main] = "none"
      /\ index \in [Threads -> 0..TableSize - 1]
      /\ CallersAlive
  BY DEF Known, MonitorKnown, InPlace, PointsOf, TableInv, TableTypeOK
<1>2. /\ Alone("occupied") /\ "occupied" \in AtTest
      /\ {"placed"} \in SUBSET Within /\ CondOf("occupied") = tableEmpty
  BY <1>1 DEF Alone, TablePoints, CondOf, AtTest, Within
<1>3. C \in Nat
  BY <1>1, <1>2, ComingIsNumber
<1>4. Accounted("occupied", {"placed"})
  BY <1>1, <1>2, ComingMoves
<1>5. ASSUME NEW t \in Threads
      PROVE  /\ Aside(t) => C' = C
             /\ Enters(t, "alloc", "find") => C' = C
             /\ Enters(t, "release", "occupied") => C' = C + 1
             /\ Proceeds(t, "find", "placed") => C' = C + 1
             /\ Signals(t, "placed", "posted", tableEmpty) => C' = C
             /\ Leaves(t, "posted") \/ Leaves(t, "cleared") => C' = C
  BY <1>2, <1>3, <1>4 DEF C, Accounted, Entering, Within, AtTest, AtSignal, One
<1> HIDE DEF C
<1>6. Releasers' = Releasers
  <2>1. UNCHANGED << threadnum, which >>
    BY DEF TNext, TableTest, NextCall, testVars, tvars
  <2> QED
    BY <2>1 DEF Releasers, Forked
<1> SUFFICES ASSUME NEW r \in Threads, Releasers = {r}, pc'[r] = "occupied",
                    tableBase'[index'[r]]
             PROVE  C' >= 1
  BY <1>6 DEF TableCovered, C
\* Nobody else is in Release().
<1>7. ASSUME NEW t \in Threads, pc[t] = "occupied"
      PROVE  t = r
  <2>1. status[t] # "JUST_CREATED" /\ t # Main
    BY <1>1, <1>7 DEF CallersAlive
  <2>2. t \in Forked
    BY <2>1 DEF OthersUnborn, Tested
  <2>3. which[t] % 2 = 0
    BY <1>7 DEF TableInv
  <2> QED
    BY <2>2, <2>3 DEF Releasers
<1>8. ASSUME C' = C, tableBase' = tableBase, index'[r] = index[r], pc[r] = "occupied"
      PROVE  C' >= 1
  BY <1>8 DEF TableCovered, C
<1>9. ASSUME NEW t \in Threads, Aside(t), UNCHANGED << pc, tableBase, index >>
      PROVE  C' >= 1
  BY <1>5, <1>8, <1>9
<1>10. ASSUME NEW t \in Tested, TableTest(t)
       PROVE  C' >= 1
  <2>0. t \in Threads
    BY DEF Tested
  <2>1. CASE AllocCall(t) \/ \E i : ReleaseCall(t, i)
    <3>1. Aside(t) /\ pc'[t] # "occupied"
      <4>1. PICK a \in {"alloc", "release"} : Calls(t, a)
        BY <2>1 DEF AllocCall, ReleaseCall
      <4>2. pc'[t] = a
        BY <1>1, <2>0, <4>1 DEF Calls, Moves
      <4> QED
        BY <4>1, <4>2 DEF Aside, Entering
    <3>2. pc'[r] = pc[r] /\ index'[r] = index[r] /\ tableBase' = tableBase
      BY <1>1, <2>0, <2>1, <3>1 DEF AllocCall, ReleaseCall, Calls, Moves, tableVars
    <3> QED
      BY <1>5, <1>8, <2>0, <3>1, <3>2
  <2>2. CASE AllocSignalReturn(t) \/ ReleaseWaits(t)
    <3>1. Aside(t) /\ UNCHANGED << pc, tableBase, index >>
      BY <2>2, PointsMove DEF AllocSignalReturn, ReleaseWaits, Aside, tableVars
    <3> QED
      BY <1>9, <2>0, <3>1
  <2>3. CASE AllocEnter(t) \/ AllocSignal(t) \/ AllocReturn(t) \/ ReleaseReturn(t)
    <3>1. C' = C /\ tableBase' = tableBase /\ index' = index
      BY <1>5, <2>0, <2>3 DEF AllocEnter, AllocSignal, AllocReturn, ReleaseReturn, tableVars
    <3>2. \E q \in {"find", "posted", "none"} : pc' = [pc EXCEPT ![t] = q]
      BY <2>3 DEF AllocEnter, AllocSignal, AllocReturn, ReleaseReturn, Enters, Signals, Leaves, Moves
    <3>3. pc[r] = "occupied"
      BY <1>1, <2>0, <3>2
    <3> QED
      BY <1>8, <3>1, <3>3
  <2>4. CASE ReleaseEnter(t) \/ AllocPlace(t)
    <3>1. C' = C + 1
      BY <1>5, <2>0, <2>4 DEF ReleaseEnter, AllocPlace, Proceeds
    <3> QED
      BY <1>3, <3>1
  <2>5. CASE ReleaseWait(t)
    <3>1. pc[t] = "occupied" /\ ~tableBase[index[t]] /\ UNCHANGED << tableBase, index >>
      BY <2>5 DEF ReleaseWait, StartsWait, tableVars
    <3>2. t = r
      BY <1>7, <2>0, <3>1
    <3> QED
      BY <3>1, <3>2
  <2>6. CASE ReleasePlace(t)
    <3>1. pc[t] = "occupied" /\ pc' = [pc EXCEPT ![t] = "cleared"]
      BY <2>6 DEF ReleasePlace, Works, Moves
    <3>2. t = r
      BY <1>7, <2>0, <3>1
    <3> QED
      BY <1>1, <3>1, <3>2
  <2> QED
    BY <1>10, <2>1, <2>2, <2>3, <2>4, <2>5, <2>6 DEF TableTest, TableStep
<1>11. ASSUME ScriptRest, UNCHANGED << tableVars, testVars >>
       PROVE  C' >= 1
  <2>1. UNCHANGED << pc, tableBase, index >>
    BY <1>11, ScriptSteps DEF Known, tableVars
  <2>2. ASSUME NEW t \in Tested, TestedRest(t)
        PROVE  OutsideStep(t) /\ t \in Threads
    <3>1. t \in Threads /\ pc[t] = "none"
      BY <1>1, <2>2 DEF TestedRest, TablePoints, Tested
    <3> QED
      BY <2>2, <3>1 DEF TestedRest, OutsideStep
  <2>3. MainStep => OutsideStep(Main)
    BY <1>1 DEF MainStep, OutsideStep, Forked, Tested
  <2>4. \E t \in Threads : Aside(t)
    BY <1>11, <2>2, <2>3, KernelAssumption DEF ScriptRest, Aside, Tested
  <2> QED
    BY <1>9, <2>1, <2>4
<1>12. CASE UNCHANGED tvars
  <2>1. UNCHANGED << pc, tableBase, index >> /\ UNCHANGED mvars
    BY <1>12 DEF tvars, mvars, tableVars
  <2> QED
    BY <1>9, <2>1 DEF Aside
<1> QED
  BY <1>10, <1>11, <1>12 DEF TNext

\* Only test 5 uses the table.
TableSafe ==
    /\ step \in [Threads -> Nat]
    /\ IF testnum = 5 THEN OthersUnborn /\ TableInv /\ TableCovered ELSE TableInit

LEMMA FreshTable == TableInit => TableTypeOK /\ CountExact
<1> SUFFICES ASSUME TableInit
             PROVE  TableTypeOK /\ CountExact
  OBVIOUS
<1>1. Used = {}
  BY DEF TableInit, Used
<1>2. Cardinality(Used) = 0
  BY <1>1, FS_EmptySet
<1> QED
  BY <1>2, TableAssumption DEF TableInit, TableTypeOK, CountExact

LEMMA TableAlwaysSafe == TSpec => []TableSafe
<1>1. TInit => TableSafe
  <2> SUFFICES ASSUME TInit
               PROVE  TableSafe
    OBVIOUS
  <2>1. /\ pc = [t \in Threads |-> "none"] /\ TableInit /\ step \in [Threads -> Nat]
    BY DEF TInit, SInit, MInit
  <2>2. OthersUnborn
    BY DEF TInit, SInit, MInit, CInit, LInit, KInit, OthersUnborn, Tested
  <2>3. TableInv /\ TableCovered
    BY <2>1, FreshTable DEF TableInv, TableCovered
  <2> QED
    BY <2>1, <2>2, <2>3 DEF TableSafe
<1>2. Known /\ TableSafe /\ [TNext]_tvars => TableSafe'
  <2> SUFFICES ASSUME Known, TableSafe, [TNext]_tvars
               PROVE  TableSafe'
    OBVIOUS
  <2>1. UNCHANGED testnum /\ step' \in [Threads -> Nat]
    BY DEF TNext, DLListTest, DLListTest3, TableTest, NextCall, testVars, tvars, TableSafe
  <2>2. CASE testnum = 5
    <3>1. OthersUnborn /\ TableInv /\ TableCovered /\ step \in [Threads -> Nat] /\ KTypeOK /\ QInv
      BY <2>2 DEF TableSafe, Known, MonitorKnown
    <3>2. OthersUnborn'
      BY <2>2, <3>1, OthersStayUnborn
    <3>3. TableInv'
      BY <2>2, <3>1, TableStaysRight
    <3>4. TableCovered'
      BY <2>2, <3>1, TableStaysCovered
    <3> QED
      BY <2>1, <2>2, <3>2, <3>3, <3>4 DEF TableSafe
  <2>3. CASE testnum # 5
    <3>1. UNCHANGED tableVars
      BY <2>3 DEF TNext, tvars
    <3> QED
      BY <2>1, <2>3, <3>1 DEF TableSafe, TableInit, tableVars
  <2> QED
    BY <2>2, <2>3
<1> QED
  BY <1>1, <1>2, AlwaysKnown, PTL DEF TSpec

\* The table and its counter stay consistent in every test.
THEOREM TableStaysConsistent == TSpec => [](TableTypeOK /\ CountExact)
<1>1. TableSafe => TableTypeOK /\ CountExact
  BY FreshTable DEF TableSafe, TableInv
<1> QED
  BY <1>1, TableAlwaysSafe, PTL

\* With one thread that releases, no wakeup is lost across Alloc() and Release().
THEOREM NoReleaserStranded == TSpec => []NoStrandedReleaser
<1>1. Known /\ TableSafe => NoStrandedReleaser
  <2> SUFFICES ASSUME Known, TableSafe, mode = "Halted", Cardinality(Releasers) = 1,
                      NEW t \in Threads, pc[t] \in {"release", "occupied"}, tableBase[index[t]]
               PROVE  FALSE
    BY DEF NoStrandedReleaser, Releasers
  <2>1. testnum = 5 /\ MonitorKnown /\ pc[Main] = "none" /\ CallersAlive
    BY DEF Known, InPlace, PointsOf, ListPoints, BufferPoints, MonitorKnown
  <2>2. pc[t] = "occupied"
    BY <2>1 DEF MonitorKnown, OnlyWaitersLeft, AtTest
  <2>3. Coming("occupied", {"placed"}) = 0
    BY <2>1, <2>2, NothingComing DEF AtTest, Within
  <2>4. t \in Releasers
    <3>1. status[t] # "JUST_CREATED" /\ t # Main
      BY <2>1, <2>2 DEF CallersAlive
    <3>2. t \in Forked
      BY <2>1, <3>1 DEF TableSafe, OthersUnborn, Tested
    <3>3. which[t] % 2 = 0
      BY <2>1, <2>2 DEF TableSafe, TableInv
    <3> QED
      BY <3>2, <3>3 DEF Releasers
  <2>5. Releasers = {t}
    <3>1. IsFiniteSet(Releasers)
      BY KernelAssumption, FS_Subset DEF Releasers, Forked, Tested
    <3>2. PICK x : Releasers = {x}
      BY <3>1, FS_Singleton
    <3> QED
      BY <2>4, <3>2
  <2>6. Coming("occupied", {"placed"}) >= 1
    BY <2>1, <2>2, <2>5 DEF TableSafe, TableCovered
  <2> QED
    BY <2>3, <2>6
<1> QED
  BY <1>1, AlwaysKnown, TableAlwaysSafe, PTL

-----------------------------------------------------------------------------
(* DLList.                                                                 *)

\* Every set of numbers has a least one.
LEMMA Least ==
    ASSUME NEW S \in SUBSET Nat, S # {}
    PROVE  \E m \in S : \A n \in S : m <= n
<1> DEFINE R == {p \in Nat \X Nat : p[1] < p[2]}
<1>1. IsWellFoundedOn(R, Nat)
  BY NatLessThanWellFounded DEF OpToRel
<1>2. PICK m \in S : \A n \in S : << n, m >> \notin R
  BY <1>1, WFMin
<1>3. \A n \in S : m \in Nat /\ n \in Nat /\ ~(n < m)
  BY <1>2
<1> QED
  BY <1>2, <1>3

\* There are n numbers from 1 to n.
LEMMA CountOfNumbers ==
    ASSUME NEW n \in Nat
    PROVE  IsFiniteSet(1..n) /\ Cardinality(1..n) = n
<1>1. 1 \in Int /\ n \in Int
  OBVIOUS
<1>2. IsFiniteSet(1..n) /\ Cardinality(1..n) = IF 1 > n THEN 0 ELSE n - 1 + 1
  BY <1>1, FS_Interval
<1> QED
  BY <1>2

\* The elements of s, in that order, are what one meets from f on along nx, and l is
\* the last of them.
Linked(s, f, l, nx) ==
    /\ s \in Seq(Nodes)
    /\ \A i, j \in 1..Len(s) : s[i] = s[j] => i = j
    /\ f = IF s = << >> THEN NULL ELSE s[1]
    /\ l = IF s = << >> THEN NULL ELSE s[Len(s)]
    /\ \A i \in 1..Len(s) : nx[s[i]] = IF i = Len(s) THEN NULL ELSE s[i + 1]

\* A walk meets them all, and nothing after them.
LEMMA WalkMeets ==
    \A s : Linked(s, first, last, next) =>
        /\ Len(s) <= MaxNodes
        /\ Met = [k \in 1..MaxNodes + 1 |-> IF k <= Len(s) THEN s[k] ELSE NULL]
        /\ Chain = s
<1> SUFFICES ASSUME NEW s, Linked(s, first, last, next)
             PROVE  /\ Len(s) <= MaxNodes
                    /\ Met = [k \in 1..MaxNodes + 1 |-> IF k <= Len(s) THEN s[k] ELSE NULL]
                    /\ Chain = s
  OBVIOUS
<1> USE DLListAssumption
<1> DEFINE g == [k \in 1..MaxNodes + 1 |-> IF k <= Len(s) THEN s[k] ELSE NULL]
<1>1. /\ s \in Seq(Nodes) /\ Len(s) \in Nat
      /\ \A i \in 1..Len(s) : s[i] \in Nodes /\ s[i] # NULL
      /\ \A i, j \in 1..Len(s) : s[i] = s[j] => i = j
      /\ first = IF s = << >> THEN NULL ELSE s[1]
      /\ \A i \in 1..Len(s) : next[s[i]] = IF i = Len(s) THEN NULL ELSE s[i + 1]
      /\ s = << >> <=> Len(s) = 0
      /\ s = [k \in 1..Len(s) |-> s[k]]
  BY DEF Linked, Nodes
<1>2. Len(s) <= MaxNodes
  <2>1. s \in Injection(1..Len(s), Nodes)
    BY <1>1 DEF Injection, IsInjective
  <2>2. /\ IsFiniteSet(Nodes) /\ Cardinality(Nodes) = MaxNodes
        /\ Cardinality(1..Len(s)) = Len(s)
    BY <1>1, CountOfNumbers DEF Nodes
  <2> QED
    BY <2>1, <2>2, FS_Injection
\* The function that Met should be solves the equation that defines Met.
<1>3. g = [k \in 1..MaxNodes + 1 |->
             IF k = 1 THEN first
             ELSE IF g[k - 1] = NULL THEN NULL ELSE next[g[k - 1]]]
  <2> SUFFICES ASSUME NEW k \in 1..MaxNodes + 1
               PROVE  g[k] = IF k = 1 THEN first
                             ELSE IF g[k - 1] = NULL THEN NULL ELSE next[g[k - 1]]
    OBVIOUS
  <2>1. CASE k = 1
    BY <1>1, <2>1
  <2>2. CASE k # 1
    <3>1. k - 1 \in 1..MaxNodes + 1 /\ k \in Nat
      BY <2>2
    <3>2. CASE k - 1 > Len(s)
      <4>1. g[k] = NULL /\ g[k - 1] = NULL
        BY <1>1, <3>1, <3>2
      <4> QED
        BY <2>2, <4>1
    <3>3. CASE k - 1 <= Len(s)
      <4>1. k - 1 \in 1..Len(s) /\ g[k - 1] = s[k - 1] /\ s[k - 1] # NULL
        BY <1>1, <3>1, <3>3
      <4>2. next[s[k - 1]] = IF k - 1 = Len(s) THEN NULL ELSE s[k]
        BY <1>1, <3>1, <4>1
      <4>3. g[k] = next[s[k - 1]]
        BY <1>1, <3>1, <3>3, <4>2
      <4> QED
        BY <2>2, <4>1, <4>3
    <3> QED
      BY <1>1, <3>1, <3>2, <3>3
  <2> QED
    BY <2>1, <2>2
<1> HIDE DEF g
<1>4. Met = [k \in 1..MaxNodes + 1 |->
               IF k = 1 THEN first
               ELSE IF Met[k - 1] = NULL THEN NULL ELSE next[Met[k - 1]]]
  BY <1>3 DEF Met
\* And there is only one that does.
<1>5. \A k \in 1..MaxNodes + 1 : Met[k] = g[k]
  <2> DEFINE S == {k \in 1..MaxNodes + 1 : Met[k] # g[k]}
  <2> SUFFICES ASSUME S # {}
               PROVE  FALSE
    OBVIOUS
  <2>1. S \in SUBSET Nat
    OBVIOUS
  <2>2. PICK m \in S : \A n \in S : m <= n
    BY <2>1, Least
  <2>3. CASE m = 1
    BY <1>3, <1>4, <2>2, <2>3
  <2>4. CASE m # 1
    <3>1. m - 1 \in 1..MaxNodes + 1 /\ ~(m <= m - 1) /\ m \in 1..MaxNodes + 1
      BY <2>4
    <3>2. Met[m - 1] = g[m - 1]
      BY <2>2, <3>1
    <3>3. Met[m] = g[m]
      BY <1>3, <1>4, <2>4, <3>1, <3>2
    <3> QED
      BY <2>2, <3>3
  <2> QED
    BY <2>3, <2>4
<1>6. Met = g
  <2>1. Met = [k \in 1..MaxNodes + 1 |-> Met[k]]
    BY <1>4
  <2>2. g = [k \in 1..MaxNodes + 1 |-> g[k]]
    BY <1>3
  <2> QED
    BY <1>5, <2>1, <2>2
<1>7. {j \in 1..MaxNodes : Met[j] # NULL} = 1..Len(s)
  <2>1. \A j \in 1..MaxNodes : Met[j] # NULL <=> j <= Len(s)
    BY <1>1, <1>6 DEF g
  <2> QED
    BY <1>1, <1>2, <2>1
<1>8. Chain = s
  <2>1. Cardinality(1..Len(s)) = Len(s)
    BY <1>1, CountOfNumbers
  <2>2. Chain = [k \in 1..Len(s) |-> Met[k]]
    BY <1>7, <2>1 DEF Chain
  <2>3. \A k \in 1..Len(s) : Met[k] = s[k]
    BY <1>1, <1>2, <1>6 DEF g
  <2> QED
    BY <1>1, <2>2, <2>3
<1> QED
  BY <1>2, <1>6, <1>8 DEF g

\* Where a thread works on the links of the list.
Linking == {"dlink", "search", "head", "middle", "end"}

\* Test 3 does not keep to the monitor: a thread may keep the lock for ever, and ask
\* for it again.  What a thread does in the lock agrees with its point in
\* SortedInsert() all the same.
InsertAgreesAt(t) ==
    \/ pc[t] = "none" /\ phase[t] = "outside" /\ condPhase[t] = "idle"
    \/ pc[t] = "insert" /\ phase[t] \in {"acquiring", "acquired"} /\ condPhase[t] = "idle"
    \/ pc[t] \in {"search", "head", "middle", "end", "kept", "again", "dsignal"} /\ InLock(t)
    \/ pc[t] = "drelease" /\ phase[t] = "holding" /\ condPhase[t] \in {"idle", "signalling"}

\* The lock is given once at a time, and not at all to a thread that has it.
InsertKnown ==
    /\ phase \in [Threads -> Phases]
    /\ condPhase \in [Threads -> CondPhases]
    /\ cond \in [Threads -> Conds \cup {NULL}]
    /\ blockNum \in [Conds -> Int]
    /\ threadHoldLock \in Threads \cup {NULL}
    /\ inP \in [Threads -> {NULL, mutex}]
    /\ \A t \in Threads : /\ InsertAgreesAt(t)
                          /\ inP[t] = mutex => phase[t] = "acquiring" \/ pc[t] = "again"
    /\ value \in [Semaphores -> Int]
    /\ value[mutex] \in {0, 1}
    /\ value[mutex] = 1 => \A t \in Threads : ~Inside(t)
    /\ MutualExclusion

\* The kernel steps that neither touch mutex nor end or begin a P().
LEMMA MutexKept ==
    ASSUME value \in [Semaphores -> Int],
           \/ \E t \in Threads : PSleep(t, mutex) \/ Fork(t)
           \/ \E s \in Semaphores \ {mutex} : V(s) \/ Interrupt(s)
           \/ Yield \/ Finish \/ Dispatch \/ Halt \/ Preempt
           \/ UNCHANGED kvars
    PROVE  inP' = inP /\ value'[mutex] = value[mutex] /\ value' \in [Semaphores -> Int]
<1> USE LockAssumption
<1>1. ASSUME NEW s \in Semaphores \ {mutex}, V(s)
      PROVE  inP' = inP /\ value'[mutex] = value[mutex] /\ value' \in [Semaphores -> Int]
  BY <1>1, VMovesNobody
<1>2. UNCHANGED kvars => UNCHANGED << inP, value >>
  BY DEF kvars, semaphoreVars
<1> QED
  BY <1>1, <1>2, SwitchMovesNobody DEF Interrupt

\* The steps of test 3.
InsertStep(t) ==
    \/ Calls(t, "insert")
    \/ Moves(t, "kept", "again") /\ PEnter(t, mutex) /\ UNCHANGED << lockKept, condVars >>
    \/ Acquiring(t)
    \/ Enters(t, "insert", "search")
    \/ \E q \in {"head", "middle", "end"} : YieldsIf(t, "search", q)
    \/ \E p \in Linking, q \in {"kept", "dsignal"} : Works(t, p, q)
    \/ Signals(t, "dsignal", "drelease", dllistEmpty)
    \/ SignalReturns(t, dllistEmpty)
    \/ Leaves(t, "drelease")
    \/ pc[t] = "again" /\ PSleep(t, mutex) /\ UNCHANGED << lockKept, condVars, pc >>
    \/ /\ pc[t] \in {"none", "kept"}
       /\ Executing(t) /\ (Yield \/ Finish \/ \E u \in Threads : Fork(u))
       /\ UNCHANGED << lockKept, condVars, pc >>

LEMMA InsertSteps ==
    ASSUME InPlace, testnum = 3, [TNext]_tvars, \A t \in Threads : InsertAgreesAt(t)
    PROVE  (\E t \in Threads : InsertStep(t)) \/ MMachineStep \/ UNCHANGED mvars
<1>1. /\ pc \in [Threads -> PointsOf(3)] /\ pc[Main] = "none"
  BY DEF InPlace
<1>2. ASSUME NEW t \in Tested, DLListTest3(t)
      PROVE  InsertStep(t)
  <2>1. pc[t] \in PointsOf(3) /\ t \in Threads /\ InsertAgreesAt(t)
    BY <1>1 DEF Tested
  <2> USE DEF InsertStep, Linking
  <2>2. CASE InsertCall(t) \/ InsertCallAgain(t) \/ \E k : InsertEnter(t, k)
    BY <2>2 DEF InsertCall, InsertCallAgain, InsertEnter
  <2>3. CASE \/ DAppendEnter(t) \/ DAppendLink(t) \/ DRemoveEnter(t) \/ DRemoveWait(t)
             \/ DRemoveWaits(t) \/ DRemoveFirst(t)
    BY <2>1, <2>3 DEF DAppendEnter, DAppendLink, DRemoveEnter, DRemoveWait, DRemoveWaits,
       DRemoveFirst, Enters, Works, StartsWait, Waits, WaitEnter, WaitSleep, WaitTake,
       WaitReacquire, WaitReturn, Goes, Moves, PointsOf, InsertAgreesAt, InLock
  <2>4. CASE DSignal(t) \/ DSignalReturn(t) \/ DReturn(t)
    BY <2>1, <2>4 DEF DSignal, DSignalReturn, DReturn, Leaves, Moves, PointsOf
  <2>5. CASE InsertOnly(t) \/ InsertHead(t) \/ InsertMiddle(t) \/ InsertEnd(t)
    BY <2>5 DEF InsertOnly, InsertHead, InsertMiddle, InsertEnd
  <2>6. CASE SearchHead(t) \/ (\E p : SearchMiddle(t, p) \/ SearchEnd(t, p)) \/ InsertSleeps(t)
    BY <2>6 DEF SearchHead, SearchMiddle, SearchEnd, InsertSleeps
  <2> QED
    BY <1>2, <2>2, <2>3, <2>4, <2>5, <2>6 DEF DLListTest3, DLLStep
<1>3. ASSUME NEW t \in Tested, Acquiring(t) \/ TestedRest(t)
      PROVE  InsertStep(t)
  BY <1>3 DEF TestedRest, InsertStep
<1>4. MainStep => InsertStep(Main)
  BY <1>1 DEF MainStep, InsertStep, Forked, Tested
<1>5. UNCHANGED tvars => UNCHANGED mvars
  BY DEF tvars
<1> QED
  BY <1>2, <1>3, <1>4, <1>5, KernelAssumption DEF TNext, ScriptRest, Tested

\* No step of test 3 gives the lock twice.
LEMMA InsertStaysKnown ==
    ASSUME InPlace, testnum = 3, InsertKnown,
           (\E t \in Threads : InsertStep(t)) \/ MMachineStep \/ UNCHANGED mvars
    PROVE  InsertKnown'
<1> USE KernelAssumption, LockAssumption, ConditionAssumption, DLListAssumption
<1>0. /\ phase \in [Threads -> Phases] /\ condPhase \in [Threads -> CondPhases]
      /\ inP \in [Threads -> {NULL, mutex}] /\ value \in [Semaphores -> Int]
      /\ mutex # NULL /\ dllistEmpty \in Semaphores \ {mutex}
  BY DEF InsertKnown
\* The steps that leave the semaphore of the lock alone.
<1>1. ASSUME UNCHANGED inP, value'[mutex] = value[mutex], value' \in [Semaphores -> Int],
             UNCHANGED << lockKept, condVars, pc >>
      PROVE  InsertKnown'
  BY <1>1 DEF InsertKnown, InsertAgreesAt, InLock, MutualExclusion, Inside, lockKept, condVars
\* Those in which one thread moves and nobody comes into the lock or out of it.
<1>17. ASSUME NEW t \in Threads, Inside(t)' <=> Inside(t),
              value'[mutex] = value[mutex], value' \in [Semaphores -> Int],
              \A u \in Threads \ {t} : /\ pc'[u] = pc[u] /\ phase'[u] = phase[u]
                                      /\ condPhase'[u] = condPhase[u] /\ inP'[u] = inP[u],
              phase' \in [Threads -> Phases], condPhase' \in [Threads -> CondPhases],
              inP' \in [Threads -> {NULL, mutex}], cond' \in [Threads -> Conds \cup {NULL}],
              blockNum' \in [Conds -> Int], threadHoldLock' \in Threads \cup {NULL},
              InsertAgreesAt(t)', inP'[t] = mutex => phase'[t] = "acquiring" \/ pc'[t] = "again"
       PROVE  InsertKnown'
  <2>1. \A u \in Threads : InsertAgreesAt(u)' /\ (Inside(u)' <=> Inside(u))
                          /\ (inP'[u] = mutex => phase'[u] = "acquiring" \/ pc'[u] = "again")
    <3> SUFFICES ASSUME NEW u \in Threads, u # t
                 PROVE  /\ InsertAgreesAt(u)' /\ (Inside(u)' <=> Inside(u))
                        /\ (inP'[u] = mutex => phase'[u] = "acquiring" \/ pc'[u] = "again")
      BY <1>17
    <3> QED
      BY <1>17 DEF InsertKnown, InsertAgreesAt, InLock, Inside
  <2> HIDE DEF InsertAgreesAt, Inside
  <2> QED
    BY <1>17, <2>1 DEF InsertKnown, MutualExclusion
<1>18. /\ cond \in [Threads -> Conds \cup {NULL}] /\ blockNum \in [Conds -> Int]
       /\ threadHoldLock \in Threads \cup {NULL}
       /\ pc \in [Threads -> PointsOf(3)]
       /\ \A t \in Threads : InsertAgreesAt(t)
                            /\ (inP[t] = mutex => phase[t] = "acquiring" \/ pc[t] = "again")
  BY DEF InsertKnown, InPlace
<1>2. ASSUME NEW t \in Threads, Calls(t, "insert")
      PROVE  InsertKnown'
  <2>1. /\ pc[t] = "none" /\ pc' = [pc EXCEPT ![t] = "insert"]
        /\ phase[t] = "outside" /\ inP[t] = NULL
        /\ phase' = [phase EXCEPT ![t] = "acquiring"]
        /\ inP' = [inP EXCEPT ![t] = mutex]
        /\ UNCHANGED << value, threadHoldLock, condPhase, cond, blockNum >>
    BY <1>2, LockMoves DEF Calls, Moves, condVars, Acquire
  <2> QED
    BY <1>0, <1>17, <1>18, <2>1 DEF InsertAgreesAt, InLock, Inside, Phases
<1>3. ASSUME NEW t \in Threads, Moves(t, "kept", "again"), PEnter(t, mutex),
             UNCHANGED << lockKept, condVars >>
      PROVE  InsertKnown'
  <2>1. /\ pc[t] = "kept" /\ pc' = [pc EXCEPT ![t] = "again"]
        /\ inP' = [inP EXCEPT ![t] = mutex]
        /\ UNCHANGED << value, phase, threadHoldLock, condPhase, cond, blockNum >>
    BY <1>3 DEF Moves, PEnter, condVars, lockKept
  <2> QED
    BY <1>0, <1>17, <1>18, <2>1 DEF InsertAgreesAt, InLock, Inside, Phases
<1>4. ASSUME NEW t \in Threads, AcquireTake(t), UNCHANGED << condVars, pc >>
      PROVE  InsertKnown'
  <2>1. /\ inP[t] = mutex /\ value[mutex] = 1
        /\ phase' = [phase EXCEPT ![t] = "acquired"]
        /\ inP' = [inP EXCEPT ![t] = NULL]
        /\ value' = [value EXCEPT ![mutex] = value[mutex] - 1]
        /\ UNCHANGED << pc, threadHoldLock, condPhase, cond, blockNum >>
    BY <1>4, LockMoves DEF InsertKnown, AcquireTake, PTake, condVars
  <2>2. /\ \A u \in Threads : ~Inside(u)
        /\ value'[mutex] = 0
    BY <1>0, <2>1 DEF InsertKnown
  <2>3. pc[t] = "insert" /\ phase[t] = "acquiring" /\ condPhase[t] = "idle"
    BY <2>1, <2>2 DEF InsertKnown, InsertAgreesAt, Inside, InLock
  <2>4. \A u \in Threads : phase'[u] = IF u = t THEN "acquired" ELSE phase[u]
    BY <1>0, <2>1
  <2>5. MutualExclusion'
    BY <2>2, <2>4 DEF MutualExclusion, Inside
  <2> QED
    BY <1>0, <2>1, <2>2, <2>3, <2>5 DEF InsertKnown, InsertAgreesAt, InLock, Phases
<1>5. ASSUME NEW t \in Threads, Enters(t, "insert", "search")
      PROVE  InsertKnown'
  <2>1. /\ pc[t] = "insert" /\ pc' = [pc EXCEPT ![t] = "search"]
        /\ phase[t] = "acquired" /\ condPhase[t] = "idle"
        /\ phase' = [phase EXCEPT ![t] = "holding"] /\ threadHoldLock' = t
        /\ UNCHANGED << inP, value, condPhase, cond, blockNum >>
    BY <1>5, LockMoves DEF Enters, Moves, AcquireReturn, condVars
  <2> QED
    BY <1>0, <1>17, <1>18, <2>1 DEF InsertAgreesAt, InLock, Inside, Phases
\* The steps that work on the list.
<1>6. ASSUME NEW t \in Threads, NEW p \in Linking, NEW q \in {"head", "middle", "end", "kept", "dsignal"},
             pc[t] = p, pc' = [pc EXCEPT ![t] = q],
             UNCHANGED << inP, phase, threadHoldLock, condPhase, cond, blockNum, value >>
      PROVE  InsertKnown'
  BY <1>0, <1>6 DEF InsertKnown, InsertAgreesAt, InLock, MutualExclusion, Inside, Phases, Linking
<1>7. ASSUME NEW t \in Threads, NEW q \in {"head", "middle", "end"}, YieldsIf(t, "search", q)
      PROVE  InsertKnown'
  <2>1. UNCHANGED << inP, value >>
    BY <1>7, SwitchMovesNobody DEF YieldsIf, kvars, semaphoreVars
  <2> QED
    BY <1>6, <1>7, <2>1 DEF YieldsIf, Moves, lockKept, condVars, Linking
<1>8. ASSUME NEW t \in Threads, NEW p \in Linking, NEW q \in {"kept", "dsignal"}, Works(t, p, q)
      PROVE  InsertKnown'
  BY <1>6, <1>8 DEF Works, Moves, cvars, lvars, kvars, semaphoreVars, condVars
<1>9. ASSUME NEW t \in Threads, Signals(t, "dsignal", "drelease", dllistEmpty)
      PROVE  InsertKnown'
  <2>1. /\ pc[t] = "dsignal" /\ pc' = [pc EXCEPT ![t] = "drelease"] /\ phase[t] = "holding"
        /\ condPhase' = [condPhase EXCEPT ![t] = "signalling"]
        /\ cond' = [cond EXCEPT ![t] = dllistEmpty]
        /\ V(dllistEmpty)
        /\ UNCHANGED << phase, threadHoldLock, blockNum >>
    BY <1>9 DEF Signals, Moves, Signal, Goes, InLock, lockKept
  <2>2. UNCHANGED inP /\ value'[mutex] = value[mutex] /\ value' \in [Semaphores -> Int]
    BY <1>0, <2>1, MutexKept
  <2> QED
    BY <1>0, <1>17, <1>18, <2>1, <2>2 DEF InsertAgreesAt, InLock, Inside, CondPhases
<1>10. ASSUME NEW t \in Threads, SignalReturns(t, dllistEmpty)
       PROVE  InsertKnown'
  <2>1. /\ condPhase[t] = "signalling" /\ condPhase' = [condPhase EXCEPT ![t] = "idle"]
        /\ cond' = [cond EXCEPT ![t] = NULL]
        /\ blockNum' = [blockNum EXCEPT ![dllistEmpty] = @ - 1]
        /\ UNCHANGED << pc, inP, value, phase, threadHoldLock >>
    BY <1>10 DEF SignalReturns, SignalReturn, Goes, lvars, kvars, semaphoreVars
  <2>2. blockNum' \in [Conds -> Int]
    BY <2>1 DEF InsertKnown
  <2> QED
    BY <1>0, <1>17, <1>18, <2>1, <2>2 DEF InsertAgreesAt, InLock, Inside, CondPhases
<1>11. ASSUME NEW t \in Threads, Leaves(t, "drelease")
       PROVE  InsertKnown'
  <2>1. /\ pc[t] = "drelease" /\ pc' = [pc EXCEPT ![t] = "none"]
        /\ phase[t] = "holding" /\ condPhase[t] = "idle" /\ inP[t] = NULL
        /\ phase' = [phase EXCEPT ![t] = "outside"] /\ threadHoldLock' = NULL
        /\ value' = [value EXCEPT ![mutex] = value[mutex] + 1]
        /\ UNCHANGED << inP, condPhase, cond, blockNum >>
    BY <1>11, LockMoves DEF Leaves, Moves, condVars, Release
  <2>2. value[mutex] = 0 /\ \A u \in Threads : Inside(u) => u = t
    BY <2>1 DEF InsertKnown, MutualExclusion, Inside
  <2>3. value'[mutex] = 1 /\ \A u \in Threads : ~Inside(u)'
    BY <1>0, <2>1, <2>2 DEF Inside
  <2>4. \A u \in Threads : InsertAgreesAt(u)'
    BY <1>0, <1>18, <2>1 DEF InsertAgreesAt, InLock
  <2>5. \A u \in Threads : inP'[u] = mutex => phase'[u] = "acquiring" \/ pc'[u] = "again"
    BY <1>0, <1>18, <2>1
  <2>6. /\ phase' \in [Threads -> Phases] /\ condPhase' = condPhase /\ cond' = cond
        /\ blockNum' = blockNum /\ threadHoldLock' \in Threads \cup {NULL} /\ inP' = inP
        /\ value' \in [Semaphores -> Int]
    BY <1>0, <2>1 DEF Phases
  <2> HIDE DEF Inside, InsertAgreesAt
  <2> QED
    BY <1>0, <1>18, <2>3, <2>4, <2>5, <2>6 DEF InsertKnown, MutualExclusion
<1>12. ASSUME NEW t \in Threads, AcquireSleep(t) \/ PSleep(t, mutex), UNCHANGED << lockKept, condVars, pc >>
       PROVE  InsertKnown'
  BY <1>1, <1>12, <1>0, MutexKept DEF AcquireSleep
<1>13. ASSUME Yield \/ Finish \/ \E u \in Threads : Fork(u), UNCHANGED << lockKept, condVars, pc >>
       PROVE  InsertKnown'
  BY <1>0, <1>1, <1>13, MutexKept
<1>14. CASE MMachineStep
  <2>1. \/ Dispatch \/ Halt \/ Preempt
        \/ \E s \in Semaphores \ {mutex} : Interrupt(s)
    BY <1>14 DEF MMachineStep, CMachineStep, Others
  <2> QED
    BY <1>0, <1>1, <1>14, <2>1, MutexKept DEF MMachineStep, CMachineStep
<1>15. CASE UNCHANGED mvars
  <2>1. UNCHANGED kvars /\ UNCHANGED << lockKept, condVars, pc >>
    BY <1>15 DEF mvars, cvars, lvars, lockKept
  <2> QED
    BY <1>0, <1>1, <2>1, MutexKept
<1>16. ASSUME NEW t \in Threads, Acquiring(t)
       PROVE  InsertKnown'
  BY <1>4, <1>12, <1>16 DEF Acquiring, AcquireSleep, lockKept
<1> QED
  BY <1>2, <1>3, <1>5, <1>7, <1>8, <1>9, <1>10, <1>11, <1>12, <1>13, <1>14, <1>15, <1>16
     DEF InsertStep

\* Test 3 is a program of the kernel, and InsertKnown holds in every state of it.
LEMMA InsertAlwaysKnown == TSpec /\ testnum = 3 => [](KTypeOK /\ InsertKnown)
<1> USE KernelAssumption, LockAssumption, ConditionAssumption, DLListAssumption
<1>1. TInit => KInit /\ InsertKnown
  BY DEF TInit, SInit, MInit, CInit, LInit, KInit, InsertKnown, InsertAgreesAt, Phases, CondPhases,
         MutualExclusion, Inside
<1>2. (\E t \in Threads : InsertStep(t)) \/ MMachineStep \/ UNCHANGED mvars => [KNext]_kvars
  <2>1. ASSUME NEW t \in Threads, InsertStep(t)
        PROVE  [KNext]_kvars
    <3>1. dllistEmpty \in Semaphores
      OBVIOUS
    <3> QED
      BY <2>1, <3>1 DEF InsertStep, KNext, ThreadStep, Calls, Acquire, Acquiring, AcquireSleep, AcquireTake,
         Enters, AcquireReturn, YieldsIf, Works, Signals, Signal, SignalReturns, SignalReturn,
         Leaves, Release, cvars, lvars
  <2>2. MMachineStep => KNext
    BY DEF MMachineStep, CMachineStep, KNext, MachineStep, Others
  <2>3. UNCHANGED mvars => UNCHANGED kvars
    BY DEF mvars, cvars, lvars
  <2> QED
    BY <2>1, <2>2, <2>3
<1>3. InPlace /\ testnum = 3 /\ InsertKnown /\ [TNext]_tvars
        => (\E t \in Threads : InsertStep(t)) \/ MMachineStep \/ UNCHANGED mvars
  BY InsertSteps DEF InsertKnown
<1>4. InPlace /\ testnum = 3 /\ InsertKnown /\ [TNext]_tvars => InsertKnown'
  BY <1>3, InsertStaysKnown
<1>5. InPlace /\ testnum = 3 /\ InsertKnown /\ [TNext]_tvars => [KNext]_kvars
  BY <1>2, <1>3
<1> QED
  BY <1>1, <1>4, <1>5, EverybodyInPlace, Typing, PTL DEF TSpec, KSpec

\* s with n before its i-th element.
Inserted(s, i, n) ==
    [k \in 1..Len(s) + 1 |-> IF k < i THEN s[k] ELSE IF k = i THEN n ELSE s[k - 1]]

\* A new element between two others, or at one of the ends.
LEMMA LinkedInserted ==
    ASSUME NEW s, NEW f, NEW l, NEW nx, NEW f1, NEW l1, NEW nx1, Linked(s, f, l, nx),
           NEW i \in 1..Len(s) + 1, NEW n \in Nodes, \A j \in 1..Len(s) : s[j] # n,
           nx1[n] = IF i = Len(s) + 1 THEN NULL ELSE s[i],
           \A j \in 1..Len(s) : nx1[s[j]] = IF j = i - 1 THEN n ELSE nx[s[j]],
           f1 = IF i = 1 THEN n ELSE f,
           l1 = IF i = Len(s) + 1 THEN n ELSE l
    PROVE  Linked(Inserted(s, i, n), f1, l1, nx1)
<1> DEFINE r == Inserted(s, i, n)
           N == Len(s)
<1>1. /\ s \in Seq(Nodes) /\ N \in Nat
      /\ \A j \in 1..N : s[j] \in Nodes
      /\ \A j, k \in 1..N : s[j] = s[k] => j = k
      /\ f = IF N = 0 THEN NULL ELSE s[1]
      /\ l = IF N = 0 THEN NULL ELSE s[N]
      /\ \A j \in 1..N : nx[s[j]] = IF j = N THEN NULL ELSE s[j + 1]
  BY DEF Linked
<1>2. /\ i \in 1..N + 1
      /\ nx1[n] = IF i = N + 1 THEN NULL ELSE s[i]
      /\ \A j \in 1..N : nx1[s[j]] = IF j = i - 1 THEN n ELSE nx[s[j]]
      /\ f1 = IF i = 1 THEN n ELSE f
      /\ l1 = IF i = N + 1 THEN n ELSE l
      /\ \A j \in 1..N : s[j] # n
  OBVIOUS
<1>3. r = [k \in 1..N + 1 |-> IF k < i THEN s[k] ELSE IF k = i THEN n ELSE s[k - 1]]
  BY DEF Inserted
<1> HIDE DEF N
<1>4. \A k \in 1..N + 1 : r[k] = IF k < i THEN s[k] ELSE IF k = i THEN n ELSE s[k - 1]
  BY <1>3
<1> HIDE DEF r
<1> DEFINE from(k) == IF k < i THEN k ELSE k - 1
<1>11. \A k \in 1..N + 1 : IF k = i THEN r[k] = n ELSE from(k) \in 1..N /\ r[k] = s[from(k)]
  <2> SUFFICES ASSUME NEW k \in 1..N + 1
               PROVE  IF k = i THEN r[k] = n ELSE from(k) \in 1..N /\ r[k] = s[from(k)]
    OBVIOUS
  <2>1. r[k] = IF k < i THEN s[k] ELSE IF k = i THEN n ELSE s[k - 1]
    BY <1>4
  <2>2. CASE k < i
    BY <1>1, <1>2, <2>1, <2>2
  <2>3. CASE k = i
    BY <1>1, <1>2, <2>1, <2>3
  <2>4. CASE k > i
    BY <1>1, <1>2, <2>1, <2>4
  <2> QED
    BY <1>1, <1>2, <2>2, <2>3, <2>4
<1>5. r \in Seq(Nodes) /\ Len(r) = N + 1
  <2>1. \A k \in 1..N + 1 : r[k] \in Nodes
    BY <1>1, <1>11
  <2>2. r \in [1..N + 1 -> Nodes] /\ N + 1 \in Nat
    BY <1>1, <1>3, <2>1
  <2> QED
    BY <2>2
<1>6. \A j, k \in 1..N + 1 : r[j] = r[k] => j = k
  <2> SUFFICES ASSUME NEW j \in 1..N + 1, NEW k \in 1..N + 1, r[j] = r[k]
               PROVE  j = k
    OBVIOUS
  <2>1. j = i <=> k = i
    BY <1>2, <1>11
  <2>2. CASE j # i
    <3>1. from(j) \in 1..N /\ from(k) \in 1..N /\ s[from(j)] = s[from(k)]
      BY <1>11, <2>1, <2>2
    <3>2. from(j) = from(k)
      BY <1>1, <3>1
    <3> QED
      BY <1>1, <1>2, <2>1, <2>2, <3>2
  <2> QED
    BY <2>1, <2>2
<1>7. f1 = r[1]
  BY <1>1, <1>2, <1>4
<1>8. l1 = r[N + 1]
  BY <1>1, <1>2, <1>4
<1>9. ASSUME NEW k \in 1..N + 1
      PROVE  nx1[r[k]] = IF k = N + 1 THEN NULL ELSE r[k + 1]
  <2>1. CASE k < i - 1
    <3>1. k \in 1..N /\ r[k] = s[k] /\ r[k + 1] = s[k + 1] /\ k # N
      BY <1>1, <1>2, <1>4, <2>1
    <3> QED
      BY <1>1, <1>2, <2>1, <3>1
  <2>2. CASE k = i - 1
    <3>1. k \in 1..N /\ r[k] = s[k] /\ r[k + 1] = n /\ k # N + 1
      BY <1>1, <1>2, <1>4, <2>2
    <3> QED
      BY <1>1, <1>2, <2>2, <3>1
  <2>3. CASE k = i
    <3>1. r[k] = n /\ (k # N + 1 => r[k + 1] = s[k])
      BY <1>1, <1>2, <1>4, <2>3
    <3> QED
      BY <1>2, <2>3, <3>1
  <2>4. CASE k > i
    <3>1. k - 1 \in 1..N /\ r[k] = s[k - 1] /\ (k # N + 1 => r[k + 1] = s[k])
      BY <1>1, <1>2, <1>4, <2>4
    <3>2. k - 1 # i - 1 /\ (k - 1 = N <=> k = N + 1) /\ (k - 1) + 1 = k
      BY <1>1, <1>2, <2>4
    <3>3. nx1[s[k - 1]] = IF k - 1 = N THEN NULL ELSE s[(k - 1) + 1]
      BY <1>1, <1>2, <3>1, <3>2
    <3> QED
      BY <3>1, <3>2, <3>3
  <2> QED
    BY <1>1, <1>2, <2>1, <2>2, <2>3, <2>4
<1>10. r # << >>
  BY <1>1, <1>5
<1> QED
  BY <1>5, <1>6, <1>7, <1>8, <1>9, <1>10 DEF Linked, r

\* The elements of such a sequence.
LEMMA InsertedIs ==
    ASSUME NEW s \in Seq(Nodes), NEW i \in 1..Len(s) + 1, NEW n \in Nodes
    PROVE  /\ Len(Inserted(s, i, n)) = Len(s) + 1
           /\ \A k \in 1..Len(s) + 1 :
                Inserted(s, i, n)[k] = n \/ \E j \in 1..Len(s) : Inserted(s, i, n)[k] = s[j]
           /\ i = Len(s) + 1 => Inserted(s, i, n) = Append(s, n)
<1> DEFINE r == Inserted(s, i, n)
           N == Len(s)
<1>1. N \in Nat /\ i \in 1..N + 1 /\ (\A j \in 1..N : s[j] \in Nodes)
  OBVIOUS
<1>2. r = [k \in 1..N + 1 |-> IF k < i THEN s[k] ELSE IF k = i THEN n ELSE s[k - 1]]
  BY DEF Inserted
<1>3. i = N + 1 => r = Append(s, n)
  <2> SUFFICES ASSUME i = N + 1
               PROVE  r = Append(s, n)
    OBVIOUS
  <2>1. /\ Append(s, n) \in Seq(Nodes) /\ Len(Append(s, n)) = N + 1
        /\ \A k \in 1..N : Append(s, n)[k] = s[k]
        /\ Append(s, n)[N + 1] = n
    BY AppendProperties
  <2> HIDE DEF N
  <2>2. \A k \in 1..N + 1 : r[k] = IF k <= N THEN s[k] ELSE n
    BY <1>1, <1>2
  <2>3. r \in Seq(Nodes) /\ Len(r) = N + 1
    <3>1. \A k \in 1..N + 1 : r[k] \in Nodes
      BY <1>1, <2>2
    <3>2. r \in [1..N + 1 -> Nodes] /\ N + 1 \in Nat
      BY <1>1, <1>2, <3>1
    <3> QED
      BY <3>2
  <2>4. \A k \in 1..N + 1 : r[k] = Append(s, n)[k]
    BY <1>1, <2>1, <2>2
  <2> HIDE DEF r
  <2> QED
    BY <2>1, <2>3, <2>4, SeqEqual
<1> HIDE DEF N
<1>4. \A k \in 1..N + 1 : r[k] = IF k < i THEN s[k] ELSE IF k = i THEN n ELSE s[k - 1]
  BY <1>2
<1>5. Len(r) = N + 1
  BY <1>1, <1>2
<1> HIDE DEF r
<1>6. \A k \in 1..N + 1 : r[k] = n \/ \E j \in 1..N : r[k] = s[j]
  BY <1>1, <1>4
<1> QED
  BY <1>3, <1>5, <1>6 DEF r, N

\* Its order.
LEMMA InsertedInOrder ==
    ASSUME NEW s \in Seq(Nodes), NEW i \in 1..Len(s) + 1, NEW n \in Nodes,
           NEW k \in [Nodes -> Int],
           \A j \in 2..Len(s) : k[s[j - 1]] <= k[s[j]],
           i > 1 => k[s[i - 1]] <= k[n],
           i <= Len(s) => k[n] <= k[s[i]],
           NEW j \in 2..Len(s) + 1
    PROVE  k[Inserted(s, i, n)[j - 1]] <= k[Inserted(s, i, n)[j]]
<1> DEFINE r == Inserted(s, i, n)
           N == Len(s)
<1>1. /\ N \in Nat /\ i \in 1..N + 1 /\ j \in 2..N + 1
      /\ \A m \in 2..N : k[s[m - 1]] <= k[s[m]]
      /\ i > 1 => k[s[i - 1]] <= k[n]
      /\ i <= N => k[n] <= k[s[i]]
  OBVIOUS
<1>2. \A m \in 1..N + 1 : r[m] = IF m < i THEN s[m] ELSE IF m = i THEN n ELSE s[m - 1]
  BY DEF Inserted
<1> SUFFICES k[r[j - 1]] <= k[r[j]]
  OBVIOUS
<1> HIDE DEF r, N
<1>3. /\ r[j] = IF j < i THEN s[j] ELSE IF j = i THEN n ELSE s[j - 1]
      /\ r[j - 1] = IF j - 1 < i THEN s[j - 1] ELSE IF j - 1 = i THEN n ELSE s[j - 1 - 1]
  BY <1>1, <1>2
<1>4. CASE j < i
  <2>1. r[j] = s[j] /\ r[j - 1] = s[j - 1] /\ j \in 2..N
    BY <1>1, <1>3, <1>4
  <2> QED
    BY <1>1, <2>1
<1>5. CASE j = i
  <2>1. r[j] = n /\ r[j - 1] = s[i - 1] /\ i > 1
    BY <1>1, <1>3, <1>5
  <2> QED
    BY <1>1, <2>1
<1>6. CASE j = i + 1
  <2>1. r[j] = s[i] /\ r[j - 1] = n /\ i <= N
    BY <1>1, <1>3, <1>6
  <2> QED
    BY <1>1, <2>1
<1>7. CASE j > i + 1
  <2>1. r[j] = s[j - 1] /\ r[j - 1] = s[j - 1 - 1] /\ j - 1 \in 2..N
    BY <1>1, <1>3, <1>7
  <2> QED
    BY <1>1, <2>1
<1> QED
  BY <1>1, <1>4, <1>5, <1>6, <1>7

\* Without the first element.
LEMMA LinkedTail ==
    ASSUME NEW s, NEW f, NEW l, NEW nx, Linked(s, f, l, nx), s # << >>
    PROVE  /\ Linked(Tail(s), nx[f], IF Len(s) = 1 THEN NULL ELSE l, nx)
           /\ Len(Tail(s)) = Len(s) - 1
           /\ \A j \in 1..Len(Tail(s)) : Tail(s)[j] = s[j + 1]
           /\ f = Head(s) /\ f \in Nodes
           /\ \A j \in 1..Len(Tail(s)) : Tail(s)[j] # f
           /\ f = l /\ nx[f] = NULL <=> Len(s) = 1
<1> DEFINE r == Tail(s)
           N == Len(s)
<1>1. /\ s \in Seq(Nodes) /\ N \in Nat \ {0}
      /\ \A j \in 1..N : s[j] \in Nodes /\ s[j] # NULL
      /\ \A j, k \in 1..N : s[j] = s[k] => j = k
      /\ f = s[1] /\ l = s[N] /\ f = Head(s)
      /\ \A j \in 1..N : nx[s[j]] = IF j = N THEN NULL ELSE s[j + 1]
  BY DLListAssumption DEF Linked, Nodes
<1>2. r \in Seq(Nodes) /\ Len(r) = N - 1 /\ \A j \in 1..Len(r) : r[j] = s[j + 1]
  BY <1>1
<1> HIDE DEF r, N
<1>3. 1 \in 1..N /\ N \in 1..N /\ \A j \in 1..N - 1 : j \in 1..N /\ j + 1 \in 1..N
  BY <1>1
<1>4. \A j, k \in 1..Len(r) : r[j] = r[k] => j = k
  BY <1>1, <1>2, <1>3
<1>5. nx[f] = IF r = << >> THEN NULL ELSE r[1]
  <2>1. CASE N = 1
    BY <1>1, <1>2, <1>3, <2>1
  <2>2. CASE N # 1
    <3>1. 1 \in 1..Len(r) /\ r # << >> /\ r[1] = s[2]
      BY <1>1, <1>2, <2>2
    <3> QED
      BY <1>1, <1>3, <2>2, <3>1
  <2> QED
    BY <2>1, <2>2
<1>6. (IF N = 1 THEN NULL ELSE l) = IF r = << >> THEN NULL ELSE r[Len(r)]
  <2>1. CASE N = 1
    BY <1>1, <1>2, <1>3, <2>1
  <2>2. CASE N # 1
    <3>1. Len(r) \in 1..Len(r) /\ r # << >> /\ r[Len(r)] = s[N]
      BY <1>1, <1>2, <2>2
    <3> QED
      BY <1>1, <2>2, <3>1
  <2> QED
    BY <2>1, <2>2
<1>7. ASSUME NEW j \in 1..Len(r)
      PROVE  nx[r[j]] = IF j = Len(r) THEN NULL ELSE r[j + 1]
  <2>1. r[j] = s[j + 1] /\ j + 1 \in 1..N /\ (j = Len(r) <=> j + 1 = N)
    BY <1>1, <1>2, <1>3
  <2>2. j # Len(r) => r[j + 1] = s[j + 1 + 1]
    BY <1>1, <1>2
  <2> QED
    BY <1>1, <2>1, <2>2
<1>8. \A j \in 1..Len(r) : r[j] # f
  BY <1>1, <1>2, <1>3
<1>9. f = l /\ nx[f] = NULL <=> N = 1
  BY <1>1, <1>3
<1> QED
  BY <1>1, <1>2, <1>3, <1>4, <1>5, <1>6, <1>7, <1>8, <1>9 DEF Linked, r, N

\* Everything that is known of the threads, and the lock, in every test.
LockKnown == Known /\ (testnum = 3 => KTypeOK /\ InsertKnown)

LEMMA AlwaysLockKnown == TSpec => []LockKnown
<1>1. testnum # 3 \/ testnum = 3
  OBVIOUS
<1>2. testnum # 3 <=> ~(testnum = 3)
  OBVIOUS
<1> QED
  BY <1>1, <1>2, AlwaysKnown, InsertAlwaysKnown, EverybodyInPlace, PTL DEF LockKnown

\* One thread at a time works on the links, and it has the lock.
LEMMA OneLinks ==
    ASSUME LockKnown
    PROVE  /\ MutualExclusion
           /\ \A t \in Threads : pc[t] \in Linking => Inside(t)
<1>1. CASE testnum = 3
  BY <1>1 DEF LockKnown, InsertKnown, InsertAgreesAt, Linking, Inside, InLock
<1>2. CASE testnum # 3
  <2>1. MutualExclusion /\ Agree /\ pc \in [Threads -> PointsOf(testnum)] /\ testnum \in {0, 4, 5, 6}
    BY <1>2 DEF LockKnown, Known, MonitorKnown, LInv, InPlace
  <2>2. ASSUME NEW t \in Threads, pc[t] \in Linking
        PROVE  Inside(t)
    <3>1. pc[t] = "dlink"
      BY <2>1, <2>2 DEF PointsOf, Linking, ListPoints, BufferPoints, TablePoints
    <3>2. AgreesAt(t)
      BY <2>1 DEF Agree
    <3>3. phase[t] = "holding"
      BY <3>1, <3>2 DEF AgreesAt, InLock, Entering, Within, AtTest, AtSignal
    <3> QED
      BY <3>3 DEF Inside
  <2> QED
    BY <2>1, <2>2
<1> QED
  BY <1>1, <1>2

\* The elements of the list are those that are allocated and not deleted, with their
\* keys in order; an element that is not yet in the list has no successor.
ChainInv ==
    /\ DLLTypeOK
    /\ key \in [Nodes -> Int]
    /\ Linked(Chain, first, last, next)
    /\ \A i \in 1..Len(Chain) : Chain[i] \in 1..allocated /\ Chain[i] \notin freed
    /\ \A i \in 2..Len(Chain) : key[Chain[i - 1]] <= key[Chain[i]]
    /\ \A n \in Nodes : n > allocated => next[n] = NULL
    /\ testnum = 0 => \A n \in 1..allocated : key[n] = 1

\* What t has assigned before it yields, and the place that it has found, still fit
\* the list when it comes back.
LinkAt(t) ==
    /\ pc[t] \in {"dlink", "search", "end"} => next[node[t]] = NULL
    /\ pc[t] = "head" => /\ Chain # << >>
                         /\ next[node[t]] = first
                         /\ key[node[t]] <= key[first]
    /\ pc[t] = "middle" => \E i \in 2..Len(Chain) :
                             /\ place[t] = Chain[i - 1]
                             /\ next[node[t]] = Chain[i]
                             /\ key[Chain[i - 1]] <= key[node[t]]
                             /\ key[node[t]] <= key[Chain[i]]
    /\ pc[t] = "end" => Chain # << >> /\ key[last] <= key[node[t]]

LinkInv ==
    \A t \in Threads : pc[t] \in Linking =>
        /\ node[t] \in 1..allocated /\ node[t] \notin freed
        /\ \A i \in 1..Len(Chain) : Chain[i] # node[t]
        /\ LinkAt(t)

LEMMA ChainIs == \A s : Linked(s, first, last, next) => Chain = s
BY WalkMeets

\* A list whose links are those of s is s.
LEMMA ChainBecomes == \A s : Linked(s, first', last', next') => Chain' = s
<1>1. (\A s : Linked(s, first, last, next) => Chain = s)'
  BY ChainIs, PTL
<1> QED
  BY <1>1

\* The steps that leave the links alone.
LEMMA LinksKept ==
    ASSUME ChainInv, LinkInv, UNCHANGED << links, key, allocated, freed, testnum >>,
           node' \in [Threads -> Nodes \cup {NULL}],
           \A t \in Threads : pc'[t] \in Linking =>
             pc'[t] = pc[t] /\ node'[t] = node[t] /\ place'[t] = place[t],
           place' = place
    PROVE  ChainInv' /\ LinkInv' /\ Chain' = Chain
<1>1. Chain' = Chain
  BY ChainBecomes DEF ChainInv, links
<1> HIDE DEF Chain
<1>2. ChainInv'
  BY <1>1 DEF ChainInv, DLLTypeOK, links
<1>3. LinkInv'
  BY <1>1 DEF LinkInv, LinkAt, links
<1> QED
  BY <1>1, <1>2, <1>3

\* A new element, which is not in the list yet.
LEMMA NewNodeFits ==
    ASSUME ChainInv, NEW t \in Threads, NEW k \in Int, testnum = 0 => k = 1,
           NewNode(t, k), UNCHANGED << links, freed, place, testnum >>,
           pc'[t] \in {"dlink", "search"},
           \A u \in Threads \ {t} : pc'[u] \notin Linking
    PROVE  ChainInv' /\ LinkInv' /\ Chain' = Chain
<1> USE DLListAssumption
<1>1. Chain' = Chain
  BY ChainBecomes DEF ChainInv, links
<1> HIDE DEF Chain
<1> DEFINE n == allocated + 1
<1>2. /\ n \in Nodes /\ allocated' = n /\ key' = [key EXCEPT ![n] = k]
      /\ node' = [node EXCEPT ![t] = n] /\ allocated \in 0..MaxNodes
      /\ UNCHANGED << first, last, next, prev, freed, place, testnum >>
      /\ n \notin freed /\ next[n] = NULL /\ freed \subseteq 1..allocated
  BY DEF NewNode, ChainInv, DLLTypeOK, Nodes, links
<1>3. \A i \in 1..Len(Chain) : Chain[i] \in Nodes /\ Chain[i] # n /\ Chain[i] \in 1..allocated
  BY <1>2 DEF ChainInv, Nodes
<1>4. ChainInv'
  <2>1. DLLTypeOK'
    BY <1>2 DEF ChainInv, DLLTypeOK, Nodes
  <2>2. key' \in [Nodes -> Int] /\ Linked(Chain, first', last', next')
    BY <1>2 DEF ChainInv
  <2>3. \A i \in 1..Len(Chain) : Chain[i] \in 1..allocated' /\ Chain[i] \notin freed'
    BY <1>2, <1>3 DEF ChainInv
  <2>4. \A i \in 2..Len(Chain) : key'[Chain[i - 1]] <= key'[Chain[i]]
    <3> SUFFICES ASSUME NEW i \in 2..Len(Chain)
                 PROVE  key'[Chain[i - 1]] <= key'[Chain[i]]
      OBVIOUS
    <3>1. Len(Chain) \in Nat
      BY DEF ChainInv, Linked
    <3>2. i \in 1..Len(Chain) /\ i - 1 \in 1..Len(Chain)
      BY <3>1
    <3>3. key'[Chain[i]] = key[Chain[i]] /\ key'[Chain[i - 1]] = key[Chain[i - 1]]
      BY <1>2, <1>3, <3>2 DEF ChainInv
    <3> QED
      BY <3>3 DEF ChainInv
  <2>5. \A m \in Nodes : m > allocated' => next'[m] = NULL
    BY <1>2 DEF ChainInv, Nodes
  <2>6. testnum = 0 => \A m \in 1..allocated' : key'[m] = 1
    BY <1>2 DEF ChainInv, Nodes
  <2> QED
    BY <1>1, <1>2, <2>1, <2>2, <2>3, <2>4, <2>5, <2>6 DEF ChainInv
<1>5. LinkInv'
  <2>1. node'[t] = n /\ next'[n] = NULL /\ n \in 1..allocated' /\ n \notin freed'
    BY <1>2 DEF ChainInv, DLLTypeOK, Nodes
  <2> QED
    BY <1>1, <1>3, <2>1 DEF LinkInv, LinkAt, Linking
<1> QED
  BY <1>1, <1>4, <1>5

\* The thread that works on the links puts its element into the list.
LEMMA InsertionFits ==
    ASSUME ChainInv, LinkInv, NEW t \in Threads, pc[t] \in Linking, NEW i \in 1..Len(Chain) + 1,
           \A u \in Threads : pc'[u] \notin Linking,
           UNCHANGED << key, allocated, freed, testnum >>, DLLTypeOK',
           next'[node[t]] = IF i = Len(Chain) + 1 THEN NULL ELSE Chain[i],
           \A j \in 1..Len(Chain) :
             next'[Chain[j]] = IF j = i - 1 THEN node[t] ELSE next[Chain[j]],
           first' = IF i = 1 THEN node[t] ELSE first,
           last' = IF i = Len(Chain) + 1 THEN node[t] ELSE last,
           i > 1 => key[Chain[i - 1]] <= key[node[t]],
           i <= Len(Chain) => key[node[t]] <= key[Chain[i]],
           \A m \in Nodes : m > allocated => next'[m] = NULL
    PROVE  ChainInv' /\ LinkInv' /\ Chain' = Inserted(Chain, i, node[t])
<1> DEFINE n == node[t]
           r == Inserted(Chain, i, n)
<1>1. /\ n \in Nodes /\ n \in 1..allocated /\ n \notin freed
      /\ \A j \in 1..Len(Chain) : Chain[j] # n
      /\ Linked(Chain, first, last, next) /\ Chain \in Seq(Nodes) /\ key \in [Nodes -> Int]
      /\ \A j \in 2..Len(Chain) : key[Chain[j - 1]] <= key[Chain[j]]
  <2>1. /\ n \in 1..allocated /\ n \notin freed /\ \A j \in 1..Len(Chain) : Chain[j] # n
    BY DEF LinkInv
  <2>2. allocated \in 0..MaxNodes
    BY DEF ChainInv, DLLTypeOK
  <2>3. n \in Nodes
    BY <2>1, <2>2, DLListAssumption DEF Nodes
  <2> HIDE DEF Chain
  <2> QED
    BY <2>1, <2>3 DEF ChainInv, Linked
<1> HIDE DEF Chain
<1>2. Linked(r, first', last', next')
  BY <1>1, LinkedInserted
<1>3. Chain' = r
  BY <1>2, ChainBecomes
<1>4. /\ Len(r) = Len(Chain) + 1
      /\ \A k \in 1..Len(r) : r[k] = n \/ \E j \in 1..Len(Chain) : r[k] = Chain[j]
      /\ \A j \in 2..Len(r) : key[r[j - 1]] <= key[r[j]]
  <2> HIDE DEF n
  <2>1. /\ Len(r) = Len(Chain) + 1
        /\ \A k \in 1..Len(Chain) + 1 : r[k] = n \/ \E j \in 1..Len(Chain) : r[k] = Chain[j]
    BY <1>1, InsertedIs
  <2>2. (i > 1 => key[Chain[i - 1]] <= key[n]) /\ (i <= Len(Chain) => key[n] <= key[Chain[i]])
    BY DEF n
  <2>3. \A j \in 2..Len(Chain) + 1 : key[r[j - 1]] <= key[r[j]]
    BY <1>1, <2>2, InsertedInOrder
  <2> QED
    BY <2>1, <2>3
<1> HIDE DEF r
<1>5. \A k \in 1..Len(r) : r[k] \in 1..allocated /\ r[k] \notin freed
  BY <1>1, <1>4 DEF ChainInv
<1>6. key' \in [Nodes -> Int] /\ (testnum' = 0 => \A m \in 1..allocated' : key'[m] = 1)
  BY DEF ChainInv
<1>7. ChainInv'
  BY <1>2, <1>3, <1>4, <1>5, <1>6 DEF ChainInv
<1> QED
  BY <1>3, <1>7 DEF LinkInv, r

\* The first element is taken away while nobody works on the links.
LEMMA RemovalFits ==
    ASSUME ChainInv, NEW t \in Threads, first # NULL,
           \A u \in Threads : pc'[u] \notin Linking,
           UNCHANGED << next, prev, key, allocated, place, testnum >>,
           node' = [node EXCEPT ![t] = first],
           freed' = freed \cup {first},
           IF first = last /\ next[first] = NULL
             THEN first' = NULL /\ last' = NULL
             ELSE first' = next[first] /\ UNCHANGED last
    PROVE  /\ ChainInv' /\ LinkInv'
           /\ Chain # << >> /\ first = Head(Chain) /\ Chain' = Tail(Chain)
           /\ Len(Chain') = Len(Chain) - 1
<1> DEFINE r == Tail(Chain)
<1>1. Linked(Chain, first, last, next) /\ Chain # << >> /\ Len(Chain) \in Nat
  BY DEF ChainInv, Linked
<1>2. /\ Linked(r, next[first], IF Len(Chain) = 1 THEN NULL ELSE last, next)
      /\ Len(r) = Len(Chain) - 1
      /\ \A j \in 1..Len(r) : r[j] = Chain[j + 1]
      /\ first = Head(Chain) /\ first \in Nodes
      /\ \A j \in 1..Len(r) : r[j] # first
      /\ first = last /\ next[first] = NULL <=> Len(Chain) = 1
  BY <1>1, LinkedTail, Zenon
<1> HIDE DEF r
<1>3. Linked(r, first', last', next')
  <2>1. CASE Len(Chain) = 1
    <3>1. next[first] = NULL /\ first' = NULL /\ last' = NULL
      BY <1>2, <2>1
    <3> QED
      BY <1>2, <2>1, <3>1
  <2>2. CASE Len(Chain) # 1
    <3>1. first' = next[first] /\ last' = last
      BY <1>2, <2>2
    <3> QED
      BY <1>2, <2>2, <3>1
  <2> QED
    BY <2>1, <2>2
<1>4. Chain' = r
  BY <1>3, ChainBecomes
<1> HIDE DEF Chain
<1>5. first \in 1..allocated
  <2>1. first = Chain[1] /\ 1 \in 1..Len(Chain)
    BY <1>1, <1>2
  <2> QED
    BY <2>1 DEF ChainInv
<1>6. \A j \in 1..Len(r) : r[j] \in 1..allocated' /\ r[j] \notin freed'
  BY <1>1, <1>2 DEF ChainInv
<1>7. \A j \in 2..Len(r) : key[r[j - 1]] <= key[r[j]]
  <2> SUFFICES ASSUME NEW j \in 2..Len(r)
               PROVE  key[r[j - 1]] <= key[r[j]]
    OBVIOUS
  <2>1. j + 1 \in 2..Len(Chain) /\ r[j] = Chain[j + 1] /\ r[j - 1] = Chain[(j + 1) - 1]
    BY <1>1, <1>2
  <2> QED
    BY <2>1 DEF ChainInv
<1>8. DLLTypeOK'
  <2>1. first' \in Nodes \cup {NULL} /\ last' \in Nodes \cup {NULL}
    BY <1>2 DEF ChainInv, DLLTypeOK
  <2> QED
    BY <1>2, <1>5, <2>1 DEF ChainInv, DLLTypeOK
<1>9. /\ key' \in [Nodes -> Int] /\ (testnum' = 0 => \A m \in 1..allocated' : key'[m] = 1)
      /\ \A m \in Nodes : m > allocated' => next'[m] = NULL
  BY DEF ChainInv
<1>10. ChainInv'
  BY <1>3, <1>4, <1>6, <1>7, <1>8, <1>9 DEF ChainInv
<1> QED
  BY <1>1, <1>2, <1>4, <1>10 DEF LinkInv, r

\* The thread that works on the links has found the place of its element.
LEMMA SearchFits ==
    ASSUME ChainInv, LinkInv, NEW t \in Threads, pc[t] \in Linking,
           \A u \in Threads \ {t} : pc'[u] \notin Linking,
           UNCHANGED << first, last, key, allocated, freed, node, testnum >>,
           next' \in [Nodes -> Nodes \cup {NULL}],
           prev' \in [Nodes -> Nodes \cup {NULL}],
           place' \in [Threads -> Nodes \cup {NULL}],
           \A n \in Nodes : n # node[t] => next'[n] = next[n]
    PROVE  Chain' = Chain /\ ChainInv' /\ (LinkAt(t)' => LinkInv')
<1>1. /\ Linked(Chain, first, last, next) /\ allocated \in 0..MaxNodes
      /\ \A i \in 1..Len(Chain) : Chain[i] \in Nodes
      /\ node[t] \in 1..allocated /\ node[t] \notin freed
      /\ \A i \in 1..Len(Chain) : Chain[i] # node[t]
  BY DEF ChainInv, LinkInv, DLLTypeOK, Linked
<1> HIDE DEF Chain
<1>2. Linked(Chain, first', last', next')
  <2>1. \A i \in 1..Len(Chain) : next'[Chain[i]] = next[Chain[i]]
    BY <1>1
  <2> QED
    BY <1>1, <2>1 DEF Linked
<1>3. Chain' = Chain
  BY <1>2, ChainBecomes
<1>4. \A n \in Nodes : n > allocated => next'[n] = NULL
  BY <1>1 DEF ChainInv, Nodes
<1>5. ChainInv'
  BY <1>2, <1>3, <1>4 DEF ChainInv, DLLTypeOK
<1>6. LinkAt(t)' => LinkInv'
  BY <1>1, <1>3 DEF LinkInv
<1> QED
  BY <1>3, <1>5, <1>6

\* The steps of one thread in the list.
DInv == ChainInv /\ LinkInv

\* The thread that has the lock is the only one that may work on the links.
LEMMA NobodyElseLinks ==
    ASSUME LockKnown, NEW t \in Threads, Inside(t), NEW q, pc' = [pc EXCEPT ![t] = q]
    PROVE  /\ pc'[t] = q
           /\ \A u \in Threads \ {t} : pc'[u] \notin Linking
           /\ q \notin Linking => \A u \in Threads : pc'[u] \notin Linking
<1>1. pc \in [Threads -> PointsOf(testnum)]
  BY DEF LockKnown, Known, InPlace
<1>2. \A u \in Threads \ {t} : pc[u] \notin Linking
  BY OneLinks DEF MutualExclusion
<1> QED
  BY <1>1, <1>2

\* Append() and Remove().
LEMMA AppendRemoveFit ==
    ASSUME LockKnown, DInv, UNCHANGED testnum, NEW t \in Threads
    PROVE  /\ DAppendEnter(t) => DInv' /\ Chain' = Chain
           /\ DAppendLink(t) =>
                DInv' /\ Chain' = Append(Chain, node[t]) /\ Len(Chain') = Len(Chain) + 1
           /\ DRemoveFirst(t) =>
                /\ DInv' /\ Chain # << >> /\ first = Head(Chain)
                /\ Chain' = Tail(Chain) /\ Len(Chain') = Len(Chain) - 1
           /\ IsEmpty <=> Chain = << >>
<1> USE DLListAssumption
<1>1. /\ ChainInv /\ LinkInv /\ DLLTypeOK
      /\ Linked(Chain, first, last, next)
      /\ Chain \in Seq(Nodes) /\ \A i \in 1..Len(Chain) : Chain[i] \in Nodes
  BY DEF DInv, ChainInv, Linked
<1> HIDE DEF Chain
<1>2. /\ IsEmpty <=> Chain = << >>
      /\ first = NULL <=> Chain = << >>
      /\ Chain # << >> => /\ Len(Chain) \in 1..Len(Chain) /\ last = Chain[Len(Chain)]
                          /\ first = Chain[1] /\ first \in Nodes /\ last \in Nodes
                          /\ next[last] = NULL
  BY <1>1 DEF Linked, IsEmpty, Nodes
<1>3. ASSUME DAppendEnter(t)
      PROVE  DInv' /\ Chain' = Chain
  <2>1. Inside(t) /\ pc' = [pc EXCEPT ![t] = "dlink"]
    BY <1>3 DEF DAppendEnter, Enters, Moves, AcquireReturn, Inside
  <2>2. pc'[t] = "dlink" /\ \A u \in Threads \ {t} : pc'[u] \notin Linking
    BY <2>1, NobodyElseLinks
  <2> QED
    BY <1>1, <1>3, <2>2, NewNodeFits DEF DAppendEnter, DInv
<1>4. ASSUME DAppendLink(t)
      PROVE  DInv' /\ Chain' = Append(Chain, node[t]) /\ Len(Chain') = Len(Chain) + 1
  <2>1. Inside(t) /\ pc[t] = "dlink" /\ pc' = [pc EXCEPT ![t] = "dsignal"]
    BY <1>4 DEF DAppendLink, Works, Moves, InLock, Inside
  <2>2. \A u \in Threads : pc'[u] \notin Linking
    BY <2>1, NobodyElseLinks DEF Linking
  <2>3. /\ pc[t] \in Linking /\ node[t] \in 1..allocated /\ next[node[t]] = NULL
        /\ \A i \in 1..Len(Chain) : Chain[i] # node[t]
    BY <1>1, <2>1 DEF LinkInv, LinkAt, Linking
  <2>4. allocated \in 0..MaxNodes /\ node[t] \in Nodes /\ Len(Chain) \in Nat
    BY <1>1, <2>3 DEF DLLTypeOK, Nodes
  <2>5. UNCHANGED << key, allocated, freed, node, place >>
    BY <1>4 DEF DAppendLink
  <2>6. testnum = 0
    <3>1. pc[t] \in PointsOf(testnum) /\ testnum \in {0, 3, 4, 5, 6}
      BY DEF LockKnown, Known, InPlace
    <3> QED
      BY <2>1, <3>1 DEF PointsOf, ListPoints, BufferPoints, TablePoints
  <2> DEFINE i == Len(Chain) + 1
             n == node[t]
  <2>7. i > 1 => key[Chain[i - 1]] <= key[n]
    <3> SUFFICES ASSUME i > 1
                 PROVE  key[Chain[i - 1]] <= key[n]
      OBVIOUS
    <3>1. i - 1 \in 1..Len(Chain)
      BY <2>4
    <3>2. Chain[i - 1] \in 1..allocated
      BY <1>1, <3>1 DEF ChainInv
    <3> QED
      BY <1>1, <2>3, <2>6, <3>2 DEF ChainInv
  <2>8. /\ DLLTypeOK' /\ first' = IF i = 1 THEN n ELSE first
        /\ last' = n /\ next'[n] = NULL
        /\ \A j \in 1..Len(Chain) : next'[Chain[j]] = IF j = i - 1 THEN n ELSE next[Chain[j]]
        /\ \A m \in Nodes : m > allocated => next'[m] = NULL
    <3>1. CASE Chain = << >>
      <4>1. first' = n /\ last' = n /\ next' = next /\ prev' = prev
        BY <1>2, <1>4, <3>1 DEF DAppendLink, LinkOnly
      <4> QED
        BY <1>1, <2>3, <2>4, <2>5, <3>1, <4>1 DEF DLLTypeOK, ChainInv
    <3>2. CASE Chain # << >>
      <4>1. /\ next' = [next EXCEPT ![last] = n] /\ prev' = [prev EXCEPT ![n] = last]
            /\ last' = n /\ first' = first
        BY <1>2, <1>4, <3>2 DEF DAppendLink
      <4>2. i # 1 /\ i - 1 = Len(Chain) /\ last # n
        BY <1>2, <2>3, <2>4, <3>2
      <4>3. DLLTypeOK'
        BY <1>1, <1>2, <2>4, <2>5, <3>2, <4>1 DEF DLLTypeOK
      <4>4. next'[n] = NULL
        BY <1>1, <2>3, <2>4, <4>1, <4>2 DEF DLLTypeOK
      <4>5. \A j \in 1..Len(Chain) : next'[Chain[j]] = IF j = i - 1 THEN n ELSE next[Chain[j]]
        <5>1. \A j \in 1..Len(Chain) : Chain[j] = last <=> j = Len(Chain)
          BY <1>1, <1>2, <3>2 DEF Linked
        <5> QED
          BY <1>1, <4>1, <4>2, <5>1 DEF DLLTypeOK
      <4>6. \A m \in Nodes : m > allocated => next'[m] = NULL
        <5>1. last \in 1..allocated
          BY <1>1, <1>2, <3>2 DEF ChainInv
        <5> QED
          BY <1>1, <2>4, <4>1, <5>1 DEF ChainInv, DLLTypeOK, Nodes
      <4> QED
        BY <4>1, <4>2, <4>3, <4>4, <4>5, <4>6
    <3> QED
      BY <3>1, <3>2
  <2>9. i \in 1..Len(Chain) + 1 /\ i = Len(Chain) + 1 /\ ~(i <= Len(Chain))
    BY <2>4
  <2> HIDE DEF i
  <2>10. ChainInv' /\ LinkInv' /\ Chain' = Inserted(Chain, i, n)
    BY <1>1, <2>2, <2>3, <2>5, <2>7, <2>8, <2>9, InsertionFits
  <2>11. Inserted(Chain, i, n) = Append(Chain, n) /\ Len(Inserted(Chain, i, n)) = Len(Chain) + 1
    BY <1>1, <2>4, <2>9, InsertedIs
  <2> QED
    BY <2>10, <2>11 DEF DInv
<1>5. ASSUME DRemoveFirst(t)
      PROVE  /\ DInv' /\ Chain # << >> /\ first = Head(Chain)
             /\ Chain' = Tail(Chain) /\ Len(Chain') = Len(Chain) - 1
  <2>1. Inside(t) /\ pc' = [pc EXCEPT ![t] = "dremoved"] /\ ~IsEmpty
    BY <1>5 DEF DRemoveFirst, Works, Moves, InLock, Inside
  <2>2. \A u \in Threads : pc'[u] \notin Linking
    BY <2>1, NobodyElseLinks DEF Linking
  <2>3. first # NULL
    BY <1>2, <2>1
  <2> QED
    BY <1>1, <1>5, <2>2, <2>3, RemovalFits, Zenon DEF DRemoveFirst, DInv
<1> QED
  BY <1>2, <1>3, <1>4, <1>5

\* The searches of SortedInsert().
LEMMA SearchesFit ==
    ASSUME LockKnown, DInv, UNCHANGED testnum, NEW t \in Threads,
           SearchHead(t) \/ \E p \in Listed : SearchMiddle(t, p) \/ SearchEnd(t, p)
    PROVE  DInv'
<1> USE DLListAssumption
<1>1. /\ ChainInv /\ LinkInv /\ DLLTypeOK
      /\ Linked(Chain, first, last, next) /\ Len(Chain) \in Nat
      /\ \A i \in 1..Len(Chain) : Chain[i] \in Nodes
      /\ \A p \in Listed : \E i \in 1..Len(Chain) : p = Chain[i]
  BY DEF DInv, ChainInv, Linked, Listed
<1> HIDE DEF Chain, Listed
<1>2. /\ pc[t] = "search"
      /\ \E q \in {"head", "middle", "end"} : pc' = [pc EXCEPT ![t] = q]
  BY DEF SearchHead, SearchMiddle, SearchEnd, YieldsIf, Moves
<1>3. pc[t] \in Linking /\ Inside(t)
  BY <1>2, OneLinks DEF Linking
<1>4. \A u \in Threads \ {t} : pc'[u] \notin Linking
  BY <1>2, <1>3, NobodyElseLinks
<1>5. /\ node[t] \in 1..allocated /\ next[node[t]] = NULL /\ node[t] \in Nodes
      /\ \A i \in 1..Len(Chain) : Chain[i] # node[t]
  BY <1>1, <1>2, <1>3 DEF LinkInv, LinkAt, DLLTypeOK, Nodes
<1>6. /\ ~IsEmpty => Chain # << >> /\ first = Chain[1] /\ last = Chain[Len(Chain)]
      /\ \A i \in 1..Len(Chain) : next[Chain[i]] = IF i = Len(Chain) THEN NULL ELSE Chain[i + 1]
  BY <1>1 DEF Linked, IsEmpty
<1>7. key \in [Nodes -> Int]
  BY <1>1 DEF ChainInv
<1>8. CASE SearchHead(t)
  <2>1. /\ Chain # << >> /\ key[node[t]] < key[first] /\ first \in Nodes
        /\ next' = [next EXCEPT ![node[t]] = first] /\ pc'[t] = "head"
        /\ UNCHANGED << first, last, prev, key, allocated, freed, node, place >>
    <3>1. pc' = [pc EXCEPT ![t] = "head"]
      BY <1>8 DEF SearchHead, YieldsIf, Moves
    <3>2. pc'[t] = "head"
      BY <1>3, <3>1, NobodyElseLinks
    <3> QED
      BY <1>1, <1>6, <1>8, <3>2 DEF SearchHead
  <2>2. Chain' = Chain /\ ChainInv' /\ (LinkAt(t)' => LinkInv')
    BY <1>1, <1>3, <1>4, <1>5, <2>1, SearchFits DEF DLLTypeOK
  <2>3. LinkAt(t)'
    BY <1>1, <1>5, <1>7, <2>1, <2>2 DEF LinkAt, DLLTypeOK
  <2> QED
    BY <2>2, <2>3 DEF DInv
<1>9. ASSUME NEW p \in Listed, SearchMiddle(t, p)
      PROVE  DInv'
  <2>1. /\ p # node[t] /\ next[p] # NULL
        /\ key[p] <= key[node[t]] /\ key[node[t]] < key[next[p]]
        /\ next' = [next EXCEPT ![node[t]] = next[p]]
        /\ prev' = [prev EXCEPT ![node[t]] = p]
        /\ place' = [place EXCEPT ![t] = p]
        /\ UNCHANGED << first, last, key, allocated, freed, node >>
    BY <1>1, <1>5, <1>9 DEF SearchMiddle, Follows
  <2>2. pc'[t] = "middle"
    <3>1. pc' = [pc EXCEPT ![t] = "middle"]
      BY <1>9 DEF SearchMiddle, YieldsIf, Moves
    <3> QED
      BY <1>3, <3>1, NobodyElseLinks
  <2>3. PICK i \in 1..Len(Chain) : p = Chain[i]
    BY <1>1
  <2>4. p \in Nodes /\ next[p] \in Nodes /\ i # Len(Chain) /\ next[p] = Chain[i + 1]
    BY <1>1, <1>6, <2>1, <2>3 DEF DLLTypeOK
  <2>5. Chain' = Chain /\ ChainInv' /\ (LinkAt(t)' => LinkInv')
    <3>1. /\ next' \in [Nodes -> Nodes \cup {NULL}]
          /\ prev' \in [Nodes -> Nodes \cup {NULL}]
          /\ place' \in [Threads -> Nodes \cup {NULL}]
          /\ \A n \in Nodes : n # node[t] => next'[n] = next[n]
      BY <1>1, <2>1, <2>4 DEF DLLTypeOK
    <3> QED
      BY <1>1, <1>3, <1>4, <2>1, <3>1, SearchFits
  <2>6. LinkAt(t)'
    <3>1. i + 1 \in 2..Len(Chain) /\ (i + 1) - 1 = i
      BY <1>1, <2>4
    <3>2. place'[t] = Chain[i] /\ next'[node[t]] = Chain[i + 1]
      BY <1>1, <1>5, <2>1, <2>3, <2>4 DEF DLLTypeOK
    <3>3. key[Chain[i]] <= key[node[t]] /\ key[node[t]] <= key[Chain[i + 1]]
      BY <1>5, <1>7, <2>1, <2>3, <2>4
    <3>4. \E j \in 2..Len(Chain) : /\ place'[t] = Chain[j - 1]
                                   /\ next'[node[t]] = Chain[j]
                                   /\ key[Chain[j - 1]] <= key[node[t]]
                                   /\ key[node[t]] <= key[Chain[j]]
      BY <3>1, <3>2, <3>3
    <3> QED
      BY <2>1, <2>2, <2>5, <3>4 DEF LinkAt
  <2> QED
    BY <2>5, <2>6 DEF DInv
<1>10. ASSUME NEW p \in Listed, SearchEnd(t, p)
       PROVE  DInv'
  <2>1. /\ next[p] = NULL /\ key[p] <= key[node[t]] /\ Chain # << >>
        /\ prev' = [prev EXCEPT ![node[t]] = last]
        /\ UNCHANGED << first, last, next, key, allocated, freed, node, place >>
    BY <1>6, <1>10 DEF SearchEnd, Follows
  <2>2. pc'[t] = "end"
    <3>1. pc' = [pc EXCEPT ![t] = "end"]
      BY <1>10 DEF SearchEnd, YieldsIf, Moves
    <3> QED
      BY <1>3, <3>1, NobodyElseLinks
  <2>3. PICK i \in 1..Len(Chain) : p = Chain[i]
    BY <1>1
  <2>4. p = last
    <3>1. i = Len(Chain)
      <4> SUFFICES ASSUME i # Len(Chain)
                   PROVE  FALSE
        OBVIOUS
      <4>1. i + 1 \in 1..Len(Chain) /\ next[p] = Chain[i + 1]
        BY <1>1, <1>6, <2>3
      <4> QED
        BY <1>1, <2>1, <4>1 DEF Nodes
    <3> QED
      BY <1>6, <1>10, <2>3, <3>1 DEF SearchEnd, Follows
  <2>5. Chain' = Chain /\ ChainInv' /\ (LinkAt(t)' => LinkInv')
    BY <1>1, <1>3, <1>4, <2>1, SearchFits DEF DLLTypeOK
  <2>6. LinkAt(t)'
    BY <1>5, <2>1, <2>2, <2>4, <2>5 DEF LinkAt
  <2> QED
    BY <2>5, <2>6 DEF DInv
<1> QED
  BY <1>8, <1>9, <1>10

\* The ends of SortedInsert(), after the yield.
LEMMA InsertionsFit ==
    ASSUME LockKnown, DInv, UNCHANGED testnum, NEW t \in Threads,
           InsertOnly(t) \/ InsertHead(t) \/ InsertMiddle(t) \/ InsertEnd(t)
    PROVE  DInv'
<1> USE DLListAssumption
<1>1. /\ ChainInv /\ LinkInv /\ DLLTypeOK
      /\ Linked(Chain, first, last, next) /\ Len(Chain) \in Nat
      /\ \A i \in 1..Len(Chain) : Chain[i] \in Nodes
      /\ \A i, j \in 1..Len(Chain) : Chain[i] = Chain[j] => i = j
      /\ \A i \in 1..Len(Chain) : Chain[i] \in 1..allocated
  BY DEF DInv, ChainInv, Linked
<1> HIDE DEF Chain
<1>2. /\ pc[t] \in {"search", "head", "middle", "end"} /\ pc[t] \in Linking
      /\ \E q \in {"kept", "dsignal"} : pc' = [pc EXCEPT ![t] = q]
      /\ UNCHANGED << key, allocated, freed >>
  BY DEF InsertOnly, InsertHead, InsertMiddle, InsertEnd, Works, Moves, Linking
<1>3. Inside(t)
  BY <1>2, OneLinks
<1>4. \A u \in Threads : pc'[u] \notin Linking
  BY <1>2, <1>3, NobodyElseLinks DEF Linking
<1> DEFINE n == node[t]
<1>5. /\ n \in 1..allocated /\ n \in Nodes
      /\ \A i \in 1..Len(Chain) : Chain[i] # n
  BY <1>1, <1>2 DEF LinkInv, DLLTypeOK, Nodes
<1>6. /\ Chain = << >> => first = NULL /\ last = NULL
      /\ Chain # << >> => first = Chain[1] /\ last = Chain[Len(Chain)] /\ Len(Chain) \in 1..Len(Chain)
      /\ \A i \in 1..Len(Chain) : next[Chain[i]] = IF i = Len(Chain) THEN NULL ELSE Chain[i + 1]
  BY <1>1 DEF Linked
<1>7. key \in [Nodes -> Int] /\ \A m \in Nodes : m > allocated => next[m] = NULL
  BY <1>1 DEF ChainInv
<1>8. CASE InsertOnly(t)
  <2>1. /\ Chain = << >> /\ next[n] = NULL
        /\ first' = n /\ last' = n
        /\ UNCHANGED << next, prev, key, allocated, freed, node, place >>
    <3>1. first = NULL /\ pc[t] = "search"
      BY <1>8 DEF InsertOnly, IsEmpty, Works, Moves
    <3>2. Chain = << >>
      BY <1>1, <1>6, <3>1 DEF Nodes
    <3> QED
      BY <1>1, <1>2, <1>8, <3>1, <3>2 DEF InsertOnly, LinkOnly, LinkInv, LinkAt
  <2>2. DLLTypeOK'
    BY <1>1, <1>5, <2>1 DEF DLLTypeOK
  <2>3. Len(Chain) = 0 /\ 1 \in 1..Len(Chain) + 1
    BY <2>1
  <2> QED
    BY <1>1, <1>2, <1>4, <1>7, <2>1, <2>2, <2>3, InsertionFits DEF DInv
<1>9. CASE InsertHead(t)
  <2>1. /\ pc[t] = "head"
        /\ prev' = [prev EXCEPT ![first] = n] /\ first' = n
        /\ node' = [node EXCEPT ![t] = NULL]
        /\ UNCHANGED << last, next, key, allocated, freed, place >>
    BY <1>9 DEF InsertHead, Works, Moves, Forgets
  <2>2. Chain # << >> /\ next[n] = first /\ key[n] <= key[first]
    BY <1>1, <1>2, <2>1 DEF LinkInv, LinkAt
  <2>3. DLLTypeOK'
    BY <1>1, <1>5, <2>1 DEF DLLTypeOK
  <2>4. /\ Len(Chain) + 1 # 1 /\ 1 \in 1..Len(Chain) + 1 /\ first = Chain[1]
        /\ \A j \in 1..Len(Chain) : j # 1 - 1
    BY <1>1, <1>6, <2>2
  <2> QED
    BY <1>1, <1>2, <1>4, <1>7, <2>1, <2>2, <2>3, <2>4, InsertionFits DEF DInv
<1>10. CASE InsertMiddle(t)
  <2>1. /\ pc[t] = "middle"
        /\ prev' = [prev EXCEPT ![next[place[t]]] = n]
        /\ next' = [next EXCEPT ![place[t]] = n]
        /\ node' = [node EXCEPT ![t] = NULL]
        /\ place' = [place EXCEPT ![t] = NULL]
        /\ UNCHANGED << first, last, key, allocated, freed >>
    BY <1>10 DEF InsertMiddle, Works, Moves, Forgets
  <2>2. PICK i \in 2..Len(Chain) : /\ place[t] = Chain[i - 1]
                                  /\ next[n] = Chain[i]
                                  /\ key[Chain[i - 1]] <= key[n]
                                  /\ key[n] <= key[Chain[i]]
    BY <1>1, <1>2, <2>1 DEF LinkInv, LinkAt
  <2>3. DLLTypeOK'
    BY <1>1, <1>5, <2>1 DEF DLLTypeOK
  <2>4. /\ i \in 1..Len(Chain) + 1 /\ i # Len(Chain) + 1 /\ i # 1 /\ i - 1 \in 1..Len(Chain)
        /\ i \in 1..Len(Chain)
    BY <1>1
  <2>5. \A j \in 1..Len(Chain) : next'[Chain[j]] = IF j = i - 1 THEN n ELSE next[Chain[j]]
    BY <1>1, <2>1, <2>2, <2>4 DEF DLLTypeOK
  <2>6. next'[n] = Chain[i]
    BY <1>1, <1>5, <2>1, <2>2, <2>4 DEF DLLTypeOK
  <2>7. \A m \in Nodes : m > allocated => next'[m] = NULL
    <3>1. place[t] \in 1..allocated
      BY <1>1, <2>2, <2>4
    <3> QED
      BY <1>1, <1>7, <2>1, <3>1 DEF DLLTypeOK, Nodes
  <2>8. /\ ChainInv /\ LinkInv /\ pc[t] \in Linking /\ i \in 1..Len(Chain) + 1
        /\ \A u \in Threads : pc'[u] \notin Linking
        /\ UNCHANGED << key, allocated, freed, testnum >> /\ DLLTypeOK'
        /\ next'[n] = IF i = Len(Chain) + 1 THEN NULL ELSE Chain[i]
        /\ first' = IF i = 1 THEN n ELSE first
        /\ last' = IF i = Len(Chain) + 1 THEN n ELSE last
        /\ i > 1 => key[Chain[i - 1]] <= key[n]
        /\ i <= Len(Chain) => key[n] <= key[Chain[i]]
    BY <1>1, <1>2, <1>4, <2>1, <2>2, <2>3, <2>4, <2>6
  <2> QED
    BY <2>5, <2>7, <2>8, InsertionFits DEF DInv
<1>11. CASE InsertEnd(t)
  <2>1. /\ pc[t] = "end"
        /\ next' = [next EXCEPT ![last] = n] /\ last' = n
        /\ UNCHANGED << first, prev, key, allocated, freed, node, place >>
    BY <1>11 DEF InsertEnd, Works, Moves
  <2>2. Chain # << >> /\ next[n] = NULL /\ key[last] <= key[n]
    BY <1>1, <1>2, <2>1 DEF LinkInv, LinkAt
  <2>3. DLLTypeOK'
    BY <1>1, <1>5, <2>1 DEF DLLTypeOK
  <2> DEFINE i == Len(Chain) + 1
  <2>4. /\ i \in 1..Len(Chain) + 1 /\ i = Len(Chain) + 1 /\ i # 1 /\ i - 1 = Len(Chain)
        /\ ~(i <= Len(Chain)) /\ last = Chain[i - 1] /\ i - 1 \in 1..Len(Chain)
    BY <1>1, <1>6, <2>2
  <2> HIDE DEF i
  <2>5. \A j \in 1..Len(Chain) : next'[Chain[j]] = IF j = i - 1 THEN n ELSE next[Chain[j]]
    BY <1>1, <2>1, <2>4 DEF DLLTypeOK
  <2>6. next'[n] = NULL
    BY <1>1, <1>5, <2>1, <2>2, <2>4 DEF DLLTypeOK
  <2>7. \A m \in Nodes : m > allocated => next'[m] = NULL
    BY <1>1, <1>7, <2>1, <2>4 DEF DLLTypeOK, Nodes
  <2>8. /\ ChainInv /\ LinkInv /\ pc[t] \in Linking /\ i \in 1..Len(Chain) + 1
        /\ \A u \in Threads : pc'[u] \notin Linking
        /\ UNCHANGED << key, allocated, freed, testnum >> /\ DLLTypeOK'
        /\ next'[n] = IF i = Len(Chain) + 1 THEN NULL ELSE Chain[i]
        /\ first' = IF i = 1 THEN n ELSE first
        /\ last' = IF i = Len(Chain) + 1 THEN n ELSE last
        /\ i > 1 => key[Chain[i - 1]] <= key[n]
        /\ i <= Len(Chain) => key[n] <= key[Chain[i]]
    BY <1>1, <1>2, <1>4, <2>1, <2>2, <2>3, <2>4, <2>6
  <2> QED
    BY <2>5, <2>7, <2>8, InsertionFits DEF DInv
<1> QED
  BY <1>8, <1>9, <1>10, <1>11

\* What InsertItem() is called with next is one of the keys of the thread.
KeyNext ==
    testnum = 3 => \A t \in Tested : pc[t] = "insert" => step[t] \in 1..Len(Keys[which[t]])

LEMMA DListStaysRight ==
    ASSUME LockKnown, DInv, KeyNext, step \in [Threads -> Nat], [TNext]_tvars
    PROVE  DInv' /\ KeyNext'
<1>1. /\ pc \in [Threads -> PointsOf(testnum)] /\ pc' \in [Threads -> PointsOf(testnum)]
      /\ testnum \in {0, 3, 4, 5, 6} /\ UNCHANGED << testnum, threadnum, which >>
      /\ InPlace
  <2>1. InPlace' /\ UNCHANGED << testnum, threadnum, which >>
    BY EverybodyStaysInPlace
       DEF LockKnown, Known, TNext, DLListTest, DLListTest3, TableTest, NextCall, testVars, tvars
  <2> QED
    BY <2>1 DEF LockKnown, Known, InPlace
<1>2. ChainInv /\ LinkInv /\ node \in [Threads -> Nodes \cup {NULL}]
  BY DEF DInv, ChainInv, DLLTypeOK
\* The steps that leave the list alone, and all of its threads where they were.
<1>3. ASSUME UNCHANGED dllVars, \A t \in Threads : pc'[t] \in Linking => pc'[t] = pc[t]
      PROVE  DInv'
  BY <1>1, <1>2, <1>3, LinksKept DEF dllVars, DInv
<1>4. ASSUME UNCHANGED dllVars, NEW t \in Threads, NEW q, pc' = [pc EXCEPT ![t] = q], q \notin Linking
      PROVE  DInv'
  BY <1>1, <1>3, <1>4
<1>5. ASSUME UNCHANGED dllVars, UNCHANGED pc
      PROVE  DInv'
  BY <1>3, <1>5
<1>6. ASSUME testnum \notin {0, 3}
      PROVE  DInv' /\ KeyNext'
  <2>1. UNCHANGED dllVars
    BY <1>6 DEF TNext, tvars
  <2>2. \A t \in Threads : pc'[t] \notin Linking
    BY <1>1, <1>6 DEF PointsOf, ListPoints, BufferPoints, TablePoints, Linking
  <2> QED
    BY <1>1, <1>3, <1>6, <2>1, <2>2 DEF KeyNext
\* What the two tests have in common.
<1>7. ASSUME NEW t \in Threads,
             DSignal(t) \/ DSignalReturn(t) \/ DReturn(t) \/ DRemoveEnter(t)
             \/ DRemoveWait(t) \/ DRemoveWaits(t) \/ DAppendCall(t) \/ DRemoveCall(t)
             \/ InsertCall(t) \/ InsertCallAgain(t) \/ InsertSleeps(t)
      PROVE  DInv'
  <2>1. CASE DReturn(t)
    <3>1. pc' = [pc EXCEPT ![t] = "none"]
      BY <2>1 DEF DReturn, Leaves, Moves
    <3>2. /\ UNCHANGED << links, key, allocated, freed, place >>
          /\ node' = [node EXCEPT ![t] = NULL]
      BY <2>1 DEF DReturn, Forgets
    <3>3. /\ node' \in [Threads -> Nodes \cup {NULL}]
          /\ \A u \in Threads : pc'[u] \in Linking =>
               pc'[u] = pc[u] /\ node'[u] = node[u] /\ place'[u] = place[u]
      BY <1>1, <1>2, <3>1, <3>2 DEF Linking
    <3> QED
      BY <1>1, <1>2, <3>2, <3>3, LinksKept DEF DInv
  <2>2. CASE \/ DSignal(t) \/ DRemoveEnter(t) \/ DAppendCall(t) \/ DRemoveCall(t)
             \/ InsertCall(t) \/ InsertCallAgain(t)
    <3>1. /\ UNCHANGED dllVars
          /\ \E q \in {"drelease", "dtest", "dappend", "dremove", "insert", "again"} :
               pc' = [pc EXCEPT ![t] = q]
      BY <2>2 DEF DSignal, DRemoveEnter, DAppendCall, DRemoveCall, InsertCall, InsertCallAgain,
         Signals, Enters, Calls, Moves
    <3> QED
      BY <1>4, <3>1 DEF Linking
  <2>3. CASE DSignalReturn(t) \/ DRemoveWait(t) \/ DRemoveWaits(t) \/ InsertSleeps(t)
    <3>1. UNCHANGED dllVars /\ UNCHANGED pc
      BY <2>3 DEF DSignalReturn, DRemoveWait, DRemoveWaits, InsertSleeps, SignalReturns,
         StartsWait, Waits
    <3> QED
      BY <1>5, <3>1
  <2> QED
    BY <1>7, <2>1, <2>2, <2>3
<1>8. ASSUME testnum \in {0, 3}, NEW t \in Threads, DLLStep(t)
      PROVE  DInv'
  <2>1. (DAppendEnter(t) \/ DAppendLink(t) \/ DRemoveFirst(t)) => DInv'
    BY <1>1, AppendRemoveFit
  <2>2. SearchHead(t) \/ (\E p \in Listed : SearchMiddle(t, p) \/ SearchEnd(t, p)) => DInv'
    BY <1>1, SearchesFit
  <2>3. InsertOnly(t) \/ InsertHead(t) \/ InsertMiddle(t) \/ InsertEnd(t) => DInv'
    BY <1>1, InsertionsFit
  <2> QED
    BY <1>7, <1>8, <2>1, <2>2, <2>3 DEF DLLStep
<1>9. ASSUME testnum \in {0, 3}, ScriptRest, UNCHANGED << dllVars, testVars >>
      PROVE  DInv' /\ KeyNext'
  <2>1. UNCHANGED pc
    BY <1>1, <1>9, ScriptSteps
  <2> QED
    BY <1>1, <1>5, <1>9, <2>1 DEF KeyNext, testVars
<1>10. ASSUME testnum = 0, NEW t \in Tested, DLListTest(t)
       PROVE  DInv' /\ KeyNext'
  BY <1>1, <1>7, <1>8, <1>10 DEF DLListTest, KeyNext, Tested
\* The keys of test 3.
<1>11. ASSUME testnum = 3, NEW t \in Tested
       PROVE  t \in Threads /\ Keys[which[t]] \in Seq(Int) /\ step[t] \in Nat
  <2>1. which \in [Tested -> 0..Cardinality(Tested) - 1]
    BY <1>1, ThreadTestAssumption DEF InPlace
  <2>2. which[t] \in 0..Cardinality(Tested) - 1
    BY <2>1
  <2> QED
    BY <2>2, ThreadTestAssumption DEF Tested
<1>12. ASSUME testnum = 3, UNCHANGED testVars, NEW t \in Threads, NEW q,
              q # "insert" , UNCHANGED pc \/ pc' = [pc EXCEPT ![t] = q]
       PROVE  KeyNext'
  BY <1>1, <1>12 DEF KeyNext, testVars, Tested
<1>13. ASSUME testnum = 3, NEW t \in Tested, DLListTest3(t)
       PROVE  DInv' /\ KeyNext'
  <2>1. CASE /\ step[t] < Len(Keys[which[t]])
             /\ InsertCall(t) \/ InsertCallAgain(t)
             /\ NextCall(t)
    <3>1. DInv'
      BY <1>7, <1>11, <1>13, <2>1
    <3>2. /\ step' = [step EXCEPT ![t] = step[t] + 1] /\ which' = which
          /\ \E q \in {"insert", "again"} : pc' = [pc EXCEPT ![t] = q]
      BY <2>1 DEF NextCall, InsertCall, InsertCallAgain, Calls, Moves
    <3>3. step'[t] \in 1..Len(Keys[which[t]])
      BY <1>11, <1>13, <2>1, <3>2
    <3>4. \A u \in Tested \ {t} : pc'[u] = pc[u] /\ step'[u] = step[u]
      BY <1>1, <3>2 DEF Tested
    <3> QED
      BY <1>1, <3>1, <3>2, <3>3, <3>4 DEF KeyNext
  <2>2. CASE InsertEnter(t, Keys[which[t]][step[t]]) /\ UNCHANGED testVars
    <3>1. /\ pc[t] = "insert" /\ pc' = [pc EXCEPT ![t] = "search"] /\ Inside(t)
          /\ NewNode(t, Keys[which[t]][step[t]]) /\ UNCHANGED << links, freed, place >>
      BY <2>2 DEF InsertEnter, Enters, Moves, AcquireReturn, Inside
    <3>2. Keys[which[t]][step[t]] \in Int
      <4>1. step[t] \in 1..Len(Keys[which[t]])
        BY <1>13, <3>1 DEF KeyNext
      <4> QED
        BY <1>11, <1>13, <4>1
    <3>3. pc'[t] = "search" /\ \A u \in Threads \ {t} : pc'[u] \notin Linking
      BY <1>11, <1>13, <3>1, NobodyElseLinks
    <3>4. DInv'
      BY <1>1, <1>2, <1>11, <1>13, <3>1, <3>2, <3>3, NewNodeFits DEF DInv
    <3> QED
      BY <1>11, <1>12, <1>13, <2>2, <3>1, <3>4
  <2>3. CASE DLLStep(t) /\ UNCHANGED testVars
    <3>1. t \in Threads /\ pc[t] \in PointsOf(3)
      BY <1>1, <1>11, <1>13
    <3>2. UNCHANGED pc \/ \E q \in PointsOf(3) \ {"insert"} : pc' = [pc EXCEPT ![t] = q]
      BY <2>3, <3>1 DEF DLLStep, PointsOf, DAppendEnter, DAppendLink, DSignal, DSignalReturn, DReturn,
         DRemoveEnter, DRemoveWait, DRemoveWaits, DRemoveFirst, InsertOnly, SearchHead, SearchMiddle,
         SearchEnd, InsertHead, InsertMiddle, InsertEnd, InsertSleeps, YieldsIf,
         Moves, Enters, Works, StartsWait, Waits, Signals, SignalReturns, Leaves
    <3> QED
      BY <1>8, <1>12, <1>13, <2>3, <3>1, <3>2
  <2> QED
    BY <1>13, <2>1, <2>2, <2>3 DEF DLListTest3
<1>14. CASE UNCHANGED tvars
  <2>1. UNCHANGED dllVars /\ UNCHANGED pc /\ UNCHANGED step
    BY <1>14 DEF tvars, mvars, testVars
  <2> QED
    BY <1>1, <1>5, <2>1 DEF KeyNext
<1> QED
  BY <1>6, <1>9, <1>10, <1>13, <1>14 DEF TNext

\* As long as an element is on the list, something is on the way to the loop of Remove().
DListCovered == testnum = 0 => Len(Chain) <= Coming("dtest", {"dsignal"})

LEMMA DListStaysCovered ==
    ASSUME LockKnown, DInv, DListCovered, [TNext]_tvars
    PROVE  DListCovered'
<1> DEFINE C == Coming("dtest", {"dsignal"})
           L == Len(Chain)
<1>0. UNCHANGED testnum
  BY DEF TNext, DLListTest, DLListTest3, TableTest, NextCall, testVars, tvars
<1> SUFFICES ASSUME testnum = 0
             PROVE  L' <= C'
  BY <1>0 DEF DListCovered
<1>1. /\ KTypeOK /\ Agree /\ pc \in [Threads -> PointsOf(0)] /\ pc[Main] = "none" /\ InPlace
      /\ Linked(Chain, first, last, next)
  BY DEF LockKnown, Known, MonitorKnown, InPlace, DInv, ChainInv
<1>2. /\ Alone("dtest") /\ "dtest" \in AtTest
      /\ {"dsignal"} \in SUBSET Within /\ CondOf("dtest") = dllistEmpty
  BY <1>1 DEF Alone, PointsOf, CondOf, AtTest, Within
<1>3. C \in Nat /\ L \in Nat /\ L <= C
  BY <1>1, <1>2, ComingIsNumber DEF DListCovered, Linked
<1>4. Accounted("dtest", {"dsignal"})
  BY <1>1, <1>2, ComingMoves
<1>5. ASSUME NEW t \in Threads
      PROVE  /\ Aside(t) => C' = C
             /\ Enters(t, "dappend", "dlink") => C' = C
             /\ Enters(t, "dremove", "dtest") => C' = C + 1
             /\ Proceeds(t, "dlink", "dsignal") => C' = C + 1
             /\ Proceeds(t, "dtest", "dremoved") => C' = C - 1
             /\ InLock(t) /\ StartsWait(t, "dtest", dllistEmpty) => C' = C - 1
             /\ Signals(t, "dsignal", "drelease", dllistEmpty) => C' = C
             /\ Leaves(t, "drelease") \/ Leaves(t, "dremoved") => C' = C
  <2> USE <1>2, <1>3, <1>4, <1>5 DEF Accounted, Entering, Within, AtTest, AtSignal, One
  <2>1. Aside(t) => C' = C
    OBVIOUS
  <2>2. Enters(t, "dappend", "dlink") => C' = C
    OBVIOUS
  <2>3. Enters(t, "dremove", "dtest") => C' = C + 1
    OBVIOUS
  <2>4. Proceeds(t, "dlink", "dsignal") => C' = C + 1
    OBVIOUS
  <2>5. Proceeds(t, "dtest", "dremoved") => C' = C - 1
    OBVIOUS
  <2>6. InLock(t) /\ StartsWait(t, "dtest", dllistEmpty) => C' = C - 1
    OBVIOUS
  <2>7. Signals(t, "dsignal", "drelease", dllistEmpty) => C' = C
    BY DLListAssumption
  <2>8. Leaves(t, "drelease") \/ Leaves(t, "dremoved") => C' = C
    OBVIOUS
  <2> QED
    BY <2>1, <2>2, <2>3, <2>4, <2>5, <2>6, <2>7, <2>8
<1> HIDE DEF C
<1>6. ASSUME UNCHANGED links
      PROVE  Chain' = Chain
  BY <1>1, <1>6, ChainBecomes DEF links
<1>7. L' = L \/ Chain' = Chain => L' = L
  OBVIOUS
<1>8. ASSUME NEW t \in Threads
      PROVE  /\ DAppendEnter(t) => DInv' /\ Chain' = Chain
             /\ DAppendLink(t) => L' = L + 1
             /\ DRemoveFirst(t) => L' = L - 1
             /\ IsEmpty => L = 0
  BY <1>0, <1>8, AppendRemoveFit
<1> HIDE DEF L
<1>9. ASSUME NEW t \in Threads, Aside(t), UNCHANGED links
      PROVE  L' <= C'
  <2>1. L' = L
    BY <1>6, <1>9 DEF L
  <2> QED
    BY <1>3, <1>5, <1>9, <2>1
<1>10. ASSUME NEW t \in Tested, DLListTest(t)
       PROVE  L' <= C'
  <2>0. t \in Threads /\ pc[t] \in PointsOf(0)
    BY <1>1 DEF Tested
  <2>1. CASE DRemoveCall(t) \/ DAppendCall(t)
    <3>1. Aside(t) /\ UNCHANGED links
      BY <2>1 DEF DRemoveCall, DAppendCall, dllVars, Aside, Entering
    <3> QED
      BY <1>9, <2>0, <3>1
  <2>2. CASE DSignalReturn(t) \/ DRemoveWaits(t)
    <3>1. Aside(t) /\ UNCHANGED links
      BY <2>2, DLListAssumption DEF DSignalReturn, DRemoveWaits, dllVars, Aside
    <3> QED
      BY <1>9, <2>0, <3>1
  <2>3. CASE DAppendEnter(t) \/ DSignal(t) \/ DReturn(t)
    <3>1. C' = C /\ UNCHANGED links
      BY <1>5, <2>0, <2>3 DEF DAppendEnter, DSignal, DReturn, dllVars
    <3>2. L' = L
      BY <1>6, <3>1 DEF L
    <3> QED
      BY <1>3, <3>1, <3>2
  <2>4. CASE DRemoveEnter(t)
    <3>1. C' = C + 1 /\ UNCHANGED links
      BY <1>5, <2>0, <2>4 DEF DRemoveEnter, dllVars
    <3>2. L' = L
      BY <1>6, <3>1 DEF L
    <3> QED
      BY <1>3, <3>1, <3>2
  <2>5. CASE DAppendLink(t)
    <3>1. C' = C + 1 /\ L' = L + 1
      BY <1>5, <1>8, <2>0, <2>5 DEF DAppendLink, Proceeds
    <3> QED
      BY <1>3, <3>1
  <2>6. CASE DRemoveFirst(t)
    <3>1. C' = C - 1 /\ L' = L - 1
      BY <1>5, <1>8, <2>0, <2>6 DEF DRemoveFirst, Proceeds
    <3> QED
      BY <1>3, <3>1
  <2>7. CASE DRemoveWait(t)
    <3>1. C' = C - 1 /\ UNCHANGED links /\ L = 0
      BY <1>5, <1>8, <2>0, <2>7 DEF DRemoveWait, dllVars
    <3>2. L' = L
      BY <1>6, <3>1 DEF L
    <3>3. C >= 1
      <4>1. pc[t] = "dtest" /\ condPhase[t] = "idle"
        BY <2>7 DEF DRemoveWait, StartsWait, InLock
      <4>2. Due("dtest", {"dsignal"}) # {}
        BY <2>0, <4>1 DEF Due
      <4> QED
        BY <1>1, <1>2, <4>2, ComingOfMember DEF C
    <3> QED
      BY <1>3, <3>1, <3>2, <3>3
  <2>8. CASE \/ InsertOnly(t) \/ SearchHead(t) \/ (\E p : SearchMiddle(t, p) \/ SearchEnd(t, p))
             \/ InsertHead(t) \/ InsertMiddle(t) \/ InsertEnd(t) \/ InsertSleeps(t)
    BY <2>0, <2>8 DEF PointsOf, InsertOnly, SearchHead, SearchMiddle, SearchEnd, InsertHead,
       InsertMiddle, InsertEnd, InsertSleeps, Works, Moves, YieldsIf
  <2> QED
    BY <1>10, <2>1, <2>2, <2>3, <2>4, <2>5, <2>6, <2>7, <2>8 DEF DLListTest, DLLStep
<1>11. ASSUME ScriptRest, UNCHANGED << dllVars, testVars >>
       PROVE  L' <= C'
  <2>1. UNCHANGED links
    BY <1>11 DEF dllVars
  <2>2. ASSUME NEW t \in Tested, TestedRest(t)
        PROVE  OutsideStep(t) /\ t \in Threads
    <3>1. t \in Threads /\ pc[t] = "none"
      BY <1>1, <2>2 DEF TestedRest, PointsOf, Tested
    <3> QED
      BY <2>2, <3>1 DEF TestedRest, OutsideStep
  <2>3. MainStep => OutsideStep(Main)
    BY <1>1 DEF MainStep, OutsideStep, Forked, Tested
  <2>4. \E t \in Threads : Aside(t)
    BY <1>11, <2>2, <2>3, KernelAssumption DEF ScriptRest, Aside, Tested
  <2> QED
    BY <1>9, <2>1, <2>4
<1>12. CASE UNCHANGED tvars
  <2>1. UNCHANGED links /\ UNCHANGED mvars
    BY <1>12 DEF tvars, dllVars
  <2> QED
    BY <1>9, <2>1, KernelAssumption DEF Aside
<1> QED
  BY <1>10, <1>11, <1>12 DEF TNext, L, C

\* What is true of the list in every test.
DListSafe ==
    /\ DInv
    /\ KeyNext
    /\ DListCovered
    /\ testnum \notin {0, 3} => Chain = << >>

LEMMA DListAlwaysSafe == TSpec => []DListSafe
<1>1. Known /\ TInit => DListSafe
  <2> SUFFICES ASSUME Known, TInit
               PROVE  DListSafe
    OBVIOUS
  <2>1. DLLInit /\ pc = [t \in Threads |-> "none"]
    BY DEF TInit, SInit, MInit
  <2>2. Linked(<< >>, first, last, next)
    BY <2>1 DEF Linked, DLLInit
  <2>3. Chain = << >>
    BY <2>2, ChainIs
  <2> HIDE DEF Chain
  <2>4. DInv
    BY <2>1, <2>2, <2>3, DLListAssumption DEF DInv, ChainInv, LinkInv, DLLTypeOK, DLLInit, Nodes, Linking
  <2>5. KeyNext
    BY <2>1 DEF KeyNext, Tested
  <2>6. DListCovered
    <3> SUFFICES ASSUME testnum = 0
                 PROVE  Len(Chain) <= Coming("dtest", {"dsignal"})
      BY DEF DListCovered
    <3>1. Coming("dtest", {"dsignal"}) \in Nat
      BY ComingIsNumber DEF Known, MonitorKnown, AtTest
    <3> QED
      BY <2>3, <3>1
  <2> QED
    BY <2>3, <2>4, <2>5, <2>6 DEF DListSafe
<1>2. LockKnown /\ TableSafe /\ DListSafe /\ [TNext]_tvars => DListSafe'
  <2> SUFFICES ASSUME LockKnown, TableSafe, DListSafe, [TNext]_tvars
               PROVE  DListSafe'
    OBVIOUS
  <2>1. DInv' /\ KeyNext'
    BY DListStaysRight DEF DListSafe, TableSafe
  <2>2. DListCovered'
    BY DListStaysCovered DEF DListSafe
  <2>3. (testnum \notin {0, 3} => Chain = << >>)'
    <3>1. UNCHANGED testnum
      BY DEF TNext, DLListTest, DLListTest3, TableTest, NextCall, testVars, tvars
    <3> SUFFICES ASSUME testnum \notin {0, 3}
                 PROVE  Chain' = << >>
      BY <3>1
    <3>2. UNCHANGED links
      BY DEF TNext, tvars, dllVars
    <3>3. Chain = << >> /\ Linked(Chain, first, last, next)
      BY DEF DListSafe, DInv, ChainInv
    <3> QED
      BY <3>2, <3>3, ChainBecomes DEF links
  <2> QED
    BY <2>1, <2>2, <2>3 DEF DListSafe
<1> QED
  BY <1>1, <1>2, AlwaysKnown, AlwaysLockKnown, TableAlwaysSafe, PTL DEF TSpec

\* The links of the list are right in every test, whenever a walk comes: it ends at
\* last, meets no deleted element, and meets the keys in order.
THEOREM WalksAreSafe == TSpec => [](DLLTypeOK /\ WalkSafe)
<1>1. DListSafe => DLLTypeOK /\ WalkSafe
  <2> SUFFICES ASSUME DListSafe
               PROVE  DLLTypeOK /\ WalkSafe
    OBVIOUS
  <2>1. ChainInv /\ Linked(Chain, first, last, next)
    BY DEF DListSafe, DInv, ChainInv
  <2>2. /\ Len(Chain) <= MaxNodes
        /\ Met = [k \in 1..MaxNodes + 1 |-> IF k <= Len(Chain) THEN Chain[k] ELSE NULL]
    BY <2>1, WalkMeets
  <2> HIDE DEF Chain, Met
  <2>3. Len(Chain) \in Nat /\ DOMAIN Chain = 1..Len(Chain) /\ MaxNodes \in Nat
    BY <2>1, DLListAssumption DEF Linked
  <2>4. Met[MaxNodes + 1] = NULL
    <3>1. MaxNodes + 1 \in 1..MaxNodes + 1 /\ ~(MaxNodes + 1 <= Len(Chain))
      BY <2>2, <2>3
    <3> QED
      BY <2>2, <3>1
  <2>5. IF Chain = << >> THEN last = NULL ELSE last = Chain[Len(Chain)]
    BY <2>1 DEF Linked
  <2>6. Listed \cap freed = {}
    BY <2>1, <2>3 DEF Listed, ChainInv
  <2>7. \A k \in DOMAIN Chain : k > 1 => key[Chain[k - 1]] <= key[Chain[k]]
    BY <2>1, <2>3 DEF ChainInv
  <2> QED
    BY <2>1, <2>4, <2>5, <2>6, <2>7 DEF WalkSafe, ChainInv
<1> QED
  BY <1>1, DListAlwaysSafe, PTL

\* No wakeup is lost across Append() and Remove() of the list.
THEOREM NoDLRemoverStranded == TSpec => []NoStrandedDLRemover
<1>1. LockKnown /\ DListSafe => NoStrandedDLRemover
  <2> SUFFICES ASSUME LockKnown, DListSafe, mode = "Halted",
                      NEW t \in Threads, pc[t] \in {"dremove", "dtest"}
               PROVE  IsEmpty
    BY DEF NoStrandedDLRemover
  <2>1. testnum = 0 /\ MonitorKnown
    BY DEF LockKnown, Known, InPlace, PointsOf, ListPoints, BufferPoints, TablePoints
  <2>2. pc[t] = "dtest"
    BY <2>1 DEF MonitorKnown, OnlyWaitersLeft, AtTest
  <2>3. Coming("dtest", {"dsignal"}) = 0
    BY <2>1, <2>2, NothingComing DEF AtTest, Within
  <2>4. Linked(Chain, first, last, next) /\ Len(Chain) <= 0
    BY <2>1, <2>3 DEF DListSafe, DListCovered, DInv, ChainInv
  <2> HIDE DEF Chain
  <2> QED
    BY <2>4 DEF Linked, IsEmpty
<1> QED
  BY <1>1, AlwaysLockKnown, DListAlwaysSafe, PTL

\* In every test, a machine that halts leaves nobody asleep beside what it waits for.
THEOREM NobodyIsStranded == TSpec => []NobodyStranded
BY NoRemoverStranded, NoThreadStranded, NoReleaserStranded, NoDLRemoverStranded, PTL
   DEF NobodyStranded

\* What a thread at p has asked of the list, in test n.
DListAsked(n, p) ==
    CASE n # 0 -> "none"
      [] n = 0 /\ p = "dlink" -> "append"
      [] n = 0 /\ p \in {"dsignal", "drelease", "dremoved"} -> "done"
      [] n = 0 /\ p \in {"dremove", "dtest"} -> "remove"
      [] OTHER -> "none"

\* DLList with Append() and Remove() implements the abstract queue: what is appended is
\* removed once, and in the order of the appends.
THEOREM DLListQueues == TSpec => DLListIsQueue
<1> DEFINE contents == IF testnum = 0 THEN Chain ELSE << >>
           held == IF testnum = 0 THEN node ELSE [t \in Threads |-> NULL]
           asked == [t \in Threads |-> DListAsked(testnum, pc[t])]
<1>1. DListSafe /\ TInit => DLLQueue!AInit
  <2> SUFFICES ASSUME DListSafe, TInit
               PROVE  DLLQueue!AInit
    OBVIOUS
  <2>1. DLLInit /\ pc = [t \in Threads |-> "none"]
    BY DEF TInit, SInit, MInit
  <2>2. Linked(<< >>, first, last, next)
    BY <2>1 DEF Linked, DLLInit
  <2>3. Chain = << >>
    BY <2>2, ChainIs
  <2> HIDE DEF Chain
  <2> QED
    BY <2>1, <2>3 DEF DLLQueue!AInit, DLLInit
<1>2. LockKnown /\ DListSafe /\ [TNext]_tvars => [DLLQueue!ANext]_(DLLQueue!avars)
  <2> SUFFICES ASSUME LockKnown, DListSafe, [TNext]_tvars
               PROVE  \/ UNCHANGED << contents, asked, held >>
                      \/ DLLQueue!ANext
    BY DEF DLLQueue!avars, DListAsked
  <2>0. pc \in [Threads -> PointsOf(testnum)] /\ pc' \in [Threads -> PointsOf(testnum)]
        /\ UNCHANGED testnum /\ InPlace
    <3>1. InPlace' /\ UNCHANGED testnum
      BY EverybodyStaysInPlace
         DEF LockKnown, Known, TNext, DLListTest, DLListTest3, TableTest, NextCall, testVars, tvars
    <3> QED
      BY <3>1 DEF LockKnown, Known, InPlace
  <2>1. CASE testnum # 0
    BY <2>0, <2>1 DEF DListAsked
  <2>2. CASE testnum = 0
    <3>0. DInv /\ node \in [Threads -> Nodes \cup {NULL}] /\ Linked(Chain, first, last, next)
          /\ allocated \in 0..MaxNodes
      BY DEF DListSafe, DListCovered, DInv, ChainInv, DLLTypeOK
    <3>1. pc \in [Threads -> PointsOf(0)] /\ pc' \in [Threads -> PointsOf(0)]
      BY <2>0, <2>2
    <3>2. ASSUME UNCHANGED pc
          PROVE  UNCHANGED asked
      BY <2>0, <3>2
    <3>3. ASSUME NEW t \in Threads, NEW q \in PointsOf(0), pc' = [pc EXCEPT ![t] = q]
          PROVE  asked' = [asked EXCEPT ![t] = DListAsked(0, q)]
      BY <2>0, <2>2, <3>1, <3>3
    <3>4. \A t \in Threads : asked[t] = DListAsked(0, pc[t])
      BY <2>2
    <3>5. asked \in [Threads -> {"append", "remove", "done", "none"}]
      BY DEF DListAsked
    <3>6. DLLQueue!ANext <=>
            \E t \in Threads :
              /\ asked'[t] # asked[t]
              /\ \/ \E x \in Nodes : /\ asked[t] = "none"
                                     /\ asked' = [asked EXCEPT ![t] = "append"]
                                     /\ held' = [held EXCEPT ![t] = x]
                                     /\ UNCHANGED contents
                 \/ /\ asked[t] = "append"
                    /\ contents' = Append(contents, held[t])
                    /\ asked' = [asked EXCEPT ![t] = "done"]
                    /\ UNCHANGED held
                 \/ /\ asked[t] = "none"
                    /\ asked' = [asked EXCEPT ![t] = "remove"]
                    /\ UNCHANGED << contents, held >>
                 \/ /\ asked[t] = "remove"
                    /\ contents # << >>
                    /\ held' = [held EXCEPT ![t] = Head(contents)]
                    /\ contents' = Tail(contents)
                    /\ asked' = [asked EXCEPT ![t] = "done"]
                 \/ /\ asked[t] = "done"
                    /\ asked' = [asked EXCEPT ![t] = "none"]
                    /\ held' = [held EXCEPT ![t] = NULL]
                    /\ UNCHANGED contents
      BY Zenon DEF DListAsked, DLLQueue!ANext, DLLQueue!CallAppend, DLLQueue!DoAppend,
         DLLQueue!CallRemove, DLLQueue!DoRemove, DLLQueue!Return
    <3>7. contents = Chain /\ contents' = Chain' /\ held = node /\ held' = node'
      BY <2>0, <2>2
    <3> HIDE DEF asked, contents, held, Chain
    <3>22. /\ PointsOf(0) = {"none", "dappend", "dlink", "dsignal", "drelease",
                              "dremove", "dtest", "dremoved"}
           /\ DListAsked(0, "none") = "none" /\ DListAsked(0, "dappend") = "none"
           /\ DListAsked(0, "dlink") = "append"
           /\ DListAsked(0, "dsignal") = "done" /\ DListAsked(0, "drelease") = "done"
           /\ DListAsked(0, "dremoved") = "done"
           /\ DListAsked(0, "dremove") = "remove" /\ DListAsked(0, "dtest") = "remove"
      BY DEF PointsOf, DListAsked
    <3>23. ASSUME NEW t \in Threads, NEW p \in PointsOf(0), NEW q \in PointsOf(0),
                  pc[t] = p, pc' = [pc EXCEPT ![t] = q]
           PROVE  asked[t] = DListAsked(0, p) /\ asked' = [asked EXCEPT ![t] = DListAsked(0, q)]
      BY <3>3, <3>4, <3>23
    <3>8. ASSUME UNCHANGED links
          PROVE  Chain' = Chain
      BY <3>0, <3>8, ChainBecomes DEF links
    <3>9. ASSUME NEW t \in Threads, NEW q \in PointsOf(0), pc' = [pc EXCEPT ![t] = q],
                 UNCHANGED dllVars, DListAsked(0, q) = DListAsked(0, pc[t])
          PROVE  UNCHANGED << contents, asked, held >>
      <4>1. asked' = [asked EXCEPT ![t] = asked[t]]
        BY <3>3, <3>4, <3>9
      <4> QED
        BY <3>5, <3>7, <3>8, <3>9, <4>1 DEF dllVars
    <3>10. ASSUME UNCHANGED << pc, dllVars >>
           PROVE  UNCHANGED << contents, asked, held >>
      BY <3>2, <3>7, <3>8, <3>10 DEF dllVars
    <3>11. ASSUME NEW t \in Threads, DAppendEnter(t)
           PROVE  DLLQueue!ANext
      <4>1. pc[t] = "dappend" /\ pc' = [pc EXCEPT ![t] = "dlink"]
        BY <3>11, PointsMove DEF DAppendEnter
      <4>2. asked[t] = "none" /\ asked' = [asked EXCEPT ![t] = "append"]
        <5>1. "dappend" \in PointsOf(0) /\ "dlink" \in PointsOf(0)
          BY <3>22
        <5>2. /\ asked[t] = DListAsked(0, "dappend")
              /\ asked' = [asked EXCEPT ![t] = DListAsked(0, "dlink")]
          BY <3>23, <4>1, <5>1
        <5> QED
          BY <3>22, <5>2
      <4>3. allocated + 1 \in Nodes /\ held' = [held EXCEPT ![t] = allocated + 1]
            /\ UNCHANGED contents
        <5>1. allocated + 1 \in Nodes
          BY <3>0, <3>11, DLListAssumption DEF DAppendEnter, NewNode, Nodes
        <5> QED
          BY <3>7, <3>8, <3>11, <5>1 DEF DAppendEnter, NewNode
      <4> QED
        BY <3>5, <3>6, <4>2, <4>3
    <3>12. ASSUME NEW t \in Threads, DAppendLink(t)
           PROVE  DLLQueue!ANext
      <4>1. pc[t] = "dlink" /\ pc' = [pc EXCEPT ![t] = "dsignal"]
        BY <3>12 DEF DAppendLink, Works, Moves
      <4>2. asked[t] = "append" /\ asked' = [asked EXCEPT ![t] = "done"]
        <5>1. "dlink" \in PointsOf(0) /\ "dsignal" \in PointsOf(0)
          BY <3>22
        <5>2. /\ asked[t] = DListAsked(0, "dlink")
              /\ asked' = [asked EXCEPT ![t] = DListAsked(0, "dsignal")]
          BY <3>23, <4>1, <5>1
        <5> QED
          BY <3>22, <5>2
      <4>3. Chain' = Append(Chain, node[t]) /\ UNCHANGED node
        BY <2>0, <3>0, <3>12, AppendRemoveFit DEF DAppendLink
      <4> QED
        BY <3>5, <3>6, <3>7, <4>2, <4>3
    <3>13. ASSUME NEW t \in Threads, DRemoveCall(t)
           PROVE  DLLQueue!ANext
      <4>1. pc[t] = "none" /\ pc' = [pc EXCEPT ![t] = "dremove"]
        BY <3>13, PointsMove DEF DRemoveCall
      <4>2. asked[t] = "none" /\ asked' = [asked EXCEPT ![t] = "remove"]
        <5>1. "none" \in PointsOf(0) /\ "dremove" \in PointsOf(0)
          BY <3>22
        <5>2. /\ asked[t] = DListAsked(0, "none")
              /\ asked' = [asked EXCEPT ![t] = DListAsked(0, "dremove")]
          BY <3>23, <4>1, <5>1
        <5> QED
          BY <3>22, <5>2
      <4>3. UNCHANGED << contents, held >>
        BY <3>7, <3>8, <3>13 DEF DRemoveCall, dllVars
      <4> QED
        BY <3>5, <3>6, <4>2, <4>3
    <3>14. ASSUME NEW t \in Threads, DRemoveFirst(t)
           PROVE  DLLQueue!ANext
      <4>1. pc[t] = "dtest" /\ pc' = [pc EXCEPT ![t] = "dremoved"]
        BY <3>14 DEF DRemoveFirst, Works, Moves
      <4>2. asked[t] = "remove" /\ asked' = [asked EXCEPT ![t] = "done"]
        <5>1. "dtest" \in PointsOf(0) /\ "dremoved" \in PointsOf(0)
          BY <3>22
        <5>2. /\ asked[t] = DListAsked(0, "dtest")
              /\ asked' = [asked EXCEPT ![t] = DListAsked(0, "dremoved")]
          BY <3>23, <4>1, <5>1
        <5> QED
          BY <3>22, <5>2
      <4>3. /\ Chain # << >> /\ Chain' = Tail(Chain)
            /\ node' = [node EXCEPT ![t] = Head(Chain)]
        BY <2>0, <3>0, <3>14, AppendRemoveFit DEF DRemoveFirst
      <4> QED
        BY <3>5, <3>6, <3>7, <4>2, <4>3
    <3>15. ASSUME NEW t \in Threads, DReturn(t)
           PROVE  DLLQueue!ANext
      <4>1. pc[t] \in {"drelease", "dremoved"} /\ pc' = [pc EXCEPT ![t] = "none"]
        BY <3>15, PointsMove DEF DReturn
      <4>2. asked[t] = "done" /\ asked' = [asked EXCEPT ![t] = "none"]
        <5>1. pc[t] \in PointsOf(0) /\ "none" \in PointsOf(0)
          BY <3>22, <4>1
        <5>2. /\ asked[t] = DListAsked(0, pc[t])
              /\ asked' = [asked EXCEPT ![t] = DListAsked(0, "none")]
          BY <3>23, <4>1, <5>1
        <5> QED
          BY <3>22, <4>1, <5>2
      <4>3. held' = [held EXCEPT ![t] = NULL] /\ UNCHANGED contents
        BY <3>7, <3>8, <3>15 DEF DReturn, Forgets
      <4> QED
        BY <3>5, <3>6, <4>2, <4>3
    <3>16. ASSUME NEW t \in Threads, DAppendCall(t) \/ DSignal(t) \/ DRemoveEnter(t)
           PROVE  UNCHANGED << contents, asked, held >>
      <4>1. /\ UNCHANGED dllVars
            /\ \E q \in PointsOf(0) : /\ pc' = [pc EXCEPT ![t] = q]
                                      /\ DListAsked(0, q) = DListAsked(0, pc[t])
        <5>1. CASE DAppendCall(t)
          <6>1. pc[t] = "none" /\ pc' = [pc EXCEPT ![t] = "dappend"]
            BY <5>1, PointsMove DEF DAppendCall
          <6> QED
            BY <3>22, <5>1, <6>1 DEF DAppendCall
        <5>2. CASE DSignal(t)
          <6>1. pc[t] = "dsignal" /\ pc' = [pc EXCEPT ![t] = "drelease"]
            BY <5>2, PointsMove DEF DSignal
          <6> QED
            BY <3>22, <5>2, <6>1 DEF DSignal
        <5>3. CASE DRemoveEnter(t)
          <6>1. pc[t] = "dremove" /\ pc' = [pc EXCEPT ![t] = "dtest"]
            BY <5>3, PointsMove DEF DRemoveEnter
          <6> QED
            BY <3>22, <5>3, <6>1 DEF DRemoveEnter
        <5> QED
          BY <3>16, <5>1, <5>2, <5>3
      <4> QED
        BY <3>9, <4>1
    <3>17. ASSUME NEW t \in Threads, DSignalReturn(t) \/ DRemoveWait(t) \/ DRemoveWaits(t)
           PROVE  UNCHANGED << contents, asked, held >>
      <4>1. UNCHANGED << pc, dllVars >>
        BY <3>17, PointsMove DEF DSignalReturn, DRemoveWait, DRemoveWaits
      <4> QED
        BY <3>10, <4>1
    <3>18. ASSUME ScriptRest, UNCHANGED dllVars
           PROVE  UNCHANGED << contents, asked, held >>
      <4>1. UNCHANGED pc
        BY <3>18, PointsMove DEF ScriptRest, TestedRest, MainStep
      <4> QED
        BY <3>10, <3>18, <4>1
    <3>19. ASSUME UNCHANGED tvars
           PROVE  UNCHANGED << contents, asked, held >>
      <4>1. UNCHANGED << pc, dllVars >>
        BY <3>19 DEF tvars, mvars
      <4> QED
        BY <3>10, <4>1
\* SortedInsert() has no place in test 0.
    <3>20. ASSUME NEW t \in Threads,
                  \/ InsertOnly(t) \/ SearchHead(t)
                  \/ \E p \in Listed : SearchMiddle(t, p) \/ SearchEnd(t, p)
                  \/ InsertHead(t) \/ InsertMiddle(t) \/ InsertEnd(t) \/ InsertSleeps(t)
           PROVE  FALSE
      <4>1. pc[t] \in {"search", "head", "middle", "end", "again"}
        BY <3>20 DEF InsertOnly, SearchHead, SearchMiddle, SearchEnd, InsertHead, InsertMiddle,
           InsertEnd, InsertSleeps, YieldsIf, Works, Moves
      <4> QED
        BY <3>1, <3>22, <4>1
    <3>21. ASSUME NEW t \in Threads, DLListTest(t)
           PROVE  \/ UNCHANGED << contents, asked, held >>
                  \/ DLLQueue!ANext
      BY <3>11, <3>12, <3>13, <3>14, <3>15, <3>16, <3>17, <3>20, <3>21 DEF DLListTest, DLLStep
    <3> QED
      BY <2>2, <3>18, <3>19, <3>21 DEF TNext, Tested
  <2> QED
    BY <2>1, <2>2
<1> QED
  BY <1>1, <1>2, AlwaysLockKnown, DListAlwaysSafe, PTL DEF TSpec, DLListIsQueue, DLLQueue!ASpec

\* The types of what is below the classes.
LEMMA BelowIsTyped == TSpec => []CTypeOK
<1>1. KTypeOK /\ InsertKnown => CTypeOK
  BY DEF InsertKnown, CTypeOK, LTypeOK
<1>2. TSpec /\ testnum # 3 => []CTypeOK
  BY TestsAreConditionClients, ConditionTyping, PTL
<1>3. TSpec /\ testnum = 3 => []CTypeOK
  BY <1>1, InsertAlwaysKnown, PTL
<1>4. testnum # 3 <=> ~(testnum = 3)
  OBVIOUS
<1> QED
  BY <1>2, <1>3, <1>4, PTL

\* In every test the types are right, the counters of the ring and of the table count
\* what is in them, and the links of the list are those of a list.
THEOREM TestsAreConsistent == TSpec => []TConsistent
<1>1. InPlace => pc \in [Threads -> ListPoints \cup BufferPoints \cup TablePoints \cup DLLPoints]
  <2> SUFFICES ASSUME InPlace
               PROVE  PointsOf(testnum) \subseteq
                        ListPoints \cup BufferPoints \cup TablePoints \cup DLLPoints
    BY DEF InPlace
  <2> QED
    BY DEF InPlace, PointsOf, DLLPoints
<1>2. TableSafe => step \in [Threads -> Nat]
  BY DEF TableSafe
<1>3. /\ CTypeOK /\ STypeOK /\ BTypeOK /\ TableTypeOK /\ DLLTypeOK /\ step \in [Threads -> Nat]
      /\ pc \in [Threads -> ListPoints \cup BufferPoints \cup TablePoints \cup DLLPoints]
      /\ RingConsistent /\ CountExact /\ WalkSafe
      => TConsistent
  BY DEF TConsistent, TTypeOK
<1> QED
  BY <1>1, <1>2, <1>3, BelowIsTyped, EverybodyInPlace, ListTyping, RingStaysConsistent,
     TableStaysConsistent, TableAlwaysSafe, WalksAreSafe, PTL
=============================================================================
