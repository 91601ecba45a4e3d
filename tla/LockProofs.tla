----------------------------- MODULE LockProofs -----------------------------
(***************************************************************************)
(* Theorems about the semaphore-based lock, for every set of threads and   *)
(* whatever other semaphores they use.                                     *)
(***************************************************************************)
EXTENDS Lock, KernelProofs

\* V() moves nobody.
LEMMA VMovesNobody ==
    ASSUME NEW s, V(s)
    PROVE  UNCHANGED inP /\ value' = [value EXCEPT ![s] = value[s] + 1]
BY Zenon DEF V

\* The kernel steps that are no part of P() or V() move nobody.
LEMMA SwitchMovesNobody ==
    ASSUME \/ Dispatch \/ Halt \/ Preempt \/ Yield \/ Finish
           \/ \E u \in Threads : Fork(u)
           \/ \E t \in Threads, s \in Semaphores : PSleep(t, s)
    PROVE  UNCHANGED << inP, value >>
BY DEF Dispatch, Halt, Preempt, Yield, SwitchAway, Finish, Fork, PSleep,
       semaphoreVars, kvars

\* The steps of the lock.
LEMMA LockMoves ==
    ASSUME NEW t \in Threads
    PROVE  /\ Acquire(t) => /\ phase[t] = "outside" /\ inP[t] = NULL
                            /\ phase' = [phase EXCEPT ![t] = "acquiring"]
                            /\ inP' = [inP EXCEPT ![t] = mutex]
                            /\ UNCHANGED value
           /\ AcquireTake(t) => /\ inP[t] = mutex
                                /\ phase' = [phase EXCEPT ![t] = "acquired"]
                                /\ inP' = [inP EXCEPT ![t] = NULL]
                                /\ value' = [value EXCEPT ![mutex] = value[mutex] - 1]
           /\ AcquireReturn(t) => /\ phase[t] = "acquired" /\ inP[t] = NULL
                                  /\ phase' = [phase EXCEPT ![t] = "holding"]
                                  /\ UNCHANGED << inP, value >>
           /\ Release(t) => /\ phase[t] = "holding" /\ inP[t] = NULL
                            /\ phase' = [phase EXCEPT ![t] = "outside"]
                            /\ UNCHANGED inP
                            /\ value' = [value EXCEPT ![mutex] = value[mutex] + 1]
<1>1. Release(t) => V(mutex)
  BY DEF Release
<1> QED
  BY <1>1, VMovesNobody
     DEF Acquire, PEnter, Executing, AcquireTake, PTake, InsideP, AcquireReturn,
         Release, kvars

\* Every step of a program with a lock is a step of the kernel, so that all
\* that is proved of the kernel holds for it.
THEOREM LockIsKernelClient == LSpec => KSpec
<1>1. LInit => KInit
  BY DEF LInit
<1>2. [LNext]_lvars => [KNext]_kvars
  <2> SUFFICES ASSUME [LNext]_lvars
               PROVE  [KNext]_kvars
    OBVIOUS
  <2> USE LockAssumption DEF KNext, ThreadStep, MachineStep
  <2>1. ASSUME NEW t \in Threads, LockStep(t)
        PROVE  KNext \/ UNCHANGED kvars
    <3>1. CASE Acquire(t)
      BY <3>1 DEF Acquire
    <3>2. CASE AcquireSleep(t)
      BY <3>2 DEF AcquireSleep
    <3>3. CASE AcquireTake(t)
      BY <3>3 DEF AcquireTake
    <3>4. CASE AcquireReturn(t)
      BY <3>4 DEF AcquireReturn
    <3>5. CASE Release(t)
      BY <3>5 DEF Release
    <3> QED
      BY <2>1, <3>1, <3>2, <3>3, <3>4, <3>5 DEF LockStep
  <2>2. ASSUME NEW t \in Threads, OtherStep(t)
        PROVE  KNext
    BY <2>2 DEF OtherStep
  <2>3. CASE LMachineStep
    BY <2>3 DEF LMachineStep
  <2>4. CASE UNCHANGED lvars
    BY <2>4 DEF lvars
  <2> QED
    BY <2>1, <2>2, <2>3, <2>4 DEF LNext
<1> QED
  BY <1>1, <1>2, PTL DEF LSpec, KSpec

-----------------------------------------------------------------------------
(* The inductive invariant: the value of mutex is 1 when the lock is free   *)
(* and 0 when one thread is inside; a thread is in P() of mutex exactly     *)
(* when its phase says so.                                                 *)

LInv ==
    /\ phase \in [Threads -> Phases]
    /\ \A t \in Threads : phase[t] = "acquiring" <=> inP[t] = mutex
    /\ value[mutex] \in {0, 1}
    /\ value[mutex] = 1 => \A t \in Threads : ~Inside(t)
    /\ value[mutex] = 0 => \E t \in Threads : Inside(t)
    /\ MutualExclusion
    /\ HolderKnown

\* A step that touches neither mutex nor the lock's variables keeps LInv.
LEMMA LInvKept ==
    ASSUME LInv, KTypeOK, UNCHANGED << phase, threadHoldLock >>,
           value'[mutex] = value[mutex],
           \A t \in Threads : inP'[t] = mutex <=> inP[t] = mutex
    PROVE  LInv'
BY DEF LInv, MutualExclusion, HolderKnown, Inside

\* V() of another semaphore does not touch mutex.
LEMMA OtherV ==
    ASSUME KTypeOK, NEW s \in Semaphores \ {mutex}, V(s)
    PROVE  value'[mutex] = value[mutex] /\ UNCHANGED inP
<1>1. value' = [value EXCEPT ![s] = value[s] + 1] /\ UNCHANGED inP
  BY Zenon DEF V
<1> QED
  BY <1>1, LockAssumption DEF KTypeOK

\* LInv holds in every state.
THEOREM LockInvariant == LSpec => []LInv
<1> USE KernelAssumption, LockAssumption
<1>1. LInit => LInv
  BY DEF LInit, KInit, LInv, Phases, Inside, MutualExclusion, HolderKnown
<1>2. LInv /\ KTypeOK /\ [LNext]_lvars => LInv'
  <2> SUFFICES ASSUME LInv, KTypeOK, [LNext]_lvars
               PROVE  LInv'
    OBVIOUS
  <2> USE DEF threadVars, semaphoreVars, Phases, Inside
  <2>1. ASSUME NEW t \in Threads, Acquire(t)
        PROVE  LInv'
    <3>1. /\ phase[t] = "outside" /\ inP[t] = NULL
          /\ phase' = [phase EXCEPT ![t] = "acquiring"]
          /\ inP' = [inP EXCEPT ![t] = mutex]
          /\ UNCHANGED << value, threadHoldLock >>
      BY <2>1 DEF Acquire, PEnter, Executing
    <3> QED
      BY <3>1 DEF LInv, KTypeOK, MutualExclusion, HolderKnown
  <2>2. ASSUME NEW t \in Threads, AcquireSleep(t)
        PROVE  LInv'
    BY <2>2, LInvKept DEF AcquireSleep, PSleep
  <2>3. ASSUME NEW t \in Threads, AcquireTake(t)
        PROVE  LInv'
    <3>1. /\ phase[t] = "acquiring" /\ value[mutex] = 1
          /\ phase' = [phase EXCEPT ![t] = "acquired"]
          /\ inP' = [inP EXCEPT ![t] = NULL]
          /\ value'[mutex] = 0
          /\ UNCHANGED threadHoldLock
      BY <2>3 DEF AcquireTake, PTake, InsideP, LInv, KTypeOK
    <3>2. \A u \in Threads : phase[u] \notin {"acquired", "holding"}
      BY <3>1 DEF LInv
    <3>3. \A u \in Threads : Inside(u)' => u = t
      BY <3>1, <3>2 DEF LInv
    <3>4. MutualExclusion' /\ HolderKnown'
      BY <3>1, <3>2, <3>3 DEF LInv, MutualExclusion, HolderKnown
    <3> QED
      BY <3>1, <3>4 DEF LInv, KTypeOK
  <2>4. ASSUME NEW t \in Threads, AcquireReturn(t)
        PROVE  LInv'
    <3>1. /\ phase[t] = "acquired"
          /\ phase' = [phase EXCEPT ![t] = "holding"]
          /\ threadHoldLock' = t
          /\ UNCHANGED << inP, value >>
      BY <2>4 DEF AcquireReturn, kvars
    <3> QED
      BY <3>1 DEF LInv, MutualExclusion, HolderKnown
  <2>5. ASSUME NEW t \in Threads, Release(t)
        PROVE  LInv'
    <3>1. /\ phase[t] = "holding" /\ inP[t] = NULL
          /\ phase' = [phase EXCEPT ![t] = "outside"]
          /\ threadHoldLock' = NULL
          /\ value' = [value EXCEPT ![mutex] = value[mutex] + 1]
          /\ UNCHANGED inP
      BY <2>5, Zenon DEF Release, V, Executing
    <3>2. \A u \in Threads : Inside(u) <=> u = t
      BY <3>1 DEF LInv, MutualExclusion
    <3>3. \A u \in Threads : phase'[u] \notin {"acquired", "holding"}
      BY <3>1, <3>2 DEF LInv
    <3>4. value[mutex] = 0 /\ value'[mutex] = 1
      BY <3>1, <3>2 DEF LInv, KTypeOK
    <3> QED
      BY <3>1, <3>3, <3>4 DEF LInv, MutualExclusion, HolderKnown
  <2>6. ASSUME NEW t \in Threads, OtherStep(t)
        PROVE  LInv'
    <3>1. CASE \/ \E u \in Threads : Fork(u)
               \/ Yield
               \/ Finish
      BY <2>6, <3>1, LInvKept DEF OtherStep, Fork, Yield, SwitchAway, Finish, kvars
    <3>2. ASSUME NEW s \in Semaphores \ {mutex}, PEnter(t, s)
          PROVE  LInv'
      <4>1. inP[t] = NULL /\ inP' = [inP EXCEPT ![t] = s] /\ UNCHANGED value
        BY <3>2 DEF PEnter, Executing
      <4> QED
        BY <2>6, <4>1, LInvKept DEF OtherStep, KTypeOK
    <3>3. ASSUME NEW s \in Semaphores \ {mutex}, PSleep(t, s)
          PROVE  LInv'
      BY <2>6, <3>3, LInvKept DEF OtherStep, PSleep
    <3>4. ASSUME NEW s \in Semaphores \ {mutex}, PTake(t, s)
          PROVE  LInv'
      <4>1. /\ inP[t] = s /\ inP' = [inP EXCEPT ![t] = NULL]
            /\ value'[mutex] = value[mutex]
        BY <3>4 DEF PTake, InsideP, KTypeOK
      <4> QED
        BY <2>6, <4>1, LInvKept DEF OtherStep, KTypeOK
    <3>5. ASSUME NEW s \in Semaphores \ {mutex}, V(s)
          PROVE  LInv'
      BY <2>6, <3>5, OtherV, LInvKept DEF OtherStep
    <3>6. ASSUME NEW s \in Semaphores \ {mutex}, Schedule(s)
          PROVE  LInv'
      BY <2>6, <3>6, LInvKept DEF OtherStep, Schedule
    <3> QED
      BY <2>6, <3>1, <3>2, <3>3, <3>4, <3>5, <3>6 DEF OtherStep
  <2>7. CASE LMachineStep
    <3>1. CASE Dispatch \/ Halt \/ Preempt
      BY <2>7, <3>1, LInvKept DEF LMachineStep, Dispatch, Halt, Preempt, SwitchAway
    <3>2. ASSUME NEW s \in Semaphores \ {mutex}, Interrupt(s)
          PROVE  LInv'
      BY <2>7, <3>2, OtherV, LInvKept DEF LMachineStep, Interrupt
    <3> QED
      BY <2>7, <3>1, <3>2 DEF LMachineStep
  <2>8. CASE UNCHANGED lvars
    BY <2>8, LInvKept DEF lvars, kvars
  <2> QED
    BY <2>1, <2>2, <2>3, <2>4, <2>5, <2>6, <2>7, <2>8 DEF LNext, LockStep
<1> QED
  BY <1>1, <1>2, LockIsKernelClient, Typing, PTL DEF LSpec

\* Mutual exclusion, and threadHoldLock names the thread that is inside,
\* although V() does not hand the lock to the thread it wakes.
THEOREM LockSafety == LSpec => [](MutualExclusion /\ HolderKnown)
<1>1. LInv => MutualExclusion /\ HolderKnown
  BY DEF LInv
<1> QED
  BY <1>1, LockInvariant, PTL

\* A lock is not lost: threads in Acquire() when the machine halts wait for one
\* that went to sleep inside its critical section.
THEOREM NoLockIsLost == LSpec => []NoStuckAcquire
<1> DEFINE Due == mode = "Halted" =>
                    \A t \in Threads, s \in Semaphores : inP[t] = s =>
                        t \in Range(queue[s]) /\ value[s] = 0 /\ pending[s] = 0
<1>1. LInv /\ Due => NoStuckAcquire
  BY LockAssumption DEF LInv, NoStuckAcquire
<1>2. KSpec => []Due
  BY HaltedSleepersAreDue
<1> HIDE DEF Due
<1> QED
  BY <1>1, <1>2, LockInvariant, LockIsKernelClient, PTL

\* Every variable of the lock and of the kernel below it keeps its type.
THEOREM LockTyping == LSpec => []LTypeOK
<1> DEFINE HolderTyped == threadHoldLock \in Threads \cup {NULL}
<1>1. LInit => HolderTyped
  BY DEF LInit
<1>2. HolderTyped /\ [LNext]_lvars => HolderTyped'
  BY DEF LNext, LockStep, Acquire, AcquireSleep, AcquireTake, AcquireReturn, Release,
         OtherStep, LMachineStep, lvars
<1>3. LInv /\ KTypeOK /\ HolderTyped => LTypeOK
  BY DEF LInv, LTypeOK
<1> HIDE DEF HolderTyped
<1> QED
  BY <1>1, <1>2, <1>3, LockInvariant, LockIsKernelClient, Typing, PTL DEF LSpec

-----------------------------------------------------------------------------
(* The lock implements the abstract lock.                                  *)

\* Acquire() and Release() are the operations of synch.h:54-60: the steps of
\* the semaphore, its queue and the scheduler show as Ask, Get and Free of an
\* abstract lock or not at all.
THEOREM LockImplemented == LSpec => ImplementsLock
<1> USE KernelAssumption, LockAssumption
<1>1. LInit => Locking!AInit
  BY DEF LInit, Locking!AInit, Inside
<1>2. LInv /\ LInv' /\ [LNext]_lvars => [Locking!ANext]_(Locking!avars)
  <2> SUFFICES ASSUME LInv, LInv', [LNext]_lvars
               PROVE  [Locking!ANext]_(Locking!avars)
    OBVIOUS
  <2> USE DEF Inside, LInv, Phases
  <2>1. ASSUME NEW t \in Threads, Acquire(t)
        PROVE  Locking!Ask(t)
    BY <2>1 DEF Acquire, Locking!Ask
  <2>2. ASSUME NEW t \in Threads, AcquireTake(t)
        PROVE  Locking!Get(t)
    <3>1. /\ phase[t] = "acquiring" /\ value[mutex] = 1
          /\ phase' = [phase EXCEPT ![t] = "acquired"]
      BY <2>2 DEF AcquireTake, PTake, InsideP
    <3>2. \A u \in Threads : phase[u] \notin {"acquired", "holding"}
      BY <3>1
    <3> QED
      BY <3>1, <3>2 DEF Locking!Get
  <2>3. ASSUME NEW t \in Threads, AcquireReturn(t)
        PROVE  UNCHANGED Locking!avars
    BY <2>3 DEF AcquireReturn, Locking!avars
  <2>4. ASSUME NEW t \in Threads, Release(t)
        PROVE  Locking!Free(t)
    BY <2>4 DEF Release, Locking!Free
  <2>5. ASSUME UNCHANGED phase
        PROVE  UNCHANGED Locking!avars
    BY <2>5 DEF Locking!avars
  <2> QED
    BY <2>1, <2>2, <2>3, <2>4, <2>5
       DEF LNext, LockStep, AcquireSleep, OtherStep, LMachineStep, lvars, Locking!ANext
<1> QED
  BY <1>1, <1>2, LockInvariant, PTL DEF LSpec, ImplementsLock, Locking!ASpec
=============================================================================
