----------------------------- MODULE DiskProofs -----------------------------
(***************************************************************************)
(* Theorems about the synchronous disk, for every set of threads, sectors  *)
(* and contents; and about the file system that writes to it and the       *)
(* commands that use the files, for any disk, directory, names and texts.  *)
(*                                                                         *)
(* In the second part what a disk holds is said of the disk as a           *)
(* parameter, d, and of the directory as a parameter, t: the operations    *)
(* compute new values of both.                                             *)
(***************************************************************************)
EXTENDS SynchDisk, FileTest, LockProofs, FiniteSetTheorems, SequenceTheorems,
        WellFoundedInduction

-----------------------------------------------------------------------------
(* Where each thread is: its place in SynchDisk tells its place in the lock *)
(* and in P().                                                             *)

\* The semaphore whose P() thread t must be in.
ExpectedP(t) ==
    IF phase[t] = "acquiring" THEN mutex
    ELSE IF pc[t] = "wait" THEN semaphore ELSE NULL

PlacesAgree ==
    /\ phase \in [Threads -> Phases]
    /\ pc \in [Threads -> CallPoints]
    /\ inP \in [Threads -> Semaphores \cup {NULL}]
    /\ \A t \in Threads :
         /\ inP[t] = ExpectedP(t)
         /\ pc[t] = "none" <=> phase[t] = "outside"
         /\ pc[t] = "acquire" <=> phase[t] \in {"acquiring", "acquired"}

\* PlacesAgree holds in every state.
LEMMA PlacesAlwaysAgree == DSpec => []PlacesAgree
<1> USE KernelAssumption, LockAssumption, SynchDiskAssumption
<1>1. DInit => PlacesAgree
  BY DEF DInit, LInit, KInit, PlacesAgree, ExpectedP, Phases, CallPoints
<1>2. PlacesAgree /\ [DNext]_dvars => PlacesAgree'
  <2> SUFFICES ASSUME PlacesAgree, [DNext]_dvars
               PROVE  PlacesAgree'
    OBVIOUS
  <2> USE DEF PlacesAgree, ExpectedP, Phases, CallPoints, Moves
  <2>1. ASSUME UNCHANGED << phase, pc, inP >>
        PROVE  PlacesAgree'
    BY <2>1
  <2>2. ASSUME NEW t \in Threads, NEW s, NEW d, Call(t, s, d)
        PROVE  PlacesAgree'
    BY <2>2, LockMoves DEF Call
  <2>3. ASSUME NEW t \in Threads, DiskStep(t)
        PROVE  PlacesAgree'
    <3>1. CASE Enter(t)
      BY <3>1, LockMoves DEF Enter
    <3>2. CASE Request(t)
      BY <3>2 DEF Request, Schedule, semaphoreVars, Executing
    <3>3. CASE WaitEnter(t)
      BY <3>3 DEF WaitEnter, PEnter, Executing
    <3>4. CASE WaitSleep(t)
      BY <2>1, <3>4, SwitchMovesNobody DEF WaitSleep
    <3>5. CASE WaitTake(t)
      BY <3>5 DEF WaitTake, PTake, InsideP
    <3>6. CASE Return(t)
      BY <3>6, LockMoves DEF Return
    <3> QED
      BY <2>3, <3>1, <3>2, <3>3, <3>4, <3>5, <3>6 DEF DiskStep
  <2>4. ASSUME NEW t \in Threads, AcquireSleep(t), UNCHANGED Rest
        PROVE  PlacesAgree'
    BY <2>1, <2>4, SwitchMovesNobody DEF AcquireSleep, Rest
  <2>5. ASSUME NEW t \in Threads, AcquireTake(t), UNCHANGED Rest
        PROVE  PlacesAgree'
    BY <2>5, LockMoves DEF Rest
  <2>6. ASSUME (\E u \in Threads : Fork(u)) \/ Yield \/ Finish \/ Dispatch \/ Halt \/ Preempt,
               UNCHANGED << phase, threadHoldLock, Rest >>
        PROVE  PlacesAgree'
    BY <2>1, <2>6, SwitchMovesNobody DEF Rest
  <2>7. CASE DiskDone
    BY <2>1, <2>7, VMovesNobody DEF DiskDone, Interrupt
  <2>8. CASE UNCHANGED dvars
    BY <2>1, <2>8 DEF dvars, lvars, kvars, semaphoreVars
  <2> QED
    BY <2>2, <2>3, <2>4, <2>5, <2>6, <2>7, <2>8 DEF DNext
<1> QED
  BY <1>1, <1>2, PTL DEF DSpec

\* The synchronous disk is a proper client of its lock, so that all that is
\* proved of the lock and of the kernel holds for it.
THEOREM SynchDiskIsLockClient == DSpec => LSpec
<1>1. DInit => LInit
  BY DEF DInit
<1>2. PlacesAgree /\ [DNext]_dvars => [LNext]_lvars
  <2> SUFFICES ASSUME PlacesAgree, [DNext]_dvars
               PROVE  LNext \/ UNCHANGED lvars
    OBVIOUS
  <2> USE SynchDiskAssumption DEF LNext
  <2>1. ASSUME NEW t \in Threads, NEW s, NEW d, Call(t, s, d)
        PROVE  LNext
    BY <2>1 DEF Call, LockStep
  <2>2. ASSUME NEW t \in Threads, DiskStep(t)
        PROVE  LNext
    <3>1. CASE Enter(t)
      BY <3>1 DEF Enter, LockStep
    <3>2. CASE Request(t)
      <4>1. phase[t] = "holding"
        BY <3>2 DEF Request, Moves, PlacesAgree, Phases
      <4>2. OtherStep(t)
        BY <3>2, <4>1 DEF Request, OtherStep
      <4> QED
        BY <4>2
    <3>3. CASE WaitEnter(t)
      <4>1. phase[t] = "holding"
        BY <3>3 DEF WaitEnter, Moves, PlacesAgree, Phases
      <4>2. OtherStep(t)
        BY <3>3, <4>1 DEF WaitEnter, OtherStep
      <4> QED
        BY <4>2
    <3>4. CASE WaitSleep(t)
      <4>1. phase[t] = "holding"
        BY <3>4 DEF WaitSleep, PlacesAgree, Phases
      <4>2. OtherStep(t)
        BY <3>4, <4>1 DEF WaitSleep, OtherStep
      <4> QED
        BY <4>2
    <3>5. CASE WaitTake(t)
      <4>1. phase[t] = "holding"
        BY <3>5 DEF WaitTake, Moves, PlacesAgree, Phases
      <4>2. OtherStep(t)
        BY <3>5, <4>1 DEF WaitTake, OtherStep
      <4> QED
        BY <4>2
    <3>6. CASE Return(t)
      BY <3>6 DEF Return, LockStep
    <3> QED
      BY <2>2, <3>1, <3>2, <3>3, <3>4, <3>5, <3>6 DEF DiskStep
  <2>3. ASSUME NEW t \in Threads, AcquireSleep(t) \/ AcquireTake(t)
        PROVE  LNext
    BY <2>3 DEF LockStep
  <2>4. ASSUME NEW t \in Threads, pc[t] = "none", Executing(t),
               (\E u \in Threads : Fork(u)) \/ Yield \/ Finish,
               UNCHANGED << phase, threadHoldLock, Rest >>
        PROVE  LNext
    <3>1. phase[t] = "outside"
      BY <2>4 DEF PlacesAgree
    <3>2. OtherStep(t)
      BY <2>4, <3>1 DEF OtherStep
    <3> QED
      BY <3>2
  <2>5. CASE DiskDone
    BY <2>5 DEF DiskDone, LMachineStep
  <2>6. CASE (Dispatch \/ Halt \/ Preempt) /\ UNCHANGED << phase, threadHoldLock, Rest >>
    BY <2>6 DEF LMachineStep
  <2>7. CASE UNCHANGED dvars
    BY <2>7 DEF dvars, lvars
  <2> QED
    BY <2>1, <2>2, <2>3, <2>4, <2>5, <2>6, <2>7 DEF DNext
<1> QED
  BY <1>1, <1>2, PlacesAlwaysAgree, PTL DEF DSpec, LSpec

-----------------------------------------------------------------------------
(* The inductive invariant: the completions posted or to come are one when  *)
(* a thread awaits one and none otherwise, the disk is active exactly while *)
(* one is to come, and the thread inside has the current data.              *)

Awaits(t) == pc[t] \in {"requested", "wait"}

Completions ==
    value[semaphore] + pending[semaphore] = IF \E t \in Threads : Awaits(t) THEN 1 ELSE 0

DataTyped ==
    /\ sector \in [Threads -> SectorNumbers \cup {NULL}]
    /\ data \in [Threads -> Data \cup {NULL}]
    /\ contents \in [SectorNumbers -> Data]
    /\ \A t \in Threads : pc[t] # "none" => sector[t] \in SectorNumbers

SDInv ==
    /\ Completions
    /\ active \in BOOLEAN
    /\ active <=> pending[semaphore] > 0
    /\ DataTyped
    /\ DataCurrent

\* What is proved of the lock, at the places of SynchDisk: at most one thread is
\* between Enter and Return.
OneInside ==
    \A t, u \in Threads :
        /\ pc[t] \in {"request", "requested", "wait", "done"}
        /\ pc[u] \in {"request", "requested", "wait", "done"}
        => t = u

LEMMA LockedInside == PlacesAgree /\ MutualExclusion => OneInside
BY DEF PlacesAgree, Phases, MutualExclusion, Inside, OneInside

\* A step that touches neither the disk nor its semaphore keeps SDInv.
LEMMA SDInvKept ==
    ASSUME SDInv, UNCHANGED << pc, sector, data, diskVars >>,
           value'[semaphore] = value[semaphore],
           pending'[semaphore] = pending[semaphore]
    PROVE  SDInv'
BY DEF SDInv, Completions, Awaits, DataTyped, DataCurrent, diskVars

\* The steps of the scheduler schedule no interrupt.
LEMMA SwitchSchedulesNothing ==
    ASSUME \/ Dispatch \/ Halt \/ Preempt \/ Yield \/ Finish
           \/ \E u \in Threads : Fork(u)
           \/ \E t \in Threads, s \in Semaphores : PSleep(t, s)
    PROVE  UNCHANGED pending
BY DEF Dispatch, Halt, Preempt, Yield, SwitchAway, Finish, Fork, PSleep, kvars

\* SDInv holds in every state.
THEOREM SynchDiskInvariant == DSpec => []SDInv
<1> USE KernelAssumption, LockAssumption, SynchDiskAssumption
<1>1. DInit => SDInv
  <2> SUFFICES ASSUME DInit
               PROVE  SDInv
    OBVIOUS
  <2>1. value[semaphore] = 0 /\ pending[semaphore] = 0 /\ active = FALSE
    BY DEF DInit, LInit, KInit
  <2>2. Completions
    BY <2>1 DEF DInit, Completions, Awaits
  <2>3. DataTyped /\ DataCurrent
    BY DEF DInit, DataTyped, DataCurrent
  <2>4. active \in BOOLEAN /\ (active <=> pending[semaphore] > 0)
    <3>1. ~(pending[semaphore] > 0)
      BY <2>1
    <3> QED
      BY <2>1, <3>1, Zenon
  <2> QED
    BY <2>2, <2>3, <2>4 DEF SDInv
<1>2. SDInv /\ KTypeOK /\ PlacesAgree /\ OneInside /\ [DNext]_dvars => SDInv'
  <2> SUFFICES ASSUME SDInv, KTypeOK, PlacesAgree, OneInside, [DNext]_dvars
               PROVE  SDInv'
    OBVIOUS
  <2> USE DEF Moves, diskVars, CallPoints
  <2>0. /\ value \in [Semaphores -> 0..MaxValue]
        /\ pending \in [Semaphores -> 0..MaxPending]
        /\ pc \in [Threads -> CallPoints]
    BY DEF KTypeOK, PlacesAgree
  <2>1. ASSUME NEW t \in Threads, NEW s \in SectorNumbers, NEW d \in Data \cup {NULL}, Call(t, s, d)
        PROVE  SDInv'
    <3>1. /\ pc[t] = "none" /\ pc' = [pc EXCEPT ![t] = "acquire"]
          /\ sector' = [sector EXCEPT ![t] = s]
          /\ data' = [data EXCEPT ![t] = d]
          /\ UNCHANGED << value, pending, active, contents >>
      BY <2>1 DEF Call, Acquire, PEnter
    <3> QED
      BY <2>0, <3>1 DEF SDInv, Completions, Awaits, DataTyped, DataCurrent
  <2>2. ASSUME NEW t \in Threads, Enter(t)
        PROVE  SDInv'
    <3>1. /\ pc[t] = "acquire" /\ pc' = [pc EXCEPT ![t] = "request"]
          /\ UNCHANGED << value, pending, sector, data, active, contents >>
      BY <2>2 DEF Enter, AcquireReturn, kvars, semaphoreVars
    <3> QED
      BY <2>0, <3>1 DEF SDInv, Completions, Awaits, DataTyped, DataCurrent
  <2>3. ASSUME NEW t \in Threads, Request(t)
        PROVE  SDInv'
    <3>1. /\ pc[t] = "request" /\ pc' = [pc EXCEPT ![t] = "requested"]
          /\ pending' = [pending EXCEPT ![semaphore] = pending[semaphore] + 1]
          /\ active' = TRUE
          /\ UNCHANGED << value, sector >>
          /\ IF data[t] = NULL
               THEN data' = [data EXCEPT ![t] = contents[sector[t]]] /\ UNCHANGED contents
               ELSE contents' = [contents EXCEPT ![sector[t]] = data[t]] /\ UNCHANGED data
      BY <2>3 DEF Request, Schedule, semaphoreVars
    <3>2. \A u \in Threads : pc[u] \in {"request", "requested", "wait", "done"} => u = t
      BY <3>1 DEF OneInside
    <3>3. Completions'
      <4>1. value[semaphore] + pending[semaphore] = 0
        BY <3>1, <3>2 DEF SDInv, Completions, Awaits
      <4>2. Awaits(t)'
        BY <2>0, <3>1 DEF Awaits
      <4> QED
        BY <2>0, <3>1, <4>1, <4>2 DEF Completions
    <3>4. sector[t] \in SectorNumbers
      BY <3>1 DEF SDInv, DataTyped
    <3>5. DataTyped'
      BY <2>0, <3>1, <3>4 DEF SDInv, DataTyped
    <3>6. DataCurrent'
      <4>1. data'[t] = contents'[sector'[t]]
        BY <3>1, <3>4 DEF SDInv, DataTyped
      <4> QED
        BY <2>0, <3>1, <3>2, <4>1 DEF DataCurrent
    <3>7. pending'[semaphore] > 0
      BY <2>0, <3>1
    <3> QED
      BY <3>1, <3>3, <3>5, <3>6, <3>7 DEF SDInv
  <2>4. ASSUME NEW t \in Threads, WaitEnter(t)
        PROVE  SDInv'
    <3>1. /\ pc[t] = "requested" /\ pc' = [pc EXCEPT ![t] = "wait"]
          /\ UNCHANGED << value, pending, sector, data, active, contents >>
      BY <2>4 DEF WaitEnter, PEnter
    <3>2. \A u \in Threads : Awaits(u)' <=> Awaits(u)
      BY <2>0, <3>1 DEF Awaits
    <3> QED
      BY <2>0, <3>1, <3>2 DEF SDInv, Completions, DataTyped, DataCurrent
  <2>5. ASSUME NEW t \in Threads, WaitSleep(t)
        PROVE  SDInv'
    BY <2>5, SDInvKept, SwitchMovesNobody, SwitchSchedulesNothing DEF WaitSleep
  <2>6. ASSUME NEW t \in Threads, WaitTake(t)
        PROVE  SDInv'
    <3>1. /\ pc[t] = "wait" /\ pc' = [pc EXCEPT ![t] = "done"]
          /\ value[semaphore] # 0
          /\ value' = [value EXCEPT ![semaphore] = value[semaphore] - 1]
          /\ UNCHANGED << pending, sector, data, active, contents >>
      BY <2>6 DEF WaitTake, PTake
    <3>2. value[semaphore] + pending[semaphore] = 1
      BY <3>1 DEF SDInv, Completions, Awaits
    <3>3. \A u \in Threads : ~Awaits(u)'
      BY <2>0, <3>1 DEF OneInside, Awaits
    <3>4. Completions'
      BY <2>0, <3>1, <3>2, <3>3 DEF Completions
    <3> QED
      BY <2>0, <3>1, <3>4 DEF SDInv, DataTyped, DataCurrent
  <2>7. ASSUME NEW t \in Threads, Return(t)
        PROVE  SDInv'
    <3>1. /\ pc[t] = "done" /\ pc' = [pc EXCEPT ![t] = "none"]
          /\ sector' = [sector EXCEPT ![t] = NULL]
          /\ data' = [data EXCEPT ![t] = NULL]
          /\ V(mutex)
          /\ UNCHANGED << pending, active, contents >>
      BY <2>7 DEF Return, Release
    <3>2. value'[semaphore] = value[semaphore]
      BY <2>0, <3>1, VMovesNobody
    <3> QED
      BY <2>0, <3>1, <3>2 DEF SDInv, Completions, Awaits, DataTyped, DataCurrent
  <2>8. ASSUME NEW t \in Threads, AcquireSleep(t) \/ AcquireTake(t), UNCHANGED Rest
        PROVE  SDInv'
    <3>1. CASE AcquireSleep(t)
      BY <2>8, <3>1, SDInvKept, SwitchMovesNobody, SwitchSchedulesNothing
         DEF AcquireSleep, Rest
    <3>2. CASE AcquireTake(t)
      <4>1. /\ value' = [value EXCEPT ![mutex] = value[mutex] - 1]
            /\ UNCHANGED pending
        BY <3>2 DEF AcquireTake, PTake
      <4> QED
        BY <2>0, <2>8, <4>1, SDInvKept DEF Rest
    <3> QED
      BY <2>8, <3>1, <3>2
  <2>9. ASSUME (\E u \in Threads : Fork(u)) \/ Yield \/ Finish \/ Dispatch \/ Halt \/ Preempt,
               UNCHANGED << phase, threadHoldLock, Rest >>
        PROVE  SDInv'
    BY <2>9, SDInvKept, SwitchMovesNobody, SwitchSchedulesNothing DEF Rest
  <2>10. CASE DiskDone
    <3>1. /\ pending[semaphore] > 0
          /\ pending' = [pending EXCEPT ![semaphore] = pending[semaphore] - 1]
          /\ V(semaphore)
          /\ active' = FALSE
          /\ UNCHANGED << pc, sector, data, contents >>
      BY <2>10 DEF DiskDone, Interrupt
    <3>2. value' = [value EXCEPT ![semaphore] = value[semaphore] + 1]
      BY <3>1, VMovesNobody
    <3>3. pending'[semaphore] = 0 /\ value'[semaphore] + pending'[semaphore] = value[semaphore] + pending[semaphore]
      BY <2>0, <3>1, <3>2 DEF SDInv, Completions
    <3>4. Completions' /\ DataTyped' /\ DataCurrent'
      BY <3>1, <3>3 DEF SDInv, Completions, Awaits, DataTyped, DataCurrent
    <3>5. active' \in BOOLEAN /\ (active' <=> pending'[semaphore] > 0)
      <4>1. ~(pending'[semaphore] > 0)
        BY <3>3
      <4> QED
        BY <3>1, <4>1, Zenon
    <3> QED
      BY <3>4, <3>5 DEF SDInv
  <2>11. CASE UNCHANGED dvars
    BY <2>11, SDInvKept DEF dvars, lvars, kvars, semaphoreVars
  <2> QED
    BY <2>1, <2>2, <2>3, <2>4, <2>5, <2>6, <2>7, <2>8, <2>9, <2>10, <2>11 DEF DNext, DiskStep
<1> QED
  BY <1>1, <1>2, PlacesAlwaysAgree, SynchDiskIsLockClient, LockIsKernelClient, Typing,
     LockSafety, LockedInside, PTL DEF DSpec

\* Every variable of the synchronous disk keeps its type.
THEOREM SynchDiskTyping == DSpec => []DTypeOK
<1>1. LTypeOK /\ PlacesAgree /\ SDInv => DTypeOK
  BY DEF PlacesAgree, SDInv, DataTyped, DTypeOK
<1> QED
  BY <1>1, LockTyping, SynchDiskIsLockClient, PlacesAlwaysAgree, SynchDiskInvariant, PTL

\* Every completion belongs to the one request it answers, the disk is idle when
\* a call returns, and a caller has the current data (synchdisk.cc:73-109).
THEOREM SynchDiskSafety ==
    DSpec => [](CompletionsMatchRequests /\ ReturnsAfterCompletion /\ DataCurrent)
<1> USE KernelAssumption, SynchDiskAssumption
<1>1. ASSUME SDInv, KTypeOK, OneInside
      PROVE  CompletionsMatchRequests /\ ReturnsAfterCompletion /\ DataCurrent
  <2>0. value[semaphore] \in Nat /\ pending[semaphore] \in Nat
    BY <1>1 DEF KTypeOK
  <2> DEFINE W == {t \in Threads : pc[t] \in {"requested", "wait"}}
  <2>1. CASE \E t \in Threads : Awaits(t)
    <3>1. PICK t \in Threads : Awaits(t)
      BY <2>1
    <3>2. W = {t}
      BY <1>1, <3>1 DEF Awaits, OneInside
    <3>3. Cardinality(W) = 1
      BY <3>2, FS_Singleton
    <3> QED
      BY <1>1, <2>1, <3>1, <3>3 DEF SDInv, Completions, CompletionsMatchRequests,
         ReturnsAfterCompletion, OneInside, Awaits
  <2>2. CASE ~\E t \in Threads : Awaits(t)
    <3>1. W = {}
      BY <2>2 DEF Awaits
    <3>2. Cardinality(W) = 0
      BY <3>1, FS_EmptySet
    <3>3. pending[semaphore] = 0
      BY <1>1, <2>0, <2>2 DEF SDInv, Completions
    <3> QED
      BY <1>1, <2>2, <3>2, <3>3 DEF SDInv, Completions, CompletionsMatchRequests,
         ReturnsAfterCompletion
  <2> QED
    BY <2>1, <2>2
<1> QED
  BY <1>1, SynchDiskInvariant, PlacesAlwaysAgree, SynchDiskIsLockClient,
     LockIsKernelClient, Typing, LockSafety, LockedInside, PTL

\* The ASSERT(!active) of disk.cc:120 and 140 never fails: a request is made only
\* when the interrupt of the last one has come.
THEOREM NoSecondRequest == DSpec => NeverTwoRequests
<1> USE KernelAssumption, SynchDiskAssumption
<1>1. ASSUME SDInv, KTypeOK, OneInside, NEW t \in Threads, Request(t)
      PROVE  ~active
  <2>0. value[semaphore] \in Nat /\ pending[semaphore] \in Nat
    BY <1>1 DEF KTypeOK
  <2>1. pc[t] = "request"
    BY <1>1 DEF Request, Moves
  <2>2. \A u \in Threads : ~Awaits(u)
    BY <1>1, <2>1 DEF OneInside, Awaits
  <2> QED
    BY <1>1, <2>0, <2>2 DEF SDInv, Completions
<1>2. SDInv /\ KTypeOK /\ OneInside => \A t \in Threads : Request(t) => ~active
  BY <1>1
<1> QED
  BY <1>2, SynchDiskInvariant, PlacesAlwaysAgree, SynchDiskIsLockClient,
     LockIsKernelClient, Typing, LockSafety, LockedInside, PTL DEF NeverTwoRequests

\* Caller, disk and interrupt are in step.
THEOREM SynchDiskIsConsistent == DSpec => []DConsistent
BY SynchDiskTyping, SynchDiskSafety, PTL DEF DConsistent

-----------------------------------------------------------------------------
(* No call is left behind when the machine halts.                          *)

\* A thread in a call has been started, and sleeps nowhere but in P().
CallersAlive ==
    \A t \in Threads : pc[t] # "none" =>
        /\ status[t] # "JUST_CREATED"
        /\ status[t] = "BLOCKED" => inP[t] # NULL

\* CallersAlive holds in every state.
LEMMA CallersStayAlive == DSpec => []CallersAlive
<1> USE KernelAssumption, LockAssumption, SynchDiskAssumption
<1>1. DInit => CallersAlive
  BY DEF DInit, CallersAlive
<1>2. KTypeOK /\ QInv /\ PlacesAgree /\ CallersAlive /\ [DNext]_dvars => CallersAlive'
  <2> SUFFICES ASSUME KTypeOK, QInv, PlacesAgree, CallersAlive, [DNext]_dvars
               PROVE  CallersAlive'
    OBVIOUS
  <2> USE DEF CallersAlive, KTypeOK, ThreadStatus
  \* The thread that moves is running, and stays so.
  <2>1. ASSUME NEW t \in Threads, status[t] = "RUNNING", UNCHANGED status,
               \A u \in Threads \ {t} : pc'[u] = pc[u] /\ inP'[u] = inP[u]
        PROVE  CallersAlive'
    BY <2>1
  \* Some threads become READY or RUNNING.
  <2>2. ASSUME UNCHANGED << pc, inP >>,
               \A t \in Threads : status'[t] # status[t] => status'[t] \in {"READY", "RUNNING"}
        PROVE  CallersAlive'
    BY <2>2
  <2>3. ASSUME NEW s \in Semaphores, V(s)
        PROVE  \/ UNCHANGED status
               \/ \E h \in Threads : /\ status[h] = "BLOCKED"
                                    /\ status' = [status EXCEPT ![h] = "READY"]
    <3>1. CASE queue[s] # << >>
      <4>1. Head(queue[s]) \in Range(queue[s])
        BY <3>1 DEF Range
      <4>2. status[Head(queue[s])] = "BLOCKED" /\ Head(queue[s]) \in Threads
        BY <4>1 DEF QInv, WaitQueuesExact
      <4> QED
        BY <2>3, <3>1, <4>2, Zenon DEF V, ReadyToRun
    <3> QED
      BY <2>3, <3>1 DEF V
  <2>4. ASSUME NEW t \in Threads, NEW s, NEW d, Call(t, s, d)
        PROVE  CallersAlive'
    BY <2>1, <2>4 DEF Call, Acquire, PEnter, Executing, Moves, PlacesAgree, threadVars
  <2>5. ASSUME NEW t \in Threads, NEW s \in Semaphores, PSleep(t, s), UNCHANGED pc
        PROVE  CallersAlive'
    BY <2>5 DEF PSleep, Block, InsideP
  <2>6. ASSUME NEW t \in Threads, NEW s \in Semaphores, PTake(t, s),
               \A u \in Threads \ {t} : pc'[u] = pc[u]
        PROVE  CallersAlive'
    BY <2>1, <2>6 DEF PTake, InsideP, threadVars
  <2>7. ASSUME NEW t \in Threads, DiskStep(t)
        PROVE  CallersAlive'
    <3>1. CASE Enter(t) \/ Request(t) \/ WaitEnter(t)
      BY <2>1, <3>1 DEF Enter, AcquireReturn, Request, Schedule, WaitEnter, PEnter,
         Executing, Moves, PlacesAgree, kvars, threadVars, semaphoreVars
    <3>2. CASE WaitSleep(t)
      BY <2>5, <3>2 DEF WaitSleep
    <3>3. CASE WaitTake(t)
      BY <2>6, <3>3 DEF WaitTake, Moves, PlacesAgree
    <3>4. CASE Return(t)
      <4>1. V(mutex) /\ pc' = [pc EXCEPT ![t] = "none"]
        BY <3>4 DEF Return, Release, Moves
      <4>2. UNCHANGED inP
        BY <4>1, VMovesNobody
      <4>3. /\ pc \in [Threads -> CallPoints]
            /\ \A u \in Threads : pc'[u] # "none" => pc[u] # "none"
        BY <4>1 DEF PlacesAgree
      <4>4. CASE UNCHANGED status
        BY <4>2, <4>3, <4>4
      <4>5. ASSUME NEW h \in Threads, status[h] = "BLOCKED",
                   status' = [status EXCEPT ![h] = "READY"]
            PROVE  CallersAlive'
        BY <4>2, <4>3, <4>5
      <4> QED
        BY <2>3, <4>1, <4>4, <4>5
    <3> QED
      BY <2>7, <3>1, <3>2, <3>3, <3>4 DEF DiskStep
  <2>8. ASSUME NEW t \in Threads, AcquireSleep(t) \/ AcquireTake(t), UNCHANGED Rest
        PROVE  CallersAlive'
    BY <2>5, <2>6, <2>8 DEF AcquireSleep, AcquireTake, Rest
  <2>9. ASSUME NEW u \in Threads, Fork(u), UNCHANGED Rest
        PROVE  CallersAlive'
    BY <2>2, <2>9 DEF Fork, ReadyToRun, Rest, semaphoreVars
  <2>10. ASSUME SwitchAway \/ Dispatch, UNCHANGED Rest
         PROVE  CallersAlive'
    BY <2>2, <2>10 DEF SwitchAway, Dispatch, Rest, semaphoreVars
  <2>11. ASSUME NEW t \in Threads, pc[t] = "none", Executing(t), Finish, UNCHANGED Rest
         PROVE  CallersAlive'
    BY <2>11 DEF Finish, Block, Executing, Rest, semaphoreVars
  <2>12. CASE DiskDone
    <3>1. V(semaphore) /\ UNCHANGED << pc, inP >>
      BY <2>12, VMovesNobody DEF DiskDone, Interrupt
    <3> QED
      BY <2>2, <2>3, <3>1
  <2>13. ASSUME Halt \/ UNCHANGED kvars, UNCHANGED Rest
         PROVE  CallersAlive'
    BY <2>2, <2>13 DEF Halt, Rest, kvars, semaphoreVars
  <2>14. CASE UNCHANGED dvars
    BY <2>13, <2>14 DEF dvars, lvars, Rest
  <2> QED
    BY <2>4, <2>7, <2>8, <2>9, <2>10, <2>11, <2>12, <2>13, <2>14 DEF DNext, Yield, Preempt
<1> QED
  BY <1>1, <1>2, PlacesAlwaysAgree, SynchDiskIsLockClient, LockIsKernelClient, Typing,
     QueuesExact, PTL DEF DSpec, QInv

\* When the machine halts no call of SynchDisk is left inside: the interrupt
\* that a sleeping caller waits for cannot be missing (synchdisk.cc:72-109).
THEOREM RequestsAreAnswered == DSpec => []NoStuckRequest
<1> DEFINE Due == mode = "Halted" =>
                    \A t \in Threads, s \in Semaphores : inP[t] = s =>
                        t \in Range(queue[s]) /\ value[s] = 0 /\ pending[s] = 0
<1>1. KTypeOK /\ LInv /\ AtRest /\ PlacesAgree /\ SDInv /\ CallersAlive /\ Due
        => NoStuckRequest
  <2> SUFFICES ASSUME KTypeOK, LInv, AtRest, PlacesAgree, SDInv, CallersAlive, Due,
                      mode = "Halted", NEW t \in Threads, pc[t] # "none"
               PROVE  FALSE
    BY DEF NoStuckRequest
  <2> USE KernelAssumption, LockAssumption, SynchDiskAssumption
  <2>1. ASSUME NEW u \in Threads, pc[u] # "none"
        PROVE  inP[u] \in {mutex, semaphore}
    BY <2>1 DEF CallersAlive, AtRest, KTypeOK, ThreadStatus, PlacesAgree, ExpectedP
  <2>2. ASSUME NEW u \in Threads, inP[u] = semaphore
        PROVE  FALSE
    <3>1. Awaits(u)
      BY <2>2 DEF PlacesAgree, ExpectedP, Awaits
    <3>2. value[semaphore] = 0 /\ pending[semaphore] = 0
      BY <2>2
    <3> QED
      BY <3>1, <3>2 DEF SDInv, Completions
  <2>3. inP[t] = mutex
    BY <2>1, <2>2
  <2>4. PICK u \in Threads : Inside(u)
    BY <2>3 DEF LInv
  <2>5. pc[u] # "none" /\ inP[u] # mutex
    BY <2>4 DEF PlacesAgree, Inside, LInv
  <2> QED
    BY <2>1, <2>2, <2>5
<1>2. KSpec => []Due
  BY HaltedSleepersAreDue
<1> HIDE DEF Due
<1> QED
  BY <1>1, <1>2, PlacesAlwaysAgree, SynchDiskIsLockClient, LockIsKernelClient, Typing,
     LockInvariant, AlwaysAtRest, SynchDiskInvariant, CallersStayAlive, PTL

-----------------------------------------------------------------------------
(* The invariant.                                                          *)

\* The sectors of the map and of the directory.
MapSec == MapHdr.sectors[1]
Dir1 == DirHdr.sectors[1]
Dir2 == DirHdr.sectors[2]
Fixed == {FreeMapSector, DirectorySector, MapSec, Dir1, Dir2}

Bytes == (UNION {Range(t) : t \in Texts}) \cup {Junk}
Blocks == [bytes : [1..SectorSize -> Bytes]]

Header == {h \in [length : Nat, sectors : Seq(Sectors)] :
             /\ Len(h.sectors) = NumDataSectors(h.length)
             /\ \A i, j \in DOMAIN h.sectors : h.sectors[i] = h.sectors[j] => i = j}

Entry == [inUse : BOOLEAN, sector : Sectors \cup {NoSector}, name : Keys \cup {Junk}]
Tables == [1..NumDirEntries -> Entry]

\* The table of a disk that has the first sector of one and the second of another.
Mixed(first, second) ==
    [i \in 1..NumDirEntries |->
        CASE i < Straddler -> first[i]
          [] i = Straddler -> [first[i] EXCEPT !.name = second[i].name]
          [] i > Straddler -> second[i]]

\* The map and the directory are where formatting has put them.
Laid(d, m, t) ==
    /\ d[FreeMapSector] = MapHdr /\ d[DirectorySector] = DirHdr
    /\ d[MapSec] = [marked |-> m]
    /\ d[Dir1] = FirstPart(t) /\ d[Dir2] = SecondPart(t)

DiskTyped(d) ==
    /\ DOMAIN d = Sectors
    /\ \A s \in Sectors : "bytes" \in DOMAIN d[s] => d[s] \in Blocks

Owned(d, e) == {e.sector} \cup DataSectors(d[e.sector])

\* The file of an entry has its header and its data in sectors of its own.
IsFile(d, e) ==
    /\ e.sector \in Sectors /\ e.name \in Keys
    /\ d[e.sector] \in Header
    /\ e.sector \notin DataSectors(d[e.sector])
    /\ Owned(d, e) \cap Fixed = {}

\* A name that is left in an unused entry is that of no file, or of one before it.
OldNames(t) ==
    \A i \in Used(t), j \in (1..NumDirEntries) \ Used(t) :
        t[i].name = t[j].name => i < j

Whole(d, t) ==
    /\ \A i \in Used(t) : IsFile(d, t[i])
    /\ \A i, j \in Used(t) :
         i # j => Owned(d, t[i]) \cap Owned(d, t[j]) = {} /\ t[i].name # t[j].name
    /\ OldNames(t)

Taken(d, t) == Fixed \cup UNION {Owned(d, t[i]) : i \in Used(t)}

Complete(d, t) == Whole(d, t) /\ Laid(d, Taken(d, t), t)

\* Formatting has made its first n writes.
MidFormat(d, writes, n) ==
    /\ writes = SubSeq(Formatting, n + 1, 5)
    /\ \A i \in 1..n : d[Formatting[i].sector] = Formatting[i].holds

\* A command writes data of the file that it has made.
WritesData ==
    todo # << >> => at = "write" /\ todo \in Seq([sector : DataSectors(hdr), holds : Blocks])

\* The table t with a file of name k in entry i that has its header in s.
With(t, i, s, k) == [t EXCEPT ![i] = [inUse |-> TRUE, sector |-> s, name |-> k]]

\* The file that the command has made is in the table.
Has(t) == made \in Used(t) /\ t[made].name = key

\* The length of the file that the command makes.
Wanted == IF at = "perfOpen" THEN 0 ELSE Len(text)

\* How far the command is with its file.
OfCommand(t) ==
    /\ at \in {"open", "perfOpen"} => Has(t) /\ disk[t[made].sector].length = Wanted
    /\ at = "write" => Has(t) /\ hdr = disk[t[made].sector] /\ hdr.length = Len(text)
    /\ at = "read" => \E i \in Used(t) : t[i].name = key /\ hdr = disk[t[i].sector]
    /\ at \in {"perfWrite", "perfReopen", "perfRead", "perfRemove"} => made = 0 \/ Has(t)
    /\ at = "removed" => made \notin Used(t) /\ \A i \in Used(t) : t[i].name # key

\* Nothing is under way but the writing of data.
Settled(t) == Complete(disk, t) /\ WritesData /\ OfCommand(t)

\* What Create writes when it puts the header h in sector s.
WritesOfCreate(d, t, i, s, h, k) ==
    << To(s, h), To(Dir1, FirstPart(With(t, i, s, k))),
       To(Dir2, SecondPart(With(t, i, s, k))),
       To(MapSec, [marked |-> Taken(d, t) \cup ({s} \cup DataSectors(h))]) >>

\* Create has made the first n of its four writes; t is the directory before it.
MidCreate(d, writes, n, t, i, s, h, k) ==
    /\ i \in 1..NumDirEntries /\ ~t[i].inUse
    /\ \A j \in 1..NumDirEntries : j < i => t[j].inUse
    /\ Whole(d, t)
    /\ \A j \in Used(t) : t[j].name # k
    /\ s \notin DataSectors(h) /\ ({s} \cup DataSectors(h)) \cap Taken(d, t) = {}
    /\ writes = SubSeq(WritesOfCreate(d, t, i, s, h, k), n + 1, 4)
    /\ n > 0 => d[s] = h
    /\ n < 2 => Laid(d, Taken(d, t), t)
    /\ n = 2 => Laid(d, Taken(d, t), Mixed(With(t, i, s, k), t))
    /\ n = 3 => Laid(d, Taken(d, t), With(t, i, s, k))

Creating(t, s, h) ==
    /\ at \in {"open", "perfOpen"}
    /\ h.length = Wanted
    /\ \E n \in 0..3 : MidCreate(disk, todo, n, t, made, s, h, key)

Without(t, i) == [t EXCEPT ![i].inUse = FALSE]

WritesOfRemove(d, t, i) ==
    << To(MapSec, [marked |-> Taken(d, Without(t, i))]),
       To(Dir1, FirstPart(Without(t, i))), To(Dir2, SecondPart(Without(t, i))) >>

\* RemoveFile has made the first n of its three writes; t is the directory before it.
MidRemove(d, writes, n, t, i, k) ==
    /\ Whole(d, t)
    /\ i \in Used(t) /\ t[i].name = k
    /\ writes = SubSeq(WritesOfRemove(d, t, i), n + 1, 3)
    /\ n = 0 => Laid(d, Taken(d, t), t)
    /\ n = 1 => Laid(d, Taken(d, Without(t, i)), t)
    /\ n = 2 => Laid(d, Taken(d, Without(t, i)), Mixed(Without(t, i), t))

Removing(t, i) ==
    /\ at = "removed" /\ made \in {0, i}
    /\ \E n \in 0..2 : MidRemove(disk, todo, n, t, i, key)

FormatInv == at = "format" => \E n \in 0..5 : MidFormat(disk, todo, n)

DiskInv ==
    at # "format" =>
      \E t \in Tables : \/ Settled(t)
                        \/ \E s \in Sectors, h \in Header : Creating(t, s, h)
                        \/ \E i \in 1..NumDirEntries : Removing(t, i)

CommandTyped ==
    /\ made \in 0..NumDirEntries
    /\ hdr \in Header
    /\ seekPosition \in 0..hdr.length
    /\ at = "perfWrite" => hdr.length = 0
    /\ at \in Points
    /\ name \in Names
    /\ text \in Texts \cup {<< >>}
    /\ at \in {"create", "open", "write"} => text \in Texts
    /\ at \in {"idle", "create", "printOpen", "read", "remove", "perfCreate"} => made = 0
    /\ moved \in Nat
    /\ printed \in Seq(Bytes)
    /\ commands \in 0..MaxCommands

FileInv == DiskTyped(disk) /\ CommandTyped /\ FormatInv /\ DiskInv

-----------------------------------------------------------------------------
(* Lemmas about the bit map and the headers.                               *)

\* The sectors are numbers and there are finitely many of them.
LEMMA SectorsFinite ==
    /\ IsFiniteSet(Sectors) /\ Cardinality(Sectors) = NumSectors
    /\ Sectors \subseteq Nat
    /\ FreeMapSector \in Sectors /\ DirectorySector \in Sectors
<1>1. NumSectors \in Nat /\ NumSectors >= 5
  BY FileSystemAssumption
<1>2. /\ IsFiniteSet(0..(NumSectors - 1))
      /\ Cardinality(0..(NumSectors - 1))
           = IF 0 > NumSectors - 1 THEN 0 ELSE NumSectors - 1 - 0 + 1
  BY <1>1, FS_Interval
<1> QED
  BY <1>1, <1>2 DEF Sectors, FreeMapSector, DirectorySector

\* Every set of numbers has a least one.
LEMMA Least ==
    ASSUME NEW S \in SUBSET Nat, S # {}
    PROVE  \E m \in S : \A n \in S : m <= n
<1> DEFINE R == {p \in Nat \X Nat : p[1] < p[2]}
<1>1. IsWellFoundedOn(R, Nat)
  BY NatLessThanWellFounded DEF OpToRel
<1>2. PICK m \in S : \A n \in S : << n, m >> \notin R
  BY <1>1, WFMin
<1>3. \A n \in S : m \in Nat /\ n \in Nat /\ ~(n < m)
  BY <1>2
<1> QED
  BY <1>2, <1>3

\* Min finds it.
LEMMA MinOfNumbers ==
    ASSUME NEW S \in SUBSET Nat, S # {}
    PROVE  Min(S) \in S /\ \A n \in S : Min(S) <= n
<1>1. \E m \in S : \A n \in S : m <= n
  BY Least
<1> QED
  BY <1>1, Zenon DEF Min

\* BitMap::Find finds a clear bit, when there is one.
LEMMA FirstClearIsClear ==
    ASSUME NEW marked, FirstClear(marked) # NoSector
    PROVE  FirstClear(marked) \in Sectors \ marked
<1>1. ClearBits(marked) # {} /\ FirstClear(marked) = Min(ClearBits(marked))
  BY DEF FirstClear
<1>2. ClearBits(marked) \in SUBSET Nat
  BY SectorsFinite DEF ClearBits
<1>3. Min(ClearBits(marked)) \in ClearBits(marked)
  BY <1>1, <1>2, MinOfNumbers
<1> QED
  BY <1>1, <1>3 DEF ClearBits

\* The clear sectors can be counted.
LEMMA ClearFinite ==
    ASSUME NEW marked
    PROVE  /\ IsFiniteSet(ClearBits(marked))
           /\ NumClear(marked) \in Nat
           /\ ClearBits(marked) \in SUBSET Nat
<1>1. ClearBits(marked) \in SUBSET Sectors
  BY DEF ClearBits
<1>2. IsFiniteSet(ClearBits(marked))
  BY <1>1, SectorsFinite, FS_Subset
<1> QED
  BY <1>1, <1>2, SectorsFinite, FS_CardinalityType DEF NumClear

\* There is one clear sector with i - 1 clear sectors before it.
LEMMA ClearSectorIsClear ==
    ASSUME NEW marked, NEW i \in 1..NumClear(marked)
    PROVE  /\ ClearSector(marked, i) \in Sectors \ marked
           /\ Cardinality({r \in ClearBits(marked) : r < ClearSector(marked, i)}) = i - 1
<1> DEFINE S == ClearBits(marked)
           Below(k) == {r \in S : r < k}
           K == {k \in Nat : Cardinality(Below(k)) >= i}
<1>1. IsFiniteSet(S) /\ Cardinality(S) \in Nat /\ i \in 1..Cardinality(S)
      /\ S \in SUBSET Nat
  BY ClearFinite DEF NumClear
<1>2. \A k \in Nat : IsFiniteSet(Below(k)) /\ Cardinality(Below(k)) \in Nat
  <2>1. SUFFICES ASSUME NEW k \in Nat
                 PROVE  IsFiniteSet(Below(k)) /\ Cardinality(Below(k)) \in Nat
    OBVIOUS
  <2>2. Below(k) \in SUBSET S
    OBVIOUS
  <2>3. IsFiniteSet(Below(k))
    BY <1>1, <2>2, FS_Subset
  <2> QED
    BY <2>3, FS_CardinalityType
<1>3. \A k \in Nat : Cardinality(Below(k + 1)) =
                       IF k \in S THEN Cardinality(Below(k)) + 1 ELSE Cardinality(Below(k))
  <2>1. SUFFICES ASSUME NEW k \in Nat
                 PROVE  Cardinality(Below(k + 1)) =
                          IF k \in S THEN Cardinality(Below(k)) + 1
                                     ELSE Cardinality(Below(k))
    OBVIOUS
  <2>2. CASE k \in S
    <3>1. Below(k + 1) = Below(k) \cup {k} /\ k \notin Below(k)
      BY <1>1, <2>2
    <3>2. IsFiniteSet(Below(k))
      BY <1>2
    <3> HIDE DEF Below
    <3>3. Cardinality(Below(k) \cup {k}) = Cardinality(Below(k)) + 1
      BY <3>1, <3>2, FS_AddElement
    <3> QED
      BY <2>2, <3>1, <3>3
  <2>3. CASE k \notin S
    <3>1. Below(k + 1) = Below(k)
      BY <1>1, <2>3
    <3> QED
      BY <2>3, <3>1
  <2> QED
    BY <2>2, <2>3
<1>4. Below(0) = {} /\ Cardinality(Below(0)) = 0
  BY <1>1, FS_EmptySet
<1>5. NumSectors \in Nat /\ Below(NumSectors) = S
  BY FileSystemAssumption, <1>1 DEF ClearBits, Sectors
<1>6. NumSectors \in K
  BY <1>1, <1>5
<1>7. PICK m \in K : \A n \in K : m <= n
  BY <1>6, Least
<1>8. m \in Nat /\ Cardinality(Below(m)) >= i /\ i \in Nat \ {0}
  BY <1>1, <1>7
<1>9. m # 0
  BY <1>4, <1>8
<1>10. m - 1 \in Nat /\ ~(m <= m - 1) /\ (m - 1) + 1 = m
  BY <1>8, <1>9
<1>11. ~(Cardinality(Below(m - 1)) >= i)
  BY <1>7, <1>10
<1>12. m - 1 \in S /\ Cardinality(Below(m - 1)) = i - 1
  <2>1. Cardinality(Below(m)) = IF m - 1 \in S THEN Cardinality(Below(m - 1)) + 1
                                               ELSE Cardinality(Below(m - 1))
    BY <1>3, <1>10
  <2>2. Cardinality(Below(m - 1)) \in Nat /\ Cardinality(Below(m)) \in Nat
    BY <1>2, <1>8, <1>10
  <2> HIDE DEF Below
  <2> QED
    BY <1>8, <1>11, <2>1, <2>2
<1>13. \E s \in ClearBits(marked) :
          Cardinality({r \in ClearBits(marked) : r < s}) = i - 1
  BY <1>12
<1>14. /\ ClearSector(marked, i) \in ClearBits(marked)
       /\ Cardinality({r \in ClearBits(marked) : r < ClearSector(marked, i)}) = i - 1
  BY <1>13, Zenon DEF ClearSector
<1> QED
  BY <1>14 DEF ClearBits

\* A header has as many sectors as its length needs.
LEMMA DataSectorsCount ==
    /\ \A n \in Nat : NumDataSectors(n) \in Nat
    /\ NumDataSectors(0) = 0
    /\ \A n \in 1..SectorSize : NumDataSectors(n) = 1
    /\ \A n \in (SectorSize + 1)..(2 * SectorSize) : NumDataSectors(n) = 2
<1>1. SectorSize \in Nat \ {0}
  BY FileSystemAssumption
<1>2. NumDataSectors(0) = 0
  BY <1>1 DEF NumDataSectors, DivRoundUp
<1>3. ASSUME NEW n \in 1..SectorSize
      PROVE  NumDataSectors(n) = 1
  <2>1. n + SectorSize - 1 = SectorSize + (n - 1) /\ n - 1 \in 0..(SectorSize - 1)
    BY <1>1
  <2> QED
    BY <1>1, <2>1 DEF NumDataSectors, DivRoundUp
<1>4. ASSUME NEW n \in (SectorSize + 1)..(2 * SectorSize)
      PROVE  NumDataSectors(n) = 2
  <2>1. n + SectorSize - 1 >= 2 * SectorSize /\ n + SectorSize - 1 < 3 * SectorSize
    BY <1>1
  <2> QED
    BY <1>1, <2>1 DEF NumDataSectors, DivRoundUp
<1>5. \A n \in Nat : NumDataSectors(n) \in Nat
  BY <1>1 DEF NumDataSectors, DivRoundUp
<1> QED
  BY <1>2, <1>3, <1>4, <1>5

\* FileHeader::Allocate takes clear sectors, as many as the file needs.
LEMMA AllocateTakesClear ==
    ASSUME NEW marked, NEW size \in Nat, NumClear(marked) >= NumDataSectors(size)
    PROVE  /\ Allocate(marked, size) \in Header
           /\ Allocate(marked, size).length = size
           /\ DataSectors(Allocate(marked, size)) \cap marked = {}
<1> DEFINE n == NumDataSectors(size)
           h == Allocate(marked, size)
<1>1. n \in Nat /\ NumClear(marked) \in Nat
  BY DataSectorsCount, ClearFinite
<1>2. ASSUME NEW i \in 1..n
      PROVE  ClearSector(marked, i) \in Sectors \ marked
  <2>1. i \in 1..NumClear(marked)
    BY <1>1
  <2> QED
    BY <2>1, ClearSectorIsClear
<1>3. h.sectors = [i \in 1..n |-> ClearSector(marked, i)] /\ h.length = size
      /\ h = [length |-> size, sectors |-> h.sectors]
  BY DEF Allocate
<1>4. h.sectors \in Seq(Sectors) /\ Len(h.sectors) = n
  <2> HIDE DEF n, h
  <2>1. h.sectors \in [1..n -> Sectors]
    BY <1>2, <1>3
  <2> QED
    BY <1>1, <2>1, SeqDef, LenProperties
<1>5. \A s \in Range(h.sectors) : s \notin marked
  <2> HIDE DEF n, h
  <2> QED
    BY <1>2, <1>3 DEF Range
<1>6. ASSUME NEW i \in 1..n, NEW j \in 1..n, h.sectors[i] = h.sectors[j]
      PROVE  i = j
  <2> DEFINE Before(s) == Cardinality({r \in ClearBits(marked) : r < s})
  <2>1. i \in 1..NumClear(marked) /\ j \in 1..NumClear(marked)
    BY <1>1
  <2>2. Before(ClearSector(marked, i)) = i - 1 /\ Before(ClearSector(marked, j)) = j - 1
    BY <2>1, ClearSectorIsClear
  <2>3. ClearSector(marked, i) = ClearSector(marked, j)
    BY <1>3, <1>6
  <2> HIDE DEF Before
  <2> QED
    BY <2>2, <2>3
<1>7. DOMAIN h.sectors = 1..n
  BY <1>3
<1>8. h \in [length : Nat, sectors : Seq(Sectors)]
  BY <1>3, <1>4
<1> HIDE DEF n, h
<1>9. Len(h.sectors) = NumDataSectors(h.length)
  BY <1>3, <1>4 DEF n
<1>10. h \in Header
  BY <1>6, <1>7, <1>8, <1>9 DEF Header
<1> QED
  BY <1>3, <1>5, <1>10 DEF DataSectors, h

\* Where formatting puts the map and the directory.
LEMMA Layout ==
    /\ MapHdr \in Header /\ DirHdr \in Header
    /\ DataSectors(MapHdr) = {MapSec} /\ DataSectors(DirHdr) = {Dir1, Dir2}
    /\ Fixed \subseteq Sectors
    /\ MapSec \notin {FreeMapSector, DirectorySector}
    /\ Dir1 \notin {FreeMapSector, DirectorySector, MapSec}
    /\ Dir2 \notin {FreeMapSector, DirectorySector, MapSec, Dir1}
    /\ FreeMapSector # DirectorySector
<1> DEFINE U == {FreeMapSector, DirectorySector}
<1>1. SectorSize \in Nat \ {0} /\ FreeMapFileSize \in 1..SectorSize
      /\ DirectoryFileSize \in (SectorSize + 1)..(2 * SectorSize)
      /\ NumSectors \in Nat /\ NumSectors >= 5
  BY FileSystemAssumption
<1>2. NumDataSectors(FreeMapFileSize) = 1 /\ NumDataSectors(DirectoryFileSize) = 2
      /\ FreeMapFileSize \in Nat /\ DirectoryFileSize \in Nat
  BY <1>1, DataSectorsCount
<1>3. FreeMapSector # DirectorySector
  BY DEF FreeMapSector, DirectorySector
<1>4. \A T \in SUBSET Sectors : NumClear(T) = NumSectors - Cardinality(T)
  <2>1. SUFFICES ASSUME NEW T \in SUBSET Sectors
                 PROVE  NumClear(T) = NumSectors - Cardinality(T)
    OBVIOUS
  <2>2. Cardinality(Sectors \ T) = Cardinality(Sectors) - Cardinality(Sectors \cap T)
    BY SectorsFinite, FS_Difference
  <2>3. Sectors \cap T = T
    OBVIOUS
  <2> QED
    BY <2>2, <2>3, SectorsFinite DEF NumClear, ClearBits
<1>5. U \in SUBSET Sectors /\ IsFiniteSet(U) /\ Cardinality(U) = 2
  <2>1. IsFiniteSet({FreeMapSector}) /\ Cardinality({FreeMapSector}) = 1
    BY FS_Singleton
  <2>2. U = {FreeMapSector} \cup {DirectorySector}
    OBVIOUS
  <2> QED
    BY <1>3, <2>1, <2>2, SectorsFinite, FS_AddElement
<1>6. NumClear(U) >= NumDataSectors(FreeMapFileSize)
  BY <1>1, <1>2, <1>4, <1>5
<1>7. MapHdr \in Header /\ MapHdr.length = FreeMapFileSize
      /\ DataSectors(MapHdr) \cap U = {}
  BY <1>2, <1>6, AllocateTakesClear DEF MapHdr
<1>8. MapHdr.sectors \in Seq(Sectors) /\ Len(MapHdr.sectors) = 1
  BY <1>2, <1>7 DEF Header
<1>9. DataSectors(MapHdr) = {MapSec} /\ MapSec \in Sectors
  BY <1>8 DEF DataSectors, MapSec, Range
<1> DEFINE U2 == U \cup DataSectors(MapHdr)
<1>10. U2 \in SUBSET Sectors /\ Cardinality(U2) = 3
  <2>1. U2 = U \cup {MapSec} /\ MapSec \notin U
    BY <1>7, <1>9
  <2> HIDE DEF U, U2
  <2>2. Cardinality(U \cup {MapSec}) = Cardinality(U) + 1
    BY <1>5, <2>1, FS_AddElement
  <2> QED
    BY <1>5, <1>9, <2>1, <2>2
<1>11. NumClear(U2) >= NumDataSectors(DirectoryFileSize)
  BY <1>1, <1>2, <1>4, <1>10
<1>12. DirHdr \in Header /\ DirHdr.length = DirectoryFileSize
       /\ DataSectors(DirHdr) \cap U2 = {}
  BY <1>2, <1>11, AllocateTakesClear DEF DirHdr
<1>13. DirHdr.sectors \in Seq(Sectors) /\ Len(DirHdr.sectors) = 2
  BY <1>2, <1>12 DEF Header
<1>14. DataSectors(DirHdr) = {Dir1, Dir2} /\ Dir1 \in Sectors /\ Dir2 \in Sectors
  BY <1>13 DEF DataSectors, Dir1, Dir2, Range
<1>15. Dir1 = ClearSector(U2, 1) /\ Dir2 = ClearSector(U2, 2)
  BY <1>2 DEF Dir1, Dir2, DirHdr, Allocate
<1>16. Dir1 # Dir2
  <2>1. NumClear(U2) \in Nat /\ 1 \in 1..NumClear(U2) /\ 2 \in 1..NumClear(U2)
    BY <1>2, <1>11, ClearFinite
  <2>2. Cardinality({r \in ClearBits(U2) : r < ClearSector(U2, 1)}) = 1 - 1
    BY <2>1, ClearSectorIsClear
  <2>3. Cardinality({r \in ClearBits(U2) : r < ClearSector(U2, 2)}) = 2 - 1
    BY <2>1, ClearSectorIsClear
  <2> QED
    BY <1>15, <2>2, <2>3
<1> QED
  BY <1>3, <1>5, <1>7, <1>9, <1>12, <1>14, <1>16 DEF Fixed

-----------------------------------------------------------------------------
(* Lemmas about the directory.                                             *)

LEMMA StraddlerIsEntry ==
    NumDirEntries \in Nat \ {0} /\ Straddler \in 1..NumDirEntries
BY FileSystemAssumption

\* A mixture of two tables is one, and what its two sectors hold.
LEMMA MixedTable ==
    ASSUME NEW t \in Tables, NEW u \in Tables
    PROVE  /\ Mixed(t, u) \in Tables
           /\ \A i \in 1..NumDirEntries :
                /\ i < Straddler => Mixed(t, u)[i] = t[i]
                /\ i > Straddler => Mixed(t, u)[i] = u[i]
           /\ Mixed(t, u)[Straddler].inUse = t[Straddler].inUse
           /\ Mixed(t, u)[Straddler].sector = t[Straddler].sector
           /\ Mixed(t, u)[Straddler].name = u[Straddler].name
<1>1. \A i \in 1..NumDirEntries : t[i] \in Entry /\ u[i] \in Entry
  BY DEF Tables
<1>2. \A i \in 1..NumDirEntries : [t[i] EXCEPT !.name = u[i].name] \in Entry
  BY <1>1 DEF Entry
<1>3. \A i \in 1..NumDirEntries :
         Mixed(t, u)[i] = CASE i < Straddler -> t[i]
                            [] i = Straddler -> [t[i] EXCEPT !.name = u[i].name]
                            [] i > Straddler -> u[i]
  BY DEF Mixed
<1>4. \A i \in 1..NumDirEntries :
         /\ i < Straddler => Mixed(t, u)[i] = t[i]
         /\ i > Straddler => Mixed(t, u)[i] = u[i]
         /\ i = Straddler => Mixed(t, u)[i] = [t[i] EXCEPT !.name = u[i].name]
  BY <1>3, StraddlerIsEntry
<1>5. ASSUME NEW i \in 1..NumDirEntries
      PROVE  Mixed(t, u)[i] \in Entry
  <2>1. i < Straddler \/ i = Straddler \/ i > Straddler
    BY StraddlerIsEntry
  <2>2. CASE i < Straddler
    BY <1>1, <1>4, <2>2
  <2>3. CASE i = Straddler
    BY <1>2, <1>4, <2>3
  <2>4. CASE i > Straddler
    BY <1>1, <1>4, <2>4
  <2> QED
    BY <2>1, <2>2, <2>3, <2>4
<1>6. Mixed(t, u) \in Tables
  BY <1>5 DEF Mixed, Tables
<1>7. /\ Mixed(t, u)[Straddler].inUse = t[Straddler].inUse
      /\ Mixed(t, u)[Straddler].sector = t[Straddler].sector
      /\ Mixed(t, u)[Straddler].name = u[Straddler].name
  BY <1>1, <1>4, StraddlerIsEntry DEF Entry
<1> QED
  BY <1>4, <1>6, <1>7

\* A table as a sequence.
LEMMA TableIsSeq ==
    ASSUME NEW t \in Tables
    PROVE  t \in Seq(Entry) /\ Len(t) = NumDirEntries
<1>1. NumDirEntries \in Nat /\ t \in [1..NumDirEntries -> Entry]
  BY FileSystemAssumption DEF Tables
<1>2. t \in Seq(Entry)
  BY <1>1, SeqDef
<1>3. DOMAIN t = 1..Len(t) /\ Len(t) \in Nat /\ DOMAIN t = 1..NumDirEntries
  BY <1>1, <1>2, LenProperties
<1> QED
  BY <1>1, <1>2, <1>3

\* The sectors hold the entries before the one that lies across them and after it.
LEMMA PartsOfTable ==
    ASSUME NEW t \in Tables
    PROVE  /\ FirstPart(t).entries \in Seq(Entry)
           /\ Len(FirstPart(t).entries) = Straddler - 1
           /\ \A i \in 1..(Straddler - 1) : FirstPart(t).entries[i] = t[i]
           /\ SecondPart(t).entries \in Seq(Entry)
           /\ Len(SecondPart(t).entries) = NumDirEntries - Straddler
           /\ \A i \in 1..(NumDirEntries - Straddler) :
                SecondPart(t).entries[i] = t[Straddler + i]
<1>1. NumDirEntries \in Nat /\ Straddler \in 1..NumDirEntries
      /\ \A i \in 1..NumDirEntries : t[i] \in Entry
  BY StraddlerIsEntry DEF Tables
<1>2. /\ SubSeq(t, 1, Straddler - 1) \in Seq(Entry)
      /\ Len(SubSeq(t, 1, Straddler - 1))
           = IF 1 <= Straddler - 1 THEN Straddler - 1 - 1 + 1 ELSE 0
      /\ \A i \in 1..(Straddler - 1 - 1 + 1) :
           SubSeq(t, 1, Straddler - 1)[i] = t[1 + i - 1]
  <2>1. 1 \in Int /\ Straddler - 1 \in Int /\ \A i \in 1..(Straddler - 1) : t[i] \in Entry
    BY <1>1
  <2> QED
    BY <2>1, SubSeqProperties
<1>3. /\ SubSeq(t, Straddler + 1, NumDirEntries) \in Seq(Entry)
      /\ Len(SubSeq(t, Straddler + 1, NumDirEntries))
           = IF Straddler + 1 <= NumDirEntries THEN NumDirEntries - (Straddler + 1) + 1
             ELSE 0
      /\ \A i \in 1..(NumDirEntries - (Straddler + 1) + 1) :
           SubSeq(t, Straddler + 1, NumDirEntries)[i] = t[Straddler + 1 + i - 1]
  <2>1. Straddler + 1 \in Int /\ NumDirEntries \in Int
        /\ \A i \in (Straddler + 1)..NumDirEntries : t[i] \in Entry
    BY <1>1
  <2> QED
    BY <2>1, SubSeqProperties
<1>4. FirstPart(t).entries = SubSeq(t, 1, Straddler - 1)
      /\ SecondPart(t).entries = SubSeq(t, Straddler + 1, NumDirEntries)
  BY DEF FirstPart, SecondPart
<1>5. /\ \A i \in 1..(Straddler - 1) :
            i \in 1..(Straddler - 1 - 1 + 1) /\ 1 + i - 1 = i
      /\ \A i \in 1..(NumDirEntries - Straddler) :
            i \in 1..(NumDirEntries - (Straddler + 1) + 1)
            /\ Straddler + 1 + i - 1 = Straddler + i
  BY <1>1
<1>6. /\ (IF 1 <= Straddler - 1 THEN Straddler - 1 - 1 + 1 ELSE 0) = Straddler - 1
      /\ (IF Straddler + 1 <= NumDirEntries THEN NumDirEntries - (Straddler + 1) + 1 ELSE 0)
           = NumDirEntries - Straddler
  BY <1>1
<1>7. \A i \in 1..(Straddler - 1) : FirstPart(t).entries[i] = t[i]
  BY <1>2, <1>4, <1>5
<1>8. \A i \in 1..(NumDirEntries - Straddler) :
         SecondPart(t).entries[i] = t[Straddler + i]
  BY <1>3, <1>4, <1>5
<1> QED
  BY <1>2, <1>3, <1>4, <1>6, <1>7, <1>8

\* What is read back from two sectors is the mixture of what was written to them.
LEMMA TableOfParts ==
    ASSUME NEW t \in Tables, NEW u \in Tables
    PROVE  FirstPart(t).entries
             \o << [inUse |-> FirstPart(t).inUse, sector |-> FirstPart(t).sector,
                    name |-> SecondPart(u).name] >>
             \o SecondPart(u).entries
           = Mixed(t, u)
<1> DEFINE a == FirstPart(t).entries
           e == [inUse |-> FirstPart(t).inUse, sector |-> FirstPart(t).sector,
                 name |-> SecondPart(u).name]
           b == SecondPart(u).entries
           m == Mixed(t, u)
           S == Straddler
           L == NumDirEntries
<1>1. L \in Nat /\ S \in 1..L
  BY StraddlerIsEntry
<1>2. a \in Seq(Entry) /\ Len(a) = S - 1 /\ \A i \in 1..(S - 1) : a[i] = t[i]
  BY PartsOfTable
<1>3. b \in Seq(Entry) /\ Len(b) = L - S /\ \A i \in 1..(L - S) : b[i] = u[S + i]
  BY PartsOfTable
<1>4. t[S] \in Entry /\ u[S] \in Entry
  BY <1>1 DEF Tables
<1>5. e = [inUse |-> t[S].inUse, sector |-> t[S].sector, name |-> u[S].name]
  BY DEF FirstPart, SecondPart
<1>6. e \in Entry
  BY <1>4, <1>5 DEF Entry
<1>7. m \in Seq(Entry) /\ Len(m) = L
  BY MixedTable, TableIsSeq
<1>8. /\ \A i \in 1..L : (i < S => m[i] = t[i]) /\ (i > S => m[i] = u[i])
      /\ m[S] \in Entry
      /\ m[S].inUse = t[S].inUse /\ m[S].sector = t[S].sector /\ m[S].name = u[S].name
  BY <1>1, MixedTable DEF Tables
<1>9. m[S] = e
  BY <1>5, <1>8 DEF Entry
<1> HIDE DEF a, b, e, m, S, L
<1>10. << e >> \in Seq(Entry) /\ Len(<< e >>) = 1 /\ << e >>[1] = e
  BY <1>6
<1>11. /\ a \o << e >> \in Seq(Entry)
       /\ Len(a \o << e >>) = S
       /\ \A i \in 1..S : (a \o << e >>)[i] = IF i <= S - 1 THEN a[i] ELSE << e >>[i - (S - 1)]
  <2>1. /\ a \o << e >> \in Seq(Entry)
        /\ Len(a \o << e >>) = Len(a) + Len(<< e >>)
        /\ \A i \in 1..Len(a) + Len(<< e >>) :
             (a \o << e >>)[i] = IF i <= Len(a) THEN a[i] ELSE << e >>[i - Len(a)]
    BY <1>2, <1>10, ConcatProperties
  <2>2. Len(a) + Len(<< e >>) = S
    BY <1>1, <1>2, <1>10
  <2> QED
    BY <1>2, <2>1, <2>2
<1>12. \A i \in 1..S : (a \o << e >>)[i] = m[i]
  <2>1. SUFFICES ASSUME NEW i \in 1..S PROVE (a \o << e >>)[i] = m[i]
    OBVIOUS
  <2>2. CASE i <= S - 1
    <3>1. i \in 1..L /\ i < S /\ i \in 1..(S - 1)
      BY <1>1, <2>1, <2>2
    <3> QED
      BY <1>2, <1>8, <1>11, <2>2, <3>1
  <2>3. CASE ~(i <= S - 1)
    <3>1. i = S /\ i - (S - 1) = 1
      BY <1>1, <2>1, <2>3
    <3> QED
      BY <1>9, <1>10, <1>11, <2>3, <3>1
  <2> QED
    BY <2>2, <2>3
<1> DEFINE c == a \o << e >>
<1>13. c \in Seq(Entry) /\ Len(c) = S /\ \A i \in 1..S : c[i] = m[i]
  BY <1>11, <1>12
<1> HIDE DEF c
<1>14. /\ c \o b \in Seq(Entry)
       /\ Len(c \o b) = L
       /\ \A i \in 1..L : (c \o b)[i] = IF i <= S THEN c[i] ELSE b[i - S]
  <2>1. /\ c \o b \in Seq(Entry)
        /\ Len(c \o b) = Len(c) + Len(b)
        /\ \A i \in 1..Len(c) + Len(b) :
             (c \o b)[i] = IF i <= Len(c) THEN c[i] ELSE b[i - Len(c)]
    BY <1>3, <1>13, ConcatProperties
  <2>2. Len(c) + Len(b) = L
    BY <1>1, <1>3, <1>13
  <2> QED
    BY <1>13, <2>1, <2>2
<1>15. \A i \in 1..L : (c \o b)[i] = m[i]
  <2>1. SUFFICES ASSUME NEW i \in 1..L PROVE (c \o b)[i] = m[i]
    OBVIOUS
  <2>2. CASE i <= S
    BY <1>1, <1>13, <1>14, <2>1, <2>2
  <2>3. CASE ~(i <= S)
    <3>1. i - S \in 1..(L - S) /\ S + (i - S) = i /\ i > S
      BY <1>1, <2>1, <2>3
    <3> QED
      BY <1>3, <1>8, <1>14, <2>3, <3>1
  <2> QED
    BY <2>2, <2>3
<1>16. c \o b = m
  BY <1>7, <1>14, <1>15, SeqEqual
<1> QED
  BY <1>16 DEF a, b, c, e, m

\* The mixture of a table with itself, and the sectors of a mixture.
LEMMA PartsOfMixed ==
    ASSUME NEW t \in Tables, NEW u \in Tables
    PROVE  /\ Mixed(t, t) = t
           /\ FirstPart(Mixed(t, u)) = FirstPart(t)
           /\ SecondPart(Mixed(t, u)) = SecondPart(u)
<1> DEFINE m == Mixed(t, u)
<1>1. m \in Tables
  BY MixedTable
<1>2. Mixed(t, t) = t
  <2>1. Mixed(t, t) \in Tables
    BY MixedTable
  <2>2. ASSUME NEW i \in 1..NumDirEntries
        PROVE  Mixed(t, t)[i] = t[i]
    <3>1. i < Straddler \/ i = Straddler \/ i > Straddler
      BY StraddlerIsEntry
    <3>2. CASE i < Straddler \/ i > Straddler
      BY <3>2, MixedTable
    <3>3. CASE i = Straddler
      <4>1. Mixed(t, t)[i] \in Entry /\ t[i] \in Entry
        BY <2>1 DEF Tables
      <4>2. /\ Mixed(t, t)[i].inUse = t[i].inUse
            /\ Mixed(t, t)[i].sector = t[i].sector
            /\ Mixed(t, t)[i].name = t[i].name
        BY <3>3, MixedTable
      <4> QED
        BY <4>1, <4>2 DEF Entry
    <3> QED
      BY <3>1, <3>2, <3>3
  <2> QED
    <3>1. Mixed(t, t) = [i \in 1..NumDirEntries |-> Mixed(t, t)[i]]
          /\ t = [i \in 1..NumDirEntries |-> t[i]]
      BY <2>1 DEF Tables
    <3> QED
      BY <2>2, <3>1
<1>3. FirstPart(m) = FirstPart(t)
  <2>1. FirstPart(m).entries = FirstPart(t).entries
    <3>1. /\ FirstPart(m).entries \in Seq(Entry)
          /\ Len(FirstPart(m).entries) = Straddler - 1
          /\ \A i \in 1..(Straddler - 1) : FirstPart(m).entries[i] = m[i]
      BY <1>1, PartsOfTable
    <3>2. /\ FirstPart(t).entries \in Seq(Entry)
          /\ Len(FirstPart(t).entries) = Straddler - 1
          /\ \A i \in 1..(Straddler - 1) : FirstPart(t).entries[i] = t[i]
      BY PartsOfTable
    <3>3. \A i \in 1..(Straddler - 1) : m[i] = t[i]
      <4>1. \A i \in 1..(Straddler - 1) : i \in 1..NumDirEntries /\ i < Straddler
        BY StraddlerIsEntry
      <4> QED
        BY <4>1, MixedTable
    <3> QED
      BY <3>1, <3>2, <3>3, SeqEqual
  <2>2. m[Straddler].inUse = t[Straddler].inUse /\ m[Straddler].sector = t[Straddler].sector
    BY MixedTable
  <2> HIDE DEF m
  <2> QED
    BY <2>1, <2>2 DEF FirstPart
<1>4. SecondPart(m) = SecondPart(u)
  <2>1. SecondPart(m).entries = SecondPart(u).entries
    <3>1. /\ SecondPart(m).entries \in Seq(Entry)
          /\ Len(SecondPart(m).entries) = NumDirEntries - Straddler
          /\ \A i \in 1..(NumDirEntries - Straddler) :
               SecondPart(m).entries[i] = m[Straddler + i]
      BY <1>1, PartsOfTable
    <3>2. /\ SecondPart(u).entries \in Seq(Entry)
          /\ Len(SecondPart(u).entries) = NumDirEntries - Straddler
          /\ \A i \in 1..(NumDirEntries - Straddler) :
               SecondPart(u).entries[i] = u[Straddler + i]
      BY PartsOfTable
    <3>3. \A i \in 1..(NumDirEntries - Straddler) : m[Straddler + i] = u[Straddler + i]
      <4>1. \A i \in 1..(NumDirEntries - Straddler) :
               Straddler + i \in 1..NumDirEntries /\ Straddler + i > Straddler
        BY StraddlerIsEntry
      <4> QED
        BY <4>1, MixedTable
    <3> QED
      BY <3>1, <3>2, <3>3, SeqEqual
  <2>2. m[Straddler].name = u[Straddler].name
    BY MixedTable
  <2> HIDE DEF m
  <2> QED
    BY <2>1, <2>2 DEF SecondPart
<1> QED
  BY <1>2, <1>3, <1>4

\* The directory and the map that are read from a disk.
TableOn(d) ==
    LET first == d[d[DirectorySector].sectors[1]]
        second == d[d[DirectorySector].sectors[2]]
    IN first.entries
         \o << [inUse |-> first.inUse, sector |-> first.sector, name |-> second.name] >>
         \o second.entries

FreeMapOn(d) == d[d[FreeMapSector].sectors[1]].marked

LEMMA LaidIsRead ==
    ASSUME NEW d, NEW m, NEW t \in Tables, Laid(d, m, t)
    PROVE  TableOn(d) = t /\ FreeMapOn(d) = m
<1>1. FreeMapOn(d) = m
  BY DEF Laid, FreeMapOn, MapSec
<1>2. d[DirectorySector].sectors[1] = Dir1 /\ d[DirectorySector].sectors[2] = Dir2
      /\ d[Dir1] = FirstPart(t) /\ d[Dir2] = SecondPart(t)
  BY DEF Laid, Dir1, Dir2
<1>3. TableOn(d) = Mixed(t, t)
  BY <1>2, TableOfParts DEF TableOn
<1> QED
  BY <1>1, <1>3, PartsOfMixed

LEMMA ReadNow ==
    /\ Table = TableOn(disk) /\ FreeMap = FreeMapOn(disk)
    /\ MapSector = disk[FreeMapSector].sectors[1]
    /\ DirSector(1) = disk[DirectorySector].sectors[1]
    /\ DirSector(2) = disk[DirectorySector].sectors[2]
BY DEF Table, TableOn, FreeMap, FreeMapOn, MapSector, DirSector

\* A disk that has x in sector s.
Put(d, s, x) == [d EXCEPT ![s] = x]

LEMMA PutSector ==
    ASSUME NEW d, DOMAIN d = Sectors, NEW s \in Sectors, NEW x
    PROVE  /\ DOMAIN Put(d, s, x) = Sectors
           /\ Put(d, s, x)[s] = x
           /\ \A r \in Sectors : r # s => Put(d, s, x)[r] = d[r]
BY DEF Put

\* A write to one of the sectors of the map or of the directory, or to another one.
LEMMA LaidAfterWrite ==
    ASSUME NEW d, DOMAIN d = Sectors, NEW m, NEW t \in Tables, Laid(d, m, t)
    PROVE  /\ \A s \in Sectors \ Fixed : \A x : Laid(Put(d, s, x), m, t)
           /\ \A n : Laid(Put(d, MapSec, [marked |-> n]), n, t)
           /\ \A u \in Tables :
                /\ Laid(Put(d, Dir1, FirstPart(u)), m, Mixed(u, t))
                /\ Laid(Put(d, Dir2, SecondPart(u)), m, Mixed(t, u))
<1>1. /\ d[FreeMapSector] = MapHdr /\ d[DirectorySector] = DirHdr
      /\ d[MapSec] = [marked |-> m]
      /\ d[Dir1] = FirstPart(t) /\ d[Dir2] = SecondPart(t)
  BY DEF Laid
<1>2. ASSUME NEW s \in Sectors \ Fixed, NEW x
      PROVE  Laid(Put(d, s, x), m, t)
  BY <1>1, PutSector, Layout DEF Laid, Fixed
<1>3. ASSUME NEW n
      PROVE  Laid(Put(d, MapSec, [marked |-> n]), n, t)
  BY <1>1, PutSector, Layout DEF Laid, Fixed
<1>4. ASSUME NEW u \in Tables
      PROVE  Laid(Put(d, Dir1, FirstPart(u)), m, Mixed(u, t))
  <2>1. FirstPart(Mixed(u, t)) = FirstPart(u) /\ SecondPart(Mixed(u, t)) = SecondPart(t)
    BY PartsOfMixed
  <2> QED
    BY <1>1, <2>1, PutSector, Layout DEF Laid, Fixed
<1>5. ASSUME NEW u \in Tables
      PROVE  Laid(Put(d, Dir2, SecondPart(u)), m, Mixed(t, u))
  <2>1. FirstPart(Mixed(t, u)) = FirstPart(t) /\ SecondPart(Mixed(t, u)) = SecondPart(u)
    BY PartsOfMixed
  <2> QED
    BY <1>1, <2>1, PutSector, Layout DEF Laid, Fixed
<1> QED
  BY <1>2, <1>3, <1>4, <1>5

\* What the search for a name and for an unused entry finds.
LEMMA FindIndexFinds ==
    ASSUME NEW t \in Tables, NEW k
    PROVE  /\ FindIndex(t, k) = 0 => \A i \in Used(t) : t[i].name # k
           /\ FindIndex(t, k) # 0 => /\ FindIndex(t, k) \in Used(t)
                                     /\ t[FindIndex(t, k)].name = k
           /\ \A i \in Used(t) : t[i].name = k => FindIndex(t, k) <= i
           /\ Used(t) \subseteq 1..NumDirEntries
<1> DEFINE I == {i \in 1..Len(t) : t[i].inUse /\ t[i].name = k}
<1>1. Len(t) = NumDirEntries /\ DOMAIN t = 1..NumDirEntries /\ NumDirEntries \in Nat
  BY TableIsSeq, FileSystemAssumption DEF Tables
<1>2. FindIndex(t, k) = IF I # {} THEN Min(I) ELSE 0
  BY DEF FindIndex, SelectInSeq
<1>3. I \in SUBSET Nat /\ 0 \notin I /\ I = {i \in Used(t) : t[i].name = k}
  BY <1>1 DEF Used
<1>4. I # {} => Min(I) \in I /\ \A i \in I : Min(I) <= i
  <2> HIDE DEF I
  <2> QED
    BY <1>3, MinOfNumbers
<1> HIDE DEF I
<1>5. Used(t) \subseteq 1..NumDirEntries
  BY <1>1 DEF Used
<1> QED
  BY <1>2, <1>3, <1>4, <1>5

LEMMA FirstUnusedIsUnused ==
    ASSUME NEW t \in Tables
    PROVE  FirstUnused(t) # 0 => /\ FirstUnused(t) \in 1..NumDirEntries
                                 /\ ~t[FirstUnused(t)].inUse
                                 /\ \A j \in 1..NumDirEntries :
                                      j < FirstUnused(t) => t[j].inUse
<1> DEFINE I == {i \in 1..Len(t) : ~t[i].inUse}
<1>1. Len(t) = NumDirEntries /\ NumDirEntries \in Nat
  BY TableIsSeq, FileSystemAssumption
<1>2. FirstUnused(t) = IF I # {} THEN Min(I) ELSE 0
  BY DEF FirstUnused, SelectInSeq
<1>3. I \in SUBSET Nat
  BY <1>1
<1>4. I # {} => Min(I) \in I /\ \A j \in I : Min(I) <= j
  <2> HIDE DEF I
  <2> QED
    BY <1>3, MinOfNumbers
<1>5. \A j \in 1..NumDirEntries : ~t[j].inUse => j \in I
  BY <1>1
<1> PICK f : f = FirstUnused(t)
  OBVIOUS
<1>6. ASSUME f # 0
      PROVE  f \in I /\ \A j \in I : f <= j
  BY <1>2, <1>4, <1>6
<1>7. ASSUME f # 0
      PROVE  f \in 1..NumDirEntries /\ ~t[f].inUse
  BY <1>1, <1>6, <1>7
<1>8. ASSUME f # 0, NEW j \in 1..NumDirEntries, j < f
      PROVE  t[j].inUse
  <2> HIDE DEF I
  <2>1. j \notin I
    BY <1>6, <1>7, <1>8
  <2> QED
    BY <1>5, <2>1
<1> QED
  BY <1>7, <1>8

-----------------------------------------------------------------------------
(* Lemmas about the files on a disk.                                       *)

LEMMA TakenHolds ==
    ASSUME NEW d, NEW t, NEW x
    PROVE  x \in Taken(d, t) <=> x \in Fixed \/ \E i \in Used(t) : x \in Owned(d, t[i])
BY DEF Taken

\* What the files are depends on the sectors of their headers only.
LEMMA SameHeaders ==
    ASSUME NEW d, NEW e, NEW t, \A i \in Used(t) : e[t[i].sector] = d[t[i].sector]
    PROVE  /\ Whole(d, t) => Whole(e, t)
           /\ Taken(e, t) = Taken(d, t)
           /\ \A i \in Used(t) : Owned(e, t[i]) = Owned(d, t[i])
<1>1. \A i \in Used(t) : Owned(e, t[i]) = Owned(d, t[i])
  BY DEF Owned
<1>2. {Owned(e, t[i]) : i \in Used(t)} = {Owned(d, t[i]) : i \in Used(t)}
  BY <1>1
<1>3. Taken(e, t) = Taken(d, t)
  BY <1>2 DEF Taken
<1>4. ASSUME Whole(d, t)
      PROVE  Whole(e, t)
  <2>1. \A i \in Used(t) : IsFile(e, t[i])
    BY <1>1, <1>4 DEF Whole, IsFile
  <2>2. \A i, j \in Used(t) :
           i # j => Owned(e, t[i]) \cap Owned(e, t[j]) = {} /\ t[i].name # t[j].name
    BY <1>1, <1>4 DEF Whole
  <2> QED
    BY <1>4, <2>1, <2>2 DEF Whole
<1> QED
  BY <1>1, <1>3, <1>4

LEMMA HeadersElsewhere ==
    ASSUME NEW d, NEW t, Whole(d, t), NEW i \in Used(t)
    PROVE  t[i].sector \in Sectors \ Fixed
BY DEF Whole, IsFile, Owned

\* A write that is not to a header.
LEMMA WriteElsewhere ==
    ASSUME NEW d, DOMAIN d = Sectors, NEW t, Whole(d, t),
           NEW s \in Sectors, \A i \in Used(t) : t[i].sector # s, NEW x
    PROVE  /\ Whole(Put(d, s, x), t)
           /\ Taken(Put(d, s, x), t) = Taken(d, t)
<1>1. \A i \in Used(t) : Put(d, s, x)[t[i].sector] = d[t[i].sector]
  BY HeadersElsewhere, PutSector
<1> QED
  BY <1>1, SameHeaders

\* The directory with one file more.
LEMMA WithTable ==
    ASSUME NEW t \in Tables, NEW i \in 1..NumDirEntries, NEW s \in Sectors, NEW k \in Keys
    PROVE  /\ With(t, i, s, k) \in Tables
           /\ Used(With(t, i, s, k)) = Used(t) \cup {i}
           /\ With(t, i, s, k)[i] = [inUse |-> TRUE, sector |-> s, name |-> k]
           /\ \A j \in 1..NumDirEntries : j # i => With(t, i, s, k)[j] = t[j]
<1> DEFINE w == With(t, i, s, k)
           e == [inUse |-> TRUE, sector |-> s, name |-> k]
<1>1. t \in [1..NumDirEntries -> Entry] /\ DOMAIN t = 1..NumDirEntries
  BY DEF Tables
<1>2. e \in Entry /\ e.inUse
  BY DEF Entry
<1>3. w = [t EXCEPT ![i] = e]
  BY DEF With
<1> HIDE DEF w, e
<1>4. w \in Tables /\ w[i] = e /\ \A j \in 1..NumDirEntries : j # i => w[j] = t[j]
  BY <1>1, <1>2, <1>3 DEF Tables
<1>5. DOMAIN w = 1..NumDirEntries
  BY <1>4 DEF Tables
<1>6. Used(w) = Used(t) \cup {i}
  BY <1>1, <1>2, <1>4, <1>5 DEF Used
<1> QED
  BY <1>4, <1>6 DEF w, e

LEMMA WholeWith ==
    ASSUME NEW d, NEW t \in Tables, NEW i \in 1..NumDirEntries, ~t[i].inUse,
           NEW s \in Sectors, NEW h \in Header, NEW k \in Keys,
           Whole(d, t), \A j \in Used(t) : t[j].name # k,
           \A j \in 1..NumDirEntries : j < i => t[j].inUse,
           s \notin DataSectors(h), ({s} \cup DataSectors(h)) \cap Taken(d, t) = {},
           d[s] = h
    PROVE  /\ Whole(d, With(t, i, s, k))
           /\ Taken(d, With(t, i, s, k)) = Taken(d, t) \cup ({s} \cup DataSectors(h))
<1> DEFINE w == With(t, i, s, k)
           e == [inUse |-> TRUE, sector |-> s, name |-> k]
           O == {s} \cup DataSectors(h)
<1>1. w \in Tables /\ Used(w) = Used(t) \cup {i} /\ w[i] = e
      /\ \A j \in 1..NumDirEntries : j # i => w[j] = t[j]
  BY WithTable
<1>2. Used(t) \subseteq 1..NumDirEntries /\ i \notin Used(t)
  BY DEF Used, Tables
<1>3. e.sector = s /\ e.name = k
  OBVIOUS
<1> HIDE DEF w, e, O
<1>4. Owned(d, w[i]) = O /\ w[i].name = k /\ w[i].sector = s
  BY <1>1, <1>3 DEF Owned, O
<1>5. \A j \in Used(t) : w[j] = t[j]
  BY <1>1, <1>2
<1>6. O \cap Fixed = {} /\ \A j \in Used(t) : O \cap Owned(d, t[j]) = {}
  BY DEF Taken, O
<1>7. IsFile(d, w[i])
  BY <1>4, <1>6 DEF IsFile
<1>8. \A j \in Used(w) : IsFile(d, w[j])
  BY <1>1, <1>5, <1>7 DEF Whole
<1>9. ASSUME NEW a \in Used(w), NEW b \in Used(w), a # b
      PROVE  Owned(d, w[a]) \cap Owned(d, w[b]) = {} /\ w[a].name # w[b].name
  <2>1. CASE a \in Used(t) /\ b \in Used(t)
    BY <1>5, <1>9, <2>1 DEF Whole
  <2>2. CASE a = i
    <3>1. b \in Used(t)
      BY <1>1, <1>9, <2>2
    <3> QED
      BY <1>4, <1>5, <1>6, <2>2, <3>1
  <2>3. CASE b = i
    <3>1. a \in Used(t)
      BY <1>1, <1>9, <2>3
    <3> QED
      BY <1>4, <1>5, <1>6, <2>3, <3>1
  <2> QED
    BY <1>1, <1>9, <2>1, <2>2, <2>3
<1>10. Whole(d, w)
  <2>1. ASSUME NEW a \in Used(w), NEW b \in (1..NumDirEntries) \ Used(w),
               w[a].name = w[b].name
        PROVE  a < b
    <3>1. b \notin Used(t) /\ b # i /\ w[b] = t[b]
      BY <1>1
    <3>2. CASE a = i
      <4>1. DOMAIN t = 1..NumDirEntries
        BY DEF Tables
      <4>2. ~(b < i)
        BY <3>1, <4>1 DEF Used
      <4> QED
        BY <3>1, <3>2, <4>2
    <3>3. CASE a # i
      <4>1. a \in Used(t) /\ w[a] = t[a]
        BY <1>1, <1>5, <3>3
      <4>2. OldNames(t)
        BY DEF Whole
      <4> QED
        BY <2>1, <3>1, <4>1, <4>2 DEF OldNames
    <3> QED
      BY <3>2, <3>3
  <2>2. OldNames(w)
    BY <2>1 DEF OldNames
  <2> QED
    BY <1>8, <1>9, <2>2 DEF Whole
<1>11. ASSUME NEW x
       PROVE  x \in Taken(d, w) <=> x \in Taken(d, t) \/ x \in O
  <2>1. x \in Taken(d, w) <=> x \in Fixed \/ \E j \in Used(w) : x \in Owned(d, w[j])
    BY TakenHolds
  <2>2. x \in Taken(d, t) <=> x \in Fixed \/ \E j \in Used(t) : x \in Owned(d, t[j])
    BY TakenHolds
  <2>3. ASSUME NEW j \in Used(t), x \in Owned(d, t[j])
        PROVE  j \in Used(w) /\ x \in Owned(d, w[j])
    BY <1>1, <1>5, <2>3
  <2>4. ASSUME NEW j \in Used(w), x \in Owned(d, w[j])
        PROVE  x \in O \/ (j \in Used(t) /\ x \in Owned(d, t[j]))
    BY <1>1, <1>4, <1>5, <2>4
  <2>5. x \in O => i \in Used(w) /\ x \in Owned(d, w[i])
    BY <1>1, <1>4
  <2> QED
    BY <2>1, <2>2, <2>3, <2>4, <2>5
<1>12. Taken(d, w) = Taken(d, t) \cup O
  BY <1>11
<1> QED
  BY <1>10, <1>12 DEF w, O

\* The directory with one file less.
LEMMA WithoutTable ==
    ASSUME NEW t \in Tables, NEW i \in Used(t)
    PROVE  /\ Without(t, i) \in Tables
           /\ Used(Without(t, i)) = Used(t) \ {i}
           /\ \A j \in 1..NumDirEntries :
                /\ Without(t, i)[j].name = t[j].name
                /\ Without(t, i)[j].sector = t[j].sector
                /\ j # i => Without(t, i)[j] = t[j]
<1> DEFINE w == Without(t, i)
           e == [t[i] EXCEPT !.inUse = FALSE]
<1>1. t \in [1..NumDirEntries -> Entry] /\ DOMAIN t = 1..NumDirEntries /\ i \in DOMAIN t
  BY DEF Tables, Used
<1>2. t[i] \in Entry
  BY <1>1
<1>3. e \in Entry /\ ~e.inUse /\ e.name = t[i].name /\ e.sector = t[i].sector
  BY <1>2 DEF Entry
<1>4. w = [t EXCEPT ![i] = e]
  BY <1>1 DEF Without
<1> HIDE DEF w, e
<1>5. w \in Tables /\ w[i] = e /\ \A j \in 1..NumDirEntries : j # i => w[j] = t[j]
  BY <1>1, <1>3, <1>4 DEF Tables
<1>6. DOMAIN w = 1..NumDirEntries
  BY <1>5 DEF Tables
<1>7. Used(w) = Used(t) \ {i}
  BY <1>1, <1>3, <1>5, <1>6 DEF Used
<1>8. \A j \in 1..NumDirEntries : w[j].name = t[j].name /\ w[j].sector = t[j].sector
  BY <1>3, <1>5
<1> QED
  BY <1>5, <1>7, <1>8 DEF w

LEMMA WholeWithout ==
    ASSUME NEW d, NEW t \in Tables, NEW i \in Used(t), Whole(d, t)
    PROVE  /\ Whole(d, Without(t, i))
           /\ Taken(d, Without(t, i)) = Taken(d, t) \ Owned(d, t[i])
<1> DEFINE w == Without(t, i)
<1>1. Used(w) = Used(t) \ {i} /\ \A j \in Used(w) : w[j] = t[j]
  <2>1. Used(t) \subseteq 1..NumDirEntries
    BY DEF Used, Tables
  <2> QED
    BY <2>1, WithoutTable
<1> HIDE DEF w
<1>2. Whole(d, w)
  <2>1. ASSUME NEW a \in Used(w), NEW b \in (1..NumDirEntries) \ Used(w),
               w[a].name = w[b].name
        PROVE  a < b
    <3>1. a \in Used(t) /\ a # i /\ w[a] = t[a] /\ w[b].name = t[b].name
      BY <1>1, WithoutTable DEF w
    <3>2. b \notin Used(t)
      BY <1>1, <2>1, <3>1 DEF Whole
    <3>3. OldNames(t)
      BY DEF Whole
    <3> QED
      BY <2>1, <3>1, <3>2, <3>3 DEF OldNames
  <2>2. OldNames(w)
    BY <2>1 DEF OldNames
  <2>3. /\ \A a \in Used(w) : IsFile(d, w[a])
        /\ \A a, b \in Used(w) :
             a # b => Owned(d, w[a]) \cap Owned(d, w[b]) = {} /\ w[a].name # w[b].name
    BY <1>1 DEF Whole
  <2> QED
    BY <2>2, <2>3 DEF Whole
<1>3. \A j \in Used(w) : Owned(d, w[j]) = Owned(d, t[j])
      /\ Owned(d, t[j]) \cap Owned(d, t[i]) = {}
  BY <1>1 DEF Whole
<1>4. Owned(d, t[i]) \cap Fixed = {}
  BY DEF Whole, IsFile
<1>5. ASSUME NEW x
      PROVE  x \in Taken(d, w) <=> x \in Taken(d, t) /\ x \notin Owned(d, t[i])
  BY <1>1, <1>3, <1>4, TakenHolds
<1>6. Taken(d, w) = Taken(d, t) \ Owned(d, t[i])
  BY <1>5
<1> QED
  BY <1>2, <1>6 DEF w

\* What is not the contents of a file has no bytes.
LEMMA NoBytes ==
    /\ \A h \in Header : "bytes" \notin DOMAIN h
    /\ \A t : "bytes" \notin DOMAIN FirstPart(t) /\ "bytes" \notin DOMAIN SecondPart(t)
    /\ \A m : "bytes" \notin DOMAIN [marked |-> m]
BY DEF Header, FirstPart, SecondPart

LEMMA TypedAfterWrite ==
    ASSUME NEW d, DiskTyped(d), NEW s \in Sectors, NEW x,
           "bytes" \notin DOMAIN x \/ x \in Blocks
    PROVE  DiskTyped(Put(d, s, x)) /\ DOMAIN d = Sectors
BY DEF DiskTyped, Put

\* The write that is next, when the first n of some writes have been made.
LEMMA NextWrite ==
    ASSUME NEW all, all \in Seq(Range(all)), NEW n \in 0..(Len(all) - 1), NEW writes,
           writes = SubSeq(all, n + 1, Len(all))
    PROVE  /\ writes # << >>
           /\ Head(writes) = all[n + 1]
           /\ Tail(writes) = SubSeq(all, n + 2, Len(all))
           /\ n + 1 = Len(all) => Tail(writes) = << >>
<1>1. Len(all) \in Nat /\ n + 1 \in 1..Len(all) /\ Len(all) \in (n + 1)..Len(all)
      /\ n + 1 \in Int /\ n + 2 \in Int
  BY LenProperties
<1>2. \A j \in (n + 1)..Len(all) : all[j] \in Range(all)
  BY <1>1, LenProperties
<1>3. Len(writes) = IF n + 1 <= Len(all) THEN Len(all) - (n + 1) + 1 ELSE 0
  BY <1>1, <1>2, SubSeqProperties
<1>4. writes # << >>
  <2>1. Len(writes) # 0
    BY <1>1, <1>3
  <2> QED
    BY <2>1
<1>5. Head(writes) = all[n + 1] /\ Tail(writes) = SubSeq(all, n + 1 + 1, Len(all))
  BY <1>1, HeadTailOfSubSeq
<1>6. n + 1 + 1 = n + 2
  OBVIOUS
<1>7. n + 1 = Len(all) => Tail(writes) = << >>
  BY <1>1, <1>5, <1>6, SubSeqEmpty
<1> QED
  BY <1>4, <1>5, <1>6, <1>7

-----------------------------------------------------------------------------
(* The writes of formatting, Create and RemoveFile, one after the other.   *)

LEMMA FourWrites ==
    ASSUME NEW a, NEW b, NEW c, NEW e
    PROVE  LET w == << a, b, c, e >>
           IN w \in Seq(Range(w)) /\ Len(w) = 4 /\ w[1] = a /\ w[2] = b /\ w[3] = c /\ w[4] = e
<1> DEFINE w == << a, b, c, e >>
<1>1. Len(w) = 4 /\ DOMAIN w = 1..4
  OBVIOUS
<1>2. w = [i \in 1..4 |-> w[i]]
  OBVIOUS
<1>3. \A i \in 1..4 : w[i] \in Range(w)
  BY <1>1 DEF Range
<1>4. w \in [1..4 -> Range(w)]
  <2> HIDE DEF w
  <2> QED
    BY <1>2, <1>3
<1>5. w \in Seq(Range(w))
  <2> HIDE DEF w
  <2> QED
    BY <1>4, SeqDef
<1> QED
  BY <1>1, <1>5

LEMMA ThreeWrites ==
    ASSUME NEW a, NEW b, NEW c
    PROVE  LET w == << a, b, c >>
           IN w \in Seq(Range(w)) /\ Len(w) = 3 /\ w[1] = a /\ w[2] = b /\ w[3] = c
<1> DEFINE w == << a, b, c >>
<1>1. Len(w) = 3 /\ DOMAIN w = 1..3
  OBVIOUS
<1>2. w = [i \in 1..3 |-> w[i]]
  OBVIOUS
<1>3. \A i \in 1..3 : w[i] \in Range(w)
  BY <1>1 DEF Range
<1>4. w \in [1..3 -> Range(w)]
  <2> HIDE DEF w
  <2> QED
    BY <1>2, <1>3
<1>5. w \in Seq(Range(w))
  <2> HIDE DEF w
  <2> QED
    BY <1>4, SeqDef
<1> QED
  BY <1>1, <1>5

LEMMA JoinedWrites ==
    ASSUME NEW a, NEW b, NEW c, NEW e
    PROVE  /\ << a >> \o << b, c >> = << a, b, c >>
           /\ << a >> \o << b, c >> \o << e >> = << a, b, c, e >>
<1> DEFINE S == {a, b, c, e}
<1>1. << a >> \in Seq(S) /\ << b, c >> \in Seq(S) /\ << e >> \in Seq(S)
      /\ << a, b, c >> \in Seq(S) /\ << a, b, c, e >> \in Seq(S)
  OBVIOUS
<1> HIDE DEF S
<1>2. << a >> \o << b, c >> = << a, b, c >>
  <2>1. /\ << a >> \o << b, c >> \in Seq(S)
        /\ Len(<< a >> \o << b, c >>) = 3
        /\ \A i \in 1..3 : (<< a >> \o << b, c >>)[i] =
                           IF i <= 1 THEN << a >>[i] ELSE << b, c >>[i - 1]
    BY <1>1, ConcatProperties
  <2>2. \A i \in 1..3 : (<< a >> \o << b, c >>)[i] = << a, b, c >>[i]
    BY <2>1
  <2> QED
    BY <1>1, <2>1, <2>2, SeqEqual
<1>3. << a, b, c >> \o << e >> = << a, b, c, e >>
  <2>1. /\ << a, b, c >> \o << e >> \in Seq(S)
        /\ Len(<< a, b, c >> \o << e >>) = 4
        /\ \A i \in 1..4 : (<< a, b, c >> \o << e >>)[i] =
                           IF i <= 3 THEN << a, b, c >>[i] ELSE << e >>[i - 3]
    BY <1>1, ConcatProperties
  <2>2. \A i \in 1..4 : (<< a, b, c >> \o << e >>)[i] = << a, b, c, e >>[i]
    BY <2>1
  <2> QED
    BY <1>1, <2>1, <2>2, SeqEqual
<1> QED
  BY <1>2, <1>3

\* A disk after the write w.
Written(d, w) == Put(d, w.sector, w.holds)

\* Create makes its next write.
LEMMA CreateWrites ==
    ASSUME NEW d, DiskTyped(d), NEW t \in Tables, NEW n \in 0..3, NEW writes,
           NEW i \in 1..NumDirEntries, NEW s \in Sectors, NEW h \in Header, NEW k \in Keys,
           MidCreate(d, writes, n, t, i, s, h, k),
           NEW e, e = Written(d, Head(writes))
    PROVE  /\ writes # << >>
           /\ Head(writes).sector \in Sectors
           /\ DiskTyped(e)
           /\ n < 3 => MidCreate(e, Tail(writes), n + 1, t, i, s, h, k)
           /\ n = 3 => /\ Tail(writes) = << >>
                       /\ Complete(e, With(t, i, s, k))
                       /\ e[s] = h
<1> DEFINE W == With(t, i, s, k)
           O == {s} \cup DataSectors(h)
           all == WritesOfCreate(d, t, i, s, h, k)
<1>1. /\ ~t[i].inUse /\ \A j \in 1..NumDirEntries : j < i => t[j].inUse
      /\ Whole(d, t)
      /\ \A j \in Used(t) : t[j].name # k
      /\ s \notin DataSectors(h) /\ O \cap Taken(d, t) = {}
      /\ writes = SubSeq(all, n + 1, 4)
      /\ n > 0 => d[s] = h
      /\ n < 2 => Laid(d, Taken(d, t), t)
      /\ n = 2 => Laid(d, Taken(d, t), Mixed(W, t))
      /\ n = 3 => Laid(d, Taken(d, t), W)
  BY DEF MidCreate
<1>2. /\ all \in Seq(Range(all)) /\ Len(all) = 4
      /\ all[1] = To(s, h) /\ all[2] = To(Dir1, FirstPart(W))
      /\ all[3] = To(Dir2, SecondPart(W)) /\ all[4] = To(MapSec, [marked |-> Taken(d, t) \cup O])
  BY FourWrites DEF WritesOfCreate
<1>3. /\ writes # << >>
      /\ Head(writes) = all[n + 1]
      /\ Tail(writes) = SubSeq(all, n + 2, 4)
      /\ n + 1 = 4 => Tail(writes) = << >>
  <2> HIDE DEF all
  <2>1. n \in 0..(Len(all) - 1)
    BY <1>2
  <2> QED
    BY <1>1, <1>2, <2>1, NextWrite
<1>4. W \in Tables /\ DOMAIN d = Sectors
  BY WithTable DEF DiskTyped
<1>5. s \notin Fixed /\ \A j \in Used(t) : t[j].sector # s
  BY <1>1 DEF Taken, Owned
<1>6. MapSec \in Sectors /\ Dir1 \in Sectors /\ Dir2 \in Sectors
  BY Layout DEF Fixed
<1>7. \A x \in Fixed : \A j \in Used(t) : t[j].sector # x
  BY <1>1, HeadersElsewhere
<1>8. ASSUME NEW x \in Sectors, NEW v, Head(writes) = To(x, v),
             \A j \in Used(t) : t[j].sector # x, "bytes" \notin DOMAIN v
      PROVE  /\ Head(writes).sector \in Sectors
             /\ e = Put(d, x, v)
             /\ DiskTyped(e) /\ Whole(e, t) /\ Taken(e, t) = Taken(d, t)
             /\ WritesOfCreate(e, t, i, s, h, k) = all
  <2>1. Head(writes).sector = x /\ Head(writes).holds = v
    BY <1>8 DEF To
  <2>2. e = Put(d, x, v)
    BY <2>1 DEF Written
  <2>3. DiskTyped(e)
    BY <1>8, <2>2, TypedAfterWrite
  <2>4. Whole(e, t) /\ Taken(e, t) = Taken(d, t)
    BY <1>1, <1>4, <1>8, <2>2, WriteElsewhere
  <2> QED
    BY <2>1, <2>2, <2>3, <2>4 DEF WritesOfCreate
<1> HIDE DEF W, O, all
<1>9. CASE n = 0
  <2>1. Head(writes) = To(s, h) /\ "bytes" \notin DOMAIN h
    BY <1>2, <1>3, <1>9, NoBytes
  <2>2. /\ Head(writes).sector \in Sectors
        /\ e = Put(d, s, h)
        /\ DiskTyped(e) /\ Whole(e, t) /\ Taken(e, t) = Taken(d, t)
        /\ WritesOfCreate(e, t, i, s, h, k) = all
    BY <1>5, <1>8, <2>1
  <2>3. Laid(e, Taken(d, t), t)
    <3>1. Laid(d, Taken(d, t), t) /\ s \in Sectors \ Fixed
      BY <1>1, <1>5, <1>9
    <3>2. Laid(Put(d, s, h), Taken(d, t), t)
      BY <1>4, <3>1, LaidAfterWrite
    <3> QED
      BY <2>2, <3>2
  <2>4. e[s] = h
    BY <1>4, <2>2, PutSector
  <2>5. MidCreate(e, Tail(writes), 1, t, i, s, h, k)
    BY <1>1, <1>3, <1>9, <2>2, <2>3, <2>4 DEF MidCreate, O
  <2> QED
    BY <1>3, <1>9, <2>2, <2>5
<1>10. CASE n = 1
  <2>1. Head(writes) = To(Dir1, FirstPart(W)) /\ "bytes" \notin DOMAIN FirstPart(W)
    BY <1>2, <1>3, <1>10, NoBytes
  <2>2. /\ Head(writes).sector \in Sectors
        /\ e = Put(d, Dir1, FirstPart(W))
        /\ DiskTyped(e) /\ Whole(e, t) /\ Taken(e, t) = Taken(d, t)
        /\ WritesOfCreate(e, t, i, s, h, k) = all
    BY <1>6, <1>7, <1>8, <2>1 DEF Fixed
  <2>3. Laid(e, Taken(d, t), Mixed(W, t))
    <3>1. Laid(d, Taken(d, t), t)
      BY <1>1, <1>10
    <3>2. Laid(Put(d, Dir1, FirstPart(W)), Taken(d, t), Mixed(W, t))
      BY <1>4, <3>1, LaidAfterWrite
    <3> QED
      BY <2>2, <3>2
  <2>4. e[s] = h
    <3>1. d[s] = h /\ s \notin Fixed
      BY <1>1, <1>5, <1>10
    <3> QED
      BY <1>4, <1>6, <2>2, <3>1, PutSector DEF Fixed
  <2>5. MidCreate(e, Tail(writes), 2, t, i, s, h, k)
    BY <1>1, <1>3, <1>10, <2>2, <2>3, <2>4 DEF MidCreate, O, W
  <2> QED
    BY <1>3, <1>10, <2>2, <2>5
<1>11. CASE n = 2
  <2>1. Head(writes) = To(Dir2, SecondPart(W)) /\ "bytes" \notin DOMAIN SecondPart(W)
    BY <1>2, <1>3, <1>11, NoBytes
  <2>2. /\ Head(writes).sector \in Sectors
        /\ e = Put(d, Dir2, SecondPart(W))
        /\ DiskTyped(e) /\ Whole(e, t) /\ Taken(e, t) = Taken(d, t)
        /\ WritesOfCreate(e, t, i, s, h, k) = all
    BY <1>6, <1>7, <1>8, <2>1 DEF Fixed
  <2>3. Laid(e, Taken(d, t), W)
    <3>1. Mixed(W, t) \in Tables /\ FirstPart(Mixed(W, t)) = FirstPart(W)
      BY <1>4, MixedTable, PartsOfMixed
    <3> QED
      BY <1>1, <1>4, <1>11, <2>2, <3>1, PutSector, Layout DEF Laid, Fixed
  <2>4. e[s] = h
    <3>1. d[s] = h /\ s \notin Fixed
      BY <1>1, <1>5, <1>11
    <3> QED
      BY <1>4, <1>6, <2>2, <3>1, PutSector DEF Fixed
  <2>5. MidCreate(e, Tail(writes), 3, t, i, s, h, k)
    BY <1>1, <1>3, <1>11, <2>2, <2>3, <2>4 DEF MidCreate, O, W
  <2> QED
    BY <1>3, <1>11, <2>2, <2>5
<1>12. CASE n = 3
  <2>1. Head(writes) = To(MapSec, [marked |-> Taken(d, t) \cup O])
        /\ "bytes" \notin DOMAIN [marked |-> Taken(d, t) \cup O]
    BY <1>2, <1>3, <1>12, NoBytes
  <2>2. /\ Head(writes).sector \in Sectors
        /\ e = Put(d, MapSec, [marked |-> Taken(d, t) \cup O])
        /\ DiskTyped(e) /\ Whole(e, t) /\ Taken(e, t) = Taken(d, t)
    BY <1>6, <1>7, <1>8, <2>1 DEF Fixed
  <2>3. Laid(e, Taken(d, t) \cup O, W)
    BY <1>1, <1>4, <1>12, <2>2, LaidAfterWrite
  <2>4. e[s] = h
    <3>1. d[s] = h /\ s \notin Fixed
      BY <1>1, <1>5, <1>12
    <3> QED
      BY <1>4, <1>6, <2>2, <3>1, PutSector DEF Fixed
  <2>5. Whole(e, W) /\ Taken(e, W) = Taken(d, t) \cup O
    <3>1. /\ (\A j \in Used(t) : t[j].name # k) /\ ~t[i].inUse
          /\ \A j \in 1..NumDirEntries : j < i => t[j].inUse
      BY <1>1
    <3>2. s \notin DataSectors(h) /\ ({s} \cup DataSectors(h)) \cap Taken(e, t) = {}
      BY <1>1, <2>2 DEF O
    <3>3. Whole(e, With(t, i, s, k))
          /\ Taken(e, With(t, i, s, k)) = Taken(e, t) \cup ({s} \cup DataSectors(h))
      <4>1. Whole(e, t)
        BY <2>2
      <4> QED
        BY <2>4, <3>1, <3>2, <4>1, WholeWith
    <3> QED
      BY <2>2, <3>3 DEF W, O
  <2>6. Complete(e, W)
    BY <2>3, <2>5 DEF Complete
  <2> QED
    BY <1>3, <1>12, <2>2, <2>4, <2>6 DEF W
<1> QED
  BY <1>9, <1>10, <1>11, <1>12

\* RemoveFile makes its next write.
LEMMA RemoveWrites ==
    ASSUME NEW d, DiskTyped(d), NEW t \in Tables, NEW n \in 0..2, NEW writes,
           NEW i \in 1..NumDirEntries, NEW k \in Keys,
           MidRemove(d, writes, n, t, i, k),
           NEW e, e = Written(d, Head(writes))
    PROVE  /\ writes # << >>
           /\ Head(writes).sector \in Sectors
           /\ DiskTyped(e)
           /\ n < 2 => MidRemove(e, Tail(writes), n + 1, t, i, k)
           /\ n = 2 => Tail(writes) = << >> /\ Complete(e, Without(t, i))
<1> DEFINE W == Without(t, i)
           all == WritesOfRemove(d, t, i)
<1>1. /\ Whole(d, t)
      /\ i \in Used(t) /\ t[i].name = k
      /\ writes = SubSeq(all, n + 1, 3)
      /\ n = 0 => Laid(d, Taken(d, t), t)
      /\ n = 1 => Laid(d, Taken(d, W), t)
      /\ n = 2 => Laid(d, Taken(d, W), Mixed(W, t))
  BY DEF MidRemove
<1>2. /\ all \in Seq(Range(all)) /\ Len(all) = 3
      /\ all[1] = To(MapSec, [marked |-> Taken(d, W)])
      /\ all[2] = To(Dir1, FirstPart(W)) /\ all[3] = To(Dir2, SecondPart(W))
  BY ThreeWrites DEF WritesOfRemove
<1>3. /\ writes # << >>
      /\ Head(writes) = all[n + 1]
      /\ Tail(writes) = SubSeq(all, n + 2, 3)
      /\ n + 1 = 3 => Tail(writes) = << >>
  <2> HIDE DEF all
  <2>1. n \in 0..(Len(all) - 1)
    BY <1>2
  <2> QED
    BY <1>1, <1>2, <2>1, NextWrite
<1>4. W \in Tables /\ DOMAIN d = Sectors
  BY <1>1, WithoutTable DEF DiskTyped
<1>5. Whole(d, W)
  BY <1>1, WholeWithout
<1>6. MapSec \in Sectors /\ Dir1 \in Sectors /\ Dir2 \in Sectors
  BY Layout DEF Fixed
<1>7. \A x \in Fixed : /\ \A j \in Used(t) : t[j].sector # x
                       /\ \A j \in Used(W) : W[j].sector # x
  BY <1>1, <1>5, HeadersElsewhere
<1>8. ASSUME NEW x \in Sectors \cap Fixed, NEW v, Head(writes) = To(x, v),
             "bytes" \notin DOMAIN v
      PROVE  /\ Head(writes).sector \in Sectors
             /\ e = Put(d, x, v)
             /\ DiskTyped(e) /\ Whole(e, t) /\ Whole(e, W) /\ Taken(e, W) = Taken(d, W)
             /\ WritesOfRemove(e, t, i) = all
  <2>1. Head(writes).sector = x /\ Head(writes).holds = v
    BY <1>8 DEF To
  <2>2. e = Put(d, x, v)
    BY <2>1 DEF Written
  <2>3. DiskTyped(e)
    BY <1>8, <2>2, TypedAfterWrite
  <2>4. Whole(e, t)
    BY <1>1, <1>4, <1>7, <1>8, <2>2, WriteElsewhere
  <2>5. Whole(e, W) /\ Taken(e, W) = Taken(d, W)
    <3> HIDE DEF W
    <3> QED
      BY <1>4, <1>5, <1>7, <2>2, WriteElsewhere
  <2> QED
    BY <2>1, <2>2, <2>3, <2>4, <2>5 DEF WritesOfRemove
<1> HIDE DEF W, all
<1>9. CASE n = 0
  <2>1. Head(writes) = To(MapSec, [marked |-> Taken(d, W)])
        /\ "bytes" \notin DOMAIN [marked |-> Taken(d, W)]
    BY <1>2, <1>3, <1>9, NoBytes
  <2>2. /\ Head(writes).sector \in Sectors
        /\ e = Put(d, MapSec, [marked |-> Taken(d, W)])
        /\ DiskTyped(e) /\ Whole(e, t) /\ Taken(e, W) = Taken(d, W)
        /\ WritesOfRemove(e, t, i) = all
    BY <1>6, <1>8, <2>1 DEF Fixed
  <2>3. Laid(e, Taken(e, W), t)
    BY <1>1, <1>4, <1>9, <2>2, LaidAfterWrite
  <2>4. MidRemove(e, Tail(writes), 1, t, i, k)
    BY <1>1, <1>3, <1>9, <2>2, <2>3 DEF MidRemove, W
  <2> QED
    BY <1>3, <1>9, <2>2, <2>4
<1>10. CASE n = 1
  <2>1. Head(writes) = To(Dir1, FirstPart(W)) /\ "bytes" \notin DOMAIN FirstPart(W)
    BY <1>2, <1>3, <1>10, NoBytes
  <2>2. /\ Head(writes).sector \in Sectors
        /\ e = Put(d, Dir1, FirstPart(W))
        /\ DiskTyped(e) /\ Whole(e, t) /\ Taken(e, W) = Taken(d, W)
        /\ WritesOfRemove(e, t, i) = all
    BY <1>6, <1>8, <2>1 DEF Fixed
  <2>3. Laid(e, Taken(e, W), Mixed(W, t))
    BY <1>1, <1>4, <1>10, <2>2, LaidAfterWrite
  <2>4. MidRemove(e, Tail(writes), 2, t, i, k)
    BY <1>1, <1>3, <1>10, <2>2, <2>3 DEF MidRemove, W
  <2> QED
    BY <1>3, <1>10, <2>2, <2>4
<1>11. CASE n = 2
  <2>1. Head(writes) = To(Dir2, SecondPart(W)) /\ "bytes" \notin DOMAIN SecondPart(W)
    BY <1>2, <1>3, <1>11, NoBytes
  <2>2. /\ Head(writes).sector \in Sectors
        /\ e = Put(d, Dir2, SecondPart(W))
        /\ DiskTyped(e) /\ Whole(e, W) /\ Taken(e, W) = Taken(d, W)
    BY <1>6, <1>8, <2>1 DEF Fixed
  <2>3. Laid(e, Taken(e, W), W)
    <3>1. FirstPart(Mixed(W, t)) = FirstPart(W)
      BY <1>4, PartsOfMixed
    <3> QED
      BY <1>1, <1>4, <1>11, <2>2, <3>1, PutSector, Layout DEF Laid, Fixed
  <2>4. Complete(e, W)
    BY <2>2, <2>3 DEF Complete
  <2> QED
    BY <1>3, <1>11, <2>2, <2>4 DEF W
<1> QED
  BY <1>9, <1>10, <1>11

\* The writes of formatting.
LEMMA FormattingWrites ==
    /\ Formatting \in Seq(Range(Formatting)) /\ Len(Formatting) = 5
    /\ Formatting[1] = To(FreeMapSector, MapHdr)
    /\ Formatting[2] = To(DirectorySector, DirHdr)
    /\ Formatting[3] = To(MapSec, [marked |-> Fixed])
    /\ Formatting[4] = To(Dir1, FirstPart(EmptyDirectory))
    /\ Formatting[5] = To(Dir2, SecondPart(EmptyDirectory))
<1>1. Len(Formatting) = 5 /\ DOMAIN Formatting = 1..5
      /\ Formatting = [i \in 1..5 |-> Formatting[i]]
  BY DEF Formatting
<1>2. \A i \in 1..5 : Formatting[i] \in Range(Formatting)
  BY <1>1 DEF Range
<1>3. Formatting \in [1..5 -> Range(Formatting)]
  BY <1>1, <1>2
<1>4. Formatting \in Seq(Range(Formatting))
  BY <1>3, SeqDef
<1>5. {FreeMapSector, DirectorySector} \cup DataSectors(MapHdr) \cup DataSectors(DirHdr)
        = Fixed
  BY Layout DEF Fixed
<1>6. /\ Formatting[1] = To(FreeMapSector, MapHdr)
      /\ Formatting[2] = To(DirectorySector, DirHdr)
      /\ Formatting[3] = To(MapHdr.sectors[1],
                            [marked |-> {FreeMapSector, DirectorySector}
                               \cup DataSectors(MapHdr) \cup DataSectors(DirHdr)])
      /\ Formatting[4] = To(DirHdr.sectors[1], FirstPart(EmptyDirectory))
      /\ Formatting[5] = To(DirHdr.sectors[2], SecondPart(EmptyDirectory))
  BY DEF Formatting
<1> QED
  BY <1>1, <1>4, <1>5, <1>6 DEF MapSec, Dir1, Dir2

LEMMA FormattingTargets ==
    /\ \A i \in 1..5 : /\ Formatting[i].sector \in Fixed
                       /\ "bytes" \notin DOMAIN Formatting[i].holds
    /\ \A i, j \in 1..5 : i # j => Formatting[i].sector # Formatting[j].sector
<1>1. /\ Formatting[1].sector = FreeMapSector /\ Formatting[1].holds = MapHdr
      /\ Formatting[2].sector = DirectorySector /\ Formatting[2].holds = DirHdr
      /\ Formatting[3].sector = MapSec /\ Formatting[3].holds = [marked |-> Fixed]
      /\ Formatting[4].sector = Dir1 /\ Formatting[4].holds = FirstPart(EmptyDirectory)
      /\ Formatting[5].sector = Dir2 /\ Formatting[5].holds = SecondPart(EmptyDirectory)
  BY FormattingWrites DEF To
<1>2. \A i \in 1..5 : i = 1 \/ i = 2 \/ i = 3 \/ i = 4 \/ i = 5
  OBVIOUS
<1>3. \A i \in 1..5 : Formatting[i].sector \in Fixed
  BY <1>1, <1>2 DEF Fixed
<1>4. \A i \in 1..5 : "bytes" \notin DOMAIN Formatting[i].holds
  BY <1>1, <1>2, Layout, NoBytes
<1>5. \A i, j \in 1..5 : i # j => Formatting[i].sector # Formatting[j].sector
  BY <1>1, <1>2, Layout
<1> QED
  BY <1>3, <1>4, <1>5

\* Formatting makes its next write.
LEMMA FormatWrites ==
    ASSUME NEW d, DiskTyped(d), NEW n \in 0..4, NEW writes, MidFormat(d, writes, n),
           NEW e, e = Written(d, Head(writes))
    PROVE  /\ writes # << >>
           /\ Head(writes).sector \in Sectors
           /\ DiskTyped(e)
           /\ MidFormat(e, Tail(writes), n + 1)
<1>1. writes = SubSeq(Formatting, n + 1, 5)
      /\ \A i \in 1..n : d[Formatting[i].sector] = Formatting[i].holds
  BY DEF MidFormat
<1>2. /\ writes # << >>
      /\ Head(writes) = Formatting[n + 1]
      /\ Tail(writes) = SubSeq(Formatting, n + 2, 5)
  <2>1. n \in 0..(Len(Formatting) - 1)
    BY FormattingWrites
  <2> QED
    BY <1>1, <2>1, FormattingWrites, NextWrite
<1>3. n + 1 \in 1..5
  OBVIOUS
<1>4. Head(writes).sector \in Sectors /\ "bytes" \notin DOMAIN Head(writes).holds
  BY <1>2, <1>3, FormattingTargets, Layout
<1>5. DiskTyped(e) /\ DOMAIN d = Sectors
  BY <1>4, TypedAfterWrite, PutSector DEF Written
<1>6. \A i \in 1..(n + 1) : e[Formatting[i].sector] = Formatting[i].holds
  <2>1. SUFFICES ASSUME NEW i \in 1..(n + 1)
                 PROVE  e[Formatting[i].sector] = Formatting[i].holds
    OBVIOUS
  <2>2. CASE i = n + 1
    BY <1>2, <1>4, <1>5, <2>2, PutSector DEF Written
  <2>3. CASE i # n + 1
    <3>1. i \in 1..n /\ i \in 1..5
      BY <2>1, <2>3
    <3>2. Formatting[i].sector # Formatting[n + 1].sector
      BY <1>3, <2>3, <3>1, FormattingTargets
    <3>3. Formatting[i].sector \in Sectors
      BY <3>1, FormattingTargets, Layout
    <3> QED
      BY <1>1, <1>2, <1>4, <1>5, <3>1, <3>2, <3>3, PutSector DEF Written
  <2> QED
    BY <2>2, <2>3
<1>7. n + 1 + 1 = n + 2
  OBVIOUS
<1>8. MidFormat(e, Tail(writes), n + 1)
  BY <1>2, <1>6, <1>7 DEF MidFormat
<1> QED
  BY <1>2, <1>4, <1>5, <1>8

\* When it has made them all, the directory is empty.
LEMMA FormatDone ==
    ASSUME NEW d, DiskTyped(d), NEW n \in 0..5, MidFormat(d, << >>, n)
    PROVE  EmptyDirectory \in Tables /\ Complete(d, EmptyDirectory)
<1>1. n = 5
  <2>1. ASSUME n # 5 PROVE FALSE
    <3>1. n \in 0..4
      BY <2>1
    <3> QED
      BY <3>1, FormatWrites
  <2> QED
    BY <2>1
<1>2. \A i \in 1..5 : d[Formatting[i].sector] = Formatting[i].holds
  BY <1>1 DEF MidFormat
<1>3. 1 \in 1..5 /\ 2 \in 1..5 /\ 3 \in 1..5 /\ 4 \in 1..5 /\ 5 \in 1..5
  OBVIOUS
<1>4. Laid(d, Fixed, EmptyDirectory)
  BY <1>2, <1>3, FormattingWrites DEF Laid, To
<1>5. EmptyEntry \in Entry /\ ~EmptyEntry.inUse
  BY DEF Entry, EmptyEntry
<1>6. EmptyDirectory \in Tables /\ Used(EmptyDirectory) = {}
  BY <1>5 DEF EmptyDirectory, Tables, Used
<1>7. Taken(d, EmptyDirectory) = Fixed
  BY <1>6 DEF Taken
<1>8. Whole(d, EmptyDirectory)
  BY <1>6 DEF Whole, OldNames
<1> QED
  BY <1>4, <1>6, <1>7, <1>8 DEF Complete

-----------------------------------------------------------------------------
(* What an open file reads and writes.                                     *)

LEMMA JunkIsByte == Junk \in Bytes
<1> DEFINE T == UNION {Range(t) : t \in Texts}
<1>1. Bytes = T \cup {Junk}
  BY DEF Bytes
<1> HIDE DEF T
<1> QED
  BY <1>1

LEMMA BlockOfByte ==
    ASSUME NEW n \in Nat, NEW s \in Nat \ {0}, NEW p \in Nat, p < n
    PROVE  (p \div s) + 1 \in 1..((n + s - 1) \div s)
OBVIOUS

\* A byte of a file is in one of its sectors.
LEMMA ByteToSectorIsData ==
    ASSUME NEW h \in Header, NEW p \in Nat, p < h.length
    PROVE  ByteToSector(h, p) \in DataSectors(h) /\ DataSectors(h) \subseteq Sectors
<1>1. SectorSize \in Nat \ {0} /\ h.length \in Nat
      /\ h.sectors \in Seq(Sectors) /\ Len(h.sectors) = (h.length + SectorSize - 1) \div SectorSize
  BY FileSystemAssumption DEF Header, NumDataSectors, DivRoundUp
<1>2. (p \div SectorSize) + 1 \in 1..((h.length + SectorSize - 1) \div SectorSize)
  BY <1>1, BlockOfByte
<1>3. DOMAIN h.sectors = 1..Len(h.sectors) /\ \A i \in DOMAIN h.sectors : h.sectors[i] \in Sectors
  BY <1>1, LenProperties
<1> QED
  BY <1>1, <1>2, <1>3 DEF ByteToSector, DataSectors, Range

LEMMA ByteAtIsByte ==
    ASSUME NEW h \in Header, NEW p \in Nat, p < h.length, DiskTyped(disk)
    PROVE  ByteAt(h, p) \in Bytes
<1>1. ByteToSector(h, p) \in Sectors
  BY ByteToSectorIsData
<1>2. p % SectorSize \in 0..(SectorSize - 1)
  BY FileSystemAssumption
<1>3. (p % SectorSize) + 1 \in 1..SectorSize
  BY <1>2, FileSystemAssumption
<1>4. "bytes" \in DOMAIN disk[ByteToSector(h, p)]
        => disk[ByteToSector(h, p)].bytes[(p % SectorSize) + 1] \in Bytes
  BY <1>1, <1>3 DEF DiskTyped, Blocks
<1>5. ByteAt(h, p) = IF "bytes" \in DOMAIN disk[ByteToSector(h, p)]
                       THEN disk[ByteToSector(h, p)].bytes[(p % SectorSize) + 1]
                       ELSE Junk
  BY DEF ByteAt
<1>6. Junk \in Bytes
  BY JunkIsByte
<1> QED
  BY <1>4, <1>5, <1>6

\* A request is clipped to what there is of the file.
LEMMA ClipIsLeft ==
    ASSUME NEW h \in Header, NEW n \in Nat, NEW p \in 0..h.length
    PROVE  Clip(h, n, p) \in 0..n /\ p + Clip(h, n, p) \in 0..h.length
<1>1. h.length \in Nat
  BY DEF Header
<1> QED
  BY <1>1 DEF Clip

LEMMA ReadAtIsBytes ==
    ASSUME NEW h \in Header, NEW n \in Nat, NEW p \in 0..h.length, DiskTyped(disk)
    PROVE  ReadAt(h, n, p) \in Seq(Bytes) /\ Len(ReadAt(h, n, p)) = Clip(h, n, p)
<1> DEFINE c == Clip(h, n, p)
<1>1. c \in Nat /\ p + c \in 0..h.length /\ h.length \in Nat
  <2>1. c \in 0..n /\ p + c \in 0..h.length
    BY ClipIsLeft
  <2>2. h.length \in Nat
    BY DEF Header
  <2> HIDE DEF c
  <2> QED
    BY <2>1, <2>2
<1> HIDE DEF c
<1>2. ASSUME NEW i \in 1..c
      PROVE  ByteAt(h, p + i - 1) \in Bytes
  <2>1. p + i - 1 \in Nat /\ p + i - 1 < h.length
    BY <1>1
  <2> QED
    BY <2>1, ByteAtIsByte
<1>3. ReadAt(h, n, p) = [i \in 1..c |-> ByteAt(h, p + i - 1)]
  BY DEF ReadAt, c
<1>4. ReadAt(h, n, p) \in [1..c -> Bytes]
  BY <1>2, <1>3
<1>5. ReadAt(h, n, p) \in Seq(Bytes)
  BY <1>1, <1>4, SeqDef
<1> QED
  BY <1>1, <1>4, <1>5, LenProperties DEF c

\* The sectors of a greater offset are not before those of a smaller one.
LEMMA Quotients ==
    ASSUME NEW s \in Nat \ {0}, NEW a \in Nat, NEW b \in Nat, a <= b
    PROVE  /\ a \div s \in Nat /\ b \div s \in Nat
           /\ a \div s <= b \div s
           /\ (b \div s) * s <= b
<1>1. PICK x \in Nat, y \in Nat : x = a \div s /\ y = b \div s
  OBVIOUS
<1>2. x * s <= a
  BY <1>1
<1>3. y * s <= b /\ b < y * s + s
  BY <1>1
<1>4. ASSUME y < x PROVE FALSE
  <2>1. PICK z \in Nat : x = y + 1 + z
    <3>1. x - y - 1 \in Nat /\ x = y + 1 + (x - y - 1)
      BY <1>4
    <3> QED
      BY <3>1
  <2>2. x * s = y * s + s + z * s /\ z * s >= 0
    BY <2>1
  <2> QED
    BY <1>2, <1>3, <2>2
<1> QED
  BY <1>1, <1>3, <1>4

\* OpenFile::WriteAt writes nothing but sectors of the file.
LEMMA WriteAtIsToFile ==
    ASSUME NEW h \in Header, NEW from \in Seq(Bytes), NEW p \in 0..h.length,
           DiskTyped(disk)
    PROVE  WriteAt(h, from, p) \in Seq([sector : DataSectors(h), holds : Blocks])
<1> DEFINE n == Clip(h, Len(from), p)
           first == p \div SectorSize
           last == (p + n - 1) \div SectorSize
           Byte(q) == IF q \in p..(p + n - 1) THEN from[q - p + 1]
                      ELSE IF q < h.length THEN ByteAt(h, q)
                      ELSE Junk
           offset(i) == (first + i - 1) * SectorSize
           block(i) == [bytes |-> [k \in 1..SectorSize |-> Byte(offset(i) + k - 1)]]
           S == [sector : DataSectors(h), holds : Blocks]
           w == [i \in 1..(last - first + 1) |-> To(ByteToSector(h, offset(i)), block(i))]
<1>1. CASE n = 0
  BY <1>1 DEF WriteAt
<1>2. CASE n # 0
  <2>1. WriteAt(h, from, p) = w
    BY <1>2 DEF WriteAt
  <2>2. SectorSize \in Nat \ {0} /\ h.length \in Nat /\ p \in Nat /\ Len(from) \in Nat
    BY FileSystemAssumption DEF Header
  <2>3. n \in 1..Len(from) /\ p + n <= h.length
    <3>1. n \in 0..Len(from) /\ p + n \in 0..h.length
      BY <2>2, ClipIsLeft
    <3> HIDE DEF n
    <3> QED
      BY <1>2, <2>2, <3>1
  <2> HIDE DEF n
  <2>4. /\ first \in Nat /\ last \in Nat /\ first <= last
        /\ last * SectorSize <= p + n - 1
    <3>1. p + n - 1 \in Nat /\ p <= p + n - 1
      BY <2>2, <2>3
    <3> QED
      BY <2>2, <3>1, Quotients
  <2> HIDE DEF first, last
  <2>5. ASSUME NEW q \in Nat
        PROVE  Byte(q) \in Bytes
    <3>1. CASE q \in p..(p + n - 1)
      <4>1. q - p + 1 \in 1..Len(from)
        BY <2>2, <2>3, <3>1
      <4> QED
        BY <3>1, <4>1, LenProperties
    <3>2. CASE q \notin p..(p + n - 1) /\ q < h.length
      <4>1. Byte(q) = ByteAt(h, q)
        BY <3>2
      <4> QED
        BY <3>2, <4>1, ByteAtIsByte
    <3>3. CASE q \notin p..(p + n - 1) /\ ~(q < h.length)
      BY <3>3, JunkIsByte
    <3> QED
      BY <3>1, <3>2, <3>3
  <2> HIDE DEF Byte
  <2>6. ASSUME NEW i \in 1..(last - first + 1)
        PROVE  To(ByteToSector(h, offset(i)), block(i)) \in S
    <3>1. first + i - 1 \in 0..last
      BY <2>4
    <3>2. offset(i) \in Nat /\ offset(i) <= last * SectorSize
      BY <2>2, <2>4, <3>1
    <3>3. offset(i) < h.length
      BY <2>2, <2>3, <2>4, <3>2
    <3> HIDE DEF offset
    <3>4. ByteToSector(h, offset(i)) \in DataSectors(h)
      BY <3>2, <3>3, ByteToSectorIsData
    <3>5. \A k \in 1..SectorSize : Byte(offset(i) + k - 1) \in Bytes
      BY <2>2, <2>5, <3>2
    <3>6. block(i) \in Blocks
      BY <3>5 DEF Blocks
    <3> HIDE DEF block
    <3> QED
      BY <3>4, <3>6 DEF To
  <2>7. last - first + 1 \in Nat
    BY <2>4
  <2> HIDE DEF S, offset, block
  <2>8. w \in [1..(last - first + 1) -> S]
    BY <2>6
  <2>9. w \in Seq(S)
    BY <2>7, <2>8, SeqDef
  <2> QED
    BY <2>1, <2>9 DEF S
<1> QED
  BY <1>1, <1>2

\* A write of data of a file leaves the files and the directory what they are.
LEMMA DataWritten ==
    ASSUME NEW d, DiskTyped(d), NEW t \in Tables, Complete(d, t),
           NEW i \in Used(t), NEW s \in DataSectors(d[t[i].sector]), NEW x \in Blocks,
           NEW e, e = Put(d, s, x)
    PROVE  /\ s \in Sectors
           /\ DiskTyped(e) /\ Complete(e, t)
           /\ \A j \in Used(t) : e[t[j].sector] = d[t[j].sector]
<1>1. Whole(d, t) /\ Laid(d, Taken(d, t), t) /\ DOMAIN d = Sectors
  BY DEF Complete, DiskTyped
<1>2. s \in Owned(d, t[i])
  BY DEF Owned
<1>3. s \notin Fixed
  BY <1>1, <1>2 DEF Whole, IsFile
<1>4. s \in Sectors
  <2>1. d[t[i].sector].sectors \in Seq(Sectors)
    BY <1>1 DEF Whole, IsFile, Header
  <2> QED
    BY <2>1, LenProperties DEF DataSectors, Range
<1>5. \A j \in Used(t) : t[j].sector # s
  <2>1. ASSUME NEW j \in Used(t) PROVE t[j].sector # s
    <3>1. CASE j = i
      BY <1>1, <3>1 DEF Whole, IsFile
    <3>2. CASE j # i
      <4>1. Owned(d, t[i]) \cap Owned(d, t[j]) = {} /\ t[j].sector \in Owned(d, t[j])
        BY <1>1, <3>2 DEF Whole, Owned
      <4> QED
        BY <1>2, <4>1
    <3> QED
      BY <3>1, <3>2
  <2> QED
    BY <2>1
<1>6. DiskTyped(e)
  BY <1>4, TypedAfterWrite
<1>7. Whole(e, t) /\ Taken(e, t) = Taken(d, t)
  BY <1>1, <1>4, <1>5, WriteElsewhere
<1>8. Laid(e, Taken(d, t), t)
  BY <1>1, <1>3, <1>4, LaidAfterWrite
<1>9. \A j \in Used(t) : e[t[j].sector] = d[t[j].sector]
  BY <1>1, <1>4, <1>5, HeadersElsewhere, PutSector
<1> QED
  BY <1>4, <1>6, <1>7, <1>8, <1>9 DEF Complete

-----------------------------------------------------------------------------
(* The invariant is inductive.                                             *)

LEMMA KeyIsKey ==
    ASSUME CommandTyped
    PROVE  key \in Keys
BY FileSystemAssumption DEF CommandTyped, key

LEMMA NoHeaderIsHeader == NoHeader \in Header /\ NoHeader.length = 0
<1>1. << >> \in Seq(Sectors) /\ Len(<< >>) = 0 /\ DOMAIN << >> = {}
  OBVIOUS
<1> QED
  BY <1>1, DataSectorsCount DEF NoHeader, Header

LEMMA FileInit ==
    ASSUME CInit
    PROVE  FileInv
<1> USE DEF CInit, FInit
<1>1. DiskTyped(disk)
  BY DEF DiskTyped
<1>2. CommandTyped
  <2>1. << >> \in Seq(Bytes) /\ TestFile \in Names /\ NumDirEntries \in Nat
        /\ MaxCommands \in Nat
    BY FileSystemAssumption, FileTestAssumption
  <2> QED
    BY <2>1, NoHeaderIsHeader DEF CommandTyped, Points
<1>3. FormatInv
  <2>1. SubSeq(Formatting, 1, 5) = Formatting
    BY FormattingWrites, SubSeqFull
  <2>2. MidFormat(disk, todo, 0)
    BY <2>1 DEF MidFormat
  <2> QED
    BY <2>2 DEF FormatInv
<1>4. DiskInv
  BY DEF DiskInv
<1> QED
  BY <1>1, <1>2, <1>3, <1>4 DEF FileInv

\* When no write is left, the directory and the map are as the files are.
LEMMA NothingToWrite ==
    ASSUME FileInv, at # "format", todo = << >>
    PROVE  \E t \in Tables : Settled(t) /\ Table = t /\ FreeMap = Taken(disk, t)
<1>1. DiskTyped(disk) /\ CommandTyped /\ DiskInv
  BY DEF FileInv
<1>2. PICK t \in Tables : \/ Settled(t)
                          \/ \E s \in Sectors, h \in Header : Creating(t, s, h)
                          \/ \E i \in 1..NumDirEntries : Removing(t, i)
  BY <1>1 DEF DiskInv
<1>3. ASSUME NEW s \in Sectors, NEW h \in Header, Creating(t, s, h)
      PROVE  FALSE
  <2>1. PICK n \in 0..3 : MidCreate(disk, todo, n, t, made, s, h, key)
    BY <1>3 DEF Creating
  <2>2. made \in 1..NumDirEntries
    BY <2>1 DEF MidCreate
  <2>3. todo # << >>
    BY <1>1, <2>1, <2>2, KeyIsKey, CreateWrites
  <2> QED
    BY <2>3
<1>4. ASSUME NEW i \in 1..NumDirEntries, Removing(t, i)
      PROVE  FALSE
  <2>1. PICK n \in 0..2 : MidRemove(disk, todo, n, t, i, key)
    BY <1>4 DEF Removing
  <2>2. todo # << >>
    BY <1>1, <2>1, KeyIsKey, RemoveWrites
  <2> QED
    BY <2>2
<1>5. Settled(t)
  BY <1>2, <1>3, <1>4
<1>6. Laid(disk, Taken(disk, t), t)
  BY <1>5 DEF Settled, Complete
<1> QED
  BY <1>5, <1>6, LaidIsRead, ReadNow

\* A write of a sector.
LEMMA WriteKeeps ==
    ASSUME FileInv, WriteSector, UNCHANGED cvars
    PROVE  FileInv'
<1>1. DiskTyped(disk) /\ CommandTyped /\ FormatInv /\ DiskInv /\ key \in Keys
  BY KeyIsKey DEF FileInv
<1>2. /\ todo # << >>
      /\ disk' = Written(disk, Head(todo)) /\ todo' = Tail(todo)
      /\ UNCHANGED << made, hdr, seekPosition >>
      /\ UNCHANGED << at, name, text, moved, printed, shown, commands >>
  BY DEF WriteSector, Written, Put, cvars
<1>3. CommandTyped' /\ key' = key
  BY <1>1, <1>2 DEF CommandTyped, key
<1>4. CASE at = "format"
  <2>1. PICK n \in 0..5 : MidFormat(disk, todo, n)
    BY <1>1, <1>4 DEF FormatInv
  <2>2. n # 5
    <3>1. SubSeq(Formatting, 6, 5) = << >>
      BY SubSeqEmpty
    <3> QED
      BY <1>2, <2>1, <3>1 DEF MidFormat
  <2>3. n \in 0..4 /\ n + 1 \in 0..5
    BY <2>2
  <2>4. DiskTyped(disk') /\ MidFormat(disk', todo', n + 1)
    BY <1>1, <1>2, <2>1, <2>3, FormatWrites
  <2>5. FormatInv' /\ DiskInv'
    BY <1>2, <1>4, <2>3, <2>4 DEF FormatInv, DiskInv
  <2> QED
    BY <1>3, <2>4, <2>5 DEF FileInv
<1>5. CASE at # "format"
  <2>1. PICK t \in Tables : \/ Settled(t)
                            \/ \E s \in Sectors, h \in Header : Creating(t, s, h)
                            \/ \E i \in 1..NumDirEntries : Removing(t, i)
    BY <1>1, <1>5 DEF DiskInv
  <2>2. FormatInv'
    BY <1>2, <1>5 DEF FormatInv
  <2>3. CASE Settled(t)
    <3>1. /\ Complete(disk, t)
          /\ at = "write" /\ todo \in Seq([sector : DataSectors(hdr), holds : Blocks])
          /\ made \in Used(t) /\ t[made].name = key /\ hdr = disk[t[made].sector]
          /\ hdr.length = Len(text)
      BY <1>2, <2>3 DEF Settled, OfCommand, WritesData, Has
    <3>2. Head(todo) \in [sector : DataSectors(hdr), holds : Blocks]
          /\ Tail(todo) \in Seq([sector : DataSectors(hdr), holds : Blocks])
      BY <1>2, <3>1, HeadTailProperties
    <3>3. Head(todo).sector \in DataSectors(disk[t[made].sector])
          /\ Head(todo).holds \in Blocks
      BY <3>1, <3>2
    <3>4. /\ DiskTyped(disk') /\ Complete(disk', t)
          /\ \A j \in Used(t) : disk'[t[j].sector] = disk[t[j].sector]
      <4>1. PICK x, v : x = Head(todo).sector /\ v = Head(todo).holds
        OBVIOUS
      <4>2. disk' = Put(disk, x, v)
        BY <1>2, <4>1 DEF Written
      <4>3. made \in Used(t) /\ x \in DataSectors(disk[t[made].sector]) /\ v \in Blocks
            /\ DiskTyped(disk) /\ Complete(disk, t)
        BY <1>1, <3>1, <3>3, <4>1
      <4> QED
        BY <4>2, <4>3, DataWritten
    <3>5. hdr' = disk'[t[made].sector] /\ Has(t)'
      BY <1>2, <1>3, <3>1, <3>4 DEF Has
    <3>6. WritesData'
      BY <1>2, <3>1, <3>2 DEF WritesData
    <3>7. Settled(t)'
      BY <1>2, <3>1, <3>4, <3>5, <3>6 DEF Settled, OfCommand
    <3>8. DiskInv'
      BY <3>7 DEF DiskInv
    <3> QED
      BY <1>3, <2>2, <3>4, <3>8 DEF FileInv
  <2>4. ASSUME NEW s \in Sectors, NEW h \in Header, Creating(t, s, h)
        PROVE  FileInv'
    <3>1. PICK n \in 0..3 : MidCreate(disk, todo, n, t, made, s, h, key)
      BY <2>4 DEF Creating
    <3>2. made \in 1..NumDirEntries /\ at \in {"open", "perfOpen"}
          /\ h.length = Wanted
      BY <2>4, <3>1 DEF MidCreate, Creating
    <3>3. /\ DiskTyped(disk')
          /\ n < 3 => MidCreate(disk', todo', n + 1, t, made, s, h, key)
          /\ n = 3 => /\ todo' = << >>
                      /\ Complete(disk', With(t, made, s, key))
                      /\ disk'[s] = h
      <4>1. DiskTyped(disk) /\ made \in 1..NumDirEntries /\ key \in Keys
        BY <1>1, <3>2
      <4>2. PICK e, k : e = Written(disk, Head(todo)) /\ k = key
        OBVIOUS
      <4>3. MidCreate(disk, todo, n, t, made, s, h, k) /\ k \in Keys
        BY <3>1, <4>1, <4>2
      <4>4. /\ DiskTyped(e)
            /\ n < 3 => MidCreate(e, Tail(todo), n + 1, t, made, s, h, k)
            /\ n = 3 => /\ Tail(todo) = << >>
                        /\ Complete(e, With(t, made, s, k))
                        /\ e[s] = h
        <5>1. DiskTyped(e)
          BY <4>1, <4>2, <4>3, CreateWrites
        <5>2. n < 3 => MidCreate(e, Tail(todo), n + 1, t, made, s, h, k)
          BY <4>1, <4>2, <4>3, CreateWrites
        <5>3. n = 3 => Tail(todo) = << >>
          BY <4>1, <4>2, <4>3, CreateWrites
        <5>4. n = 3 => Complete(e, With(t, made, s, k))
          BY <4>1, <4>2, <4>3, CreateWrites
        <5>5. n = 3 => e[s] = h
          BY <4>1, <4>2, <4>3, CreateWrites
        <5> QED
          BY <5>1, <5>2, <5>3, <5>4, <5>5
      <4> QED
        BY <1>2, <4>2, <4>4
    <3>4. CASE n < 3
      <4>1. n + 1 \in 0..3
        BY <3>4
      <4>2. MidCreate(disk, todo, n + 1, t, made, s, h, key)'
        BY <1>2, <1>3, <3>3, <3>4 DEF MidCreate, WritesOfCreate
      <4>3. Creating(t, s, h)'
        BY <1>2, <3>2, <4>1, <4>2 DEF Creating, Wanted
      <4>4. DiskInv'
        BY <4>3 DEF DiskInv
      <4> QED
        BY <1>3, <2>2, <3>3, <4>4 DEF FileInv
    <3>5. CASE n = 3
      <4> PICK w : w = With(t, made, s, key)
        OBVIOUS
      <4>1. /\ w \in Tables /\ made \in Used(w)
            /\ w[made] = [inUse |-> TRUE, sector |-> s, name |-> key]
        BY <1>1, <3>2, WithTable
      <4>2. todo' = << >> /\ Complete(disk', w) /\ disk'[s] = h
        BY <3>3, <3>5
      <4>3. Has(w)'
        BY <1>2, <1>3, <4>1 DEF Has
      <4>4. disk'[w[made].sector].length = Wanted'
        BY <1>2, <3>2, <4>1, <4>2 DEF Wanted
      <4>5. Settled(w)'
        BY <1>2, <3>2, <4>2, <4>3, <4>4 DEF Settled, WritesData, OfCommand
      <4>6. DiskInv'
        BY <4>1, <4>5 DEF DiskInv
      <4> QED
        BY <1>3, <2>2, <3>3, <4>6 DEF FileInv
    <3> QED
      BY <3>4, <3>5
  <2>5. ASSUME NEW i \in 1..NumDirEntries, Removing(t, i)
        PROVE  FileInv'
    <3>1. PICK n \in 0..2 : MidRemove(disk, todo, n, t, i, key)
      BY <2>5 DEF Removing
    <3>2. at = "removed" /\ made \in {0, i}
      BY <2>5 DEF Removing
    <3>3. /\ DiskTyped(disk')
          /\ n < 2 => MidRemove(disk', todo', n + 1, t, i, key)
          /\ n = 2 => todo' = << >> /\ Complete(disk', Without(t, i))
      BY <1>1, <1>2, <3>1, RemoveWrites
    <3>4. CASE n < 2
      <4>1. n + 1 \in 0..2
        BY <3>4
      <4>2. MidRemove(disk, todo, n + 1, t, i, key)'
        BY <1>2, <1>3, <3>3, <3>4 DEF MidRemove, WritesOfRemove
      <4>3. Removing(t, i)'
        BY <1>2, <3>2, <4>1, <4>2 DEF Removing
      <4>4. DiskInv'
        BY <4>3 DEF DiskInv
      <4> QED
        BY <1>3, <2>2, <3>3, <4>4 DEF FileInv
    <3>5. CASE n = 2
      <4>1. i \in Used(t) /\ t[i].name = key /\ Whole(disk, t)
        BY <3>1 DEF MidRemove
      <4> PICK w : w = Without(t, i)
        OBVIOUS
      <4>2. /\ w \in Tables /\ Used(w) = Used(t) \ {i}
            /\ \A j \in 1..NumDirEntries : w[j].name = t[j].name
        BY <4>1, WithoutTable
      <4>3. \A j \in Used(w) : j \in Used(t) /\ j \in 1..NumDirEntries /\ j # i
        BY <4>2 DEF Used, Tables
      <4>4. made \notin Used(w) /\ \A j \in Used(w) : w[j].name # key
        BY <3>2, <4>1, <4>2, <4>3 DEF Whole
      <4>5. OfCommand(w)'
        BY <1>2, <1>3, <3>2, <4>4 DEF OfCommand
      <4>6. Settled(w)'
        BY <1>2, <3>3, <3>5, <4>5 DEF Settled, WritesData
      <4>7. DiskInv'
        BY <4>2, <4>6 DEF DiskInv
      <4> QED
        BY <1>3, <2>2, <3>3, <4>7 DEF FileInv
    <3> QED
      BY <3>4, <3>5
  <2> QED
    BY <2>1, <2>3, <2>4, <2>5
<1> QED
  BY <1>4, <1>5

\* A step that writes nothing and opens nothing.
LEMMA ReadOnlyKeeps ==
    ASSUME FileInv, at # "format", todo = << >>, UNCHANGED << disk, todo >>,
           CommandTyped', at' # "format",
           \A t \in Tables : Settled(t) /\ Table = t => OfCommand(t)'
    PROVE  FileInv'
<1>1. PICK t \in Tables : Settled(t) /\ Table = t
  BY NothingToWrite
<1>2. Complete(disk, t)
  BY <1>1 DEF Settled
<1>3. OfCommand(t)'
  BY <1>1
<1>4. Settled(t)'
  BY <1>2, <1>3 DEF Settled, WritesData
<1>5. DiskInv' /\ FormatInv' /\ DiskTyped(disk')
  BY <1>4 DEF DiskInv, FormatInv, FileInv
<1> QED
  BY <1>5 DEF FileInv

\* Create begins.
LEMMA CreateKeeps ==
    ASSUME FileInv, at # "format", todo = << >>, NEW size \in Nat, Create(key, size),
           CommandTyped', UNCHANGED name, at' \in {"open", "perfOpen"}, size = Wanted'
    PROVE  FileInv'
<1> PICK s : s = FirstClear(FreeMap)
  OBVIOUS
<1> PICK m : m = Mark(FreeMap, s)
  OBVIOUS
<1> PICK h : h = Allocate(m, size)
  OBVIOUS
<1> PICK i : i = FirstUnused(Table)
  OBVIOUS
<1>1. PICK t \in Tables : Settled(t) /\ Table = t /\ FreeMap = Taken(disk, t)
  BY NothingToWrite
<1>2. /\ Find(t, key) = NoSector
      /\ s # NoSector /\ i # 0 /\ NumClear(m) >= NumDataSectors(size)
      /\ made' = i
      /\ todo' = << To(s, h) >> \o DirectoryWriteBack(AddEntry(t, key, s))
                   \o FreeMapWriteBack(m \cup DataSectors(h))
      /\ UNCHANGED << disk, hdr, seekPosition >>
  BY <1>1 DEF Create, CanCreate
<1>3. /\ i \in 1..NumDirEntries /\ ~t[i].inUse
      /\ \A j \in 1..NumDirEntries : j < i => t[j].inUse
  BY <1>1, <1>2, FirstUnusedIsUnused
<1>4. s \in Sectors \ Taken(disk, t) /\ m = Taken(disk, t) \cup {s}
  BY <1>1, <1>2, FirstClearIsClear DEF Mark
<1>5. h \in Header /\ h.length = size /\ DataSectors(h) \cap m = {}
  BY <1>2, AllocateTakesClear
<1>6. Complete(disk, t) /\ Whole(disk, t) /\ Laid(disk, Taken(disk, t), t)
      /\ DiskTyped(disk) /\ key' = key
  BY <1>1 DEF Settled, Complete, FileInv, key
<1>7. \A j \in Used(t) : t[j].name # key
  <2>1. CASE FindIndex(t, key) = 0
    BY <2>1, FindIndexFinds
  <2>2. CASE FindIndex(t, key) # 0
    <3>1. FindIndex(t, key) \in Used(t)
      BY <2>2, FindIndexFinds
    <3>2. Find(t, key) = t[FindIndex(t, key)].sector
      BY <2>2 DEF Find
    <3>3. t[FindIndex(t, key)].sector \in Sectors /\ NoSector \notin Sectors
      BY <1>6, <3>1, HeadersElsewhere DEF Sectors, NoSector
    <3> QED
      BY <1>2, <3>2, <3>3
  <2> QED
    BY <2>1, <2>2
<1>8. /\ MapSector = MapSec /\ DirSector(1) = Dir1 /\ DirSector(2) = Dir2
  BY <1>6 DEF Laid, MapSector, DirSector, MapSec, Dir1, Dir2
<1>9. AddEntry(t, key, s) = With(t, i, s, key)
  BY <1>1 DEF AddEntry, With
<1>10. todo' = WritesOfCreate(disk, t, i, s, h, key)
  <2>1. DirectoryWriteBack(AddEntry(t, key, s))
          = << To(Dir1, FirstPart(With(t, i, s, key))),
               To(Dir2, SecondPart(With(t, i, s, key))) >>
    BY <1>8, <1>9 DEF DirectoryWriteBack
  <2>2. FreeMapWriteBack(m \cup DataSectors(h))
          = << To(MapSec, [marked |-> Taken(disk, t) \cup ({s} \cup DataSectors(h))]) >>
    <3>1. m \cup DataSectors(h) = Taken(disk, t) \cup ({s} \cup DataSectors(h))
      BY <1>4
    <3> QED
      BY <1>8, <3>1 DEF FreeMapWriteBack
  <2>3. PICK a, b, c, e : /\ a = To(s, h)
                          /\ b = To(Dir1, FirstPart(With(t, i, s, key)))
                          /\ c = To(Dir2, SecondPart(With(t, i, s, key)))
                          /\ e = To(MapSec, [marked |-> Taken(disk, t)
                                                \cup ({s} \cup DataSectors(h))])
    OBVIOUS
  <2>4. todo' = << a >> \o << b, c >> \o << e >>
    BY <1>2, <2>1, <2>2, <2>3
  <2>5. todo' = << a, b, c, e >>
    BY <2>4, JoinedWrites
  <2> QED
    BY <2>3, <2>5 DEF WritesOfCreate
<1>11. todo' = SubSeq(WritesOfCreate(disk, t, i, s, h, key), 1, 4)
  <2> DEFINE w == WritesOfCreate(disk, t, i, s, h, key)
  <2>1. w \in Seq(Range(w)) /\ Len(w) = 4
    BY FourWrites DEF WritesOfCreate
  <2> HIDE DEF w
  <2>2. SubSeq(w, 1, 4) = w
    BY <2>1, SubSeqFull
  <2> QED
    BY <1>10, <2>2 DEF w
<1>12. s \notin DataSectors(h) /\ ({s} \cup DataSectors(h)) \cap Taken(disk, t) = {}
  BY <1>4, <1>5
<1>13. MidCreate(disk, todo', 0, t, i, s, h, key)
  BY <1>3, <1>6, <1>7, <1>11, <1>12 DEF MidCreate
<1>14. MidCreate(disk, todo, 0, t, made, s, h, key)'
  BY <1>2, <1>6, <1>13 DEF MidCreate, WritesOfCreate
<1>15. Creating(t, s, h)'
  BY <1>5, <1>14 DEF Creating
<1>16. DiskInv'
  BY <1>4, <1>5, <1>15 DEF DiskInv
<1>17. FormatInv' /\ DiskTyped(disk')
  BY <1>2, <1>6 DEF FormatInv
<1> QED
  BY <1>16, <1>17 DEF FileInv

\* RemoveFile begins.
LEMMA RemoveKeeps ==
    ASSUME FileInv, at # "format", todo = << >>, RemoveFile(key),
           CommandTyped', UNCHANGED name, at \in {"remove", "perfRemove"}, at' = "removed"
    PROVE  FileInv'
<1> PICK i : i = FindIndex(Table, key)
  OBVIOUS
<1> PICK s : s = Find(Table, key)
  OBVIOUS
<1> PICK m : m = Clear(Deallocate(FreeMap, disk[s]), s)
  OBVIOUS
<1>1. PICK t \in Tables : Settled(t) /\ Table = t /\ FreeMap = Taken(disk, t)
  BY NothingToWrite
<1>2. /\ s # NoSector
      /\ todo' = FreeMapWriteBack(m) \o DirectoryWriteBack(RemoveEntry(t, key))
      /\ UNCHANGED << disk, made, hdr, seekPosition >>
  BY <1>1 DEF RemoveFile
<1>3. i \in Used(t) /\ t[i].name = key /\ s = t[i].sector
  <2>1. FindIndex(t, key) # 0
    BY <1>1, <1>2 DEF Find
  <2> QED
    BY <1>1, <2>1, FindIndexFinds DEF Find
<1>4. Whole(disk, t) /\ Laid(disk, Taken(disk, t), t) /\ DiskTyped(disk) /\ key' = key
  BY <1>1 DEF Settled, Complete, FileInv, key
<1>5. m = Taken(disk, Without(t, i))
  <2>1. m = Taken(disk, t) \ Owned(disk, t[i])
    BY <1>1, <1>3 DEF Clear, Deallocate, Owned
  <2>2. i \in Used(t) /\ Whole(disk, t)
    BY <1>3, <1>4
  <2>3. Taken(disk, Without(t, i)) = Taken(disk, t) \ Owned(disk, t[i])
    BY <2>2, WholeWithout
  <2> QED
    BY <2>1, <2>3
<1>6. RemoveEntry(t, key) = Without(t, i)
  BY <1>1 DEF RemoveEntry, Without
<1>7. MapSector = MapSec /\ DirSector(1) = Dir1 /\ DirSector(2) = Dir2
  BY <1>4 DEF Laid, MapSector, DirSector, MapSec, Dir1, Dir2
<1>8. todo' = WritesOfRemove(disk, t, i)
  <2>1. PICK a, b, c : /\ a = To(MapSec, [marked |-> Taken(disk, Without(t, i))])
                       /\ b = To(Dir1, FirstPart(Without(t, i)))
                       /\ c = To(Dir2, SecondPart(Without(t, i)))
    OBVIOUS
  <2>2. todo' = << a >> \o << b, c >>
    BY <1>2, <1>5, <1>6, <1>7, <2>1 DEF FreeMapWriteBack, DirectoryWriteBack
  <2>3. todo' = << a, b, c >>
    BY <2>2, JoinedWrites
  <2> QED
    BY <2>1, <2>3 DEF WritesOfRemove
<1>9. todo' = SubSeq(WritesOfRemove(disk, t, i), 1, 3)
  <2> DEFINE w == WritesOfRemove(disk, t, i)
  <2>1. w \in Seq(Range(w)) /\ Len(w) = 3
    BY ThreeWrites DEF WritesOfRemove
  <2> HIDE DEF w
  <2>2. SubSeq(w, 1, 3) = w
    BY <2>1, SubSeqFull
  <2> QED
    BY <1>8, <2>2 DEF w
<1>10. MidRemove(disk, todo', 0, t, i, key)
  BY <1>3, <1>4, <1>9 DEF MidRemove
<1>11. MidRemove(disk, todo, 0, t, i, key)'
  BY <1>2, <1>4, <1>10 DEF MidRemove, WritesOfRemove
<1>12. Removing(t, i)'
  <2>1. made = 0 \/ (made \in Used(t) /\ t[made].name = key)
    BY <1>1 DEF Settled, OfCommand, Has, FileInv, CommandTyped
  <2>2. made \in {0, i}
    BY <1>3, <1>4, <2>1 DEF Whole
  <2> QED
    BY <1>2, <1>11, <2>2 DEF Removing
<1>13. i \in 1..NumDirEntries
  BY <1>3, FindIndexFinds
<1>14. DiskInv'
  BY <1>12, <1>13 DEF DiskInv
<1>15. FormatInv' /\ DiskTyped(disk')
  BY <1>2, <1>4 DEF FormatInv
<1> QED
  BY <1>14, <1>15 DEF FileInv

\* OpenFile has the header of the file of that name.
LEMMA OpenFinds ==
    ASSUME FileInv, Open(key), NEW t \in Tables, Settled(t), Table = t
    PROVE  /\ hdr' \in Header /\ seekPosition' \in 0..hdr'.length
           /\ UNCHANGED << disk, todo, made >>
           /\ \E i \in Used(t) : t[i].name = key /\ hdr' = disk[t[i].sector]
<1> PICK i : i = FindIndex(t, key)
  OBVIOUS
<1>1. /\ Find(t, key) # NoSector
      /\ hdr' = disk[Find(t, key)] /\ seekPosition' = 0
      /\ UNCHANGED << disk, todo, made >>
  BY DEF Open
<1>2. i # 0 /\ Find(t, key) = t[i].sector
  BY <1>1 DEF Find
<1>3. i \in Used(t) /\ t[i].name = key
  BY <1>2, FindIndexFinds
<1>4. disk[t[i].sector] \in Header
  BY <1>3 DEF Settled, Complete, Whole, IsFile
<1>5. hdr' \in Header /\ hdr'.length \in Nat
  BY <1>1, <1>2, <1>4 DEF Header
<1>6. seekPosition' \in 0..hdr'.length
  BY <1>1, <1>5
<1> QED
  BY <1>1, <1>2, <1>3, <1>5, <1>6

\* Right after Create, that is the file that has been made.
LEMMA OpenFindsMade ==
    ASSUME FileInv, Open(key), NEW t \in Tables, Settled(t), Table = t, Has(t)
    PROVE  hdr' = disk[t[made].sector]
<1>1. PICK i \in Used(t) : t[i].name = key /\ hdr' = disk[t[i].sector]
  BY OpenFinds
<1>2. made \in Used(t) /\ t[made].name = key /\ Whole(disk, t)
  BY DEF Has, Settled, Complete
<1>3. i = made
  BY <1>1, <1>2 DEF Whole
<1> QED
  BY <1>1, <1>3

LEMMA EndTyped ==
    ASSUME CommandTyped, NEW r, End(r)
    PROVE  CommandTyped' /\ UNCHANGED << disk, todo >> /\ at' = "idle"
<1>1. /\ made' = 0 /\ hdr' = NoHeader /\ seekPosition' = 0 /\ UNCHANGED << disk, todo >>
      /\ at' = "idle" /\ name' = TestFile /\ text' = << >> /\ moved' = 0
      /\ printed' = << >> /\ commands' = commands
  BY DEF End, Close
<1>2. << >> \in Seq(Bytes) /\ TestFile \in Names /\ NumDirEntries \in Nat
  BY FileSystemAssumption, FileTestAssumption
<1> QED
  BY <1>1, <1>2, NoHeaderIsHeader DEF CommandTyped, Points

LEMMA EndKeeps ==
    ASSUME FileInv, at # "format", todo = << >>, NEW r, End(r)
    PROVE  FileInv'
<1>1. CommandTyped' /\ UNCHANGED << disk, todo >> /\ at' = "idle"
  BY EndTyped DEF FileInv
<1>2. \A t \in Tables : OfCommand(t)'
  BY <1>1 DEF OfCommand
<1> QED
  BY <1>1, <1>2, ReadOnlyKeeps

LEMMA MountedKeeps ==
    ASSUME FileInv, Mounted
    PROVE  FileInv'
<1>1. at = "format" /\ todo = << >> /\ End(shown)
  BY DEF Mounted, At
<1>2. CommandTyped' /\ UNCHANGED << disk, todo >> /\ at' = "idle"
  BY <1>1, EndTyped DEF FileInv
<1>3. PICK n \in 0..5 : MidFormat(disk, << >>, n)
  BY <1>1 DEF FileInv, FormatInv
<1>4. EmptyDirectory \in Tables /\ Complete(disk, EmptyDirectory)
  BY <1>3, FormatDone DEF FileInv
<1>5. PICK t \in Tables : Complete(disk, t)
  BY <1>4
<1>6. Settled(t)'
  BY <1>1, <1>2, <1>5 DEF Settled, WritesData, OfCommand
<1> QED
  BY <1>2, <1>6 DEF FileInv, DiskInv, FormatInv

\* The next statement is another one; the files are what they are.
LEMMA GotoTyped ==
    ASSUME CommandTyped, UNCHANGED << made, hdr, seekPosition >>,
           NEW point \in {"removed", "perfReopen", "perfRemove"}, Goto(point)
    PROVE  CommandTyped' /\ at' = point /\ name' = name
BY DEF CommandTyped, Goto, Points

LEMMA StartKeeps ==
    ASSUME FileInv, Start
    PROVE  FileInv'
<1>1. ASSUME NEW point \in {"create", "printOpen", "remove", "perfCreate"},
             NEW n \in Names, NEW t \in Texts \cup {<< >>}, Begin(point, n, t),
             point = "create" => t \in Texts
      PROVE  FileInv'
  <2>1. /\ at = "idle" /\ todo = << >> /\ commands < MaxCommands
        /\ commands' = commands + 1 /\ at' = point /\ name' = n /\ text' = t
        /\ UNCHANGED << disk, todo, made, hdr, seekPosition, moved, printed >>
    BY <1>1 DEF Begin, At, fsvars
  <2>2. commands' \in 0..MaxCommands
    BY <2>1, FileTestAssumption DEF FileInv, CommandTyped
  <2>3. CommandTyped'
    BY <1>1, <2>1, <2>2 DEF FileInv, CommandTyped, Points
  <2>4. \A u \in Tables : OfCommand(u)'
    BY <1>1, <2>1 DEF OfCommand
  <2> QED
    BY <1>1, <2>1, <2>3, <2>4, ReadOnlyKeeps
<1>2. TestFile \in Names
  BY FileTestAssumption
<1> QED
  BY <1>1, <1>2 DEF Start

\* Create, as the commands call it.
LEMMA CreateTyped ==
    ASSUME FileInv, at # "format", todo = << >>, NEW size, Create(key, size),
           NEW point \in {"open", "perfOpen"}, Goto(point), point = "open" => at = "create"
    PROVE  CommandTyped' /\ at' = point /\ name' = name
<1>1. PICK t \in Tables : Table = t
  BY NothingToWrite
<1>2. made' = FirstUnused(t) /\ FirstUnused(t) # 0 /\ UNCHANGED << hdr, seekPosition >>
  BY <1>1 DEF Create, CanCreate
<1>3. made' \in 1..NumDirEntries
  BY <1>2, FirstUnusedIsUnused
<1>4. NumDirEntries \in Nat
  BY FileSystemAssumption
<1> QED
  BY <1>2, <1>3, <1>4 DEF FileInv, CommandTyped, Goto, Points

LEMMA TextIsBytes ==
    ASSUME CommandTyped
    PROVE  text \in Seq(Bytes)
<1> DEFINE T == UNION {Range(t) : t \in Texts}
<1>1. Texts \subseteq Seq(T) /\ Bytes = T \cup {Junk}
  BY FileTestAssumption DEF Bytes
<1> HIDE DEF T
<1>2. \A s \in Seq(T) : s \in Seq(Bytes)
  BY <1>1, SeqMonotonic
<1>3. << >> \in Seq(Bytes)
  OBVIOUS
<1> QED
  BY <1>1, <1>2, <1>3 DEF CommandTyped

LEMMA CopyKeeps ==
    ASSUME FileInv, Copy
    PROVE  FileInv'
<1>1. DiskTyped(disk) /\ CommandTyped
  BY DEF FileInv
<1>2. CASE CopyCreate
  <2>1. at = "create" /\ todo = << >>
    BY <1>2 DEF CopyCreate, At
  <2>2. CASE Create(key, Len(text)) /\ Goto("open")
    <3>1. CommandTyped' /\ at' = "open" /\ name' = name
      BY <2>1, <2>2, CreateTyped
    <3>2. Len(text) \in Nat
      BY <1>1, TextIsBytes
    <3>3. Len(text) = Wanted'
      BY <2>2, <3>1 DEF Wanted, Goto
    <3> QED
      BY <2>1, <2>2, <3>1, <3>2, <3>3, CreateKeeps
  <2>3. CASE ~CanCreate(key, Len(text)) /\ End(shown)
    BY <2>1, <2>3, EndKeeps
  <2> QED
    BY <1>2, <2>2, <2>3 DEF CopyCreate
<1>3. CASE CopyOpen
  <2>1. at = "open" /\ todo = << >> /\ Open(key) /\ Goto("write")
    BY <1>3 DEF CopyOpen, At
  <2>2. PICK t \in Tables : Settled(t) /\ Table = t
    BY <2>1, NothingToWrite
  <2>3. Has(t) /\ Complete(disk, t) /\ disk[t[made].sector].length = Len(text)
    BY <2>1, <2>2 DEF Settled, OfCommand, Wanted
  <2>4. /\ hdr' \in Header /\ seekPosition' \in 0..hdr'.length
        /\ UNCHANGED << disk, todo, made >>
        /\ hdr' = disk[t[made].sector]
    BY <2>1, <2>2, <2>3, OpenFinds, OpenFindsMade
  <2>5. at' = "write" /\ UNCHANGED << name, text, moved, printed, commands >>
    BY <2>1 DEF Goto
  <2>6. CommandTyped' /\ key' = key
    BY <1>1, <2>1, <2>4, <2>5 DEF CommandTyped, Points, key
  <2>7. Settled(t)'
    BY <2>1, <2>3, <2>4, <2>5, <2>6 DEF Settled, WritesData, OfCommand, Has
  <2> QED
    BY <1>1, <2>4, <2>5, <2>6, <2>7 DEF FileInv, DiskInv, FormatInv
<1>4. CASE CopyWrite
  <2> DEFINE last == Min({moved + TransferSize, Len(text)})
  <2> PICK transfer : transfer = SubSeq(text, moved + 1, last)
    OBVIOUS
  <2>1. /\ at = "write" /\ todo = << >> /\ transfer # << >> /\ Write(transfer)
        /\ moved' = moved + Len(transfer)
        /\ UNCHANGED << at, name, text, printed, commands >>
    BY <1>4 DEF CopyWrite, At
  <2>2. transfer \in Seq(Bytes)
    <3>1. text \in Seq(Bytes) /\ Len(text) \in Nat /\ moved \in Nat /\ TransferSize \in Nat
      BY <1>1, TextIsBytes, FileTestAssumption DEF CommandTyped
    <3>2. {moved + TransferSize, Len(text)} \in SUBSET Nat
      BY <3>1
    <3>3. last \in Nat /\ last <= Len(text)
      BY <3>1, <3>2, MinOfNumbers
    <3> HIDE DEF last
    <3>4. \A i \in (moved + 1)..last : text[i] \in Bytes
      <4>1. \A i \in (moved + 1)..last : i \in 1..Len(text)
        BY <3>1, <3>3
      <4> QED
        BY <3>1, <4>1, LenProperties
    <3> QED
      BY <3>1, <3>3, <3>4, SubSeqProperties
  <2>3. PICK t \in Tables : Settled(t) /\ Table = t
    BY <2>1, NothingToWrite
  <2>4. /\ Complete(disk, t) /\ Has(t) /\ hdr = disk[t[made].sector]
        /\ hdr.length = Len(text)
    BY <2>1, <2>3 DEF Settled, OfCommand
  <2>5. /\ todo' = WriteAt(hdr, transfer, seekPosition)
        /\ seekPosition' = seekPosition + Clip(hdr, Len(transfer), seekPosition)
        /\ UNCHANGED << disk, made, hdr >>
    BY <2>1 DEF Write
  <2>6. hdr \in Header /\ seekPosition \in 0..hdr.length /\ Len(transfer) \in Nat
        /\ moved \in Nat
    BY <1>1, <2>2 DEF CommandTyped
  <2>7. todo' \in Seq([sector : DataSectors(hdr), holds : Blocks])
    BY <1>1, <2>2, <2>5, <2>6, WriteAtIsToFile
  <2>8. seekPosition' \in 0..hdr.length
    <3>1. seekPosition + Clip(hdr, Len(transfer), seekPosition) \in 0..hdr.length
      BY <2>6, ClipIsLeft
    <3> QED
      BY <2>5, <3>1
  <2>9. moved' \in Nat /\ key' = key
    <3>1. moved' = moved + Len(transfer)
      BY <2>1
    <3>2. PICK m \in Nat, n \in Nat : m = moved /\ n = Len(transfer)
      BY <2>6
    <3>3. m + n \in Nat
      OBVIOUS
    <3>4. moved' \in Nat
      BY <3>1, <3>2, <3>3
    <3> QED
      BY <2>1, <3>4 DEF key
  <2>10. CommandTyped'
    BY <1>1, <2>1, <2>5, <2>8, <2>9 DEF CommandTyped
  <2>11. WritesData'
    BY <2>1, <2>5, <2>7 DEF WritesData
  <2>12. Settled(t)'
    BY <2>1, <2>4, <2>5, <2>9, <2>11 DEF Settled, OfCommand, Has
  <2> QED
    BY <1>1, <2>1, <2>5, <2>10, <2>12 DEF FileInv, DiskInv, FormatInv
<1>5. CASE CopyEnd
  BY <1>5, EndKeeps DEF CopyEnd, At
<1> QED
  BY <1>2, <1>3, <1>4, <1>5 DEF Copy

LEMMA PrintKeeps ==
    ASSUME FileInv, PrintFile
    PROVE  FileInv'
<1>1. DiskTyped(disk) /\ CommandTyped
  BY DEF FileInv
<1>2. CASE PrintOpen
  <2>1. at = "printOpen" /\ todo = << >>
    BY <1>2 DEF PrintOpen, At
  <2>2. CASE Open(key) /\ Goto("read")
    <3>1. PICK t \in Tables : Settled(t) /\ Table = t
      BY <2>1, NothingToWrite
    <3>2. /\ hdr' \in Header /\ seekPosition' \in 0..hdr'.length
          /\ UNCHANGED << disk, todo, made >>
      BY <2>2, <3>1, OpenFinds
    <3>3. at' = "read" /\ UNCHANGED << name, text, moved, printed, commands >>
      BY <2>2 DEF Goto
    <3>4. CommandTyped' /\ key' = key
      BY <1>1, <2>1, <3>2, <3>3 DEF CommandTyped, Points, key
    <3>5. ASSUME NEW u \in Tables, Settled(u), Table = u
          PROVE  OfCommand(u)'
      <4>1. \E i \in Used(u) : u[i].name = key /\ hdr' = disk[u[i].sector]
        BY <2>2, <3>5, OpenFinds
      <4> QED
        BY <3>2, <3>3, <3>4, <4>1 DEF OfCommand
    <3> QED
      BY <2>1, <3>2, <3>3, <3>4, <3>5, ReadOnlyKeeps
  <2>3. CASE Find(Table, key) = NoSector /\ End(shown)
    BY <2>1, <2>3, EndKeeps
  <2> QED
    BY <1>2, <2>2, <2>3 DEF PrintOpen
<1>3. CASE PrintRead
  <2> PICK transfer : transfer = ReadAt(hdr, TransferSize, seekPosition)
    OBVIOUS
  <2>1. /\ at = "read" /\ todo = << >> /\ Read(TransferSize)
        /\ printed' = printed \o transfer
        /\ UNCHANGED << at, name, text, moved, commands >>
    BY <1>3 DEF PrintRead, At
  <2>2. /\ seekPosition' = seekPosition + Clip(hdr, TransferSize, seekPosition)
        /\ UNCHANGED << disk, todo, made, hdr >>
    BY <2>1 DEF Read
  <2>3. hdr \in Header /\ seekPosition \in 0..hdr.length /\ TransferSize \in Nat
        /\ printed \in Seq(Bytes)
    BY <1>1, FileTestAssumption DEF CommandTyped
  <2>4. transfer \in Seq(Bytes)
    BY <1>1, <2>3, ReadAtIsBytes
  <2>5. printed' \in Seq(Bytes)
    BY <2>1, <2>3, <2>4, ConcatProperties
  <2>6. seekPosition' \in 0..hdr.length
    BY <2>2, <2>3, ClipIsLeft
  <2>7. CommandTyped'
    BY <1>1, <2>1, <2>2, <2>5, <2>6 DEF CommandTyped
  <2>8. ASSUME NEW u \in Tables, Settled(u)
        PROVE  OfCommand(u)'
    <3>1. key' = key
      BY <2>1 DEF key
    <3>2. \E i \in Used(u) : u[i].name = key /\ hdr = disk[u[i].sector]
      BY <2>1, <2>8 DEF Settled, OfCommand
    <3> QED
      BY <2>1, <2>2, <3>1, <3>2 DEF OfCommand
  <2> QED
    BY <2>1, <2>2, <2>7, <2>8, ReadOnlyKeeps
<1>4. CASE PrintEnd
  BY <1>4, EndKeeps DEF PrintEnd, At
<1> QED
  BY <1>2, <1>3, <1>4 DEF PrintFile

\* RemoveFile, as the commands call it.
LEMMA RemovedKeeps ==
    ASSUME FileInv, at \in {"remove", "perfRemove"}, todo = << >>, RemoveFile(key),
           Goto("removed")
    PROVE  FileInv'
<1>1. UNCHANGED << made, hdr, seekPosition >>
  BY DEF RemoveFile
<1>2. CommandTyped' /\ at' = "removed" /\ name' = name
  BY <1>1, GotoTyped DEF FileInv
<1> QED
  BY <1>2, RemoveKeeps

LEMMA RemoveOptionKeeps ==
    ASSUME FileInv, RemoveOption
    PROVE  FileInv'
BY RemovedKeeps, EndKeeps DEF RemoveOption, At

\* PerformanceTest goes on to its next part.
LEMMA PerfNextKeeps ==
    ASSUME FileInv, at \in {"perfWrite", "perfRead"}, todo = << >>,
           NEW point \in {"perfReopen", "perfRemove"},
           PerfNext(point)
    PROVE  FileInv'
<1>1. /\ hdr' = NoHeader /\ seekPosition' = 0 /\ moved' = 0 /\ at' = point
      /\ UNCHANGED << disk, todo, made, name, text, printed, commands >>
  BY DEF PerfNext
<1>2. CommandTyped'
  BY <1>1, NoHeaderIsHeader DEF FileInv, CommandTyped, Points
<1>3. ASSUME NEW u \in Tables, Settled(u)
      PROVE  OfCommand(u)'
  <2>1. made = 0 \/ Has(u)
    BY <1>3 DEF Settled, OfCommand
  <2>2. made' = 0 \/ Has(u)'
    BY <1>1, <2>1 DEF Has, key
  <2> QED
    BY <1>1, <2>2 DEF OfCommand
<1> QED
  BY <1>1, <1>2, <1>3, ReadOnlyKeeps

LEMMA GotoKeeps ==
    ASSUME FileInv, at \in {"perfCreate", "perfReopen"}, todo = << >>,
           NEW point \in {"perfReopen", "perfRemove"},
           UNCHANGED fsvars, Goto(point)
    PROVE  FileInv'
<1>1. UNCHANGED << disk, todo, made, hdr, seekPosition >>
  BY DEF fsvars
<1>2. CommandTyped' /\ at' = point /\ name' = name
  BY <1>1, GotoTyped DEF FileInv
<1>3. ASSUME NEW u \in Tables, Settled(u)
      PROVE  OfCommand(u)'
  <2>1. made = 0 \/ Has(u)
    BY <1>3 DEF Settled, OfCommand, FileInv, CommandTyped
  <2>2. made' = 0 \/ Has(u)'
    BY <1>1, <1>2, <2>1 DEF Has, key
  <2> QED
    BY <1>2, <2>2 DEF OfCommand
<1> QED
  BY <1>1, <1>2, <1>3, ReadOnlyKeeps

LEMMA FileWriteKeeps ==
    ASSUME FileInv, FileWrite
    PROVE  FileInv'
<1>1. DiskTyped(disk) /\ CommandTyped
  BY DEF FileInv
<1>2. CASE At("perfCreate")
  <2>1. at = "perfCreate" /\ todo = << >>
    BY <1>2 DEF At
  <2>2. CASE Create(key, 0) /\ Goto("perfOpen")
    <3>1. CommandTyped' /\ at' = "perfOpen" /\ name' = name
      BY <2>1, <2>2, CreateTyped
    <3>2. 0 = Wanted'
      BY <3>1 DEF Wanted
    <3> QED
      BY <2>1, <2>2, <3>1, <3>2, CreateKeeps
  <2>3. CASE UNCHANGED fsvars /\ Goto("perfReopen")
    BY <2>1, <2>3, GotoKeeps
  <2> QED
    BY <2>1, <2>2, <2>3 DEF FileWrite, At
<1>3. CASE At("perfOpen")
  <2>1. at = "perfOpen" /\ todo = << >> /\ Open(key) /\ Goto("perfWrite")
    BY <1>3 DEF FileWrite, At
  <2>2. PICK t \in Tables : Settled(t) /\ Table = t
    BY <2>1, NothingToWrite
  <2>3. Has(t) /\ disk[t[made].sector].length = 0
    BY <2>1, <2>2 DEF Settled, OfCommand, Wanted
  <2>4. /\ hdr' \in Header /\ seekPosition' \in 0..hdr'.length
        /\ UNCHANGED << disk, todo, made >>
        /\ hdr' = disk[t[made].sector]
    BY <2>1, <2>2, <2>3, OpenFinds, OpenFindsMade
  <2>5. at' = "perfWrite" /\ UNCHANGED << name, text, moved, printed, commands >>
    BY <2>1 DEF Goto
  <2>6. CommandTyped'
    BY <1>1, <2>3, <2>4, <2>5 DEF CommandTyped, Points
  <2>7. ASSUME NEW u \in Tables, Settled(u)
        PROVE  OfCommand(u)'
    <3>1. Has(u)
      BY <2>1, <2>7 DEF Settled, OfCommand
    <3>2. Has(u)'
      BY <2>4, <2>5, <3>1 DEF Has, key
    <3> QED
      BY <2>5, <3>2 DEF OfCommand
  <2> QED
    BY <2>1, <2>4, <2>5, <2>6, <2>7, ReadOnlyKeeps
<1>4. CASE At("perfWrite")
  <2>1. at = "perfWrite" /\ todo = << >>
    BY <1>4 DEF At
  <2>2. Clip(hdr, Len(Contents), seekPosition) = 0
    BY <1>1, <2>1 DEF CommandTyped, Clip
  <2>3. Len(Contents) # 0
    BY FileTestAssumption
  <2>4. PerfNext("perfReopen")
    BY <2>1, <2>2, <2>3 DEF FileWrite, At
  <2> QED
    BY <2>1, <2>4, PerfNextKeeps
<1> QED
  BY <1>2, <1>3, <1>4 DEF FileWrite

LEMMA FileReadKeeps ==
    ASSUME FileInv, FileRead
    PROVE  FileInv'
<1>1. DiskTyped(disk) /\ CommandTyped
  BY DEF FileInv
<1>2. CASE At("perfReopen")
  <2>1. at = "perfReopen" /\ todo = << >>
    BY <1>2 DEF At
  <2>2. CASE Open(key) /\ Goto("perfRead")
    <3>1. PICK t \in Tables : Settled(t) /\ Table = t
      BY <2>1, NothingToWrite
    <3>2. /\ hdr' \in Header /\ seekPosition' \in 0..hdr'.length
          /\ UNCHANGED << disk, todo, made >>
      BY <2>2, <3>1, OpenFinds
    <3>3. at' = "perfRead" /\ UNCHANGED << name, text, moved, printed, commands >>
      BY <2>2 DEF Goto
    <3>4. CommandTyped'
      BY <1>1, <3>2, <3>3 DEF CommandTyped, Points
    <3>5. ASSUME NEW u \in Tables, Settled(u)
          PROVE  OfCommand(u)'
      <4>1. made = 0 \/ Has(u)
        BY <2>1, <3>5 DEF Settled, OfCommand
      <4>2. made' = 0 \/ Has(u)'
        BY <3>2, <3>3, <4>1 DEF Has, key
      <4> QED
        BY <3>3, <4>2 DEF OfCommand
    <3> QED
      BY <2>1, <3>2, <3>3, <3>4, <3>5, ReadOnlyKeeps
  <2>3. CASE UNCHANGED fsvars /\ Goto("perfRemove")
    BY <2>1, <2>3, GotoKeeps
  <2> QED
    BY <2>1, <2>2, <2>3 DEF FileRead, At
<1>3. CASE At("perfRead")
  <2>1. at = "perfRead" /\ todo = << >>
    BY <1>3 DEF At
  <2>2. CASE /\ Read(Len(Contents))
             /\ moved' = moved + Len(Contents)
             /\ UNCHANGED << at, name, text, printed, shown, commands >>
    <3>1. Len(Contents) \in Nat
      BY FileTestAssumption
    <3>2. hdr \in Header /\ seekPosition \in 0..hdr.length /\ moved \in Nat
      BY <1>1 DEF CommandTyped
    <3>3. /\ seekPosition' = seekPosition + Clip(hdr, Len(Contents), seekPosition)
          /\ UNCHANGED << disk, todo, made, hdr >>
      BY <2>2 DEF Read
    <3>4. seekPosition + Clip(hdr, Len(Contents), seekPosition) \in 0..hdr.length
      BY <3>1, <3>2, ClipIsLeft
    <3>5. seekPosition' \in 0..hdr.length
      BY <3>3, <3>4
    <3>6. moved' \in Nat
      BY <2>2, <3>1, <3>2
    <3>7. CommandTyped'
      BY <1>1, <2>2, <3>3, <3>5, <3>6 DEF CommandTyped
    <3>8. ASSUME NEW u \in Tables, Settled(u)
          PROVE  OfCommand(u)'
      <4>1. made = 0 \/ Has(u)
        BY <2>1, <3>8 DEF Settled, OfCommand
      <4>2. made' = 0 \/ Has(u)'
        BY <2>2, <3>3, <4>1 DEF Has, key
      <4> QED
        BY <2>1, <2>2, <4>2 DEF OfCommand
    <3> QED
      BY <2>1, <2>2, <3>3, <3>7, <3>8, ReadOnlyKeeps
  <2>3. CASE PerfNext("perfRemove")
    BY <2>1, <2>3, PerfNextKeeps
  <2> QED
    BY <2>1, <2>2, <2>3 DEF FileRead, At
<1> QED
  BY <1>2, <1>3 DEF FileRead

LEMMA PerformanceTestKeeps ==
    ASSUME FileInv, PerformanceTest
    PROVE  FileInv'
<1>1. CASE At("perfRemove") /\ (\/ RemoveFile(key) /\ Goto("removed")
                                \/ Find(Table, key) = NoSector /\ End(shown))
  BY <1>1, RemovedKeeps, EndKeeps DEF At
<1> QED
  BY <1>1, FileWriteKeeps, FileReadKeeps DEF PerformanceTest

LEMMA FileStutter ==
    ASSUME FileInv, UNCHANGED ftvars
    PROVE  FileInv'
<1>1. UNCHANGED << disk, todo, made, hdr, seekPosition, at, name, text, moved, printed,
                   shown, commands >>
  BY DEF ftvars, fsvars, cvars
<1>2. CommandTyped' /\ DiskTyped(disk')
  BY <1>1 DEF FileInv, CommandTyped
<1>3. FormatInv'
  BY <1>1 DEF FileInv, FormatInv, MidFormat
<1>4. DiskInv'
  <2>1. SUFFICES ASSUME at # "format" PROVE DiskInv'
    BY <1>1 DEF DiskInv
  <2>2. PICK t \in Tables : \/ Settled(t)
                            \/ \E s \in Sectors, h \in Header : Creating(t, s, h)
                            \/ \E i \in 1..NumDirEntries : Removing(t, i)
    <3>1. DiskInv
      BY DEF FileInv
    <3> QED
      BY <2>1, <3>1, Zenon DEF DiskInv
  <2>3. key' = key
    BY <1>1 DEF key
  <2>4. CASE Settled(t)
    <3>1. Complete(disk, t) /\ WritesData /\ OfCommand(t)
      BY <2>4 DEF Settled
    <3>2. WritesData' /\ Has(t)' = Has(t)
      BY <1>1, <2>3, <3>1 DEF WritesData, Has
    <3>3. OfCommand(t)'
      BY <1>1, <2>3, <3>1, <3>2 DEF OfCommand, Wanted
    <3>4. Settled(t)'
      BY <1>1, <3>1, <3>2, <3>3 DEF Settled
    <3> QED
      BY <3>4 DEF DiskInv
  <2>5. CASE \E s \in Sectors, h \in Header : Creating(t, s, h)
    <3>1. PICK s \in Sectors, h \in Header : Creating(t, s, h)
      BY <2>5
    <3>2. Creating(t, s, h)'
      BY <1>1, <2>3, <3>1 DEF Creating, Wanted
    <3> QED
      BY <3>2 DEF DiskInv
  <2>6. CASE \E i \in 1..NumDirEntries : Removing(t, i)
    <3>1. PICK i \in 1..NumDirEntries : Removing(t, i)
      BY <2>6
    <3>2. Removing(t, i)'
      BY <1>1, <2>3, <3>1 DEF Removing
    <3> QED
      BY <3>2 DEF DiskInv
  <2> QED
    BY <2>2, <2>4, <2>5, <2>6
<1> QED
  BY <1>2, <1>3, <1>4 DEF FileInv

\* The directory, the map, the headers and the command under way are as FileInv says
\* after any number of commands, and between any two sector writes.
THEOREM FileInvariant == FTSpec => []FileInv
<1>1. CInit => FileInv
  BY FileInit
<1>2. FileInv /\ [FTNext]_ftvars => FileInv'
  <2>1. SUFFICES ASSUME FileInv, [FTNext]_ftvars PROVE FileInv'
    OBVIOUS
  <2>2. CASE WriteSector /\ UNCHANGED cvars
    BY <2>1, <2>2, WriteKeeps
  <2>3. CASE Mounted
    BY <2>1, <2>3, MountedKeeps
  <2>4. CASE Start
    BY <2>1, <2>4, StartKeeps
  <2>5. CASE Copy
    BY <2>1, <2>5, CopyKeeps
  <2>6. CASE PrintFile
    BY <2>1, <2>6, PrintKeeps
  <2>7. CASE RemoveOption
    BY <2>1, <2>7, RemoveOptionKeeps
  <2>8. CASE PerformanceTest
    BY <2>1, <2>8, PerformanceTestKeeps
  <2>9. CASE UNCHANGED ftvars
    BY <2>1, <2>9, FileStutter
  <2> QED
    BY <2>1, <2>2, <2>3, <2>4, <2>5, <2>6, <2>7, <2>8, <2>9 DEF FTNext
<1> QED
  BY <1>1, <1>2, PTL DEF FTSpec

-----------------------------------------------------------------------------
(* What the invariant says of the files.                                   *)

\* The sectors of the map and of the directory themselves are where they are read.
LEMMA ReservedIsFixed ==
    ASSUME NEW m, NEW t, Laid(disk, m, t)
    PROVE  Reserved = Fixed
  BY Layout DEF Laid, Reserved, Fixed

\* The table that the command began with, and the one that the disk has now.
BeganWith(t) ==
    /\ Whole(disk, t) /\ Table \in Tables
    /\ \A i \in Used(t) : todo = << >> \/ t[i].name # key
                            => Owned(disk, t[i]) \subseteq FreeMap
    /\ \A i \in 1..NumDirEntries :
         i # made /\ Table[i].inUse
           => t[i].inUse /\ Table[i].sector = t[i].sector /\ Table[i].name = t[i].name

LEMMA SettledBegan ==
    ASSUME NEW t \in Tables, Settled(t)
    PROVE  BeganWith(t) /\ Reserved = Fixed
<1>1. Whole(disk, t) /\ Laid(disk, Taken(disk, t), t)
  BY DEF Settled, Complete
<1>2. Table = t /\ FreeMap = Taken(disk, t)
  BY <1>1, LaidIsRead, ReadNow
<1>3. \A i \in Used(t) : Owned(disk, t[i]) \subseteq FreeMap
  BY <1>2 DEF Taken
<1> QED
  BY <1>1, <1>2, <1>3, ReservedIsFixed DEF BeganWith

LEMMA CreatingBegan ==
    ASSUME NEW t \in Tables, NEW s \in Sectors, NEW h \in Header, Creating(t, s, h),
           CommandTyped
    PROVE  BeganWith(t) /\ Reserved = Fixed
<1>1. PICK n \in 0..3 : MidCreate(disk, todo, n, t, made, s, h, key)
  BY DEF Creating
<1> PICK u : u = With(t, made, s, key)
  OBVIOUS
<1>2. made \in 1..NumDirEntries /\ Whole(disk, t)
  BY <1>1 DEF MidCreate
<1>3. /\ u \in Tables
      /\ \A j \in 1..NumDirEntries : j # made => u[j] = t[j]
  <2>1. key \in Keys
    BY KeyIsKey
  <2>2. PICK i \in 1..NumDirEntries, k \in Keys : i = made /\ k = key
    BY <1>2, <2>1
  <2>3. u = With(t, i, s, k)
    BY <2>2
  <2> DEFINE w == With(t, i, s, k)
  <2>4. w \in Tables /\ Used(w) = Used(t) \cup {i}
        /\ w[i] = [inUse |-> TRUE, sector |-> s, name |-> k]
        /\ \A j \in 1..NumDirEntries : j # i => w[j] = t[j]
    BY WithTable
  <2> QED
    BY <2>2, <2>3, <2>4
<1>4. PICK v \in {t, Mixed(u, t), u} : Laid(disk, Taken(disk, t), v)
  <2>1. CASE n < 2
    BY <1>1, <2>1 DEF MidCreate
  <2>2. CASE n = 2
    BY <1>1, <2>2 DEF MidCreate
  <2>3. CASE n = 3
    BY <1>1, <2>3 DEF MidCreate
  <2> QED
    BY <2>1, <2>2, <2>3
<1>5. v \in Tables
  BY <1>3, <1>4, MixedTable
<1>6. Table = v /\ FreeMap = Taken(disk, t)
  BY <1>4, <1>5, LaidIsRead, ReadNow
<1>7. \A i \in 1..NumDirEntries :
         i # made => /\ v[i].inUse = t[i].inUse
                     /\ v[i].sector = t[i].sector /\ v[i].name = t[i].name
  <2>1. CASE v = Mixed(u, t)
    <3> SUFFICES ASSUME NEW i \in 1..NumDirEntries, i # made
                 PROVE  /\ v[i].inUse = t[i].inUse
                        /\ v[i].sector = t[i].sector /\ v[i].name = t[i].name
      OBVIOUS
    <3>1. CASE i < Straddler
      BY <1>3, <2>1, <3>1, MixedTable
    <3>2. CASE i = Straddler
      BY <1>3, <2>1, <3>2, MixedTable
    <3>3. CASE i > Straddler
      BY <1>3, <2>1, <3>3, MixedTable
    <3> QED
      BY <3>1, <3>2, <3>3, StraddlerIsEntry
  <2> QED
    BY <1>3, <1>4, <2>1
<1>8. \A i \in Used(t) : Owned(disk, t[i]) \subseteq FreeMap
  BY <1>6 DEF Taken
<1> QED
  BY <1>2, <1>4, <1>5, <1>6, <1>7, <1>8, ReservedIsFixed DEF BeganWith

LEMMA RemovingBegan ==
    ASSUME NEW t \in Tables, NEW i \in 1..NumDirEntries, Removing(t, i), DiskTyped(disk), CommandTyped
    PROVE  BeganWith(t) /\ Reserved = Fixed
<1>1. PICK n \in 0..2 : MidRemove(disk, todo, n, t, i, key)
  BY DEF Removing
<1> PICK u : u = Without(t, i)
  OBVIOUS
<1>2. Whole(disk, t) /\ i \in Used(t) /\ t[i].name = key /\ todo # << >>
  <2>1. Whole(disk, t) /\ i \in Used(t) /\ t[i].name = key
    BY <1>1 DEF MidRemove
  <2> QED
    BY <1>1, <2>1, KeyIsKey, RemoveWrites
<1>3. /\ u \in Tables /\ Used(u) = Used(t) \ {i}
      /\ \A j \in 1..NumDirEntries : /\ u[j].name = t[j].name
                                     /\ u[j].sector = t[j].sector
                                     /\ j # i => u[j] = t[j]
  BY <1>2, WithoutTable
<1>4. PICK v \in {t, Mixed(u, t)}, m \in {Taken(disk, t), Taken(disk, u)} : Laid(disk, m, v)
  <2>1. CASE n = 0
    BY <1>1, <2>1 DEF MidRemove
  <2>2. CASE n = 1
    BY <1>1, <2>2 DEF MidRemove
  <2>3. CASE n = 2
    BY <1>1, <2>3 DEF MidRemove
  <2> QED
    BY <2>1, <2>2, <2>3
<1>5. v \in Tables
  BY <1>3, <1>4, MixedTable
<1>6. Table = v /\ FreeMap = m
  BY <1>4, <1>5, LaidIsRead, ReadNow
<1>7. \A j \in 1..NumDirEntries :
         v[j].inUse => /\ t[j].inUse
                       /\ v[j].sector = t[j].sector /\ v[j].name = t[j].name
  <2>1. \A j \in 1..NumDirEntries : u[j].inUse => t[j].inUse
    <3>1. \A j \in 1..NumDirEntries : u[j].inUse => j \in Used(u)
      BY <1>3 DEF Used, Tables
    <3>2. \A j \in Used(t) : t[j].inUse
      BY DEF Used
    <3> QED
      BY <1>3, <3>1, <3>2
  <2>2. CASE v = Mixed(u, t)
    <3> SUFFICES ASSUME NEW j \in 1..NumDirEntries, v[j].inUse
                 PROVE  /\ t[j].inUse
                        /\ v[j].sector = t[j].sector /\ v[j].name = t[j].name
      OBVIOUS
    <3>1. CASE j < Straddler
      BY <1>3, <2>1, <2>2, <3>1, MixedTable
    <3>2. CASE j = Straddler
      BY <1>3, <2>1, <2>2, <3>2, MixedTable
    <3>3. CASE j > Straddler
      BY <1>3, <2>1, <2>2, <3>3, MixedTable
    <3> QED
      BY <3>1, <3>2, <3>3, StraddlerIsEntry
  <2> QED
    BY <1>4, <2>2
<1>8. \A j \in Used(t) : t[j].name # key => Owned(disk, t[j]) \subseteq FreeMap
  <2> SUFFICES ASSUME NEW j \in Used(t), t[j].name # key
               PROVE  Owned(disk, t[j]) \subseteq FreeMap
    OBVIOUS
  <2>1. j \in Used(u) /\ u[j] = t[j]
    <3>1. j \in 1..NumDirEntries
      BY DEF Used, Tables
    <3> QED
      BY <1>2, <1>3, <3>1
  <2>2. Owned(disk, t[j]) \subseteq Taken(disk, t) /\ Owned(disk, t[j]) \subseteq Taken(disk, u)
    BY <2>1 DEF Taken
  <2> QED
    BY <1>4, <1>6, <2>2
<1> QED
  BY <1>2, <1>4, <1>5, <1>6, <1>7, <1>8, ReservedIsFixed DEF BeganWith

\* At any moment, but for the file of the command the directory has no entry that it
\* did not have when the command began.
LEMMA OthersBegan ==
    ASSUME FileInv, at # "format"
    PROVE  \E t \in Tables : BeganWith(t) /\ Reserved = Fixed
<1>1. DiskTyped(disk) /\ CommandTyped /\ DiskInv
  BY DEF FileInv
<1>2. PICK t \in Tables : \/ Settled(t)
                          \/ \E s \in Sectors, h \in Header : Creating(t, s, h)
                          \/ \E i \in 1..NumDirEntries : Removing(t, i)
  BY <1>1, Zenon DEF DiskInv
<1> QED
  BY <1>1, <1>2, SettledBegan, CreatingBegan, RemovingBegan

LEMMA HeaderSectors ==
    ASSUME NEW h \in Header
    PROVE  DataSectors(h) \subseteq Sectors
<1>1. h.sectors \in Seq(Sectors)
  BY DEF Header
<1>2. \A i \in DOMAIN h.sectors : h.sectors[i] \in Sectors
  BY <1>1
<1> QED
  BY <1>2 DEF DataSectors, Range

LEMMA ElementsOf ==
    ASSUME NEW S, NEW q \in Seq(S)
    PROVE  \A i \in DOMAIN q : q[i] \in S
  OBVIOUS

\* The writes that are left go to sectors that all the writes go to.
LEMMA LeftTargets ==
    ASSUME NEW T, NEW all, NEW m \in Nat, NEW n \in Nat, \A j \in 1..m : all[j].sector \in T,
           NEW writes, writes = SubSeq(all, n + 1, m)
    PROVE  /\ \A i \in DOMAIN writes : writes[i].sector \in T
           /\ writes # << >> => Head(writes).sector \in T
<1> DEFINE S == {all[j] : j \in 1..m}
<1>1. n + 1 \in Int /\ m \in Int /\ \A j \in (n + 1)..m : all[j] \in S
  OBVIOUS
<1> HIDE DEF S
<1>2. writes \in Seq(S)
  BY <1>1, SubSeqProperties
<1>3. /\ \A i \in DOMAIN writes : writes[i] \in S
      /\ writes # << >> => Head(writes) \in S
  BY <1>2
<1>4. \A x \in S : x.sector \in T
  BY DEF S
<1> QED
  BY <1>3, <1>4

LEMMA TargetsOfCreate ==
    ASSUME NEW d, NEW writes, NEW n \in 0..3, NEW t, NEW i, NEW s, NEW h, NEW k,
           MidCreate(d, writes, n, t, i, s, h, k)
    PROVE  /\ \A j \in DOMAIN writes : writes[j].sector \in Fixed \cup {s}
           /\ writes # << >> => Head(writes).sector \in Fixed \cup {s}
<1> PICK all : all = WritesOfCreate(d, t, i, s, h, k)
  OBVIOUS
<1>1. /\ all[1] = To(s, h) /\ all[2] = To(Dir1, FirstPart(With(t, i, s, k)))
      /\ all[3] = To(Dir2, SecondPart(With(t, i, s, k)))
      /\ all[4] = To(MapSec, [marked |-> Taken(d, t) \cup ({s} \cup DataSectors(h))])
  BY FourWrites DEF WritesOfCreate
<1>2. all[1].sector = s /\ all[2].sector = Dir1 /\ all[3].sector = Dir2
      /\ all[4].sector = MapSec
  BY <1>1 DEF To
<1>3. MapSec \in Fixed /\ Dir1 \in Fixed /\ Dir2 \in Fixed
  BY DEF Fixed
<1>4. \A j \in 1..4 : j = 1 \/ j = 2 \/ j = 3 \/ j = 4
  OBVIOUS
<1>5. \A j \in 1..4 : all[j].sector \in Fixed \cup {s}
  BY <1>2, <1>3, <1>4
<1>6. writes = SubSeq(all, n + 1, 4) /\ n \in Nat /\ 4 \in Nat
  BY DEF MidCreate
<1> QED
  BY <1>5, <1>6, LeftTargets

LEMMA TargetsOfRemove ==
    ASSUME NEW d, NEW writes, NEW n \in 0..2, NEW t, NEW i, NEW k,
           MidRemove(d, writes, n, t, i, k)
    PROVE  /\ \A j \in DOMAIN writes : writes[j].sector \in Fixed
           /\ writes # << >> => Head(writes).sector \in Fixed
<1> PICK all : all = WritesOfRemove(d, t, i)
  OBVIOUS
<1>1. /\ all[1] = To(MapSec, [marked |-> Taken(d, Without(t, i))])
      /\ all[2] = To(Dir1, FirstPart(Without(t, i)))
      /\ all[3] = To(Dir2, SecondPart(Without(t, i)))
  BY ThreeWrites DEF WritesOfRemove
<1>2. all[1].sector = MapSec /\ all[2].sector = Dir1 /\ all[3].sector = Dir2
  BY <1>1 DEF To
<1>3. MapSec \in Fixed /\ Dir1 \in Fixed /\ Dir2 \in Fixed
  BY DEF Fixed
<1>4. \A j \in 1..3 : j = 1 \/ j = 2 \/ j = 3
  OBVIOUS
<1>5. \A j \in 1..3 : all[j].sector \in Fixed
  BY <1>2, <1>3, <1>4
<1>6. writes = SubSeq(all, n + 1, 3) /\ n \in Nat /\ 3 \in Nat
  BY DEF MidRemove
<1> QED
  BY <1>5, <1>6, LeftTargets

\* What is left to write, at any moment.
LEMMA TargetsAreSectors ==
    ASSUME FileInv
    PROVE  \A i \in DOMAIN todo : todo[i].sector \in Sectors
<1>1. CommandTyped /\ FormatInv /\ DiskInv
  BY DEF FileInv
<1>2. CASE at = "format"
  <2>1. PICK n \in 0..5 : MidFormat(disk, todo, n)
    BY <1>1, <1>2 DEF FormatInv
  <2>2. \A j \in 1..5 : Formatting[j].sector \in Sectors
    BY FormattingTargets, Layout
  <2>3. todo = SubSeq(Formatting, n + 1, 5) /\ n \in Nat /\ 5 \in Nat
    BY <2>1 DEF MidFormat
  <2> QED
    BY <2>2, <2>3, LeftTargets
<1>3. CASE at # "format"
  <2>1. PICK t \in Tables : \/ Settled(t)
                            \/ \E s \in Sectors, h \in Header : Creating(t, s, h)
                            \/ \E i \in 1..NumDirEntries : Removing(t, i)
    BY <1>1, <1>3 DEF DiskInv
  <2>2. CASE Settled(t)
    <3>1. CASE todo = << >>
      BY <3>1
    <3>2. CASE todo # << >>
      <4>1. todo \in Seq([sector : DataSectors(hdr), holds : Blocks])
        BY <2>2, <3>2 DEF Settled, WritesData
      <4>2. DataSectors(hdr) \subseteq Sectors
        BY <1>1, HeaderSectors DEF CommandTyped
      <4>3. PICK S : S = [sector : DataSectors(hdr), holds : Blocks]
        OBVIOUS
      <4>4. \A i \in DOMAIN todo : todo[i] \in S
        BY <4>1, <4>3, ElementsOf
      <4>5. \A x \in S : x.sector \in DataSectors(hdr)
        BY <4>3
      <4> QED
        BY <4>2, <4>4, <4>5
    <3> QED
      BY <3>1, <3>2
  <2>3. CASE \E s \in Sectors, h \in Header : Creating(t, s, h)
    BY <2>3, TargetsOfCreate, Layout DEF Creating
  <2>4. CASE \E i \in 1..NumDirEntries : Removing(t, i)
    BY <2>4, TargetsOfRemove, Layout DEF Removing
  <2> QED
    BY <2>1, <2>2, <2>3, <2>4
<1> QED
  BY <1>2, <1>3

\* The types are those that the runs check.
LEMMA TypesHold ==
    ASSUME FileInv
    PROVE  FTTypeOK
<1>1. DOMAIN disk = Sectors /\ CommandTyped
  BY DEF FileInv, DiskTyped
<1>2. \A i \in DOMAIN todo : todo[i].sector \in Sectors
  BY TargetsAreSectors
<1>3. hdr \in Header
  BY <1>1 DEF CommandTyped
<1>4. hdr.length \in Nat /\ DataSectors(hdr) \subseteq Sectors
  BY <1>3, HeaderSectors DEF Header
<1>5. Range(printed) \subseteq (UNION {Range(t) : t \in Texts}) \cup {Junk}
  <2>1. printed \in Seq(Bytes)
    BY <1>1 DEF CommandTyped
  <2>2. \A i \in DOMAIN printed : printed[i] \in Bytes
    BY <2>1
  <2> QED
    BY <2>2 DEF Range, Bytes
<1> QED
  BY <1>1, <1>2, <1>4, <1>5 DEF FTTypeOK, CommandTyped

\* The invariant implies that files share nothing and that what they use is marked.
LEMMA OwnedHolds ==
    ASSUME FileInv
    PROVE  SectorsOwned
<1> SUFFICES ASSUME Formatted PROVE SectorsOwned
  BY DEF SectorsOwned
<1>1. at # "format" /\ made \in 0..NumDirEntries
  BY DEF Formatted, FileInv, CommandTyped
<1>2. PICK t \in Tables : BeganWith(t) /\ Reserved = Fixed
  BY <1>1, OthersBegan
<1>3. Whole(disk, t)
  BY <1>2 DEF BeganWith
<1>4. Used(t) \subseteq 1..NumDirEntries
  BY DEF Used, Tables
<1> PICK O : O = Others
  OBVIOUS
<1>5. \A i \in Used(O) : /\ i \in Used(t)
                         /\ O[i].sector = t[i].sector /\ O[i].name = t[i].name
  <2> SUFFICES ASSUME NEW i \in Used(O)
               PROVE  /\ i \in Used(t)
                      /\ O[i].sector = t[i].sector /\ O[i].name = t[i].name
    OBVIOUS
  <2>1. i \in 1..NumDirEntries /\ O[i].inUse
    BY DEF Used, Others
  <2>2. i # made
    BY <2>1 DEF Others, EmptyEntry
  <2>3. O[i] = Table[i]
    BY <2>1, <2>2 DEF Others
  <2>4. t[i].inUse /\ Table[i].sector = t[i].sector /\ Table[i].name = t[i].name
    BY <1>2, <2>1, <2>2, <2>3 DEF BeganWith
  <2>5. DOMAIN t = 1..NumDirEntries
    BY DEF Tables
  <2> QED
    BY <2>1, <2>3, <2>4, <2>5 DEF Used
<1>6. \A i \in Used(O) : OwnedBy(O[i]) = Owned(disk, t[i])
  BY <1>5 DEF OwnedBy, Owned
<1>7. \A i \in Used(O) : "sectors" \in DOMAIN disk[O[i].sector]
  <2> SUFFICES ASSUME NEW i \in Used(O) PROVE "sectors" \in DOMAIN disk[O[i].sector]
    OBVIOUS
  <2>1. disk[t[i].sector] \in Header
    BY <1>3, <1>5 DEF Whole, IsFile
  <2> QED
    BY <1>5, <2>1 DEF Header
<1>8. \A i, j \in Used(O) :
         i # j => OwnedBy(O[i]) \cap OwnedBy(O[j]) = {} /\ O[i].name # O[j].name
  BY <1>3, <1>5, <1>6 DEF Whole
<1>9. \A i \in Used(O) : todo = << >> \/ O[i].name # key
         => OwnedBy(O[i]) \subseteq FreeMap \ Reserved
  <2> SUFFICES ASSUME NEW i \in Used(O), todo = << >> \/ O[i].name # key
               PROVE  OwnedBy(O[i]) \subseteq FreeMap \ Reserved
    OBVIOUS
  <2>1. i \in Used(t) /\ (todo = << >> \/ t[i].name # key)
    BY <1>5
  <2>2. Owned(disk, t[i]) \subseteq FreeMap
    BY <1>2, <2>1 DEF BeganWith
  <2>3. Owned(disk, t[i]) \cap Fixed = {}
    BY <1>3, <2>1 DEF Whole, IsFile
  <2> QED
    BY <1>2, <1>6, <2>2, <2>3
<1>10. At("idle") => FreeMap = Reserved \cup UNION {OwnedBy(Table[i]) : i \in Used(Table)}
  <2> SUFFICES ASSUME At("idle")
               PROVE  FreeMap = Reserved \cup UNION {OwnedBy(Table[i]) : i \in Used(Table)}
    OBVIOUS
  <2>1. todo = << >>
    BY DEF At
  <2>2. PICK u \in Tables : Table = u /\ FreeMap = Taken(disk, u)
    BY <1>1, <2>1, NothingToWrite
  <2> QED
    BY <1>2, <2>2 DEF Taken, Owned, OwnedBy
<1> QED
  BY <1>7, <1>8, <1>9, <1>10 DEF SectorsOwned

\* The file that has been made is the one that is found.
LEMMA CreatedHolds ==
    ASSUME FileInv
    PROVE  CreatedIsFound
<1> SUFFICES ASSUME At("open") PROVE FindIndex(Table, key) = made
  BY DEF CreatedIsFound
<1>1. at = "open" /\ todo = << >>
  BY DEF At
<1>2. PICK t \in Tables : Settled(t) /\ Table = t
  BY <1>1, NothingToWrite
<1>3. Has(t) /\ Whole(disk, t)
  BY <1>1, <1>2 DEF Settled, OfCommand, Complete
<1>4. made \in Used(t) /\ t[made].name = key
  BY <1>3 DEF Has
<1>5. FindIndex(t, key) \in Used(t) /\ t[FindIndex(t, key)].name = key
  BY <1>4, FindIndexFinds
<1>6. FindIndex(t, key) = made
  BY <1>3, <1>4, <1>5 DEF Whole
<1> QED
  BY <1>2, <1>6

\* Between any two sector writes of any commands, no two files share a sector, every
\* name is there once, every sector in use is marked, and Open finds what Create has
\* just made (filesys.cc:198-209, 278-283).
THEOREM FilesStayConsistent == FTSpec => []FConsistent
<1>1. FileInv => FConsistent
  BY TypesHold, OwnedHolds, CreatedHolds DEF FConsistent
<1> QED
  BY <1>1, FileInvariant, PTL

-----------------------------------------------------------------------------
(* What a write leaves of the other files.                                 *)

\* A directory between t and the one with a file of name k more, or less, in entry i.
Between(v, t, i, k) ==
    /\ v[i].name \in {t[i].name, k}
    /\ \A j \in 1..NumDirEntries :
         j # i => /\ v[j].inUse = t[j].inUse
                  /\ v[j].sector = t[j].sector /\ v[j].name = t[j].name

\* Every other file is found in it where it was, although entry i may for a moment
\* have the name of another one, which is then the name of a file before it.
LEMMA FoundBetween ==
    ASSUME NEW d, NEW t \in Tables, Whole(d, t), NEW i \in 1..NumDirEntries, NEW k,
           NEW v \in Tables, Between(v, t, i, k), i \in Used(t) => t[i].name = k,
           NEW f \in Used(t), t[f].name # k
    PROVE  FindIndex(v, t[f].name) = f /\ v[f].sector = t[f].sector
<1>1. /\ DOMAIN t = 1..NumDirEntries /\ DOMAIN v = 1..NumDirEntries
      /\ NumDirEntries \in Nat
  BY StraddlerIsEntry DEF Tables
<1>2. f \in 1..NumDirEntries /\ t[f].inUse /\ f # i
  BY <1>1 DEF Used
<1>3. v[f].inUse /\ v[f].sector = t[f].sector /\ v[f].name = t[f].name
  BY <1>2 DEF Between
<1> PICK g : g = FindIndex(v, t[f].name)
  OBVIOUS
<1>4. f \in Used(v)
  BY <1>1, <1>2, <1>3 DEF Used
<1>5. g \in Used(v) /\ v[g].name = t[f].name /\ g <= f
  <2>1. g # 0
    BY <1>3, <1>4, FindIndexFinds
  <2> QED
    BY <1>3, <1>4, <2>1, FindIndexFinds
<1>6. g \in 1..NumDirEntries /\ v[g].inUse
  BY <1>1, <1>5 DEF Used
<1>7. CASE g # i
  <2>1. g \in Used(t) /\ t[g].name = t[f].name
    BY <1>1, <1>5, <1>6, <1>7 DEF Between, Used
  <2> QED
    BY <1>3, <2>1 DEF Whole
<1>8. CASE g = i
  <2>1. t[i].name = t[f].name
    BY <1>5, <1>8 DEF Between
  <2>2. i \notin Used(t)
    BY <2>1
  <2>3. f < i
    BY <2>1, <2>2 DEF Whole, OldNames
  <2> QED
    BY <1>2, <1>5, <1>6, <1>8, <2>3
<1> QED
  BY <1>7, <1>8

\* So are the directories that Create and RemoveFile have on the disk.
LEMMA WithBetween ==
    ASSUME NEW t \in Tables, NEW i \in 1..NumDirEntries, NEW s \in Sectors, NEW k \in Keys,
           NEW u, u = With(t, i, s, k), NEW v \in {t, Mixed(u, t), u}
    PROVE  v \in Tables /\ Between(v, t, i, k)
<1>1. /\ u \in Tables /\ Used(u) = Used(t) \cup {i}
      /\ u[i] = [inUse |-> TRUE, sector |-> s, name |-> k]
      /\ \A j \in 1..NumDirEntries : j # i => u[j] = t[j]
  BY WithTable
<1>2. v \in Tables
  BY <1>1, MixedTable
<1>3. v[i].name \in {t[i].name, k}
  <2>1. u[i].name = k
    BY <1>1
  <2>2. CASE v = Mixed(u, t)
    <3>1. CASE i < Straddler
      BY <1>1, <2>1, <2>2, <3>1, MixedTable
    <3>2. CASE i = Straddler
      BY <1>1, <2>1, <2>2, <3>2, MixedTable
    <3>3. CASE i > Straddler
      BY <1>1, <2>1, <2>2, <3>3, MixedTable
    <3> QED
      BY <3>1, <3>2, <3>3, StraddlerIsEntry
  <2> QED
    BY <2>1, <2>2
<1>4. ASSUME NEW j \in 1..NumDirEntries, j # i
      PROVE  /\ v[j].inUse = t[j].inUse
             /\ v[j].sector = t[j].sector /\ v[j].name = t[j].name
  <2>1. u[j] = t[j]
    BY <1>1, <1>4
  <2>2. CASE v = Mixed(u, t)
    <3>1. CASE j < Straddler
      BY <1>1, <2>1, <2>2, <3>1, MixedTable
    <3>2. CASE j = Straddler
      BY <1>1, <2>1, <2>2, <3>2, MixedTable
    <3>3. CASE j > Straddler
      BY <1>1, <2>1, <2>2, <3>3, MixedTable
    <3> QED
      BY <3>1, <3>2, <3>3, StraddlerIsEntry
  <2> QED
    BY <2>1, <2>2
<1> QED
  BY <1>2, <1>3, <1>4 DEF Between

LEMMA WithoutBetween ==
    ASSUME NEW t \in Tables, NEW i \in Used(t), NEW k,
           NEW u, u = Without(t, i), NEW v \in {t, Mixed(u, t), u}
    PROVE  i \in 1..NumDirEntries /\ v \in Tables /\ Between(v, t, i, k)
<1>0. i \in 1..NumDirEntries
  BY DEF Used, Tables
<1>1. /\ u \in Tables /\ Used(u) = Used(t) \ {i}
      /\ \A j \in 1..NumDirEntries : /\ u[j].name = t[j].name
                                     /\ u[j].sector = t[j].sector
                                     /\ j # i => u[j] = t[j]
  BY WithoutTable
<1>2. v \in Tables
  BY <1>1, MixedTable
<1>3. ASSUME NEW j \in 1..NumDirEntries
      PROVE  v[j].name = t[j].name
  <2>1. CASE v = Mixed(u, t)
    <3>1. CASE j < Straddler
      BY <1>1, <2>1, <3>1, MixedTable
    <3>2. CASE j = Straddler
      BY <1>1, <2>1, <3>2, MixedTable
    <3>3. CASE j > Straddler
      BY <1>1, <2>1, <3>3, MixedTable
    <3> QED
      BY <3>1, <3>2, <3>3, StraddlerIsEntry
  <2> QED
    BY <1>1, <2>1
<1>4. ASSUME NEW j \in 1..NumDirEntries, j # i
      PROVE  v[j].inUse = t[j].inUse /\ v[j].sector = t[j].sector
  <2>1. u[j] = t[j]
    BY <1>1, <1>4
  <2>2. CASE v = Mixed(u, t)
    <3>1. CASE j < Straddler
      BY <1>1, <2>1, <2>2, <3>1, MixedTable
    <3>2. CASE j = Straddler
      BY <1>1, <2>1, <2>2, <3>2, MixedTable
    <3>3. CASE j > Straddler
      BY <1>1, <2>1, <2>2, <3>3, MixedTable
    <3> QED
      BY <3>1, <3>2, <3>3, StraddlerIsEntry
  <2> QED
    BY <2>1, <2>2
<1> QED
  BY <1>0, <1>2, <1>3, <1>4 DEF Between

\* A write goes to no other file, and they are found after it where they were.
Spared(t) ==
    \A f \in Used(t) : t[f].name # key =>
        /\ Head(todo).sector \notin Owned(disk, t[f])
        /\ FindIndex(TableOn(disk'), t[f].name) = f
        /\ TableOn(disk')[f].sector = t[f].sector

\* It takes nothing out of the directory but the file of the command, and puts
\* nothing else into it than what the command makes.
Lessens(t) ==
    /\ TableOn(disk') \in Tables
    /\ \A j \in (1..NumDirEntries) \ {made} :
         /\ TableOn(disk')[j].inUse => /\ Table[j].inUse
                                      /\ TableOn(disk')[j].sector = Table[j].sector
                                      /\ TableOn(disk')[j].name = Table[j].name
         /\ Table[j].inUse => /\ TableOn(disk')[j].inUse \/ t[j].name = key
                             /\ Head(todo).sector \notin Owned(disk, t[j])

LEMMA WriteIs ==
    ASSUME FileInv, WriteSector
    PROVE  todo # << >> /\ disk' = Written(disk, Head(todo))
BY DEF WriteSector, Written, Put

LEMMA DataSpares ==
    ASSUME FileInv, WriteSector, NEW t \in Tables, Settled(t)
    PROVE  Spared(t) /\ Lessens(t)
<1>1. todo # << >> /\ disk' = Written(disk, Head(todo)) /\ DiskTyped(disk)
  BY WriteIs DEF FileInv
<1>2. /\ Complete(disk, t) /\ Whole(disk, t)
      /\ todo \in Seq([sector : DataSectors(hdr), holds : Blocks])
      /\ made \in Used(t) /\ t[made].name = key /\ hdr = disk[t[made].sector]
  BY <1>1 DEF Settled, OfCommand, WritesData, Has, Complete
<1>3. Head(todo) \in [sector : DataSectors(hdr), holds : Blocks]
  BY <1>1, <1>2, HeadTailProperties
<1>4. PICK x, y : x = Head(todo).sector /\ y = Head(todo).holds
  OBVIOUS
<1>5. x \in DataSectors(disk[t[made].sector]) /\ y \in Blocks /\ disk' = Put(disk, x, y)
  BY <1>1, <1>2, <1>3, <1>4 DEF Written
<1>6. Complete(disk', t)
  BY <1>1, <1>2, <1>5, DataWritten
<1>7. TableOn(disk') = t
  BY <1>6, LaidIsRead DEF Complete
<1>8. made \in 1..NumDirEntries /\ Between(t, t, made, key)
  <2>1. made \in 1..NumDirEntries
    BY <1>2 DEF Used, Tables
  <2> QED
    BY <2>1 DEF Between
<1>9. ASSUME NEW f \in Used(t), t[f].name # key
      PROVE  x \notin Owned(disk, t[f])
  <2>1. x \in Owned(disk, t[made]) /\ f # made
    BY <1>2, <1>5, <1>9 DEF Owned
  <2> QED
    BY <1>2, <2>1 DEF Whole
<1>10. ASSUME NEW f \in Used(t), t[f].name # key
       PROVE  FindIndex(t, t[f].name) = f /\ t[f].sector = t[f].sector
  <2> PICK k, d : k = key /\ d = disk
    OBVIOUS
  <2>1. Whole(d, t) /\ t[made].name = k /\ t[f].name # k
    BY <1>2, <1>10
  <2>2. made \in 1..NumDirEntries /\ Between(t, t, made, k)
    BY <1>8
  <2> QED
    BY <2>1, <2>2, FoundBetween
<1>11. ASSUME NEW j \in 1..NumDirEntries, j # made, t[j].inUse
       PROVE  x \notin Owned(disk, t[j])
  <2>1. x \in Owned(disk, t[made]) /\ j \in Used(t)
    BY <1>2, <1>5, <1>11 DEF Owned, Used, Tables
  <2> QED
    BY <1>2, <1>11, <2>1 DEF Whole
<1>12. Table = t
  BY <1>2, LaidIsRead, ReadNow DEF Complete
<1>13. Lessens(t)
  BY <1>4, <1>7, <1>11, <1>12 DEF Lessens
<1> QED
  BY <1>4, <1>7, <1>9, <1>10, <1>13 DEF Spared

LEMMA CreateSpares ==
    ASSUME FileInv, WriteSector, NEW t \in Tables, NEW s \in Sectors, NEW h \in Header,
           Creating(t, s, h)
    PROVE  Spared(t) /\ Lessens(t)
<1>1. todo # << >> /\ DiskTyped(disk) /\ key \in Keys
  BY WriteIs, KeyIsKey DEF FileInv
<1> PICK e, k : e = Written(disk, Head(todo)) /\ k = key
  OBVIOUS
<1>2. PICK n \in 0..3 : MidCreate(disk, todo, n, t, made, s, h, k)
  BY DEF Creating
<1>3. /\ made \in 1..NumDirEntries /\ ~t[made].inUse /\ Whole(disk, t)
      /\ ({s} \cup DataSectors(h)) \cap Taken(disk, t) = {}
  BY <1>2 DEF MidCreate
<1>4. Head(todo).sector \in Fixed \cup {s}
  BY <1>1, <1>2, TargetsOfCreate
<1>5. ASSUME NEW f \in Used(t)
      PROVE  Head(todo).sector \notin Owned(disk, t[f])
  <2>1. s \notin Owned(disk, t[f])
    BY <1>3 DEF Taken
  <2>2. Owned(disk, t[f]) \cap Fixed = {}
    BY <1>3 DEF Whole, IsFile
  <2> QED
    BY <1>4, <2>1, <2>2
<1> PICK u : u = With(t, made, s, k)
  OBVIOUS
<1>6. PICK v \in {t, Mixed(u, t), u} : \E m : Laid(e, m, v)
  <2>1. CASE n < 3
    <3>1. MidCreate(e, Tail(todo), n + 1, t, made, s, h, k)
      BY <1>1, <1>2, <1>3, <2>1, CreateWrites
    <3>2. CASE n + 1 < 2
      BY <3>1, <3>2 DEF MidCreate
    <3>3. CASE n + 1 = 2
      BY <3>1, <3>3 DEF MidCreate
    <3>4. CASE n + 1 = 3
      BY <3>1, <3>4 DEF MidCreate
    <3> QED
      BY <2>1, <3>2, <3>3, <3>4
  <2>2. CASE n = 3
    <3>1. Complete(e, With(t, made, s, k))
      BY <1>1, <1>2, <1>3, <2>2, CreateWrites
    <3> QED
      BY <3>1 DEF Complete
  <2> QED
    BY <2>1, <2>2
<1>7. v \in Tables /\ Between(v, t, made, k)
  BY <1>1, <1>3, WithBetween
<1>8. TableOn(e) = v
  BY <1>6, <1>7, LaidIsRead
<1>9. made \in Used(t) => t[made].name = k
  BY <1>3 DEF Used
<1>10. ASSUME NEW f \in Used(t), t[f].name # k
       PROVE  FindIndex(v, t[f].name) = f /\ v[f].sector = t[f].sector
  BY <1>3, <1>7, <1>9, <1>10, FoundBetween
<1>11. disk' = e
  BY WriteIs
<1>12. PICK w \in {t, Mixed(u, t), u} : \E m : Laid(disk, m, w)
  <2>1. CASE n < 2
    BY <1>2, <2>1 DEF MidCreate
  <2>2. CASE n = 2
    BY <1>2, <2>2 DEF MidCreate
  <2>3. CASE n = 3
    BY <1>2, <2>3 DEF MidCreate
  <2> QED
    BY <2>1, <2>2, <2>3
<1>13. w \in Tables /\ Between(w, t, made, k)
  BY <1>1, <1>3, <1>12, WithBetween
<1>14. Table = w
  BY <1>12, <1>13, LaidIsRead, ReadNow
<1>15. \A j \in 1..NumDirEntries : t[j].inUse => j \in Used(t)
  BY DEF Used, Tables
<1>16. \A j \in (1..NumDirEntries) \ {made} :
          /\ v[j].inUse = w[j].inUse /\ v[j].sector = w[j].sector
          /\ v[j].name = w[j].name /\ w[j].inUse = t[j].inUse
  BY <1>7, <1>13 DEF Between
<1>17. Lessens(t)
  BY <1>5, <1>7, <1>8, <1>11, <1>14, <1>15, <1>16 DEF Lessens
<1> QED
  BY <1>5, <1>8, <1>10, <1>11, <1>17 DEF Spared

LEMMA RemoveSpares ==
    ASSUME FileInv, WriteSector, NEW t \in Tables, NEW i \in 1..NumDirEntries, Removing(t, i)
    PROVE  Spared(t) /\ Lessens(t)
<1>1. todo # << >> /\ DiskTyped(disk) /\ key \in Keys
  BY WriteIs, KeyIsKey DEF FileInv
<1> PICK e, k : e = Written(disk, Head(todo)) /\ k = key
  OBVIOUS
<1>2. PICK n \in 0..2 : MidRemove(disk, todo, n, t, i, k)
  BY DEF Removing
<1>3. Whole(disk, t) /\ i \in Used(t) /\ t[i].name = k
  BY <1>2 DEF MidRemove
<1>4. Head(todo).sector \in Fixed
  BY <1>1, <1>2, TargetsOfRemove
<1>5. ASSUME NEW f \in Used(t)
      PROVE  Head(todo).sector \notin Owned(disk, t[f])
  BY <1>3, <1>4 DEF Whole, IsFile
<1> PICK u : u = Without(t, i)
  OBVIOUS
<1>6. PICK v \in {t, Mixed(u, t), u} : \E m : Laid(e, m, v)
  <2>1. CASE n < 2
    <3>1. MidRemove(e, Tail(todo), n + 1, t, i, k)
      BY <1>1, <1>2, <2>1, RemoveWrites
    <3>2. CASE n + 1 = 1
      BY <3>1, <3>2 DEF MidRemove
    <3>3. CASE n + 1 = 2
      BY <3>1, <3>3 DEF MidRemove
    <3> QED
      BY <2>1, <3>2, <3>3
  <2>2. CASE n = 2
    <3>1. Complete(e, Without(t, i))
      BY <1>1, <1>2, <2>2, RemoveWrites
    <3> QED
      BY <3>1 DEF Complete
  <2> QED
    BY <2>1, <2>2
<1>7. v \in Tables /\ Between(v, t, i, k)
  BY <1>3, WithoutBetween
<1>8. TableOn(e) = v
  BY <1>6, <1>7, LaidIsRead
<1>9. ASSUME NEW f \in Used(t), t[f].name # k
      PROVE  FindIndex(v, t[f].name) = f /\ v[f].sector = t[f].sector
  BY <1>3, <1>7, <1>9, FoundBetween
<1>10. disk' = e
  BY WriteIs
<1>11. /\ u \in Tables
       /\ \A j \in 1..NumDirEntries : /\ u[j].name = t[j].name
                                      /\ u[j].sector = t[j].sector
                                      /\ u[j].inUse => t[j].inUse
                                      /\ j # i => u[j] = t[j]
  <2>1. /\ u \in Tables /\ Used(u) = Used(t) \ {i}
        /\ \A j \in 1..NumDirEntries : /\ u[j].name = t[j].name
                                       /\ u[j].sector = t[j].sector
                                       /\ j # i => u[j] = t[j]
    BY <1>3, WithoutTable
  <2> QED
    BY <1>3, <2>1 DEF Used
<1>12. LET x == Mixed(u, t)
       IN /\ x \in Tables
          /\ \A j \in 1..NumDirEntries : /\ x[j].name = t[j].name
                                         /\ x[j].sector = t[j].sector
                                         /\ x[j].inUse => t[j].inUse
                                         /\ u[j].inUse => x[j].inUse
                                         /\ j # i => x[j].inUse = t[j].inUse
  BY <1>11, MixedTable, StraddlerIsEntry
<1>13. PICK w \in Tables :
         /\ Table = w
         /\ \A j \in 1..NumDirEntries :
              /\ v[j].name = w[j].name /\ v[j].sector = w[j].sector
              /\ v[j].inUse => w[j].inUse
              /\ w[j].inUse => t[j].inUse
              /\ j # i => v[j].inUse = w[j].inUse
  <2>1. CASE n = 0
    <3>1. Table = t
      BY <1>2, <2>1, LaidIsRead, ReadNow DEF MidRemove
    <3> QED
      BY <1>6, <1>11, <1>12, <3>1
  <2>2. CASE n = 1
    <3>1. Table = t
      BY <1>2, <2>2, LaidIsRead, ReadNow DEF MidRemove
    <3> QED
      BY <1>6, <1>11, <1>12, <3>1
  <2>3. CASE n = 2
    <3>1. Table = Mixed(u, t)
      BY <1>2, <1>12, <2>3, LaidIsRead, ReadNow DEF MidRemove
    <3>2. v = u
      <4>1. Complete(e, u)
        BY <1>1, <1>2, <2>3, RemoveWrites
      <4> QED
        BY <1>8, <1>11, <4>1, LaidIsRead DEF Complete
    <3> QED
      BY <1>11, <1>12, <3>1, <3>2
  <2> QED
    BY <2>1, <2>2, <2>3
<1>14. \A j \in 1..NumDirEntries : t[j].inUse => j \in Used(t)
  BY DEF Used, Tables
<1>15. Lessens(t)
  BY <1>3, <1>5, <1>7, <1>8, <1>10, <1>13, <1>14 DEF Lessens
<1> QED
  BY <1>5, <1>8, <1>9, <1>10, <1>15 DEF Spared

LEMMA WriteSpares ==
    ASSUME FileInv, WriteSector, at # "format"
    PROVE  \E t \in Tables : BeganWith(t) /\ Spared(t) /\ Lessens(t)
<1>1. DiskTyped(disk) /\ CommandTyped /\ DiskInv
  BY DEF FileInv
<1>2. PICK t \in Tables : \/ Settled(t)
                          \/ \E s \in Sectors, h \in Header : Creating(t, s, h)
                          \/ \E i \in 1..NumDirEntries : Removing(t, i)
  BY <1>1 DEF DiskInv
<1>3. CASE Settled(t)
  BY <1>3, SettledBegan, DataSpares
<1>4. CASE \E s \in Sectors, h \in Header : Creating(t, s, h)
  BY <1>1, <1>4, CreatingBegan, CreateSpares
<1>5. CASE \E i \in 1..NumDirEntries : Removing(t, i)
  BY <1>1, <1>5, RemovingBegan, RemoveSpares
<1> QED
  BY <1>2, <1>3, <1>4, <1>5

\* A file none of whose data is written reads the same.
LEMMA ReadsTheSame ==
    ASSUME NEW h \in Header, \A s \in DataSectors(h) : disk'[s] = disk[s]
    PROVE  ReadAt(h, h.length, 0)' = ReadAt(h, h.length, 0)
<1> PICK n : n = Clip(h, h.length, 0)
  OBVIOUS
<1>1. h.length \in Nat
  BY DEF Header
<1>2. n \in 0..h.length
  BY <1>1, ClipIsLeft
<1>3. ASSUME NEW i \in 1..n
      PROVE  ByteAt(h, 0 + i - 1)' = ByteAt(h, 0 + i - 1)
  <2>1. 0 + i - 1 \in Nat /\ 0 + i - 1 < h.length
    BY <1>1, <1>2
  <2> PICK p \in Nat : p = 0 + i - 1
    BY <2>1
  <2>2. ByteToSector(h, p) \in DataSectors(h)
    BY <2>1, ByteToSectorIsData
  <2>3. disk'[ByteToSector(h, p)] = disk[ByteToSector(h, p)]
    BY <2>2
  <2>4. ByteAt(h, p)' = ByteAt(h, p)
    BY <2>3 DEF ByteAt, ByteToSector
  <2> QED
    BY <2>4
<1>4. /\ ReadAt(h, h.length, 0) = [i \in 1..n |-> ByteAt(h, 0 + i - 1)]
      /\ ReadAt(h, h.length, 0)' = [i \in 1..n |-> ByteAt(h, 0 + i - 1)']
  BY DEF ReadAt, Clip
<1> QED
  BY <1>3, <1>4

\* What is on the disk of a file before a write is there after it.
LEMMA WriteLeavesFile ==
    ASSUME FileInv, WriteSector, at # "format", NEW k \in Keys, k # key, Files[k] # NoFile
    PROVE  OnDisk(k)' = Files[k]
<1>1. PICK t \in Tables : BeganWith(t) /\ Spared(t)
  BY WriteSpares
<1>2. DiskTyped(disk) /\ CommandTyped
  BY DEF FileInv
<1>3. Others \in Tables
  <2>1. EmptyEntry \in Entry
    BY DEF EmptyEntry, Entry
  <2>2. Table \in Tables
    BY <1>1 DEF BeganWith
  <2> QED
    BY <2>1, <2>2 DEF Others, Tables
<1> PICK f, s : f = FindIndex(Others, k) /\ s = Find(Others, k)
  OBVIOUS
<1>4. s # NoSector /\ Files[k] = ReadAt(disk[s], disk[s].length, 0)
  BY DEF Files
<1>5. f # 0 /\ s = Others[f].sector
  BY <1>4 DEF Find
<1>6. f \in Used(Others) /\ Others[f].name = k /\ f \in 1..NumDirEntries
  BY <1>3, <1>5, FindIndexFinds
<1>7. f # made /\ Others[f] = Table[f] /\ Table[f].inUse
  BY <1>6 DEF Others, Used, EmptyEntry
<1>8. f \in Used(t) /\ t[f].sector = s /\ t[f].name = k
  <2>1. t[f].inUse /\ Table[f].sector = t[f].sector /\ Table[f].name = t[f].name
    BY <1>1, <1>6, <1>7 DEF BeganWith
  <2> QED
    BY <1>5, <1>6, <1>7, <2>1 DEF Used, Tables
<1>9. /\ Head(todo).sector \notin Owned(disk, t[f])
      /\ FindIndex(TableOn(disk'), k) = f /\ TableOn(disk')[f].sector = s
  BY <1>1, <1>8 DEF Spared
<1>10. Find(TableOn(disk'), k) = s
  BY <1>5, <1>9 DEF Find
<1>11. Find(Table, k)' = s
  <2>1. Table' = TableOn(disk')
    BY DEF Table, TableOn, DirSector
  <2> QED
    BY <1>10, <2>1
<1> PICK h : h = disk[s]
  OBVIOUS
<1>12. h \in Header /\ s \in Sectors
  BY <1>1, <1>8 DEF BeganWith, Whole, IsFile
<1>13. \A r \in Sectors : r # Head(todo).sector => disk'[r] = disk[r]
  BY <1>2 DEF WriteSector, DiskTyped
<1>14. \A r \in DataSectors(h) \cup {s} : r \in Sectors /\ r # Head(todo).sector
  BY <1>8, <1>9, <1>12, HeaderSectors DEF Owned
<1>15. disk'[s] = h /\ ReadAt(h, h.length, 0)' = ReadAt(h, h.length, 0)
  BY <1>12, <1>13, <1>14, ReadsTheSame
<1>16. OnDisk(k)' = ReadAt(h, h.length, 0)'
  BY <1>4, <1>11, <1>15 DEF OnDisk, ReadAt, ByteAt, ByteToSector, NoSector
<1> QED
  BY <1>4, <1>15, <1>16

\* Only WriteSector changes the disk.
LEMMA OnlyWritesChangeDisk ==
    ASSUME [FTNext]_ftvars, disk' # disk
    PROVE  WriteSector
<1>1. ASSUME NEW r, End(r)
      PROVE  disk' = disk
  BY <1>1 DEF End, Close
<1>2. ASSUME Start
      PROVE  disk' = disk
  BY <1>2 DEF Start, Begin, fsvars
<1>3. ASSUME Copy
      PROVE  disk' = disk
  BY <1>1, <1>3 DEF Copy, CopyCreate, CopyOpen, CopyWrite, CopyEnd, Create, Open, Write
<1>4. ASSUME PrintFile
      PROVE  disk' = disk
  BY <1>1, <1>4 DEF PrintFile, PrintOpen, PrintRead, PrintEnd, Open, Read
<1>5. ASSUME RemoveOption
      PROVE  disk' = disk
  BY <1>1, <1>5 DEF RemoveOption, RemoveFile
<1>6. ASSUME FileWrite
      PROVE  disk' = disk
  BY <1>6 DEF FileWrite, Create, Open, Write, PerfNext, fsvars
<1>7. ASSUME FileRead
      PROVE  disk' = disk
  BY <1>7 DEF FileRead, Open, Read, PerfNext, fsvars
<1>8. ASSUME PerformanceTest
      PROVE  disk' = disk
  BY <1>1, <1>6, <1>7, <1>8 DEF PerformanceTest, RemoveFile
<1> QED
  BY <1>1, <1>2, <1>3, <1>4, <1>5, <1>8 DEF FTNext, Mounted, ftvars, fsvars

\* A sector write leaves every file but the command's own as it was, for the Nachos
\* that reads the disk after it: contents, header and name (filesys.cc:205-207).
THEOREM OtherFilesAreSpared == FTSpec => OnlyOwnFile
<1>1. FileInv /\ [FTNext]_ftvars
        => [Formatted => \A k \in Keys : k # key /\ Files[k] # NoFile
                            => OnDisk(k)' = Files[k]]_disk
  BY OnlyWritesChangeDisk, WriteLeavesFile DEF Formatted
<1> QED
  BY <1>1, FileInvariant, PTL DEF FTSpec, OnlyOwnFile

-----------------------------------------------------------------------------
(* What is in the files that are copied and printed.                       *)

\* None of some writes gives byte q of a file another value than b; one is to its sector.
Agree(w, h, q, b) ==
    \A i \in DOMAIN w : w[i].sector = ByteToSector(h, q)
                         => w[i].holds.bytes[(q % SectorSize) + 1] = b

Reach(w, h, q) == \E i \in DOMAIN w : w[i].sector = ByteToSector(h, q)

\* Byte p of the text is on the disk, or in a write that is still to be made.
InPlace(p) ==
    /\ Agree(todo, hdr, p, text[p + 1])
    /\ Reach(todo, hdr, p) \/ ByteAt(hdr, p) = text[p + 1]

\* What Copy has written is the beginning of the text.
CopyInv ==
    /\ at \in {"idle", "create", "open"} => moved = 0
    /\ at = "write" =>
         /\ seekPosition = moved /\ moved <= Len(text)
         /\ \A p \in Nat : p < moved => InPlace(p)

\* What Print has printed is the beginning of the file.
PrintInv ==
    /\ at \in {"idle", "printOpen"} => printed = << >>
    /\ at = "read" => printed = ReadAt(hdr, seekPosition, 0)

LEMMA Multiples ==
    ASSUME NEW s \in Nat \ {0}, NEW a \in Nat
    PROVE  (a * s) \div s = a
<1>1. PICK q \in Nat, r \in Nat : q = (a * s) \div s /\ r = (a * s) % s /\ r < s
                                  /\ a * s = q * s + r
  OBVIOUS
<1>2. ASSUME q < a PROVE FALSE
  <2>1. PICK z \in Nat : a = q + 1 + z
    <3>1. a - q - 1 \in Nat /\ a = q + 1 + (a - q - 1)
      BY <1>2
    <3> QED
      BY <3>1
  <2>2. a * s = q * s + s + z * s /\ z * s >= 0
    BY <2>1
  <2> QED
    BY <1>1, <2>2
<1>3. ASSUME a < q PROVE FALSE
  <2>1. PICK z \in Nat : q = a + 1 + z
    <3>1. q - a - 1 \in Nat /\ q = a + 1 + (q - a - 1)
      BY <1>3
    <3> QED
      BY <3>1
  <2>2. q * s = a * s + s + z * s /\ z * s >= 0
    BY <2>1
  <2> QED
    BY <1>1, <2>2
<1> QED
  BY <1>1, <1>2, <1>3

LEMMA Remainder ==
    ASSUME NEW s \in Nat \ {0}, NEW q \in Nat
    PROVE  /\ q \div s \in Nat /\ q % s \in 0..(s - 1)
           /\ (q \div s) * s + (q % s) = q
OBVIOUS

\* A request for no more than is left is not clipped.
LEMMA ClipIsAll ==
    ASSUME NEW h, h.length \in Nat, NEW p \in Nat, NEW n \in Nat, n > 0, p + n <= h.length
    PROVE  Clip(h, n, p) = n /\ n # 0
BY DEF Clip

\* A byte of a file after a write at p.
ByteAfter(h, from, p, q) == IF q < p THEN ByteAt(h, q) ELSE from[q - p + 1]

\* OpenFile::WriteAt has every byte of the request in one of its writes, and what
\* was in the file before it in the others.
LEMMA WriteAtWrites ==
    ASSUME NEW h \in Header, NEW from, Len(from) \in Nat, Len(from) > 0,
           NEW p \in Nat, p + Len(from) <= h.length,
           NEW q \in Nat, q < p + Len(from)
    PROVE  /\ Agree(WriteAt(h, from, p), h, q, ByteAfter(h, from, p, q))
           /\ q >= p => Reach(WriteAt(h, from, p), h, q)
<1>0a. PICK w, b : w = WriteAt(h, from, p) /\ b = ByteAfter(h, from, p, q)
  OBVIOUS
<1> PICK n \in Nat : n = Len(from)
  OBVIOUS
<1> DEFINE Byte(r) == IF r \in p..(p + n - 1) THEN from[r - p + 1]
                      ELSE IF r < h.length THEN ByteAt(h, r)
                      ELSE Junk
           offset(f, i) == (f + i - 1) * SectorSize
           block(f, i) == [bytes |-> [k \in 1..SectorSize |-> Byte(offset(f, i) + k - 1)]]
<1>2a. PICK first, last : first = p \div SectorSize /\ last = (p + n - 1) \div SectorSize
  OBVIOUS
<1>0. h.length \in Nat /\ NumDataSectors(h.length) \in Nat
  BY DataSectorsCount DEF Header
<1> PICK N \in Nat : N = NumDataSectors(h.length)
  BY <1>0
<1>1. SectorSize \in Nat \ {0} /\ h.length \in Nat
      /\ DOMAIN h.sectors = 1..N
      /\ \A i, j \in 1..N : h.sectors[i] = h.sectors[j] => i = j
  BY FileSystemAssumption DEF Header
<1>2. Clip(h, n, p) = n /\ n # 0
  BY <1>0, ClipIsAll
<1>3. w = [i \in 1..(last - first + 1) |-> To(ByteToSector(h, offset(first, i)), block(first, i))]
  BY <1>0a, <1>2, <1>2a DEF WriteAt
<1>4. first \in Nat /\ last \in Nat /\ first <= last /\ p + n - 1 \in Nat
  BY <1>1, <1>2a, Quotients
<1>5. \A r \in Nat : r < h.length => (r \div SectorSize) + 1 \in 1..N
  BY <1>1, BlockOfByte DEF NumDataSectors, DivRoundUp
<1>6. PICK c \in Nat, m \in 0..(SectorSize - 1) :
        /\ c = q \div SectorSize /\ m = q % SectorSize /\ c * SectorSize + m = q
  BY <1>1, Remainder
<1>7. ByteToSector(h, q) = h.sectors[c + 1] /\ c + 1 \in 1..N
  <2>1. q < h.length
    BY <1>1
  <2>2. (q \div SectorSize) + 1 \in 1..N
    BY <1>5, <2>1
  <2> QED
    BY <1>6, <2>2 DEF ByteToSector
<1>8. last + 1 \in 1..N
  <2>1. PICK r \in Nat : r = p + n - 1
    BY <1>4
  <2>2. r < h.length
    BY <1>1, <2>1
  <2>3. (r \div SectorSize) + 1 \in 1..N
    BY <1>5, <2>2
  <2> QED
    BY <1>2a, <2>1, <2>3
<1>9. Byte(q) = b
  BY <1>0a, <1>1, <1>4 DEF ByteAfter
<1>10. ASSUME NEW i \in 1..(last - first + 1)
       PROVE  /\ first + i \in 1..N
              /\ w[i].sector = h.sectors[first + i]
              /\ w[i].holds.bytes = [k \in 1..SectorSize |-> Byte(offset(first, i) + k - 1)]
  <2>1. first + i \in 1..(last + 1)
    BY <1>4
  <2>2. first + i \in 1..N
    BY <1>4, <1>8, <2>1
  <2>3. PICK a \in Nat : a = first + i - 1
    BY <1>4
  <2>4. offset(first, i) \div SectorSize = a
    BY <1>1, <2>3, Multiples
  <2>5. ByteToSector(h, offset(first, i)) = h.sectors[first + i]
    BY <1>4, <2>3, <2>4 DEF ByteToSector
  <2> HIDE DEF offset, Byte
  <2>6. w[i] = To(ByteToSector(h, offset(first, i)), block(first, i))
    BY <1>3
  <2>7. w[i].sector = ByteToSector(h, offset(first, i))
    BY <2>6 DEF To
  <2>8. w[i].holds = block(first, i)
    BY <2>6 DEF To
  <2> QED
    BY <2>2, <2>5, <2>7, <2>8
<1> HIDE DEF Byte, block
<1>11. ASSUME NEW i \in DOMAIN w, w[i].sector = ByteToSector(h, q)
       PROVE  w[i].holds.bytes[(q % SectorSize) + 1] = b
  <2>1. i \in 1..(last - first + 1)
    BY <1>3
  <2>2. first + i = c + 1
    BY <1>1, <1>7, <1>10, <1>11, <2>1
  <2>3. first + i - 1 = c
    BY <1>4, <2>1, <2>2
  <2>4. offset(first, i) = c * SectorSize
    BY <2>3
  <2>5. m + 1 \in 1..SectorSize
    BY <1>1, <1>6
  <2> HIDE DEF offset
  <2>6. w[i].holds.bytes = [k \in 1..SectorSize |-> Byte(offset(first, i) + k - 1)]
    BY <1>10, <2>1
  <2>9. w[i].holds.bytes[m + 1] = Byte(c * SectorSize + (m + 1) - 1)
    BY <2>4, <2>5, <2>6
  <2>7. c * SectorSize \in Nat
    BY <1>1
  <2>8. c * SectorSize + (m + 1) - 1 = q
    BY <1>6, <2>7
  <2> QED
    BY <1>6, <1>9, <2>8, <2>9
<1>12. ASSUME q >= p
       PROVE  \E i \in DOMAIN w : w[i].sector = ByteToSector(h, q)
  <2>1. first <= c
    BY <1>1, <1>6, <1>12, <1>2a, Quotients
  <2>2. c <= last
    <3>1. q <= p + n - 1
      OBVIOUS
    <3> QED
      BY <1>1, <1>4, <1>6, <1>2a, <3>1, Quotients
  <2>3. c - first + 1 \in 1..(last - first + 1) /\ first + (c - first + 1) = c + 1
    BY <1>4, <2>1, <2>2
  <2> PICK i : i = c - first + 1
    OBVIOUS
  <2>4. i \in DOMAIN w /\ first + i = c + 1
    BY <1>3, <2>3
  <2> QED
    BY <1>7, <1>10, <2>3, <2>4
<1> QED
  BY <1>0a, <1>11, <1>12 DEF Agree, Reach

\* The statements that leave writes behind them.
LEMMA WritesFollow ==
    ASSUME FileInv, todo # << >>
    PROVE  at \in {"format", "open", "perfOpen", "write", "removed"}
BY DEF FileInv, DiskInv, Settled, WritesData, Creating, Removing

LEMMA EndContents ==
    ASSUME NEW r, End(r)
    PROVE  CopyInv' /\ PrintInv'
BY DEF End, CopyInv, PrintInv

\* The head of the writes reaches the disk.
LEMMA WriteContents ==
    ASSUME FileInv, CopyInv, PrintInv, WriteSector, UNCHANGED cvars
    PROVE  CopyInv' /\ PrintInv'
<1>1. /\ todo # << >> /\ disk' = Written(disk, Head(todo)) /\ todo' = Tail(todo)
      /\ UNCHANGED << made, hdr, seekPosition >>
      /\ UNCHANGED << at, name, text, moved, printed, shown, commands >>
  BY DEF WriteSector, Written, Put, cvars
<1>2. at \in {"format", "open", "perfOpen", "write", "removed"}
  BY <1>1, WritesFollow
<1>3. PrintInv'
  BY <1>1, <1>2 DEF PrintInv
<1>4. CASE at # "write"
  BY <1>1, <1>2, <1>3, <1>4 DEF CopyInv
<1>5. CASE at = "write"
  <2>1. PICK t \in Tables : Settled(t)
    BY <1>5 DEF FileInv, DiskInv, Creating, Removing
  <2>2. todo \in Seq([sector : DataSectors(hdr), holds : Blocks]) /\ hdr \in Header
        /\ moved \in Nat /\ moved <= hdr.length /\ DOMAIN disk = Sectors
    BY <1>1, <1>5, <2>1
       DEF Settled, WritesData, OfCommand, CopyInv, FileInv, CommandTyped, DiskTyped
  <2>3. PICK x \in DataSectors(hdr), v \in Blocks :
          /\ x = Head(todo).sector /\ v = Head(todo).holds
          /\ todo[1].sector = x /\ todo[1].holds = v
    <3>0. PICK S : S = [sector : DataSectors(hdr), holds : Blocks]
      OBVIOUS
    <3>1. todo \in Seq(S) /\ todo # << >>
      BY <1>1, <2>2, <3>0
    <3>2. Head(todo) \in S /\ todo[1] = Head(todo)
      BY <3>1, HeadTailProperties
    <3>3. Head(todo).sector \in DataSectors(hdr) /\ Head(todo).holds \in Blocks
      BY <3>0, <3>2
    <3> QED
      BY <3>2, <3>3
  <2>4. disk' = Put(disk, x, v) /\ x \in Sectors
    BY <1>1, <2>2, <2>3, HeaderSectors DEF Written
  <2>5. /\ \A i \in DOMAIN todo' : i + 1 \in DOMAIN todo /\ todo'[i] = todo[i + 1]
        /\ \A i \in DOMAIN todo : i # 1 => i - 1 \in DOMAIN todo' /\ todo'[i - 1] = todo[i]
        /\ 1 \in DOMAIN todo
    <3> PICK S : S = [sector : DataSectors(hdr), holds : Blocks]
      OBVIOUS
    <3>1. todo \in Seq(S) /\ todo # << >>
      BY <1>1, <2>2
    <3> QED
      BY <1>1, <3>1
  <2>6. ASSUME NEW p \in Nat, p < moved
        PROVE  InPlace(p)'
    <3> PICK s, b, o : s = ByteToSector(hdr, p) /\ b = text[p + 1] /\ o = (p % SectorSize) + 1
      OBVIOUS
    <3>1. InPlace(p)
      BY <1>5, <2>6 DEF CopyInv
    <3>2. /\ \A i \in DOMAIN todo : todo[i].sector = s => todo[i].holds.bytes[o] = b
          /\ (\E i \in DOMAIN todo : todo[i].sector = s) \/ ByteAt(hdr, p) = b
      BY <3>1 DEF InPlace, Agree, Reach
    <3>3. s \in Sectors
      <4>1. hdr \in Header /\ p < hdr.length
        BY <2>2, <2>6 DEF Header
      <4> QED
        BY <4>1, ByteToSectorIsData
    <3>4. \A i \in DOMAIN todo' : todo'[i].sector = s => todo'[i].holds.bytes[o] = b
      BY <2>5, <3>2
    <3>5. CASE \E i \in DOMAIN todo : i # 1 /\ todo[i].sector = s
      <4>1. \E i \in DOMAIN todo' : todo'[i].sector = s
        BY <2>5, <3>5
      <4> QED
        BY <1>1, <3>4, <4>1 DEF InPlace, Agree, Reach, ByteToSector
    <3>6. CASE s = x
      <4>1. v.bytes[o] = b
        BY <2>3, <2>5, <3>2, <3>6
      <4>2. disk'[s] = v /\ "bytes" \in DOMAIN v
        BY <2>2, <2>4, <3>6, PutSector DEF Blocks
      <4>3. ByteAt(hdr, p)' = b
        BY <1>1, <4>1, <4>2 DEF ByteAt, ByteToSector
      <4> QED
        BY <1>1, <3>4, <4>3 DEF InPlace, Agree, Reach, ByteToSector
    <3>7. CASE s # x /\ ~\E i \in DOMAIN todo : i # 1 /\ todo[i].sector = s
      <4>1. ByteAt(hdr, p) = b
        BY <2>3, <3>2, <3>7
      <4>2. disk'[s] = disk[s]
        BY <2>2, <2>4, <3>3, <3>7, PutSector
      <4>3. ByteAt(hdr, p)' = b
        BY <1>1, <4>1, <4>2 DEF ByteAt, ByteToSector
      <4> QED
        BY <1>1, <3>4, <4>3 DEF InPlace, Agree, Reach, ByteToSector
    <3> QED
      BY <3>5, <3>6, <3>7
  <2>7. CopyInv'
    BY <1>1, <1>5, <2>6 DEF CopyInv
  <2> QED
    BY <1>3, <2>7
<1> QED
  BY <1>4, <1>5

\* The transfers of Copy, one after the other, are the text.
LEMMA CopyWriteContents ==
    ASSUME FileInv, CopyInv, PrintInv, CopyWrite
    PROVE  CopyInv' /\ PrintInv'
<1> DEFINE last == Min({moved + TransferSize, Len(text)})
<1> PICK transfer : transfer = SubSeq(text, moved + 1, last)
  OBVIOUS
<1>1. /\ at = "write" /\ todo = << >> /\ transfer # << >>
      /\ todo' = WriteAt(hdr, transfer, seekPosition)
      /\ seekPosition' = seekPosition + Clip(hdr, Len(transfer), seekPosition)
      /\ UNCHANGED << disk, made, hdr >>
      /\ moved' = moved + Len(transfer)
      /\ UNCHANGED << at, name, text, printed, shown, commands >>
  BY DEF CopyWrite, At, Write
<1>2. CommandTyped
  BY DEF FileInv
<1>3. /\ text \in Seq(Bytes) /\ Len(text) \in Nat /\ moved \in Nat /\ TransferSize \in Nat
      /\ seekPosition = moved /\ moved <= Len(text) /\ hdr \in Header
  BY <1>1, <1>2, TextIsBytes, FileTestAssumption DEF CommandTyped, CopyInv
<1>4. last \in moved..Len(text)
  <2>1. {moved + TransferSize, Len(text)} \in SUBSET Nat
    BY <1>3
  <2>2. last \in {moved + TransferSize, Len(text)} /\ last <= Len(text)
    BY <1>3, <2>1, MinOfNumbers
  <2> HIDE DEF last
  <2> QED
    BY <1>3, <2>2
<1> HIDE DEF last
<1>5. /\ Len(transfer) = last - moved
      /\ \A j \in 1..(last - moved) : transfer[j] = text[moved + j]
      /\ transfer \in Seq(Bytes)
  BY <1>3, <1>4
<1>6. Len(transfer) > 0 /\ Len(transfer) \in Nat
  BY <1>1, <1>5
<1>7. hdr.length = Len(text)
  <2>1. PICK t \in Tables : Settled(t)
    BY <1>1, NothingToWrite
  <2> QED
    BY <1>1, <2>1 DEF Settled, OfCommand
<1>8. moved' = last /\ moved' <= Len(text)
  BY <1>1, <1>3, <1>4, <1>5
<1>9. seekPosition' = moved'
  <2>1. Clip(hdr, Len(transfer), moved) = Len(transfer)
    BY <1>3, <1>4, <1>5, <1>6, <1>7 DEF Clip
  <2> QED
    BY <1>1, <1>3, <2>1
<1>10. ASSUME NEW p \in Nat, p < moved'
       PROVE  InPlace(p)'
  <2>0. PICK b : b = ByteAfter(hdr, transfer, moved, p)
    OBVIOUS
  <2>1. b = text[p + 1]
    <3>1. CASE p < moved
      <4>1. InPlace(p) /\ DOMAIN todo = {}
        BY <1>1, <3>1 DEF CopyInv
      <4> QED
        BY <2>0, <3>1, <4>1 DEF InPlace, Agree, Reach, ByteAfter
    <3>2. CASE ~(p < moved)
      <4>1. p - moved + 1 \in 1..(last - moved) /\ moved + (p - moved + 1) = p + 1
        BY <1>3, <1>4, <1>8, <1>10, <3>2
      <4>2. b = transfer[p - moved + 1]
        BY <2>0, <3>2 DEF ByteAfter
      <4> QED
        BY <1>5, <4>1, <4>2
    <3> QED
      BY <3>1, <3>2
  <2>2. moved + Len(transfer) <= hdr.length /\ p < moved + Len(transfer)
    BY <1>3, <1>4, <1>5, <1>7, <1>8, <1>10
  <2>2a. PICK w : w = WriteAt(hdr, transfer, moved)
    OBVIOUS
  <2>3. Agree(w, hdr, p, b) /\ (p >= moved => Reach(w, hdr, p))
    BY <1>3, <1>6, <2>0, <2>2, <2>2a, WriteAtWrites
  <2>4. p < moved => ByteAt(hdr, p) = b
    BY <2>0 DEF ByteAfter
  <2>5. Reach(w, hdr, p) \/ ByteAt(hdr, p) = b
    BY <1>3, <2>3, <2>4
  <2>6. todo' = w
    BY <1>1, <1>3, <2>2a
  <2> QED
    BY <1>1, <2>1, <2>3, <2>5, <2>6 DEF InPlace, Agree, Reach, ByteAt, ByteToSector
<1>11. CopyInv'
  BY <1>1, <1>8, <1>9, <1>10 DEF CopyInv
<1> QED
  BY <1>1, <1>11 DEF PrintInv

\* Two reads, one where the other ends.
LEMMA ReadsJoin ==
    ASSUME NEW h \in Header, NEW n \in Nat, NEW p \in 0..h.length, DiskTyped(disk)
    PROVE  ReadAt(h, p, 0) \o ReadAt(h, n, p) = ReadAt(h, p + Clip(h, n, p), 0)
<1>0. PICK c : c = Clip(h, n, p)
  OBVIOUS
<1>1. h.length \in Nat /\ p \in Nat /\ c \in Nat /\ p + c \in 0..h.length
  <2>1. h.length \in Nat /\ c \in 0..n /\ p + c \in 0..h.length
    BY <1>0, ClipIsLeft DEF Header
  <2> QED
    BY <2>1
<1>2. Clip(h, p, 0) = p /\ Clip(h, p + c, 0) = p + c
  BY <1>1 DEF Clip
<1>2a. PICK a, b : a = ReadAt(h, p, 0) /\ b = ReadAt(h, n, p)
  OBVIOUS
<1>3. /\ a = [i \in 1..p |-> ByteAt(h, 0 + i - 1)]
      /\ b = [i \in 1..c |-> ByteAt(h, p + i - 1)]
      /\ ReadAt(h, p + c, 0) = [i \in 1..(p + c) |-> ByteAt(h, 0 + i - 1)]
  BY <1>0, <1>2, <1>2a DEF ReadAt
<1>4. a \in Seq(Bytes) /\ b \in Seq(Bytes) /\ Len(a) = p /\ Len(b) = c
  <2>1. 0 \in 0..h.length
    BY <1>1
  <2> QED
    BY <1>0, <1>1, <1>2, <1>2a, <2>1, ReadAtIsBytes
<1>4a. PICK e : e = a \o b
  OBVIOUS
<1>5. /\ e \in Seq(Bytes) /\ Len(e) = p + c
      /\ \A i \in 1..p : e[i] = a[i]
      /\ \A i \in 1..c : e[p + i] = b[i]
  <2>1. e \in Seq(Bytes) /\ Len(e) = p + c
    BY <1>4, <1>4a, ConcatProperties
  <2>2. \A i \in 1..p : e[i] = a[i]
    BY <1>1, <1>4, <1>4a
  <2>3. \A i \in 1..c : e[p + i] = b[i]
    BY <1>1, <1>4, <1>4a
  <2> QED
    BY <2>1, <2>2, <2>3
<1>6. ASSUME NEW i \in 1..(p + c)
      PROVE  e[i] = ByteAt(h, 0 + i - 1)
  <2>1. CASE i <= p
    <3>1. i \in 1..p
      BY <1>1, <2>1
    <3> QED
      BY <1>3, <1>5, <3>1
  <2>2. CASE ~(i <= p)
    <3>1. i - p \in 1..c /\ p + (i - p) - 1 = 0 + i - 1 /\ p + (i - p) = i
      BY <1>1, <2>2
    <3>2. e[i] = b[i - p]
      BY <1>5, <3>1
    <3> QED
      BY <1>3, <3>1, <3>2
  <2> QED
    BY <2>1, <2>2
<1>7. PICK r : r = ReadAt(h, p + c, 0)
  OBVIOUS
<1>8. r \in Seq(Bytes) /\ Len(r) = p + c
  <2>1. 0 \in 0..h.length /\ p + c \in Nat
    BY <1>1
  <2> QED
    BY <1>2, <1>7, <2>1, ReadAtIsBytes
<1>9. \A i \in 1..Len(r) : e[i] = r[i]
  BY <1>3, <1>6, <1>7, <1>8
<1>10. e = r
  BY <1>5, <1>8, <1>9, SeqEqual
<1> QED
  BY <1>0, <1>2a, <1>4a, <1>7, <1>10

LEMMA PrintContents ==
    ASSUME FileInv, CopyInv, PrintInv, PrintFile
    PROVE  CopyInv' /\ PrintInv'
<1>1. CommandTyped /\ DiskTyped(disk)
  BY DEF FileInv
<1>2. CASE PrintOpen
  <2>1. CASE At("printOpen") /\ Open(key) /\ Goto("read")
    <3>1. /\ hdr' = disk[Find(Table, key)] /\ seekPosition' = 0 /\ disk' = disk
          /\ at' = "read" /\ printed' = << >>
      BY <2>1 DEF At, Open, Goto, PrintInv
    <3>2. ReadAt(hdr', 0, 0) = << >>
      <4>1. Clip(hdr', 0, 0) = 0
        BY DEF Clip
      <4> QED
        BY <4>1 DEF ReadAt
    <3>3. ReadAt(hdr, seekPosition, 0)' = << >>
      <4>1. Clip(hdr, seekPosition, 0)' = 0
        BY <3>1 DEF Clip
      <4> QED
        BY <4>1 DEF ReadAt
    <3> QED
      BY <3>1, <3>3 DEF CopyInv, PrintInv
  <2> QED
    BY <1>2, <2>1, EndContents DEF PrintOpen
<1>3. CASE PrintRead
  <2> PICK c : c = Clip(hdr, TransferSize, seekPosition)
    OBVIOUS
  <2>1. /\ at = "read" /\ printed' = printed \o ReadAt(hdr, TransferSize, seekPosition)
        /\ seekPosition' = seekPosition + c
        /\ UNCHANGED << disk, todo, made, hdr, at, name, text, moved, shown, commands >>
    BY <1>3 DEF PrintRead, At, Read
  <2>2. hdr \in Header /\ seekPosition \in 0..hdr.length /\ TransferSize \in Nat
    BY <1>1, FileTestAssumption DEF CommandTyped
  <2>3. printed' = ReadAt(hdr, seekPosition', 0)
    BY <1>1, <2>1, <2>2, ReadsJoin DEF PrintInv
  <2>4. ReadAt(hdr, seekPosition, 0)' = ReadAt(hdr, seekPosition', 0)
    BY <2>1 DEF ReadAt, ByteAt, ByteToSector, Clip
  <2> QED
    BY <2>1, <2>3, <2>4 DEF CopyInv, PrintInv
<1> QED
  BY <1>2, <1>3, EndContents DEF PrintFile, PrintEnd

LEMMA CopyContents ==
    ASSUME FileInv, CopyInv, PrintInv, Copy
    PROVE  CopyInv' /\ PrintInv'
<1>1. CASE At("create") /\ Goto("open")
  BY <1>1 DEF At, Goto, CopyInv, PrintInv
<1>2. CASE CopyOpen
  <2>1. at = "open" /\ seekPosition' = 0 /\ at' = "write" /\ moved' = moved /\ text' = text
    BY <1>2 DEF CopyOpen, At, Open, Goto
  <2>2. moved = 0 /\ Len(text) \in Nat
    BY <2>1, TextIsBytes DEF CopyInv, FileInv
  <2> QED
    BY <2>1, <2>2 DEF CopyInv, PrintInv
<1> QED
  BY <1>1, <1>2, CopyWriteContents, EndContents DEF Copy, CopyCreate, CopyEnd

LEMMA OtherContents ==
    ASSUME FileInv, CopyInv, PrintInv, Start \/ RemoveOption \/ PerformanceTest
    PROVE  CopyInv' /\ PrintInv'
<1>1. CASE Start
  BY <1>1 DEF Start, Begin, At, fsvars, CopyInv, PrintInv
<1>2. CASE at' \in {"removed", "perfOpen", "perfReopen", "perfWrite", "perfRead", "perfRemove"}
  BY <1>2 DEF CopyInv, PrintInv
<1>3. ASSUME NEW r, End(r)
      PROVE  CopyInv' /\ PrintInv'
  BY <1>3, EndContents
<1>4. CASE RemoveOption
  BY <1>2, <1>3, <1>4 DEF RemoveOption, Goto
<1>5. CASE FileWrite
  BY <1>2, <1>5 DEF FileWrite, At, Goto, PerfNext
<1>6. CASE FileRead
  BY <1>2, <1>6 DEF FileRead, At, Goto, PerfNext
<1>7. CASE PerformanceTest
  BY <1>2, <1>3, <1>5, <1>6, <1>7 DEF PerformanceTest, Goto
<1> QED
  BY <1>1, <1>4, <1>7

\* The file that is copied holds so far what Copy has written, and what Print has
\* printed is what it has read (fstest.cc:61-65, 89-93).
THEOREM ContentsInvariant == FTSpec => [](CopyInv /\ PrintInv)
<1>1. CInit => CopyInv /\ PrintInv
  BY DEF CInit, CopyInv, PrintInv
<1>2. FileInv /\ CopyInv /\ PrintInv /\ [FTNext]_ftvars => CopyInv' /\ PrintInv'
  <2>1. SUFFICES ASSUME FileInv, CopyInv, PrintInv, [FTNext]_ftvars
                 PROVE  CopyInv' /\ PrintInv'
    OBVIOUS
  <2>2. CASE WriteSector /\ UNCHANGED cvars
    BY <2>1, <2>2, WriteContents
  <2>3. CASE Mounted
    BY <2>3, EndContents DEF Mounted
  <2>4. CASE Copy
    BY <2>1, <2>4, CopyContents
  <2>5. CASE PrintFile
    BY <2>1, <2>5, PrintContents
  <2>6. CASE Start \/ RemoveOption \/ PerformanceTest
    BY <2>1, <2>6, OtherContents
  <2>7. CASE UNCHANGED ftvars
    <3>1. UNCHANGED << disk, todo, made, hdr, seekPosition, at, name, text, moved, printed >>
      BY <2>7 DEF ftvars, fsvars, cvars
    <3>2. ReadAt(hdr, seekPosition, 0)' = ReadAt(hdr, seekPosition, 0)
      BY <3>1 DEF ReadAt, ByteAt, ByteToSector, Clip
    <3>3. \A p : InPlace(p)' <=> InPlace(p)
      BY <3>1 DEF InPlace, Agree, Reach, ByteAt, ByteToSector
    <3> QED
      BY <2>1, <3>1, <3>2, <3>3 DEF CopyInv, PrintInv
  <2> QED
    BY <2>1, <2>2, <2>3, <2>4, <2>5, <2>6, <2>7 DEF FTNext
<1> QED
  BY <1>1, <1>2, FileInvariant, PTL DEF FTSpec

-----------------------------------------------------------------------------
(* The commands implement AbstractFiles.                                   *)

\* What the disk d holds of a file with header h, and of the file of name k in v.
ContentOn(d, h) ==
    [i \in 1..Clip(h, h.length, 0) |->
        LET block == d[ByteToSector(h, 0 + i - 1)]
        IN IF "bytes" \in DOMAIN block
             THEN block.bytes[((0 + i - 1) % SectorSize) + 1]
             ELSE Junk]

FileOf(d, v, k) ==
    LET s == Find(v, k) IN IF s = NoSector THEN NoFile ELSE ContentOn(d, d[s])

\* The directory v without entry m.
OthersOf(v, m) == [i \in 1..NumDirEntries |-> IF i = m THEN EmptyEntry ELSE v[i]]

FilesOf(d, v, m) == [k \in Keys |-> FileOf(d, OthersOf(v, m), k)]

LEMMA FilesNow ==
    /\ Files = IF at = "format" THEN [k \in Keys |-> NoFile]
               ELSE FilesOf(disk, TableOn(disk), made)
    /\ Files' = IF at' = "format" THEN [k \in Keys |-> NoFile]
                ELSE FilesOf(disk', TableOn(disk'), made')
<1>1. Others = OthersOf(TableOn(disk), made) /\ Others' = OthersOf(TableOn(disk'), made')
  BY DEF Others, OthersOf, Table, TableOn, DirSector
<1>2. \A h : /\ ReadAt(h, h.length, 0) = ContentOn(disk, h)
             /\ ReadAt(h, h.length, 0)' = ContentOn(disk', h)
  BY DEF ReadAt, ContentOn, ByteAt, ByteToSector, Clip
<1>3. ASSUME NEW k \in Keys
      PROVE  Files[k] = IF at = "format" THEN NoFile
                        ELSE FileOf(disk, OthersOf(TableOn(disk), made), k)
  BY <1>1, <1>2 DEF Files, FileOf, Formatted
<1>4. ASSUME NEW k \in Keys
      PROVE  Files'[k] = IF at' = "format" THEN NoFile
                         ELSE FileOf(disk', OthersOf(TableOn(disk'), made'), k)
  BY <1>1, <1>2 DEF Files, FileOf, Formatted
<1>5. Files = [k \in Keys |-> Files[k]] /\ Files' = [k \in Keys |-> Files'[k]]
  BY DEF Files
<1>6. Files = IF at = "format" THEN [k \in Keys |-> NoFile]
              ELSE FilesOf(disk, TableOn(disk), made)
  BY <1>3, <1>5 DEF FilesOf
<1>7. Files' = IF at' = "format" THEN [k \in Keys |-> NoFile]
               ELSE FilesOf(disk', TableOn(disk'), made')
  BY <1>4, <1>5 DEF FilesOf
<1> QED
  BY <1>6, <1>7

LEMMA OthersTable ==
    ASSUME NEW v \in Tables, NEW m
    PROVE  /\ OthersOf(v, m) \in Tables
           /\ Used(OthersOf(v, m)) = Used(v) \ {m}
           /\ \A i \in Used(v) \ {m} : OthersOf(v, m)[i] = v[i]
<1>1. EmptyEntry \in Entry /\ ~EmptyEntry.inUse
  BY DEF EmptyEntry, Entry
<1>2. DOMAIN v = 1..NumDirEntries
  BY DEF Tables
<1>3. OthersOf(v, m) \in Tables
  BY <1>1 DEF OthersOf, Tables
<1>4. DOMAIN OthersOf(v, m) = 1..NumDirEntries
      /\ \A i \in 1..NumDirEntries : OthersOf(v, m)[i] = IF i = m THEN EmptyEntry ELSE v[i]
  BY DEF OthersOf
<1> QED
  BY <1>1, <1>2, <1>3, <1>4 DEF Used

UniqueNames(v) == \A i, j \in Used(v) : v[i].name = v[j].name => i = j

\* The file of a name is that of the entry that has the name.
LEMMA FileFound ==
    ASSUME NEW d, NEW v \in Tables, UniqueNames(v), NEW k
    PROVE  /\ (\A i \in Used(v) : v[i].name # k) => FileOf(d, v, k) = NoFile
           /\ \A i \in Used(v) :
                v[i].name = k /\ v[i].sector # NoSector
                  => FileOf(d, v, k) = ContentOn(d, d[v[i].sector])
<1>1. PICK f : f = FindIndex(v, k)
  OBVIOUS
<1>2. Find(v, k) = IF f = 0 THEN NoSector ELSE v[f].sector
  BY <1>1 DEF Find
<1>3. /\ f = 0 => \A i \in Used(v) : v[i].name # k
      /\ f # 0 => f \in Used(v) /\ v[f].name = k
  BY <1>1, FindIndexFinds
<1>4. ASSUME \A i \in Used(v) : v[i].name # k
      PROVE  FileOf(d, v, k) = NoFile
  BY <1>2, <1>3, <1>4 DEF FileOf
<1>5. ASSUME NEW i \in Used(v), v[i].name = k, v[i].sector # NoSector
      PROVE  FileOf(d, v, k) = ContentOn(d, d[v[i].sector])
  <2>1. f # 0 /\ f = i
    BY <1>3, <1>5 DEF UniqueNames
  <2> QED
    BY <1>2, <1>5, <2>1 DEF FileOf
<1> QED
  BY <1>4, <1>5

\* The directory w has no file that v does not have, and on the disk e it holds what
\* it holds in v on the disk d.
Fewer(d, v, e, w) ==
    \A j \in Used(w) : /\ j \in Used(v)
                       /\ w[j].name = v[j].name /\ w[j].sector = v[j].sector
                       /\ v[j].sector # NoSector
                       /\ ContentOn(e, e[v[j].sector]) = ContentOn(d, d[v[j].sector])

NotGone(v, w, k) == \A j \in Used(v) \ Used(w) : v[j].name # k

\* A file is then the same, unless its entry is one of those that are gone.
LEMMA FileStays ==
    ASSUME NEW d, NEW e, NEW v \in Tables, NEW w \in Tables, UniqueNames(v),
           Fewer(d, v, e, w), NEW k, NotGone(v, w, k)
    PROVE  FileOf(e, w, k) = FileOf(d, v, k)
<1>1. UniqueNames(w)
  BY DEF UniqueNames, Fewer
<1>2. CASE \A i \in Used(v) : v[i].name # k
  <2>1. \A i \in Used(w) : w[i].name # k
    BY <1>2 DEF Fewer
  <2> QED
    BY <1>1, <1>2, <2>1, FileFound
<1>3. CASE \E i \in Used(v) : v[i].name = k
  <2>1. PICK i \in Used(v) : v[i].name = k
    BY <1>3
  <2>2. i \in Used(w) /\ w[i].name = k /\ w[i].sector = v[i].sector
        /\ v[i].sector # NoSector
        /\ ContentOn(e, e[v[i].sector]) = ContentOn(d, d[v[i].sector])
    BY <2>1 DEF Fewer, NotGone
  <2>3. FileOf(e, w, k) = ContentOn(e, e[w[i].sector])
    BY <1>1, <2>2, FileFound
  <2>4. FileOf(d, v, k) = ContentOn(d, d[v[i].sector])
    BY <2>1, <2>2, FileFound
  <2> QED
    BY <2>2, <2>3, <2>4
<1> QED
  BY <1>2, <1>3

\* A file is the same when none of its sectors changes.
LEMMA ContentStays ==
    ASSUME NEW d, NEW e, NEW h \in Header, \A s \in DataSectors(h) : e[s] = d[s]
    PROVE  ContentOn(e, h) = ContentOn(d, h)
<1>1. PICK n : n = Clip(h, h.length, 0)
  OBVIOUS
<1>2. h.length \in Nat
  BY DEF Header
<1>3. n \in 0..h.length
  BY <1>1, <1>2, ClipIsLeft
<1>4. ASSUME NEW i \in 1..n
      PROVE  e[ByteToSector(h, 0 + i - 1)] = d[ByteToSector(h, 0 + i - 1)]
  <2>1. 0 + i - 1 \in Nat /\ 0 + i - 1 < h.length
    BY <1>2, <1>3
  <2> QED
    BY <2>1, ByteToSectorIsData
<1> QED
  BY <1>1, <1>4 DEF ContentOn

\* It is a sequence of bytes, so that it is not NoFile.
LEMMA ContentIsText ==
    ASSUME NEW h \in Header, DiskTyped(disk)
    PROVE  ContentOn(disk, h) = ReadAt(h, h.length, 0) /\ ContentOn(disk, h) # NoFile
<1>1. h.length \in Nat /\ 0 \in 0..h.length
  BY DEF Header
<1>2. ReadAt(h, h.length, 0) \in Seq(Bytes)
  BY <1>1, ReadAtIsBytes
<1>3. ContentOn(disk, h) = ReadAt(h, h.length, 0)
  BY DEF ReadAt, ContentOn, ByteAt, ByteToSector, Clip
<1>4. NoFile \notin Seq(Bytes)
  BY FileTestAssumption DEF Bytes
<1> QED
  BY <1>2, <1>3, <1>4

\* The files of a directory that are not the command's are those that it had when the
\* command began.
LEMMA OthersAre ==
    ASSUME FileInv, at # "format", NEW t \in Tables, BeganWith(t),
           NEW v, v = OthersOf(Table, made)
    PROVE  /\ Table \in Tables /\ v \in Tables /\ UniqueNames(v)
           /\ Used(v) = Used(Table) \ {made}
           /\ \A j \in Used(v) : /\ j \in 1..NumDirEntries /\ j # made /\ Table[j].inUse
                                 /\ v[j] = Table[j]
                                 /\ j \in Used(t) /\ IsFile(disk, t[j])
                                 /\ v[j].sector = t[j].sector /\ v[j].name = t[j].name
<1>1. Table \in Tables /\ Whole(disk, t)
  BY DEF BeganWith
<1>2. /\ v \in Tables /\ Used(v) = Used(Table) \ {made}
      /\ \A j \in Used(v) : v[j] = Table[j]
  BY <1>1, OthersTable
<1>3. \A j \in Used(v) : /\ j \in 1..NumDirEntries /\ j # made /\ Table[j].inUse
                         /\ v[j] = Table[j]
  BY <1>1, <1>2 DEF Used, Tables
<1>4. \A j \in Used(v) : /\ t[j].inUse
                         /\ v[j].sector = t[j].sector /\ v[j].name = t[j].name
  BY <1>3 DEF BeganWith
<1>5. \A j \in Used(v) : j \in Used(t)
  BY <1>3, <1>4 DEF Used, Tables
<1>6. \A j \in Used(v) : IsFile(disk, t[j])
  BY <1>1, <1>5 DEF Whole
<1>7. UniqueNames(v)
  <2> SUFFICES ASSUME NEW i \in Used(v), NEW j \in Used(v), v[i].name = v[j].name
               PROVE  i = j
    BY DEF UniqueNames
  <2>1. i \in Used(t) /\ j \in Used(t) /\ t[i].name = t[j].name
    BY <1>4, <1>5
  <2> QED
    BY <1>1, <2>1 DEF Whole
<1> QED
  BY <1>1, <1>2, <1>3, <1>4, <1>5, <1>6, <1>7

\* A write of a sector removes the file of the command, or nothing changes.
LEMMA WriteImplements ==
    ASSUME FileInv, WriteSector, UNCHANGED cvars
    PROVE  UNCHANGED << Files, shown >> \/ Commands!Delete(key)
<1>1. UNCHANGED << made, at, name, shown >>
  BY DEF WriteSector, cvars
<1>2. CASE at = "format"
  BY <1>1, <1>2, FilesNow
<1>3. CASE at # "format"
  <2>1. PICK t \in Tables : BeganWith(t) /\ Lessens(t)
    BY <1>3, WriteSpares
  <2>2. PICK v, w : v = OthersOf(Table, made) /\ w = OthersOf(TableOn(disk'), made)
    OBVIOUS
  <2>3. DiskTyped(disk) /\ key \in Keys
    BY KeyIsKey DEF FileInv
  <2>4. /\ v \in Tables /\ UniqueNames(v) /\ Used(v) = Used(Table) \ {made}
        /\ \A j \in Used(v) : /\ j \in 1..NumDirEntries /\ j # made /\ Table[j].inUse
                              /\ v[j] = Table[j]
                              /\ j \in Used(t) /\ IsFile(disk, t[j])
                              /\ v[j].sector = t[j].sector /\ v[j].name = t[j].name
    BY <1>3, <2>1, <2>2, OthersAre
  <2>5. Table \in Tables /\ TableOn(disk') \in Tables
    BY <2>1 DEF BeganWith, Lessens
  <2>6. /\ w \in Tables /\ Used(w) = Used(TableOn(disk')) \ {made}
        /\ \A j \in Used(w) : w[j] = TableOn(disk')[j]
    BY <2>2, <2>5, OthersTable
  <2>7. \A j \in Used(w) : /\ j \in Used(v)
                           /\ w[j].name = v[j].name /\ w[j].sector = v[j].sector
    <3> SUFFICES ASSUME NEW j \in Used(w)
                 PROVE  /\ j \in Used(v)
                        /\ w[j].name = v[j].name /\ w[j].sector = v[j].sector
      OBVIOUS
    <3>1. j \in (1..NumDirEntries) \ {made} /\ TableOn(disk')[j].inUse
      BY <2>5, <2>6 DEF Used, Tables
    <3>2. /\ Table[j].inUse
          /\ TableOn(disk')[j].sector = Table[j].sector
          /\ TableOn(disk')[j].name = Table[j].name
      BY <2>1, <3>1 DEF Lessens
    <3>3. j \in Used(v)
      BY <2>4, <2>5, <3>1, <3>2 DEF Used, Tables
    <3> QED
      BY <2>4, <2>6, <3>2, <3>3
  <2>8. \A j \in Used(v) \ Used(w) : v[j].name = key
    <3> SUFFICES ASSUME NEW j \in Used(v) \ Used(w)
                 PROVE  v[j].name = key
      OBVIOUS
    <3>1. j \in (1..NumDirEntries) \ {made} /\ Table[j].inUse
      BY <2>4
    <3>2. ~TableOn(disk')[j].inUse
      BY <2>5, <2>6, <3>1 DEF Used, Tables
    <3>3. t[j].name = key
      BY <2>1, <3>1, <3>2 DEF Lessens
    <3> QED
      BY <2>4, <3>3
  <2>9. \A j \in Used(v) : /\ v[j].sector # NoSector
                           /\ disk[v[j].sector] \in Header
                           /\ disk'[v[j].sector] = disk[v[j].sector]
                           /\ ContentOn(disk', disk'[v[j].sector])
                                = ContentOn(disk, disk[v[j].sector])
    <3> SUFFICES ASSUME NEW j \in Used(v)
                 PROVE  /\ v[j].sector # NoSector
                        /\ disk[v[j].sector] \in Header
                        /\ disk'[v[j].sector] = disk[v[j].sector]
                        /\ ContentOn(disk', disk'[v[j].sector])
                             = ContentOn(disk, disk[v[j].sector])
      OBVIOUS
    <3> PICK r, h : r = v[j].sector /\ h = disk[r]
      OBVIOUS
    <3>1. r \in Sectors /\ h \in Header
      BY <2>4 DEF IsFile
    <3>2. Head(todo).sector \notin {r} \cup DataSectors(h)
      <4>1. Head(todo).sector \notin Owned(disk, t[j])
        BY <2>1, <2>4 DEF Lessens
      <4> QED
        BY <2>4, <4>1 DEF Owned
    <3>3. \A x \in Sectors : x # Head(todo).sector => disk'[x] = disk[x]
      BY <2>3 DEF WriteSector, DiskTyped
    <3>4. disk'[r] = h /\ \A x \in DataSectors(h) : disk'[x] = disk[x]
      BY <3>1, <3>2, <3>3, HeaderSectors
    <3> QED
      BY <3>1, <3>4, ContentStays DEF NoSector, Sectors
  <2>10. ASSUME NEW k, NotGone(v, w, k)
         PROVE  FileOf(disk', w, k) = FileOf(disk, v, k)
    <3>1. Fewer(disk, v, disk', w)
      BY <2>7, <2>9 DEF Fewer
    <3>2. v \in Tables /\ w \in Tables /\ UniqueNames(v)
      BY <2>4, <2>6
    <3> QED
      BY <2>10, <3>1, <3>2, FileStays
  <2>11. /\ Files = [k \in Keys |-> FileOf(disk, v, k)]
         /\ Files' = [k \in Keys |-> FileOf(disk', w, k)]
    BY <1>1, <1>3, <2>2, FilesNow, ReadNow DEF FilesOf
  <2>12. CASE \A j \in Used(v) \ Used(w) : v[j].name # key
    <3>1. \A k \in Keys : FileOf(disk', w, k) = FileOf(disk, v, k)
      BY <2>8, <2>10, <2>12 DEF NotGone
    <3> QED
      BY <1>1, <2>11, <3>1
  <2>13. CASE \E j \in Used(v) \ Used(w) : v[j].name = key
    <3>1. PICK j \in Used(v) \ Used(w) : v[j].name = key
      BY <2>13
    <3>2. FileOf(disk, v, key) = ContentOn(disk, disk[v[j].sector])
      BY <2>4, <2>9, <3>1, FileFound
    <3>3. FileOf(disk, v, key) # NoFile
      BY <2>3, <2>9, <3>2, ContentIsText
    <3>4. FileOf(disk', w, key) = NoFile
      <4>1. UniqueNames(w) /\ \A i \in Used(w) : w[i].name # key
        BY <2>4, <2>7, <3>1 DEF UniqueNames
      <4> QED
        BY <2>6, <4>1, FileFound
    <3>5. \A k \in Keys : k # key => FileOf(disk', w, k) = FileOf(disk, v, k)
      BY <2>8, <2>10 DEF NotGone
    <3>6. Files[key] # NoFile
      BY <2>3, <2>11, <3>3
    <3>7. Files' = [Files EXCEPT ![key] = NoFile]
      BY <2>3, <2>11, <3>4, <3>5
    <3> QED
      BY <1>1, <3>6, <3>7 DEF Commands!Delete
  <2> QED
    BY <2>12, <2>13
<1> QED
  BY <1>2, <1>3

\* A step that writes nothing changes no file, unless it is the last of the command
\* that has made one.
LEMMA FilesSame ==
    ASSUME FileInv, at # "format", at' # "format", UNCHANGED disk,
           made' = made \/ (made \notin Used(Table) /\ made' \notin Used(Table))
    PROVE  Files' = Files
<1>1. CASE made' = made
  BY <1>1, FilesNow
<1>2. CASE made \notin Used(Table) /\ made' \notin Used(Table)
  <2>1. PICK t \in Tables : BeganWith(t)
    BY OthersBegan
  <2>2. PICK v, w, m : v = OthersOf(Table, made) /\ w = OthersOf(Table, m) /\ m = made'
    OBVIOUS
  <2>3. /\ Table \in Tables /\ v \in Tables /\ UniqueNames(v)
        /\ Used(v) = Used(Table)
        /\ \A j \in Used(v) : v[j] = Table[j] /\ IsFile(disk, t[j]) /\ v[j].sector = t[j].sector
    <3>1. /\ Table \in Tables /\ v \in Tables /\ UniqueNames(v)
          /\ Used(v) = Used(Table) \ {made}
          /\ \A j \in Used(v) : v[j] = Table[j] /\ IsFile(disk, t[j]) /\ v[j].sector = t[j].sector
      BY <2>1, <2>2, OthersAre
    <3> QED
      BY <1>2, <3>1
  <2>4. /\ w \in Tables /\ Used(w) = Used(Table)
        /\ \A j \in Used(w) : w[j] = Table[j]
    BY <1>2, <2>2, <2>3, OthersTable
  <2>5. Fewer(disk, v, disk, w)
    <3>1. \A j \in Used(v) : v[j].sector # NoSector
      BY <2>3 DEF IsFile, Sectors, NoSector
    <3> QED
      BY <2>3, <2>4, <3>1 DEF Fewer
  <2>6. \A k : NotGone(v, w, k)
    BY <2>3, <2>4 DEF NotGone
  <2>7. \A k : FileOf(disk, w, k) = FileOf(disk, v, k)
    BY <2>3, <2>4, <2>5, <2>6, FileStays
  <2>8. /\ Files = [k \in Keys |-> FileOf(disk, v, k)]
        /\ Files' = [k \in Keys |-> FileOf(disk, w, k)]
    BY <2>2, FilesNow, ReadNow DEF FilesOf
  <2> QED
    BY <2>7, <2>8
<1> QED
  BY <1>1, <1>2

LEMMA ZeroIsUnused ==
    ASSUME NEW t \in Tables
    PROVE  0 \notin Used(t)
BY DEF Used, Tables

\* No Nachos file is there after formatting.
LEMMA MountedImplements ==
    ASSUME FileInv, Mounted
    PROVE  UNCHANGED << Files, shown >>
<1>1. /\ at = "format" /\ todo = << >> /\ UNCHANGED << disk, shown >>
      /\ at' = "idle" /\ made' = 0
  BY DEF Mounted, At, End, Close
<1>2. PICK n \in 0..5 : MidFormat(disk, << >>, n)
  BY <1>1 DEF FileInv, FormatInv
<1> PICK z : z = EmptyDirectory
  OBVIOUS
<1>3. z \in Tables /\ TableOn(disk) = z
  <2>1. EmptyDirectory \in Tables /\ Complete(disk, EmptyDirectory)
    BY <1>2, FormatDone DEF FileInv
  <2> QED
    BY <2>1, LaidIsRead DEF Complete
<1>4. Used(z) = {}
  BY DEF Used, EmptyDirectory, EmptyEntry
<1> PICK w : w = OthersOf(z, 0)
  OBVIOUS
<1>5. w \in Tables /\ Used(w) = {}
  BY <1>3, <1>4, OthersTable
<1>6. \A k : FileOf(disk, w, k) = NoFile
  BY <1>5, FileFound DEF UniqueNames
<1>7. Files' = [k \in Keys |-> FileOf(disk, w, k)]
  BY <1>1, <1>3, FilesNow DEF FilesOf
<1>8. Files = [k \in Keys |-> NoFile]
  BY <1>1, FilesNow
<1> QED
  BY <1>1, <1>6, <1>7, <1>8

\* Create takes an entry that is unused.
LEMMA CreateTakesUnused ==
    ASSUME FileInv, at # "format", NEW size, Create(key, size)
    PROVE  made' \notin Used(Table) /\ UNCHANGED disk
<1>1. Table \in Tables
  BY OthersBegan DEF BeganWith
<1>2. made' = FirstUnused(Table) /\ FirstUnused(Table) # 0 /\ disk' = disk
  BY DEF Create, CanCreate
<1>3. ~Table[made'].inUse
  BY <1>1, <1>2, FirstUnusedIsUnused
<1> QED
  BY <1>2, <1>3 DEF Used

\* The end of a command that has made no file.
LEMMA EndImplements ==
    ASSUME FileInv, at # "format", NEW r, End(r), made \notin Used(Table)
    PROVE  Files' = Files /\ shown' = r
<1>1. UNCHANGED disk /\ made' = 0 /\ at' = "idle" /\ shown' = r
  BY DEF End, Close
<1>2. Table \in Tables
  BY OthersBegan DEF BeganWith
<1> QED
  BY <1>1, <1>2, ZeroIsUnused, FilesSame

\* The last step of Copy: the file is there, with the contents of the text.
LEMMA CopyEndImplements ==
    ASSUME FileInv, CopyInv, CopyEnd
    PROVE  text \in Texts /\ Commands!CopyIn(key, text)
<1>1. /\ at = "write" /\ todo = << >> /\ moved = Len(text)
      /\ UNCHANGED << disk, shown >> /\ at' = "idle" /\ made' = 0
  BY DEF CopyEnd, At, End, Close
<1>2. DiskTyped(disk) /\ text \in Texts /\ text \in Seq(Bytes) /\ key \in Keys /\ hdr \in Header
  BY <1>1, TextIsBytes, KeyIsKey DEF FileInv, CommandTyped
<1>3. PICK t \in Tables : Settled(t) /\ Table = t
  BY <1>1, NothingToWrite
<1>4. /\ BeganWith(t) /\ Whole(disk, t)
      /\ made \in Used(t) /\ t[made].name = key
      /\ hdr = disk[t[made].sector] /\ hdr.length = Len(text)
  BY <1>1, <1>3, SettledBegan DEF Settled, OfCommand, Has, Complete
<1> PICK v, w : v = OthersOf(t, 0) /\ w = OthersOf(t, made)
  OBVIOUS
<1>5. /\ v \in Tables /\ Used(v) = Used(t)
      /\ \A j \in Used(v) : v[j] = t[j]
  <2>1. /\ v \in Tables /\ Used(v) = Used(t) \ {0}
        /\ \A j \in Used(v) : v[j] = t[j]
    BY OthersTable
  <2> QED
    BY <2>1, ZeroIsUnused
<1>6. /\ w \in Tables /\ Used(w) = Used(t) \ {made}
      /\ \A j \in Used(w) : w[j] = t[j]
  BY OthersTable
<1>7. UniqueNames(v) /\ UniqueNames(w)
  BY <1>4, <1>5, <1>6 DEF UniqueNames, Whole
<1>8. \A j \in Used(t) : t[j].sector # NoSector /\ t[j].sector \in Sectors
  BY <1>4 DEF Whole, IsFile, Sectors, NoSector
<1>9. ASSUME NEW k \in Keys, k # key
      PROVE  FileOf(disk, w, k) = FileOf(disk, v, k)
  <2>1. Fewer(disk, v, disk, w)
    BY <1>5, <1>6, <1>8 DEF Fewer
  <2>2. NotGone(v, w, k)
    BY <1>4, <1>5, <1>6, <1>9 DEF NotGone
  <2> QED
    BY <1>5, <1>6, <1>7, <2>1, <2>2, FileStays
<1>10. FileOf(disk, w, key) = NoFile
  <2>1. \A i \in Used(w) : w[i].name # key
    BY <1>4, <1>6 DEF Whole
  <2> QED
    BY <1>6, <1>7, <2>1, FileFound
<1>11. FileOf(disk, v, key) = text
  <2>1. FileOf(disk, v, key) = ContentOn(disk, hdr)
    BY <1>4, <1>5, <1>7, <1>8, FileFound
  <2> PICK n, c : n = Len(text) /\ c = ReadAt(hdr, hdr.length, 0)
    OBVIOUS
  <2>2. ContentOn(disk, hdr) = c
    BY <1>2, ContentIsText
  <2>3. n \in Nat /\ hdr.length = n /\ 0 \in 0..hdr.length
    BY <1>2, <1>4
  <2>4. Clip(hdr, n, 0) = n
    BY <2>3 DEF Clip
  <2>5. c \in Seq(Bytes) /\ Len(c) = n
    BY <1>2, <2>3, <2>4, ReadAtIsBytes
  <2>6. \A i \in 1..n : c[i] = ByteAt(hdr, 0 + i - 1)
    BY <2>3, <2>4 DEF ReadAt
  <2>7. \A i \in 1..n : ByteAt(hdr, 0 + i - 1) = text[i]
    <3> SUFFICES ASSUME NEW i \in 1..n
                 PROVE  ByteAt(hdr, 0 + i - 1) = text[i]
      OBVIOUS
    <3> PICK p : p = 0 + i - 1
      OBVIOUS
    <3>1. p \in Nat /\ p < moved /\ p + 1 = i
      BY <1>1, <2>3
    <3>2. InPlace(p)
      BY <1>1, <3>1 DEF CopyInv
    <3>3. DOMAIN todo = {}
      BY <1>1
    <3> QED
      BY <3>1, <3>2, <3>3 DEF InPlace, Reach
  <2>8. c = text
    BY <1>2, <2>5, <2>6, <2>7, SeqEqual
  <2> QED
    BY <2>1, <2>2, <2>8
<1>12. /\ Files = [k \in Keys |-> FileOf(disk, w, k)]
       /\ Files' = [k \in Keys |-> FileOf(disk, v, k)]
  BY <1>1, <1>3, FilesNow, ReadNow DEF FilesOf
<1>13. Files[key] = NoFile
  BY <1>2, <1>10, <1>12
<1>14. Files' = [Files EXCEPT ![key] = text]
  BY <1>2, <1>9, <1>11, <1>12
<1> QED
  BY <1>1, <1>2, <1>13, <1>14 DEF Commands!CopyIn

\* The last step of Print: what it has printed is what is in the file.
LEMMA PrintEndImplements ==
    ASSUME FileInv, PrintInv, PrintEnd
    PROVE  Commands!Show(key)
<1>1. /\ at = "read" /\ todo = << >> /\ End(printed)
      /\ ReadAt(hdr, TransferSize, seekPosition) = << >>
  BY DEF PrintEnd, At
<1>2. /\ DiskTyped(disk) /\ key \in Keys /\ hdr \in Header /\ made = 0
      /\ seekPosition \in 0..hdr.length /\ TransferSize \in Nat \ {0}
  BY <1>1, KeyIsKey, FileTestAssumption DEF FileInv, CommandTyped
<1>3. PICK t \in Tables : Settled(t) /\ Table = t
  BY <1>1, NothingToWrite
<1>4. BeganWith(t) /\ Whole(disk, t)
  BY <1>3, SettledBegan DEF Settled, Complete
<1>5. PICK i \in Used(t) : t[i].name = key /\ hdr = disk[t[i].sector]
  BY <1>1, <1>3 DEF Settled, OfCommand
<1>6. Files' = Files /\ shown' = printed
  BY <1>1, <1>2, <1>3, ZeroIsUnused, EndImplements
<1>7. seekPosition = hdr.length
  <2>1. Len(ReadAt(hdr, TransferSize, seekPosition)) = Clip(hdr, TransferSize, seekPosition)
    BY <1>2, ReadAtIsBytes
  <2>2. Clip(hdr, TransferSize, seekPosition) = 0
    BY <1>1, <2>1
  <2>3. hdr.length \in Nat
    BY <1>2 DEF Header
  <2> QED
    BY <1>2, <2>2, <2>3 DEF Clip
<1>8. printed = ContentOn(disk, hdr) /\ printed # NoFile
  BY <1>1, <1>2, <1>7, ContentIsText DEF PrintInv
<1>9. Files[key] = printed
  <2> PICK v : v = OthersOf(t, 0)
    OBVIOUS
  <2>1. /\ v \in Tables /\ Used(v) = Used(t) \ {0}
        /\ \A j \in Used(v) : v[j] = t[j]
    BY OthersTable
  <2>2. i \in Used(v) /\ v[i] = t[i]
    BY <2>1, ZeroIsUnused
  <2>3. UniqueNames(v)
    BY <1>4, <2>1 DEF UniqueNames, Whole
  <2>4. t[i].sector # NoSector
    BY <1>4 DEF Whole, IsFile, Sectors, NoSector
  <2>5. FileOf(disk, v, key) = ContentOn(disk, hdr)
    BY <1>5, <2>1, <2>2, <2>3, <2>4, FileFound
  <2>6. Files = [k \in Keys |-> FileOf(disk, v, k)]
    BY <1>1, <1>2, <1>3, FilesNow, ReadNow DEF FilesOf
  <2> QED
    BY <1>2, <1>8, <2>5, <2>6
<1> QED
  BY <1>6, <1>8, <1>9 DEF Commands!Show

\* The other steps change no file, and nothing is shown.
LEMMA CopyImplements ==
    ASSUME FileInv, CopyInv, Copy
    PROVE  UNCHANGED << Files, shown >> \/ \E x \in Texts : Commands!CopyIn(key, x)
<1>1. CASE CopyCreate
  <2>1. at = "create" /\ made = 0 /\ Table \in Tables
    BY <1>1, OthersBegan DEF CopyCreate, At, FileInv, CommandTyped, BeganWith
  <2>2. made \notin Used(Table)
    BY <2>1, ZeroIsUnused
  <2>3. CASE Create(key, Len(text)) /\ Goto("open")
    <3>1. made' \notin Used(Table) /\ UNCHANGED disk
      BY <2>1, <2>3, CreateTakesUnused
    <3>2. at' = "open" /\ shown' = shown
      BY <2>3 DEF Goto
    <3> QED
      BY <2>1, <2>2, <3>1, <3>2, FilesSame
  <2>4. CASE End(shown)
    BY <2>1, <2>2, <2>4, EndImplements
  <2> QED
    BY <1>1, <2>3, <2>4 DEF CopyCreate
<1>2. CASE CopyOpen
  <2>1. at = "open" /\ at' = "write" /\ UNCHANGED << disk, made, shown >>
    BY <1>2 DEF CopyOpen, At, Open, Goto
  <2> QED
    BY <2>1, FilesSame
<1>3. CASE CopyWrite
  <2>1. at = "write" /\ UNCHANGED << at, disk, made, shown >>
    BY <1>3 DEF CopyWrite, At, Write
  <2> QED
    BY <2>1, FilesSame
<1>4. CASE CopyEnd
  BY <1>4, CopyEndImplements
<1> QED
  BY <1>1, <1>2, <1>3, <1>4 DEF Copy

LEMMA PrintImplements ==
    ASSUME FileInv, PrintInv, PrintFile
    PROVE  UNCHANGED << Files, shown >> \/ Commands!Show(key)
<1>1. CASE PrintOpen
  <2>1. at = "printOpen" /\ made = 0 /\ Table \in Tables
    BY <1>1, OthersBegan DEF PrintOpen, At, FileInv, CommandTyped, BeganWith
  <2>2. made \notin Used(Table)
    BY <2>1, ZeroIsUnused
  <2>3. CASE Open(key) /\ Goto("read")
    <3>1. at' = "read" /\ UNCHANGED << disk, made, shown >>
      BY <2>3 DEF Open, Goto
    <3> QED
      BY <2>1, <3>1, FilesSame
  <2>4. CASE End(shown)
    BY <2>1, <2>2, <2>4, EndImplements
  <2> QED
    BY <1>1, <2>3, <2>4 DEF PrintOpen
<1>2. CASE PrintRead
  <2>1. at = "read" /\ UNCHANGED << at, disk, made, shown >>
    BY <1>2 DEF PrintRead, At, Read
  <2> QED
    BY <2>1, FilesSame
<1>3. CASE PrintEnd
  BY <1>3, PrintEndImplements
<1> QED
  BY <1>1, <1>2, <1>3 DEF PrintFile

LEMMA RemoveBeginsSame ==
    ASSUME FileInv, at # "format", RemoveFile(key), Goto("removed")
    PROVE  UNCHANGED << Files, shown >>
<1>1. at' = "removed" /\ UNCHANGED << disk, made, shown >>
  BY DEF RemoveFile, Goto
<1> QED
  BY <1>1, FilesSame

LEMMA RemoveOptionSame ==
    ASSUME FileInv, RemoveOption
    PROVE  UNCHANGED << Files, shown >>
<1>1. CASE at = "remove"
  <2>1. made = 0 /\ Table \in Tables
    BY <1>1, OthersBegan DEF FileInv, CommandTyped, BeganWith
  <2>2. made \notin Used(Table)
    BY <2>1, ZeroIsUnused
  <2> QED
    BY <1>1, <2>2, RemoveBeginsSame, EndImplements DEF RemoveOption, At
<1>2. CASE at = "removed" /\ todo = << >> /\ End(shown)
  <2>1. PICK t \in Tables : Settled(t) /\ Table = t
    BY <1>2, NothingToWrite
  <2>2. made \notin Used(Table)
    BY <1>2, <2>1 DEF Settled, OfCommand
  <2> QED
    BY <1>2, <2>2, EndImplements
<1> QED
  BY <1>1, <1>2 DEF RemoveOption, At

LEMMA PerformanceTestSame ==
    ASSUME FileInv, PerformanceTest
    PROVE  UNCHANGED << Files, shown >>
<1>1. CASE FileWrite
  <2>1. CASE At("perfCreate") /\ Create(key, 0) /\ Goto("perfOpen")
    <3>1. at = "perfCreate" /\ made = 0 /\ Table \in Tables
      BY <2>1, OthersBegan DEF At, FileInv, CommandTyped, BeganWith
    <3>2. made \notin Used(Table)
      BY <3>1, ZeroIsUnused
    <3>3. made' \notin Used(Table) /\ UNCHANGED disk
      BY <2>1, <3>1, CreateTakesUnused
    <3>4. at' = "perfOpen" /\ shown' = shown
      BY <2>1 DEF Goto
    <3> QED
      BY <3>1, <3>2, <3>3, <3>4, FilesSame
  <2>2. CASE UNCHANGED << disk, made, shown >> /\ at # "format" /\ at' # "format"
    BY <2>2, FilesSame
  <2> QED
    BY <1>1, <2>1, <2>2 DEF FileWrite, At, Open, Write, Goto, PerfNext, fsvars
<1>2. CASE FileRead
  <2>1. UNCHANGED << disk, made, shown >> /\ at # "format" /\ at' # "format"
    BY <1>2 DEF FileRead, At, Open, Read, Goto, PerfNext, fsvars
  <2> QED
    BY <2>1, FilesSame
<1>3. CASE At("perfRemove") /\ RemoveFile(key) /\ Goto("removed")
  BY <1>3, RemoveBeginsSame DEF At
<1>4. CASE At("perfRemove") /\ Find(Table, key) = NoSector /\ End(shown)
  <2>1. PICK t \in Tables : Settled(t) /\ Table = t
    BY <1>4, NothingToWrite DEF At
  <2>2. ~Has(t)
    <3> SUFFICES ASSUME Has(t)
                 PROVE  FALSE
      OBVIOUS
    <3> PICK f, k : f = FindIndex(t, k) /\ k = key
      OBVIOUS
    <3>1. made \in Used(t) /\ t[made].name = k
      BY DEF Has
    <3>2. f # 0 /\ f \in Used(t)
      BY <3>1, FindIndexFinds
    <3>3. Find(t, k) = t[f].sector
      BY <3>2 DEF Find
    <3>4. t[f].sector \in Sectors
      BY <2>1, <3>2 DEF Settled, Complete, Whole, IsFile
    <3> QED
      BY <1>4, <2>1, <3>3, <3>4 DEF Sectors, NoSector
  <2>3. made = 0
    BY <1>4, <2>1, <2>2 DEF At, Settled, OfCommand
  <2>4. made \notin Used(Table)
    BY <2>1, <2>3, ZeroIsUnused
  <2> QED
    BY <1>4, <2>4, EndImplements DEF At
<1> QED
  BY <1>1, <1>2, <1>3, <1>4 DEF PerformanceTest

LEMMA StartSame ==
    ASSUME FileInv, Start
    PROVE  UNCHANGED << Files, shown >>
<1>1. UNCHANGED << disk, made, shown >> /\ at # "format" /\ at' # "format"
  BY DEF Start, Begin, At, fsvars
<1> QED
  BY <1>1, FilesSame

LEMMA CommandsImplement ==
    ASSUME FileInv, CopyInv, PrintInv, [FTNext]_ftvars
    PROVE  [Commands!ANext]_<< Files, shown >>
<1>1. key \in Keys
  BY KeyIsKey DEF FileInv
<1>2. CASE UNCHANGED ftvars
  <2>1. UNCHANGED << disk, made, at, shown >>
    BY <1>2 DEF ftvars, fsvars, cvars
  <2>2. CASE at = "format"
    BY <2>1, <2>2, FilesNow
  <2>3. CASE at # "format"
    BY <2>1, <2>3, FilesSame
  <2> QED
    BY <2>1, <2>2, <2>3
<1>3. CASE WriteSector /\ UNCHANGED cvars
  BY <1>1, <1>3, WriteImplements DEF Commands!ANext
<1>4. CASE Copy
  BY <1>1, <1>4, CopyImplements DEF Commands!ANext
<1>5. CASE PrintFile
  BY <1>1, <1>5, PrintImplements DEF Commands!ANext
<1> QED
  BY <1>2, <1>3, <1>4, <1>5, MountedImplements, StartSame, RemoveOptionSame,
     PerformanceTestSame
     DEF FTNext

\* What the commands do with the sectors implements AbstractFiles: -cp makes a file
\* with the contents of a text, -r removes one, -p shows what is in one, and whatever
\* else they write touches no file (threads/main.cc:30-35, fstest.cc).
THEOREM CommandsImplementFiles == FTSpec => ImplementsFiles
<1>1. CInit => Commands!AInit
  <2>1. ASSUME CInit
        PROVE  at = "format" /\ shown = NoFile
    BY <2>1 DEF CInit
  <2> QED
    BY <2>1, FilesNow DEF Commands!AInit
<1>2. FileInv /\ CopyInv /\ PrintInv /\ [FTNext]_ftvars
        => [Commands!ANext]_<< Files, shown >>
  BY CommandsImplement
<1> QED
  BY <1>1, <1>2, FileInvariant, ContentsInvariant, PTL
     DEF FTSpec, ImplementsFiles, Commands!ASpec, Commands!avars

\* Both of a command's views: sector by sector, and as a whole.
THEOREM FilesAreKept == FTSpec => FilesKept
BY OtherFilesAreSpared, CommandsImplementFiles DEF FilesKept

=============================================================================
