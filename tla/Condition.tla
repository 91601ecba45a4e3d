----------------------------- MODULE Condition -----------------------------
(***************************************************************************)
(* class Condition of threads/synch.cc: a Semaphore of initial value 0 and *)
(* the counter blockNum.  The condition variables of a monitor (one Lock)  *)
(* are named by their semaphores, the elements of Conds.                   *)
(*                                                                         *)
(* CNext is the most general client that calls the operations with the     *)
(* lock held, as synch.h asks.                                             *)
(***************************************************************************)
EXTENDS Lock

CONSTANT Conds      \* Condition::Sema of each condition variable

ASSUME ConditionAssumption ==
    /\ Conds \subseteq Semaphores \ {mutex}
    /\ \A c \in Conds : InitialValue[c] = 0

VARIABLES
    condPhase,   \* the operation of a condition variable a thread is in
    cond,        \* which condition variable
    blockNum     \* Condition::blockNum

condVars == << condPhase, cond, blockNum >>
cvars == << lvars, condVars >>

\* released      Wait() has released the lock and not yet called Sema->P()
\* waiting       in Sema->P() of Wait()
\* signalled     P() has returned, blockNum++ is next
\* reacquiring   in conditionLock->Acquire() of Wait()
\* signalling    Signal() has done its V(), blockNum-- is next
\* broadcasting  at the test of the loop of Broadcast()
\* broadcastV    in that loop, V() done, blockNum-- is next
CondPhases == {"idle", "released", "waiting", "signalled", "reacquiring",
               "signalling", "broadcasting", "broadcastV"}

CInit ==
    /\ LInit
    /\ condPhase = [t \in Threads |-> "idle"]
    /\ cond = [t \in Threads |-> NULL]
    /\ blockNum = [c \in Conds |-> 0]

\* Thread t moves from one point of an operation on c to another.
Goes(t, from, to, c) ==
    /\ condPhase[t] = from
    /\ from # "idle" => cond[t] = c
    /\ condPhase' = [condPhase EXCEPT ![t] = to]
    /\ cond' = [cond EXCEPT ![t] = IF to = "idle" THEN NULL ELSE c]

InLock(t) == phase[t] = "holding" /\ condPhase[t] = "idle"

lockKept == << phase, threadHoldLock >>

-----------------------------------------------------------------------------
(* Condition::Wait.                                                        *)

Wait(t, c) ==
    /\ Goes(t, "idle", "released", c)
    /\ Release(t)
    /\ UNCHANGED blockNum

WaitEnter(t, c) ==
    /\ Goes(t, "released", "waiting", c)
    /\ PEnter(t, c)
    /\ UNCHANGED << lockKept, blockNum >>

WaitSleep(t, c) ==
    /\ condPhase[t] = "waiting"
    /\ PSleep(t, c)
    /\ UNCHANGED << lockKept, condVars >>

WaitTake(t, c) ==
    /\ Goes(t, "waiting", "signalled", c)
    /\ PTake(t, c)
    /\ UNCHANGED << lockKept, blockNum >>

\* Mutant of WaitReacquire: blockNum is not incremented.
WaitReacquireUncounted(t, c) ==
    /\ Goes(t, "signalled", "reacquiring", c)
    /\ Acquire(t)
    /\ UNCHANGED blockNum

\* blockNum++ and the first step of Acquire(), which turns interrupts off
\* before anything else can happen.
WaitReacquire(t, c) ==
    /\ Goes(t, "signalled", "reacquiring", c)
    /\ Acquire(t)
    /\ blockNum' = [blockNum EXCEPT ![c] = @ + 1]

WaitReturn(t, c) ==
    /\ Goes(t, "reacquiring", "idle", c)
    /\ AcquireReturn(t)
    /\ UNCHANGED blockNum

-----------------------------------------------------------------------------
(* Condition::Signal and Condition::Broadcast.                             *)

Signal(t, c) ==
    /\ InLock(t)
    /\ Executing(t)
    /\ Goes(t, "idle", "signalling", c)
    /\ V(c)
    /\ UNCHANGED << pending, lockKept, blockNum >>

SignalReturn(t, c) ==
    /\ Executing(t)
    /\ Goes(t, "signalling", "idle", c)
    /\ blockNum' = [blockNum EXCEPT ![c] = @ - 1]
    /\ UNCHANGED lvars

Broadcast(t, c) ==
    /\ InLock(t)
    /\ Executing(t)
    /\ Goes(t, "idle", "broadcasting", c)
    /\ UNCHANGED << lvars, blockNum >>

BroadcastV(t, c) ==
    /\ Executing(t)
    /\ blockNum[c] # 0
    /\ Goes(t, "broadcasting", "broadcastV", c)
    /\ V(c)
    /\ UNCHANGED << pending, lockKept, blockNum >>

BroadcastCount(t, c) ==
    /\ Executing(t)
    /\ Goes(t, "broadcastV", "broadcasting", c)
    /\ blockNum' = [blockNum EXCEPT ![c] = @ - 1]
    /\ UNCHANGED lvars

BroadcastReturn(t, c) ==
    /\ Executing(t)
    /\ blockNum[c] = 0
    /\ Goes(t, "broadcasting", "idle", c)
    /\ UNCHANGED << lvars, blockNum >>

-----------------------------------------------------------------------------
(* The client.                                                             *)

\* Acquire() called by a thread itself, and the two steps of P() that it
\* shares with the Acquire() inside Wait().
CAcquireStep(t) ==
    /\ \/ condPhase[t] = "idle" /\ (Acquire(t) \/ AcquireReturn(t))
       \/ AcquireSleep(t)
       \/ AcquireTake(t)
    /\ UNCHANGED condVars

CReleaseStep(t) ==
    /\ condPhase[t] = "idle"
    /\ Release(t)
    /\ UNCHANGED condVars

CWaitStep(t, c) ==
    \/ Wait(t, c)
    \/ WaitEnter(t, c)
    \/ WaitSleep(t, c)
    \/ WaitTake(t, c)
    \/ WaitReacquire(t, c)
    \/ WaitReturn(t, c)

CSignalStep(t, c) == Signal(t, c) \/ SignalReturn(t, c)

CBroadcastStep(t, c) ==
    \/ Broadcast(t, c)
    \/ BroadcastV(t, c)
    \/ BroadcastCount(t, c)
    \/ BroadcastReturn(t, c)

\* Semaphores that are neither the lock's nor a condition variable's.
Others == Semaphores \ ({mutex} \cup Conds)

\* What else a thread does, inside or outside its critical section.
COtherStep(t) ==
    /\ condPhase[t] = "idle"
    /\ phase[t] \in {"outside", "holding"}
    /\ \/ \E u \in Threads : Executing(t) /\ Fork(u)
       \/ Executing(t) /\ Yield
       \/ Executing(t) /\ phase[t] = "outside" /\ Finish
       \/ \E s \in Others :
            \/ PEnter(t, s)
            \/ PSleep(t, s)
            \/ PTake(t, s)
            \/ Executing(t) /\ V(s) /\ UNCHANGED pending
            \/ Executing(t) /\ Schedule(s)
    /\ UNCHANGED << lockKept, condVars >>

CMachineStep ==
    /\ \/ Dispatch
       \/ Halt
       \/ Preempt
       \/ \E s \in Others : Interrupt(s)
    /\ UNCHANGED << lockKept, condVars >>

CNext ==
    \/ \E t \in Threads :
         \/ CAcquireStep(t)
         \/ CReleaseStep(t)
         \/ COtherStep(t)
         \/ \E c \in Conds : CWaitStep(t, c) \/ CSignalStep(t, c) \/ CBroadcastStep(t, c)
    \/ CMachineStep

CSpec == CInit /\ [][CNext]_cvars

\* Fairness: that of the kernel; nobody need leave its critical section.
CFairSpec ==
    /\ CSpec
    /\ WF_cvars(CNext)
    /\ SF_cvars(Preempt /\ UNCHANGED << lockKept, condVars >>)

-----------------------------------------------------------------------------
(* Properties.                                                             *)

CTypeOK ==
    /\ LTypeOK
    /\ condPhase \in [Threads -> CondPhases]
    /\ cond \in [Threads -> Conds \cup {NULL}]
    /\ blockNum \in [Conds -> Int]

At(c, phases) == {t \in Threads : cond[t] = c /\ condPhase[t] \in phases}

\* blockNum does not count the blocked threads: but for operations caught
\* between V() or P() and the update of the counter, it is minus the number of
\* remembered signals (synch.cc:136-153), so at rest it is never positive.
BlockNumBalance ==
    \A c \in Conds :
        value[c] + blockNum[c] = Cardinality(At(c, {"signalling", "broadcastV"}))
                               - Cardinality(At(c, {"signalled"}))

\* No signal is lost on the way into Wait(): the lock is released before the
\* thread is queued, but when the machine halts with a thread asleep on c, no
\* signal for it is left over (synch.cc:136-146).
NoSignalLost ==
    mode = "Halted" =>
        \A c \in Conds : At(c, {"waiting"}) # {} => value[c] = 0

\* One thread at a time is in the monitor, its lock's owner is known, and blockNum
\* is minus the number of signals that are remembered (synch.cc:102-153).
CConsistent == CTypeOK /\ MutualExclusion /\ HolderKnown /\ BlockNumBalance

\* No thread is forgotten: a machine that halts leaves nobody in Acquire() or in
\* Wait() with the lock free or a signal left over (synch.cc:112-146).
NobodyForgotten == NoStuckAcquire /\ NoSignalLost

\* A program with condition variables is a program with a lock: Wait() comes
\* back inside the critical section it left, and nothing else enters meanwhile.
UsesLockProperly == LSpec

\* synch.h:97, "wake up all threads waiting on the condition": when Broadcast()
\* returns, nobody it found asleep is still in the queue.  (The caller holds the
\* lock, so that without a thread in "released" nobody came meanwhile.)
BroadcastWakesAll ==
    [][ \A t \in Threads, c \in Conds :
          BroadcastReturn(t, c) /\ At(c, {"released"}) = {}
              => queue[c] = << >> ]_cvars
=============================================================================
