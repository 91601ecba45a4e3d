------------------------------ MODULE Monitor ------------------------------
(***************************************************************************)
(* What the classes built from one Lock and some Conditions have in common *)
(* (threads/synchlist.cc, threads/BoundedBuffer.cc, threads/Table.cc): an  *)
(* operation acquires the lock, waits in a loop, works on the data,        *)
(* signals and releases the lock.  pc says how far a thread has come; the  *)
(* classes add their data to these steps.                                  *)
(***************************************************************************)
EXTENDS Condition

CONSTANT MaxSignals     \* bound: how many signals each Condition may remember

ASSUME MonitorAssumption == MaxSignals \in [Conds -> 0..MaxValue]

VARIABLE pc     \* "none" outside the operations of the class

mvars == << cvars, pc >>

MInit ==
    /\ CInit
    /\ pc = [t \in Threads |-> "none"]

Moves(t, from, to) ==
    /\ pc[t] = from
    /\ pc' = [pc EXCEPT ![t] = to]

\* The thread calls an operation, whose lock->Acquire() begins.
Calls(t, to) ==
    /\ Moves(t, "none", to)
    /\ Acquire(t)
    /\ UNCHANGED condVars

\* The P() inside that Acquire(), or inside the one of Wait().
Acquiring(t) ==
    /\ AcquireSleep(t) \/ AcquireTake(t)
    /\ UNCHANGED << condVars, pc >>

\* lock->Acquire() returns.
Enters(t, from, to) ==
    /\ Moves(t, from, to)
    /\ condPhase[t] = "idle"
    /\ AcquireReturn(t)
    /\ UNCHANGED condVars

\* The thread has the lock and is not in an operation of a condition variable.
Works(t, from, to) ==
    /\ Executing(t)
    /\ InLock(t)
    /\ Moves(t, from, to)
    /\ UNCHANGED cvars

\* The thread calls Wait(), in a loop whose test is at the same point.
StartsWait(t, at, c) ==
    /\ pc[t] = at
    /\ Wait(t, c)
    /\ UNCHANGED pc

\* The steps of that Wait() up to its return to the test.
Waits(t, c) ==
    /\ \/ WaitEnter(t, c)
       \/ WaitSleep(t, c)
       \/ WaitTake(t, c)
       \/ WaitReacquire(t, c)
       \/ WaitReturn(t, c)
    /\ UNCHANGED pc

Signals(t, from, to, c) == Moves(t, from, to) /\ Signal(t, c)

SignalReturns(t, c) == SignalReturn(t, c) /\ UNCHANGED pc

\* lock->Release() and the return of the operation.
Leaves(t, from) ==
    /\ Moves(t, from, "none")
    /\ condPhase[t] = "idle"
    /\ Release(t)
    /\ UNCHANGED condVars

\* Between two operations.
OutsideStep(t) ==
    /\ pc[t] = "none"
    /\ Executing(t)
    /\ \/ \E u \in Threads : Fork(u)
       \/ Yield
       \/ Finish
    /\ UNCHANGED << lockKept, condVars, pc >>

MMachineStep == CMachineStep /\ UNCHANGED pc

\* That bound, in the guard of a call: c's semaphore has room for the signals of
\* the threads in "signallers" and for the one of the caller.
SignalFits(c, signallers) == value[c] + Cardinality(signallers) < MaxSignals[c]
=============================================================================
