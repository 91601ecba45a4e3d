-------------------------------- MODULE Lock --------------------------------
(***************************************************************************)
(* class Lock of threads/synch.cc: a Semaphore of initial value 1 and the  *)
(* thread that holds it.  The Lock's semaphore is the constant mutex; the  *)
(* other semaphores belong to whatever else the threads do.                *)
(*                                                                         *)
(* LNext is the most general client that keeps the convention of synch.h   *)
(* (only the thread that acquired the lock releases it, and it acquires it *)
(* once): in and out of the critical section it may fork, yield, and use   *)
(* other semaphores.                                                       *)
(***************************************************************************)
EXTENDS Kernel

CONSTANT mutex      \* Lock::Sema

ASSUME LockAssumption ==
    /\ mutex \in Semaphores
    /\ InitialValue[mutex] = 1

\* The semaphores when the lock is free and nothing else has been posted to: what
\* the instances give InitialValue.
OnlyMutexFree == [s \in Semaphores |-> IF s = mutex THEN 1 ELSE 0]

VARIABLES
    phase,          \* where each thread stands with respect to the lock
    threadHoldLock  \* Lock::threadHoldLock

lvars == << kvars, phase, threadHoldLock >>

\* outside    between Release() and Acquire()
\* acquiring  in Sema->P() of Acquire()
\* acquired   P() has returned, threadHoldLock is not assigned yet
\* holding    Acquire() has returned
Phases == {"outside", "acquiring", "acquired", "holding"}

Inside(t) == phase[t] \in {"acquired", "holding"}

\* The constructor leaves threadHoldLock uninitialised (synch.cc:103-106).
LInit ==
    /\ KInit
    /\ phase = [t \in Threads |-> "outside"]
    /\ threadHoldLock \in Threads \cup {NULL}

-----------------------------------------------------------------------------
(* Lock::Acquire: Sema->P(), and after it the assignment.  The end of P()   *)
(* turns interrupts on, so that the thread can be preempted in between.     *)

\* Mutant of Acquire: the holder is recorded before the wait.
AcquireAssignsFirst(t) ==
    /\ phase[t] = "outside"
    /\ PEnter(t, mutex)
    /\ phase' = [phase EXCEPT ![t] = "acquiring"]
    /\ threadHoldLock' = t

Acquire(t) ==
    /\ phase[t] = "outside"
    /\ PEnter(t, mutex)
    /\ phase' = [phase EXCEPT ![t] = "acquiring"]
    /\ UNCHANGED threadHoldLock

AcquireSleep(t) ==
    /\ PSleep(t, mutex)
    /\ UNCHANGED << phase, threadHoldLock >>

AcquireTake(t) ==
    /\ PTake(t, mutex)
    /\ phase' = [phase EXCEPT ![t] = "acquired"]
    /\ UNCHANGED threadHoldLock

AcquireReturn(t) ==
    /\ Executing(t)
    /\ phase[t] = "acquired"
    /\ threadHoldLock' = t
    /\ phase' = [phase EXCEPT ![t] = "holding"]
    /\ UNCHANGED kvars

\* Mutant of Release: the V() is forgotten.
ReleaseNoV(t) ==
    /\ Executing(t)
    /\ phase[t] = "holding"
    /\ threadHoldLock' = NULL
    /\ phase' = [phase EXCEPT ![t] = "outside"]
    /\ UNCHANGED kvars

\* Lock::Release: no interrupt can come before the V() ends.
Release(t) ==
    /\ Executing(t)
    /\ phase[t] = "holding"
    /\ threadHoldLock' = NULL
    /\ V(mutex)
    /\ phase' = [phase EXCEPT ![t] = "outside"]
    /\ UNCHANGED pending

-----------------------------------------------------------------------------
(* The client.                                                             *)

\* What else a thread does, inside or outside its critical section.
OtherStep(t) ==
    /\ phase[t] \in {"outside", "holding"}
    /\ \/ \E u \in Threads : Executing(t) /\ Fork(u)
       \/ Executing(t) /\ Yield
       \/ Executing(t) /\ phase[t] = "outside" /\ Finish
       \/ \E s \in Semaphores \ {mutex} :
            \/ PEnter(t, s)
            \/ PSleep(t, s)
            \/ PTake(t, s)
            \/ Executing(t) /\ V(s) /\ UNCHANGED pending
            \/ Executing(t) /\ Schedule(s)
    /\ UNCHANGED << phase, threadHoldLock >>

LockStep(t) ==
    \/ Acquire(t)
    \/ AcquireSleep(t)
    \/ AcquireTake(t)
    \/ AcquireReturn(t)
    \/ Release(t)

LMachineStep ==
    /\ \/ Dispatch
       \/ Halt
       \/ Preempt
       \/ \E s \in Semaphores \ {mutex} : Interrupt(s)
    /\ UNCHANGED << phase, threadHoldLock >>

LNext ==
    \/ \E t \in Threads : LockStep(t) \/ OtherStep(t)
    \/ LMachineStep

LSpec == LInit /\ [][LNext]_lvars

-----------------------------------------------------------------------------
(* Properties.                                                             *)

LTypeOK ==
    /\ KTypeOK
    /\ phase \in [Threads -> Phases]
    /\ threadHoldLock \in Threads \cup {NULL}

\* At most one thread is between Acquire() and Release() (synch.h:54-60).
MutualExclusion ==
    \A t, u \in Threads : Inside(t) /\ Inside(u) => t = u

\* A thread in its critical section is the one threadHoldLock names: the
\* assignment after P() cannot be overtaken by the NULL of a late Release()
\* or by another Acquire(), so that isHeldByCurrentThread() is true of it
\* (synch.cc:112-124).
HolderKnown ==
    \A t \in Threads : phase[t] = "holding" => threadHoldLock = t

\* A lock does not get lost: when the machine halts with threads in Acquire(),
\* some thread went to sleep inside its critical section.
NoStuckAcquire ==
    mode = "Halted" /\ (\E t \in Threads : phase[t] = "acquiring")
        => \E t \in Threads : Inside(t)

\* The semaphore-based lock implements the abstract one.
Locking == INSTANCE AbstractLock WITH
    asking <- {t \in Threads : phase[t] = "acquiring"},
    inside <- {t \in Threads : Inside(t)}

ImplementsLock == Locking!ASpec

\* While threads ask for the lock, the lock is given again and again: no state
\* is reached from which nobody enters although somebody wants to.  (A given
\* thread may be overtaken for ever, since V() does not hand the lock over.)
LockProgress ==
    (\E t \in Threads : phase[t] = "acquiring") ~> (\E t \in Threads : Inside(t))
=============================================================================
