------------------------------- MODULE Kernel -------------------------------
(***************************************************************************)
(* The NachOS thread system: Thread (threads/thread.cc), Scheduler         *)
(* (threads/scheduler.cc), Semaphore (threads/synch.cc) and what the       *)
(* interrupt simulation (threads/interrupt.cc) lets happen between two     *)
(* calls of a thread.                                                      *)
(*                                                                         *)
(* NachOS is a uniprocessor: exactly one thread executes, and a switch     *)
(* happens only inside Thread::Yield, Thread::Sleep and, when the timer    *)
(* runs (-rs), in Interrupt::OneTick, which SetLevel calls when it turns   *)
(* interrupts back on.  A stretch of code with interrupts off is therefore *)
(* one step, except for P(), which sleeps in the middle of its loop.       *)
(*                                                                         *)
(* KNext is the most general client: any running thread may call any       *)
(* operation.  The modules of the synchronisation objects extend this one  *)
(* and conjoin its actions with the program counters of their clients.     *)
(***************************************************************************)
EXTENDS Integers, Sequences, FiniteSets, Functions

CONSTANTS
    Threads,        \* the Thread objects, forked or not
    Main,           \* the thread made by Initialize (system.cc), never forked
    Semaphores,     \* the Semaphore objects
    InitialValue,   \* the initialValue argument of each constructor
    RandomYield,    \* TRUE when Nachos is started with -rs: the timer exists
    MaxValue,       \* the largest value of the int Semaphore::value
    MaxPending,     \* bound: device requests in flight per semaphore
    NULL

ASSUME KernelAssumption ==
    /\ IsFiniteSet(Threads)
    /\ Main \in Threads
    /\ NULL \notin Threads
    /\ NULL \notin Semaphores
    /\ MaxValue \in Nat
    /\ InitialValue \in [Semaphores -> 0..MaxValue]
    /\ RandomYield \in BOOLEAN
    /\ MaxPending \in Nat

VARIABLES
    currentThread,       \* the global of system.cc
    status,              \* Thread::status
    readyList,           \* Scheduler::readyList
    threadToBeDestroyed, \* the global of system.cc
    deleted,             \* the threads whose destructor has run
    started,             \* the threads SWITCHed to at least once
    inP,                 \* the semaphore whose P() a thread is executing
    value,               \* Semaphore::value
    queue,               \* Semaphore::queue
    pending,             \* device interrupts scheduled, by the semaphore they V
    mode                 \* Interrupt::status; "Halted" once Halt() has run

kvars == << currentThread, status, readyList, threadToBeDestroyed, deleted,
            started, inP, value, queue, pending, mode >>

threadVars    == << currentThread, status, readyList, threadToBeDestroyed,
                    deleted, started, mode >>
semaphoreVars == << inP, value, queue >>

ThreadStatus  == {"JUST_CREATED", "RUNNING", "READY", "BLOCKED"}
MachineStatus == {"SystemMode", "IdleMode", "Halted"}

KInit ==
    /\ currentThread = Main
    /\ status = [t \in Threads |-> IF t = Main THEN "RUNNING" ELSE "JUST_CREATED"]
    /\ readyList = << >>
    /\ threadToBeDestroyed = NULL
    /\ deleted = {}
    /\ started = {Main}
    /\ inP = [t \in Threads |-> NULL]
    /\ value = InitialValue
    /\ queue = [s \in Semaphores |-> << >>]
    /\ pending = [s \in Semaphores |-> 0]
    /\ mode = "SystemMode"

-----------------------------------------------------------------------------
(* Who may take a step.                                                    *)

\* The current thread executes its own code with interrupts on.
Executing(t) ==
    /\ mode = "SystemMode"
    /\ currentThread = t
    /\ status[t] = "RUNNING"
    /\ inP[t] = NULL

\* The current thread is inside P(), interrupts off: nothing else can happen.
InsideP(t, s) ==
    /\ mode = "SystemMode"
    /\ currentThread = t
    /\ status[t] = "RUNNING"
    /\ inP[t] = s

\* An interrupt handler may run: the CPU idles, or a tick was taken because a
\* thread has just turned interrupts back on.
HandlersEnabled ==
    \/ mode = "IdleMode"
    \/ Executing(currentThread)

Finished(t) == status[t] = "BLOCKED" /\ inP[t] = NULL

-----------------------------------------------------------------------------
(* The scheduler.                                                          *)

\* Scheduler::ReadyToRun.
ReadyToRun(t) ==
    /\ status' = [status EXCEPT ![t] = "READY"]
    /\ readyList' = Append(readyList, t)

\* Mutant of Run: the pointer is not reset after the delete.
RunKeepsPointer(t) ==
    /\ currentThread' = t
    /\ started' = started \cup {t}
    /\ IF t \in started /\ threadToBeDestroyed # NULL
         THEN deleted' = deleted \cup {threadToBeDestroyed}
         ELSE UNCHANGED deleted
    /\ UNCHANGED threadToBeDestroyed

\* Scheduler::Run: the switch.  A thread that has been switched away from
\* comes back inside Run and deletes the finished thread; a thread that runs
\* for the first time starts in ThreadRoot and does not.
Run(t) ==
    /\ currentThread' = t
    /\ started' = started \cup {t}
    /\ IF t \in started /\ threadToBeDestroyed # NULL
         THEN /\ deleted' = deleted \cup {threadToBeDestroyed}
              /\ threadToBeDestroyed' = NULL
         ELSE UNCHANGED << deleted, threadToBeDestroyed >>

\* The first half of Thread::Sleep: idle unless some thread is ready.
Block ==
    /\ status' = [status EXCEPT ![currentThread] = "BLOCKED"]
    /\ mode' = IF readyList = << >> THEN "IdleMode" ELSE mode

\* The second half of Thread::Sleep, reached at once if a thread was ready and
\* else when an interrupt handler has made one ready.
Dispatch ==
    /\ mode # "Halted"
    /\ status[currentThread] # "RUNNING"
    /\ readyList # << >>
    /\ Run(Head(readyList))
    /\ status' = [status EXCEPT ![Head(readyList)] = "RUNNING"]
    /\ readyList' = Tail(readyList)
    /\ mode' = "SystemMode"
    /\ UNCHANGED << semaphoreVars, pending >>

\* Interrupt::Idle with nothing left to wait for: the machine halts.
Halt ==
    /\ mode = "IdleMode"
    /\ readyList = << >>
    /\ \A s \in Semaphores : pending[s] = 0
    /\ mode' = "Halted"
    /\ UNCHANGED << currentThread, status, readyList, threadToBeDestroyed,
                    deleted, started, semaphoreVars, pending >>

-----------------------------------------------------------------------------
(* The operations of a thread.                                             *)

\* Thread::Fork(t) called by the running thread.
Fork(t) ==
    /\ status[t] = "JUST_CREATED"
    /\ ReadyToRun(t)
    /\ UNCHANGED << currentThread, threadToBeDestroyed, deleted, started, mode,
                    semaphoreVars, pending >>

\* Mutant of SwitchAway: the next thread is looked at but not removed.
SwitchAwayPeeks ==
    /\ readyList # << >>
    /\ Run(Head(readyList))
    /\ status' = [status EXCEPT ![currentThread] = "READY",
                                ![Head(readyList)] = "RUNNING"]
    /\ readyList' = Append(readyList, currentThread)
    /\ UNCHANGED << mode, semaphoreVars, pending >>

\* Mutant of SwitchAway: Prepend instead of Append.
SwitchAwayPrepends ==
    /\ readyList # << >>
    /\ Run(Head(readyList))
    /\ status' = [status EXCEPT ![currentThread] = "READY",
                                ![Head(readyList)] = "RUNNING"]
    /\ readyList' = << currentThread >> \o Tail(readyList)
    /\ UNCHANGED << mode, semaphoreVars, pending >>

\* Thread::Yield when another thread is ready: that thread is taken from the
\* list before the yielding one is put at its end.
SwitchAway ==
    /\ readyList # << >>
    /\ Run(Head(readyList))
    /\ status' = [status EXCEPT ![currentThread] = "READY",
                                ![Head(readyList)] = "RUNNING"]
    /\ readyList' = Append(Tail(readyList), currentThread)
    /\ UNCHANGED << mode, semaphoreVars, pending >>

\* Thread::Yield.
Yield == SwitchAway \/ (readyList = << >> /\ UNCHANGED kvars)

\* Thread::Finish.
Finish ==
    /\ threadToBeDestroyed' = currentThread
    /\ Block
    /\ UNCHANGED << currentThread, readyList, deleted, started, semaphoreVars,
                    pending >>

\* The timer interrupt makes OneTick call Yield on behalf of the thread.
Preempt ==
    /\ RandomYield
    /\ Executing(currentThread)
    /\ SwitchAway

-----------------------------------------------------------------------------
(* Semaphore.  P() is its entry, which turns interrupts off, and the two    *)
(* outcomes of testing the value.                                          *)

PEnter(t, s) ==
    /\ Executing(t)
    /\ inP' = [inP EXCEPT ![t] = s]
    /\ UNCHANGED << threadVars, value, queue, pending >>

\* Mutant of PSleep: the thread sleeps without testing the value, as it would if
\* it had read it before turning interrupts off.
PSleepUntested(t, s) ==
    /\ InsideP(t, s)
    /\ queue' = [queue EXCEPT ![s] = Append(@, t)]
    /\ Block
    /\ UNCHANGED << currentThread, readyList, threadToBeDestroyed, deleted,
                    started, inP, value, pending >>

PSleep(t, s) ==
    /\ InsideP(t, s)
    /\ value[s] = 0
    /\ queue' = [queue EXCEPT ![s] = Append(@, t)]
    /\ Block
    /\ UNCHANGED << currentThread, readyList, threadToBeDestroyed, deleted,
                    started, inP, value, pending >>

\* Mutant of PTake: the value is not tested again after the sleep.
PTakeUnchecked(t, s) ==
    /\ InsideP(t, s)
    /\ value' = [value EXCEPT ![s] = @ - 1]
    /\ inP' = [inP EXCEPT ![t] = NULL]
    /\ UNCHANGED << threadVars, queue, pending >>

\* Mutant of PTake: the value is not consumed.
PTakeKeepsValue(t, s) ==
    /\ InsideP(t, s)
    /\ value[s] # 0
    /\ inP' = [inP EXCEPT ![t] = NULL]
    /\ UNCHANGED << threadVars, value, queue, pending >>

PTake(t, s) ==
    /\ InsideP(t, s)
    /\ value[s] # 0
    /\ value' = [value EXCEPT ![s] = @ - 1]
    /\ inP' = [inP EXCEPT ![t] = NULL]
    /\ UNCHANGED << threadVars, queue, pending >>

\* Mutant of V: a thread is woken only when the value was zero.
VWakesAtZero(s) ==
    /\ value[s] < MaxValue
    /\ value' = [value EXCEPT ![s] = @ + 1]
    /\ IF queue[s] = << >> \/ value[s] > 0
         THEN UNCHANGED << queue, status, readyList >>
         ELSE /\ queue' = [queue EXCEPT ![s] = Tail(@)]
              /\ ReadyToRun(Head(queue[s]))
    /\ UNCHANGED << currentThread, threadToBeDestroyed, deleted, started, inP,
                    mode >>

\* Semaphore::V, by the running thread or by an interrupt handler.
V(s) ==
    /\ value[s] < MaxValue
    /\ value' = [value EXCEPT ![s] = @ + 1]
    /\ IF queue[s] = << >>
         THEN UNCHANGED << queue, status, readyList >>
         ELSE /\ queue' = [queue EXCEPT ![s] = Tail(@)]
              /\ ReadyToRun(Head(queue[s]))
    /\ UNCHANGED << currentThread, threadToBeDestroyed, deleted, started, inP,
                    mode >>

-----------------------------------------------------------------------------
(* Devices, as far as the thread system sees them: a request schedules an   *)
(* interrupt (Interrupt::Schedule) whose handler calls V (RequestDone of    *)
(* synchdisk.cc, ReadAvail of post.cc, and the console handlers).          *)

Schedule(s) ==
    /\ pending[s] < MaxPending
    /\ pending' = [pending EXCEPT ![s] = @ + 1]
    /\ UNCHANGED << threadVars, semaphoreVars >>

Interrupt(s) ==
    /\ HandlersEnabled
    /\ pending[s] > 0
    /\ pending' = [pending EXCEPT ![s] = @ - 1]
    /\ V(s)

-----------------------------------------------------------------------------
(* The most general client.                                                *)

ThreadStep(t) ==
    \/ \E u \in Threads : Executing(t) /\ Fork(u)
    \/ Executing(t) /\ Yield
    \/ Executing(t) /\ Finish
    \/ \E s \in Semaphores : \/ PEnter(t, s)
                             \/ PSleep(t, s)
                             \/ PTake(t, s)
                             \/ Executing(t) /\ V(s) /\ UNCHANGED pending
                             \/ Executing(t) /\ Schedule(s)

MachineStep ==
    \/ Dispatch
    \/ Halt
    \/ Preempt
    \/ \E s \in Semaphores : Interrupt(s)

KNext == (\E t \in Threads : ThreadStep(t)) \/ MachineStep

KSpec == KInit /\ [][KNext]_kvars

-----------------------------------------------------------------------------
(* Properties.                                                             *)

KTypeOK ==
    /\ currentThread \in Threads
    /\ status \in [Threads -> ThreadStatus]
    /\ readyList \in Seq(Threads)
    /\ threadToBeDestroyed \in Threads \cup {NULL}
    /\ deleted \in SUBSET Threads
    /\ started \in SUBSET Threads
    /\ inP \in [Threads -> Semaphores \cup {NULL}]
    /\ value \in [Semaphores -> 0..MaxValue]
    /\ queue \in [Semaphores -> Seq(Threads)]
    /\ pending \in [Semaphores -> 0..MaxPending]
    /\ mode \in MachineStatus

\* Only the current thread executes, and it is on no list: a thread whose
\* status says RUNNING is currentThread, and the ready list holds exactly the
\* READY threads, each once.  Run, ReadyToRun and FindNextToRun keep the
\* status, the list and the global in step only if every caller calls them in
\* the right order.
ReadyListExact ==
    /\ \A t \in Threads : status[t] = "RUNNING" => t = currentThread
    /\ \A t \in Threads : status[t] = "READY" <=> t \in Range(readyList)
    /\ IsInjective(readyList)

\* A semaphore's queue holds exactly the threads asleep in its P(), each once:
\* no thread is queued twice, on two semaphores, or after it was woken, and no
\* thread sleeps in P() where no V() would find it (synch.cc:69-72, 93-96).
WaitQueuesExact ==
    \A s \in Semaphores :
        /\ Range(queue[s]) = {t \in Threads : status[t] = "BLOCKED" /\ inP[t] = s}
        /\ IsInjective(queue[s])

\* The threads woken from s that have not tested its value again yet.
Woken(s) == {t \in Threads : inP[t] = s /\ status[t] # "BLOCKED"}

\* No lost wakeup: while threads sleep on s, each unit of its value is matched
\* by a thread that was woken for it, or barged in, and has yet to test the
\* value (synch.cc:64-98: V() both wakes a thread and increments).
NoLostWakeup ==
    \A s \in Semaphores :
        queue[s] # << >> => value[s] <= Cardinality(Woken(s))

\* The destructor runs on no thread that could still execute or be woken: a
\* deleted thread has finished, is not current and waits nowhere
\* (thread.cc:58-65, scheduler.cc:120-127: "up to this point, we were still
\* running on the old thread's stack").
CarcassUnused ==
    \A t \in deleted :
        /\ Finished(t)
        /\ t # currentThread
        /\ t # threadToBeDestroyed

\* At every switch the statuses, the lists and the types agree, and only threads
\* that nobody uses any more have been deleted.
KConsistent == KTypeOK /\ ReadyListExact /\ WaitQueuesExact /\ CarcassUnused

\* What Thread::Finish promises (thread.cc:132-136): the carcass of a finished
\* thread is deleted or is the one the next Scheduler::Run will delete.
CarcassNotLost ==
    \A t \in Threads :
        Finished(t) => t \in deleted \/ t = threadToBeDestroyed

\* Fairness.  The simulated CPU always goes on (KNext), and with -rs the timer
\* re-arms itself at every expiry (timer.cc:61-70), so that a thread that keeps
\* turning interrupts on is preempted again and again.
KFairness == WF_kvars(KNext) /\ SF_kvars(Preempt)

KFairSpec == KSpec /\ KFairness

\* With the timer running, no ready thread starves: the round robin of
\* readyList brings each to the CPU (thread.cc:156-172: "so that it will
\* eventually be re-scheduled").
ReadyThreadsRun ==
    \A t \in Threads : status[t] = "READY" ~> status[t] = "RUNNING"

\* The kernel implements the abstract semaphores (synch.h:24-29): queues, sleep,
\* barging and context switches are invisible to the callers of P() and V().
Semantics == INSTANCE AbstractSemaphore WITH val <- value, wants <- inP

ImplementsSemaphores == Semantics!ASpec
=============================================================================
