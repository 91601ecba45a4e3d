------------------------------- MODULE Console -------------------------------
(***************************************************************************)
(* The console device (machine/console.cc) with the program that drives it *)
(* in NachOS, ConsoleTest (userprog/progtest.cc, nachos -c), on top of the *)
(* interrupt simulation.  ThreadTest has run before it and may have left   *)
(* other threads, which go on until they are preempted, use the disk and   *)
(* finish; without -c, Main finishes and they go on alone.                 *)
(***************************************************************************)
EXTENDS Interrupt

CONSTANTS
    readAvail, writeDone,   \* the semaphores of progtest.cc
    disk,                   \* the semaphore of SynchDisk
    ConsoleTime,            \* ticks to read or write a character (stats.h)
    DiskTime,               \* ticks of a disk request: Disk::ComputeLatency
    Chars, Quit,            \* the characters typed; Quit is 'q'
    MaxTyped,               \* bound: the number of characters typed
    MaxRequests             \* bound: the number of requests of the disk

ASSUME ConsoleAssumption ==
    /\ Semaphores = {readAvail, writeDone, disk}
    /\ Cardinality(Semaphores) = 3
    /\ \A s \in Semaphores : InitialValue[s] = 0
    /\ ConsoleTime \in Nat \ {0}
    /\ DiskTime \in Nat \ {0}
    /\ MaxTyped \in Nat /\ MaxRequests \in Nat
    /\ Quit \in Chars /\ NULL \notin Chars

\* No character is available and none is on its way out.
NothingAvailable == [s \in Semaphores |-> 0]

VARIABLES
    typed,      \* what the user has typed so far
    nread,      \* how much of it has been read from the keyboard's file
    shown,      \* what has been written to the display
    incoming,   \* Console::incoming, NULL for EOF
    putBusy,    \* Console::putBusy
    pc,         \* the next statement of ConsoleTest, run by Main
    ch,         \* its local variable
    requests,   \* the number of requests of the disk so far
    caller      \* the thread that has made one and not been answered, or NULL

deviceVars == << typed, nread, shown, incoming, putBusy >>
callVars == << requests, caller >>
convars == << ivars, deviceVars, pc, ch, callVars >>

\* start      the console is not made yet
\* readAvail, writeDone   before, or in, P() of that semaphore
\* get, put   before GetChar() and PutChar()
\* test       before the comparison with 'q', after which main() halts
\* finished   the program was started without a console
ConsolePoints == {"start", "readAvail", "get", "put", "writeDone", "test", "halt",
                  "finished"}

ConInit ==
    /\ IInit
    /\ typed = << >> /\ nread = 0 /\ shown = << >>
    /\ incoming = NULL /\ putBusy = FALSE
    /\ pc = "start" /\ ch = NULL /\ requests = 0 /\ caller = NULL

-----------------------------------------------------------------------------
(* The device.                                                             *)

\* The user, who types nothing after a 'q'.
Type(c) ==
    /\ Len(typed) < MaxTyped
    /\ Quit \notin Range(typed)
    /\ mode # "Halted" /\ pc # "finished"
    /\ typed' = Append(typed, c)
    /\ UNCHANGED << ivars, nread, shown, incoming, putBusy, pc, ch, callVars >>

\* Mutant of CheckCharAvail: a character in the buffer is overwritten.
CheckCharAvailOverwrites(list) ==
    /\ events' = Scheduled(list, "ConsoleReadInt", ConsoleTime)
    /\ IF nread = Len(typed)
         THEN UNCHANGED << kvars, nread, incoming >>
         ELSE /\ incoming' = typed[nread + 1]
              /\ nread' = nread + 1
              /\ V(readAvail) /\ UNCHANGED pending
    /\ UNCHANGED << yieldOnReturn, typed, shown, putBusy >>

\* Mutant of CheckCharAvail: the next poll is scheduled when a character is read.
CheckCharAvailOnce(list) ==
    IF incoming # NULL \/ nread = Len(typed)
      THEN /\ events' = Scheduled(list, "ConsoleReadInt", ConsoleTime)
           /\ UNCHANGED << kvars, yieldOnReturn, deviceVars >>
      ELSE /\ events' = list
           /\ incoming' = typed[nread + 1]
           /\ nread' = nread + 1
           /\ V(readAvail)
           /\ UNCHANGED << pending, yieldOnReturn, typed, shown, putBusy >>

\* Console::CheckCharAvail polls the keyboard and reads one character if the
\* buffer is free.
CheckCharAvail(list) ==
    /\ events' = Scheduled(list, "ConsoleReadInt", ConsoleTime)
    /\ IF incoming # NULL \/ nread = Len(typed)
         THEN UNCHANGED << kvars, nread, incoming >>
         ELSE /\ incoming' = typed[nread + 1]
              /\ nread' = nread + 1
              /\ V(readAvail) /\ UNCHANGED pending
    /\ UNCHANGED << yieldOnReturn, typed, shown, putBusy >>

\* Console::WriteDone.
WriteDone(list) ==
    /\ events' = list
    /\ putBusy' = FALSE
    /\ pending' = [pending EXCEPT ![writeDone] = @ - 1]
    /\ V(writeDone)
    /\ UNCHANGED << yieldOnReturn, typed, nread, shown, incoming >>

\* SynchDisk::RequestDone.
DiskDone(list) ==
    /\ events' = list
    /\ pending' = [pending EXCEPT ![disk] = @ - 1]
    /\ V(disk)
    /\ UNCHANGED << yieldOnReturn, deviceVars >>

\* The handlers, by the type of the event.
Handle(event, list) ==
    /\ CASE event.type = "TimerInt"        -> TimerExpired(list) /\ UNCHANGED deviceVars
         [] event.type = "ConsoleReadInt"  -> CheckCharAvail(list)
         [] event.type = "ConsoleWriteInt" -> WriteDone(list)
         [] event.type = "DiskInt"         -> DiskDone(list)
    /\ UNCHANGED << pc, ch, callVars >>

Handles ==
    \E advanceClock \in BOOLEAN :
        /\ HandlerStep(advanceClock)
        /\ Handle(Head(events), Remaining(advanceClock))

-----------------------------------------------------------------------------
(* ConsoleTest.                                                            *)

Goto(from, to) == pc = from /\ pc' = to

AtStatement ==
    /\ servicing = "none"
    /\ Executing(Main)

\* new Console(...) schedules the first poll; the semaphores are made next.
Start ==
    /\ AtStatement
    /\ Goto("start", "readAvail")
    /\ events' = Scheduled(events, "ConsoleReadInt", ConsoleTime)
    /\ UNCHANGED << kvars, servicing, yieldOnReturn, deviceVars, ch, callVars >>

\* P() of s, which a statement of ConsoleTest waits for.
Await(s, at, to) ==
    /\ \/ pc = at /\ (IPEnter(Main, s) \/ IPSleep(Main, s)) /\ UNCHANGED pc
       \/ Goto(at, to) /\ IPTake(Main, s)
    /\ UNCHANGED << deviceVars, ch, callVars >>

\* Console::GetChar.
GetChar ==
    /\ AtStatement
    /\ Goto("get", "put")
    /\ ch' = incoming
    /\ incoming' = NULL
    /\ UNCHANGED << ivars, typed, nread, shown, putBusy, callVars >>

\* Console::PutChar.  (Its ASSERT is NeverBusy.)
PutChar ==
    /\ AtStatement
    /\ Goto("put", "writeDone")
    /\ shown' = Append(shown, ch)
    /\ putBusy' = TRUE
    /\ events' = Scheduled(events, "ConsoleWriteInt", ConsoleTime)
    /\ Schedule(writeDone)
    /\ UNCHANGED << servicing, yieldOnReturn, typed, nread, incoming, ch,
                    callVars >>

Test ==
    /\ AtStatement
    /\ Goto("test", IF ch = Quit THEN "halt" ELSE "readAvail")
    /\ UNCHANGED << ivars, deviceVars, ch, callVars >>

\* main.cc halts the machine when ConsoleTest returns.
MainHalts ==
    /\ AtStatement
    /\ pc = "halt"
    /\ mode' = "Halted"
    /\ UNCHANGED << currentThread, status, readyList, threadToBeDestroyed,
                    deleted, started, semaphoreVars, pending, intVars,
                    deviceVars, pc, ch, callVars >>

ConsoleTest ==
    \/ Start
    \/ Await(readAvail, "readAvail", "get")
    \/ GetChar
    \/ PutChar
    \/ Await(writeDone, "writeDone", "test")
    \/ Test
    \/ MainHalts

\* A request of the disk: ReadRequest or WriteRequest.  SynchDisk lets one
\* thread in at a time.
DiskRequest(t) ==
    /\ servicing = "none"
    /\ Executing(t)
    /\ caller = NULL
    /\ caller' = t
    /\ requests < MaxRequests
    /\ requests' = requests + 1
    /\ events' = Scheduled(events, "DiskInt", DiskTime)
    /\ Schedule(disk)
    /\ UNCHANGED << servicing, yieldOnReturn >>

\* The P() that SynchDisk calls after the request.
DiskAwait(t) ==
    /\ caller = t
    /\ \/ (IPEnter(t, disk) \/ IPSleep(t, disk)) /\ UNCHANGED caller
       \/ IPTake(t, disk) /\ caller' = NULL
    /\ UNCHANGED requests

\* The threads of ThreadTest: Main forks them before it starts the console.
\* A tick of a thread is any call that turns interrupts off and on again.
OtherThread(t) ==
    /\ t # Main
    /\ \/ DiskRequest(t)
       \/ DiskAwait(t)
       \/ caller # t /\ IFinish(t) /\ UNCHANGED callVars
       \/ Ticking(t) /\ UNCHANGED << kvars, callVars >>
    /\ UNCHANGED << deviceVars, pc, ch >>

Forks(t) ==
    /\ pc = "start"
    /\ IFork(Main, t)
    /\ UNCHANGED << deviceVars, pc, ch, callVars >>

\* main() ends with Finish() when there is no -c.
MainFinishes ==
    /\ AtStatement
    /\ Goto("start", "finished")
    /\ IFinish(Main)
    /\ UNCHANGED << deviceVars, ch, callVars >>

ConMachineStep ==
    \/ QuietStep /\ UNCHANGED << deviceVars, pc, ch, callVars >>
    \/ Handles

\* Everything the simulated machine does.
Machine ==
    \/ ConMachineStep
    \/ ConsoleTest
    \/ MainFinishes
    \/ \E t \in Threads : OtherThread(t) \/ Forks(t)

ConNext == Machine \/ \E c \in Chars : Type(c)

ConSpec == ConInit /\ [][ConNext]_convars

\* The timer expires while t has the CPU, and the random delay outlasts the
\* next tick.
LongDelay(t) ==
    /\ currentThread = t
    /\ Handles
    /\ Head(events).type = "TimerInt"
    /\ \E e \in Range(events') : e.type = "TimerInt" /\ e.when > SystemTick

\* Fairness: the simulated machine goes on, and the random generator does not
\* choose a delay of one tick whenever the timer expires under the same thread
\* (each such delay makes the next thread, as it comes out of Yield, yield
\* before its next statement).  Nothing is assumed of preemption or of a
\* thread: time itself makes the timer expire.
ConFairSpec ==
    /\ ConSpec
    /\ WF_convars(Machine)
    /\ \A t \in Threads : SF_convars(LongDelay(t))

-----------------------------------------------------------------------------
(* Properties.                                                             *)

ConTypeOK ==
    /\ ITypeOK
    /\ typed \in Seq(Chars) /\ shown \in Seq(Chars)
    /\ nread \in 0..Len(typed)
    /\ incoming \in Chars \cup {NULL}
    /\ putBusy \in BOOLEAN
    /\ pc \in ConsolePoints
    /\ ch \in Chars \cup {NULL}
    /\ requests \in 0..MaxRequests
    /\ caller \in Threads \cup {NULL}

CountEvents(type) == Cardinality({i \in DOMAIN events : events[i].type = type})

\* Every device has on the list exactly the events it needs to go on: the timer
\* and the keyboard one each, for ever, and the display one for the character it
\* is busy with.  An event taken off the list and lost, or put back twice, would
\* stop a device or double it (interrupt.cc:300-319, timer.cc:61-70,
\* console.cc:90).
DevicesArmed ==
    /\ CountEvents("TimerInt") = IF RandomYield THEN 1 ELSE 0
    /\ CountEvents("ConsoleReadInt") = IF pc \in {"start", "finished"} THEN 0 ELSE 1
    /\ CountEvents("DiskInt") = pending[disk]
    /\ CountEvents("ConsoleWriteInt") = IF putBusy THEN 1 ELSE 0

\* What is between keyboard and display: the buffered character or the one in
\* ConsoleTest's hands.
Held == (IF pc = "put" THEN << ch >> ELSE << >>)
        \o (IF incoming # NULL THEN << incoming >> ELSE << >>)

\* The echo is faithful: every character that was read is on the display or on
\* its way there, once and in order (progtest.cc:60-85).
EchoFaithful == SubSeq(typed, 1, nread) = shown \o Held

\* The signals match the buffer: readAvail is posted exactly while a character
\* waits, so that GetChar never returns EOF to ConsoleTest.
SignalsMatchBuffer ==
    (incoming # NULL) <=> (value[readAvail] = 1 \/ pc = "get")

\* The ASSERT(putBusy == FALSE) of PutChar never fails (console.cc:145).
NeverBusy == pc = "put" => ~putBusy

\* The program, its semaphores, the device and the event list are in step.
ConConsistent ==
    /\ ConTypeOK
    /\ DevicesArmed
    /\ EventsOnTime
    /\ SignalsMatchBuffer
    /\ NeverBusy

\* The machine halts by itself only when no device has anything left to do, so
\* that no thread that waits for one is given up (interrupt.cc:225-233).
HaltsWhenQuiet ==
    mode = "Halted" /\ pc # "halt" =>
        /\ \A e \in Range(events) : e.type = "TimerInt"
        /\ \A t \in Threads : Finished(t) \/ status[t] = "JUST_CREATED"

\* And then it does halt, although the timer would go on for ever
\* (interrupt.cc:315-319).
QuietHalts ==
    (\A t \in Threads : Finished(t) \/ status[t] = "JUST_CREATED") ~> mode = "Halted"

\* Everything typed appears on the display, although other threads compete for
\* the CPU.
EverythingEchoed ==
    \A n \in 1..MaxTyped :
        Len(typed) >= n /\ pc # "finished" ~> Len(shown) >= n \/ pc = "finished"

\* The timer preempts: a ready thread gets the CPU because the time left to the
\* timer runs out, without any fairness between threads (the fairness that
\* Kernel assumes of Preempt).
TimerPreempts ==
    \A t \in Threads : status[t] = "READY" ~> status[t] = "RUNNING" \/ mode = "Halted"

\* Time passes as it should: the CPU goes round, and the machine comes to its end.
TimeServes == TimerPreempts /\ QuietHalts
=============================================================================
