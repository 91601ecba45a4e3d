------------------------------ MODULE Interrupt ------------------------------
(***************************************************************************)
(* The interrupt simulation (machine/interrupt.cc) and the timer           *)
(* (machine/timer.cc): the list of scheduled interrupts, the simulated     *)
(* clock that makes them due, and when handlers run and preemptions happen. *)
(*                                                                         *)
(* Kernel lets an interrupt come whenever interrupts are on.  Here it comes *)
(* when its time has come: turning interrupts on is one tick of the clock  *)
(* (OneTick), and an idle CPU advances the clock to the next event (Idle). *)
(*                                                                         *)
(* The clock itself is not kept.  "when" is the time left until the event  *)
(* is due, and all of them shrink when Statistics::totalTicks grows, so    *)
(* that the state stays finite without a bound on time.                    *)
(***************************************************************************)
EXTENDS Kernel, SequencesExt

CONSTANTS
    SystemTick,     \* ticks taken each time interrupts are turned on (stats.h)
    TimerTicks      \* the average time between two timer interrupts (stats.h)

ASSUME InterruptAssumption ==
    /\ SystemTick \in Nat \ {0}
    /\ TimerTicks \in Nat \ {0}

VARIABLES
    events,         \* Interrupt::pending, the list sorted by when
    servicing,      \* what the simulation is doing
    yieldOnReturn   \* Interrupt::yieldOnReturn

intVars == << events, servicing, yieldOnReturn >>
ivars == << kvars, intVars >>

\* none    a thread executes, or Scheduler::Run is about to find one
\* tick    in the loop of OneTick
\* yield   about to call Yield on behalf of the preempted thread
\* idle    Idle has been called by Thread::Sleep
\* idling  in the loop of Idle
Servicing == {"none", "tick", "yield", "idle", "idling"}

-----------------------------------------------------------------------------
(* The sorted list (threads/list.cc).                                      *)

\* List::SortedInsert: before the first element with a greater key.
SortedInsert(list, event) ==
    LET i == SelectInSeq(list, LAMBDA e : event.when < e.when)
    IN IF i = 0 THEN Append(list, event) ELSE InsertAt(list, i, event)

\* The list after n ticks.
Elapse(list, n) == [i \in DOMAIN list |-> [list[i] EXCEPT !.when = @ - n]]

\* Interrupt::Schedule.
Scheduled(list, type, fromNow) ==
    SortedInsert(list, [type |-> type, when |-> fromNow])

\* Timer::TimeOfNextInterrupt, random with -rs.
TimeOfNextInterrupt == 1..(2 * TimerTicks)

-----------------------------------------------------------------------------
(* Thread steps.  A step of Kernel that ends by turning interrupts on is    *)
(* followed by the loop of OneTick.                                        *)

\* The constructor of Interrupt, and Initialize, which makes the timer with -rs.
IInit ==
    /\ KInit
    /\ IF RandomYield
         THEN \E delay \in TimeOfNextInterrupt :
                events = << [type |-> "TimerInt", when |-> delay] >>
         ELSE events = << >>
    /\ servicing = "none"
    /\ yieldOnReturn = FALSE

\* SetLevel(IntOn) when the level was off.
OneTick ==
    /\ events' = Elapse(events, SystemTick)
    /\ servicing' = "tick"

\* The thread that has been switched to: inside P() interrupts stay off, and
\* elsewhere it comes out of Yield or starts, and turns them on.
Resume(t) ==
    IF inP[t] = NULL
      THEN OneTick
      ELSE servicing' = "none" /\ UNCHANGED events

\* A thread's operation that turns interrupts off and on again.
Ticking(t) ==
    /\ servicing = "none"
    /\ Executing(t)
    /\ OneTick
    /\ UNCHANGED yieldOnReturn

\* Thread::Yield, called by OneTick on behalf of the thread.
YieldTick ==
    \/ readyList # << >> /\ SwitchAway /\ Resume(Head(readyList))
    \/ readyList = << >> /\ OneTick /\ UNCHANGED kvars

\* Thread::Sleep calls Idle if no thread is ready.
Sleeping ==
    /\ servicing = "none"
    /\ servicing' = IF readyList = << >> THEN "idle" ELSE "none"
    /\ UNCHANGED << events, yieldOnReturn >>

IFork(t, u) == Ticking(t) /\ Fork(u)

IFinish(t) == Executing(t) /\ Sleeping /\ Finish

IPEnter(t, s) == servicing = "none" /\ PEnter(t, s) /\ UNCHANGED intVars

IPSleep(t, s) == Sleeping /\ PSleep(t, s)

IPTake(t, s) ==
    /\ servicing = "none"
    /\ PTake(t, s)
    /\ OneTick
    /\ UNCHANGED yieldOnReturn

IDispatch ==
    /\ servicing = "none"
    /\ Dispatch
    /\ Resume(Head(readyList))
    /\ UNCHANGED yieldOnReturn

-----------------------------------------------------------------------------
(* Interrupt::CheckIfDue.  Handle(event, list) is what the handler of the   *)
(* event does to a list from which it has been taken.                      *)

Idling == servicing \in {"idle", "idling"}

\* How far the clock jumps.
Advance(advanceClock) ==
    IF advanceClock /\ Head(events).when > 0 THEN Head(events).when ELSE 0

\* Mutant of LoneTimer: the rest of the list is not looked at.
LoneTimerFirst == Idling /\ Head(events).type = "TimerInt"

\* Mutant of LoneTimer: the test is left out.
LoneTimerUntested == FALSE

\* "Don't invoke the timer if there is nothing else to do."
LoneTimer ==
    /\ Idling
    /\ Head(events).type = "TimerInt"
    /\ Tail(events) = << >>

\* CheckIfDue is going to invoke a handler and return TRUE.
Due(advanceClock) ==
    /\ events # << >>
    /\ Head(events).when - Advance(advanceClock) <= 0
    /\ ~LoneTimer

\* The list as the handler of its first event finds it.
Remaining(advanceClock) == Elapse(Tail(events), Advance(advanceClock))

\* Mutant of PutBack: the event is not put back.
PutBackForgotten(advanceClock) ==
    /\ ~Due(advanceClock)
    /\ events' = IF events = << >> THEN events ELSE Tail(events)

\* CheckIfDue returns FALSE: the first event is put back, which moves it behind
\* others of the same time.
PutBack(advanceClock) ==
    /\ ~Due(advanceClock)
    /\ IF events = << >>
         THEN UNCHANGED events
         ELSE LET now == Elapse(events, Advance(advanceClock))
              IN events' = SortedInsert(Tail(now), Head(now))

\* Mutant of TimerExpired: the timer is not started again.
TimerExpiredOnce(list) ==
    /\ events' = list
    /\ yieldOnReturn' = TRUE
    /\ UNCHANGED kvars

\* Timer::TimerExpired and TimerInterruptHandler of system.cc.  CheckIfDue has
\* set SystemMode, so that the handler always asks for a yield.
TimerExpired(list) ==
    /\ \E delay \in TimeOfNextInterrupt :
         events' = Scheduled(list, "TimerInt", delay)
    /\ yieldOnReturn' = TRUE
    /\ UNCHANGED kvars

-----------------------------------------------------------------------------
(* OneTick and Idle.                                                       *)

TickHandler(advanceClock) ==
    /\ servicing = "tick"
    /\ ~advanceClock
    /\ UNCHANGED servicing

\* The end of the loop: the flag is reset before the yield it asks for.
TickEnd ==
    /\ servicing = "tick"
    /\ PutBack(FALSE)
    /\ servicing' = IF yieldOnReturn THEN "yield" ELSE "none"
    /\ yieldOnReturn' = FALSE
    /\ UNCHANGED kvars

TickYield ==
    /\ servicing = "yield"
    /\ YieldTick
    /\ UNCHANGED yieldOnReturn

IdleHandler(advanceClock) ==
    /\ servicing = IF advanceClock THEN "idle" ELSE "idling"
    /\ servicing' = "idling"

\* Mutant of IdleEnd: the request for a yield is kept.
IdleEndKeepsYield ==
    /\ servicing = "idling"
    /\ PutBack(FALSE)
    /\ servicing' = IF readyList = << >> THEN "idle" ELSE "none"
    /\ UNCHANGED << yieldOnReturn, kvars >>

\* Idle returns to Sleep, which calls it again if still no thread is ready.
IdleEnd ==
    /\ servicing = "idling"
    /\ PutBack(FALSE)
    /\ yieldOnReturn' = FALSE
    /\ servicing' = IF readyList = << >> THEN "idle" ELSE "none"
    /\ UNCHANGED kvars

\* Nothing but perhaps the timer is pending: the machine halts.
IdleHalt ==
    /\ servicing = "idle"
    /\ PutBack(TRUE)
    /\ Halt
    /\ servicing' = "none"
    /\ UNCHANGED yieldOnReturn

\* A step of the simulation in which no handler runs, and one in which the
\* handler of the first event does.
QuietStep ==
    \/ IDispatch
    \/ TickEnd
    \/ TickYield
    \/ IdleEnd
    \/ IdleHalt

HandlerStep(advanceClock) ==
    /\ Due(advanceClock)
    /\ TickHandler(advanceClock) \/ IdleHandler(advanceClock)

-----------------------------------------------------------------------------
(* Properties.                                                             *)

ITypeOK ==
    /\ KTypeOK
    /\ \A e \in Range(events) : e.when \in Int
    /\ servicing \in Servicing
    /\ yieldOnReturn \in BOOLEAN

\* The list stays sorted through every insertion, put-back and lapse of time:
\* CheckIfDue looks at its first element only (interrupt.cc:300-312).
EventsSorted ==
    \A i, j \in DOMAIN events : i < j => events[i].when <= events[j].when

\* No device waits although its time has come: when a thread executes its own
\* code, all that may be overdue is a timer that was put back while the CPU
\* idled (interrupt.cc:169, 216, 315).
NoOverdueDevice ==
    servicing = "none" /\ mode # "Halted" =>
        \A e \in Range(events) : e.type # "TimerInt" => e.when > 0

\* A request for a yield is used at the end of the tick in which the timer
\* expired or dropped when the CPU was idle: a thread is never preempted
\* because of an expiry before it ran (interrupt.cc:172-174, 218).
NoStaleYield == yieldOnReturn => servicing # "none"

\* Nothing happens too late: not an interrupt, nor a preemption that was asked for.
EventsOnTime == EventsSorted /\ NoOverdueDevice /\ NoStaleYield
=============================================================================
