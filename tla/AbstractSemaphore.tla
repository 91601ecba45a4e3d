------------------------- MODULE AbstractSemaphore -------------------------
(***************************************************************************)
(* What a set of semaphores promises (threads/synch.h:24-29): P() waits    *)
(* until the value is positive and then decrements it, V() increments it;  *)
(* each is indivisible.  There are no queues and no scheduler here.        *)
(***************************************************************************)
EXTENDS Integers

CONSTANTS Threads, Semaphores, InitialValue, NULL

VARIABLES
    val,      \* the value of each semaphore, never negative
    wants     \* the semaphore a thread is in P() of, or NULL

avars == << val, wants >>

AInit ==
    /\ val = InitialValue
    /\ wants = [t \in Threads |-> NULL]

\* Thread t calls s->P().
Call(t, s) ==
    /\ wants[t] = NULL
    /\ wants' = [wants EXCEPT ![t] = s]
    /\ UNCHANGED val

\* P() returns to t: the value was positive.
Pass(t, s) ==
    /\ wants[t] = s
    /\ val[s] > 0
    /\ val' = [val EXCEPT ![s] = @ - 1]
    /\ wants' = [wants EXCEPT ![t] = NULL]

\* Anyone, a device included, calls s->V().
Post(s) ==
    /\ val' = [val EXCEPT ![s] = @ + 1]
    /\ UNCHANGED wants

ANext ==
    \E s \in Semaphores :
        \/ Post(s)
        \/ \E t \in Threads : Call(t, s) \/ Pass(t, s)

ASpec == AInit /\ [][ANext]_avars
=============================================================================
