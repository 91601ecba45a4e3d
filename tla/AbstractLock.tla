---------------------------- MODULE AbstractLock ----------------------------
(***************************************************************************)
(* What a lock promises (threads/synch.h:54-64): it is FREE or BUSY,       *)
(* Acquire waits until it is FREE and sets it to BUSY, Release sets it to  *)
(* FREE.  Who waits longest is not promised.                               *)
(***************************************************************************)
CONSTANT Threads

VARIABLES
    asking,     \* the threads waiting in Acquire()
    inside      \* the threads between Acquire() and Release(): the lock is
                \* BUSY when there is one

avars == << asking, inside >>

AInit == asking = {} /\ inside = {}

Ask(t) ==
    /\ t \notin asking \cup inside
    /\ asking' = asking \cup {t}
    /\ UNCHANGED inside

Get(t) ==
    /\ t \in asking
    /\ inside = {}
    /\ inside' = {t}
    /\ asking' = asking \ {t}

Free(t) ==
    /\ t \in inside
    /\ inside' = inside \ {t}
    /\ UNCHANGED asking

ANext == \E t \in Threads : Ask(t) \/ Get(t) \/ Free(t)

ASpec == AInit /\ [][ANext]_avars
=============================================================================
