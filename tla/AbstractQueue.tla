--------------------------- MODULE AbstractQueue ---------------------------
(***************************************************************************)
(* What a shared list promises (threads/synchlist.h:19-25): a thread that  *)
(* removes an item waits until there is one, items come out in the order   *)
(* they went in, and each goes to one thread.  Every operation takes       *)
(* effect at one instant between its call and its return.                  *)
(***************************************************************************)
EXTENDS Sequences

CONSTANTS Threads, Items, NULL

VARIABLES
    contents,   \* the items on the list, oldest first
    asked,      \* the operation a thread has called, "none" when it returned
    item        \* the argument of its append or the result of its removal

avars == << contents, asked, item >>

AInit ==
    /\ contents = << >>
    /\ asked = [t \in Threads |-> "none"]
    /\ item = [t \in Threads |-> NULL]

CallAppend(t, x) ==
    /\ asked[t] = "none"
    /\ asked' = [asked EXCEPT ![t] = "append"]
    /\ item' = [item EXCEPT ![t] = x]
    /\ UNCHANGED contents

DoAppend(t) ==
    /\ asked[t] = "append"
    /\ contents' = Append(contents, item[t])
    /\ asked' = [asked EXCEPT ![t] = "done"]
    /\ UNCHANGED item

CallRemove(t) ==
    /\ asked[t] = "none"
    /\ asked' = [asked EXCEPT ![t] = "remove"]
    /\ UNCHANGED << contents, item >>

DoRemove(t) ==
    /\ asked[t] = "remove"
    /\ contents # << >>
    /\ item' = [item EXCEPT ![t] = Head(contents)]
    /\ contents' = Tail(contents)
    /\ asked' = [asked EXCEPT ![t] = "done"]

Return(t) ==
    /\ asked[t] = "done"
    /\ asked' = [asked EXCEPT ![t] = "none"]
    /\ item' = [item EXCEPT ![t] = NULL]
    /\ UNCHANGED contents

\* Each step moves the call of one thread on.
ANext ==
    \E t \in Threads :
        /\ asked'[t] # asked[t]
        /\ \/ \E x \in Items : CallAppend(t, x)
           \/ DoAppend(t)
           \/ CallRemove(t)
           \/ DoRemove(t)
           \/ Return(t)

ASpec == AInit /\ [][ANext]_avars
=============================================================================
