---------------------------- MODULE AbstractMail ----------------------------
(***************************************************************************)
(* What the post offices promise (network/post.h:20-33, machine/network.h: *)
(* 46-48): mail sent to a mailbox of another machine gets there once and   *)
(* unchanged or not at all, and mail for one mailbox is read in the order  *)
(* in which it was sent.  There are no packets, devices or threads here.   *)
(***************************************************************************)
EXTENDS Sequences

CONSTANTS Machines, Boxes, Mails

VARIABLES
    mail,     \* what has been sent to each mailbox and not read yet
    up        \* the machines that run

avars == << mail, up >>

AInit ==
    /\ mail = [m \in Machines |-> [b \in Boxes |-> << >>]]
    /\ up = {}

Start(m) ==
    /\ m \notin up
    /\ up' = up \cup {m}
    /\ UNCHANGED mail

\* Mail that is lost on the way is a stuttering step.
Send(x) ==
    /\ x.to \in up
    /\ UNCHANGED up
    /\ mail' = [mail EXCEPT ![x.to][x.box] = Append(@, x)]

Read(m, b) ==
    /\ m \in up
    /\ mail[m][b] # << >>
    /\ mail' = [mail EXCEPT ![m][b] = Tail(@)]
    /\ UNCHANGED up

\* The mail of a machine goes with it.
Stop(m) ==
    /\ m \in up
    /\ up' = up \ {m}
    /\ mail' = [mail EXCEPT ![m] = [b \in Boxes |-> << >>]]

\* Only what changes something is a step; the first conjunct spares TLC the rest.
ANext ==
    /\ avars' # avars
    /\ \/ \E m \in Machines : \/ Start(m)
                              \/ Stop(m)
                              \/ \E b \in Boxes : Read(m, b)
       \/ \E x \in Mails : Send(x)

ASpec == AInit /\ [][ANext]_avars
=============================================================================
