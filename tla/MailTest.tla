------------------------------ MODULE MailTest ------------------------------
(***************************************************************************)
(* The programs of the machines of PostOffice.  Either every machine runs   *)
(* MailTest of network/nettest.cc (nachos -m <id> -o <far id>): mail the    *)
(* other machine, read its mail, acknowledge it, read the acknowledgement   *)
(* and halt.  Or the threads of each send and receive as they like, which   *)
(* is what the post office is written for, and the user may stop a machine *)
(* at any time.                                                            *)
(***************************************************************************)
EXTENDS PostOffice

CONSTANTS
    MainThread,   \* the thread that runs MailTest
    Far,          \* the farAddr argument of each machine's MailTest
    Data, Ack,    \* the two messages of MailTest
    Letters,      \* the messages that the other program sends from each machine
    MaxPosts      \* bound: how many they send in all

ASSUME MailTestAssumption ==
    /\ MainThread \in Threads
    /\ Far \in [Machines -> Machines]
    /\ {Data, Ack} \subseteq Bodies
    /\ 1 \in Boxes
    /\ \A m \in Machines : Letters[m] \subseteq {x \in Mails : x.from = m}
    /\ MaxPosts \in Nat

VARIABLES
    program,    \* "MailTest" or "clients"
    stage,      \* how many statements of MailTest a machine has begun
    posts       \* how many messages have been sent in the other program

mvars == << pvars, program, stage, posts >>

MInit ==
    /\ PInit
    /\ program \in {"MailTest", "clients"}
    /\ stage = [m \in Machines |-> 0]
    /\ posts = 0

-----------------------------------------------------------------------------
(* MailTest.                                                               *)

Begins(m, n) ==
    /\ program = "MailTest"
    /\ stage[m] = n - 1
    /\ stage' = [stage EXCEPT ![m] = n]
    /\ UNCHANGED << program, posts >>

\* The call that follows has returned.
Back(m) == At(m, MainThread, "idle")

\* Interrupt::Halt: Cleanup and exit.
Halt(m) == Back(m) /\ Exit(m, "halted")

\* Mutant of MailTest: the acknowledgement is not waited for.
MailTestNoWait(m) ==
    \/ /\ Begins(m, 1)
       /\ \A n \in Machines : power[n] # "off"
       /\ Send(m, MainThread, Far[m], 0, 1, Data)
    \/ Begins(m, 2) /\ Receive(m, MainThread, 0)
    \/ /\ Begins(m, 3)
       /\ LET in == call[m][MainThread].mail
          IN Send(m, MainThread, in.from, in.reply, 1, Ack)
    \/ Begins(m, 4) /\ Halt(m)

\* Mutant of MailTest: the acknowledgement is awaited before one is sent.
MailTestSwapped(m) ==
    \/ /\ Begins(m, 1)
       /\ \A n \in Machines : power[n] # "off"
       /\ Send(m, MainThread, Far[m], 0, 1, Data)
    \/ Begins(m, 2) /\ Receive(m, MainThread, 0)
    \/ Begins(m, 3) /\ Receive(m, MainThread, 1)
    \/ /\ Begins(m, 4)
       /\ LET in == call[m][MainThread].mail
          IN Send(m, MainThread, in.from, in.reply, 1, Ack)
    \/ Begins(m, 5) /\ Halt(m)

\* The five statements.  main() waits two seconds for the user to start the
\* other machines (main.cc:168): they have been started.
MailTest(m) ==
    \/ /\ Begins(m, 1)
       /\ \A n \in Machines : power[n] # "off"
       /\ Send(m, MainThread, Far[m], 0, 1, Data)
    \/ Begins(m, 2) /\ Receive(m, MainThread, 0)
    \/ /\ Begins(m, 3)
       /\ LET in == call[m][MainThread].mail
          IN Send(m, MainThread, in.from, in.reply, 1, Ack)
    \/ Begins(m, 4) /\ Receive(m, MainThread, 1)
    \/ Begins(m, 5) /\ Halt(m)

-----------------------------------------------------------------------------
(* The other program.                                                      *)

ClientSends(m, t) ==
    /\ program = "clients"
    /\ posts < MaxPosts
    /\ posts' = posts + 1
    /\ \E x \in Letters[m] : Send(m, t, x.to, x.box, x.reply, x.body)
    /\ UNCHANGED << program, stage >>

ClientReceives(m, t) ==
    /\ program = "clients"
    /\ \E n \in Machines : \E x \in Letters[n] :
         x.to = m /\ Receive(m, t, x.box)
    /\ UNCHANGED << program, stage, posts >>

\* ^C calls Cleanup (system.cc:130).
UserAbort(m) ==
    /\ program = "clients"
    /\ On(m)
    /\ Exit(m, "halted")
    /\ UNCHANGED << program, stage, posts >>

-----------------------------------------------------------------------------
Still == UNCHANGED << program, stage, posts >>

MNext ==
    \E m \in Machines :
        \/ Start(m) /\ Still
        \/ MailTest(m)
        \/ UserAbort(m)
        \/ Background(m) /\ Still
        \/ \E t \in Threads : \/ Inside(m, t) /\ Still
                              \/ ClientSends(m, t)
                              \/ ClientReceives(m, t)

MSpec == MInit /\ [][MNext]_mvars

\* Fairness: the user starts every machine; the poll for packets is scheduled
\* again each time and the end of each send once (network.cc:63, 114); a thread
\* that can go on is given the CPU.
MFairSpec ==
    /\ MSpec
    /\ \A m \in Machines :
         /\ WF_mvars(Start(m) /\ Still)
         /\ WF_mvars(MailTest(m))
         /\ WF_mvars(CheckPktAvail(m) /\ Still)
         /\ WF_mvars(SendDone(m) /\ Still)
         /\ WF_mvars(PostalDelivery(m) /\ Still)
         /\ \A t \in Threads : WF_mvars(Inside(m, t) /\ Still)

-----------------------------------------------------------------------------
(* Properties.                                                             *)

MTypeOK ==
    /\ PTypeOK
    /\ program \in {"MailTest", "clients"}
    /\ stage \in [Machines -> 0..5]
    /\ posts \in 0..MaxPosts

\* MailTest never mails a machine that has halted, which would abort the sender
\* (SendToSocket's ASSERT): nobody halts while mail for it is still to be sent,
\* lost packets or not (nettest.cc:51-71).
NeverAborts ==
    program = "MailTest" => \A m \in Machines : power[m] # "aborted"

\* A machine that halts knows that the other has read its mail: that one has
\* come to the acknowledgement (nettest.cc:64-68).
HaltMeansRead ==
    \A m \in Machines :
        program = "MailTest" /\ power[m] = "halted" => stage[Far[m]] >= 3

\* The two machines end in order: neither halts while the other needs it.
HaltsInOrder == NeverAborts /\ HaltMeansRead

\* The threads of each machine and its device are in step, whatever is lost.
MConsistent == MTypeOK /\ OneSendAtATime /\ ArrivalsAnnounced

\* When no packet is lost, MailTest ends on every machine.
MailTestCompletes ==
    program = "MailTest" /\ (\A m \in Machines : ~mayLose[m])
        ~> \A m \in Machines : power[m] = "halted"

\* A packet that the network takes gets to its mailbox, unless the machine is
\* stopped first, even if nobody empties the mailboxes (post.h:20-33).
EverythingArrives ==
    \A m \in Machines : Incoming(m) # << >> ~> Incoming(m) = << >> \/ ~On(m)

\* Every Send() returns, even when its packet is lost (network.h:55-61), unless
\* the machine is stopped.
SendsReturn ==
    \A m \in Machines, t \in Threads :
        At(m, t, "acquire") ~> At(m, t, "idle") \/ ~On(m)

\* Nothing that is given to the network, and nobody who gives it, is held up.
NothingHeldUp == EverythingArrives /\ SendsReturn
=============================================================================
