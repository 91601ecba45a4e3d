----------------------------- MODULE PostOffice -----------------------------
(***************************************************************************)
(* Several Nachos machines that mail each other: class PostOffice of        *)
(* network/post.cc on top of the network device of machine/network.cc.      *)
(*                                                                         *)
(* A machine is a UNIX process, and the machines run concurrently.  They    *)
(* share only the sockets, through which whole packets pass (sysdep.cc).    *)
(* In a machine, client threads send and receive mail, a postal worker      *)
(* moves what arrives into the mailboxes, and two interrupt handlers of     *)
(* the device call V() for them.                                           *)
(*                                                                         *)
(* The semaphores, the lock and the synchronised lists are what they        *)
(* promise (AbstractSemaphore, AbstractLock, AbstractQueue: Kernel, Lock    *)
(* and SynchList implement those), so that a step here is the stretch of    *)
(* code between two calls of them.  A machine does not stop for lack of     *)
(* events: the poll for packets is always scheduled (network.cc:63).        *)
(***************************************************************************)
EXTENDS Integers, Sequences, FiniteSets

CONSTANTS
    Machines,       \* the network addresses
    Threads,        \* the threads of each machine that use its post office
    Boxes,          \* the mailbox numbers, the same for all machines
    Bodies,         \* the contents of mail
    NoMail          \* inHdr.length = 0: no packet is buffered

ASSUME PostOfficeAssumption ==
    /\ Boxes \subseteq Nat
    /\ 0 \in Boxes
    /\ IsFiniteSet(Threads)
    /\ NoMail \notin [from : Machines, to : Machines, box : Boxes,
                      reply : Boxes, body : Bodies]

VARIABLES
    power,              \* off, on, halted (Halt or ^C) or aborted (ASSERT)
    mayLose,            \* chanceToWork < 1
    socket,             \* the packets the host keeps for each socket
    inbox,              \* Network::inHdr and inbox
    sending,            \* NetworkSendInt interrupts scheduled
    messageAvailable,   \* the value of PostOffice::messageAvailable
    messageSent,        \* the value of PostOffice::messageSent
    sendLock,           \* who holds PostOffice::sendLock, as a set
    boxes,              \* PostOffice::boxes
    worker,             \* how far the postal worker is, and what it carries
    call                \* how far each thread is in Send() or Receive()

deviceVars == << socket, inbox, sending >>
officeVars == << messageAvailable, messageSent, sendLock, boxes, worker >>
pvars == << power, mayLose, deviceVars, officeVars, call >>

\* A packet, with both headers.  The lengths follow from the body.
Mails == [from : Machines, to : Machines, box : Boxes, reply : Boxes,
          body : Bodies]

\* wait   in messageAvailable->P()
\* fetch  network->Receive() is next
\* put    in the Append() of the mailbox
WorkerPoints == {"wait", "fetch", "put"}

\* idle     outside the post office
\* acquire  in sendLock->Acquire()
\* send     network->Send() is next
\* sent     in messageSent->P()
\* release  sendLock->Release() is next
\* remove   in the Remove() of the mailbox
Points == {"idle", "acquire", "send", "sent", "release", "remove"}

On(m) == power[m] = "on"

At(m, t, point) == On(m) /\ call[m][t].at = point

Goto(m, t, point) == call' = [call EXCEPT ![m][t].at = point]

WorkerAt(m, point) == On(m) /\ worker[m].at = point

NoCalls == [t \in Threads |-> [at |-> "idle", mail |-> NoMail, box |-> 0]]

EmptyBoxes == [b \in Boxes |-> << >>]

Waiting == [at |-> "wait", mail |-> NoMail]

PInit ==
    /\ power = [m \in Machines |-> "off"]
    /\ mayLose \in [Machines -> BOOLEAN]
    /\ socket = [m \in Machines |-> << >>]
    /\ inbox = [m \in Machines |-> NoMail]
    /\ sending = [m \in Machines |-> 0]
    /\ messageAvailable = [m \in Machines |-> 0]
    /\ messageSent = [m \in Machines |-> 0]
    /\ sendLock = [m \in Machines |-> {}]
    /\ boxes = [m \in Machines |-> EmptyBoxes]
    /\ worker = [m \in Machines |-> Waiting]
    /\ call = [m \in Machines |-> NoCalls]

\* The constructors of PostOffice and Network: the socket gets its name.
Start(m) ==
    /\ power[m] = "off"
    /\ power' = [power EXCEPT ![m] = "on"]
    /\ UNCHANGED << mayLose, deviceVars, officeVars, call >>

\* The process is gone, and with it all that it and its socket held.
Exit(m, how) ==
    /\ power' = [power EXCEPT ![m] = how]
    /\ socket' = [socket EXCEPT ![m] = << >>]
    /\ inbox' = [inbox EXCEPT ![m] = NoMail]
    /\ sending' = [sending EXCEPT ![m] = 0]
    /\ messageAvailable' = [messageAvailable EXCEPT ![m] = 0]
    /\ messageSent' = [messageSent EXCEPT ![m] = 0]
    /\ sendLock' = [sendLock EXCEPT ![m] = {}]
    /\ boxes' = [boxes EXCEPT ![m] = EmptyBoxes]
    /\ worker' = [worker EXCEPT ![m] = Waiting]
    /\ call' = [call EXCEPT ![m] = NoCalls]
    /\ UNCHANGED mayLose

-----------------------------------------------------------------------------
(* The sockets of the host (machine/sysdep.cc).                            *)

PollSocket(m) == socket[m] # << >>

ReadFromSocket(m) == socket' = [socket EXCEPT ![m] = Tail(@)]

\* The host takes a packet when the name of the other socket exists.  (If not,
\* the ASSERT of SendToSocket aborts the sender: see NetworkSend.)
SendToSocket(x) ==
    /\ On(x.to)
    /\ socket' = [socket EXCEPT ![x.to] = Append(@, x)]

-----------------------------------------------------------------------------
(* The network device.                                                     *)

\* PostOffice's two interrupt handlers.
IncomingPacket(m) ==
    messageAvailable' = [messageAvailable EXCEPT ![m] = @ + 1]

PacketSent(m) == messageSent' = [messageSent EXCEPT ![m] = @ + 1]

\* Network::CheckPktAvail when the inbox is free and the socket is not empty.
\* Otherwise it only polls again later.
CheckPktAvail(m) ==
    /\ On(m)
    /\ inbox[m] = NoMail
    /\ PollSocket(m)
    /\ inbox' = [inbox EXCEPT ![m] = Head(socket[m])]
    /\ ReadFromSocket(m)
    /\ IncomingPacket(m)
    /\ UNCHANGED << power, mayLose, sending, messageSent, sendLock, boxes,
                    worker, call >>

\* Network::SendDone.
SendDone(m) ==
    /\ On(m)
    /\ sending[m] > 0
    /\ sending' = [sending EXCEPT ![m] = @ - 1]
    /\ PacketSent(m)
    /\ UNCHANGED << power, mayLose, socket, inbox, messageAvailable, sendLock,
                    boxes, worker, call >>

-----------------------------------------------------------------------------
(* PostOffice::Send.                                                       *)

\* The call, up to sendLock->Acquire().
Send(m, t, to, box, reply, body) ==
    /\ At(m, t, "idle")
    /\ call' = [call EXCEPT ![m][t].at = "acquire",
                            ![m][t].mail = [from |-> m, to |-> to, box |-> box,
                                            reply |-> reply, body |-> body]]
    /\ UNCHANGED << power, mayLose, deviceVars, officeVars >>

\* Mutant of SendAcquire: the lock is not waited for.
SendAcquireUnlocked(m, t) ==
    /\ At(m, t, "acquire")
    /\ Goto(m, t, "send")
    /\ sendLock' = [sendLock EXCEPT ![m] = @ \cup {t}]
    /\ UNCHANGED << power, mayLose, deviceVars, messageAvailable, messageSent,
                    boxes, worker >>

SendAcquire(m, t) ==
    /\ At(m, t, "acquire")
    /\ sendLock[m] = {}
    /\ Goto(m, t, "send")
    /\ sendLock' = [sendLock EXCEPT ![m] = {t}]
    /\ UNCHANGED << power, mayLose, deviceVars, messageAvailable, messageSent,
                    boxes, worker >>

\* Mutant of NetworkSend: a lost packet is not answered.
NetworkSendSilent(m, t) ==
    LET x == call[m][t].mail
    IN /\ At(m, t, "send")
       /\ \/ /\ Goto(m, t, "sent")
             /\ \/ mayLose[m] /\ UNCHANGED << socket, sending >>
                \/ /\ SendToSocket(x)
                   /\ sending' = [sending EXCEPT ![m] = @ + 1]
             /\ UNCHANGED << power, mayLose, inbox, officeVars >>
          \/ ~On(x.to) /\ Exit(m, "aborted")

\* Network::Send: the interrupt is scheduled whether or not the packet is lost,
\* and SendToSocket aborts when nobody has the name of the other socket.
NetworkSend(m, t) ==
    LET x == call[m][t].mail
    IN /\ At(m, t, "send")
       /\ \/ /\ Goto(m, t, "sent")
             /\ sending' = [sending EXCEPT ![m] = @ + 1]
             /\ (mayLose[m] /\ UNCHANGED socket) \/ SendToSocket(x)
             /\ UNCHANGED << power, mayLose, inbox, officeVars >>
          \/ ~On(x.to) /\ Exit(m, "aborted")

\* messageSent->P() returns.
SendPass(m, t) ==
    /\ At(m, t, "sent")
    /\ messageSent[m] > 0
    /\ messageSent' = [messageSent EXCEPT ![m] = @ - 1]
    /\ Goto(m, t, "release")
    /\ UNCHANGED << power, mayLose, deviceVars, messageAvailable, sendLock,
                    boxes, worker >>

\* sendLock->Release(), and the buffer is deleted.
SendRelease(m, t) ==
    /\ At(m, t, "release")
    /\ call' = [call EXCEPT ![m][t].at = "idle", ![m][t].mail = NoMail]
    /\ sendLock' = [sendLock EXCEPT ![m] = @ \ {t}]
    /\ UNCHANGED << power, mayLose, deviceVars, messageAvailable, messageSent,
                    boxes, worker >>

-----------------------------------------------------------------------------
(* PostOffice::Receive and MailBox::Get.                                   *)

Receive(m, t, box) ==
    /\ At(m, t, "idle")
    /\ call' = [call EXCEPT ![m][t].at = "remove", ![m][t].box = box]
    /\ UNCHANGED << power, mayLose, deviceVars, officeVars >>

Get(m, t) ==
    LET box == call[m][t].box
    IN /\ At(m, t, "remove")
       /\ boxes[m][box] # << >>
       /\ call' = [call EXCEPT ![m][t].at = "idle",
                               ![m][t].mail = Head(boxes[m][box]),
                               ![m][t].box = 0]
       /\ boxes' = [boxes EXCEPT ![m][box] = Tail(@)]
       /\ UNCHANGED << power, mayLose, deviceVars, messageAvailable,
                       messageSent, sendLock, worker >>

-----------------------------------------------------------------------------
(* PostOffice::PostalDelivery, the postal worker.                          *)

WorkerWakes(m) ==
    /\ WorkerAt(m, "wait")
    /\ messageAvailable[m] > 0
    /\ messageAvailable' = [messageAvailable EXCEPT ![m] = @ - 1]
    /\ worker' = [worker EXCEPT ![m].at = "fetch"]
    /\ UNCHANGED << power, mayLose, deviceVars, messageSent, sendLock, boxes,
                    call >>

\* Mutant of NetworkReceive: the inbox is not marked empty.
NetworkReceiveKeeps(m) ==
    /\ WorkerAt(m, "fetch")
    /\ worker' = [worker EXCEPT ![m] = [at |-> "put", mail |-> inbox[m]]]
    /\ UNCHANGED << power, mayLose, deviceVars, messageAvailable, messageSent,
                    sendLock, boxes, call >>

\* Network::Receive frees the inbox before the mail is in its mailbox.
NetworkReceive(m) ==
    /\ WorkerAt(m, "fetch")
    /\ worker' = [worker EXCEPT ![m] = [at |-> "put", mail |-> inbox[m]]]
    /\ inbox' = [inbox EXCEPT ![m] = NoMail]
    /\ UNCHANGED << power, mayLose, socket, sending, messageAvailable,
                    messageSent, sendLock, boxes, call >>

\* Mutant of Put: the mail goes to the front of the mailbox.
PutFirst(m) ==
    LET x == worker[m].mail
    IN /\ WorkerAt(m, "put")
       /\ boxes' = [boxes EXCEPT ![m][x.box] = << x >> \o @]
       /\ worker' = [worker EXCEPT ![m] = [at |-> "wait", mail |-> NoMail]]
       /\ UNCHANGED << power, mayLose, deviceVars, messageAvailable,
                       messageSent, sendLock, call >>

\* MailBox::Put.
Put(m) ==
    LET x == worker[m].mail
    IN /\ WorkerAt(m, "put")
       /\ boxes' = [boxes EXCEPT ![m][x.box] = Append(@, x)]
       /\ worker' = [worker EXCEPT ![m] = [at |-> "wait", mail |-> NoMail]]
       /\ UNCHANGED << power, mayLose, deviceVars, messageAvailable,
                       messageSent, sendLock, call >>

PostalDelivery(m) ==
    \/ WorkerWakes(m)
    \/ NetworkReceive(m)
    \/ Put(m)

-----------------------------------------------------------------------------
\* A step of a thread inside the post office.
Inside(m, t) ==
    \/ SendAcquire(m, t)
    \/ NetworkSend(m, t)
    \/ SendPass(m, t)
    \/ SendRelease(m, t)
    \/ Get(m, t)

\* A step of the device or of the postal worker.
Background(m) ==
    \/ CheckPktAvail(m)
    \/ SendDone(m)
    \/ PostalDelivery(m)

-----------------------------------------------------------------------------
(* Properties.                                                             *)

PTypeOK ==
    /\ power \in [Machines -> {"off", "on", "halted", "aborted"}]
    /\ mayLose \in [Machines -> BOOLEAN]
    /\ socket \in [Machines -> Seq(Mails)]
    /\ inbox \in [Machines -> Mails \cup {NoMail}]
    /\ sending \in [Machines -> Nat]
    /\ messageAvailable \in [Machines -> Nat]
    /\ messageSent \in [Machines -> Nat]
    /\ sendLock \in [Machines -> SUBSET Threads]
    /\ boxes \in [Machines -> [Boxes -> Seq(Mails)]]
    /\ worker \in [Machines -> [at : WorkerPoints, mail : Mails \cup {NoMail}]]
    /\ call \in [Machines -> [Threads -> [at : Points,
                                          mail : Mails \cup {NoMail},
                                          box : Boxes]]]

\* The threads whose packet the device is sending, or has sent unnoticed.
Sent(m) == {t \in Threads : call[m][t].at = "sent"}

\* What sendBusy was to ensure and, never being set, does not: a send that the
\* device has not finished, or whose end its thread has not noticed, is the only
\* one, so that no thread takes the end of another's send for its own
\* (network.cc:109, post.cc:277-282).
OneSendAtATime ==
    \A m \in Machines :
        /\ Sent(m) \subseteq sendLock[m]
        /\ Cardinality(Sent(m)) <= 1
        /\ sending[m] + messageSent[m] = Cardinality(Sent(m))

\* A packet is in the device's one buffer exactly when its arrival has been
\* announced and not been answered: the worker never finds the buffer empty,
\* and no packet stays in it unnoticed and blocks all later ones
\* (network.cc:66-86, post.cc:228-231).
ArrivalsAnnounced ==
    \A m \in Machines :
        /\ messageAvailable[m] <= 1
        /\ inbox[m] # NoMail <=> messageAvailable[m] = 1 \/ worker[m].at = "fetch"
        /\ messageAvailable[m] = 1 => worker[m].at # "fetch"
        /\ worker[m].mail # NoMail <=> worker[m].at = "put"

\* The packets for machine m that the network has taken and the worker has not
\* put into a mailbox yet, oldest first.
Incoming(m) ==
    (IF worker[m].at = "put" THEN << worker[m].mail >> ELSE << >>)
      \o (IF inbox[m] = NoMail THEN << >> ELSE << inbox[m] >>)
      \o socket[m]

\* Those of the packets s that are for mailbox b.
ForBox(s, b) ==
    LET F[i \in 0..Len(s)] ==
            IF i = 0 THEN << >>
            ELSE IF s[i].box = b THEN Append(F[i - 1], s[i]) ELSE F[i - 1]
    IN F[Len(s)]

\* The mail for one mailbox, oldest first.
MailFor(m, b) == boxes[m][b] \o ForBox(Incoming(m), b)

Mailbox == INSTANCE AbstractMail WITH
    up <- {m \in Machines : On(m)},
    mail <- [m \in Machines |-> [b \in Boxes |-> MailFor(m, b)]]

\* The post offices implement mailboxes that lose nothing after the send, keep
\* the order of the sends and deliver nothing twice, whatever the threads, the
\* worker and the handlers of the machines do meanwhile.
ImplementsMail == Mailbox!ASpec
=============================================================================
