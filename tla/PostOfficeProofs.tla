-------------------------- MODULE PostOfficeProofs --------------------------
(***************************************************************************)
(* What holds of the post offices for every set of machines and threads,   *)
(* whatever the network loses and whenever a machine stops.                *)
(***************************************************************************)
EXTENDS MailTest, FiniteSetTheorems, SequenceTheorems, WellFoundedInduction, TLAPS

\* Who holds sendLock: the threads between Acquire() and Release().
LockInv(m) ==
    /\ \A t \in Threads :
         t \in sendLock[m] <=> call[m][t].at \in {"send", "sent", "release"}
    /\ \A t, u \in sendLock[m] : t = u

\* The interrupts and signals on their way are those of the one send.
SendInv(m) ==
    sending[m] + messageSent[m] =
        IF \E t \in Threads : call[m][t].at = "sent" THEN 1 ELSE 0

\* ArrivalsAnnounced for one machine.
ArrivalInv(m) ==
    /\ messageAvailable[m] <= 1
    /\ inbox[m] # NoMail <=> messageAvailable[m] = 1 \/ worker[m].at = "fetch"
    /\ messageAvailable[m] = 1 => worker[m].at # "fetch"
    /\ worker[m].mail # NoMail <=> worker[m].at = "put"

\* Send() has mail to send.
CarryInv(m) ==
    \A t \in Threads :
        call[m][t].at \in {"acquire", "send"} => call[m][t].mail \in Mails

OfficeInv(m) == LockInv(m) /\ SendInv(m) /\ ArrivalInv(m) /\ CarryInv(m)

PInv == PTypeOK /\ \A m \in Machines : OfficeInv(m)

-----------------------------------------------------------------------------

\* An empty buffer is told from every packet (network.cc:62, 136).
LEMMA NoMailIsNoMail == NoMail \notin Mails
BY PostOfficeAssumption DEF Mails

\* What happens in one machine does not touch the others, but for the packets
\* in their sockets.
LEMMA OthersKeep ==
    ASSUME PInv, NEW n \in Machines,
           UNCHANGED << inbox[n], sending[n], messageAvailable[n], messageSent[n],
                        sendLock[n], worker[n], call[n] >>
    PROVE  OfficeInv(n)'
BY DEF PInv, OfficeInv, LockInv, SendInv, ArrivalInv, CarryInv

\* A mail put in a box leaves boxes of mails.
LEMMA PutAppends ==
    ASSUME PTypeOK, NEW m \in Machines, NEW x \in Mails, NEW b \in Boxes
    PROVE  [boxes EXCEPT ![m] = [boxes[m] EXCEPT ![b] = Append(boxes[m][b], x)]]
             \in [Machines -> [Boxes -> Seq(Mails)]]
<1> DEFINE longer == Append(boxes[m][b], x)
           all == [Machines -> [Boxes -> Seq(Mails)]]
<1>1. boxes \in all
  BY DEF PTypeOK
<1>2. boxes[m] \in [Boxes -> Seq(Mails)]
  BY <1>1
<1>3. boxes[m][b] \in Seq(Mails)
  BY <1>2
<1>4. longer \in Seq(Mails)
  BY <1>3
<1> HIDE DEF longer
<1>5. [boxes[m] EXCEPT ![b] = longer] \in [Boxes -> Seq(Mails)]
  BY <1>2, <1>4
<1>6. [boxes EXCEPT ![m] = [boxes[m] EXCEPT ![b] = longer]] \in all
  BY <1>1, <1>5
<1> QED
  BY <1>6 DEF longer

\* The device and the postal worker.
LEMMA BackgroundKeeps ==
    ASSUME PInv, NEW m \in Machines, Background(m)
    PROVE  PInv'
<1> USE PostOfficeAssumption DEF PInv
<1>1. CASE CheckPktAvail(m)
  <2>1. Head(socket[m]) \in Mails /\ Tail(socket[m]) \in Seq(Mails)
    BY <1>1 DEF CheckPktAvail, PollSocket, PTypeOK
  <2>2. PTypeOK'
    BY <1>1, <2>1 DEF CheckPktAvail, ReadFromSocket, IncomingPacket, PTypeOK
  <2>3. \A n \in Machines : n # m => OfficeInv(n)'
    BY <1>1, OthersKeep DEF CheckPktAvail, IncomingPacket, PTypeOK
  <2>4. ArrivalInv(m)'
    <3>1. inbox'[m] # NoMail /\ messageAvailable'[m] = messageAvailable[m] + 1
      BY <1>1, <2>1, NoMailIsNoMail DEF CheckPktAvail, IncomingPacket, PTypeOK
    <3>2. inbox[m] = NoMail /\ UNCHANGED worker
      BY <1>1 DEF CheckPktAvail
    <3>3. messageAvailable[m] \in Nat
      BY DEF PTypeOK
    <3> QED
      BY <3>1, <3>2, <3>3 DEF OfficeInv, ArrivalInv
  <2>5. LockInv(m)' /\ SendInv(m)' /\ CarryInv(m)'
    BY <1>1 DEF CheckPktAvail, OfficeInv, LockInv, SendInv, CarryInv
  <2> QED
    BY <2>2, <2>3, <2>4, <2>5 DEF OfficeInv
<1>2. CASE SendDone(m)
  <2>1. PTypeOK'
    BY <1>2 DEF SendDone, PacketSent, PTypeOK
  <2>2. \A n \in Machines : n # m => OfficeInv(n)'
    BY <1>2, OthersKeep DEF SendDone, PacketSent, PTypeOK
  <2>3. SendInv(m)'
    BY <1>2 DEF SendDone, PacketSent, PTypeOK, OfficeInv, SendInv
  <2>4. LockInv(m)' /\ ArrivalInv(m)' /\ CarryInv(m)'
    BY <1>2 DEF SendDone, OfficeInv, LockInv, ArrivalInv, CarryInv
  <2> QED
    BY <2>1, <2>2, <2>3, <2>4 DEF OfficeInv
<1>3. CASE PostalDelivery(m)
  <2>1. /\ UNCHANGED << power, mayLose, socket, sending, messageSent, sendLock, call >>
        /\ \A n \in Machines : n # m =>
             UNCHANGED << inbox[n], messageAvailable[n], worker[n] >>
    BY <1>3 DEF PostalDelivery, WorkerWakes, NetworkReceive, Put, PTypeOK,
                deviceVars
  <2>2. \A n \in Machines : n # m => OfficeInv(n)'
    BY <2>1, OthersKeep
  <2>3. LockInv(m)' /\ SendInv(m)' /\ CarryInv(m)'
    BY <2>1 DEF OfficeInv, LockInv, SendInv, CarryInv
  <2>4. PTypeOK' /\ ArrivalInv(m)'
    <3>1. CASE WorkerWakes(m)
      BY <3>1 DEF WorkerWakes, WorkerAt, PTypeOK, OfficeInv, ArrivalInv,
                  WorkerPoints, deviceVars
    <3>2. CASE NetworkReceive(m)
      BY <3>2 DEF NetworkReceive, WorkerAt, PTypeOK, OfficeInv, ArrivalInv,
                  WorkerPoints
    <3>3. CASE Put(m)
      <4>1. worker[m].mail \in Mails /\ worker[m].mail.box \in Boxes
        BY <3>3 DEF Put, WorkerAt, PTypeOK, OfficeInv, ArrivalInv, Mails
      <4>2. boxes' \in [Machines -> [Boxes -> Seq(Mails)]]
        BY <4>1, <3>3, PutAppends DEF Put
      <4>3. ArrivalInv(m)'
        BY <3>3 DEF Put, WorkerAt, PTypeOK, OfficeInv, ArrivalInv, deviceVars
      <4>4. worker' \in [Machines -> [at : WorkerPoints, mail : Mails \cup {NoMail}]]
        BY <3>3 DEF Put, PTypeOK, WorkerPoints
      <4> QED
        BY <2>1, <3>3, <4>2, <4>3, <4>4 DEF Put, PTypeOK, deviceVars
    <3> QED
      BY <1>3, <3>1, <3>2, <3>3 DEF PostalDelivery
  <2> QED
    BY <2>2, <2>3, <2>4 DEF OfficeInv
<1> QED
  BY <1>1, <1>2, <1>3 DEF Background

Calls == [at : Points, mail : Mails \cup {NoMail}, box : Boxes]

\* One thread of one machine moves.
LEMMA OneCallMoves ==
    ASSUME PTypeOK, NEW m \in Machines, NEW t \in Threads, NEW c \in Calls,
           call' = [call EXCEPT ![m] = [call[m] EXCEPT ![t] = c]]
    PROVE  /\ call' \in [Machines -> [Threads -> Calls]]
           /\ call'[m][t] = c
           /\ \A u \in Threads : u # t => call'[m][u] = call[m][u]
           /\ \A n \in Machines : n # m => call'[n] = call[n]
BY DEF PTypeOK, Calls

\* The call of t with its point changed.
LEMMA GotoMoves ==
    ASSUME PTypeOK, NEW m \in Machines, NEW t \in Threads, NEW p \in Points,
           Goto(m, t, p)
    PROVE  /\ call' \in [Machines -> [Threads -> Calls]]
           /\ call'[m][t].at = p
           /\ call'[m][t].mail = call[m][t].mail
           /\ \A u \in Threads : u # t => call'[m][u] = call[m][u]
           /\ \A n \in Machines : n # m => call'[n] = call[n]
<1> DEFINE c == [call[m][t] EXCEPT !.at = p]
<1>1. call[m][t] \in Calls
  BY DEF PTypeOK, Calls
<1>2. c \in Calls /\ c.at = p /\ c.mail = call[m][t].mail
  BY <1>1 DEF Calls
<1>3. call' = [call EXCEPT ![m] = [call[m] EXCEPT ![t] = c]]
  BY DEF Goto
<1> HIDE DEF c
<1> QED
  BY <1>2, <1>3, OneCallMoves

\* The process is gone.
LEMMA ExitKeeps ==
    ASSUME PInv, NEW m \in Machines, NEW how \in {"halted", "aborted"}, Exit(m, how)
    PROVE  PInv'
<1> USE PostOfficeAssumption DEF PInv
<1>1. /\ EmptyBoxes \in [Boxes -> Seq(Mails)]
      /\ Waiting \in [at : WorkerPoints, mail : Mails \cup {NoMail}]
      /\ NoCalls \in [Threads -> Calls]
  BY DEF EmptyBoxes, Waiting, WorkerPoints, NoCalls, Calls, Points
<1>2. PTypeOK'
  BY <1>1 DEF Exit, PTypeOK, Calls
<1>3. \A n \in Machines : n # m => OfficeInv(n)'
  BY OthersKeep DEF Exit, PTypeOK
<1>4. /\ call'[m] = NoCalls /\ worker'[m] = Waiting /\ inbox'[m] = NoMail
      /\ sendLock'[m] = {}
      /\ sending'[m] = 0 /\ messageSent'[m] = 0 /\ messageAvailable'[m] = 0
  BY DEF Exit, PTypeOK
<1>5. OfficeInv(m)'
  BY <1>4 DEF NoCalls, Waiting, OfficeInv, LockInv, SendInv, ArrivalInv, CarryInv
<1> QED
  BY <1>2, <1>3, <1>5

\* A thread calls Send() or Receive().
LEMMA CallKeeps ==
    ASSUME PInv, NEW m \in Machines, NEW t \in Threads,
           UNCHANGED << power, mayLose, deviceVars, officeVars >>,
           At(m, t, "idle"), NEW c \in Calls,
           call' = [call EXCEPT ![m] = [call[m] EXCEPT ![t] = c]],
           c.at \in {"acquire", "remove"},
           c.at = "acquire" => c.mail \in Mails
    PROVE  PInv'
<1> USE DEF PInv, deviceVars, officeVars
<1>1. /\ call' \in [Machines -> [Threads -> Calls]]
      /\ call'[m][t] = c
      /\ \A u \in Threads : u # t => call'[m][u] = call[m][u]
      /\ \A n \in Machines : n # m => call'[n] = call[n]
  BY OneCallMoves
<1>2. PTypeOK'
  BY <1>1 DEF PTypeOK, Calls
<1>3. \A n \in Machines : n # m => OfficeInv(n)'
  BY <1>1, OthersKeep
<1>4. LockInv(m)' /\ SendInv(m)' /\ ArrivalInv(m)' /\ CarryInv(m)'
  BY <1>1 DEF At, OfficeInv, LockInv, SendInv, ArrivalInv, CarryInv
<1> QED
  BY <1>2, <1>3, <1>4 DEF OfficeInv

\* A call of Send().
LEMMA SendKeeps ==
    ASSUME PInv, NEW m \in Machines, NEW t \in Threads, NEW x \in Mails, x.from = m,
           Send(m, t, x.to, x.box, x.reply, x.body)
    PROVE  PInv'
<1> DEFINE c == [call[m][t] EXCEPT !.at = "acquire", !.mail = x]
<1>1. call[m][t] \in Calls
  BY DEF PInv, PTypeOK, Calls
<1>2. c \in Calls /\ c.at = "acquire" /\ c.mail = x
  BY <1>1 DEF Calls, Points
<1>3. x = [from |-> m, to |-> x.to, box |-> x.box, reply |-> x.reply, body |-> x.body]
  BY DEF Mails
<1>4. call' = [call EXCEPT ![m] = [call[m] EXCEPT ![t] = c]]
  BY <1>3 DEF Send
<1>5. At(m, t, "idle") /\ UNCHANGED << power, mayLose, deviceVars, officeVars >>
  BY DEF Send
<1> HIDE DEF c
<1> QED
  BY <1>2, <1>4, <1>5, CallKeeps

\* A call of Receive().
LEMMA ReceiveKeeps ==
    ASSUME PInv, NEW m \in Machines, NEW t \in Threads, NEW b \in Boxes,
           Receive(m, t, b)
    PROVE  PInv'
<1> DEFINE c == [call[m][t] EXCEPT !.at = "remove", !.box = b]
<1>1. call[m][t] \in Calls
  BY DEF PInv, PTypeOK, Calls
<1>2. c \in Calls /\ c.at = "remove"
  BY <1>1 DEF Calls, Points
<1>3. call' = [call EXCEPT ![m] = [call[m] EXCEPT ![t] = c]]
  BY DEF Receive
<1>4. At(m, t, "idle") /\ UNCHANGED << power, mayLose, deviceVars, officeVars >>
  BY DEF Receive
<1> HIDE DEF c
<1> QED
  BY <1>2, <1>3, <1>4, CallKeeps

\* A thread that goes on inside Send() or Receive().
LEMMA InsideKeeps ==
    ASSUME PInv, NEW m \in Machines, NEW t \in Threads, Inside(m, t)
    PROVE  PInv'
<1> USE DEF PInv, deviceVars, officeVars
<1>1. CASE SendAcquire(m, t)
  <2>1. /\ call' \in [Machines -> [Threads -> Calls]]
        /\ call'[m][t].at = "send"
        /\ call'[m][t].mail = call[m][t].mail
        /\ \A u \in Threads : u # t => call'[m][u] = call[m][u]
        /\ \A n \in Machines : n # m => call'[n] = call[n]
    BY <1>1, GotoMoves DEF SendAcquire, Points
  <2>2. /\ sendLock' \in [Machines -> SUBSET Threads]
        /\ sendLock'[m] = {t}
        /\ \A n \in Machines : n # m => sendLock'[n] = sendLock[n]
    BY <1>1 DEF SendAcquire, PTypeOK
  <2>3. /\ UNCHANGED << power, mayLose, deviceVars, messageAvailable, messageSent,
                        boxes, worker >>
        /\ call[m][t].at = "acquire" /\ sendLock[m] = {}
    BY <1>1 DEF SendAcquire, At
  <2>4. PTypeOK'
    BY <2>1, <2>2, <2>3 DEF PTypeOK, Calls
  <2>5. \A n \in Machines : n # m => OfficeInv(n)'
    BY <2>1, <2>2, <2>3, OthersKeep
  <2>6. LockInv(m)' /\ CarryInv(m)'
    BY <2>1, <2>2, <2>3, SMTT(30) DEF OfficeInv, LockInv, CarryInv
  <2>7. SendInv(m)' /\ ArrivalInv(m)'
    BY <2>1, <2>3, SMTT(30) DEF OfficeInv, SendInv, ArrivalInv
  <2> QED
    BY <2>4, <2>5, <2>6, <2>7 DEF OfficeInv
<1>2. CASE NetworkSend(m, t)
  <2> DEFINE x == call[m][t].mail
  <2>1. x \in Mails /\ call[m][t].at = "send"
    BY <1>2 DEF NetworkSend, At, OfficeInv, CarryInv
  <2>2. \A u \in Threads : call[m][u].at # "sent"
    BY <2>1 DEF OfficeInv, LockInv
  <2> HIDE DEF x
  <2>3. ASSUME Goto(m, t, "sent"),
               sending' = [sending EXCEPT ![m] = sending[m] + 1],
               UNCHANGED socket \/ SendToSocket(x),
               UNCHANGED << power, mayLose, inbox, officeVars >>
        PROVE  PInv'
    <3>1. /\ call' \in [Machines -> [Threads -> Calls]]
          /\ call'[m][t].at = "sent"
          /\ call'[m][t].mail = call[m][t].mail
          /\ \A u \in Threads : u # t => call'[m][u] = call[m][u]
          /\ \A n \in Machines : n # m => call'[n] = call[n]
      BY <2>3, GotoMoves DEF Points
    <3>2. socket' \in [Machines -> Seq(Mails)]
      <4>1. CASE UNCHANGED socket
        BY <4>1 DEF PTypeOK
      <4>2. CASE SendToSocket(x)
        <5> DEFINE longer == Append(socket[x.to], x)
        <5>1. \A s \in Seq(Mails), y \in Mails : Append(s, y) \in Seq(Mails)
          OBVIOUS
        <5>2. socket[x.to] \in Seq(Mails)
          BY <2>1 DEF PTypeOK, Mails
        <5>3. longer \in Seq(Mails) /\ socket' = [socket EXCEPT ![x.to] = longer]
          BY <2>1, <4>2, <5>1, <5>2 DEF SendToSocket
        <5> HIDE DEF longer
        <5> QED
          BY <5>3 DEF PTypeOK
      <4> QED
        BY <2>3, <4>1, <4>2
    <3>0. /\ sending' \in [Machines -> Nat]
           /\ sending'[m] = sending[m] + 1
           /\ \A n \in Machines : n # m => sending'[n] = sending[n]
      BY <2>3 DEF PTypeOK
    <3>3. PTypeOK'
      BY <2>3, <3>1, <3>2, <3>0 DEF PTypeOK, Calls
    <3>4. \A n \in Machines : n # m => OfficeInv(n)'
      BY <2>3, <3>1, <3>0, OthersKeep
    <3>5. SendInv(m)'
      <4>1. sending[m] + messageSent[m] = 0
        BY <2>2 DEF OfficeInv, SendInv
      <4>2. sending[m] \in Nat /\ messageSent[m] \in Nat
        BY DEF PTypeOK
      <4>3. messageSent'[m] = messageSent[m]
        BY <2>3
      <4>4. sending'[m] + messageSent'[m] = 1
        BY <3>0, <4>1, <4>2, <4>3
      <4> QED
        BY <3>1, <4>4 DEF SendInv
    <3>6. LockInv(m)' /\ ArrivalInv(m)' /\ CarryInv(m)'
      BY <2>1, <2>3, <3>1, SMTT(30) DEF OfficeInv, LockInv, ArrivalInv, CarryInv
    <3> QED
      BY <3>3, <3>4, <3>5, <3>6 DEF OfficeInv
  <2> QED
    BY <1>2, <2>3, ExitKeeps DEF NetworkSend, x
<1>3. CASE SendPass(m, t)
  <2>1. /\ call' \in [Machines -> [Threads -> Calls]]
        /\ call'[m][t].at = "release"
        /\ call'[m][t].mail = call[m][t].mail
        /\ \A u \in Threads : u # t => call'[m][u] = call[m][u]
        /\ \A n \in Machines : n # m => call'[n] = call[n]
    BY <1>3, GotoMoves DEF SendPass, Points
  <2>2. /\ messageSent' \in [Machines -> Nat]
        /\ messageSent'[m] = messageSent[m] - 1
        /\ \A n \in Machines : n # m => messageSent'[n] = messageSent[n]
    BY <1>3 DEF SendPass, PTypeOK
  <2>3. /\ UNCHANGED << power, mayLose, deviceVars, messageAvailable, sendLock,
                        boxes, worker >>
        /\ call[m][t].at = "sent" /\ messageSent[m] > 0
    BY <1>3 DEF SendPass, At
  <2>4. PTypeOK'
    BY <2>1, <2>2, <2>3 DEF PTypeOK, Calls
  <2>5. \A n \in Machines : n # m => OfficeInv(n)'
    BY <2>1, <2>2, <2>3, OthersKeep
  <2>6. LockInv(m)' /\ CarryInv(m)' /\ ArrivalInv(m)'
    BY <2>1, <2>3 DEF OfficeInv, LockInv, CarryInv, ArrivalInv
  <2>7. \A u \in Threads : call'[m][u].at # "sent"
    BY <2>1, <2>3 DEF OfficeInv, LockInv
  <2>8. SendInv(m)'
    <3>1. sending[m] + messageSent[m] = 1
      BY <2>3 DEF OfficeInv, SendInv
    <3>2. sending[m] \in Nat /\ messageSent[m] \in Nat /\ sending'[m] = sending[m]
      BY <2>3 DEF PTypeOK
    <3>3. sending'[m] + messageSent'[m] = 0
      BY <2>2, <3>1, <3>2
    <3> QED
      BY <2>7, <3>3 DEF SendInv
  <2> QED
    BY <2>4, <2>5, <2>6, <2>8 DEF OfficeInv
<1>4. CASE SendRelease(m, t)
  <2> DEFINE c == [call[m][t] EXCEPT !.at = "idle", !.mail = NoMail]
  <2>1. c \in Calls /\ c.at = "idle"
    <3>1. call[m][t] \in Calls
      BY DEF PTypeOK, Calls
    <3> QED
      BY <3>1 DEF Calls, Points
  <2>2. call' = [call EXCEPT ![m] = [call[m] EXCEPT ![t] = c]]
    BY <1>4 DEF SendRelease
  <2> HIDE DEF c
  <2>3. /\ call' \in [Machines -> [Threads -> Calls]]
        /\ call'[m][t].at = "idle"
        /\ \A u \in Threads : u # t => call'[m][u] = call[m][u]
        /\ \A n \in Machines : n # m => call'[n] = call[n]
    BY <2>1, <2>2, OneCallMoves
  <2>4. /\ sendLock' \in [Machines -> SUBSET Threads]
        /\ sendLock'[m] = sendLock[m] \ {t}
        /\ \A n \in Machines : n # m => sendLock'[n] = sendLock[n]
    BY <1>4 DEF SendRelease, PTypeOK
  <2>5. /\ UNCHANGED << power, mayLose, deviceVars, messageAvailable, messageSent,
                        boxes, worker >>
        /\ call[m][t].at = "release"
    BY <1>4 DEF SendRelease, At
  <2>6. PTypeOK'
    BY <2>3, <2>4, <2>5 DEF PTypeOK, Calls
  <2>7. \A n \in Machines : n # m => OfficeInv(n)'
    BY <2>3, <2>4, <2>5, OthersKeep
  <2>8. LockInv(m)' /\ CarryInv(m)'
    <3>1. \A u \in Threads :
            u \in sendLock'[m] <=> call'[m][u].at \in {"send", "sent", "release"}
      BY <2>3, <2>4 DEF OfficeInv, LockInv
    <3>2. \A u, v \in sendLock'[m] : u = v
      BY <2>4 DEF OfficeInv, LockInv
    <3>3. CarryInv(m)'
      BY <2>3 DEF OfficeInv, CarryInv
    <3> QED
      BY <3>1, <3>2, <3>3 DEF LockInv
  <2>9. SendInv(m)' /\ ArrivalInv(m)'
    BY <2>3, <2>5 DEF OfficeInv, SendInv, ArrivalInv
  <2> QED
    BY <2>6, <2>7, <2>8, <2>9 DEF OfficeInv
<1>5. CASE Get(m, t)
  <2> DEFINE b == call[m][t].box
             c == [call[m][t] EXCEPT !.at = "idle", !.mail = Head(boxes[m][b]), !.box = 0]
  <2>1. b \in Boxes /\ boxes[m][b] \in Seq(Mails) /\ boxes[m][b] # << >>
    BY <1>5 DEF Get, PTypeOK
  <2>2. Head(boxes[m][b]) \in Mails /\ Tail(boxes[m][b]) \in Seq(Mails)
    BY <2>1
  <2>3. c \in Calls /\ c.at = "idle"
    <3>1. call[m][t] \in Calls
      BY DEF PTypeOK, Calls
    <3> QED
      BY <2>2, <3>1, PostOfficeAssumption DEF Calls, Points
  <2>4. call' = [call EXCEPT ![m] = [call[m] EXCEPT ![t] = c]]
    BY <1>5 DEF Get
  <2>5. boxes' = [boxes EXCEPT ![m] = [boxes[m] EXCEPT ![b] = Tail(boxes[m][b])]]
    BY <1>5 DEF Get
  <2>6. /\ UNCHANGED << power, mayLose, deviceVars, messageAvailable, messageSent,
                        sendLock, worker >>
        /\ call[m][t].at = "remove"
    BY <1>5 DEF Get, At
  <2> HIDE DEF b, c
  <2>7. /\ call' \in [Machines -> [Threads -> Calls]]
        /\ call'[m][t].at = "idle"
        /\ \A u \in Threads : u # t => call'[m][u] = call[m][u]
        /\ \A n \in Machines : n # m => call'[n] = call[n]
    BY <2>3, <2>4, OneCallMoves
  <2>8. boxes' \in [Machines -> [Boxes -> Seq(Mails)]]
    BY <2>2, <2>5 DEF PTypeOK
  <2>9. PTypeOK'
    BY <2>6, <2>7, <2>8 DEF PTypeOK, Calls
  <2>10. \A n \in Machines : n # m => OfficeInv(n)'
    BY <2>6, <2>7, OthersKeep
  <2>11. LockInv(m)' /\ SendInv(m)' /\ ArrivalInv(m)' /\ CarryInv(m)'
    BY <2>6, <2>7 DEF OfficeInv, LockInv, SendInv, ArrivalInv, CarryInv
  <2> QED
    BY <2>9, <2>10, <2>11 DEF OfficeInv
<1> QED
  BY <1>1, <1>2, <1>3, <1>4, <1>5 DEF Inside

-----------------------------------------------------------------------------
(* The programs.                                                           *)

TestTypeOK ==
    /\ program \in {"MailTest", "clients"}
    /\ stage \in [Machines -> 0..5]
    /\ posts \in 0..MaxPosts

\* MailTest answers the mail that it has received.
AnswerInv ==
    program = "MailTest" =>
        \A m \in Machines :
            /\ power[m] = "off" => stage[m] = 0
            /\ On(m) /\ stage[m] = 2 =>
                 \/ call[m][MainThread].at = "remove"
                 \/ /\ call[m][MainThread].at = "idle"
                    /\ call[m][MainThread].mail \in Mails

MInv == PInv /\ TestTypeOK /\ AnswerInv

\* Nothing has begun.
LEMMA InitMInv == MInit => MInv
<1> SUFFICES ASSUME MInit
             PROVE  MInv
  OBVIOUS
<1> USE PostOfficeAssumption, MailTestAssumption DEF MInit, PInit
<1>1. /\ EmptyBoxes \in [Boxes -> Seq(Mails)]
      /\ Waiting \in [at : WorkerPoints, mail : Mails \cup {NoMail}]
      /\ NoCalls \in [Threads -> Calls]
  BY DEF EmptyBoxes, Waiting, WorkerPoints, NoCalls, Calls, Points
<1>2. PTypeOK
  BY <1>1 DEF PTypeOK, Calls
<1>3. ASSUME NEW m \in Machines
      PROVE  OfficeInv(m)
  BY DEF NoCalls, Waiting, OfficeInv, LockInv, SendInv, ArrivalInv, CarryInv
<1>4. TestTypeOK
  BY DEF TestTypeOK
<1>5. AnswerInv
  BY DEF AnswerInv, On
<1> QED
  BY <1>2, <1>3, <1>4, <1>5 DEF MInv, PInv

\* Where a step inside the post office takes its thread.
LEMMA InsideMoves ==
    ASSUME PInv, NEW m \in Machines, NEW t \in Threads, Inside(m, t)
    PROVE  /\ \A n \in Machines : n # m => UNCHANGED << power[n], call[n] >>
           /\ call[m][t].at # "idle"
           /\ \/ power'[m] = "aborted"
              \/ /\ power' = power
                 /\ \A u \in Threads : u # t => call'[m][u] = call[m][u]
                 /\ call[m][t].at = "remove" =>
                      call'[m][t].at = "idle" /\ call'[m][t].mail \in Mails
<1> USE DEF PInv
<1>1. CASE SendAcquire(m, t)
  BY <1>1, GotoMoves DEF SendAcquire, At, Points
<1>2. CASE NetworkSend(m, t)
  <2>1. CASE Exit(m, "aborted")
    BY <1>2, <2>1 DEF NetworkSend, Exit, At, PTypeOK
  <2>2. CASE Goto(m, t, "sent") /\ UNCHANGED power
    BY <1>2, <2>2, GotoMoves DEF NetworkSend, At, Points
  <2> QED
    BY <1>2, <2>1, <2>2 DEF NetworkSend
<1>3. CASE SendPass(m, t)
  BY <1>3, GotoMoves DEF SendPass, At, Points
<1>4. CASE SendRelease(m, t)
  <2> DEFINE c == [call[m][t] EXCEPT !.at = "idle", !.mail = NoMail]
  <2>1. c \in Calls
    <3>1. call[m][t] \in Calls
      BY DEF PTypeOK, Calls
    <3> QED
      BY <3>1 DEF Calls, Points
  <2>2. call' = [call EXCEPT ![m] = [call[m] EXCEPT ![t] = c]]
    BY <1>4 DEF SendRelease
  <2>3. call[m][t].at = "release" /\ power' = power
    BY <1>4 DEF SendRelease, At
  <2> HIDE DEF c
  <2> QED
    BY <2>1, <2>2, <2>3, OneCallMoves
<1>5. CASE Get(m, t)
  <2> DEFINE b == call[m][t].box
             c == [call[m][t] EXCEPT !.at = "idle", !.mail = Head(boxes[m][b]), !.box = 0]
  <2>1. boxes[m][b] \in Seq(Mails) /\ boxes[m][b] # << >>
    BY <1>5 DEF Get, PTypeOK
  <2>2. Head(boxes[m][b]) \in Mails
    BY <2>1
  <2>3. c \in Calls /\ c.at = "idle" /\ c.mail \in Mails
    <3>1. call[m][t] \in Calls
      BY DEF PTypeOK, Calls
    <3> QED
      BY <2>2, <3>1, PostOfficeAssumption DEF Calls, Points
  <2>4. call' = [call EXCEPT ![m] = [call[m] EXCEPT ![t] = c]]
    BY <1>5 DEF Get
  <2>5. call[m][t].at = "remove" /\ power' = power
    BY <1>5 DEF Get, At
  <2> HIDE DEF b, c
  <2>6. /\ call'[m][t] = c
        /\ \A u \in Threads : u # t => call'[m][u] = call[m][u]
        /\ \A n \in Machines : n # m => call'[n] = call[n]
    BY <2>3, <2>4, OneCallMoves
  <2> QED
    BY <2>3, <2>5, <2>6
<1> QED
  BY <1>1, <1>2, <1>3, <1>4, <1>5 DEF Inside

\* The statements of MailTest.
LEMMA MailTestKeeps ==
    ASSUME MInv, NEW m \in Machines, MailTest(m)
    PROVE  MInv'
<1> USE PostOfficeAssumption, MailTestAssumption
<1> DEFINE to(x) == Send(m, MainThread, x.to, x.box, x.reply, x.body)
<1>1. /\ program = "MailTest" /\ program' = program
      /\ At(m, MainThread, "idle")
      /\ stage' \in [Machines -> 0..5]
      /\ posts' = posts
  BY DEF MInv, TestTypeOK, MailTest, Begins, Send, Receive, Halt, Back, At
<1>2. TestTypeOK'
  BY <1>1 DEF MInv, TestTypeOK
<1>3. ASSUME NEW x \in Mails, x.from = m, to(x), stage'[m] # 2,
             \A n \in Machines : n # m => stage'[n] = stage[n]
      PROVE  PInv' /\ AnswerInv'
  <2>1. PInv'
    BY <1>3, SendKeeps DEF MInv
  <2>2. /\ \A n \in Machines : n # m => call'[n] = call[n]
        /\ power' = power /\ power[m] = "on"
    BY <1>1, <1>3 DEF Send, At, On, MInv, PInv, PTypeOK
  <2> QED
    BY <1>1, <1>3, <2>1, <2>2 DEF AnswerInv, MInv, On
<1>4. ASSUME NEW b \in Boxes, Receive(m, MainThread, b),
             \A n \in Machines : n # m => stage'[n] = stage[n]
      PROVE  PInv' /\ AnswerInv'
  <2>1. PInv'
    BY <1>4, ReceiveKeeps DEF MInv
  <2>2. /\ \A n \in Machines : n # m => call'[n] = call[n]
        /\ call'[m][MainThread].at = "remove"
        /\ power' = power /\ power[m] = "on"
    BY <1>1, <1>4 DEF Receive, At, On, MInv, PInv, PTypeOK
  <2> QED
    BY <1>1, <1>4, <2>1, <2>2 DEF AnswerInv, MInv, On
<1>5. \A n \in Machines : n # m => stage'[n] = stage[n]
  BY DEF MInv, TestTypeOK, MailTest, Begins
<1>6. CASE Begins(m, 1) /\ Send(m, MainThread, Far[m], 0, 1, Data)
  <2> DEFINE x == [from |-> m, to |-> Far[m], box |-> 0, reply |-> 1, body |-> Data]
  <2>1. x \in Mails /\ x.from = m /\ to(x)
    BY <1>6 DEF Mails
  <2>2. stage'[m] # 2
    BY <1>6 DEF Begins, MInv, TestTypeOK
  <2> HIDE DEF x, to
  <2> QED
    BY <1>2, <1>3, <1>5, <2>1, <2>2 DEF MInv
<1>7. CASE Begins(m, 2) /\ Receive(m, MainThread, 0)
  BY <1>2, <1>4, <1>5, <1>7 DEF MInv
<1>8. CASE /\ Begins(m, 3)
           /\ LET in == call[m][MainThread].mail
              IN Send(m, MainThread, in.from, in.reply, 1, Ack)
  <2> DEFINE in == call[m][MainThread].mail
             x == [from |-> m, to |-> in.from, box |-> in.reply, reply |-> 1, body |-> Ack]
  <2>1. stage[m] = 2 /\ stage'[m] # 2
    BY <1>8 DEF Begins, MInv, TestTypeOK
  <2>2. in \in Mails
    BY <1>1, <2>1 DEF AnswerInv, MInv, At
  <2>3. x \in Mails /\ x.from = m /\ to(x)
    BY <1>8, <2>2 DEF Mails
  <2> HIDE DEF x, to
  <2> QED
    BY <1>2, <1>3, <1>5, <2>1, <2>3 DEF MInv
<1>9. CASE Begins(m, 4) /\ Receive(m, MainThread, 1)
  BY <1>2, <1>4, <1>5, <1>9 DEF MInv
<1>10. CASE Begins(m, 5) /\ Halt(m)
  <2>1. PInv'
    BY <1>10, ExitKeeps DEF Halt, MInv
  <2>2. /\ \A n \in Machines : n # m => call'[n] = call[n] /\ power'[n] = power[n]
        /\ power'[m] = "halted"
    BY <1>10 DEF Halt, Exit, MInv, PInv, PTypeOK
  <2> QED
    BY <1>1, <1>2, <1>5, <2>1, <2>2 DEF AnswerInv, MInv, On
<1> QED
  BY <1>6, <1>7, <1>8, <1>9, <1>10 DEF MailTest

\* Every step, of the programs or below them.
LEMMA NextKeepsMInv == MInv /\ [MNext]_mvars => MInv'
<1> SUFFICES ASSUME MInv, [MNext]_mvars
             PROVE  MInv'
  OBVIOUS
<1> USE PostOfficeAssumption, MailTestAssumption
<1>1. CASE UNCHANGED mvars
  BY <1>1 DEF MInv, PInv, TestTypeOK, AnswerInv, mvars, pvars, deviceVars,
              officeVars, PTypeOK, OfficeInv, LockInv, SendInv, ArrivalInv,
              CarryInv, On
<1>2. ASSUME NEW m \in Machines, Start(m), Still
      PROVE  MInv'
  <2>1. PTypeOK'
    BY <1>2 DEF Start, MInv, PInv, PTypeOK, deviceVars, officeVars
  <2>2. \A n \in Machines : OfficeInv(n)'
    BY <1>2, OthersKeep DEF Start, MInv, deviceVars, officeVars
  <2>3. TestTypeOK'
    BY <1>2 DEF MInv, TestTypeOK, Still
  <2>4. AnswerInv'
    BY <1>2 DEF Start, Still, MInv, PInv, PTypeOK, AnswerInv, On
  <2> QED
    BY <2>1, <2>2, <2>3, <2>4 DEF MInv, PInv
<1>3. ASSUME NEW m \in Machines, UserAbort(m)
      PROVE  MInv'
  <2>1. PInv'
    BY <1>3, ExitKeeps DEF UserAbort, MInv
  <2>2. TestTypeOK' /\ AnswerInv'
    BY <1>3 DEF UserAbort, MInv, TestTypeOK, AnswerInv
  <2> QED
    BY <2>1, <2>2 DEF MInv
<1>4. ASSUME NEW m \in Machines, Background(m), Still
      PROVE  MInv'
  <2>1. PInv'
    BY <1>4, BackgroundKeeps DEF MInv
  <2>2. UNCHANGED << power, call >>
    BY <1>4 DEF Background, CheckPktAvail, SendDone, PostalDelivery, WorkerWakes,
                NetworkReceive, Put
  <2>3. TestTypeOK' /\ AnswerInv'
    BY <1>4, <2>2 DEF Still, MInv, TestTypeOK, AnswerInv, On
  <2> QED
    BY <2>1, <2>3 DEF MInv
<1>5. ASSUME NEW m \in Machines, NEW t \in Threads, Inside(m, t), Still
      PROVE  MInv'
  <2>1. PInv'
    BY <1>5, InsideKeeps DEF MInv
  <2>2. TestTypeOK'
    BY <1>5 DEF Still, MInv, TestTypeOK
  <2>3. AnswerInv'
    BY <1>5, InsideMoves DEF Still, MInv, AnswerInv, On
  <2> QED
    BY <2>1, <2>2, <2>3 DEF MInv
<1>6. ASSUME NEW m \in Machines, NEW t \in Threads, ClientSends(m, t)
      PROVE  MInv'
  <2>1. PICK x \in Letters[m] : Send(m, t, x.to, x.box, x.reply, x.body)
    BY <1>6 DEF ClientSends
  <2>2. PInv'
    BY <2>1, SendKeeps DEF MInv
  <2>3. TestTypeOK' /\ AnswerInv'
    BY <1>6 DEF ClientSends, MInv, TestTypeOK, AnswerInv
  <2> QED
    BY <2>2, <2>3 DEF MInv
<1>7. ASSUME NEW m \in Machines, NEW t \in Threads, ClientReceives(m, t)
      PROVE  MInv'
  <2>1. PICK b \in Boxes : Receive(m, t, b)
    BY <1>7 DEF ClientReceives, Mails
  <2>2. PInv'
    BY <2>1, ReceiveKeeps DEF MInv
  <2>3. TestTypeOK' /\ AnswerInv'
    BY <1>7 DEF ClientReceives, MInv, TestTypeOK, AnswerInv
  <2> QED
    BY <2>2, <2>3 DEF MInv
<1> QED
  BY <1>1, <1>2, <1>3, <1>4, <1>5, <1>6, <1>7, MailTestKeeps DEF MNext

\* What the theorems below start from.
LEMMA MInvAlways == MSpec => []MInv
BY InitMInv, NextKeepsMInv, PTL DEF MSpec

-----------------------------------------------------------------------------

\* The variables keep their types; above all, what MailTest answers is mail
\* (nettest.cc:54-62).
THEOREM MailTyping == MSpec => []MTypeOK
<1>1. MInv => MTypeOK
  BY DEF MInv, PInv, TestTypeOK, MTypeOK
<1> QED
  BY <1>1, MInvAlways, PTL

\* In every machine one send at a time is with the device, and its end is
\* noticed by the thread whose send it was (post.cc:277-282).
THEOREM SendsAreSeparate == MSpec => []OneSendAtATime
<1>1. MInv => OneSendAtATime
  <2> SUFFICES ASSUME MInv, NEW m \in Machines
               PROVE  /\ Sent(m) \subseteq sendLock[m]
                      /\ Cardinality(Sent(m)) <= 1
                      /\ sending[m] + messageSent[m] = Cardinality(Sent(m))
    BY DEF OneSendAtATime
  <2> USE DEF MInv, PInv, OfficeInv
  <2>1. Sent(m) \subseteq sendLock[m]
    BY DEF Sent, LockInv
  <2>2. CASE Sent(m) = {}
    <3>1. Cardinality(Sent(m)) = 0
      BY <2>2, FS_EmptySet
    <3>2. sending[m] + messageSent[m] = 0
      BY <2>2 DEF Sent, SendInv
    <3> QED
      BY <2>1, <3>1, <3>2
  <2>3. CASE Sent(m) # {}
    <3>1. PICK t \in Threads : t \in Sent(m)
      BY <2>3 DEF Sent
    <3>2. Sent(m) = {t}
      BY <2>1, <3>1 DEF LockInv
    <3>3. Cardinality(Sent(m)) = 1
      BY <3>2, FS_Singleton
    <3>4. sending[m] + messageSent[m] = 1
      BY <3>1 DEF Sent, SendInv
    <3> QED
      BY <2>1, <3>3, <3>4
  <2> QED
    BY <2>2, <2>3
<1> QED
  BY <1>1, MInvAlways, PTL

\* A packet is in the device's buffer exactly when the worker has been, or is
\* still to be, told of it (network.cc:66-86, post.cc:228-231).
THEOREM ArrivalsAreAnnounced == MSpec => []ArrivalsAnnounced
<1>1. MInv => ArrivalsAnnounced
  BY DEF MInv, PInv, OfficeInv, ArrivalInv, ArrivalsAnnounced
<1> QED
  BY <1>1, MInvAlways, PTL

\* The threads of each machine and its device are in step, whatever is lost.
THEOREM PostOfficesAreConsistent == MSpec => []MConsistent
BY MailTyping, SendsAreSeparate, ArrivalsAreAnnounced, PTL DEF MConsistent

-----------------------------------------------------------------------------
(* The mailboxes that the post offices implement.                          *)

\* Every set of numbers has a least one.
LEMMA Least ==
    ASSUME NEW S \in SUBSET Nat, S # {}
    PROVE  \E n \in S : \A k \in S : n <= k
<1> DEFINE R == {p \in Nat \X Nat : p[1] < p[2]}
<1>1. IsWellFoundedOn(R, Nat)
  BY NatLessThanWellFounded DEF OpToRel
<1>2. PICK n \in S : \A k \in S : << k, n >> \notin R
  BY <1>1, WFMin
<1>3. \A k \in S : n \in Nat /\ k \in Nat /\ ~(k < n)
  BY <1>2
<1> QED
  BY <1>3

\* Sequences of packets.
LEMMA Joined ==
    /\ \A u, v, w \in Seq(Mails) : /\ (u \o v) \o w = u \o (v \o w)
                                   /\ u \o v \in Seq(Mails)
    /\ \A u \in Seq(Mails) : << >> \o u = u /\ u \o << >> = u
    /\ << >> \in Seq(Mails)
    /\ \A x \in Mails : << x >> \in Seq(Mails)
    /\ \A u \in Seq(Mails), x \in Mails : Append(u, x) = u \o << x >> /\ Append(u, x) \in Seq(Mails)
    /\ \A u \in Seq(Mails) : u # << >> =>
         Head(u) \in Mails /\ Tail(u) \in Seq(Mails) /\ << Head(u) >> \o Tail(u) = u
    /\ \A x \in Mails, u \in Seq(Mails) :
         << x >> \o u # << >> /\ Head(<< x >> \o u) = x /\ Tail(<< x >> \o u) = u
<1>1. \A u, v, w \in Seq(Mails) : (u \o v) \o w = u \o (v \o w) /\ u \o v \in Seq(Mails)
  BY ConcatAssociative
<1>2. \A u \in Seq(Mails) : << >> \o u = u /\ u \o << >> = u
  BY ConcatEmptySeq
<1>3. << >> \in Seq(Mails) /\ \A x \in Mails : << x >> \in Seq(Mails)
  OBVIOUS
<1>4. \A u \in Seq(Mails), x \in Mails : Append(u, x) = u \o << x >> /\ Append(u, x) \in Seq(Mails)
  BY AppendIsConcat
<1>5. ASSUME NEW u \in Seq(Mails), u # << >>
      PROVE  Head(u) \in Mails /\ Tail(u) \in Seq(Mails) /\ << Head(u) >> \o Tail(u) = u
  <2>1. Head(u) = u[1] /\ 1 \in 1..Len(u) /\ Len(u) \in 1..Len(u)
    BY <1>5
  <2>2. Head(u) \in Mails /\ Tail(u) \in Seq(Mails)
    BY <1>5, HeadTailProperties
  <2>3. SubSeq(u, 1, Len(u)) = << u[1] >> \o SubSeq(u, 1 + 1, Len(u))
    BY <2>1, SubSeqRecursiveFirst
  <2>4. SubSeq(u, 1, Len(u)) = u
    BY SubSeqFull
  <2>5. Tail(u) = SubSeq(u, 2, Len(u))
    BY <1>5, TailIsSubSeq
  <2>6. 1 + 1 = 2
    OBVIOUS
  <2>7. << Head(u) >> \o Tail(u) = u
    BY Zenon, <2>1, <2>3, <2>4, <2>5, <2>6
  <2> QED
    BY <2>2, <2>7
<1>6. ASSUME NEW x \in Mails, NEW u \in Seq(Mails)
      PROVE  << x >> \o u # << >> /\ Head(<< x >> \o u) = x /\ Tail(<< x >> \o u) = u
  OBVIOUS
<1> QED
  BY <1>1, <1>2, <1>3, <1>4, <1>5, <1>6

\* Concatenation is associative.
LEMMA Regrouped ==
    \A u, v, w \in Seq(Mails) : (u \o v) \o w = u \o (v \o w)
BY Joined

\* f[i] is what is for box b among the first i packets of s.
Sorts(f, s, b, n) ==
    f = [i \in 0..n |-> IF i = 0 THEN << >>
                        ELSE IF s[i].box = b THEN Append(f[i - 1], s[i]) ELSE f[i - 1]]

\* Such a function at each place.
LEMMA SortsStep ==
    ASSUME NEW f, NEW s \in Seq(Mails), NEW b, NEW n \in 0..Len(s), Sorts(f, s, b, n)
    PROVE  /\ f[0] = << >>
           /\ \A i \in 1..n :
                f[i] = IF s[i].box = b THEN Append(f[i - 1], s[i]) ELSE f[i - 1]
<1> DEFINE g == [i \in 0..n |-> IF i = 0 THEN << >>
                                ELSE IF s[i].box = b THEN Append(f[i - 1], s[i]) ELSE f[i - 1]]
<1>1. f = g
  BY DEF Sorts
<1>2. \A i \in 0..n : g[i] = IF i = 0 THEN << >>
                             ELSE IF s[i].box = b THEN Append(f[i - 1], s[i]) ELSE f[i - 1]
  OBVIOUS
<1> HIDE DEF g
<1> QED
  BY <1>1, <1>2

\* Two sortings of the same packets agree, and give sequences of packets.
LEMMA SortsAgree ==
    ASSUME NEW s \in Seq(Mails), NEW r \in Seq(Mails), NEW b, NEW n \in Nat,
           n <= Len(s), n <= Len(r), \A i \in 1..n : s[i] = r[i],
           NEW f, Sorts(f, s, b, n), NEW k \in n..Len(r), NEW g, Sorts(g, r, b, k)
    PROVE  \A i \in 0..n : f[i] = g[i] /\ f[i] \in Seq(Mails)
<1> DEFINE Bad == {i \in 0..n : ~(f[i] = g[i] /\ f[i] \in Seq(Mails))}
<1>1. /\ f[0] = << >> /\ g[0] = << >>
      /\ \A i \in 1..n :
           /\ f[i] = IF s[i].box = b THEN Append(f[i - 1], s[i]) ELSE f[i - 1]
           /\ g[i] = IF r[i].box = b THEN Append(g[i - 1], r[i]) ELSE g[i - 1]
  <2>1. n \in 0..Len(s) /\ k \in 0..Len(r)
    OBVIOUS
  <2>2. f[0] = << >> /\ \A i \in 1..n :
           f[i] = IF s[i].box = b THEN Append(f[i - 1], s[i]) ELSE f[i - 1]
    BY <2>1, SortsStep
  <2>3. g[0] = << >> /\ \A i \in 1..k :
           g[i] = IF r[i].box = b THEN Append(g[i - 1], r[i]) ELSE g[i - 1]
    BY <2>1, SortsStep
  <2> QED
    BY <2>2, <2>3
<1> SUFFICES ASSUME Bad # {}
             PROVE  FALSE
  OBVIOUS
<1>9. Bad \in SUBSET Nat
  OBVIOUS
<1>2. \E j \in Bad : \A i \in Bad : j <= i
  <2> HIDE DEF Bad
  <2> QED
    BY <1>9, Least
<1>8. PICK j \in Bad : \A i \in Bad : j <= i
  BY <1>2
<1>3. j # 0 /\ j \in 1..n
  <2>1. f[0] = g[0] /\ f[0] \in Seq(Mails)
    BY <1>1
  <2> QED
    BY <1>8, <2>1
<1>4. f[j - 1] = g[j - 1] /\ f[j - 1] \in Seq(Mails)
  BY <1>3, <1>8
<1>5. s[j] \in Mails /\ r[j] = s[j]
  BY <1>3
<1>6. Append(f[j - 1], s[j]) \in Seq(Mails)
  BY <1>4, <1>5
<1>7. f[j] = g[j] /\ f[j] \in Seq(Mails)
  BY <1>1, <1>3, <1>4, <1>5, <1>6
<1> QED
  BY <1>7, <1>8

\* There is one for any packets, by the least number of them for which there is none.
LEMMA SortsExists ==
    ASSUME NEW s \in Seq(Mails), NEW b
    PROVE  \A n \in 0..Len(s) : \E f : Sorts(f, s, b, n)
<1> DEFINE Bad == {n \in 0..Len(s) : ~ \E f : Sorts(f, s, b, n)}
<1> SUFFICES ASSUME Bad # {}
             PROVE  FALSE
  OBVIOUS
<1>8. Bad \in SUBSET Nat
  OBVIOUS
<1>9. \E j \in Bad : \A i \in Bad : j <= i
  <2> HIDE DEF Bad
  <2> QED
    BY <1>8, Least
<1>1. PICK j \in Bad : \A i \in Bad : j <= i
  BY <1>9
<1>2. Sorts([i \in 0..0 |-> << >>], s, b, 0)
  BY DEF Sorts
<1>3. j \in 1..Len(s) /\ j - 1 \in 0..Len(s)
  BY <1>1, <1>2
<1>4. PICK f : Sorts(f, s, b, j - 1)
  BY <1>1, <1>3
<1> DEFINE next(i) == IF s[i].box = b THEN Append(f[i - 1], s[i]) ELSE f[i - 1]
           g == [i \in 0..j |-> IF i = j THEN next(j) ELSE f[i]]
<1>5. f[0] = << >> /\ \A i \in 1..j - 1 : f[i] = next(i)
  BY <1>3, <1>4, SortsStep
<1>6. \A i \in 0..j : g[i] = IF i = 0 THEN << >>
                             ELSE IF s[i].box = b THEN Append(g[i - 1], s[i]) ELSE g[i - 1]
  <2>1. g[0] = << >>
    BY <1>3, <1>5
  <2>2. \A i \in 1..j : g[i - 1] = f[i - 1]
    BY <1>3
  <2>3. \A i \in 1..j : g[i] = next(i)
    BY <1>3, <1>5
  <2> HIDE DEF g
  <2> QED
    BY <2>1, <2>2, <2>3, <1>3
<1>7. Sorts(g, s, b, j)
  <2>1. g = [i \in 0..j |-> g[i]]
    OBVIOUS
  <2> HIDE DEF g
  <2> QED
    BY <1>6, <2>1 DEF Sorts
<1> QED
  BY <1>1, <1>7

\* What is for b among the packets s.
LEMMA ForBoxIs ==
    ASSUME NEW s \in Seq(Mails), NEW b
    PROVE  \E f : Sorts(f, s, b, Len(s)) /\ ForBox(s, b) = f[Len(s)]
<1> DEFINE f == CHOOSE F : Sorts(F, s, b, Len(s))
<1>1. Sorts(f, s, b, Len(s))
  BY SortsExists
<1>2. ForBox(s, b) = f[Len(s)]
  BY Zenon DEF ForBox, Sorts
<1> QED
  BY <1>1, <1>2

\* Of no packets, none is for b.
LEMMA ForBoxOfNone == \A b : ForBox(<< >>, b) = << >>
<1> TAKE b
<1> DEFINE s == << >>
<1>1. s \in Seq(Mails) /\ Len(s) = 0
  OBVIOUS
<1> HIDE DEF s
<1>2. PICK f : Sorts(f, s, b, Len(s)) /\ ForBox(s, b) = f[Len(s)]
  BY <1>1, ForBoxIs
<1>3. f[0] = << >>
  <2>1. Len(s) \in 0..Len(s)
    BY <1>1
  <2> QED
    BY <1>1, <1>2, <2>1, SortsStep
<1> QED
  BY <1>1, <1>2, <1>3 DEF s

\* One packet more.
LEMMA ForBoxOfAppend ==
    ASSUME NEW s \in Seq(Mails), NEW x \in Mails, NEW b
    PROVE  /\ ForBox(s, b) \in Seq(Mails)
           /\ ForBox(Append(s, x), b) =
                IF x.box = b THEN Append(ForBox(s, b), x) ELSE ForBox(s, b)
<1> DEFINE r == Append(s, x)
           n == Len(s)
<1>1. r \in Seq(Mails) /\ Len(r) = n + 1 /\ r[n + 1] = x /\ \A i \in 1..n : r[i] = s[i]
  OBVIOUS
<1>2. n \in Nat /\ Len(r) = n + 1
  BY <1>1
<1> HIDE DEF r
<1>3. PICK f : Sorts(f, s, b, n) /\ ForBox(s, b) = f[n]
  BY ForBoxIs
<1>4. PICK g : Sorts(g, r, b, n + 1) /\ ForBox(r, b) = g[n + 1]
  BY <1>1, ForBoxIs
<1>5. f[n] = g[n] /\ f[n] \in Seq(Mails)
  <2>1. \A i \in 0..n : f[i] = g[i] /\ f[i] \in Seq(Mails)
    <3> HIDE DEF n
    <3>1. n <= Len(s) /\ n <= Len(r) /\ n + 1 \in n..Len(r) /\ \A i \in 1..n : s[i] = r[i]
      BY <1>1, <1>2 DEF n
    <3> QED
      BY <1>1, <1>2, <1>3, <1>4, <3>1, SortsAgree
  <2> QED
    BY <1>2, <2>1
<1>6. g[n + 1] = IF x.box = b THEN Append(g[n], x) ELSE g[n]
  <2>1. n + 1 \in 0..Len(r) /\ n + 1 \in 1..n + 1 /\ (n + 1) - 1 = n
    BY <1>2
  <2>2. g[n + 1] = IF r[n + 1].box = b THEN Append(g[(n + 1) - 1], r[n + 1]) ELSE g[(n + 1) - 1]
    BY <1>1, <1>4, <2>1, SortsStep
  <2> QED
    BY <1>1, <2>1, <2>2
<1> QED
  BY <1>3, <1>4, <1>5, <1>6 DEF r

\* The oldest packet comes first.
LEMMA ForBoxOfHead ==
    ASSUME NEW s \in Seq(Mails), s # << >>, NEW b
    PROVE  ForBox(s, b) =
             (IF Head(s).box = b THEN << Head(s) >> ELSE << >>) \o ForBox(Tail(s), b)
<1> DEFINE r == Tail(s)
           n == Len(r)
           x == s[1]
           pre == IF x.box = b THEN << x >> ELSE << >>
<1>1. /\ r \in Seq(Mails) /\ Len(s) = n + 1 /\ n \in Nat /\ x \in Mails /\ Head(s) = x
      /\ \A i \in 1..n : r[i] = s[i + 1] /\ r[i] \in Mails
  OBVIOUS
<1> HIDE DEF r
<1>2. PICK g : Sorts(g, r, b, n) /\ ForBox(r, b) = g[n]
  BY <1>1, ForBoxIs
<1>3. PICK f : Sorts(f, s, b, n + 1) /\ ForBox(s, b) = f[n + 1]
  BY <1>1, ForBoxIs
<1> HIDE DEF n, x
<1>4. g[0] = << >> /\ \A i \in 1..n : g[i] = IF r[i].box = b THEN Append(g[i - 1], r[i]) ELSE g[i - 1]
  BY <1>1, <1>2, SortsStep DEF n
<1>5. f[0] = << >> /\ \A i \in 1..n + 1 :
        f[i] = IF s[i].box = b THEN Append(f[i - 1], s[i]) ELSE f[i - 1]
  BY <1>1, <1>3, SortsStep
<1>6. f[1] = pre /\ pre \in Seq(Mails)
  <2>1. 1 \in 1..n + 1 /\ 1 - 1 = 0
    BY <1>1
  <2>2. f[1] = IF s[1].box = b THEN Append(f[0], s[1]) ELSE f[0]
    BY <1>5, <2>1
  <2>3. Append(<< >>, x) = << x >> /\ << x >> \in Seq(Mails) /\ << >> \in Seq(Mails)
    BY <1>1
  <2> QED
    BY <1>5, <2>2, <2>3 DEF x
<1> HIDE DEF pre
<1>7. \A i \in 0..n : f[i + 1] = pre \o g[i] /\ g[i] \in Seq(Mails)
  <2> DEFINE Bad == {i \in 0..n : ~(f[i + 1] = pre \o g[i] /\ g[i] \in Seq(Mails))}
  <2> SUFFICES ASSUME Bad # {}
               PROVE  FALSE
    OBVIOUS
  <2>9. Bad \in SUBSET Nat
    OBVIOUS
  <2>10. \E j \in Bad : \A i \in Bad : j <= i
    <3> HIDE DEF Bad
    <3> QED
      BY <2>9, Least
  <2>1. PICK j \in Bad : \A i \in Bad : j <= i
    BY <2>10
  <2>2. j \in 1..n
    <3>1. g[0] \in Seq(Mails) /\ pre \o << >> = pre
      BY <1>4, <1>6, ConcatEmptySeq
    <3>2. ASSUME j = 0
          PROVE  FALSE
      <4>1. f[j + 1] = f[1] /\ g[j] = g[0]
        BY <3>2
      <4> QED
        BY <1>4, <1>6, <2>1, <3>1, <4>1
    <3> QED
      BY <1>1, <2>1, <3>2
  <2>3. f[j] = pre \o g[j - 1] /\ g[j - 1] \in Seq(Mails)
    <3>1. j - 1 \in 0..n /\ j - 1 \notin Bad /\ (j - 1) + 1 = j
      BY <1>1, <2>1, <2>2, SMTT(30)
    <3> QED
      BY <3>1
  <2>4. r[j] = s[j + 1] /\ r[j] \in Mails
    BY <1>1, <2>2
  <2>5. f[j + 1] = IF r[j].box = b THEN Append(f[j], r[j]) ELSE f[j]
    BY <1>1, <1>5, <2>2, <2>4
  <2>6. g[j] = IF r[j].box = b THEN Append(g[j - 1], r[j]) ELSE g[j - 1]
    BY <1>4, <2>2
  <2>7. Append(pre \o g[j - 1], r[j]) = pre \o Append(g[j - 1], r[j])
        /\ Append(g[j - 1], r[j]) \in Seq(Mails)
    <3>1. Append(g[j - 1], r[j]) \in Seq(Mails) /\ << r[j] >> \in Seq(Mails)
      BY <2>3, <2>4
    <3>2. pre \o g[j - 1] \in Seq(Mails)
      BY <1>6, <2>3
    <3> QED
      <4>1. Append(pre \o g[j - 1], r[j]) = (pre \o g[j - 1]) \o << r[j] >>
        BY <2>4, <3>2, AppendIsConcat
      <4>2. Append(g[j - 1], r[j]) = g[j - 1] \o << r[j] >>
        BY <2>3, <2>4, AppendIsConcat
      <4>3. (pre \o g[j - 1]) \o << r[j] >> = pre \o (g[j - 1] \o << r[j] >>)
        <5> DEFINE before == g[j - 1]
                   last == << r[j] >>
        <5>1. before \in Seq(Mails) /\ last \in Seq(Mails)
          BY <2>3, <3>1
        <5> HIDE DEF before, last
        <5>2. (pre \o before) \o last = pre \o (before \o last)
          BY <1>6, <5>1, Regrouped, Zenon
        <5> QED
          BY <5>2 DEF before, last
      <4> QED
        BY <3>1, <4>1, <4>2, <4>3
  <2>8. f[j + 1] = pre \o g[j] /\ g[j] \in Seq(Mails)
    BY <2>3, <2>5, <2>6, <2>7
  <2> QED
    BY <2>1, <2>8
<1>8. f[n + 1] = pre \o g[n]
  BY <1>1, <1>7
<1>9. ForBox(s, b) = pre \o ForBox(r, b)
  BY <1>2, <1>3, <1>8
<1> QED
  BY <1>1, <1>9 DEF pre, r

\* What the worker has in its hand, and what is buffered, as sequences.
Carried(m) == IF worker[m].at = "put" THEN << worker[m].mail >> ELSE << >>
Buffered(m) == IF inbox[m] = NoMail THEN << >> ELSE << inbox[m] >>

\* What is coming to m, part by part, is mail.
LEMMA IncomingIsMail ==
    ASSUME PInv, NEW m \in Machines
    PROVE  /\ Incoming(m) = (Carried(m) \o Buffered(m)) \o socket[m]
           /\ Incoming(m) = Carried(m) \o (Buffered(m) \o socket[m])
           /\ Carried(m) \in Seq(Mails) /\ Buffered(m) \in Seq(Mails)
           /\ socket[m] \in Seq(Mails) /\ Incoming(m) \in Seq(Mails)
           /\ \A b \in Boxes : boxes[m][b] \in Seq(Mails)
           /\ worker[m].at = "put" => worker[m].mail \in Mails
<1>1. /\ worker[m].at = "put" => worker[m].mail \in Mails
      /\ inbox[m] # NoMail => inbox[m] \in Mails
      /\ socket[m] \in Seq(Mails)
      /\ \A b \in Boxes : boxes[m][b] \in Seq(Mails)
  BY DEF PInv, PTypeOK, OfficeInv, ArrivalInv
<1>2. Carried(m) \in Seq(Mails) /\ Buffered(m) \in Seq(Mails)
  BY <1>1, Joined DEF Carried, Buffered
<1>3. Incoming(m) = (Carried(m) \o Buffered(m)) \o socket[m]
  <2> DEFINE carried == IF worker[m].at = "put" THEN << worker[m].mail >> ELSE << >>
             buffered == IF inbox[m] = NoMail THEN << >> ELSE << inbox[m] >>
  <2>1. Incoming(m) = (carried \o buffered) \o socket[m]
    BY DEF Incoming
  <2>2. carried = Carried(m) /\ buffered = Buffered(m)
    BY DEF Carried, Buffered
  <2> HIDE DEF carried, buffered
  <2> QED
    BY <2>1, <2>2
<1>4. (Carried(m) \o Buffered(m)) \o socket[m] = Carried(m) \o (Buffered(m) \o socket[m])
  BY <1>1, <1>2, Regrouped, Zenon
<1>5. (Carried(m) \o Buffered(m)) \o socket[m] \in Seq(Mails)
  BY <1>1, <1>2, Joined
<1> QED
  BY <1>1, <1>2, <1>3, <1>4, <1>5

\* The same of the next state.
LEMMA IncomingBecomes ==
    PInv' => \A n \in Machines : Incoming(n)' = Carried(n)' \o (Buffered(n)' \o socket'[n])
<1>1. (PInv => \A n \in Machines : Incoming(n) = Carried(n) \o (Buffered(n) \o socket[n]))'
  <2>1. PInv => \A n \in Machines : Incoming(n) = Carried(n) \o (Buffered(n) \o socket[n])
    BY IncomingIsMail
  <2> QED
    BY <2>1, PTL
<1> QED
  BY <1>1

\* Nothing moves between machine m and the others.
LEMMA MailKept ==
    ASSUME NEW n \in Machines,
           UNCHANGED << boxes[n], socket[n], inbox[n], worker[n] >>
    PROVE  Incoming(n)' = Incoming(n) /\ \A b \in Boxes : MailFor(n, b)' = MailFor(n, b)
BY DEF Incoming, MailFor

\* The device and the worker pass the packets on.
LEMMA WorkKeepsMail ==
    ASSUME PInv, NEW m \in Machines, Background(m)
    PROVE  \A n \in Machines, b \in Boxes : MailFor(n, b)' = MailFor(n, b)
<1> USE PostOfficeAssumption DEF PInv
<1>1. PInv'
  BY BackgroundKeeps
<1>2. /\ Incoming(m) = Carried(m) \o (Buffered(m) \o socket[m])
      /\ Carried(m) \in Seq(Mails) /\ Buffered(m) \in Seq(Mails)
      /\ socket[m] \in Seq(Mails) /\ Incoming(m) \in Seq(Mails)
      /\ \A b \in Boxes : boxes[m][b] \in Seq(Mails)
  BY IncomingIsMail
<1>3. Incoming(m)' = Carried(m)' \o (Buffered(m)' \o socket'[m])
  BY <1>1, IncomingBecomes
<1>4. ASSUME NEW n \in Machines, n # m
      PROVE  UNCHANGED << boxes[n], socket[n], inbox[n], worker[n] >>
  BY <1>4 DEF Background, CheckPktAvail, SendDone, PostalDelivery, WorkerWakes, NetworkReceive, Put,
     ReadFromSocket, deviceVars, PTypeOK
<1>5. CASE CheckPktAvail(m)
  <2>1. /\ Buffered(m) = << >> /\ socket[m] # << >>
        /\ inbox'[m] = Head(socket[m]) /\ socket'[m] = Tail(socket[m])
        /\ UNCHANGED << worker, boxes >>
    BY <1>5 DEF CheckPktAvail, PollSocket, ReadFromSocket, Buffered, PTypeOK
  <2>2. Buffered(m)' = << Head(socket[m]) >> /\ Carried(m)' = Carried(m)
    BY <1>2, <2>1, Joined, NoMailIsNoMail DEF Buffered, Carried
  <2>3. Incoming(m)' = Incoming(m)
    BY <1>2, <1>3, <2>1, <2>2, Joined
  <2> QED
    BY <1>4, <2>1, <2>3, MailKept DEF MailFor
<1>6. CASE SendDone(m) \/ WorkerWakes(m)
  <2>1. UNCHANGED << boxes, socket, inbox >> /\ Carried(m)' = Carried(m)
    BY <1>6 DEF SendDone, WorkerWakes, WorkerAt, deviceVars, Carried, PTypeOK
  <2>2. Incoming(m)' = Incoming(m)
    BY <1>2, <1>3, <2>1 DEF Buffered
  <2> QED
    BY <1>4, <2>1, <2>2, MailKept DEF MailFor
<1>7. CASE NetworkReceive(m)
  <2>1. /\ worker[m].at = "fetch" /\ inbox[m] # NoMail /\ inbox'[m] = NoMail
        /\ worker'[m].at = "put" /\ worker'[m].mail = inbox[m]
        /\ UNCHANGED << socket, boxes >>
    BY <1>7 DEF NetworkReceive, WorkerAt, OfficeInv, ArrivalInv, PTypeOK
  <2>2. Carried(m) = << >> /\ Carried(m)' = Buffered(m) /\ Buffered(m)' = << >>
    BY <2>1 DEF Carried, Buffered
  <2>3. Incoming(m)' = Incoming(m)
    BY <1>2, <1>3, <2>1, <2>2, Joined
  <2> QED
    BY <1>4, <2>1, <2>3, MailKept DEF MailFor
<1>8. CASE Put(m)
  <2> DEFINE x == worker[m].mail
             r == Buffered(m) \o socket[m]
  <2>1. /\ worker[m].at = "put" /\ worker'[m].at = "wait"
        /\ UNCHANGED << socket, inbox >>
        /\ boxes' = [boxes EXCEPT ![m] = [boxes[m] EXCEPT ![x.box] = Append(boxes[m][x.box], x)]]
    BY <1>8 DEF Put, WorkerAt, deviceVars, PTypeOK
  <2>2. x \in Mails /\ x.box \in Boxes /\ r \in Seq(Mails)
    BY <1>2, <2>1, IncomingIsMail, Joined DEF Mails
  <2>3. Carried(m) = << x >> /\ Carried(m)' = << >> /\ Buffered(m)' = Buffered(m)
    BY <2>1 DEF Carried, Buffered
  <2> HIDE DEF x
  <2>4. Incoming(m) = << x >> \o r /\ Incoming(m)' = r
    BY <1>2, <1>3, <2>1, <2>2, <2>3, Joined
  <2>5. Incoming(m) # << >> /\ Head(Incoming(m)) = x /\ Tail(Incoming(m)) = r
    BY <2>2, <2>4, Joined
  <2> HIDE DEF r
  <2>6. ASSUME NEW b \in Boxes
        PROVE  MailFor(m, b)' = MailFor(m, b)
    <3> DEFINE pre == IF x.box = b THEN << x >> ELSE << >>
               box == boxes[m][b]
    <3>1. ForBox(Incoming(m), b) = pre \o ForBox(r, b)
      BY <1>2, <2>5, ForBoxOfHead
    <3>2. boxes'[m][b] = box \o pre
      <4>1. boxes'[m] = [boxes[m] EXCEPT ![x.box] = Append(boxes[m][x.box], x)]
        BY <2>1 DEF PTypeOK
      <4>2. boxes'[m][b] = IF b = x.box THEN Append(box, x) ELSE box
        BY <2>2, <4>1 DEF PTypeOK
      <4>3. box \in Seq(Mails)
        BY <1>2
      <4> HIDE DEF box
      <4>4. Append(box, x) = box \o << x >> /\ box \o << >> = box
        BY <2>2, <4>3, Joined
      <4> QED
        BY <4>2, <4>4
    <3>3. box \in Seq(Mails) /\ pre \in Seq(Mails) /\ ForBox(r, b) \in Seq(Mails)
      BY <1>2, <2>2, Joined, ForBoxOfAppend
    <3> HIDE DEF pre, box
    <3>4. MailFor(m, b)' = (box \o pre) \o ForBox(r, b)
      BY <2>4, <3>2 DEF MailFor
    <3>5. MailFor(m, b) = box \o (pre \o ForBox(r, b))
      BY <3>1 DEF MailFor, box
    <3> QED
      BY <3>3, <3>4, <3>5, Joined, SMTT(30)
  <2> QED
    BY <1>4, <2>6, MailKept
<1> QED
  BY <1>5, <1>6, <1>7, <1>8 DEF Background, PostalDelivery

-----------------------------------------------------------------------------
(* The post offices as mailboxes.                                          *)

AllMail == [m \in Machines |-> [b \in Boxes |-> MailFor(m, b)]]

Up == {m \in Machines : On(m)}

\* Nothing moves for any mailbox.
LEMMA MailIsKept ==
    (\A n \in Machines, b \in Boxes : MailFor(n, b)' = MailFor(n, b)) => AllMail' = AllMail
BY DEF AllMail

\* The mailboxes of one machine change.
LEMMA MailBecomes ==
    ASSUME NEW n \in Machines, NEW new, new = [b \in Boxes |-> new[b]],
           \A b \in Boxes : MailFor(n, b)' = new[b],
           \A k \in Machines : k # n => \A b \in Boxes : MailFor(k, b)' = MailFor(k, b)
    PROVE  AllMail' = [AllMail EXCEPT ![n] = new]
<1>1. \A k \in Machines : [b \in Boxes |-> MailFor(k, b)'] =
                            IF k = n THEN new ELSE [b \in Boxes |-> MailFor(k, b)]
  OBVIOUS
<1>2. AllMail' = [k \in Machines |-> [b \in Boxes |-> MailFor(k, b)']]
  BY DEF AllMail
<1>3. [AllMail EXCEPT ![n] = new] =
        [k \in Machines |-> IF k = n THEN new ELSE [b \in Boxes |-> MailFor(k, b)]]
  BY DEF AllMail
<1> QED
  BY <1>1, <1>2, <1>3

\* A machine that has just begun, or is gone, has no mail.
LEMMA NothingIncoming ==
    ASSUME PInv, NEW m \in Machines, socket[m] = << >>, inbox[m] = NoMail, worker[m] = Waiting,
           boxes[m] = EmptyBoxes
    PROVE  \A b \in Boxes : MailFor(m, b) = << >>
<1>1. Carried(m) = << >> /\ Buffered(m) = << >>
  BY DEF Carried, Buffered, Waiting
<1>2. Incoming(m) = << >>
  <2>1. Incoming(m) = Carried(m) \o (Buffered(m) \o socket[m])
    BY IncomingIsMail
  <2>2. << >> \o (<< >> \o << >>) = << >>
    OBVIOUS
  <2> QED
    BY <1>1, <2>1, <2>2
<1>3. \A b \in Boxes : boxes[m][b] = << >>
  BY DEF EmptyBoxes
<1> QED
  BY <1>2, <1>3, ForBoxOfNone, Joined DEF MailFor

\* The same of the next state.
LEMMA NothingIncomingThen ==
    PInv' => \A m \in Machines :
               socket'[m] = << >> /\ inbox'[m] = NoMail /\ worker'[m] = Waiting /\ boxes'[m] = EmptyBoxes
                 => \A b \in Boxes : MailFor(m, b)' = << >>
<1>1. PInv => \A m \in Machines :
               socket[m] = << >> /\ inbox[m] = NoMail /\ worker[m] = Waiting /\ boxes[m] = EmptyBoxes
                 => \A b \in Boxes : MailFor(m, b) = << >>
  BY NothingIncoming
<1>2. (PInv => \A m \in Machines :
               socket[m] = << >> /\ inbox[m] = NoMail /\ worker[m] = Waiting /\ boxes[m] = EmptyBoxes
                 => \A b \in Boxes : MailFor(m, b) = << >>)'
  BY <1>1, PTL
<1> QED
  BY <1>2 DEF EmptyBoxes, Waiting

\* A machine that stops loses its mail.
LEMMA ExitEmpties ==
    ASSUME PInv, NEW m \in Machines, On(m), NEW how \in {"halted", "aborted"}, Exit(m, how)
    PROVE  /\ Up' = Up \ {m} /\ m \in Up
           /\ AllMail' = [AllMail EXCEPT ![m] = [b \in Boxes |-> << >>]]
<1> DEFINE none == [b \in Boxes |-> << >>]
<1>1. PInv'
  BY ExitKeeps
<1>2. Up' = Up \ {m} /\ m \in Up
  BY DEF Exit, Up, On, PInv, PTypeOK
<1>3. \A k \in Machines : k # m => UNCHANGED << boxes[k], socket[k], inbox[k], worker[k] >>
  BY DEF Exit, PInv, PTypeOK
<1>4. \A k \in Machines : k # m => \A b \in Boxes : MailFor(k, b)' = MailFor(k, b)
  BY <1>3, MailKept
<1>5. socket'[m] = << >> /\ inbox'[m] = NoMail /\ worker'[m] = Waiting /\ boxes'[m] = EmptyBoxes
  BY DEF Exit, PInv, PTypeOK
<1>6. \A b \in Boxes : MailFor(m, b)' = << >>
  BY <1>1, <1>5, NothingIncomingThen
<1>7. none = [b \in Boxes |-> none[b]] /\ \A b \in Boxes : MailFor(m, b)' = none[b]
  BY <1>6
<1> HIDE DEF none
<1>8. AllMail' = [AllMail EXCEPT ![m] = none]
  BY <1>4, <1>7, MailBecomes
<1> QED
  BY <1>2, <1>8 DEF none

\* A packet that the host takes is the last of the mail for its mailbox.
LEMMA SendingMails ==
    ASSUME PInv, NEW m \in Machines, NEW t \in Threads, At(m, t, "send"),
           SendToSocket(call[m][t].mail), PInv',
           UNCHANGED << power, inbox, officeVars >>
    PROVE  \E x \in Mails :
             /\ x.to \in Up /\ Up' = Up
             /\ AllMail' = [AllMail EXCEPT ![x.to][x.box] = Append(@, x)]
<1>1. PICK x \in Mails : x = call[m][t].mail
  BY DEF PInv, OfficeInv, CarryInv, At
<1>12. PICK n \in Machines : n = x.to
  BY DEF Mails
<1>2. x.box \in Boxes /\ On(n) /\ socket' = [socket EXCEPT ![n] = Append(@, x)]
  BY <1>1, <1>12 DEF SendToSocket, Mails
<1>3. n \in Up /\ Up' = Up
  BY <1>2 DEF Up, On
<1>4. ASSUME NEW k \in Machines, k # n
      PROVE  \A b \in Boxes : MailFor(k, b)' = MailFor(k, b)
  <2>1. UNCHANGED << boxes[k], socket[k], inbox[k], worker[k] >>
    BY <1>2, <1>4 DEF officeVars, PInv, PTypeOK
  <2> QED
    BY <2>1, MailKept
<1>5. socket'[n] = Append(socket[n], x)
  BY <1>2 DEF PInv, PTypeOK
<1>6. /\ Incoming(n) = Carried(n) \o (Buffered(n) \o socket[n])
      /\ Carried(n) \in Seq(Mails) /\ Buffered(n) \in Seq(Mails)
      /\ socket[n] \in Seq(Mails) /\ Incoming(n) \in Seq(Mails)
      /\ \A b \in Boxes : boxes[n][b] \in Seq(Mails)
  BY <1>2, IncomingIsMail
<1>7. Incoming(n)' = Append(Incoming(n), x)
  <2>1. Incoming(n)' = Carried(n)' \o (Buffered(n)' \o socket'[n])
    BY <1>2, IncomingBecomes
  <2>2. Carried(n)' = Carried(n) /\ Buffered(n)' = Buffered(n)
    BY DEF Carried, Buffered, officeVars
  <2>3. Incoming(n)' = Carried(n) \o (Buffered(n) \o (socket[n] \o << x >>))
    <3>1. Append(socket[n], x) = socket[n] \o << x >>
      BY <1>6, AppendIsConcat
    <3> QED
      BY <1>5, <2>1, <2>2, <3>1
  <2>4. << x >> \in Seq(Mails) /\ Buffered(n) \o socket[n] \in Seq(Mails)
    BY <1>1, <1>6, Joined
  <2>5. Buffered(n) \o (socket[n] \o << x >>) = (Buffered(n) \o socket[n]) \o << x >>
    BY <1>6, <2>4, Regrouped, Zenon
  <2>6. Carried(n) \o ((Buffered(n) \o socket[n]) \o << x >>)
          = (Carried(n) \o (Buffered(n) \o socket[n])) \o << x >>
    BY <1>6, <2>4, Regrouped, ZenonT(30)
  <2>7. Append(Incoming(n), x) = Incoming(n) \o << x >>
    BY <1>1, <1>6, Joined, SMTT(30)
  <2> QED
    BY <1>6, <2>3, <2>5, <2>6, <2>7, Zenon
<1> DEFINE new == [b \in Boxes |-> IF b = x.box THEN Append(MailFor(n, b), x) ELSE MailFor(n, b)]
<1>8. ASSUME NEW b \in Boxes
      PROVE  MailFor(n, b)' = new[b]
  <2> DEFINE some == ForBox(Incoming(n), b)
             box == boxes[n][b]
  <2>1. /\ some \in Seq(Mails)
        /\ ForBox(Append(Incoming(n), x), b) = IF x.box = b THEN Append(some, x) ELSE some
    <3> DEFINE in == Incoming(n)
    <3>1. in \in Seq(Mails)
      BY <1>6
    <3> HIDE DEF in
    <3>2. /\ ForBox(in, b) \in Seq(Mails)
          /\ ForBox(Append(in, x), b) = IF x.box = b THEN Append(ForBox(in, b), x) ELSE ForBox(in, b)
      BY <3>1, ForBoxOfAppend
    <3> QED
      BY <3>2 DEF in
  <2>2. boxes'[n][b] = box
    BY DEF officeVars
  <2>3. MailFor(n, b)' = box \o ForBox(Append(Incoming(n), x), b)
    BY <1>7, <2>2 DEF MailFor
  <2>4. MailFor(n, b) = box \o some
    BY DEF MailFor
  <2>5. box \in Seq(Mails)
    BY <1>6
  <2> HIDE DEF some, box
  <2>6. << x >> \in Seq(Mails) /\ box \o some \in Seq(Mails)
    BY <1>1, <2>1, <2>5, Joined
  <2>7. box \o (some \o << x >>) = (box \o some) \o << x >>
    BY <2>1, <2>5, <2>6, Regrouped, Zenon
  <2>8. Append(some, x) = some \o << x >> /\ Append(box \o some, x) = (box \o some) \o << x >>
    BY <1>1, <2>1, <2>6, Joined
  <2>9. CASE x.box = b
    <3>1. MailFor(n, b)' = box \o (some \o << x >>)
      BY <2>1, <2>3, <2>8, <2>9
    <3>2. new[b] = (box \o some) \o << x >>
      BY <2>4, <2>8, <2>9
    <3> QED
      BY <2>7, <3>1, <3>2
  <2>10. CASE x.box # b
    BY <2>1, <2>3, <2>4, <2>10
  <2> QED
    BY <2>9, <2>10
<1>9. new = [b \in Boxes |-> new[b]]
  OBVIOUS
<1>10. [AllMail EXCEPT ![n][x.box] = Append(@, x)] = [AllMail EXCEPT ![n] = new]
  <2>1. AllMail[n] = [b \in Boxes |-> MailFor(n, b)]
    BY <1>2 DEF AllMail
  <2>2. [AllMail[n] EXCEPT ![x.box] = Append(AllMail[n][x.box], x)] = new
    BY <1>2, <2>1
  <2> HIDE DEF new
  <2> QED
    BY <2>2
<1> HIDE DEF new
<1>11. AllMail' = [AllMail EXCEPT ![n] = new]
  BY <1>4, <1>8, <1>9, MailBecomes
<1> QED
  BY <1>12, <1>3, <1>10, <1>11

\* What is read is the oldest of the mail for its mailbox.
LEMMA GetReads ==
    ASSUME PInv, NEW m \in Machines, NEW t \in Threads, Get(m, t)
    PROVE  \E b \in Boxes :
             /\ m \in Up /\ Up' = Up /\ AllMail[m][b] # << >>
             /\ AllMail' = [AllMail EXCEPT ![m][b] = Tail(@)]
<1>16. PICK c \in Boxes : c = call[m][t].box
  BY DEF PInv, PTypeOK
<1> DEFINE u == boxes[m][c]
           x == Head(u)
           r == Tail(u)
           v == ForBox(Incoming(m), c)
<1>1. /\ u \in Seq(Mails) /\ u # << >>
      /\ On(m) /\ UNCHANGED << power, socket, inbox, worker >>
      /\ boxes' = [boxes EXCEPT ![m] = [boxes[m] EXCEPT ![c] = r]]
  BY <1>16 DEF Get, At, PInv, PTypeOK, deviceVars
<1>2. m \in Up /\ Up' = Up
  BY <1>1 DEF Up, On
<1>3. x \in Mails /\ r \in Seq(Mails) /\ << x >> \o r = u /\ << x >> \in Seq(Mails)
  BY <1>1, Joined
<1>4. Incoming(m)' = Incoming(m) /\ Incoming(m) \in Seq(Mails)
  BY <1>1, IncomingIsMail DEF Incoming
<1>5. v \in Seq(Mails)
  BY <1>3, <1>4, ForBoxOfAppend
<1>6. /\ boxes'[m][c] = r
      /\ \A b \in Boxes : b # c => boxes'[m][b] = boxes[m][b]
      /\ \A k \in Machines : k # m => boxes'[k] = boxes[k]
  BY <1>1 DEF PInv, PTypeOK
<1>7. ASSUME NEW k \in Machines, k # m
      PROVE  \A b \in Boxes : MailFor(k, b)' = MailFor(k, b)
  <2>1. UNCHANGED << boxes[k], socket[k], inbox[k], worker[k] >>
    BY <1>1, <1>6, <1>7
  <2> QED
    BY <2>1, MailKept
<1> DEFINE new == [b \in Boxes |-> IF b = c THEN Tail(MailFor(m, b)) ELSE MailFor(m, b)]
<1> HIDE DEF x, r
<1>8. MailFor(m, c) = u \o v /\ MailFor(m, c)' = r \o v
  BY <1>4, <1>6 DEF MailFor
<1> HIDE DEF u, v
<1>9. MailFor(m, c) # << >> /\ Tail(MailFor(m, c)) = r \o v
  <2>1. u \o v = << x >> \o (r \o v)
    <3>1. (<< x >> \o r) \o v = << x >> \o (r \o v)
      BY <1>3, <1>5, Regrouped, Zenon
    <3> QED
      BY <1>3, <3>1
  <2>2. r \o v \in Seq(Mails)
    BY <1>3, <1>5, Joined
  <2>3. << x >> \o (r \o v) # << >> /\ Tail(<< x >> \o (r \o v)) = r \o v
    BY <1>3, <2>2, Joined, Zenon
  <2> QED
    BY <1>8, <2>1, <2>3
<1>10. ASSUME NEW b \in Boxes
       PROVE  MailFor(m, b)' = new[b]
  <2>1. CASE b = c
    BY <1>8, <1>9, <2>1
  <2>2. CASE b # c
    <3>1. MailFor(m, b)' = MailFor(m, b)
      BY <1>4, <1>6, <2>2 DEF MailFor
    <3> QED
      BY <2>2, <3>1
  <2> QED
    BY <2>1, <2>2
<1>11. new = [b \in Boxes |-> new[b]]
  OBVIOUS
<1>12. AllMail[m] = [b \in Boxes |-> MailFor(m, b)]
  BY DEF AllMail
<1>13. [AllMail EXCEPT ![m][c] = Tail(@)] = [AllMail EXCEPT ![m] = new]
  <2>1. [AllMail[m] EXCEPT ![c] = Tail(AllMail[m][c])] = new
    BY <1>1, <1>12
  <2> HIDE DEF new
  <2> QED
    BY <2>1
<1>14. AllMail[m][c] # << >>
  BY <1>1, <1>9, <1>12
<1> HIDE DEF new
<1>15. AllMail' = [AllMail EXCEPT ![m] = new]
  BY <1>7, <1>10, <1>11, MailBecomes
<1> QED
  BY <1>1, <1>2, <1>13, <1>14, <1>15

\* The post offices implement the mailboxes: whatever the device, the worker and the
\* threads of the machines do meanwhile, mail that the network has taken is read once,
\* and in the order in which it was sent (post.h:20-33, network.h:46-48).
THEOREM MailIsDelivered == MSpec => ImplementsMail
<1>1. MInit => Mailbox!AInit
  <2> SUFFICES ASSUME MInit
               PROVE  Mailbox!AInit
    OBVIOUS
  <2>1. PInv
    BY InitMInv DEF MInv
  <2>2. \A m \in Machines : ~On(m)
    BY DEF MInit, PInit, On
  <2>3. \A m \in Machines, b \in Boxes : MailFor(m, b) = << >>
    BY <2>1, NothingIncoming DEF MInit, PInit
  <2> QED
    BY <2>2, <2>3 DEF Mailbox!AInit
<1>2. MInv /\ [MNext]_mvars => [Mailbox!ANext]_(Mailbox!avars)
  <2> SUFFICES ASSUME MInv, [MNext]_mvars
               PROVE  (AllMail' = AllMail /\ Up' = Up) \/ Mailbox!ANext
    BY DEF Mailbox!avars, AllMail, Up
  <2>1. PInv /\ PInv'
    BY NextKeepsMInv, PTL DEF MInv
  <2> DEFINE Moves ==
          \/ \E x \in Mails :
               /\ x.to \in Up
               /\ AllMail' = [AllMail EXCEPT ![x.to][x.box] = Append(@, x)]
               /\ Up' = Up
          \/ \E m \in Machines :
               \/ m \notin Up /\ Up' = Up \cup {m} /\ AllMail' = AllMail
               \/ m \in Up /\ Up' = Up \ {m} /\ AllMail' = [AllMail EXCEPT ![m] = [b \in Boxes |-> << >>]]
               \/ \E b \in Boxes :
                    /\ m \in Up /\ AllMail[m][b] # << >>
                    /\ AllMail' = [AllMail EXCEPT ![m][b] = Tail(@)]
                    /\ Up' = Up
  <2>2. Mailbox!ANext <=> << AllMail', Up' >> # << AllMail, Up >> /\ Moves
    BY Zenon DEF AllMail, Up, Mailbox!ANext, Mailbox!avars, Mailbox!Send, Mailbox!Start,
                 Mailbox!Stop, Mailbox!Read
  <2>3. ASSUME NEW m \in Machines, Start(m)
        PROVE  Moves
    <3>1. m \notin Up /\ Up' = Up \cup {m}
      BY <2>1, <2>3 DEF Start, Up, On, PInv, PTypeOK
    <3>2. \A n \in Machines : UNCHANGED << boxes[n], socket[n], inbox[n], worker[n] >>
      BY <2>3 DEF Start, deviceVars, officeVars
    <3>3. AllMail' = AllMail
      BY <3>2, MailKept, MailIsKept
    <3> QED
      BY <3>1, <3>3
  <2>4. ASSUME UNCHANGED << power, socket, inbox, boxes, worker >>
        PROVE  AllMail' = AllMail /\ Up' = Up
    <3>1. \A n \in Machines : UNCHANGED << boxes[n], socket[n], inbox[n], worker[n] >>
      BY <2>4
    <3> QED
      BY <2>4, <3>1, MailKept, MailIsKept DEF Up, On
  <2>5. ASSUME NEW m \in Machines, Background(m)
        PROVE  AllMail' = AllMail /\ Up' = Up
    <3>1. UNCHANGED power
      BY <2>5 DEF Background, CheckPktAvail, SendDone, PostalDelivery, WorkerWakes, NetworkReceive, Put
    <3> QED
      BY <2>1, <2>5, <3>1, WorkKeepsMail, MailIsKept DEF Up, On
  <2>6. ASSUME NEW m \in Machines, On(m), NEW how \in {"halted", "aborted"}, Exit(m, how)
        PROVE  Moves
    BY <2>1, <2>6, ExitEmpties
  <2>7. ASSUME NEW m \in Machines, NEW t \in Threads, Inside(m, t)
        PROVE  (AllMail' = AllMail /\ Up' = Up) \/ Moves
    <3>1. CASE SendAcquire(m, t) \/ SendPass(m, t) \/ SendRelease(m, t)
      <4>1. UNCHANGED << power, socket, inbox, boxes, worker >>
        BY <3>1 DEF SendAcquire, SendPass, SendRelease, deviceVars
      <4> QED
        BY <2>4, <4>1
    <3>2. CASE NetworkSend(m, t)
      <4>1. CASE Exit(m, "aborted")
        BY <2>6, <3>2, <4>1 DEF NetworkSend, At
      <4>2. CASE UNCHANGED << power, inbox, officeVars >> /\ UNCHANGED socket
        BY <2>4, <4>2 DEF officeVars
      <4>3. CASE UNCHANGED << power, inbox, officeVars >> /\ SendToSocket(call[m][t].mail)
        <5>1. At(m, t, "send")
          BY <3>2 DEF NetworkSend
        <5> QED
          BY <2>1, <4>3, <5>1, SendingMails
      <4> QED
        BY <3>2, <4>1, <4>2, <4>3 DEF NetworkSend
    <3>3. CASE Get(m, t)
      BY <2>1, <3>3, GetReads
    <3> QED
      BY <2>7, <3>1, <3>2, <3>3 DEF Inside
  <2>8. ASSUME NEW m \in Machines, MailTest(m)
        PROVE  (AllMail' = AllMail /\ Up' = Up) \/ Moves
    <3>1. CASE Halt(m)
      BY <2>6, <3>1 DEF Halt, Back, At
    <3>2. CASE ~Halt(m)
      <4>1. UNCHANGED << power, socket, inbox, boxes, worker >>
        BY <2>8, <3>2 DEF MailTest, Send, Receive, deviceVars, officeVars
      <4> QED
        BY <2>4, <4>1
    <3> QED
      BY <3>1, <3>2
  <2>9. ASSUME NEW m \in Machines, UserAbort(m)
        PROVE  Moves
    BY <2>6, <2>9 DEF UserAbort
  <2>10. ASSUME NEW m \in Machines, NEW t \in Threads, ClientSends(m, t) \/ ClientReceives(m, t)
         PROVE  AllMail' = AllMail /\ Up' = Up
    <3>1. UNCHANGED << power, socket, inbox, boxes, worker >>
      BY <2>10 DEF ClientSends, ClientReceives, Send, Receive, deviceVars, officeVars
    <3> QED
      BY <2>4, <3>1
  <2>11. ASSUME UNCHANGED mvars
         PROVE  AllMail' = AllMail /\ Up' = Up
    BY <2>4, <2>11 DEF mvars, pvars, deviceVars, officeVars
  <2> QED
    <3> HIDE DEF Moves
    <3>1. (AllMail' = AllMail /\ Up' = Up) \/ Moves
      BY <2>3, <2>5, <2>7, <2>8, <2>9, <2>10, <2>11 DEF MNext
    <3> QED
      BY <2>2, <3>1
<1> QED
  BY <1>1, <1>2, MInvAlways, PTL DEF MSpec, ImplementsMail, Mailbox!ASpec

-----------------------------------------------------------------------------
(* MailTest, when each machine mails the one that mails it.                *)

\* The command lines name each other, as in the one shown (nettest.cc:6-8).
Paired == \A m \in Machines : Far[Far[m]] = m

\* MailTest has given its acknowledgement to the network.
AckSent(m) ==
    \/ stage[m] > 3
    \/ stage[m] = 3 /\ call[m][MainThread].at \notin {"acquire", "send"}

\* The mail for machine m, wherever it is.
Elements(s) == {s[i] : i \in 1..Len(s)}

Held(m) ==
    Elements(socket[m]) \cup ({inbox[m], worker[m].mail} \ {NoMail})
      \cup UNION {Elements(boxes[m][box]) : box \in Boxes}

Sorted(m) == \A box \in Boxes : \A x \in Elements(boxes[m][box]) : x.box = box

\* All of it is from the other machine, which wants its answer in box 1 and has
\* acknowledged when it writes to box 1.
MailInv(m) ==
    /\ \A x \in Held(m) : /\ x.from = Far[m] /\ x.reply = 1
                          /\ x.box = 1 => AckSent(Far[m])
    /\ Sorted(m)

\* A letter of MailTest.
Letter(m, x, box) == x.from = m /\ x.to = Far[m] /\ x.box = box /\ x.reply = 1

\* Where each statement of MailTest leaves the main thread.
StageInv(m) ==
    LET c == call[m][MainThread]
    IN /\ stage[m] = 0 => c.at = "idle"
       /\ stage[m] \in {1, 3} => c.at \in {"idle", "acquire", "send", "sent", "release"}
       /\ stage[m] \in {1, 3} /\ c.at \in {"acquire", "send"} =>
            Letter(m, c.mail, IF stage[m] = 1 THEN 0 ELSE 1)
       /\ stage[m] \in {2, 4} => c.at \in {"idle", "remove"}
       /\ stage[m] = 2 /\ c.at = "idle" => c.mail.from = Far[m] /\ c.mail.reply = 1
       /\ stage[m] = 4 /\ c.at = "remove" => c.box = 1
       /\ stage[m] = 4 /\ c.at = "idle" => AckSent(Far[m])
       /\ stage[m] = 5 => c.at = "idle" /\ AckSent(Far[m])

\* Which machines run.
PowerInv(m) ==
    /\ power[m] # "aborted"
    /\ power[m] = "halted" <=> stage[m] = 5
    /\ stage[m] > 0 => \A n \in Machines : power[n] # "off"
    /\ \A t \in Threads \ {MainThread} : call[m][t].at = "idle"

HaltInv ==
    program = "MailTest" => \A m \in Machines : StageInv(m) /\ PowerInv(m) /\ MailInv(m)

\* What the operations of a queue do to its elements.
LEMMA SomeElements ==
    /\ Elements(<< >>) = {}
    /\ \A u \in Seq(Mails) : Elements(u) \subseteq Mails
    /\ \A u \in Seq(Mails) : u # << >> =>
         Head(u) \in Elements(u) /\ Elements(Tail(u)) \subseteq Elements(u)
    /\ \A u \in Seq(Mails), x \in Mails : Elements(Append(u, x)) = Elements(u) \cup {x}
<1>1. Elements(<< >>) = {} /\ \A u \in Seq(Mails) : Elements(u) \subseteq Mails
  BY DEF Elements
<1>2. ASSUME NEW u \in Seq(Mails), u # << >>
      PROVE  Head(u) \in Elements(u) /\ Elements(Tail(u)) \subseteq Elements(u)
  <2>1. Head(u) = u[1] /\ 1 \in 1..Len(u)
    BY <1>2
  <2>2. Len(Tail(u)) = Len(u) - 1 /\ \A i \in 1..Len(Tail(u)) : Tail(u)[i] = u[i + 1]
    BY <1>2, HeadTailProperties
  <2>3. \A i \in 1..Len(Tail(u)) : i + 1 \in 1..Len(u)
    BY <2>2
  <2> QED
    BY <2>1, <2>2, <2>3 DEF Elements
<1>3. ASSUME NEW u \in Seq(Mails), NEW x \in Mails
      PROVE  Elements(Append(u, x)) = Elements(u) \cup {x}
  <2> DEFINE v == Append(u, x)
  <2>1. Len(v) = Len(u) + 1 /\ v[Len(u) + 1] = x /\ \A i \in 1..Len(u) : v[i] = u[i]
    OBVIOUS
  <2>2. 1..Len(u) + 1 = 1..Len(u) \cup {Len(u) + 1}
    OBVIOUS
  <2> HIDE DEF v
  <2>3. Elements(v) = Elements(u) \cup {x}
    BY <2>1, <2>2 DEF Elements
  <2> QED
    BY <2>3 DEF v
<1> QED
  BY <1>1, <1>2, <1>3

\* Nothing moves on machine n.
LEMMA HeldKept ==
    ASSUME NEW n \in Machines,
           UNCHANGED << boxes[n], socket[n], inbox[n], worker[n] >>
    PROVE  Held(n)' = Held(n) /\ Sorted(n)' = Sorted(n)
BY DEF Held, Sorted

\* The device and the worker only pass it on.
LEMMA WorkKeepsHeld ==
    ASSUME PInv, NEW m \in Machines, Background(m), Sorted(m)
    PROVE  /\ Held(m)' \subseteq Held(m) /\ Sorted(m)'
           /\ \A n \in Machines : n # m => Held(n)' = Held(n) /\ Sorted(n)' = Sorted(n)
<1> USE DEF PInv
<1>1. ASSUME NEW n \in Machines, n # m
      PROVE  Held(n)' = Held(n) /\ Sorted(n)' = Sorted(n)
  <2>1. UNCHANGED << boxes[n], socket[n], inbox[n], worker[n] >>
    BY <1>1 DEF Background, CheckPktAvail, SendDone, PostalDelivery, WorkerWakes, NetworkReceive, Put,
       ReadFromSocket, deviceVars, PTypeOK
  <2> QED
    BY <2>1, HeldKept
<1>2. CASE CheckPktAvail(m)
  <2>1. /\ socket[m] # << >> /\ socket[m] \in Seq(Mails)
        /\ inbox'[m] = Head(socket[m]) /\ socket'[m] = Tail(socket[m])
        /\ UNCHANGED << worker, boxes >>
    BY <1>2 DEF CheckPktAvail, PollSocket, ReadFromSocket, PTypeOK
  <2>2. inbox'[m] \in Elements(socket[m]) /\ Elements(socket'[m]) \subseteq Elements(socket[m])
    BY <2>1, SomeElements
  <2> QED
    BY <1>1, <2>1, <2>2, SMTT(30) DEF Held, Sorted
<1>3. CASE SendDone(m)
  <2>1. UNCHANGED << boxes[m], socket[m], inbox[m], worker[m] >>
    BY <1>3 DEF SendDone
  <2> QED
    BY <1>1, <2>1, HeldKept
<1>4. CASE WorkerWakes(m)
  <2>1. UNCHANGED << boxes, socket, inbox >> /\ worker'[m].mail = worker[m].mail
    BY <1>4 DEF WorkerWakes, deviceVars, PTypeOK
  <2> QED
    BY <1>1, <2>1 DEF Held, Sorted
<1>5. CASE NetworkReceive(m)
  <2>1. /\ inbox'[m] = NoMail /\ worker'[m].mail = inbox[m]
        /\ UNCHANGED << socket, boxes >>
    BY <1>5 DEF NetworkReceive, PTypeOK
  <2> QED
    BY <1>1, <2>1 DEF Held, Sorted
<1>6. CASE Put(m)
  <2>0. PICK x \in Mails : x = worker[m].mail /\ worker[m].at = "put"
    BY <1>6 DEF Put, WorkerAt, OfficeInv, ArrivalInv, PTypeOK
  <2>1. /\ worker'[m].mail = NoMail /\ UNCHANGED << socket, inbox >>
        /\ boxes' = [boxes EXCEPT ![m] = [boxes[m] EXCEPT ![x.box] = Append(boxes[m][x.box], x)]]
    BY <1>6, <2>0 DEF Put, deviceVars, PTypeOK
  <2>2. x.box \in Boxes /\ x \in Held(m)
    BY <2>0, NoMailIsNoMail DEF Mails, Held
  <2>3. \A box \in Boxes : boxes[m][box] \in Seq(Mails)
    BY DEF PTypeOK
  <2>4. \A box \in Boxes :
          boxes'[m][box] = IF box = x.box THEN Append(boxes[m][box], x) ELSE boxes[m][box]
    BY <2>1, <2>2 DEF PTypeOK
  <2>5. \A box \in Boxes :
          Elements(boxes'[m][box]) =
            IF box = x.box THEN Elements(boxes[m][box]) \cup {x} ELSE Elements(boxes[m][box])
    BY <2>3, <2>4, SomeElements
  <2>6. Sorted(m)'
    BY <2>5 DEF Sorted
  <2>7. Held(m)' \subseteq Held(m)
    <3> DEFINE U == UNION {Elements(boxes[m][box]) : box \in Boxes}
               V == UNION {Elements(boxes'[m][box]) : box \in Boxes}
    <3>1. V \subseteq U \cup {x}
      BY <2>5
    <3> HIDE DEF U, V
    <3>2. Held(m) = Elements(socket[m]) \cup ({inbox[m], worker[m].mail} \ {NoMail}) \cup U
      BY DEF Held, U
    <3>3. Held(m)' = Elements(socket[m]) \cup ({inbox[m], NoMail} \ {NoMail}) \cup V
      BY <2>1 DEF Held, V
    <3> QED
      BY <2>2, <3>1, <3>2, <3>3
  <2> QED
    BY <1>1, <2>6, <2>7
<1> QED
  BY <1>2, <1>3, <1>4, <1>5, <1>6 DEF Background, PostalDelivery

\* A machine that stops holds no mail.
LEMMA ExitDrops ==
    ASSUME PInv, NEW m \in Machines, NEW how \in {"halted", "aborted"}, Exit(m, how)
    PROVE  /\ Held(m)' = {} /\ Sorted(m)'
           /\ \A n \in Machines : n # m => Held(n)' = Held(n) /\ Sorted(n)' = Sorted(n)
<1>1. \A n \in Machines : n # m => UNCHANGED << boxes[n], socket[n], inbox[n], worker[n] >>
  BY DEF Exit, PInv, PTypeOK
<1>2. socket'[m] = << >> /\ inbox'[m] = NoMail /\ worker'[m] = Waiting /\ boxes'[m] = EmptyBoxes
  BY DEF Exit, PInv, PTypeOK
<1>3. Elements(socket'[m]) = {} /\ \A box \in Boxes : Elements(boxes'[m][box]) = {}
  BY <1>2, SomeElements DEF EmptyBoxes
<1>4. worker'[m].mail = NoMail
  BY <1>2 DEF Waiting
<1>5. Held(m)' = {}
  BY <1>2, <1>3, <1>4 DEF Held
<1>6. Sorted(m)'
  BY <1>3 DEF Sorted
<1> QED
  BY <1>1, <1>5, <1>6, HeldKept

\* What MailBox::Get gives was held, in the box asked for.
LEMMA GetTakes ==
    ASSUME PInv, NEW m \in Machines, NEW t \in Threads, Get(m, t), Sorted(m)
    PROVE  /\ call[m][t].at = "remove"
           /\ call'[m][t].at = "idle"
           /\ call'[m][t].mail \in Held(m)
           /\ call'[m][t].mail.box = call[m][t].box
           /\ Held(m)' \subseteq Held(m) /\ Sorted(m)'
           /\ \A n \in Machines : n # m => Held(n)' = Held(n) /\ Sorted(n)' = Sorted(n)
<1>1. PICK c \in Boxes : c = call[m][t].box
  BY DEF PInv, PTypeOK
<1> DEFINE u == boxes[m][c]
<1>2. /\ u \in Seq(Mails) /\ u # << >>
      /\ UNCHANGED << socket, inbox, worker >>
      /\ boxes' = [boxes EXCEPT ![m] = [boxes[m] EXCEPT ![c] = Tail(u)]]
      /\ call[m][t].at = "remove" /\ call'[m][t].at = "idle" /\ call'[m][t].mail = Head(u)
  BY <1>1 DEF Get, At, PInv, PTypeOK, deviceVars
<1>3. Head(u) \in Elements(u) /\ Elements(Tail(u)) \subseteq Elements(u) /\ Elements(u) \subseteq Mails
  BY <1>2, SomeElements
<1>4. Head(u) \in Held(m) /\ Head(u).box = c
  BY <1>3 DEF Held, Sorted
<1>5. \A box \in Boxes : boxes'[m][box] = IF box = c THEN Tail(u) ELSE boxes[m][box]
  BY <1>2 DEF PInv, PTypeOK
<1>6. \A box \in Boxes : Elements(boxes'[m][box]) \subseteq Elements(boxes[m][box])
  BY <1>3, <1>5
<1>7. Held(m)' \subseteq Held(m) /\ Sorted(m)'
  <2> DEFINE U == UNION {Elements(boxes[m][box]) : box \in Boxes}
             V == UNION {Elements(boxes'[m][box]) : box \in Boxes}
  <2>1. V \subseteq U
    BY <1>6
  <2>2. Sorted(m)'
    BY <1>6 DEF Sorted
  <2> HIDE DEF U, V, u
  <2>3. Held(m) = Elements(socket[m]) \cup ({inbox[m], worker[m].mail} \ {NoMail}) \cup U
    BY DEF Held, U
  <2>4. Held(m)' = Elements(socket[m]) \cup ({inbox[m], worker[m].mail} \ {NoMail}) \cup V
    BY <1>2 DEF Held, V
  <2> QED
    BY <2>1, <2>2, <2>3, <2>4
<1>8. \A n \in Machines : n # m => UNCHANGED << boxes[n], socket[n], inbox[n], worker[n] >>
  BY <1>2 DEF PInv, PTypeOK
<1> QED
  BY <1>1, <1>2, <1>4, <1>7, <1>8, HeldKept

\* What the host takes is held by the machine it is for.
LEMMA SocketHolds ==
    ASSUME PInv, NEW x \in Mails, SendToSocket(x), UNCHANGED << inbox, worker, boxes >>
    PROVE  /\ Held(x.to)' = Held(x.to) \cup {x}
           /\ \A n \in Machines : n # x.to => Held(n)' = Held(n)
           /\ \A n \in Machines : Sorted(n)' = Sorted(n)
<1>1. PICK n \in Machines : n = x.to
  BY DEF Mails
<1>2. /\ socket'[n] = Append(socket[n], x) /\ socket[n] \in Seq(Mails)
      /\ \A k \in Machines : k # n => socket'[k] = socket[k]
  BY <1>1 DEF SendToSocket, PInv, PTypeOK
<1>3. Elements(socket'[n]) = Elements(socket[n]) \cup {x}
  BY <1>2, SomeElements
<1>4. Held(n)' = Held(n) \cup {x}
  BY <1>3 DEF Held
<1>5. \A k \in Machines : k # n => Held(k)' = Held(k)
  BY <1>2 DEF Held
<1>6. \A k \in Machines : Sorted(k)' = Sorted(k)
  BY DEF Sorted
<1>7. Held(x.to)' = Held(n)'
  BY <1>1
<1> QED
  BY <1>1, <1>4, <1>5, <1>6, <1>7

\* A step of MailTest's thread inside the post office.
TestStep(m, c, d) ==
    \/ c.at = "acquire" /\ d.at = "send" /\ d.mail = c.mail
    \/ c.at = "send" /\ d.at = "sent"
    \/ c.at = "sent" /\ d.at = "release"
    \/ c.at = "release" /\ d.at = "idle"
    \/ c.at = "remove" /\ d.at = "idle" /\ d.mail \in Held(m) /\ d.mail.box = c.box

\* The main thread is the only one inside, and the machine it mails is on.
LEMMA TestInside ==
    ASSUME MInv, HaltInv, program = "MailTest", Paired,
           NEW m \in Machines, NEW t \in Threads, Inside(m, t)
    PROVE  /\ t = MainThread /\ power[m] = "on" /\ power' = power
           /\ \A n \in Machines : n # m => call'[n] = call[n]
           /\ \A u \in Threads : u # t => call'[m][u] = call[m][u]
           /\ TestStep(m, call[m][t], call'[m][t])
           /\ \A n \in Machines :
                /\ Sorted(n)'
                /\ \A x \in Held(n)' : \/ x \in Held(n)
                                       \/ /\ call[m][t].at = "send"
                                          /\ x = call[m][t].mail /\ x.to = n
<1> USE DEF MInv, PInv
<1>1. power[m] = "on" /\ call[m][t].at # "idle"
  BY DEF Inside, SendAcquire, NetworkSend, SendPass, SendRelease, Get, At, On
<1>2. t = MainThread /\ StageInv(m) /\ PowerInv(m) /\ \A n \in Machines : Sorted(n)
  BY <1>1 DEF HaltInv, PowerInv, MailInv
<1> DEFINE OneMoves == /\ \A n \in Machines : n # m => call'[n] = call[n]
                       /\ \A u \in Threads : u # t => call'[m][u] = call[m][u]
           MailStays == \A n \in Machines : Held(n)' \subseteq Held(n) /\ Sorted(n)'
<1>4. CASE SendAcquire(m, t)
  <2>1. OneMoves /\ call[m][t].at = "acquire" /\ call'[m][t].at = "send" /\ call'[m][t].mail = call[m][t].mail
    BY <1>4, GotoMoves DEF SendAcquire, At, Points
  <2>2. UNCHANGED << power, socket, inbox, worker, boxes >>
    BY <1>4 DEF SendAcquire, deviceVars
  <2>3. MailStays
    BY <1>2, <2>2, HeldKept
  <2> QED
    BY <1>1, <1>2, <2>1, <2>2, <2>3 DEF TestStep
<1>5. CASE SendPass(m, t)
  <2>1. OneMoves /\ call[m][t].at = "sent" /\ call'[m][t].at = "release"
    BY <1>5, GotoMoves DEF SendPass, At, Points
  <2>2. UNCHANGED << power, socket, inbox, worker, boxes >>
    BY <1>5 DEF SendPass, deviceVars
  <2>3. MailStays
    BY <1>2, <2>2, HeldKept
  <2> QED
    BY <1>1, <1>2, <2>1, <2>2, <2>3 DEF TestStep
<1>6. CASE SendRelease(m, t)
  <2>1. OneMoves /\ call[m][t].at = "release" /\ call'[m][t].at = "idle"
    BY <1>6 DEF SendRelease, At, PTypeOK
  <2>2. UNCHANGED << power, socket, inbox, worker, boxes >>
    BY <1>6 DEF SendRelease, deviceVars
  <2>3. MailStays
    BY <1>2, <2>2, HeldKept
  <2> QED
    BY <1>1, <1>2, <2>1, <2>2, <2>3 DEF TestStep
<1>7. CASE Get(m, t)
  <2>1. OneMoves /\ UNCHANGED power
    BY <1>7 DEF Get, PTypeOK
  <2>2. MailStays /\ TestStep(m, call[m][t], call'[m][t])
    BY <1>2, <1>7, GetTakes DEF TestStep
  <2> QED
    BY <1>1, <1>2, <2>1, <2>2
<1>8. CASE NetworkSend(m, t)
  <2>1. PICK x \in Mails : x = call[m][t].mail /\ call[m][t].at = "send"
    BY <1>8 DEF NetworkSend, At, OfficeInv, CarryInv
\* Far[m] waits for this mail, so that it has not halted.
  <2>2. x.to = Far[m] /\ stage[m] \in {1, 3} /\ ~AckSent(m)
    BY <1>2, <2>1 DEF StageInv, Letter, AckSent, TestTypeOK
  <2>3. On(x.to)
    <3>1. Far[m] \in Machines /\ Far[Far[m]] = m
      BY MailTestAssumption DEF Paired
    <3>2. StageInv(Far[m]) /\ PowerInv(Far[m])
      BY <3>1 DEF HaltInv
    <3>3. power[Far[m]] # "halted"
      BY <2>2, <3>1, <3>2 DEF StageInv, PowerInv
    <3>4. power[Far[m]] # "off"
      BY <1>2, <2>2, <3>1 DEF PowerInv
    <3> QED
      BY <2>2, <3>1, <3>2, <3>3, <3>4 DEF On, PowerInv, PTypeOK
  <2>4. /\ Goto(m, t, "sent") /\ UNCHANGED << power, inbox, worker, boxes >>
        /\ UNCHANGED socket \/ SendToSocket(x)
    BY <1>8, <2>1, <2>3 DEF NetworkSend, officeVars
  <2>5. OneMoves /\ call'[m][t].at = "sent"
    BY <2>4, GotoMoves DEF Points
  <2>6. CASE UNCHANGED socket
    <3>1. MailStays
      BY <1>2, <2>4, <2>6, HeldKept
    <3> QED
      BY <1>1, <1>2, <2>1, <2>4, <2>5, <3>1 DEF TestStep
  <2>7. CASE SendToSocket(x)
    <3>1. /\ Held(x.to)' = Held(x.to) \cup {x}
          /\ \A n \in Machines : n # x.to => Held(n)' = Held(n)
          /\ \A n \in Machines : Sorted(n)' = Sorted(n)
      BY <2>4, <2>7, SocketHolds
    <3>2. ASSUME NEW n \in Machines, NEW y \in Held(n)'
          PROVE  y \in Held(n) \/ (y = x /\ x.to = n)
      <4>1. CASE n = x.to
        <5>1. Held(n)' = Held(n) \cup {x}
          BY <2>2, <3>1, <4>1
        <5> QED
          BY <4>1, <5>1, <3>2
      <4> QED
        BY <3>1, <3>2, <4>1
    <3> QED
      BY <1>1, <1>2, <2>1, <2>4, <2>5, <3>1, <3>2 DEF TestStep
  <2> QED
    BY <2>4, <2>6, <2>7
<1> QED
  BY <1>4, <1>5, <1>6, <1>7, <1>8 DEF Inside

\* Where a statement of MailTest takes its machine.
TestStatement(m, s, d) ==
    \/ s = 0 /\ d.at = "acquire" /\ Letter(m, d.mail, 0)
    \/ s = 1 /\ d.at = "remove"
    \/ s = 2 /\ d.at = "acquire" /\ Letter(m, d.mail, 1)
    \/ s = 3 /\ d.at = "remove" /\ d.box = 1
    \/ s = 4 /\ d.at = "idle"

\* What each statement changes.
LEMMA TestBegins ==
    ASSUME MInv, HaltInv, program = "MailTest", NEW m \in Machines, MailTest(m)
    PROVE  /\ call[m][MainThread].at = "idle" /\ power[m] = "on"
           /\ \A n \in Machines : n # m => /\ call'[n] = call[n]
                                           /\ stage'[n] = stage[n]
                                           /\ power'[n] = power[n]
           /\ \A u \in Threads : u # MainThread => \/ call'[m][u] = call[m][u]
                                                   \/ call'[m][u].at = "idle"
           /\ stage'[m] = stage[m] + 1
           /\ TestStatement(m, stage[m], call'[m][MainThread])
           /\ power'[m] = IF stage[m] = 4 THEN "halted" ELSE "on"
           /\ stage[m] = 0 => \A n \in Machines : power[n] # "off"
           /\ \A n \in Machines : Held(n)' \subseteq Held(n) /\ Sorted(n)'
<1> USE MailTestAssumption DEF MInv, PInv
<1>1. \A n \in Machines : Sorted(n) /\ StageInv(n)
  BY DEF HaltInv, MailInv
<1> DEFINE OneMoves == /\ \A n \in Machines : n # m => call'[n] = call[n]
                       /\ \A u \in Threads : u # MainThread => call'[m][u] = call[m][u]
           MailStays == \A n \in Machines : Held(n)' \subseteq Held(n) /\ Sorted(n)'
           d == call'[m][MainThread]
<1>2. ASSUME NEW n \in 1..5, Begins(m, n)
      PROVE  /\ stage[m] = n - 1 /\ stage'[m] = n
             /\ \A k \in Machines : k # m => stage'[k] = stage[k]
  BY <1>2 DEF Begins, TestTypeOK
<1>3. ASSUME NEW to, NEW box, NEW body, Send(m, MainThread, to, box, 1, body)
      PROVE  /\ call[m][MainThread].at = "idle" /\ power[m] = "on" /\ power' = power
             /\ OneMoves /\ MailStays
             /\ d.at = "acquire" /\ d.mail.from = m /\ d.mail.to = to /\ d.mail.box = box
             /\ d.mail.reply = 1
  <2>1. UNCHANGED << socket, inbox, worker, boxes >>
    BY <1>3 DEF Send, deviceVars, officeVars
  <2>2. MailStays
    BY <1>1, <2>1, HeldKept
  <2> QED
    BY <1>3, <2>2 DEF Send, At, On, PTypeOK
<1>4. ASSUME NEW box, Receive(m, MainThread, box)
      PROVE  /\ call[m][MainThread].at = "idle" /\ power[m] = "on" /\ power' = power
             /\ OneMoves /\ MailStays
             /\ d.at = "remove" /\ d.box = box
  <2>1. UNCHANGED << socket, inbox, worker, boxes >>
    BY <1>4 DEF Receive, deviceVars, officeVars
  <2>2. MailStays
    BY <1>1, <2>1, HeldKept
  <2> QED
    BY <1>4, <2>2 DEF Receive, At, On, PTypeOK
<1>5. CASE /\ Begins(m, 1)
           /\ \A n \in Machines : power[n] # "off"
           /\ Send(m, MainThread, Far[m], 0, 1, Data)
  BY <1>2, <1>3, <1>5 DEF TestStatement, Letter
<1>6. CASE Begins(m, 2) /\ Receive(m, MainThread, 0)
  BY <1>2, <1>4, <1>6 DEF TestStatement
<1>7. CASE /\ Begins(m, 3)
           /\ LET in == call[m][MainThread].mail
              IN Send(m, MainThread, in.from, in.reply, 1, Ack)
  <2>1. stage[m] = 2 /\ call[m][MainThread].at = "idle"
    BY <1>2, <1>3, <1>7
  <2>2. call[m][MainThread].mail.from = Far[m] /\ call[m][MainThread].mail.reply = 1
    BY <1>1, <2>1 DEF StageInv
  <2>3. Send(m, MainThread, Far[m], 1, 1, Ack)
    BY <1>7, <2>2
  <2> QED
    BY <1>2, <1>3, <1>7, <2>3 DEF TestStatement, Letter
<1>8. CASE Begins(m, 4) /\ Receive(m, MainThread, 1)
  BY <1>2, <1>4, <1>8 DEF TestStatement
<1>9. CASE Begins(m, 5) /\ Halt(m)
  <2>1. call[m][MainThread].at = "idle" /\ power[m] = "on" /\ Exit(m, "halted")
    BY <1>9 DEF Halt, Back, At, On
  <2>2. MailStays
    BY <1>1, <2>1, ExitDrops
  <2>3. /\ call'[m] = NoCalls /\ power'[m] = "halted"
        /\ \A n \in Machines : n # m => call'[n] = call[n] /\ power'[n] = power[n]
    BY <2>1 DEF Exit, PTypeOK
  <2>4. \A u \in Threads : call'[m][u].at = "idle"
    BY <2>3 DEF NoCalls
  <2> QED
    BY <1>2, <1>9, <2>1, <2>2, <2>3, <2>4 DEF TestStatement
<1> QED
  BY <1>5, <1>6, <1>7, <1>8, <1>9 DEF MailTest

\* At first there is no mail.
LEMMA InitHaltInv == MInit => HaltInv
<1> SUFFICES ASSUME MInit, NEW m \in Machines
             PROVE  StageInv(m) /\ PowerInv(m) /\ MailInv(m)
  BY DEF HaltInv
<1> USE MailTestAssumption DEF MInit, PInit
<1>1. StageInv(m) /\ PowerInv(m)
  BY DEF StageInv, PowerInv, NoCalls
<1>2. Elements(socket[m]) = {} /\ \A box \in Boxes : Elements(boxes[m][box]) = {}
  BY SomeElements DEF EmptyBoxes
<1>5. {inbox[m], worker[m].mail} \ {NoMail} = {}
  BY DEF Waiting
<1>3. Held(m) = {}
  <2> DEFINE U == UNION {Elements(boxes[m][box]) : box \in Boxes}
             hands == {inbox[m], worker[m].mail} \ {NoMail}
  <2>1. U = {}
    <3>1. ASSUME NEW x \in U
          PROVE  FALSE
      <4>1. PICK box \in Boxes : x \in Elements(boxes[m][box])
        OBVIOUS
      <4> QED
        BY <1>2, <4>1
    <3> QED
      BY <3>1
  <2>3. hands = {}
    BY <1>5
  <2>2. Held(m) = Elements(socket[m]) \cup hands \cup U
    BY DEF Held
  <2> HIDE DEF U, hands
  <2> QED
    BY <1>2, <2>1, <2>2, <2>3
<1>4. Sorted(m)
  BY <1>2 DEF Sorted
<1> QED
  BY <1>1, <1>3, <1>4 DEF MailInv

\* Who has acknowledged stays so, and who halts is waited for by nobody.
LEMMA NextKeepsHaltInv ==
    ASSUME MInv, HaltInv, Paired, [MNext]_mvars
    PROVE  HaltInv'
<1> USE MailTestAssumption
<1>1. UNCHANGED program
  BY DEF MNext, mvars, Still, MailTest, Begins, UserAbort, ClientSends, ClientReceives
<1> SUFFICES ASSUME program = "MailTest"
             PROVE  \A m \in Machines : StageInv(m)' /\ PowerInv(m)' /\ MailInv(m)'
  BY <1>1 DEF HaltInv
<1>2. \A n \in Machines : StageInv(n) /\ PowerInv(n) /\ MailInv(n) /\ Far[n] \in Machines
  BY DEF HaltInv
\* Steps that move neither a call nor a statement.
<1>3. ASSUME UNCHANGED << call, stage >>,
             \A n \in Machines : Held(n)' \subseteq Held(n) /\ Sorted(n)',
             \A n \in Machines : power'[n] = power[n] \/ (power[n] = "off" /\ power'[n] = "on")
      PROVE  \A m \in Machines : StageInv(m)' /\ PowerInv(m)' /\ MailInv(m)'
  <2>1. \A n \in Machines : AckSent(n)' = AckSent(n)
    BY <1>3 DEF AckSent
  <2>2. \A n \in Machines : StageInv(n)'
    BY <1>2, <1>3, <2>1 DEF StageInv, Letter
  <2>3. \A n \in Machines : PowerInv(n)'
    BY <1>2, <1>3 DEF PowerInv
  <2>4. \A n \in Machines : MailInv(n)'
    BY <1>2, <1>3, <2>1 DEF MailInv
  <2> QED
    BY <2>2, <2>3, <2>4
<1>4. \A n \in Machines : Held(n) \subseteq Held(n) /\ Sorted(n)
  BY <1>2 DEF MailInv
<1>5. CASE UNCHANGED mvars
  <2>1. UNCHANGED << call, stage, power, socket, inbox, worker, boxes >>
    BY <1>5 DEF mvars, pvars, deviceVars, officeVars
  <2>2. \A n \in Machines : Held(n)' = Held(n) /\ Sorted(n)' = Sorted(n)
    BY <2>1, HeldKept
  <2> QED
    BY <1>3, <1>4, <2>1, <2>2
<1>6. ASSUME NEW m \in Machines, Start(m), Still
      PROVE  \A n \in Machines : StageInv(n)' /\ PowerInv(n)' /\ MailInv(n)'
  <2>1. UNCHANGED << call, stage, socket, inbox, worker, boxes >>
    BY <1>6 DEF Start, Still, deviceVars, officeVars
  <2>2. \A n \in Machines : Held(n)' = Held(n) /\ Sorted(n)' = Sorted(n)
    BY <2>1, HeldKept
  <2>3. \A n \in Machines : power'[n] = power[n] \/ (power[n] = "off" /\ power'[n] = "on")
    BY <1>6 DEF Start, MInv, PInv, PTypeOK
  <2> QED
    BY <1>3, <1>4, <2>1, <2>2, <2>3
<1>7. ASSUME NEW m \in Machines, Background(m), Still
      PROVE  \A n \in Machines : StageInv(n)' /\ PowerInv(n)' /\ MailInv(n)'
  <2>1. UNCHANGED << call, stage, power >>
    BY <1>7 DEF Background, CheckPktAvail, SendDone, PostalDelivery, WorkerWakes, NetworkReceive, Put, Still
  <2>2. \A n \in Machines : Held(n)' \subseteq Held(n) /\ Sorted(n)'
    BY <1>4, <1>7, WorkKeepsHeld DEF MInv
  <2> QED
    BY <1>3, <2>1, <2>2
<1>8. ASSUME NEW m \in Machines, NEW t \in Threads, Inside(m, t), Still
      PROVE  \A n \in Machines : StageInv(n)' /\ PowerInv(n)' /\ MailInv(n)'
  <2> DEFINE c == call[m][MainThread]
             d == call'[m][MainThread]
  <2>1. /\ t = MainThread /\ power[m] = "on" /\ power' = power
        /\ \A n \in Machines : n # m => call'[n] = call[n]
        /\ \A u \in Threads : u # t => call'[m][u] = call[m][u]
        /\ TestStep(m, c, d)
        /\ \A n \in Machines :
             /\ Sorted(n)'
             /\ \A x \in Held(n)' : x \in Held(n) \/ (c.at = "send" /\ x = c.mail /\ x.to = n)
    BY <1>8, TestInside
  <2>2. UNCHANGED stage /\ stage \in [Machines -> 0..5]
    BY <1>8 DEF Still, MInv, TestTypeOK
  <2>3. \A n \in Machines : AckSent(n) => AckSent(n)'
    BY <2>1, <2>2 DEF AckSent, TestStep
  <2> HIDE DEF c, d
  <2>4. ASSUME NEW n \in Machines
        PROVE  MailInv(n)'
    <3>1. ASSUME NEW x \in Held(n)'
          PROVE  x.from = Far[n] /\ x.reply = 1 /\ (x.box = 1 => AckSent(Far[n])')
      <4>1. CASE x \in Held(n)
        BY <1>2, <2>3, <4>1 DEF MailInv
      <4>2. CASE c.at = "send" /\ x = c.mail /\ x.to = n
        <5>1. stage[m] \in {1, 3} /\ Letter(m, x, IF stage[m] = 1 THEN 0 ELSE 1)
          BY <1>2, <2>2, <4>2 DEF StageInv, c
        <5>2. n = Far[m] /\ Far[n] = m
          BY <4>2, <5>1 DEF Letter, Paired
        <5>3. stage[m] = 3 => AckSent(m)'
          BY <2>1, <2>2, <4>2 DEF AckSent, TestStep, d
        <5> QED
          BY <5>1, <5>2, <5>3 DEF Letter
      <4> QED
        BY <2>1, <3>1, <4>1, <4>2
    <3> QED
      BY <2>1, <3>1 DEF MailInv
  <2>5. \A n \in Machines : PowerInv(n)'
    BY <1>2, <2>1, <2>2 DEF PowerInv
  <2>6. ASSUME NEW n \in Machines, n # m
        PROVE  StageInv(n)'
    BY <1>2, <2>1, <2>2, <2>3, <2>6 DEF StageInv, Letter
  <2>7. StageInv(m)'
    <3>1. c.at = "remove" => /\ d.mail.from = Far[m] /\ d.mail.reply = 1
                             /\ c.box = 1 => AckSent(Far[m])
      BY <1>2, <2>1 DEF TestStep, MailInv
    <3>2. StageInv(m) /\ (AckSent(Far[m]) => AckSent(Far[m])')
      BY <1>2, <2>3
    <3>3. stage'[m] = stage[m] /\ stage[m] \in 0..5 /\ c = call[m][MainThread] /\ d = call'[m][MainThread]
      BY <2>2 DEF c, d
    <3>4. CASE stage[m] \in {1, 3}
      BY <2>1, <3>2, <3>3, <3>4 DEF StageInv, TestStep, Letter
    <3>5. CASE stage[m] \in {2, 4}
      BY <2>1, <3>1, <3>2, <3>3, <3>5 DEF StageInv, TestStep
    <3>6. CASE stage[m] \in {0, 5}
      BY <2>1, <3>2, <3>3, <3>6 DEF StageInv, TestStep
    <3> QED
      BY <3>3, <3>4, <3>5, <3>6
  <2> QED
    BY <2>4, <2>5, <2>6, <2>7
<1>9. ASSUME NEW m \in Machines, MailTest(m)
      PROVE  \A n \in Machines : StageInv(n)' /\ PowerInv(n)' /\ MailInv(n)'
  <2> DEFINE c == call[m][MainThread]
             d == call'[m][MainThread]
             s == stage[m]
  <2>1. /\ c.at = "idle" /\ power[m] = "on"
        /\ \A n \in Machines : n # m => /\ call'[n] = call[n]
                                        /\ stage'[n] = stage[n]
                                        /\ power'[n] = power[n]
        /\ \A u \in Threads : u # MainThread => call'[m][u] = call[m][u] \/ call'[m][u].at = "idle"
        /\ stage'[m] = s + 1
        /\ TestStatement(m, s, d)
        /\ power'[m] = IF s = 4 THEN "halted" ELSE "on"
        /\ s = 0 => \A n \in Machines : power[n] # "off"
        /\ \A n \in Machines : Held(n)' \subseteq Held(n) /\ Sorted(n)'
    BY <1>9, TestBegins
  <2>2. s \in 0..4 /\ stage \in [Machines -> 0..5]
    BY <2>1 DEF MInv, TestTypeOK, TestStatement
  <2>3. ASSUME NEW n \in Machines, AckSent(n)
        PROVE  AckSent(n)'
    <3>1. CASE n = m
      <4>1. s \in {3, 4} /\ stage'[m] > 3
        BY <2>1, <2>2, <2>3, <3>1 DEF AckSent
      <4> QED
        BY <3>1, <4>1 DEF AckSent
    <3>2. CASE n # m
      BY <2>1, <2>3, <3>2 DEF AckSent
    <3> QED
      BY <3>1, <3>2
  <2>4. \A n \in Machines : MailInv(n)'
    BY <1>2, <2>1, <2>3 DEF MailInv
  <2>5. ASSUME NEW n \in Machines
        PROVE  PowerInv(n)'
    <3>1. \A k \in Machines : power[k] # "off" => power'[k] # "off"
      BY <2>1
    <3>2. stage'[n] > 0 => \A k \in Machines : power'[k] # "off"
      BY <1>2, <2>1, <2>2, <3>1 DEF PowerInv
    <3>3. power'[n] # "aborted" /\ (power'[n] = "halted" <=> stage'[n] = 5)
      BY <1>2, <2>1, <2>2 DEF PowerInv
    <3>4. \A u \in Threads \ {MainThread} : call'[n][u].at = "idle"
      BY <1>2, <2>1 DEF PowerInv
    <3> QED
      BY <3>2, <3>3, <3>4 DEF PowerInv
  <2>6. ASSUME NEW n \in Machines, n # m
        PROVE  StageInv(n)'
    BY <1>2, <2>1, <2>3, <2>6 DEF StageInv, Letter
  <2>7. StageInv(m)'
    <3>1. s = 4 => AckSent(Far[m])'
      BY <1>2, <2>1, <2>3 DEF StageInv
    <3> QED
      BY <2>1, <2>2, <3>1 DEF StageInv, TestStatement, Letter
  <2> QED
    BY <2>4, <2>5, <2>6, <2>7
<1>10. ASSUME NEW m \in Machines
       PROVE  ~UserAbort(m) /\ \A t \in Threads : ~ClientSends(m, t) /\ ~ClientReceives(m, t)
  BY DEF UserAbort, ClientSends, ClientReceives
<1> QED
  BY <1>5, <1>6, <1>7, <1>8, <1>9, <1>10 DEF MNext

\* When the command lines of the machines name each other, MailTest ends in order on any
\* number of them: nobody mails a machine that has halted, which would abort the sender,
\* and nobody halts before the other has read its mail (nettest.cc:51-71).
THEOREM MailTestHaltsInOrder ==
    ASSUME Paired
    PROVE  MSpec => []HaltsInOrder
<1>1. MInv /\ HaltInv /\ [MNext]_mvars => HaltInv'
  BY NextKeepsHaltInv
<1>2. MInv /\ HaltInv => HaltsInOrder
  BY MailTestAssumption DEF MInv, TestTypeOK, HaltInv, PowerInv, StageInv, AckSent, HaltsInOrder, NeverAborts, HaltMeansRead
<1> QED
  BY <1>1, <1>2, InitHaltInv, MInvAlways, PTL DEF MSpec
=============================================================================
