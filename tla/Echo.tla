-------------------------------- MODULE Echo --------------------------------
(***************************************************************************)
(* The echo servers and their client (cn/homework/3): server.c talks to    *)
(* one client at a time, server1.c forks a process for each.  A client     *)
(* sends a line and waits for an answer, until it has sent "bye".          *)
(*                                                                         *)
(* A TCP connection is two sequences of bytes.  recv() takes some of what  *)
(* has come, not always a line, and not always only one.                   *)
(***************************************************************************)
EXTENDS Integers, Sequences, FiniteSets, SequencesExt

CONSTANTS
    Clients,
    Processes,      \* for server1: as many as fork() may give
    Scripts,        \* what the users type: a sequence of lines for each client
    Bye,            \* "bye\n"
    Junk,           \* a byte that follows recv_msg in the memory
    RecvSize        \* sizeof(recv_msg), 255

Bytes == UNION {UNION {Range(line) : line \in Range(s[c])} : s \in Scripts, c \in Clients}

ASSUME EchoAssumption ==
    /\ Processes # {}
    /\ RecvSize \in Nat \ {0}
    /\ Scripts \subseteq [Clients -> Seq(Seq(Bytes))]
    /\ Junk \notin Bytes

VARIABLES
    server,     \* "server" or "server1"
    script,     \* what this user types
    client,     \* "connect", "send", "recv", or how it ended
    typed,      \* the number of lines read by fgets()
    got,        \* everything a client has received
    conn,       \* the connections
    proc        \* the server's processes

echoVars == << server, script, client, typed, got, conn, proc >>

\* up and down are on their way to the server and to the client; reset is set
\* when the next send() of an end gets SIGPIPE.
NoConnection == [state |-> "none", up |-> << >>, down |-> << >>, reset |-> FALSE]

Absence == [at |-> "none", peer |-> "none", recv_msg |-> << >>]
Accepting == [Absence EXCEPT !.at = "accept"]
Talking(c) == [Absence EXCEPT !.at = "recv", !.peer = c]

TheFirst == CHOOSE p \in Processes : TRUE

Listening ==
    /\ client = [c \in Clients |-> "connect"]
    /\ typed = [c \in Clients |-> 0]
    /\ got = [c \in Clients |-> << >>]
    /\ conn = [c \in Clients |-> NoConnection]
    /\ proc = [p \in Processes |-> IF p = TheFirst THEN Accepting ELSE Absence]

EchoInit ==
    /\ server \in {"server", "server1"}
    /\ script \in Scripts
    /\ Listening

Ended(c) == client[c] \in {"done", "killed", "refused"}
Alive == {p \in Processes : proc[p].at \notin {"none", "failed", "killed"}}
Queued == {c \in Clients : conn[c].state = "queued"}

\* listen(): one more connection than the backlog is completed.
Backlog == IF server = "server" THEN 1 ELSE 0

-----------------------------------------------------------------------------
(* The client.                                                             *)

Connect(c) ==
    /\ client[c] = "connect"
    /\ IF Alive = {} THEN client' = [client EXCEPT ![c] = "refused"] /\ UNCHANGED conn
       ELSE /\ Cardinality(Queued) <= Backlog
            /\ client' = [client EXCEPT ![c] = "send"]
            /\ conn' = [conn EXCEPT ![c].state = "queued"]
    /\ UNCHANGED << server, script, typed, got, proc >>

\* fgets() leaves send_msg empty at the end of the input.
Line(c) == IF typed[c] < Len(script[c]) THEN script[c][typed[c] + 1] ELSE << >>

\* send(), and the end of the loop.  What is sent to a closed connection is
\* answered by a reset; the next send() kills the client.
ClientSend(c) ==
    /\ client[c] = "send"
    /\ LET shut == conn[c].state = "closed"
           broken == shut /\ conn[c].reset
           leaves == Line(c) = Bye \/ broken
       IN /\ conn' = [conn EXCEPT
                       ![c].up = IF shut THEN @ ELSE @ \o Line(c),
                       ![c].reset = @ \/ (shut /\ Line(c) # << >>) \/ (leaves /\ conn[c].down # << >>)]
          /\ client' = [client EXCEPT ![c] =
                          IF broken THEN "killed" ELSE IF leaves THEN "done" ELSE "recv"]
    /\ typed' = [typed EXCEPT ![c] = IF @ < Len(script[c]) THEN @ + 1 ELSE @]
    /\ UNCHANGED << server, script, got, proc >>

\* recv() returns nothing once the server has closed the connection.
ClientRecv(c) ==
    /\ client[c] = "recv"
    /\ \/ \E n \in 1..Len(conn[c].down) :
            /\ got' = [got EXCEPT ![c] = @ \o SubSeq(conn[c].down, 1, n)]
            /\ conn' = [conn EXCEPT ![c].down = SubSeq(@, n + 1, Len(@))]
       \/ /\ conn[c].down = << >> /\ conn[c].state = "closed"
          /\ UNCHANGED << got, conn >>
    /\ client' = [client EXCEPT ![c] = "send"]
    /\ UNCHANGED << server, script, typed, proc >>

\* The user interrupts the client.
Interrupted(c) ==
    /\ client[c] \in {"send", "recv"}
    /\ client' = [client EXCEPT ![c] = "killed"]
    /\ conn' = [conn EXCEPT ![c].reset = @ \/ conn[c].down # << >>]
    /\ UNCHANGED << server, script, typed, got, proc >>

-----------------------------------------------------------------------------
(* The servers.                                                            *)

\* Process p ends ("failed" or "killed"), and its end of the connection to c is
\* closed; with the last process those that wait are closed too.
Exits(p, c, how) ==
    /\ proc' = [proc EXCEPT ![p] = [Absence EXCEPT !.at = how]]
    /\ conn' = [d \in Clients |->
                  IF d = c \/ (Alive = {p} /\ d \in Queued)
                    THEN [conn[d] EXCEPT !.state = "closed", !.reset = conn[d].up # << >>]
                  ELSE conn[d]]

\* Mutant of Forks: server1 talks to the client itself.
ForksNever == FALSE

Forks == server = "server1"

\* accept(), and in server1 the fork() and the close() of the parent.
Accept(p) ==
    /\ proc[p].at = "accept"
    /\ \E c \in Queued :
        /\ conn' = [conn EXCEPT ![c].state = "open"]
        /\ IF Forks
             THEN \E child \in {q \in Processes : proc[q].at = "none"} :
                    proc' = [proc EXCEPT ![child] = Talking(c)]
           ELSE proc' = [proc EXCEPT ![p] = Talking(c)]
    /\ UNCHANGED << server, script, client, typed, got >>

ForkError(p) ==
    /\ proc[p].at = "accept"
    /\ Forks
    /\ \E c \in Queued : Exits(p, c, "failed")
    /\ UNCHANGED << server, script, client, typed, got >>

\* Mutant of Received: without memset the rest of the last message is still there.
ReceivedOver(p, bytes) ==
    bytes \o SubSeq(proc[p].recv_msg, Len(bytes) + 1, Len(proc[p].recv_msg))

Received(p, bytes) == bytes

\* recv(), and the comparison with "bye": then both servers go back to accept(),
\* the process that server1 has forked too.
ServerRecv(p) ==
    /\ proc[p].at = "recv"
    /\ LET c == proc[p].peer
           up == conn[c].up
           after(n) ==
             LET msg == Received(p, SubSeq(up, 1, n))
                 rest == SubSeq(up, n + 1, Len(up))
             IN IF msg = Bye
                  THEN /\ proc' = [proc EXCEPT ![p] = Accepting]
                       /\ conn' = [conn EXCEPT ![c].up = << >>, ![c].state = "closed",
                                               ![c].reset = rest # << >>]
                ELSE /\ proc' = [proc EXCEPT ![p].at = "send", ![p].recv_msg = msg]
                     /\ conn' = [conn EXCEPT ![c].up = rest]
       IN \/ \E n \in 1..Len(up) : n <= RecvSize /\ after(n)
          \/ up = << >> /\ Ended(c) /\ after(0)
    /\ UNCHANGED << server, script, client, typed, got >>

\* send() of strlen(recv_msg) bytes: a full recv_msg has no terminator.
Echoed(msg) == IF Len(msg) < RecvSize THEN {msg} ELSE {msg, Append(msg, Junk)}

ServerSend(p) ==
    /\ proc[p].at = "send"
    /\ LET c == proc[p].peer IN
       \E text \in Echoed(proc[p].recv_msg) :
          IF Ended(c) /\ conn[c].reset THEN Exits(p, c, "killed")
          ELSE /\ proc' = [proc EXCEPT ![p].at = "recv"]
               /\ conn' = IF Ended(c) THEN [conn EXCEPT ![c].reset = text # << >>]
                          ELSE [conn EXCEPT ![c].down = @ \o text]
    /\ UNCHANGED << server, script, client, typed, got >>

ClientStep(c) == Connect(c) \/ ClientSend(c) \/ ClientRecv(c)
ServerStep(p) == Accept(p) \/ ServerRecv(p) \/ ServerSend(p)

EchoNext ==
    \/ \E c \in Clients : ClientStep(c) \/ Interrupted(c)
    \/ \E p \in Processes : ServerStep(p) \/ ForkError(p)

EchoSpec == EchoInit /\ [][EchoNext]_echoVars

-----------------------------------------------------------------------------
(* Properties.                                                             *)

Said(c) == FlattenSeq(SubSeq(script[c], 1, typed[c]))

\* What has come of the messages themselves.
WithoutJunk(bytes) ==
    LET upTo[n \in 0..Len(bytes)] ==
          IF n = 0 THEN << >>
          ELSE IF bytes[n] = Junk THEN upTo[n - 1] ELSE Append(upTo[n - 1], bytes[n])
    IN upTo[Len(bytes)]

\* The processes that have the connection to c, and the message they have read
\* and not answered.
TalkingTo(c) == {p \in Processes : proc[p].at \in {"recv", "send"} /\ proc[p].peer = c}
InHand(c) ==
    LET busy == {p \in TalkingTo(c) : proc[p].at = "send"}
    IN IF busy = {} THEN << >> ELSE proc[CHOOSE p \in busy : TRUE].recv_msg

\* While both ends are open the connection has one process, and everything the
\* client has said is, once and in its order, with the client again or on the
\* way, and nothing else is: no other client's words and none of an earlier
\* message, in whatever pieces recv() takes it.  Only what follows a full
\* recv_msg in the memory may have come with it (server.c:51-63).
EchoesExact ==
    \A c \in Clients : ~Ended(c) /\ conn[c].state \in {"queued", "open"} =>
        /\ Cardinality(TalkingTo(c)) = IF conn[c].state = "open" THEN 1 ELSE 0
        /\ Said(c) = WithoutJunk(got[c] \o conn[c].down) \o InHand(c) \o conn[c].up

\* A client of server1 whose user says bye comes to its end, whatever the others
\* do: they may be interrupted, never say bye, or leave a process behind that
\* reads nothing for ever.  Only a failing fork() can prevent it
\* (server1.c:45-76).
ClientsComeToEnd ==
    \A c \in Clients :
        []( server = "server1" /\ Bye \in Range(script[c]) =>
              <>(Ended(c) \/ \E p \in Processes : proc[p].at = "failed") )
=============================================================================
