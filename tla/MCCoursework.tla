----------------------------- MODULE MCCoursework ---------------------------
(***************************************************************************)
(* The course programs that are several processes: the dining philosophers,*)
(* the echo servers and the shell.  A behaviour is one of one of them.     *)
(***************************************************************************)
EXTENDS Philosophers, Echo, Shell

VARIABLE running

courseVars == << running, vars, echoVars, shellVars >>

AnyScript == CHOOSE s \in Scripts : TRUE
AnySession == CHOOSE s \in Sessions : TRUE
AnyFiles == CHOOSE f \in [Dirs \X Names -> {None}] : TRUE

\* The arguments of the program that does not run do not matter.
CourseInit ==
    /\ running \in {"philosophers", "echo", "shell"}
    /\ IF running = "philosophers" THEN Init
       ELSE forks = {} /\ cleared = 0 /\ parent = "initlock" /\ children = 0
              /\ at = [i \in Phil |-> "unborn"]
    /\ IF running = "echo" THEN EchoInit
       ELSE server = "server" /\ script = AnyScript /\ Listening
    /\ IF running = "shell" THEN ShellInit
       ELSE lines = AnySession /\ files = AnyFiles /\ NoCommand

Dining(A) == running = "philosophers" /\ A /\ UNCHANGED << running, echoVars, shellVars >>
Echoing(A) == running = "echo" /\ A /\ UNCHANGED << running, vars, shellVars >>

CourseNext ==
    \/ Dining(Next)
    \/ Echoing(EchoNext)
    \/ running = "shell" /\ ShellNext /\ UNCHANGED << running, vars, echoVars >>

\* The host lets every process run, and the users type on.
CourseSpec ==
    /\ CourseInit /\ [][CourseNext]_courseVars
    /\ WF_courseVars(Dining(InitLock))
    /\ \A i \in Phil : WF_courseVars(Dining(Philosopher(i)))
    /\ \A c \in Clients : WF_courseVars(Echoing(ClientStep(c)))
    /\ \A p \in Processes : WF_courseVars(Echoing(ServerStep(p)))

-----------------------------------------------------------------------------
(* Values for TLC.  For the echo pair "bye\n" is two bytes, and recv_msg has*)
(* room for three, so that it holds a line and a part of the next one.  The*)
(* shell is given a session of lines, as words; the names that are not in  *)
(* Names are arguments or names that cannot be opened.                     *)

CONSTANTS c1, c2

MCBye == << "bye", "nl" >>
Short(b) == << b, "nl" >>

\* The users say bye, or only one of them does, or one of them types a line that
\* fills recv_msg or that ends in "bye".
MCScripts ==
    { c1 :> a @@ c2 :> b :
        a \in { << Short("x"), MCBye >>, << Short("x") >>,
                << << "x", "y", "nl" >>, MCBye >>, << << "x" >> \o MCBye, MCBye >> },
        b \in { << Short("z"), MCBye >> } }

CONSTANT Nothing

\* Every pair of these lines, and some longer sessions.
Typed ==
    { << "cat" >>, << "cat", "x" >>, << "cat", "<", "f" >>, << "cat", ">", "g" >>,
      << "cat", "<", "f", "a", ">", "f" >>, << "<", "g", "cat", ">", "f", ">", "g" >>,
      << "cat", "<", ">" >>, << "cat", ">" >>, << "none", ">", "f" >>, << "cat", ">", "a/b" >>,
      << "cd" >>, << "cd", "~" >>, << "cd", "tmp" >>, << "cd", "none" >>, << "pwd", ">", "f" >>,
      << >>, << ">", "f" >> }

MCSessions ==
    {<< a, b >> : a \in Typed, b \in Typed}
    \cup {<< << "cat", ">", "g" >>, << "cd", "tmp" >>, a, << "cd" >>, << "cat", "<", "g" >> >> : a \in Typed}
=============================================================================
