-------------------------------- MODULE Shell --------------------------------
(***************************************************************************)
(* The shell (unix/homework/homework_3/shell.c).  It changes directory     *)
(* itself, and forks a process for every other command, which redirects    *)
(* its own input and output, executes the command and is waited for.       *)
(*                                                                         *)
(* What a command does is to write down its arguments and what it reads.   *)
(***************************************************************************)
EXTENDS Integers, Sequences, FiniteSets, SequencesExt

CONSTANTS
    Sessions,       \* what is typed: a sequence of lines, each one of words
    Dirs, Home,
    Commands,       \* the names that can be executed
    Names,          \* the names of files, the same ones in each directory
    None            \* NULL

VARIABLES
    lines,          \* still to be typed
    buf,            \* the words of the line
    argv, rf, wf,
    cwd,
    files,          \* by directory and name: readable, contents; or None
    terminal,       \* what has been written to it
    child,          \* at, stdin, stdout; None if there is none
    shell           \* "prompt", "command", "waitpid", "exit 1", "crash"

shellVars == << lines, buf, argv, rf, wf, cwd, files, terminal, child, shell >>

NoCommand ==
    /\ buf = << >> /\ argv = << >> /\ rf = None /\ wf = None
    /\ cwd = Home
    /\ terminal = << >>
    /\ child = None
    /\ shell = "prompt"

\* One file is there, which can be read; at least one line is typed.
ShellInit ==
    /\ lines \in Sessions
    /\ \E f \in Dirs \X Names :
        files = [g \in Dirs \X Names |->
                   IF g = f THEN [readable |-> TRUE, contents |-> << "old" >>] ELSE None]
    /\ NoCommand

-----------------------------------------------------------------------------

\* The loop of read_from_buf(), a word at a time.
Parse(words) ==
    LET word(s, w) ==
          IF s.type = 1 THEN [s EXCEPT !.rf = w, !.type = 0]
          ELSE IF s.type = 2 THEN [s EXCEPT !.wf = w, !.type = 0]
          ELSE IF w = "<" THEN [s EXCEPT !.type = 1]
          ELSE IF w = ">" THEN [s EXCEPT !.type = 2]
          ELSE [s EXCEPT !.argv = Append(@, w)]
    IN FoldLeft(word, [type |-> 0, argv |-> << >>, rf |-> None, wf |-> None], words)

\* Mutant of ReadFromBuf: rf and wf are not reset.
ReadFromBufStale(words) ==
    /\ buf' = words
    /\ argv' = Parse(words).argv
    /\ rf' = IF Parse(words).rf = None THEN rf ELSE Parse(words).rf
    /\ wf' = IF Parse(words).wf = None THEN wf ELSE Parse(words).wf

ReadFromBuf(words) ==
    /\ buf' = words
    /\ argv' = Parse(words).argv
    /\ rf' = Parse(words).rf
    /\ wf' = Parse(words).wf

\* At the end of the input buf is what strtok() has left of the last line.
\* argv[0] is compared without a test for NULL.
ReadLine ==
    /\ shell = "prompt"
    /\ ReadFromBuf(IF lines = << >> THEN << Head(buf) >> ELSE Head(lines))
    /\ lines' = IF lines = << >> THEN lines ELSE Tail(lines)
    /\ shell' = IF argv' = << >> THEN "crash" ELSE "command"
    /\ UNCHANGED << cwd, files, terminal, child >>

BuiltIn(name) == shell = "command" /\ argv[1] = name

Cd ==
    /\ BuiltIn("cd")
    /\ LET dir == IF Len(argv) = 1 \/ argv[2] = "~" THEN Home ELSE argv[2]
       IN IF dir \in Dirs THEN cwd' = dir /\ shell' = "prompt"
          ELSE UNCHANGED cwd /\ shell' = "exit 1"
    /\ UNCHANGED << lines, buf, argv, rf, wf, files, terminal, child >>

Pwd ==
    /\ BuiltIn("pwd")
    /\ terminal' = Append(terminal, << cwd >>)
    /\ shell' = "prompt"
    /\ UNCHANGED << lines, buf, argv, rf, wf, cwd, files, child >>

\* fork() may fail.
ForkCommand ==
    /\ shell = "command" /\ argv[1] \notin {"cd", "pwd"}
    /\ \/ /\ child' = [at |-> "redirect", stdin |-> None, stdout |-> None]
          /\ shell' = "waitpid"
       \/ UNCHANGED child /\ shell' = "exit 1"
    /\ UNCHANGED << lines, buf, argv, rf, wf, cwd, files, terminal >>

\* The mode 644 has no 0: the file that is made can only be written by its owner.
Opened(file) ==
    IF file = None THEN [readable |-> FALSE, contents |-> << >>] ELSE [file EXCEPT !.contents = << >>]

\* redirect(): a child that cannot open one of the files exits.
Redirect ==
    /\ child # None /\ child.at = "redirect"
    /\ LET in == << cwd, rf >>
           out == << cwd, wf >>
           unreadable == rf # None /\ (in \notin DOMAIN files \/ files[in] = None \/ ~files[in].readable)
           unwritable == wf # None /\ out \notin DOMAIN files
       IN IF unreadable \/ unwritable
            THEN child' = [child EXCEPT !.at = "exited"] /\ UNCHANGED files
          ELSE /\ child' = [at |-> "execve", stdin |-> IF rf = None THEN None ELSE in,
                            stdout |-> IF wf = None THEN None ELSE out]
               /\ files' = IF wf = None THEN files ELSE [files EXCEPT ![out] = Opened(@)]
    /\ UNCHANGED << lines, buf, argv, rf, wf, cwd, terminal, shell >>

\* What a command writes; None is the terminal.
Written(args, input) == << args, IF input = None THEN << >> ELSE files[input].contents >>

Execve ==
    /\ child # None /\ child.at = "execve"
    /\ LET w == Written(argv, child.stdin) IN
       IF argv[1] \notin Commands THEN UNCHANGED << files, terminal >>
       ELSE IF child.stdout = None THEN terminal' = Append(terminal, w) /\ UNCHANGED files
       ELSE files' = [files EXCEPT ![child.stdout].contents = Append(@, w)] /\ UNCHANGED terminal
    /\ child' = [child EXCEPT !.at = "exited"]
    /\ UNCHANGED << lines, buf, argv, rf, wf, cwd, shell >>

WaitPid ==
    /\ shell = "waitpid" /\ child.at = "exited"
    /\ child' = None
    /\ shell' = "prompt"
    /\ UNCHANGED << lines, buf, argv, rf, wf, cwd, files, terminal >>

\* Bound: after the end of the input the last command is repeated for ever.
LastTerminal == 4

ShellNext ==
    \/ ReadLine /\ Len(terminal) < LastTerminal
    \/ Cd \/ Pwd \/ ForkCommand \/ Redirect \/ Execve \/ WaitPid

-----------------------------------------------------------------------------
(* Properties.                                                             *)

\* The words of the line in buf that are operators, their files, and the others.
Operators ==
    LET upTo[n \in Nat] ==
          IF n = 0 THEN {}
          ELSE IF buf[n] \in {"<", ">"} /\ n - 1 \notin upTo[n - 1] THEN upTo[n - 1] \cup {n}
          ELSE upTo[n - 1]
    IN upTo[Len(buf)]
Targets(op) == {n \in 2..Len(buf) : n - 1 \in Operators /\ buf[n - 1] = op}
Plainly == {n \in 1..Len(buf) : n \notin Operators /\ n - 1 \notin Operators}
File(op) == IF Targets(op) = {} THEN None ELSE << cwd, buf[Max(Targets(op))] >>

\* What a command writes goes to where the last ">" of its own line says, in the
\* directory of the last cd, and has the words of this line and what is in the
\* file after its last "<", which is empty if it is the same one; nothing else
\* changes.  So nothing is left of an earlier line, in argv, rf, wf or a
\* redirection (shell.c:27-51, 86-88, 111-115).
CommandAsTyped ==
    [][ terminal' # terminal \/ files' # files =>
          \/ BuiltIn("pwd") /\ terminal' = Append(terminal, << cwd >>) /\ files' = files
          \/ /\ child.at = "redirect"
             /\ terminal' = terminal
             /\ File(">") # None
             /\ files' = [files EXCEPT ![File(">")] = files'[File(">")]]
             /\ files'[File(">")].contents = << >>
          \/ LET words == [n \in 1..Cardinality(Plainly) |->
                             buf[CHOOSE k \in Plainly : Cardinality({j \in Plainly : j <= k}) = n]]
                 w == Written(words, File("<"))
             IN /\ child.at = "execve"
                /\ IF File(">") = None
                     THEN terminal' = Append(terminal, w) /\ files' = files
                   ELSE /\ terminal' = terminal
                        /\ files' = [files EXCEPT ![File(">")].contents = << w >>] ]_shellVars
=============================================================================
