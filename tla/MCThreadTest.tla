---------------------------- MODULE MCThreadTest ----------------------------
(***************************************************************************)
(* An instance of ThreadTest for TLC.  In the client of the bounded buffer *)
(* each thread always writes, or always reads, one byte or two different   *)
(* ones; on a ring of three, two go over its end in one call.  The keys of *)
(* DLListTest3 put elements at the end, in the middle and at the head, as  *)
(* those of threadtest.cc do, in fewer calls.                              *)
(***************************************************************************)
EXTENDS ThreadTest, TLC

CONSTANTS t1, t2, t3, t4, a, b, x, y

MCMaxSignals == [c \in Conds |-> 2]

MCChunks == {<< a >>, << a, b >>}

MCWrite(n) == [op |-> "write", size |-> n]
MCRead(n) == [op |-> "read", size |-> n]

\* Two writers wait for the room that a reader makes, or two readers for the
\* bytes that are written: with one size for the three threads that run, two bytes or
\* one, and with two.
MCPrograms ==
    {p \in [Threads -> Tasks] :
        /\ p[t4] = MCWrite(1)
        /\ \/ p[Main] = MCWrite(2) /\ {p[t2], p[t3]} = {MCWrite(2), MCRead(2)}
           \/ p[Main] = MCWrite(1) /\ {p[t2], p[t3]} = {MCWrite(1), MCRead(1)}
           \/ p[Main] = MCWrite(1) /\ \E n \in {1, 2} : {p[t2], p[t3]} = {MCRead(n)}}

\* The number of t4 is the largest: it is forked only if there are three.
Numbered == (t2 :> 0) @@ (t3 :> 1) @@ (t4 :> 2)
Alike == (t2 :> 0) @@ (t3 :> 0) @@ (t4 :> 2)

MCRuns ==
    {<< 0, 2, Numbered >>, << 0, 3, Numbered >>, << 3, 2, Numbered >>, << 4, 2, Alike >>,
     << 5, 2, Numbered >>, << 5, 3, Numbered >>, << 6, 2, Alike >>}

MCKeys == (0 :> << 3, 4, 1, 2 >>) @@ (1 :> << 3, 4 >>) @@ (2 :> << 3, 4 >>)

Symm == Permutations({t2, t3}) \cup Permutations(Items)
=============================================================================
