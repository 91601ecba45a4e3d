---------------------------- MODULE ThreadTest ----------------------------
(***************************************************************************)
(* ThreadTest() of threads/threadtest.cc: the main thread forks threads    *)
(* that use one of the shared classes, chosen by testnum.  Only the object *)
(* of the chosen class is used: mutex stands for its lock.                 *)
(*                                                                         *)
(* SynchTest and BoundedBufferTest, tests 4 and 6, are replaced by clients *)
(* that call the same operations in any order and number.  The bodies of    *)
(* tests 1 and 2 are commented out in dllist-driver.cc.                    *)
(***************************************************************************)
EXTENDS SynchList, BoundedBuffer, Table, DLList

CONSTANTS
    oprnum,     \* the global of threadtest.cc
    Runs,       \* testnum and threadnum, set by the command line, and the numbers
                \* of the threads
    Keys        \* what InsertItem() is called with in DLListTest3, by thread number

Tested == Threads \ {Main}

\* ASSERT(oprnum <= table->getSize()), and at least one operation.
ASSUME ThreadTestAssumption ==
    /\ oprnum \in 1..TableSize
    /\ Runs \subseteq {0, 3, 4, 5, 6} \X (1..Cardinality(Tested))
                       \X [Tested -> 0..Cardinality(Tested) - 1]
    /\ \A r \in Runs : r[1] \in {0, 3, 5} => IsInjective(r[3])
    /\ Keys \in [0..Cardinality(Tested) - 1 -> Seq(Int)]

VARIABLES
    testnum,    \* the global of threadtest.cc: never changes
    threadnum,  \* the global of threadtest.cc: never changes
    which,      \* the argument of each forked thread: never changes; in tests 4 and
                \* 6, whose threads all do the same, it only says which are forked
    step        \* how many operations the thread has called in its test

listVars == << list, item >>
ringVars == << bufferVars, data, size, program >>
testVars == << testnum, threadnum, which, step >>
tvars == << mvars, listVars, ringVars, tableVars, dllVars, testVars >>

TInit ==
    /\ SInit
    /\ BInit
    /\ TableInit
    /\ DLLInit
    /\ \E r \in Runs : testnum = r[1] /\ threadnum = r[2] /\ which = r[3]
    /\ program \in IF testnum = 6 THEN Programs ELSE {[t \in Threads |-> NULL]}
    /\ step = [t \in Threads |-> 0]

\* The thread calls its next operation.
NextCall(t) ==
    /\ step' = [step EXCEPT ![t] = @ + 1]
    /\ UNCHANGED << testnum, threadnum, which >>

-----------------------------------------------------------------------------
(* The tests.                                                              *)

\* DLListTest: the even threads remove and append, the odd ones append, yield
\* and remove.
DLListTest(t) ==
    \/ /\ step[t] = (which[t] % 2)
       /\ DRemoveCall(t)
       /\ NextCall(t)
    \/ /\ step[t] = 1 - (which[t] % 2)
       /\ DAppendCall(t)
       /\ NextCall(t)
    \/ DLLStep(t) /\ UNCHANGED testVars

\* DLListTest3: every thread inserts its keys.  PrintList(), which walks without
\* the lock, may come at any moment (see WalkSafe).
DLListTest3(t) ==
    \/ /\ step[t] < Len(Keys[which[t]])
       /\ InsertCall(t) \/ InsertCallAgain(t)
       /\ NextCall(t)
    \/ InsertEnter(t, Keys[which[t]][step[t]]) /\ UNCHANGED testVars
    \/ DLLStep(t) /\ UNCHANGED testVars

\* TableTest: the odd threads allocate, the even ones release places 0, 1, ...
TableTest(t) ==
    \/ /\ step[t] < oprnum
       /\ IF (which[t] % 2) = 1 THEN AllocCall(t) ELSE ReleaseCall(t, step[t])
       /\ NextCall(t)
    \/ TableStep(t) /\ UNCHANGED testVars

\* How many operations a thread calls.
Calling(t) ==
    CASE testnum = 0 -> 2
      [] testnum = 3 -> Len(Keys[which[t]])
      [] testnum = 5 -> oprnum

\* The yield of DLListTest, and the end of a test; a thread that has kept the
\* lock ends too.
TestedRest(t) ==
    /\ pc[t] \in {"none", "kept"}
    /\ Executing(t)
    /\ \/ testnum = 0 /\ (which[t] % 2) = 1 /\ step[t] = 1 /\ Yield
       \/ step[t] = Calling(t) /\ Finish
    /\ UNCHANGED << lockKept, condVars, pc >>

\* The threads that toDLListTest() forks.
Forked == {t \in Tested : which[t] < threadnum}

NoOtherForked == \A t \in Tested \ Forked : status'[t] = "JUST_CREATED"

\* toDLListTest() forks the threads in the order of their numbers; then main()
\* calls Finish().
MainStep ==
    /\ Executing(Main)
    /\ \/ \E t \in Forked :
            /\ \A u \in Tested : which[u] < which[t] => status[u] # "JUST_CREATED"
            /\ Fork(t)
       \/ (\A u \in Forked : status[u] # "JUST_CREATED") /\ Finish
    /\ UNCHANGED << lockKept, condVars, pc >>

\* What the three tests have in common.
ScriptRest ==
    \/ \E t \in Tested : Acquiring(t) \/ TestedRest(t)
    \/ MainStep
    \/ MMachineStep

TNext ==
    \/ /\ testnum = 0
       /\ \/ \E t \in Tested : DLListTest(t)
          \/ ScriptRest /\ UNCHANGED << dllVars, testVars >>
       /\ UNCHANGED << listVars, ringVars, tableVars >>
    \/ /\ testnum = 3
       /\ \/ \E t \in Tested : DLListTest3(t)
          \/ ScriptRest /\ UNCHANGED << dllVars, testVars >>
       /\ UNCHANGED << listVars, ringVars, tableVars >>
    \/ /\ testnum = 4
       /\ SNext /\ NoOtherForked
       /\ UNCHANGED << ringVars, tableVars, dllVars, testVars >>
    \/ /\ testnum = 5
       /\ \/ \E t \in Tested : TableTest(t)
          \/ ScriptRest /\ UNCHANGED << tableVars, testVars >>
       /\ UNCHANGED << listVars, ringVars, dllVars >>
    \/ /\ testnum = 6
       /\ BNext /\ NoOtherForked
       /\ UNCHANGED << listVars, tableVars, dllVars, testVars >>

TSpec == TInit /\ [][TNext]_tvars

-----------------------------------------------------------------------------
(* Properties; those of one class are in its module.                       *)

TTypeOK ==
    /\ CTypeOK
    /\ pc \in [Threads -> ListPoints \cup BufferPoints \cup TablePoints \cup DLLPoints]
    /\ STypeOK
    /\ BTypeOK
    /\ TableTypeOK
    /\ DLLTypeOK
    /\ step \in [Threads -> Nat]

\* The types, the counters of the two arrays with what is in them, and the links
\* of the doubly linked list.
TConsistent == TTypeOK /\ RingConsistent /\ CountExact /\ WalkSafe

\* When the machine halts a thread left in Table::Release() waits for a place
\* that is free: with one thread releasing no signal goes to the wrong waiter
\* (Table.cc:38-46).  With two it may, and the other one is left asleep beside
\* its object.
NoStrandedReleaser ==
    mode = "Halted" /\ Cardinality({t \in Forked : which[t] % 2 = 0}) = 1 =>
        \A t \in Threads : pc[t] \in {"release", "occupied"} => ~tableBase[index[t]]

\* When the machine halts nobody is left asleep beside what it waits for.
NobodyStranded ==
    /\ NoStrandedRemover
    /\ NoStrandedThread
    /\ NoStrandedReleaser
    /\ NoStrandedDLRemover

\* DLList with Append() and Remove() implements the abstract queue: an element
\* is removed once, and in the order of the appends (dllist.cc:47-78).
DLLQueue == INSTANCE AbstractQueue WITH
    Items <- Nodes,
    contents <- IF testnum = 0 THEN Chain ELSE << >>,
    item <- IF testnum = 0 THEN node ELSE [t \in Threads |-> NULL],
    asked <- [t \in Threads |->
                CASE testnum # 0 -> "none"
                  [] testnum = 0 /\ pc[t] = "dlink" -> "append"
                  [] testnum = 0 /\ pc[t] \in {"dsignal", "drelease", "dremoved"} -> "done"
                  [] testnum = 0 /\ pc[t] \in {"dremove", "dtest"} -> "remove"
                  [] OTHER -> "none"]

DLListIsQueue == DLLQueue!ASpec
=============================================================================
