------------------------------- MODULE Table -------------------------------
(***************************************************************************)
(* class Table of threads/Table.cc: a fixed number of places, a Lock, and  *)
(* one Condition for all the threads that wait to release some place.      *)
(***************************************************************************)
EXTENDS Monitor

CONSTANTS
    TableSize,     \* Table::TableSize
    tableEmpty     \* Table::tableEmpty

ASSUME TableAssumption ==
    /\ tableEmpty \in Conds
    /\ TableSize \in Nat \ {0}

VARIABLES
    tableBase,     \* Table::tableBase: TRUE where the pointer is not NULL
    cnt,           \* Table::cnt
    index          \* the argument of the Release() a thread is in

tableVars == << tableBase, cnt, index >>

\* alloc      in lock->Acquire() of Alloc()
\* find       at the search for a free place
\* placed     the place is taken, tableEmpty->Signal() is next
\* posted     in Signal(), and then lock->Release() is next
\* release    in lock->Acquire() of Release()
\* occupied   at the while of Release(), or in the Wait() it guards
\* cleared    the place is free, lock->Release() is next
TablePoints == {"none", "alloc", "find", "placed", "posted",
                "release", "occupied", "cleared"}

TableInit ==
    /\ tableBase = [i \in 0..TableSize - 1 |-> FALSE]
    /\ cnt = 0
    /\ index = [t \in Threads |-> 0]

Used == {i \in DOMAIN tableBase : tableBase[i]}

-----------------------------------------------------------------------------
(* Table::Alloc.                                                           *)

AllocCall(t) ==
    /\ Calls(t, "alloc")
    /\ UNCHANGED tableVars

AllocEnter(t) ==
    /\ Enters(t, "alloc", "find")
    /\ UNCHANGED tableVars

\* The first free place.  With none the ASSERT ends the program.
AllocPlace(t) ==
    /\ Works(t, "find", "placed")
    /\ \E i \in DOMAIN tableBase \ Used :
         /\ \A j \in DOMAIN tableBase : j < i => tableBase[j]
         /\ tableBase' = [tableBase EXCEPT ![i] = TRUE]
    /\ cnt' = cnt + 1
    /\ UNCHANGED index

AllocSignal(t) ==
    /\ Signals(t, "placed", "posted", tableEmpty)
    /\ UNCHANGED tableVars

AllocSignalReturn(t) ==
    /\ SignalReturns(t, tableEmpty)
    /\ UNCHANGED tableVars

AllocReturn(t) ==
    /\ Leaves(t, "posted")
    /\ UNCHANGED tableVars

-----------------------------------------------------------------------------
(* Table::Release.                                                         *)

ReleaseCall(t, i) ==
    /\ Calls(t, "release")
    /\ index' = [index EXCEPT ![t] = i]
    /\ UNCHANGED << tableBase, cnt >>

ReleaseEnter(t) ==
    /\ Enters(t, "release", "occupied")
    /\ UNCHANGED tableVars

ReleaseWait(t) ==
    /\ ~tableBase[index[t]]
    /\ InLock(t)
    /\ StartsWait(t, "occupied", tableEmpty)
    /\ UNCHANGED tableVars

ReleaseWaits(t) ==
    /\ Waits(t, tableEmpty)
    /\ UNCHANGED tableVars

ReleasePlace(t) ==
    /\ tableBase[index[t]]
    /\ Works(t, "occupied", "cleared")
    /\ tableBase' = [tableBase EXCEPT ![index[t]] = FALSE]
    /\ cnt' = cnt - 1
    /\ UNCHANGED index

ReleaseReturn(t) ==
    /\ Leaves(t, "cleared")
    /\ UNCHANGED tableVars

TableStep(t) ==
    \/ AllocEnter(t)
    \/ AllocPlace(t)
    \/ AllocSignal(t)
    \/ AllocSignalReturn(t)
    \/ AllocReturn(t)
    \/ ReleaseEnter(t)
    \/ ReleaseWait(t)
    \/ ReleaseWaits(t)
    \/ ReleasePlace(t)
    \/ ReleaseReturn(t)

-----------------------------------------------------------------------------
(* Properties.                                                             *)

TableTypeOK ==
    /\ tableBase \in [0..TableSize - 1 -> BOOLEAN]
    /\ cnt \in 0..TableSize
    /\ index \in [Threads -> 0..TableSize - 1]

\* cnt counts the places in use, although every wakeup is for any place and the
\* woken thread may find its own still free (Table.cc:33-47).
CountExact == cnt = Cardinality(Used)

=============================================================================
