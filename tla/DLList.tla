------------------------------- MODULE DLList -------------------------------
(***************************************************************************)
(* class DLList of threads/dllist.cc: elements linked in both directions,  *)
(* a Lock and a Condition.  Append() and Remove() keep to the monitor.     *)
(* SortedInsert() yields in the middle of its updates in some tests, and   *)
(* returns without Release() when the element does not go to the end.      *)
(* Prepend() and SortedRemove() are called by nobody and left out.         *)
(***************************************************************************)
EXTENDS Monitor

CONSTANTS
    MaxNodes,      \* bound: how many elements the threads allocate in all
    dllistEmpty,   \* DLList::dllistEmpty
    yield_flag     \* the global of threadtest.cc

ASSUME DLListAssumption ==
    /\ dllistEmpty \in Conds
    /\ MaxNodes \in Nat
    /\ NULL \notin 1..MaxNodes
    /\ yield_flag \in BOOLEAN

\* The elements, numbered as they are allocated.
Nodes == 1..MaxNodes

VARIABLES
    first, last,        \* DLList::first and DLList::last
    next, prev, key,    \* DLLElement::next, ::prev and ::key
    allocated,          \* how many elements have been allocated
    freed,              \* the elements that have been deleted
    node,               \* newnode of the Append() or SortedInsert() a thread is
                        \* in, or the element it has removed
    place               \* ptr of that SortedInsert()

links == << first, last, next, prev >>
dllVars == << links, key, allocated, freed, node, place >>

\* dappend    in lock->Acquire() of Append()
\* dlink      the element is linked next
\* dsignal    dllistEmpty->Signal() is next
\* drelease   in Signal(), and then lock->Release() is next
\* dremove    in lock->Acquire() of Remove()
\* dtest      at the while of Remove(), or in the Wait() it guards
\* dremoved   the element is deleted, lock->Release() is next
\* insert     in lock->Acquire() of SortedInsert()
\* search     the place for the element is looked for next
\* head, middle, end   back from Yield(), the rest of the update is next
\* kept       SortedInsert() has returned with the lock
\* again      in lock->Acquire(), called by the thread that has the lock
DLLPoints == {"none", "dappend", "dlink", "dsignal", "drelease",
              "dremove", "dtest", "dremoved",
              "insert", "search", "head", "middle", "end", "kept", "again"}

DLLInit ==
    /\ first = NULL
    /\ last = NULL
    /\ next = [n \in Nodes |-> NULL]
    /\ prev = [n \in Nodes |-> NULL]
    /\ key = [n \in Nodes |-> 0]
    /\ allocated = 0
    /\ freed = {}
    /\ node = [t \in Threads |-> NULL]
    /\ place = [t \in Threads |-> NULL]

IsEmpty == first = NULL /\ last = NULL

\* The k-th element that a walk from first along next meets, as ShowList() and
\* the searches do.
Met[k \in 1..MaxNodes + 1] ==
    IF k = 1 THEN first
    ELSE IF Met[k - 1] = NULL THEN NULL ELSE next[Met[k - 1]]

Chain == [k \in 1..Cardinality({j \in 1..MaxNodes : Met[j] # NULL}) |-> Met[k]]

Listed == {Chain[k] : k \in DOMAIN Chain}

\* new DLLElement(item, k) by t: prev and next are NULL.
NewNode(t, k) ==
    /\ allocated < MaxNodes
    /\ allocated' = allocated + 1
    /\ key' = [key EXCEPT ![allocated + 1] = k]
    /\ node' = [node EXCEPT ![t] = allocated + 1]

\* The element that t works on becomes the only one.
LinkOnly(t) ==
    /\ first' = node[t]
    /\ last' = node[t]
    /\ UNCHANGED << next, prev >>

Forgets(t) == node' = [node EXCEPT ![t] = NULL]

-----------------------------------------------------------------------------
(* DLList::Append.                                                         *)

DAppendCall(t) ==
    /\ Calls(t, "dappend")
    /\ UNCHANGED dllVars

DAppendEnter(t) ==
    /\ Enters(t, "dappend", "dlink")
    /\ NewNode(t, 1)
    /\ UNCHANGED << links, freed, place >>

DAppendLink(t) ==
    /\ Works(t, "dlink", "dsignal")
    /\ \/ IsEmpty /\ LinkOnly(t)
       \/ /\ ~IsEmpty
          /\ next' = [next EXCEPT ![last] = node[t]]
          /\ prev' = [prev EXCEPT ![node[t]] = last]
          /\ last' = node[t]
          /\ UNCHANGED first
    /\ UNCHANGED << key, allocated, freed, node, place >>

DSignal(t) ==
    /\ Signals(t, "dsignal", "drelease", dllistEmpty)
    /\ UNCHANGED dllVars

DSignalReturn(t) ==
    /\ SignalReturns(t, dllistEmpty)
    /\ UNCHANGED dllVars

DReturn(t) ==
    /\ Leaves(t, "drelease") \/ Leaves(t, "dremoved")
    /\ Forgets(t)
    /\ UNCHANGED << links, key, allocated, freed, place >>

-----------------------------------------------------------------------------
(* DLList::Remove.  The prev of the new first element keeps pointing at the *)
(* deleted one.                                                            *)

DRemoveCall(t) ==
    /\ Calls(t, "dremove")
    /\ UNCHANGED dllVars

DRemoveEnter(t) ==
    /\ Enters(t, "dremove", "dtest")
    /\ UNCHANGED dllVars

DRemoveWait(t) ==
    /\ IsEmpty
    /\ InLock(t)
    /\ StartsWait(t, "dtest", dllistEmpty)
    /\ UNCHANGED dllVars

DRemoveWaits(t) ==
    /\ Waits(t, dllistEmpty)
    /\ UNCHANGED dllVars

\* Mutant of DRemoveFirst: last is left alone.
DRemoveFirstOnly(t) ==
    /\ ~IsEmpty
    /\ Works(t, "dtest", "dremoved")
    /\ node' = [node EXCEPT ![t] = first]
    /\ freed' = freed \cup {first}
    /\ first' = next[first]
    /\ UNCHANGED << last, next, prev, key, allocated, place >>

DRemoveFirst(t) ==
    /\ ~IsEmpty
    /\ Works(t, "dtest", "dremoved")
    /\ node' = [node EXCEPT ![t] = first]
    /\ freed' = freed \cup {first}
    /\ IF first = last /\ next[first] = NULL
         THEN first' = NULL /\ last' = NULL
         ELSE first' = next[first] /\ UNCHANGED last
    /\ UNCHANGED << next, prev, key, allocated, place >>

-----------------------------------------------------------------------------
(* DLList::SortedInsert.                                                   *)

InsertCall(t) ==
    /\ Calls(t, "insert")
    /\ UNCHANGED dllVars

InsertEnter(t, k) ==
    /\ Enters(t, "insert", "search")
    /\ NewNode(t, k)
    /\ UNCHANGED << links, freed, place >>

InsertOnly(t) ==
    /\ IsEmpty
    /\ Works(t, "search", "dsignal")
    /\ LinkOnly(t)
    /\ UNCHANGED << key, allocated, freed, node, place >>

\* currentThread->Yield() with the lock held, if the test asks for it.
YieldsIf(t, from, to) ==
    /\ Executing(t)
    /\ Moves(t, from, to)
    /\ IF yield_flag THEN Yield ELSE UNCHANGED kvars
    /\ UNCHANGED << lockKept, condVars >>

\* Each of the three searches ends with the fields of the new element that are
\* assigned before the yield.
SearchHead(t) ==
    /\ YieldsIf(t, "search", "head")
    /\ ~IsEmpty
    /\ key[node[t]] < key[first]
    /\ next' = [next EXCEPT ![node[t]] = first]
    /\ UNCHANGED << first, last, prev, key, allocated, freed, node, place >>

\* The element follows p: the first whose successor has a greater key.
Follows(t, p) ==
    /\ ~IsEmpty
    /\ key[first] <= key[node[t]]
    /\ key[p] <= key[node[t]]
    /\ next[p] # NULL => key[node[t]] < key[next[p]]

SearchMiddle(t, p) ==
    /\ YieldsIf(t, "search", "middle")
    /\ Follows(t, p)
    /\ next[p] # NULL
    /\ next' = [next EXCEPT ![node[t]] = next[p]]
    /\ prev' = [prev EXCEPT ![node[t]] = p]
    /\ place' = [place EXCEPT ![t] = p]
    /\ UNCHANGED << first, last, key, allocated, freed, node >>

SearchEnd(t, p) ==
    /\ YieldsIf(t, "search", "end")
    /\ Follows(t, p)
    /\ next[p] = NULL
    /\ prev' = [prev EXCEPT ![node[t]] = last]
    /\ UNCHANGED << first, last, next, key, allocated, freed, node, place >>

\* The return in the middle of SortedInsert(): no Signal(), no Release().
InsertHead(t) ==
    /\ Works(t, "head", "kept")
    /\ prev' = [prev EXCEPT ![first] = node[t]]
    /\ first' = node[t]
    /\ Forgets(t)
    /\ UNCHANGED << last, next, key, allocated, freed, place >>

InsertMiddle(t) ==
    /\ Works(t, "middle", "kept")
    /\ prev' = [prev EXCEPT ![next[place[t]]] = node[t]]
    /\ next' = [next EXCEPT ![place[t]] = node[t]]
    /\ Forgets(t)
    /\ place' = [place EXCEPT ![t] = NULL]
    /\ UNCHANGED << first, last, key, allocated, freed >>

\* Mutant of InsertEnd: last is not moved.
InsertEndBefore(t) ==
    /\ Works(t, "end", "dsignal")
    /\ next' = [next EXCEPT ![last] = node[t]]
    /\ UNCHANGED << first, last, prev, key, allocated, freed, node, place >>

InsertEnd(t) ==
    /\ Works(t, "end", "dsignal")
    /\ next' = [next EXCEPT ![last] = node[t]]
    /\ last' = node[t]
    /\ UNCHANGED << first, prev, key, allocated, freed, node, place >>

\* The next lock->Acquire() of a thread that has kept the lock: Sema->P().
InsertCallAgain(t) ==
    /\ Moves(t, "kept", "again")
    /\ PEnter(t, mutex)
    /\ UNCHANGED << lockKept, condVars, dllVars >>

InsertSleeps(t) ==
    /\ pc[t] = "again"
    /\ PSleep(t, mutex)
    /\ UNCHANGED << lockKept, condVars, pc, dllVars >>

DLLStep(t) ==
    \/ DAppendEnter(t)
    \/ DAppendLink(t)
    \/ DSignal(t)
    \/ DSignalReturn(t)
    \/ DReturn(t)
    \/ DRemoveEnter(t)
    \/ DRemoveWait(t)
    \/ DRemoveWaits(t)
    \/ DRemoveFirst(t)
    \/ InsertOnly(t)
    \/ SearchHead(t)
    \/ \E p \in Listed : SearchMiddle(t, p) \/ SearchEnd(t, p)
    \/ InsertHead(t)
    \/ InsertMiddle(t)
    \/ InsertEnd(t)
    \/ InsertSleeps(t)

-----------------------------------------------------------------------------
(* Properties.                                                             *)

DLLTypeOK ==
    /\ {first, last} \subseteq Nodes \cup {NULL}
    /\ next \in [Nodes -> Nodes \cup {NULL}]
    /\ prev \in [Nodes -> Nodes \cup {NULL}]
    /\ allocated \in 0..MaxNodes
    /\ freed \subseteq 1..allocated
    /\ node \in [Threads -> Nodes \cup {NULL}]
    /\ place \in [Threads -> Nodes \cup {NULL}]

\* A walk without the lock, as ShowList() makes it, may come while SortedInsert()
\* yields between its assignments: still it ends, at last, meets no deleted
\* element, and meets the keys in order (dllist.cc:84-116, 146-168).
WalkSafe ==
    /\ Met[MaxNodes + 1] = NULL
    /\ IF Chain = << >> THEN last = NULL ELSE last = Chain[Len(Chain)]
    /\ Listed \cap freed = {}
    /\ \A k \in DOMAIN Chain : k > 1 => key[Chain[k - 1]] <= key[Chain[k]]

\* No thread sleeps in Remove() beside an element (dllist.cc:47-78).
NoStrandedDLRemover ==
    mode = "Halted" /\ (\E t \in Threads : pc[t] \in {"dremove", "dtest"}) => IsEmpty
=============================================================================
