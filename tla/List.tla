-------------------------------- MODULE List --------------------------------
(***************************************************************************)
(* class List (threads/list.cc): ListElements linked by next, with         *)
(* pointers to the first and to the last one.  All the queues of the       *)
(* kernel are such lists, and the pending interrupts are a sorted one; the *)
(* modules about them have the sequence that List is shown to implement.   *)
(***************************************************************************)
EXTENDS Integers, Sequences, FiniteSets, Functions

CONSTANTS
    Elements,   \* the addresses that new can give
    Items,
    Keys,
    Nil         \* NULL

ASSUME ListAssumption ==
    /\ IsFiniteSet(Elements)
    /\ Nil \notin Elements \cup Items \cup [item : Items, key : Keys, next : Elements \cup {Nil}]
    /\ 0 \in Keys
    /\ Keys \subseteq Int

VARIABLES
    heap,       \* the ListElements; Nil where there is none
    first, last,
    thing,      \* what the last Remove or SortedRemove returned, and its key
    destructor  \* "no", "running", "done"

listVars == << heap, first, last, thing, destructor >>

ListInit ==
    /\ heap = [e \in Elements |-> Nil]
    /\ first = Nil
    /\ last = Nil
    /\ thing = Nil
    /\ destructor = "no"

Unallocated(e) == heap[e] = Nil

IsEmpty == first = Nil

\* new ListElement(item, key), and what has to be written into the others.
Made(item, key, nextElement) == [item |-> item, key |-> key, next |-> nextElement]

\* The only element.
Alone(e, item, key) ==
    /\ heap' = [heap EXCEPT ![e] = Made(item, key, Nil)]
    /\ first' = e
    /\ last' = e

\* Mutant of AtEnd: last is not moved.
AtEndStale(e, item, key) ==
    /\ heap' = [heap EXCEPT ![last].next = e, ![e] = Made(item, key, Nil)]
    /\ UNCHANGED << first, last >>

AtEnd(e, item, key) ==
    /\ heap' = [heap EXCEPT ![last].next = e, ![e] = Made(item, key, Nil)]
    /\ last' = e
    /\ UNCHANGED first

InFront(e, item, key) ==
    /\ heap' = [heap EXCEPT ![e] = Made(item, key, first)]
    /\ first' = e
    /\ UNCHANGED last

ListAppend(item) ==
    \E e \in Elements :
        /\ Unallocated(e)
        /\ IF IsEmpty THEN Alone(e, item, 0) ELSE AtEnd(e, item, 0)
        /\ UNCHANGED << thing, destructor >>

Prepend(item) ==
    \E e \in Elements :
        /\ Unallocated(e)
        /\ IF IsEmpty THEN Alone(e, item, 0) ELSE InFront(e, item, 0)
        /\ UNCHANGED << thing, destructor >>

\* The elements in the order in which Mapcar and SortedInsert visit them.
Visited ==
    LET upTo[n \in Nat] ==
          IF n = 0 THEN IF IsEmpty THEN << >> ELSE << first >>
          ELSE LET v == upTo[n - 1] IN
               IF v = << >> \/ heap[v[Len(v)]].next = Nil THEN v
               ELSE Append(v, heap[v[Len(v)]].next)
    IN upTo[Cardinality(Elements)]

\* Mutant of StopsAt: the new item goes before those of its key.
StopsAtEqual(key) ==
    {n \in 1..Len(Visited) - 1 :
        /\ key <= heap[Visited[n + 1]].key
        /\ \A k \in 1..n - 1 : key > heap[Visited[k + 1]].key}

\* The walk of SortedInsert stops at the first element whose successor has a
\* larger key.
StopsAt(key) ==
    {n \in 1..Len(Visited) - 1 :
        /\ key < heap[Visited[n + 1]].key
        /\ \A k \in 1..n - 1 : key >= heap[Visited[k + 1]].key}

ListSortedInsert(item, key) ==
    \E e \in Elements :
        /\ Unallocated(e)
        /\ IF IsEmpty THEN Alone(e, item, key)
           ELSE IF key < heap[first].key THEN InFront(e, item, key)
           ELSE IF StopsAt(key) = {} THEN AtEnd(e, item, key)
           ELSE LET ptr == Visited[CHOOSE n \in StopsAt(key) : TRUE] IN
                /\ heap' = [heap EXCEPT ![ptr].next = e,
                                        ![e] = Made(item, key, heap[ptr].next)]
                /\ UNCHANGED << first, last >>
        /\ UNCHANGED << thing, destructor >>

\* SortedRemove, and Remove, which does not ask for the key.
SortedRemove ==
    IF IsEmpty THEN thing' = Nil /\ UNCHANGED << heap, first, last >>
    ELSE /\ thing' = << heap[first].item, heap[first].key >>
         /\ first' = IF first = last THEN Nil ELSE heap[first].next
         /\ last' = IF first = last THEN Nil ELSE last
         /\ heap' = [heap EXCEPT ![first] = Nil]

\* ~List: Remove until it returns NULL.
DestroyList ==
    /\ destructor # "done"
    /\ SortedRemove
    /\ destructor' = IF IsEmpty THEN "done" ELSE "running"

ListNext ==
    \/ /\ destructor = "no"
       /\ \/ \E item \in Items : ListAppend(item) \/ Prepend(item)
          \/ \E item \in Items, key \in Keys : ListSortedInsert(item, key)
          \/ SortedRemove /\ UNCHANGED destructor
    \/ DestroyList

ListSpec == ListInit /\ [][ListNext]_listVars

-----------------------------------------------------------------------------
(* Properties.                                                             *)

\* Both pointers are into the same chain, which ends at the last one and has
\* every element that is allocated: none is lost, and none is used after it was
\* deleted.  When the destructor has run there is none.
ListWellFormed ==
    LET allocated == {e \in Elements : heap[e] # Nil} IN
    /\ allocated = Range(Visited)
    /\ IsInjective(Visited)
    /\ last = IF IsEmpty THEN Nil ELSE Visited[Len(Visited)]
    /\ destructor = "done" => allocated = {}

\* The linked elements are a sequence to the callers (list.h:43-65).
Contents == [n \in 1..Len(Visited) |-> << heap[Visited[n]].item, heap[Visited[n]].key >>]

ASequence == INSTANCE AbstractList WITH
    list <- Contents, returned <- thing, Nothing <- Nil

ImplementsList == ASequence!AListSpec
=============================================================================
