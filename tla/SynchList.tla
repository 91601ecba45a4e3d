----------------------------- MODULE SynchList -----------------------------
(***************************************************************************)
(* class SynchList of threads/synchlist.cc: a List, the Lock that protects *)
(* it and the Condition its removers wait on.  Its operations are called   *)
(* by threads, as SynchTest of threadtest.cc and the mailboxes of          *)
(* network/post.cc do; between two calls a thread may do anything.         *)
(***************************************************************************)
EXTENDS Monitor

CONSTANTS
    Items,       \* what is put on the list
    listEmpty    \* SynchList::listEmpty

ASSUME SynchListAssumption ==
    /\ listEmpty \in Conds
    /\ NULL \notin Items

VARIABLES
    list,    \* SynchList::list, first element first
    item     \* the argument of the Append() a thread is in, the result of the
             \* Remove() it is in

svars == << mvars, list, item >>

\* append     in lock->Acquire() of Append()
\* appended   the item is on the list, the call of Yield() is next
\* yielded    back from Yield(), listEmpty->Signal() is next
\* signalled  in Signal(), and then lock->Release() is next
\* remove     in lock->Acquire() of Remove()
\* test       at the while of Remove(), or in the Wait() it guards
\* removed    the item is off the list, lock->Release() is next
\* map        in lock->Acquire() of Mapcar()
\* mapping    in list->Mapcar()
ListPoints == {"none", "append", "appended", "yielded", "signalled",
           "remove", "test", "removed", "map", "mapping"}

SInit ==
    /\ MInit
    /\ list = << >>
    /\ item = [t \in Threads |-> NULL]

-----------------------------------------------------------------------------
(* SynchList::Append.                                                      *)

AppendCall(t, x) ==
    /\ SignalFits(listEmpty, {u \in Threads : pc[u] \in {"append", "appended", "yielded"}})
    /\ Calls(t, "append")
    /\ item' = [item EXCEPT ![t] = x]
    /\ UNCHANGED list

AppendItem(t) ==
    /\ Enters(t, "append", "appended")
    /\ list' = Append(list, item[t])
    /\ UNCHANGED item

\* currentThread->Yield() with the lock held.
AppendYield(t) ==
    /\ Executing(t)
    /\ Moves(t, "appended", "yielded")
    /\ Yield
    /\ UNCHANGED << lockKept, condVars, list, item >>

\* Mutant of AppendSignal: only the append that ends the emptiness signals.
AppendSignalIfFirst(t) ==
    /\ \/ Len(list) = 1 /\ Signals(t, "yielded", "signalled", listEmpty)
       \/ Len(list) # 1 /\ Works(t, "yielded", "signalled")
    /\ UNCHANGED << list, item >>

AppendSignal(t) ==
    /\ Signals(t, "yielded", "signalled", listEmpty)
    /\ UNCHANGED << list, item >>

AppendSignalReturn(t) ==
    /\ SignalReturns(t, listEmpty)
    /\ UNCHANGED << list, item >>

AppendReturn(t) ==
    /\ Leaves(t, "signalled")
    /\ item' = [item EXCEPT ![t] = NULL]
    /\ UNCHANGED list

-----------------------------------------------------------------------------
(* SynchList::Remove.                                                      *)

RemoveCall(t) ==
    /\ Calls(t, "remove")
    /\ UNCHANGED << list, item >>

RemoveEnter(t) ==
    /\ Enters(t, "remove", "test")
    /\ UNCHANGED << list, item >>

RemoveWait(t) ==
    /\ list = << >>
    /\ InLock(t)
    /\ StartsWait(t, "test", listEmpty)
    /\ UNCHANGED << list, item >>

RemoveWaits(t) ==
    /\ Waits(t, listEmpty)
    /\ UNCHANGED << list, item >>

\* Mutant of RemoveItem: the list is not tested again after the Wait(), and
\* List::Remove() returns NULL when it is empty.
RemoveItemUntested(t) ==
    /\ Works(t, "test", "removed")
    /\ list' = IF list = << >> THEN list ELSE Tail(list)
    /\ item' = [item EXCEPT ![t] = IF list = << >> THEN NULL ELSE Head(list)]

RemoveItem(t) ==
    /\ list # << >>
    /\ Works(t, "test", "removed")
    /\ list' = Tail(list)
    /\ item' = [item EXCEPT ![t] = Head(list)]

RemoveReturn(t) ==
    /\ Leaves(t, "removed")
    /\ item' = [item EXCEPT ![t] = NULL]
    /\ UNCHANGED list

-----------------------------------------------------------------------------
(* SynchList::Mapcar.  The function it applies may let other threads run.  *)

MapcarCall(t) ==
    /\ Calls(t, "map")
    /\ UNCHANGED << list, item >>

MapcarEnter(t) ==
    /\ Enters(t, "map", "mapping")
    /\ UNCHANGED << list, item >>

MapcarReturn(t) ==
    /\ Leaves(t, "mapping")
    /\ UNCHANGED << list, item >>

-----------------------------------------------------------------------------
(* The client.                                                             *)

AppendStep(t) ==
    \/ \E x \in Items : AppendCall(t, x)
    \/ AppendItem(t)
    \/ AppendYield(t)
    \/ AppendSignal(t)
    \/ AppendSignalReturn(t)
    \/ AppendReturn(t)

RemoveStep(t) ==
    \/ RemoveCall(t)
    \/ RemoveEnter(t)
    \/ RemoveWait(t)
    \/ RemoveWaits(t)
    \/ RemoveItem(t)
    \/ RemoveReturn(t)

MapcarStep(t) == MapcarCall(t) \/ MapcarEnter(t) \/ MapcarReturn(t)

SNext ==
    \/ \E t \in Threads : AppendStep(t) \/ RemoveStep(t) \/ MapcarStep(t)
    \/ /\ (\E t \in Threads : Acquiring(t) \/ OutsideStep(t)) \/ MMachineStep
       /\ UNCHANGED << list, item >>

SSpec == SInit /\ [][SNext]_svars

-----------------------------------------------------------------------------
(* Properties.                                                             *)

\* The variables of the list have their types; the last part is the assertion of Remove() that
\* an item came off the list (synchlist.cc:83).
STypeOK ==
    /\ list \in Seq(Items)
    /\ item \in [Threads -> Items \cup {NULL}]
    /\ \A t \in Threads : pc[t] = "removed" => item[t] # NULL

\* No lost wakeup across the whole of Append() and Remove(): once the machine
\* halts with a thread still in Remove(), the list is empty, although signals
\* are sent after a Yield() inside the lock, removers barge in between the
\* signal and the waiter, and early signals make Wait() return at once
\* (synchlist.cc:53-86).
NoStrandedRemover ==
    mode = "Halted" /\ (\E t \in Threads : pc[t] \in {"remove", "test"})
        => list = << >>

\* The synchronized list implements the abstract queue.
Queue == INSTANCE AbstractQueue WITH
    contents <- list,
    asked <- [t \in Threads |->
                CASE pc[t] = "append" -> "append"
                  [] pc[t] \in {"appended", "yielded", "signalled", "removed"} -> "done"
                  [] pc[t] \in {"remove", "test"} -> "remove"
                  [] OTHER -> "none"]

ImplementsQueue == Queue!ASpec
=============================================================================
