----------------------------- MODULE SynchDisk -----------------------------
(***************************************************************************)
(* class SynchDisk of filesys/synchdisk.cc on top of class Disk of         *)
(* machine/disk.cc.  The disk takes one request at a time, moves the data  *)
(* at once and interrupts later; SynchDisk serialises the callers with a   *)
(* Lock and makes each wait on a Semaphore that the handler posts.         *)
(*                                                                         *)
(* The interrupts that the disk has scheduled are pending[semaphore] of    *)
(* Kernel.  While they are outstanding the CPU runs other threads or       *)
(* idles.                                                                  *)
(***************************************************************************)
EXTENDS Lock

CONSTANTS
    semaphore,     \* SynchDisk::semaphore
    SectorNumbers, \* the sector numbers
    Data,          \* the contents of a sector
    Blank          \* what every sector holds when the disk file is made

ASSUME SynchDiskAssumption ==
    /\ semaphore \in Semaphores \ {mutex}
    /\ InitialValue[semaphore] = 0
    /\ Blank \in Data
    /\ NULL \notin Data

VARIABLES
    pc,         \* how far each thread is in ReadSector() or WriteSector()
    sector,     \* the sectorNumber argument of the call it is in
    data,       \* the memory its data argument points to
    active,     \* Disk::active
    contents    \* the UNIX file that stands for the disk

diskVars == << active, contents >>
dvars == << lvars, pc, sector, data, diskVars >>

\* none       outside
\* acquire    in lock->Acquire()
\* request    disk->ReadRequest() or WriteRequest() is next
\* requested  the request is made, semaphore->P() is next
\* wait       in that P()
\* done       back from it, lock->Release() is next
CallPoints == {"none", "acquire", "request", "requested", "wait", "done"}

DInit ==
    /\ LInit
    /\ pc = [t \in Threads |-> "none"]
    /\ sector = [t \in Threads |-> NULL]
    /\ data = [t \in Threads |-> NULL]
    /\ active = FALSE
    /\ contents = [s \in SectorNumbers |-> Blank]

Moves(t, from, to) ==
    /\ pc[t] = from
    /\ pc' = [pc EXCEPT ![t] = to]

-----------------------------------------------------------------------------
(* SynchDisk::ReadSector and SynchDisk::WriteSector.  A read is a call with *)
(* no data yet.                                                            *)

Call(t, s, d) ==
    /\ Moves(t, "none", "acquire")
    /\ Acquire(t)
    /\ sector' = [sector EXCEPT ![t] = s]
    /\ data' = [data EXCEPT ![t] = d]
    /\ UNCHANGED diskVars

\* Mutant of Enter: the lock is not waited for.
EnterUnlocked(t) ==
    /\ Moves(t, "acquire", "request")
    /\ InsideP(t, mutex)
    /\ inP' = [inP EXCEPT ![t] = NULL]
    /\ phase' = [phase EXCEPT ![t] = "holding"]
    /\ UNCHANGED << threadVars, value, queue, pending, threadHoldLock,
                    sector, data, diskVars >>

Enter(t) ==
    /\ Moves(t, "acquire", "request")
    /\ AcquireReturn(t)
    /\ UNCHANGED << sector, data, diskVars >>

\* Disk::ReadRequest and Disk::WriteRequest: the file is read or written now,
\* the interrupt comes later.  (Their ASSERT(!active) is NeverTwoRequests.)
Request(t) ==
    /\ Executing(t)
    /\ Moves(t, "request", "requested")
    /\ Schedule(semaphore)
    /\ active' = TRUE
    /\ IF data[t] = NULL
         THEN data' = [data EXCEPT ![t] = contents[sector[t]]] /\ UNCHANGED contents
         ELSE contents' = [contents EXCEPT ![sector[t]] = data[t]] /\ UNCHANGED data
    /\ UNCHANGED << phase, threadHoldLock, sector >>

WaitEnter(t) ==
    /\ Moves(t, "requested", "wait")
    /\ PEnter(t, semaphore)
    /\ UNCHANGED << phase, threadHoldLock, sector, data, diskVars >>

WaitSleep(t) ==
    /\ pc[t] = "wait"
    /\ PSleep(t, semaphore)
    /\ UNCHANGED << phase, threadHoldLock, pc, sector, data, diskVars >>

WaitTake(t) ==
    /\ Moves(t, "wait", "done")
    /\ PTake(t, semaphore)
    /\ UNCHANGED << phase, threadHoldLock, sector, data, diskVars >>

Return(t) ==
    /\ Moves(t, "done", "none")
    /\ Release(t)
    /\ sector' = [sector EXCEPT ![t] = NULL]
    /\ data' = [data EXCEPT ![t] = NULL]
    /\ UNCHANGED diskVars

-----------------------------------------------------------------------------
(* Disk::HandleInterrupt, whose handler is SynchDisk::RequestDone.          *)

\* Mutant of DiskDone: the V() is forgotten when nobody sleeps yet.
DiskDoneIfWaiting ==
    /\ HandlersEnabled
    /\ pending[semaphore] > 0
    /\ IF queue[semaphore] # << >>
         THEN Interrupt(semaphore)
         ELSE /\ pending' = [pending EXCEPT ![semaphore] = @ - 1]
              /\ UNCHANGED << threadVars, semaphoreVars >>
    /\ active' = FALSE
    /\ UNCHANGED << phase, threadHoldLock, pc, sector, data, contents >>

DiskDone ==
    /\ Interrupt(semaphore)
    /\ active' = FALSE
    /\ UNCHANGED << phase, threadHoldLock, pc, sector, data, contents >>

-----------------------------------------------------------------------------
(* The client.                                                             *)

DiskStep(t) ==
    \/ Enter(t)
    \/ Request(t)
    \/ WaitEnter(t)
    \/ WaitSleep(t)
    \/ WaitTake(t)
    \/ Return(t)

Rest == << pc, sector, data, diskVars >>

DNext ==
    \/ \E t \in Threads :
         \/ \E s \in SectorNumbers, d \in Data \cup {NULL} : Call(t, s, d)
         \/ DiskStep(t)
         \/ (AcquireSleep(t) \/ AcquireTake(t)) /\ UNCHANGED Rest
         \/ /\ pc[t] = "none"
            /\ Executing(t)
            /\ (\E u \in Threads : Fork(u)) \/ Yield \/ Finish
            /\ UNCHANGED << phase, threadHoldLock, Rest >>
    \/ DiskDone
    \/ (Dispatch \/ Halt \/ Preempt) /\ UNCHANGED << phase, threadHoldLock, Rest >>

DSpec == DInit /\ [][DNext]_dvars

-----------------------------------------------------------------------------
(* Properties.                                                             *)

DTypeOK ==
    /\ LTypeOK
    /\ pc \in [Threads -> CallPoints]
    /\ sector \in [Threads -> SectorNumbers \cup {NULL}]
    /\ data \in [Threads -> Data \cup {NULL}]
    /\ active \in BOOLEAN
    /\ contents \in [SectorNumbers -> Data]

\* The ASSERT(!active) of disk.cc:120 and 140 never fails.
NeverTwoRequests ==
    [][ \A t \in Threads : Request(t) => ~active ]_dvars

\* Each completion belongs to one request: what the handler has posted and what
\* the disk has still to post is for the threads that wait, so that no thread
\* goes on with the interrupt of another's request, and none waits for an
\* interrupt that has come and gone (synchdisk.cc:73-109, disk.cc:129-165).
CompletionsMatchRequests ==
    /\ value[semaphore] + pending[semaphore]
         = Cardinality({t \in Threads : pc[t] \in {"requested", "wait"}})
    /\ active <=> pending[semaphore] > 0

\* When the machine halts no call is left inside the synchronous disk.
NoStuckRequest ==
    mode = "Halted" => \A t \in Threads : pc[t] = "none"

\* "Return only after the data has been read" (synchdisk.cc:65-66, 82-83):
\* the disk is idle when a call goes back to its caller.
ReturnsAfterCompletion ==
    \A t \in Threads : pc[t] = "done" => ~active

\* While a call is in progress nobody else gets at its sector: a reader returns
\* with what the disk then holds, and a writer with its data on the disk
\* (synchdisk.cc:73-97).
DataCurrent ==
    \A t \in Threads :
        pc[t] \in {"requested", "wait", "done"} => data[t] = contents[sector[t]]

\* Caller, disk and interrupt are in step.
DConsistent ==
    /\ DTypeOK
    /\ CompletionsMatchRequests
    /\ ReturnsAfterCompletion
    /\ DataCurrent

\* Fairness: the CPU goes on, the disk interrupts, and a thread that is given
\* the CPU again and again executes the next statement of its call.
DFairSpec ==
    /\ DSpec
    /\ WF_dvars(DNext)
    /\ WF_dvars(DiskDone)
    /\ SF_dvars(Preempt /\ UNCHANGED << phase, threadHoldLock, Rest >>)
    /\ \A t \in Threads : SF_dvars(DiskStep(t))

\* Every request is answered.
RequestsComplete ==
    \A t \in Threads : pc[t] = "requested" ~> pc[t] = "done"
=============================================================================
