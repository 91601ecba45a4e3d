--------------------------- MODULE BoundedBuffer ---------------------------
(***************************************************************************)
(* class BoundedBuffer of threads/BoundedBuffer.cc: a ring of bytes, a     *)
(* Lock, and the Conditions full (waited on by writers, for room) and      *)
(* empty (waited on by readers, for bytes).                                *)
(***************************************************************************)
EXTENDS Monitor

CONSTANTS
    maxSize,      \* BoundedBuffer::maxSize
    Bytes,        \* what the buffer stores
    Chunks,       \* what the threads write at a time
    Programs,     \* what each thread does: it writes, or reads, so many bytes at a time
    full, empty   \* BoundedBuffer::full and BoundedBuffer::empty

\* The size arguments of Write() and Read() that the threads use.
Sizes == {Len(d) : d \in Chunks}

Tasks == [op : {"write", "read"}, size : Sizes]

ASSUME BoundedBufferAssumption ==
    /\ {full, empty} \subseteq Conds
    /\ full # empty
    /\ maxSize \in Nat \ {0}
    /\ Chunks \subseteq UNION {[1..n -> Bytes] : n \in 1..maxSize}
    /\ NULL \notin Bytes
    /\ Programs \subseteq [Threads -> Tasks]

VARIABLES
    buffer,     \* BoundedBuffer::buffer
    head,       \* BoundedBuffer::head, the first place used
    tail,       \* BoundedBuffer::tail, the first place after those used
    usedSize,   \* BoundedBuffer::usedSize
    data,       \* the bytes a thread is writing, or has just read
    size,       \* the size argument of the operation it is in, or 0
    program     \* the member of Programs that is running: never changes

bufferVars == << buffer, head, tail, usedSize >>
bvars == << mvars, bufferVars, data, size, program >>

\* write    in lock->Acquire() of Write()
\* room     at the while of Write(), or in full->Wait()
\* written  the bytes are in the buffer, empty->Signal() is next
\* done     in that Signal(), or in the full->Signal() of Read(); then Release()
\* read     in lock->Acquire() of Read()
\* bytes    at the while of Read(), or in empty->Wait()
\* taken    the bytes are copied out, full->Signal() is next
BufferPoints == {"none", "write", "room", "written", "done", "read", "bytes", "taken"}

BInit ==
    /\ MInit
    /\ buffer = [i \in 0..maxSize - 1 |-> NULL]
    /\ head = 0
    /\ tail = 0
    /\ usedSize = 0
    /\ data = [t \in Threads |-> << >>]
    /\ size = [t \in Threads |-> 0]

\* The number of bytes at a place of the ring, counted from "from".
Offset(i, from) == (i - from + maxSize) % maxSize

-----------------------------------------------------------------------------
(* BoundedBuffer::Write.                                                   *)

WriteCall(t, d) ==
    /\ SignalFits(empty, {u \in Threads : pc[u] \in {"write", "room", "written"}})
    /\ Calls(t, "write")
    /\ data' = [data EXCEPT ![t] = d]
    /\ size' = [size EXCEPT ![t] = Len(d)]
    /\ UNCHANGED << bufferVars, program >>

WriteEnter(t) ==
    /\ Enters(t, "write", "room")
    /\ UNCHANGED << bufferVars, data, size, program >>

WriteWait(t) ==
    /\ maxSize - usedSize < size[t]
    /\ InLock(t)
    /\ StartsWait(t, "room", full)
    /\ UNCHANGED << bufferVars, data, size, program >>

\* Mutant of WriteBytes: the index does not wrap around.
WriteBytesUnwrapped(t) ==
    /\ maxSize - usedSize >= size[t]
    /\ Works(t, "room", "written")
    /\ buffer' = [i \in DOMAIN buffer |->
                    IF i >= tail /\ i - tail < size[t]
                      THEN data[t][i - tail + 1] ELSE buffer[i]]
    /\ tail' = (tail + size[t]) % maxSize
    /\ usedSize' = usedSize + size[t]
    /\ UNCHANGED << head, data, size, program >>

WriteBytes(t) ==
    /\ maxSize - usedSize >= size[t]
    /\ Works(t, "room", "written")
    /\ buffer' = [i \in DOMAIN buffer |->
                    IF Offset(i, tail) < size[t]
                      THEN data[t][Offset(i, tail) + 1] ELSE buffer[i]]
    /\ tail' = (tail + size[t]) % maxSize
    /\ usedSize' = usedSize + size[t]
    /\ UNCHANGED << head, data, size, program >>

\* Mutant of WriteSignal: only the bytes that end the emptiness signal.
WriteSignalIfFirst(t) ==
    /\ \/ usedSize = size[t] /\ Signals(t, "written", "done", empty)
       \/ usedSize # size[t] /\ Works(t, "written", "done")
    /\ UNCHANGED << bufferVars, data, size, program >>

WriteSignal(t) ==
    /\ Signals(t, "written", "done", empty)
    /\ UNCHANGED << bufferVars, data, size, program >>

-----------------------------------------------------------------------------
(* BoundedBuffer::Read.  Its size is not compared with maxSize.             *)

ReadCall(t, n) ==
    /\ SignalFits(full, {u \in Threads : pc[u] \in {"read", "bytes", "taken"}})
    /\ Calls(t, "read")
    /\ size' = [size EXCEPT ![t] = n]
    /\ UNCHANGED << bufferVars, data, program >>

ReadEnter(t) ==
    /\ Enters(t, "read", "bytes")
    /\ UNCHANGED << bufferVars, data, size, program >>

ReadWait(t) ==
    /\ usedSize - size[t] < 0
    /\ InLock(t)
    /\ StartsWait(t, "bytes", empty)
    /\ UNCHANGED << bufferVars, data, size, program >>

\* Mutant of ReadBytes: usedSize is not updated.
ReadBytesUncounted(t) ==
    /\ usedSize - size[t] >= 0
    /\ Works(t, "bytes", "taken")
    /\ data' = [data EXCEPT ![t] =
                  [i \in 1..size[t] |-> buffer[(head + i - 1) % maxSize]]]
    /\ head' = (head + size[t]) % maxSize
    /\ UNCHANGED << buffer, tail, usedSize, size, program >>

ReadBytes(t) ==
    /\ usedSize - size[t] >= 0
    /\ Works(t, "bytes", "taken")
    /\ data' = [data EXCEPT ![t] =
                  [i \in 1..size[t] |-> buffer[(head + i - 1) % maxSize]]]
    /\ head' = (head + size[t]) % maxSize
    /\ usedSize' = usedSize - size[t]
    /\ UNCHANGED << buffer, tail, size, program >>

ReadSignal(t) ==
    /\ Signals(t, "taken", "done", full)
    /\ UNCHANGED << bufferVars, data, size, program >>

-----------------------------------------------------------------------------
(* The client.                                                             *)

\* The Signal() that ends Write() and Read().
SignalDone(t) ==
    /\ \E c \in Conds : SignalReturns(t, c)
    /\ UNCHANGED << bufferVars, data, size, program >>

\* lock->Release() and the return to the caller.
Return(t) ==
    /\ Leaves(t, "done")
    /\ data' = [data EXCEPT ![t] = << >>]
    /\ size' = [size EXCEPT ![t] = 0]
    /\ UNCHANGED << bufferVars, program >>

Waiting(t) ==
    /\ \E c \in Conds : Waits(t, c)
    /\ UNCHANGED << bufferVars, data, size, program >>

WriteStep(t) ==
    \/ \E d \in Chunks : program[t] = [op |-> "write", size |-> Len(d)] /\ WriteCall(t, d)
    \/ WriteEnter(t)
    \/ WriteWait(t)
    \/ WriteBytes(t)
    \/ WriteSignal(t)

ReadStep(t) ==
    \/ \E n \in Sizes : program[t] = [op |-> "read", size |-> n] /\ ReadCall(t, n)
    \/ ReadEnter(t)
    \/ ReadWait(t)
    \/ ReadBytes(t)
    \/ ReadSignal(t)

BNext ==
    \/ \E t \in Threads : WriteStep(t) \/ ReadStep(t) \/ Waiting(t) \/ SignalDone(t) \/ Return(t)
    \/ /\ (\E t \in Threads : Acquiring(t) \/ OutsideStep(t)) \/ MMachineStep
       /\ UNCHANGED << bufferVars, data, size, program >>

BSpec == BInit /\ program \in Programs /\ [][BNext]_bvars

-----------------------------------------------------------------------------
(* Properties.                                                             *)

BTypeOK ==
    /\ buffer \in [0..maxSize - 1 -> Bytes \cup {NULL}]
    /\ head \in 0..maxSize - 1
    /\ tail \in 0..maxSize - 1
    /\ usedSize \in 0..maxSize
    /\ size \in [Threads -> Sizes \cup {0}]
    /\ data \in [Threads -> UNION {[1..n -> Bytes] : n \in 0..maxSize}]

\* The three counters agree: going on from head by usedSize one comes to tail,
\* and every place in between holds a byte that was written
\* (BoundedBuffer.cc:28-32, 44-48).
RingConsistent ==
    /\ tail = (head + usedSize) % maxSize
    /\ \A i \in DOMAIN buffer : Offset(i, head) < usedSize => buffer[i] \in Bytes

\* The threads that run write, or read, as many bytes at a time.
OneSize ==
    \A t, u \in {v \in Threads : status[v] # "JUST_CREATED"} : program[t].size = program[u].size

\* No lost wakeup as long as all the threads that have been forked use one size: when
\* the machine halts no writer is left waiting although its bytes fit, and no reader
\* although there are enough (BoundedBuffer.cc:21-52).  With several sizes it does not
\* hold: one Signal() may wake a thread that still cannot go on, and a thread
\* that could sleeps on.
NoStrandedThread ==
    mode = "Halted" =>
        \A t \in Threads :
            /\ pc[t] \in {"write", "room"} /\ OneSize => maxSize - usedSize < size[t]
            /\ pc[t] \in {"read", "bytes"} /\ OneSize => usedSize < size[t]

\* The buffer implements the abstract stream of bytes.
Stream == INSTANCE AbstractStream WITH
    stream <- [i \in 1..usedSize |-> buffer[(head + i - 1) % maxSize]],
    asked <- [t \in Threads |->
                CASE pc[t] \in {"write", "room"} -> "write"
                  [] pc[t] \in {"read", "bytes"} -> "read"
                  [] pc[t] \in {"written", "taken", "done"} -> "done"
                  [] OTHER -> "none"]

ImplementsStream == Stream!ASpec
=============================================================================
