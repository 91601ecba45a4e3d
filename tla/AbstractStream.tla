--------------------------- MODULE AbstractStream ---------------------------
(***************************************************************************)
(* What a bounded byte buffer promises: a write puts its bytes at the end  *)
(* of the stream in one piece once there is room for all of them, a read   *)
(* takes the first bytes in one piece once there are enough.               *)
(***************************************************************************)
EXTENDS Integers, Sequences

CONSTANTS Threads, Chunks, Sizes, maxSize, NULL

VARIABLES
    stream,     \* the bytes written and not read yet, oldest first
    asked,      \* the operation a thread has called, "none" when it returned
    size,       \* its size argument, 0 between operations
    data        \* the bytes it is writing, or has just read

avars == << stream, asked, size, data >>

AInit ==
    /\ stream = << >>
    /\ asked = [t \in Threads |-> "none"]
    /\ size = [t \in Threads |-> 0]
    /\ data = [t \in Threads |-> << >>]

CallWrite(t, d) ==
    /\ asked[t] = "none"
    /\ asked' = [asked EXCEPT ![t] = "write"]
    /\ size' = [size EXCEPT ![t] = Len(d)]
    /\ data' = [data EXCEPT ![t] = d]
    /\ UNCHANGED stream

DoWrite(t) ==
    /\ asked[t] = "write"
    /\ Len(stream) + size[t] <= maxSize
    /\ stream' = stream \o data[t]
    /\ asked' = [asked EXCEPT ![t] = "done"]
    /\ UNCHANGED << size, data >>

CallRead(t, n) ==
    /\ asked[t] = "none"
    /\ asked' = [asked EXCEPT ![t] = "read"]
    /\ size' = [size EXCEPT ![t] = n]
    /\ UNCHANGED << stream, data >>

DoRead(t) ==
    /\ asked[t] = "read"
    /\ Len(stream) >= size[t]
    /\ data' = [data EXCEPT ![t] = SubSeq(stream, 1, size[t])]
    /\ stream' = SubSeq(stream, size[t] + 1, Len(stream))
    /\ asked' = [asked EXCEPT ![t] = "done"]
    /\ UNCHANGED size

Return(t) ==
    /\ asked[t] = "done"
    /\ asked' = [asked EXCEPT ![t] = "none"]
    /\ size' = [size EXCEPT ![t] = 0]
    /\ data' = [data EXCEPT ![t] = << >>]
    /\ UNCHANGED stream

\* Each step moves the call of one thread on.
ANext ==
    \E t \in Threads :
        /\ asked'[t] # asked[t]
        /\ \/ \E d \in Chunks : CallWrite(t, d)
           \/ DoWrite(t)
           \/ \E n \in Sizes : CallRead(t, n)
           \/ DoRead(t)
           \/ Return(t)

ASpec == AInit /\ [][ANext]_avars
=============================================================================
