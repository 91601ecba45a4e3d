------------------------------ MODULE DiskTime ------------------------------
(***************************************************************************)
(* How long the requests of class Disk take (machine/disk.cc).  The disk   *)
(* turns by one sector in RotationTime and the head moves by one track in  *)
(* SeekTime; while it stays on a track, the sectors that pass under it are *)
(* kept in the track buffer.  SynchDisk has the rest of this class.        *)
(*                                                                         *)
(* Times never differ but by the clock: sector n of a track passes under   *)
(* the head from RotationTime * n on, and again after every turn.          *)
(***************************************************************************)
EXTENDS Integers

CONSTANTS
    SectorsPerTrack,    \* 32
    NumTracks,          \* 32
    SeekTime,           \* 500
    RotationTime,       \* 500
    LastTick            \* bound: no request is made after it

ASSUME DiskTimeAssumption ==
    /\ {SectorsPerTrack, NumTracks, SeekTime, RotationTime} \subseteq Nat \ {0}
    /\ LastTick \in Nat

VARIABLES
    diskTicks,      \* stats->totalTicks
    lastSector,
    bufferInit,     \* when the head came to the track
    due             \* when the interrupt comes; in the past if none is to come

diskTimeVars == << diskTicks, lastSector, bufferInit, due >>

SectorNumbers == 0..SectorsPerTrack * NumTracks - 1

DiskTimeInit ==
    /\ diskTicks = 0
    /\ lastSector = 0
    /\ bufferInit = 0
    /\ due = 0

Track(s) == s \div SectorsPerTrack
Distance(m, n) == IF m > n THEN m - n ELSE n - m

\* TimeToSeek, and the rotation it gives: up to the next full sector.
TimeToSeek(s) == Distance(Track(s), Track(lastSector)) * SeekTime
Rotation(s) ==
    LET over == (diskTicks + TimeToSeek(s)) % RotationTime
    IN IF over > 0 THEN RotationTime - over ELSE 0

\* Mutant of ModuloDiff: from the target to the head.
ModuloDiffBack(to, from) ==
    LET toOffset == to % SectorsPerTrack
        fromOffset == from % SectorsPerTrack
    IN ((fromOffset - toOffset) + SectorsPerTrack) % SectorsPerTrack

ModuloDiff(to, from) ==
    LET toOffset == to % SectorsPerTrack
        fromOffset == from % SectorsPerTrack
    IN ((toOffset - fromOffset) + SectorsPerTrack) % SectorsPerTrack

ComputeLatency(s, writing) ==
    LET seek == TimeToSeek(s)
        timeAfter == diskTicks + seek + Rotation(s)
        buffered == /\ ~writing
                    /\ seek = 0
                    /\ (timeAfter - bufferInit) \div RotationTime
                         > ModuloDiff(s, bufferInit \div RotationTime)
    IN IF buffered THEN RotationTime
       ELSE seek + Rotation(s) + ModuloDiff(s, timeAfter \div RotationTime) * RotationTime
              + RotationTime

UpdateLast(s) ==
    /\ bufferInit' = IF TimeToSeek(s) # 0 THEN diskTicks + TimeToSeek(s) + Rotation(s)
                     ELSE bufferInit
    /\ lastSector' = s

Idle == due <= diskTicks

\* ReadRequest and WriteRequest.
DiskTimeRequest(s, writing) ==
    /\ Idle
    /\ diskTicks <= LastTick
    /\ due' = diskTicks + ComputeLatency(s, writing)
    /\ UpdateLast(s)
    /\ UNCHANGED diskTicks

\* The clock, which no interrupt is late for.
DiskTimeTick ==
    /\ Idle => diskTicks < LastTick
    /\ diskTicks' = diskTicks + 1
    /\ UNCHANGED << lastSector, bufferInit, due >>

DiskTimeNext ==
    \/ \E s \in SectorNumbers, writing \in BOOLEAN : DiskTimeRequest(s, writing)
    \/ DiskTimeTick

DiskTimeSpec == DiskTimeInit /\ [][DiskTimeNext]_diskTimeVars

-----------------------------------------------------------------------------
(* Properties.                                                             *)

\* The sector passes under the head, which is on its track, from time t on.
UnderHead(s, t) == t % RotationTime = 0 /\ (t \div RotationTime) % SectorsPerTrack = s % SectorsPerTrack

\* A request ends when the sector has passed under the head for the first time
\* after the seek, unless it is a read and the sector passed while the head was
\* on the track: then it takes one sector's time (disk.cc:213-229).  The head
\* is never said to have come to its track later than now, so that no time
\* that is computed from bufferInit is negative.
ServedInTime(s, writing) ==
    LET begin == due' - RotationTime
        arrival == diskTicks + TimeToSeek(s)
        passed == {t \in bufferInit..begin : UnderHead(s, t) /\ t + RotationTime <= due'}
    IN /\ bufferInit <= diskTicks
       /\ \/ /\ UnderHead(s, begin)
             /\ begin >= arrival
             /\ \A t \in arrival..begin - 1 : ~UnderHead(s, t)
          \/ /\ ~writing
             /\ Track(s) = Track(lastSector)
             /\ begin = diskTicks
             /\ passed # {}

ServedByTheHead ==
    [][ \A s \in SectorNumbers, writing \in BOOLEAN :
          DiskTimeRequest(s, writing) => ServedInTime(s, writing) ]_diskTimeVars
=============================================================================
