--------------------------------- MODULE MaRing --------------------------------
(***************************************************************************)
(* The ring buffer between the audio thread and the reader: ma_pcm_rb of   *)
(* miniaudio.h, as on_frames and audioio_read of audioio.c use it.  There  *)
(* is no lock: each side owns one offset, and reads the other's once per   *)
(* acquire.  An offset carries a flag in its top bit that flips each time  *)
(* it goes past the end, which tells a full ring from an empty one.        *)
(*                                                                         *)
(* The unit is a frame (ma_pcm_rb multiplies by the bytes per frame).      *)
(***************************************************************************)
EXTENDS Integers, Sequences

CONSTANTS
  SubbufferSize,  \* subbufferSizeInBytes, in frames
  Wants,          \* frame counts the two sides ask for
  MaxSent         \* bound: frames ever written

ASSUME RingAssumption ==
  /\ SubbufferSize \in Nat \ {0}
  /\ Wants \subseteq Nat \ {0}
  /\ MaxSent \in Nat

VARIABLES
  cells,               \* pBuffer
  encodedReadOffset,   \* the reader's offset and loop flag
  encodedWriteOffset,  \* the writer's
  sent,                \* frames committed by the writer
  reader,              \* where the reader stands
  readWant, seenWrite, readable, scratchRead, \* its locals
  readOut,             \* what its last commit returned to the caller
  writer,              \* where the writer stands
  writeWant, seenRead, writable               \* its locals

readSide == <<encodedReadOffset, reader, readWant, seenWrite, readable, scratchRead, readOut>>
writeSide == <<cells, encodedWriteOffset, sent, writer, writeWant, seenRead, writable>>
maRingVars == <<readSide, writeSide>>

Offsets == [at : 0..(SubbufferSize - 1), loop : BOOLEAN]
Start == [at |-> 0, loop |-> FALSE]

RingInit ==
  /\ cells = [i \in 0..(SubbufferSize - 1) |-> 0]
  /\ encodedReadOffset = Start /\ encodedWriteOffset = Start
  /\ sent = 0
  /\ reader = "idle" /\ readWant = 0 /\ seenWrite = Start /\ readable = 0
  /\ scratchRead = << >> /\ readOut = << >>
  /\ writer = "idle" /\ writeWant = 0 /\ seenRead = Start /\ writable = 0

AtMostOf(n, limit) == IF n > limit THEN limit ELSE n

(* Mutant: the loop flag stays as it is at the end of the buffer.          *)
AdvanceUnflipped(offset, count) ==
  IF offset.at + count > SubbufferSize THEN offset
  ELSE [at |-> (offset.at + count) % SubbufferSize, loop |-> offset.loop]

(* Past the end is refused, at the end goes back to the start.             *)
Advance(offset, count) ==
  LET at == offset.at + count
  IN IF at > SubbufferSize THEN offset
     ELSE IF at = SubbufferSize THEN [at |-> 0, loop |-> ~offset.loop]
     ELSE [at |-> at, loop |-> offset.loop]

-----------------------------------------------------------------------------
(* The reader, on the managed side's thread.                               *)

(* On the same loop up to the write offset, else up to the end.            *)
BytesToRead(own, other) ==
  IF own.loop = other.loop THEN other.at - own.at ELSE SubbufferSize - own.at

LoadWriteOffset(want) ==
  /\ reader = "idle"
  /\ readWant' = want
  /\ seenWrite' = encodedWriteOffset
  /\ reader' = "acquiring"
  /\ UNCHANGED <<encodedReadOffset, readable, scratchRead, readOut, writeSide>>

(* Nothing to read ends the caller's loop.                                 *)
AcquireRead ==
  /\ reader = "acquiring"
  /\ readable' = AtMostOf(readWant, BytesToRead(encodedReadOffset, seenWrite))
  /\ reader' = IF readable' = 0 THEN "idle" ELSE "acquired"
  /\ UNCHANGED <<encodedReadOffset, readWant, seenWrite, scratchRead, readOut, writeSide>>

(* The caller's memcpy out of the region.                                  *)
CopyOutOfRing ==
  /\ reader = "acquired"
  /\ scratchRead' = [i \in 1..readable |-> cells[encodedReadOffset.at + i - 1]]
  /\ reader' = "copied"
  /\ UNCHANGED <<encodedReadOffset, readWant, seenWrite, readable, readOut, writeSide>>

CommitRead ==
  /\ reader = "copied"
  /\ encodedReadOffset' = Advance(encodedReadOffset, readable)
  /\ readOut' = scratchRead
  /\ scratchRead' = << >>
  /\ reader' = "idle"
  /\ UNCHANGED <<readWant, seenWrite, readable, writeSide>>

-----------------------------------------------------------------------------
(* The writer, on the audio thread.                                        *)

(* Mutant: the room up to the end whatever loop the reader is on.          *)
BytesToWriteToEnd(own, other) == SubbufferSize - own.at

(* On the same loop up to the end, else up to the read offset.             *)
BytesToWrite(own, other) ==
  IF own.loop = other.loop THEN SubbufferSize - own.at ELSE other.at - own.at

LoadReadOffset(want) ==
  /\ writer = "idle"
  /\ sent + want <= MaxSent
  /\ writeWant' = want
  /\ seenRead' = encodedReadOffset
  /\ writer' = "acquiring"
  /\ UNCHANGED <<cells, encodedWriteOffset, sent, writable, readSide>>

(* No room is the overrun of on_frames.                                    *)
AcquireWrite ==
  /\ writer = "acquiring"
  /\ writable' = AtMostOf(writeWant, BytesToWrite(encodedWriteOffset, seenRead))
  /\ writer' = IF writable' = 0 THEN "idle" ELSE "acquired"
  /\ UNCHANGED <<cells, encodedWriteOffset, sent, writeWant, seenRead, readSide>>

(* The callback's memcpy into the region.                                  *)
CopyIntoRing ==
  /\ writer = "acquired"
  /\ cells' = [i \in DOMAIN cells |->
                 IF i \in encodedWriteOffset.at..(encodedWriteOffset.at + writable - 1)
                 THEN sent + i - encodedWriteOffset.at + 1
                 ELSE cells[i]]
  /\ writer' = "copied"
  /\ UNCHANGED <<encodedWriteOffset, sent, writeWant, seenRead, writable, readSide>>

CommitWrite ==
  /\ writer = "copied"
  /\ encodedWriteOffset' = Advance(encodedWriteOffset, writable)
  /\ sent' = sent + writable
  /\ writer' = "idle"
  /\ UNCHANGED <<cells, writeWant, seenRead, writable, readSide>>

-----------------------------------------------------------------------------
RingNext ==
  \/ \E want \in Wants : LoadWriteOffset(want) \/ LoadReadOffset(want)
  \/ AcquireRead \/ CopyOutOfRing \/ CommitRead
  \/ AcquireWrite \/ CopyIntoRing \/ CommitWrite

RingSpec == RingInit /\ [][RingNext]_maRingVars

-----------------------------------------------------------------------------
(* Properties.                                                             *)

(* What the offsets say is in the ring, and the cell of its ith frame.     *)
Held ==
  IF encodedReadOffset.loop = encodedWriteOffset.loop
  THEN encodedWriteOffset.at - encodedReadOffset.at
  ELSE SubbufferSize - encodedReadOffset.at + encodedWriteOffset.at

CellOf(i) ==
  IF encodedReadOffset.at + i - 1 < SubbufferSize
  THEN encodedReadOffset.at + i - 1
  ELSE encodedReadOffset.at + i - 1 - SubbufferSize

FramesHeld == [i \in 1..Held |-> cells[CellOf(i)]]

ReadCells ==
  IF reader \in {"acquired", "copied"}
  THEN encodedReadOffset.at..(encodedReadOffset.at + readable - 1) ELSE {}
WriteCells ==
  IF writer \in {"acquired", "copied"}
  THEN encodedWriteOffset.at..(encodedWriteOffset.at + writable - 1) ELSE {}

(* The two threads never copy to and from one cell at a time, and neither  *)
(* goes outside the buffer, though each acts on an offset of the other     *)
(* that may have moved since it was loaded (miniaudio.h:58231-58256,       *)
(* 58305-58338): the memcpy of either side needs no lock.                  *)
RegionsAreDisjoint ==
  /\ ReadCells \cap WriteCells = {}
  /\ ReadCells \cup WriteCells \subseteq 0..(SubbufferSize - 1)

(* Frames come out of the ring once each, in the order they went in, and   *)
(* it never holds more than its size, whatever the sides ask for and       *)
(* wherever it wraps (miniaudio.h:58216-58372, audioio.c:133-146,241-257). *)
Queue == INSTANCE FrameQueue WITH
  Room <- SubbufferSize, queue <- FramesHeld, put <- sent, taken <- readOut
RingIsAQueue == Queue!QueueSpec

(* Type correctness; what is free or waits never exceeds the buffer.       *)
RingTypeOK ==
  /\ cells \in [0..(SubbufferSize - 1) -> Nat]
  /\ encodedReadOffset \in Offsets /\ encodedWriteOffset \in Offsets
  /\ seenWrite \in Offsets /\ seenRead \in Offsets
  /\ sent \in Nat
  /\ reader \in {"idle", "acquiring", "acquired", "copied"}
  /\ writer \in {"idle", "acquiring", "acquired", "copied"}
  /\ readWant \in Nat /\ writeWant \in Nat
  /\ readable \in Nat /\ writable \in Nat
  /\ scratchRead \in Seq(Nat) /\ readOut \in Seq(Nat)

(* The inductive invariant.  The reader is behind the writer on its loop,  *)
(* or ahead of it on the one before, and what the ring holds is the last   *)
(* frames sent (miniaudio.h:58234-58242,58308-58317).                      *)
HeldInv ==
  /\ encodedReadOffset.loop = encodedWriteOffset.loop =>
       encodedReadOffset.at <= encodedWriteOffset.at
  /\ encodedReadOffset.loop # encodedWriteOffset.loop =>
       encodedWriteOffset.at <= encodedReadOffset.at
  /\ Held <= sent
  /\ \A i \in 1..Held : cells[CellOf(i)] = sent - Held + i

(* A loaded offset of the other side is one it had: it has only gone on.   *)
SeenInv ==
  /\ reader = "acquiring" /\ seenWrite.loop = encodedReadOffset.loop =>
       /\ encodedReadOffset.at <= seenWrite.at
       /\ encodedWriteOffset.loop = seenWrite.loop => seenWrite.at <= encodedWriteOffset.at
  /\ reader = "acquiring" /\ seenWrite.loop # encodedReadOffset.loop =>
       encodedWriteOffset.loop = seenWrite.loop
  /\ writer = "acquiring" /\ seenRead.loop = encodedWriteOffset.loop =>
       encodedReadOffset.loop = seenRead.loop
  /\ writer = "acquiring" /\ seenRead.loop # encodedWriteOffset.loop =>
       /\ encodedWriteOffset.at <= seenRead.at
       /\ encodedReadOffset.loop = seenRead.loop => seenRead.at <= encodedReadOffset.at

(* What was acquired is there until it is committed.                       *)
AcquiredInv ==
  /\ reader \in {"acquired", "copied"} =>
       /\ readable \in 1..Held
       /\ encodedReadOffset.at + readable <= SubbufferSize
  /\ reader = "copied" =>
       scratchRead = [i \in 1..readable |-> cells[encodedReadOffset.at + i - 1]]
  /\ writer \in {"acquired", "copied"} =>
       /\ writable \in 1..(SubbufferSize - Held)
       /\ encodedWriteOffset.at + writable <= SubbufferSize
  /\ writer = "copied" =>
       \A i \in 1..writable : cells[encodedWriteOffset.at + i - 1] = sent + i

RingInv == RingTypeOK /\ HeldInv /\ SeenInv /\ AcquiredInv
================================================================================
