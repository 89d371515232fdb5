----------------------------- MODULE MaRing_proofs -----------------------------
(***************************************************************************)
(* Proofs about miniaudio's ring, for a buffer of any size and requests of *)
(* any length: the two memcpys never meet, and the ring is a queue.        *)
(***************************************************************************)
EXTENDS MaRing, SequenceTheorems, TLAPS

-----------------------------------------------------------------------------
(* Offsets.                                                                *)

(* Going on by no more than is left, past the end or not.                  *)
LEMMA AdvanceFacts ==
  ASSUME NEW o \in Offsets, NEW n \in Nat, o.at + n <= SubbufferSize
  PROVE  /\ Advance(o, n) \in Offsets
         /\ o.at + n < SubbufferSize =>
              Advance(o, n).at = o.at + n /\ Advance(o, n).loop = o.loop
         /\ o.at + n = SubbufferSize =>
              Advance(o, n).at = 0 /\ Advance(o, n).loop # o.loop
<1> USE RingAssumption DEF RingAssumption, Offsets
<1>1. o.at \in 0..(SubbufferSize - 1) /\ o.loop \in BOOLEAN
  OBVIOUS
<1>2. (~o.loop) \in BOOLEAN /\ (~o.loop) # o.loop
  BY <1>1, Zenon
<1>3. CASE o.at + n < SubbufferSize
  <2>1. Advance(o, n) = [at |-> o.at + n, loop |-> o.loop]
    BY <1>1, <1>3 DEF Advance
  <2>2. o.at + n \in 0..(SubbufferSize - 1) /\ o.at + n # SubbufferSize
    BY <1>1, <1>3
  <2> QED
    BY <1>1, <2>1, <2>2
<1>4. CASE o.at + n = SubbufferSize
  <2>1. ~(o.at + n > SubbufferSize) /\ ~(o.at + n < SubbufferSize)
    BY <1>1, <1>4
  <2>2. Advance(o, n) = [at |-> 0, loop |-> ~o.loop]
    BY <1>4, <2>1, Zenon DEF Advance
  <2>3. PICK flipped \in BOOLEAN :
          flipped # o.loop /\ Advance(o, n) = [at |-> 0, loop |-> flipped]
    BY <1>2, <2>2, Zenon
  <2> QED
    BY <2>1, <2>3
<1> QED
  BY <1>1, <1>3, <1>4

(* A flag that differs from a second differs from a third or equals it.    *)
LEMMA TwoFlags ==
  ASSUME NEW a \in BOOLEAN, NEW b \in BOOLEAN, NEW c \in BOOLEAN, a # b, c # b
  PROVE  a = c
BY Zenon

(* The parts of the offsets, for the steps that only count.                *)
LEMMA OffsetParts ==
  ASSUME RingTypeOK
  PROVE  /\ encodedReadOffset.at \in 0..(SubbufferSize - 1)
         /\ encodedWriteOffset.at \in 0..(SubbufferSize - 1)
         /\ seenRead.at \in 0..(SubbufferSize - 1) /\ seenWrite.at \in 0..(SubbufferSize - 1)
         /\ encodedReadOffset.loop \in BOOLEAN /\ encodedWriteOffset.loop \in BOOLEAN
         /\ seenRead.loop \in BOOLEAN /\ seenWrite.loop \in BOOLEAN
         /\ SubbufferSize \in Nat \ {0}
BY RingAssumption DEF RingTypeOK, Offsets, RingAssumption

-----------------------------------------------------------------------------
(* What the ring holds.                                                    *)

(* It never holds more than it can.                                        *)
LEMMA HeldRange ==
  ASSUME RingTypeOK, HeldInv
  PROVE  Held \in 0..SubbufferSize
<1>1. CASE encodedReadOffset.loop = encodedWriteOffset.loop
  BY <1>1, OffsetParts DEF HeldInv, Held
<1>2. CASE encodedReadOffset.loop # encodedWriteOffset.loop
  BY <1>2, OffsetParts DEF HeldInv, Held
<1> QED
  BY <1>1, <1>2

(* The ith frame is in a cell of the buffer, and the cells of two frames   *)
(* differ.                                                                 *)
LEMMA CellsOfFrames ==
  ASSUME RingTypeOK, HeldInv, NEW i \in 1..Held
  PROVE  /\ CellOf(i) \in 0..(SubbufferSize - 1)
         /\ encodedReadOffset.loop = encodedWriteOffset.loop =>
              CellOf(i) \in encodedReadOffset.at..(encodedWriteOffset.at - 1)
         /\ encodedReadOffset.loop # encodedWriteOffset.loop =>
              CellOf(i) \notin encodedWriteOffset.at..(encodedReadOffset.at - 1)
BY OffsetParts, HeldRange DEF CellOf, Held, HeldInv

(* Reading takes frames from the front.                                    *)
LEMMA AfterRead ==
  ASSUME RingInv, reader = "copied",
         encodedReadOffset' = Advance(encodedReadOffset, readable),
         encodedWriteOffset' = encodedWriteOffset
  PROVE  /\ encodedReadOffset' \in Offsets
         /\ Held' = Held - readable
         /\ \A i \in 1..Held' : CellOf(i)' = CellOf(i + readable)
         /\ encodedReadOffset'.loop = encodedWriteOffset.loop =>
              encodedReadOffset'.at <= encodedWriteOffset.at
         /\ encodedReadOffset'.loop # encodedWriteOffset.loop =>
              encodedWriteOffset.at <= encodedReadOffset'.at
<1> USE OffsetParts, HeldRange DEF RingInv
<1>1. /\ readable \in 1..Held
      /\ encodedReadOffset.at + readable <= SubbufferSize
      /\ encodedReadOffset \in Offsets /\ readable \in Nat
  BY DEF AcquiredInv, RingTypeOK
<1>2. encodedReadOffset' \in Offsets
  BY <1>1, AdvanceFacts
<1>3. CASE encodedReadOffset.at + readable < SubbufferSize
  <2>1. /\ encodedReadOffset'.at = encodedReadOffset.at + readable
        /\ encodedReadOffset'.loop = encodedReadOffset.loop
    BY <1>1, <1>3, AdvanceFacts
  <2>2. Held' = Held - readable
    BY <1>1, <2>1 DEF Held
  <2>3. \A i \in 1..Held' : CellOf(i)' = CellOf(i + readable)
    BY <1>1, <2>1, <2>2 DEF CellOf
  <2> QED
    BY <1>1, <1>2, <2>1, <2>2, <2>3 DEF Held, HeldInv
<1>4. CASE encodedReadOffset.at + readable = SubbufferSize
  <2>1. encodedReadOffset'.at = 0 /\ encodedReadOffset'.loop # encodedReadOffset.loop
    BY <1>1, <1>4, AdvanceFacts
  <2>2. encodedReadOffset.loop # encodedWriteOffset.loop
    BY <1>1, <1>4 DEF Held
  <2>3. encodedReadOffset'.loop \in BOOLEAN
    BY <1>2 DEF Offsets
  <2>4. encodedReadOffset'.loop = encodedWriteOffset.loop
    BY <2>1, <2>2, <2>3, TwoFlags
  <2>5. Held' = Held - readable
    BY <1>1, <1>4, <2>1, <2>2, <2>4 DEF Held
  <2>6. \A i \in 1..Held' : CellOf(i)' = CellOf(i + readable)
    BY <1>1, <1>4, <2>1, <2>2, <2>5 DEF CellOf, Held
  <2> QED
    BY <1>2, <2>1, <2>4, <2>5, <2>6
<1> QED
  BY <1>1, <1>3, <1>4

(* Where the writer's frames go is where the ring will have them.          *)
LEMMA NextCells ==
  ASSUME RingInv, writer \in {"acquired", "copied"}, NEW j \in 1..writable
  PROVE  CellOf(Held + j) = encodedWriteOffset.at + j - 1
<1> USE OffsetParts, HeldRange DEF RingInv
<1>1. /\ writable \in 1..(SubbufferSize - Held) /\ writable \in Nat
      /\ encodedWriteOffset.at + writable <= SubbufferSize
  BY DEF AcquiredInv, RingTypeOK
<1>2. CASE encodedReadOffset.loop = encodedWriteOffset.loop
  BY <1>1, <1>2 DEF CellOf, Held
<1>3. CASE encodedReadOffset.loop # encodedWriteOffset.loop
  BY <1>1, <1>3 DEF CellOf, Held
<1> QED
  BY <1>2, <1>3

(* Writing adds frames at the end.                                         *)
LEMMA AfterWrite ==
  ASSUME RingInv, writer = "copied",
         encodedWriteOffset' = Advance(encodedWriteOffset, writable),
         encodedReadOffset' = encodedReadOffset
  PROVE  /\ encodedWriteOffset' \in Offsets
         /\ Held' = Held + writable
         /\ \A i \in 1..Held' : CellOf(i)' = CellOf(i)
         /\ encodedReadOffset.loop = encodedWriteOffset'.loop =>
              encodedReadOffset.at <= encodedWriteOffset'.at
         /\ encodedReadOffset.loop # encodedWriteOffset'.loop =>
              encodedWriteOffset'.at <= encodedReadOffset.at
<1> USE OffsetParts, HeldRange DEF RingInv
<1>1. /\ writable \in 1..(SubbufferSize - Held)
      /\ encodedWriteOffset.at + writable <= SubbufferSize
      /\ encodedWriteOffset \in Offsets /\ writable \in Nat
  BY DEF AcquiredInv, RingTypeOK
<1>2. encodedWriteOffset' \in Offsets
  BY <1>1, AdvanceFacts
<1>3. \A i \in 1..Held' : CellOf(i)' = CellOf(i)
  BY DEF CellOf
<1>4. CASE encodedWriteOffset.at + writable < SubbufferSize
  <2>1. /\ encodedWriteOffset'.at = encodedWriteOffset.at + writable
        /\ encodedWriteOffset'.loop = encodedWriteOffset.loop
    BY <1>1, <1>4, AdvanceFacts
  <2>2. Held' = Held + writable
    BY <1>1, <2>1 DEF Held
  <2> QED
    BY <1>1, <1>2, <1>3, <2>1, <2>2 DEF Held, HeldInv
<1>5. CASE encodedWriteOffset.at + writable = SubbufferSize
  <2>1. encodedWriteOffset'.at = 0 /\ encodedWriteOffset'.loop # encodedWriteOffset.loop
    BY <1>1, <1>5, AdvanceFacts
  <2>2. encodedReadOffset.loop = encodedWriteOffset.loop
    BY <1>1, <1>5 DEF Held
  <2>3. Held' = Held + writable
    BY <1>1, <1>5, <2>1, <2>2 DEF Held
  <2> QED
    BY <1>2, <1>3, <2>1, <2>2, <2>3
<1> QED
  BY <1>1, <1>4, <1>5

-----------------------------------------------------------------------------
(* The invariant is inductive.  The reader's steps first.                  *)

(* An empty ring is well formed.                                           *)
LEMMA RingStarts == RingInit => RingInv
<1> SUFFICES ASSUME RingInit PROVE RingInv
  OBVIOUS
<1> USE RingAssumption DEF RingAssumption
<1>1. Start \in Offsets /\ Start.at = 0
  BY DEF Start, Offsets
<1>2. Held = 0
  BY <1>1 DEF RingInit, Held
<1>3. RingTypeOK
  BY <1>1 DEF RingInit, RingTypeOK
<1>4. HeldInv
  BY <1>1, <1>2 DEF RingInit, HeldInv
<1>5. SeenInv /\ AcquiredInv
  BY DEF RingInit, SeenInv, AcquiredInv
<1> QED
  BY <1>3, <1>4, <1>5 DEF RingInv

(* What the ring holds depends on the offsets, the cells and the count.    *)
LEMMA HeldStays ==
  ASSUME HeldInv, UNCHANGED <<encodedReadOffset, encodedWriteOffset, cells, sent>>
  PROVE  HeldInv' /\ Held' = Held /\ \A i \in 1..Held : CellOf(i)' = CellOf(i)
BY DEF HeldInv, Held, CellOf

(* Reading the offset of the other side is to see how much there is.       *)
LEMMA LoadWriteOffsetStep ==
  ASSUME RingInv, NEW want \in Wants, LoadWriteOffset(want)
  PROVE  RingInv'
<1> USE DEF RingInv, LoadWriteOffset, writeSide
<1>1. RingTypeOK'
  BY RingAssumption DEF RingAssumption, RingTypeOK
<1>2. HeldInv' /\ Held' = Held
  BY HeldStays
<1>3. SeenInv'
  BY OffsetParts, HeldStays DEF SeenInv, HeldInv
<1>4. AcquiredInv'
  BY <1>2 DEF AcquiredInv
<1> QED
  BY <1>1, <1>2, <1>3, <1>4

(* What is acquired for reading was written, and is not yet read.          *)
LEMMA AcquireReadStep ==
  ASSUME RingInv, AcquireRead
  PROVE  RingInv'
<1> USE DEF RingInv, AcquireRead, writeSide
<1> DEFINE there == BytesToRead(encodedReadOffset, seenWrite)
<1>1. /\ there \in 0..Held
      /\ encodedReadOffset.at + there <= SubbufferSize
  <2>1. CASE seenWrite.loop = encodedReadOffset.loop
    BY <2>1, OffsetParts, HeldRange DEF BytesToRead, SeenInv, Held
  <2>2. CASE seenWrite.loop # encodedReadOffset.loop
    BY <2>2, OffsetParts, HeldRange DEF BytesToRead, SeenInv, Held
  <2> QED
    BY <2>1, <2>2
<1>2. readable' \in 0..there
  BY <1>1, HeldRange DEF AtMostOf, RingTypeOK
<1>3. HeldInv' /\ Held' = Held
  BY HeldStays
<1>4. RingTypeOK'
  BY <1>1, <1>2, HeldRange DEF RingTypeOK
<1>5. SeenInv'
  BY DEF SeenInv
<1>6. AcquiredInv'
  BY <1>1, <1>2, <1>3, OffsetParts, HeldRange DEF AcquiredInv
<1> QED
  BY <1>3, <1>4, <1>5, <1>6

(* Copying out of the ring changes nothing in it.                          *)
LEMMA CopyOutOfRingStep ==
  ASSUME RingInv, CopyOutOfRing
  PROVE  RingInv'
<1> USE DEF RingInv, CopyOutOfRing, writeSide
<1>1. HeldInv' /\ Held' = Held
  BY HeldStays
<1>2. scratchRead' \in Seq(Nat)
  <2>1. \A i \in 1..readable : encodedReadOffset.at + i - 1 \in 0..(SubbufferSize - 1)
    BY OffsetParts, SMTT(30) DEF RingTypeOK, AcquiredInv
  <2> QED
    BY <2>1 DEF RingTypeOK
<1>3. RingTypeOK'
  BY <1>2 DEF RingTypeOK
<1>4. SeenInv' /\ AcquiredInv'
  BY <1>1 DEF SeenInv, AcquiredInv
<1> QED
  BY <1>1, <1>3, <1>4

(* Committing a read gives its cells back to the writer.                   *)
LEMMA CommitReadStep ==
  ASSUME RingInv, CommitRead
  PROVE  RingInv'
<1> USE DEF RingInv, CommitRead, writeSide
<1> USE AfterRead, OffsetParts, HeldRange
<1>1. readable \in 1..Held /\ encodedReadOffset.at + readable <= SubbufferSize
  BY DEF AcquiredInv
<1>2. RingTypeOK'
  BY DEF RingTypeOK
<1>3. HeldInv'
  <2>1. \A i \in 1..Held' : cells[CellOf(i)'] = sent - Held' + i
    <3> TAKE i \in 1..Held'
    <3>1. i + readable \in 1..Held /\ CellOf(i)' = CellOf(i + readable)
      BY <1>1
    <3>2. cells[CellOf(i + readable)] = sent - Held + (i + readable)
      BY <3>1 DEF HeldInv
    <3> QED
      BY <1>1, <3>1, <3>2 DEF RingTypeOK
  <2> QED
    BY <1>1, <2>1, SMTT(30) DEF HeldInv, RingTypeOK
<1>4. SeenInv'
  <2>1. ASSUME writer = "acquiring", seenRead.loop = encodedWriteOffset.loop
        PROVE  encodedReadOffset'.loop = seenRead.loop
    <3>1. encodedReadOffset.at + readable < SubbufferSize
      BY <1>1, <2>1 DEF SeenInv, Held
    <3>2. encodedReadOffset'.loop = encodedReadOffset.loop
      BY <1>1, <3>1, AdvanceFacts DEF RingTypeOK
    <3> QED
      BY <2>1, <3>2 DEF SeenInv
  <2>2. ASSUME writer = "acquiring", seenRead.loop # encodedWriteOffset.loop,
               encodedReadOffset'.loop = seenRead.loop
        PROVE  seenRead.at <= encodedReadOffset'.at
    <3>1. CASE encodedReadOffset.at + readable < SubbufferSize
      BY <1>1, <2>2, <3>1, AdvanceFacts DEF SeenInv, RingTypeOK
    <3>2. CASE encodedReadOffset.at + readable = SubbufferSize
      <4>1. encodedReadOffset'.loop # encodedReadOffset.loop
        BY <1>1, <3>2, AdvanceFacts DEF RingTypeOK
      <4>2. encodedReadOffset.loop # encodedWriteOffset.loop
        BY <1>1, <3>2 DEF Held
      <4>3. encodedReadOffset'.loop = encodedWriteOffset.loop
        BY <4>1, <4>2, TwoFlags, <1>2 DEF RingTypeOK, Offsets
      <4> QED
        BY <2>2, <4>3
    <3> QED
      BY <1>1, <3>1, <3>2
  <2> QED
    BY <2>1, <2>2 DEF SeenInv
<1>5. AcquiredInv'
  BY <1>1, SMTT(30) DEF AcquiredInv, RingTypeOK
<1> QED
  BY <1>2, <1>3, <1>4, <1>5

-----------------------------------------------------------------------------
(* The writer's steps.                                                     *)

(* The writer sees how much room there is.                                 *)
LEMMA LoadReadOffsetStep ==
  ASSUME RingInv, NEW want \in Wants, LoadReadOffset(want)
  PROVE  RingInv'
<1> USE DEF RingInv, LoadReadOffset, readSide
<1>1. RingTypeOK'
  BY RingAssumption DEF RingAssumption, RingTypeOK
<1>2. HeldInv' /\ Held' = Held
  BY HeldStays
<1>3. SeenInv'
  BY OffsetParts, HeldStays DEF SeenInv, HeldInv
<1>4. AcquiredInv'
  BY <1>2 DEF AcquiredInv
<1> QED
  BY <1>1, <1>2, <1>3, <1>4

(* What is acquired for writing holds nothing that is yet to be read.      *)
LEMMA AcquireWriteStep ==
  ASSUME RingInv, AcquireWrite
  PROVE  RingInv'
<1> USE DEF RingInv, AcquireWrite, readSide
<1> DEFINE room == BytesToWrite(encodedWriteOffset, seenRead)
<1>1. /\ room \in 0..(SubbufferSize - Held)
      /\ encodedWriteOffset.at + room <= SubbufferSize
  <2>1. CASE seenRead.loop = encodedWriteOffset.loop
    BY <2>1, OffsetParts, HeldRange DEF BytesToWrite, SeenInv, Held
  <2>2. CASE seenRead.loop # encodedWriteOffset.loop /\ encodedReadOffset.loop = seenRead.loop
    BY <2>2, OffsetParts, HeldRange DEF BytesToWrite, SeenInv, Held
  <2>3. CASE seenRead.loop # encodedWriteOffset.loop /\ encodedReadOffset.loop # seenRead.loop
    <3>1. encodedReadOffset.loop = encodedWriteOffset.loop
      BY <2>3, OffsetParts, TwoFlags
    <3> QED
      BY <2>3, <3>1, OffsetParts, HeldRange DEF BytesToWrite, SeenInv, Held
  <2> QED
    BY <2>1, <2>2, <2>3
<1>2. writable' \in 0..room
  BY <1>1, OffsetParts, HeldRange, SMTT(30) DEF AtMostOf, RingTypeOK
<1>3. HeldInv' /\ Held' = Held
  BY HeldStays
<1>4. RingTypeOK'
  BY <1>1, <1>2, OffsetParts, HeldRange DEF RingTypeOK
<1>5. SeenInv'
  BY DEF SeenInv
<1>6. AcquiredInv'
  BY <1>1, <1>2, <1>3, OffsetParts, HeldRange DEF AcquiredInv
<1> QED
  BY <1>3, <1>4, <1>5, <1>6

(* Nothing the ring holds is where the writer may write.                   *)
LEMMA HeldIsElsewhere ==
  ASSUME RingInv, writer \in {"acquired", "copied"}, NEW i \in 1..Held
  PROVE  CellOf(i) \notin encodedWriteOffset.at..(encodedWriteOffset.at + writable - 1)
<1> USE OffsetParts, HeldRange, CellsOfFrames DEF RingInv
<1>1. /\ writable \in 1..(SubbufferSize - Held) /\ writable \in Nat
      /\ encodedWriteOffset.at + writable <= SubbufferSize
  BY DEF AcquiredInv, RingTypeOK
<1>2. CASE encodedReadOffset.loop = encodedWriteOffset.loop
  BY <1>1, <1>2
<1>3. CASE encodedReadOffset.loop # encodedWriteOffset.loop
  BY <1>1, <1>3 DEF Held
<1> QED
  BY <1>2, <1>3

(* The frames a reader has acquired are the first the ring holds.          *)
LEMMA FirstCells ==
  ASSUME RingInv, reader \in {"acquired", "copied"}, NEW i \in 1..readable
  PROVE  i \in 1..Held /\ CellOf(i) = encodedReadOffset.at + i - 1
BY OffsetParts, HeldRange DEF RingInv, AcquiredInv, CellOf

(* Copying into the ring touches no cell that is held.                     *)
LEMMA CopyIntoRingStep ==
  ASSUME RingInv, CopyIntoRing
  PROVE  /\ RingInv'
         /\ Held' = Held
         /\ \A i \in 1..Held : CellOf(i)' = CellOf(i) /\ cells'[CellOf(i)] = cells[CellOf(i)]
<1> USE DEF RingInv, CopyIntoRing, readSide
<1>1. /\ writable \in 1..(SubbufferSize - Held) /\ writable \in Nat /\ sent \in Nat
      /\ encodedWriteOffset.at + writable <= SubbufferSize
      /\ cells \in [0..(SubbufferSize - 1) -> Nat]
  BY DEF AcquiredInv, RingTypeOK
<1>2. \A c \in 0..(SubbufferSize - 1) :
        cells'[c] = IF c \in encodedWriteOffset.at..(encodedWriteOffset.at + writable - 1)
                    THEN sent + c - encodedWriteOffset.at + 1 ELSE cells[c]
  BY <1>1
<1>3. cells' \in [0..(SubbufferSize - 1) -> Nat]
  <2>1. \A c \in 0..(SubbufferSize - 1) : cells'[c] \in Nat
    <3> TAKE c \in 0..(SubbufferSize - 1)
    <3>1. c \in Int /\ cells[c] \in Nat /\ encodedWriteOffset.at \in Nat
      BY <1>1, OffsetParts
    <3> QED
      BY <1>1, <1>2, <3>1
  <2>2. DOMAIN cells = 0..(SubbufferSize - 1)
    BY <1>1
  <2> QED
    BY <2>1, <2>2
<1>4. Held' = Held /\ \A i \in 1..Held : CellOf(i)' = CellOf(i)
  BY DEF Held, CellOf
<1>5. \A i \in 1..Held : cells'[CellOf(i)] = cells[CellOf(i)]
  BY <1>2, HeldIsElsewhere, CellsOfFrames
<1>6. RingTypeOK'
  BY <1>3 DEF RingTypeOK
<1>7. HeldInv'
  BY <1>4, <1>5 DEF HeldInv
<1>8. SeenInv'
  BY DEF SeenInv
<1>9. AcquiredInv'
  <2>1. ASSUME reader = "copied"
        PROVE  scratchRead = [i \in 1..readable |-> cells'[encodedReadOffset.at + i - 1]]
    <3>1. \A i \in 1..readable :
            cells'[encodedReadOffset.at + i - 1] = cells[encodedReadOffset.at + i - 1]
      <4> TAKE i \in 1..readable
      <4>1. i \in 1..Held /\ CellOf(i) = encodedReadOffset.at + i - 1
        BY <2>1, FirstCells
      <4> QED
        BY <1>5, <4>1
    <3> QED
      BY <2>1, <3>1 DEF AcquiredInv
  <2>2. \A i \in 1..writable : cells'[encodedWriteOffset.at + i - 1] = sent + i
    <3> TAKE i \in 1..writable
    <3> DEFINE c == encodedWriteOffset.at + i - 1
    <3>1. /\ c \in 0..(SubbufferSize - 1)
          /\ c \in encodedWriteOffset.at..(encodedWriteOffset.at + writable - 1)
          /\ sent + c - encodedWriteOffset.at + 1 = sent + i
      BY <1>1, OffsetParts, SMTT(30)
    <3>2. cells'[c] = sent + c - encodedWriteOffset.at + 1
      BY <1>2, <3>1
    <3> QED
      BY <3>1, <3>2
  <2> QED
    BY <1>4, <2>1, <2>2 DEF AcquiredInv
<1> QED
  BY <1>4, <1>5, <1>6, <1>7, <1>8, <1>9

(* Committing a write gives its cells to the reader.                       *)
LEMMA CommitWriteStep ==
  ASSUME RingInv, CommitWrite
  PROVE  RingInv'
<1> USE DEF RingInv, CommitWrite, readSide
<1> USE AfterWrite, OffsetParts, HeldRange
<1>1. /\ writable \in 1..(SubbufferSize - Held) /\ writable \in Nat /\ sent \in Nat
      /\ encodedWriteOffset.at + writable <= SubbufferSize
  BY DEF AcquiredInv, RingTypeOK
<1>2. RingTypeOK'
  BY <1>1 DEF RingTypeOK
<1>3. HeldInv'
  <2>1. ASSUME NEW i \in 1..Held'
        PROVE  cells[CellOf(i)'] = sent' - Held' + i
    <3>1. CASE i <= Held
      <4>1. i \in 1..Held
        BY <1>1, <3>1
      <4> QED
        BY <1>1, <4>1 DEF HeldInv
    <3>2. CASE i > Held
      <4>1. i - Held \in 1..writable /\ i = Held + (i - Held)
        BY <1>1, <3>2
      <4>2. CellOf(i) = encodedWriteOffset.at + (i - Held) - 1
        BY <4>1, NextCells
      <4>3. cells[encodedWriteOffset.at + (i - Held) - 1] = sent + (i - Held)
        BY <4>1 DEF AcquiredInv
      <4> QED
        BY <1>1, <4>1, <4>2, <4>3
    <3> QED
      BY <1>1, <3>1, <3>2
  <2> QED
    BY <1>1, <2>1 DEF HeldInv
<1>4. SeenInv'
  <2>1. CASE encodedWriteOffset.at + writable < SubbufferSize
    <3>1. /\ encodedWriteOffset'.at = encodedWriteOffset.at + writable
          /\ encodedWriteOffset'.loop = encodedWriteOffset.loop
      BY <1>1, <2>1, AdvanceFacts DEF RingTypeOK
    <3> QED
      BY <1>1, <3>1 DEF SeenInv
  <2>2. CASE encodedWriteOffset.at + writable = SubbufferSize
    <3>1. encodedWriteOffset'.loop # encodedWriteOffset.loop
      BY <1>1, <2>2, AdvanceFacts DEF RingTypeOK
    <3>2. encodedReadOffset.loop = encodedWriteOffset.loop
      BY <1>1, <2>2 DEF Held
    <3> QED
      BY <3>1, <3>2 DEF SeenInv
  <2> QED
    BY <1>1, <2>1, <2>2
<1>5. AcquiredInv'
  BY <1>1 DEF AcquiredInv, RingTypeOK
<1> QED
  BY <1>2, <1>3, <1>4, <1>5

(* No step of either side breaks the ring.                                 *)
LEMMA RingStep == RingInv /\ [RingNext]_maRingVars => RingInv'
<1> SUFFICES ASSUME RingInv, [RingNext]_maRingVars PROVE RingInv'
  OBVIOUS
<1>1. CASE \E want \in Wants : LoadWriteOffset(want) \/ LoadReadOffset(want)
  BY <1>1, LoadWriteOffsetStep, LoadReadOffsetStep
<1>2. CASE AcquireRead \/ CopyOutOfRing \/ CommitRead
  BY <1>2, AcquireReadStep, CopyOutOfRingStep, CommitReadStep
<1>3. CASE AcquireWrite \/ CopyIntoRing \/ CommitWrite
  BY <1>3, AcquireWriteStep, CopyIntoRingStep, CommitWriteStep
<1>4. CASE UNCHANGED maRingVars
  <2> USE <1>4 DEF RingInv, maRingVars, readSide, writeSide
  <2>1. HeldInv' /\ Held' = Held
    BY HeldStays
  <2>2. RingTypeOK'
    BY DEF RingTypeOK
  <2>3. SeenInv' /\ AcquiredInv'
    BY <2>1 DEF SeenInv, AcquiredInv
  <2> QED
    BY <2>1, <2>2, <2>3
<1> QED
  BY <1>1, <1>2, <1>3, <1>4 DEF RingNext

(* In every reachable state the ring holds the last frames sent, in order, *)
(* each acquired region is still there, and each loaded offset is one the  *)
(* other side had (miniaudio.h:58216-58372).                               *)
THEOREM RingInvariant == RingSpec => []RingInv
BY RingStarts, RingStep, PTL DEF RingSpec

(* Every variable of the ring keeps its type, its offsets inside the       *)
(* buffer among them.                                                      *)
THEOREM RingTypeCorrect == RingSpec => []RingTypeOK
BY RingInvariant, PTL DEF RingInv

-----------------------------------------------------------------------------
(* What it is for.                                                         *)

(* What is being read and what is being written are never the same cells.  *)
LEMMA RegionsApart == RingInv => RegionsAreDisjoint
<1> SUFFICES ASSUME RingInv PROVE RegionsAreDisjoint
  OBVIOUS
<1>1. ReadCells \subseteq 0..(SubbufferSize - 1)
  BY OffsetParts, SMTT(30) DEF RingInv, ReadCells, AcquiredInv, RingTypeOK
<1>2. WriteCells \subseteq 0..(SubbufferSize - 1)
  BY OffsetParts, SMTT(30) DEF RingInv, WriteCells, AcquiredInv, RingTypeOK
<1>3. ASSUME NEW c \in ReadCells, c \in WriteCells
      PROVE  FALSE
  <2> DEFINE i == c - encodedReadOffset.at + 1
  <2>1. /\ reader \in {"acquired", "copied"}
        /\ c \in encodedReadOffset.at..(encodedReadOffset.at + readable - 1)
    BY <1>3 DEF ReadCells
  <2>2. /\ writer \in {"acquired", "copied"}
        /\ c \in encodedWriteOffset.at..(encodedWriteOffset.at + writable - 1)
    BY <1>3 DEF WriteCells
  <2>3. i \in 1..readable /\ c = encodedReadOffset.at + i - 1
    <3>1. encodedReadOffset.at \in Nat /\ readable \in Nat
      BY OffsetParts DEF RingInv, RingTypeOK
    <3> QED
      BY <2>1, <3>1
  <2>4. i \in 1..Held /\ CellOf(i) = c
    BY <2>1, <2>3, FirstCells
  <2> QED
    BY <2>2, <2>4, HeldIsElsewhere
<1> QED
  BY <1>1, <1>2, <1>3 DEF RegionsAreDisjoint

(* The memcpy of the audio thread and that of the reader never touch one   *)
(* cell at once, and neither leaves the buffer (audioio.c:133-146,241-257).*)
THEOREM RegionsNeverMeet == RingSpec => []RegionsAreDisjoint
BY RingInvariant, RegionsApart, PTL

-----------------------------------------------------------------------------
(* The ring implements the queue.                                          *)

(* An empty ring is an empty queue.                                        *)
LEMMA QueueStarts == RingInit => Queue!QueueInit
<1> SUFFICES ASSUME RingInit PROVE Queue!QueueInit
  OBVIOUS
<1>1. Held = 0
  BY DEF RingInit, Held, Start
<1>2. FramesHeld = << >>
  BY <1>1 DEF FramesHeld
<1> QED
  BY <1>2 DEF RingInit, Queue!QueueInit

(* What the ring holds is a sequence of the numbers of the last frames.    *)
LEMMA FramesHeldFacts ==
  RingInv => /\ FramesHeld \in Seq(Nat) /\ Len(FramesHeld) = Held
             /\ FramesHeld = [i \in 1..Held |-> sent - Held + i]
<1> SUFFICES ASSUME RingInv
             PROVE  /\ FramesHeld \in Seq(Nat) /\ Len(FramesHeld) = Held
                    /\ FramesHeld = [i \in 1..Held |-> sent - Held + i]
  OBVIOUS
<1> USE HeldRange, OffsetParts DEF RingInv
<1>1. \A i \in 1..Held : cells[CellOf(i)] = sent - Held + i
  BY DEF HeldInv
<1>2. FramesHeld = [i \in 1..Held |-> sent - Held + i]
  BY <1>1 DEF FramesHeld
<1>3. Held \in Nat /\ sent \in Nat /\ Held <= sent
  BY DEF RingTypeOK, HeldInv
<1>4. \A i \in 1..Held : sent - Held + i \in Nat
  BY <1>3
<1>5. [i \in 1..Held |-> sent - Held + i] \in Seq(Nat)
  BY <1>3, <1>4
<1> QED
  BY <1>2, <1>3, <1>5

(* Committing a read takes the first frames.                               *)
LEMMA CommitReadTakes ==
  ASSUME RingInv, CommitRead
  PROVE  Queue!Take
<1> USE OffsetParts, HeldRange DEF RingInv
<1>1. readable \in 1..Held /\ readable \in Nat /\ Held \in Nat /\ sent \in Nat
  BY DEF AcquiredInv, RingTypeOK, CommitRead
<1>2. Held' = Held - readable /\ RingInv' /\ sent' = sent
  BY AfterRead, CommitReadStep DEF CommitRead, writeSide
<1>3. FramesHeld' = [i \in 1..(Held - readable) |-> sent - (Held - readable) + i]
  <2>1. (RingInv => FramesHeld = [i \in 1..Held |-> sent - Held + i])'
    BY FramesHeldFacts, PTL
  <2> QED
    BY <1>2, <2>1
<1>4. readOut' = [i \in 1..readable |-> sent - Held + i]
  <2>1. readOut' = [i \in 1..readable |-> cells[encodedReadOffset.at + i - 1]]
    BY DEF CommitRead, AcquiredInv
  <2>2. \A i \in 1..readable : cells[encodedReadOffset.at + i - 1] = sent - Held + i
    <3> TAKE i \in 1..readable
    <3>1. i \in 1..Held /\ CellOf(i) = encodedReadOffset.at + i - 1
      BY FirstCells DEF CommitRead
    <3> QED
      BY <3>1 DEF HeldInv
  <2> QED
    BY <2>1, <2>2
<1>5. FramesHeld = [i \in 1..Held |-> sent - Held + i] /\ Len(FramesHeld) = Held
  BY FramesHeldFacts
<1>6. SubSeq(FramesHeld, 1, readable) = readOut'
  BY <1>1, <1>4, <1>5
<1>7. SubSeq(FramesHeld, readable + 1, Held) = FramesHeld'
  BY <1>1, <1>3, <1>5
<1> QED
  BY <1>1, <1>2, <1>5, <1>6, <1>7 DEF Queue!Take

(* Committing a write puts new frames at the end.                          *)
LEMMA CommitWritePuts ==
  ASSUME RingInv, CommitWrite
  PROVE  Queue!Put
<1> USE OffsetParts, HeldRange DEF RingInv
<1>1. /\ writable \in 1..(SubbufferSize - Held) /\ writable \in Nat
      /\ Held \in Nat /\ sent \in Nat /\ Held <= sent
  BY DEF AcquiredInv, RingTypeOK, CommitWrite, HeldInv
<1>2. Held' = Held + writable /\ RingInv' /\ sent' = sent + writable
  BY AfterWrite, CommitWriteStep DEF CommitWrite, readSide
<1>3. FramesHeld' = [i \in 1..(Held + writable) |-> (sent + writable) - (Held + writable) + i]
  <2>1. (RingInv => FramesHeld = [i \in 1..Held |-> sent - Held + i])'
    BY FramesHeldFacts, PTL
  <2> QED
    BY <1>2, <2>1
<1>4. FramesHeld = [i \in 1..Held |-> sent - Held + i] /\ Len(FramesHeld) = Held
  BY FramesHeldFacts
<1>5. FramesHeld' = FramesHeld \o [i \in 1..writable |-> sent + i]
  BY <1>1, <1>3, <1>4
<1> QED
  BY <1>1, <1>2, <1>4, <1>5 DEF Queue!Put, CommitWrite, readSide

(* Every other step leaves the queue as it is.                             *)
LEMMA OtherStepsStutter ==
  ASSUME RingInv, Held' = Held, UNCHANGED <<sent, readOut>>,
         \A i \in 1..Held : cells'[CellOf(i)'] = cells[CellOf(i)]
  PROVE  UNCHANGED <<FramesHeld, sent, readOut>>
BY DEF FramesHeld

(* A commit puts frames or takes them, and every other step of the ring is *)
(* a stutter of the queue.                                                 *)
LEMMA QueueStep ==
  RingInv /\ [RingNext]_maRingVars
    => [Queue!Put \/ Queue!Take]_<<FramesHeld, sent, readOut>>
<1> SUFFICES ASSUME RingInv, [RingNext]_maRingVars
             PROVE  [Queue!Put \/ Queue!Take]_<<FramesHeld, sent, readOut>>
  OBVIOUS
<1>1. CASE CommitRead
  BY <1>1, CommitReadTakes
<1>2. CASE CommitWrite
  BY <1>2, CommitWritePuts
<1>3. CASE CopyIntoRing
  BY <1>3, CopyIntoRingStep, OtherStepsStutter DEF CopyIntoRing, readSide
<1>4. CASE UNCHANGED <<encodedReadOffset, encodedWriteOffset, cells, sent, readOut>>
  BY <1>4, HeldStays, OtherStepsStutter DEF RingInv
<1>5. CASE \E want \in Wants : LoadWriteOffset(want) \/ LoadReadOffset(want)
  BY <1>4, <1>5 DEF LoadWriteOffset, LoadReadOffset, readSide, writeSide
<1>6. CASE AcquireRead \/ CopyOutOfRing \/ AcquireWrite
  BY <1>4, <1>6 DEF AcquireRead, CopyOutOfRing, AcquireWrite, readSide, writeSide
<1>7. CASE UNCHANGED maRingVars
  BY <1>4, <1>7 DEF maRingVars, readSide, writeSide
<1> QED
  BY <1>1, <1>2, <1>3, <1>5, <1>6, <1>7 DEF RingNext

(* Frames come out of the ring once each and in the order they went in,    *)
(* and no more wait than fit: it implements FrameQueue                     *)
(* (miniaudio.h:58216-58372, audioio.c:133-146,241-257).                   *)
THEOREM RingImplementsQueue == RingSpec => RingIsAQueue
<1>1. RingInit => Queue!QueueInit
  BY QueueStarts
<1>2. RingInv /\ [RingNext]_maRingVars
        => [Queue!Put \/ Queue!Take]_<<FramesHeld, sent, readOut>>
  BY QueueStep
<1> QED
  BY <1>1, <1>2, RingInvariant, PTL DEF RingSpec, RingIsAQueue, Queue!QueueSpec
================================================================================
