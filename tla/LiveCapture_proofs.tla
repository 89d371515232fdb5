--------------------------- MODULE LiveCapture_proofs --------------------------
(***************************************************************************)
(* Proofs about a live recording, for a ring, a window, buffers and a      *)
(* recording of any length.                                                *)
(***************************************************************************)
EXTENDS LiveCapture, SequenceTheorems, TLAPS

-----------------------------------------------------------------------------
(* stop is a Boolean apart from the rest: it takes another prover.         *)
StopOK == stop \in BOOLEAN

(* The token is a flag.                                                    *)
LEMMA StopStep == ASSUME StopOK, [CaptureNext]_captureVars PROVE StopOK'
<1>1. stop' = stop \/ stop' = TRUE
  BY Zenon DEF CaptureNext, OnFrames, DeviceStep, PlaceFrames, DropFrames, PumpStep, PumpLoop,
     BeginRead, ReadFrames, EndRead, Delay, DelayCancelled, ReportLevel, EngineStep,
     AskPolicy, Push, PolicyFails, PushFails, Recording, CreateSession, OpenDevice, StartStream,
     StartDevice, StopRecording, OwnerStep, AttachCallbacks, AwaitPump, BeginHalt, EndHalt,
     FinishStream,
     BeginClose, EndClose, FreeSession, captureVars
<1> QED
  BY <1>1, Zenon DEF StopOK

(* The control of the four threads.                                        *)
LEMMA ControlStep == ASSUME ControlInv, [CaptureNext]_captureVars PROVE ControlInv'
<1> USE DEF ControlInv, NothingUsedAfterFree
<1>1. CASE \E count \in BufferSizes : OnFrames(count)
  BY <1>1 DEF OnFrames, pumpVars
<1>2. CASE DeviceStep
  BY <1>2 DEF DeviceStep, PlaceFrames, DropFrames, pumpVars
<1>3. CASE PumpStep
  BY <1>3 DEF PumpStep, PumpLoop, BeginRead, ReadFrames, EndRead, Delay, DelayCancelled,
              ReportLevel, ringVars
<1>4. CASE EngineStep
  BY <1>4 DEF EngineStep, AskPolicy, Push, PolicyFails, PushFails, ringVars
<1>5. CASE Recording
  <2>1. CASE CreateSession
    BY <2>1 DEF CreateSession, OwnerGoes, ringVars, pumpVars
  <2>2. CASE OpenDevice
    BY <2>2 DEF OpenDevice, OwnerGoes, ringVars, pumpVars
  <2>3. CASE StartStream
    BY <2>3 DEF StartStream, OwnerGoes, ringVars, pumpVars
  <2>4. CASE StartDevice
    BY <2>4 DEF StartDevice, OwnerGoes, ringVars, pumpVars
  <2>5. CASE StopRecording
    <3>1. /\ owner = "recording" /\ owner' = "await"
          /\ UNCHANGED <<device, callback, gate, session, pump>>
      BY <2>5, Zenon DEF StopRecording, OwnerGoes, ringVars, pumpVars
    <3> QED
      BY <3>1
  <2> QED
    BY <1>5, <2>1, <2>2, <2>3, <2>4, <2>5 DEF Recording
<1>6. CASE OwnerStep
  BY <1>6 DEF OwnerStep, AttachCallbacks, AwaitPump, BeginHalt, EndHalt, FinishStream,
              BeginClose, EndClose,
              FreeSession, OwnerGoes, ringVars, pumpVars
<1>7. CASE UNCHANGED captureVars
  BY <1>7 DEF captureVars
<1> QED
  BY <1>1, <1>2, <1>3, <1>4, <1>5, <1>6, <1>7 DEF CaptureNext

-----------------------------------------------------------------------------
(* Frames on their way keep their order.                                   *)

(* A sequence is what was taken from its front and what was left.          *)
LEMMA SplitSeq ==
  ASSUME NEW S, NEW s \in Seq(S), NEW n \in 1..Len(s)
  PROVE  /\ SubSeq(s, 1, n) \in Seq(S) /\ SubSeq(s, n + 1, Len(s)) \in Seq(S)
         /\ Len(SubSeq(s, 1, n)) = n /\ Len(SubSeq(s, n + 1, Len(s))) = Len(s) - n
         /\ SubSeq(s, 1, n) \o SubSeq(s, n + 1, Len(s)) = s
<1>1. Len(s) \in Nat /\ \A i \in 1..Len(s) : s[i] \in S
  BY LenProperties, ElementOfSeq
<1>2. SubSeq(s, 1, n) \o SubSeq(s, n + 1, Len(s)) = SubSeq(s, 1, Len(s))
  BY <1>1, ConcatAdjacentSubSeq
<1>3. SubSeq(s, 1, Len(s)) = s
  BY SubSeqFull
<1>4. SubSeq(s, 1, n) \in Seq(S) /\ Len(SubSeq(s, 1, n)) = n
  BY <1>1, SubSeqProperties
<1>5. SubSeq(s, n + 1, Len(s)) \in Seq(S) /\ Len(SubSeq(s, n + 1, Len(s))) = Len(s) - n
  BY <1>1, SubSeqProperties
<1> QED
  BY <1>2, <1>3, <1>4, <1>5

(* The elements of a sequence that was added to.                           *)
LEMMA Joined ==
  ASSUME NEW S, NEW a \in Seq(S), NEW b \in Seq(S)
  PROVE  /\ Len(a \o b) = Len(a) + Len(b)
         /\ \A i \in 1..Len(a \o b) :
              (a \o b)[i] = IF i <= Len(a) THEN a[i] ELSE b[i - Len(a)]
BY ConcatProperties

(* The parts of what is kept can be grouped either way.                    *)
LEMMA Regroup ==
  ASSUME NEW S, NEW a \in Seq(S), NEW b \in Seq(S), NEW c \in Seq(S)
  PROVE  a \o (b \o c) = (a \o b) \o c
BY ConcatAssociative

(* What is kept is as long as its parts.                                   *)
LEMMA KeptType ==
  ASSUME FrameInv
  PROVE  /\ pushed \o pending \in Seq(Frames)
         /\ pushed \o pending \o scratch \in Seq(Frames)
         /\ Kept \in Seq(Frames)
         /\ Len(Kept) = Len(pushed) + Len(pending) + Len(scratch) + Len(ring)
         /\ Len(pushed) \in Nat /\ Len(pending) \in Nat /\ Len(scratch) \in Nat
         /\ Len(ring) \in Nat
<1> USE DEF FrameInv
<1>1. /\ pushed \o pending \in Seq(Frames)
      /\ Len(pushed \o pending) = Len(pushed) + Len(pending)
  BY ConcatProperties
<1>2. /\ pushed \o pending \o scratch \in Seq(Frames)
      /\ Len(pushed \o pending \o scratch) = Len(pushed \o pending) + Len(scratch)
  BY <1>1, ConcatProperties
<1>3. Kept \in Seq(Frames) /\ Len(Kept) = Len(pushed \o pending \o scratch) + Len(ring)
  BY <1>2, ConcatProperties DEF Kept
<1> QED
  BY <1>1, <1>2, <1>3, LenProperties

Places == <<scratch, pending, pushed, ring>>
Counts == <<delivered, remaining, callback, overruns, reported, writeAt>>

(* Most steps leave the frames where they are.                             *)
LEMMA FramesStay ==
  ASSUME FrameInv, UNCHANGED Places, UNCHANGED Counts
  PROVE  FrameInv'
<1>1. Kept' = Kept
  BY DEF Places, Kept
<1> QED
  BY <1>1 DEF FrameInv, FramesAccountedFor, Places, Counts

(* Others move them along, in order.                                       *)
LEMMA FramesMove ==
  ASSUME FrameInv, Kept' = Kept, UNCHANGED Counts,
         scratch' \in Seq(Frames), pending' \in Seq(Frames), pushed' \in Seq(Frames),
         ring' \in Seq(Frames), Len(ring') <= Capacity,
         Len(pending') + Len(scratch') <= Chunk
  PROVE  FrameInv'
BY DEF FrameInv, FramesAccountedFor, Counts

(* The device's frames are new ones.                                       *)
LEMMA PlaceStep == ASSUME FrameInv, PlaceFrames PROVE FrameInv'
<1> USE CaptureAssumption DEF CaptureAssumption
<1> DEFINE count == Shorter(remaining, Writable)
           first == delivered - remaining + 1
           new == [i \in 1..count |-> first + i - 1]
<1>1. /\ UNCHANGED <<scratch, pending, pushed, delivered, overruns, reported>>
      /\ Kept' = pushed \o pending \o scratch \o ring'
  BY DEF PlaceFrames, pumpVars, Kept
<1>2. Len(ring) \in Nat /\ Writable \in Nat /\ Writable <= Capacity - Len(ring)
  BY KeptType DEF FrameInv, Writable, Shorter
<1>3. count \in Nat /\ count <= remaining /\ count <= Capacity - Len(ring)
  BY <1>2 DEF FrameInv, Shorter
<1>4. CASE count = 0
  <2>1. UNCHANGED <<remaining, ring, writeAt>> /\ callback = "place" /\ callback' = "drop"
    BY <1>4 DEF PlaceFrames
  <2>2. Kept' = Kept
    BY <1>1, <2>1 DEF Kept
  <2> HIDE DEF count, first, new
  <2> QED
    BY <1>1, <2>1, <2>2 DEF FrameInv, FramesAccountedFor
<1>5. CASE count > 0
  <2>1. /\ ring' = ring \o new
        /\ writeAt' = (writeAt + count) % Capacity
        /\ remaining' = remaining - count
        /\ callback' = IF count < remaining THEN "place" ELSE "idle"
    BY <1>3, <1>5 DEF PlaceFrames
  <2>2. first \in Nat \ {0} /\ first + count - 1 <= delivered /\ delivered \in 0..MaxFrames
    BY <1>3 DEF FrameInv
  <2>3. /\ new \in Seq(Frames) /\ Len(new) = count
        /\ \A i \in 1..count : new[i] = first + i - 1
    BY <1>3, <2>2 DEF Frames
  <2> HIDE DEF new
  <2>4. /\ Kept \in Seq(Frames) /\ Len(Kept) \in Nat
        /\ Kept' = Kept \o new
    <3> DEFINE front == pushed \o pending \o scratch
    <3>1. front \in Seq(Frames) /\ ring \in Seq(Frames) /\ Kept \in Seq(Frames)
          /\ new \in Seq(Frames)
      BY KeptType, <2>3 DEF FrameInv
    <3>2. Kept = front \o ring /\ Kept' = front \o (ring \o new)
      BY <1>1, <2>1 DEF Kept
    <3> HIDE DEF front
    <3>3. front \o (ring \o new) = (front \o ring) \o new
      BY <3>1, Regroup
    <3> QED
      BY <3>1, <3>2, <3>3, LenProperties
  <2>5. /\ Len(Kept') = Len(Kept) + count
        /\ \A i \in 1..Len(Kept') : Kept'[i] = IF i <= Len(Kept) THEN Kept[i]
                                                ELSE new[i - Len(Kept)]
    <3>1. new \in Seq(Frames)
      BY <2>3
    <3>2. /\ Len(Kept \o new) = Len(Kept) + Len(new)
          /\ \A i \in 1..Len(Kept \o new) :
               (Kept \o new)[i] = IF i <= Len(Kept) THEN Kept[i] ELSE new[i - Len(Kept)]
      BY <2>4, <3>1, Joined
    <3> HIDE DEF count
    <3> QED
      BY <2>3, <2>4, <3>2
  <2>6. ring' \in Seq(Frames) /\ Len(ring') = Len(ring) + count
    BY <2>1, <2>3, ConcatProperties DEF FrameInv
  <2>7. writeAt' \in 0..(Capacity - 1)
    BY <1>3, <2>1 DEF FrameInv
  <2> HIDE DEF count, first
  <2>8. \A i \in 1..Len(Kept') : Kept'[i] <= delivered' - remaining'
    <3> SUFFICES ASSUME NEW i \in 1..Len(Kept') PROVE Kept'[i] <= delivered' - remaining'
      OBVIOUS
    <3>1. first = delivered - remaining + 1
      BY DEF first
    <3>2. CASE i <= Len(Kept)
      <4>1. Kept'[i] = Kept[i] /\ Kept[i] <= delivered - remaining /\ Kept[i] \in Nat
        BY <2>4, <2>5, <3>2, ElementOfSeq DEF FrameInv, Frames
      <4> QED
        BY <4>1, <1>1, <1>3, <2>1 DEF FrameInv
    <3>3. CASE i > Len(Kept)
      <4>1. Kept'[i] = first + (i - Len(Kept)) - 1 /\ i - Len(Kept) <= count
        BY <1>3, <2>3, <2>4, <2>5, <3>3
      <4> QED
        BY <4>1, <3>1, <1>1, <1>3, <2>1, <2>4 DEF FrameInv
    <3> QED
      BY <2>4, <3>2, <3>3
  <2>9. \A i \in 1..(Len(Kept') - 1) : Kept'[i] < Kept'[i + 1]
    <3> SUFFICES ASSUME NEW i \in 1..(Len(Kept') - 1) PROVE Kept'[i] < Kept'[i + 1]
      OBVIOUS
    <3>1. first = delivered - remaining + 1 /\ delivered \in Nat /\ remaining \in Nat
      BY DEF first, FrameInv
    <3>2. i \in 1..Len(Kept') /\ i + 1 \in 1..Len(Kept')
      BY <1>3, <2>4, <2>5
    <3>3. \A j \in 1..Len(Kept) : Kept[j] \in Nat /\ Kept[j] <= delivered - remaining
      BY <2>4, ElementOfSeq DEF FrameInv, Frames
    <3>4. CASE i + 1 <= Len(Kept)
      <4>1. Kept[i] < Kept[i + 1]
        BY <3>4, <2>4 DEF FrameInv, FramesAccountedFor
      <4> QED
        BY <4>1, <3>2, <3>4, <2>4, <2>5
    <3>5. CASE i + 1 > Len(Kept)
      <4>1. Kept'[i + 1] = first + (i + 1 - Len(Kept)) - 1
        BY <1>3, <2>3, <2>4, <2>5, <3>2, <3>5
      <4>2. CASE i <= Len(Kept)
        BY <4>1, <4>2, <3>1, <3>2, <3>3, <3>5, <2>4, <2>5
      <4>3. CASE i > Len(Kept)
        <5>1. Kept'[i] = first + (i - Len(Kept)) - 1
          BY <1>3, <2>3, <2>4, <2>5, <3>2, <4>3
        <5> QED
          BY <4>1, <5>1, <3>1, <2>4
      <4> QED
        BY <4>2, <4>3, <2>4
    <3> QED
      BY <3>4, <3>5, <2>4
  <2>10. Len(Kept') + remaining' + overruns' + reported' = delivered'
    <3>1. /\ delivered \in Nat /\ remaining \in Nat /\ overruns \in Nat /\ reported \in Nat
          /\ Len(Kept) + remaining + overruns + reported = delivered
      BY DEF FrameInv, FramesAccountedFor
    <3>2. /\ Len(Kept') = Len(Kept) + count /\ remaining' = remaining - count
          /\ UNCHANGED <<delivered, overruns, reported>>
      BY <1>1, <2>1, <2>5
    <3>3. Len(Kept) \in Nat /\ count \in Nat
      BY <1>3, <2>4
    <3> QED
      BY <3>1, <3>2, <3>3
  <2>11. callback' = "idle" <=> remaining' = 0
    BY <1>3, <2>1 DEF FrameInv
  <2>12. remaining' \in 0..delivered'
    BY <1>1, <1>3, <2>1 DEF FrameInv
  <2>13. FramesAccountedFor'
    BY <2>9, <2>10 DEF FramesAccountedFor
  <2>14. Len(ring') <= Capacity
    BY <1>2, <1>3, <2>6
  <2> QED
    BY <1>1, <2>6, <2>7, <2>8, <2>11, <2>12, <2>13, <2>14 DEF FrameInv
<1> QED
  BY <1>3, <1>4, <1>5

(* What is read leaves the ring for the pump.                              *)
LEMMA ReadStep == ASSUME FrameInv, ReadFrames PROVE FrameInv'
<1> USE CaptureAssumption DEF CaptureAssumption
<1> DEFINE count == Shorter(Chunk - Len(pending) - Len(scratch), Readable)
           taken == SubSeq(ring, 1, count)
           left == SubSeq(ring, count + 1, Len(ring))
<1>1. /\ scratch' = scratch \o taken /\ ring' = left /\ count > 0
      /\ UNCHANGED <<pending, pushed>> /\ UNCHANGED Counts
  BY DEF ReadFrames, Counts
<1>2. ReadAt \in 0..(Capacity - 1)
  BY KeptType DEF FrameInv, ReadAt
<1>3. count \in 1..Len(ring) /\ count <= Chunk - Len(pending) - Len(scratch)
  BY <1>1, <1>2, KeptType DEF FrameInv, Readable, Shorter
<1> HIDE DEF count
<1>4. /\ taken \in Seq(Frames) /\ left \in Seq(Frames)
      /\ Len(taken) = count /\ Len(left) = Len(ring) - count
      /\ taken \o left = ring
  BY <1>3, SplitSeq DEF FrameInv
<1> HIDE DEF taken, left
<1>5. scratch' \in Seq(Frames) /\ Len(scratch') = Len(scratch) + count
  BY <1>1, <1>4, ConcatProperties DEF FrameInv
<1>6. (pushed \o pending) \o (scratch \o taken) \o left
        = (pushed \o pending) \o scratch \o (taken \o left)
  <2> DEFINE front == pushed \o pending
  <2>1. /\ front \in Seq(Frames) /\ scratch \in Seq(Frames)
        /\ taken \in Seq(Frames) /\ left \in Seq(Frames)
    BY <1>4, KeptType DEF FrameInv
  <2> HIDE DEF front
  <2> DEFINE whole == front \o scratch
  <2>2. front \o (scratch \o taken) = whole \o taken
    BY <2>1, Regroup
  <2>3. whole \in Seq(Frames)
    BY <2>1, ConcatProperties
  <2> HIDE DEF whole
  <2>4. whole \o (taken \o left) = (whole \o taken) \o left
    <3>1. whole \in Seq(Frames) /\ taken \in Seq(Frames) /\ left \in Seq(Frames)
      BY <2>1, <2>3
    <3> QED
      BY <3>1, Regroup, SMTT(30)
  <2> QED
    BY <2>2, <2>4 DEF front, whole
<1>7. Kept' = Kept
  BY <1>1, <1>4, <1>6 DEF Kept
<1> QED
  BY <1>1, <1>3, <1>4, <1>5, <1>7, KeptType, FramesMove DEF FrameInv

(* What the read copied is added to the window.                            *)
LEMMA EndReadStep == ASSUME FrameInv, EndRead PROVE FrameInv'
<1>1. /\ pending' = pending \o scratch /\ scratch' = << >>
      /\ UNCHANGED <<pushed, ring>> /\ UNCHANGED Counts
  BY DEF EndRead, Counts, ringVars
<1>2. pending' \in Seq(Frames) /\ Len(pending') = Len(pending) + Len(scratch)
  BY <1>1, ConcatProperties DEF FrameInv
<1>3. scratch' \in Seq(Frames) /\ Len(scratch') = 0
  BY <1>1
<1>4. pushed \o (pending \o scratch) = pushed \o pending \o scratch
  <2>1. pushed \in Seq(Frames) /\ pending \in Seq(Frames) /\ scratch \in Seq(Frames)
    BY DEF FrameInv
  <2> QED
    BY <2>1, Regroup, SMTT(30)
<1>5. pushed \o pending' \in Seq(Frames)
  BY <1>2, ConcatProperties DEF FrameInv
<1>6. pushed \o pending' \o << >> = pushed \o pending'
  BY <1>5, ConcatEmptySeq
<1>7. Kept' = Kept
  BY <1>1, <1>4, <1>6 DEF Kept
<1> QED
  BY <1>1, <1>2, <1>3, <1>7, KeptType, FramesMove DEF FrameInv

(* What is pushed leaves the window.                                       *)
LEMMA PushStep ==
  ASSUME FrameInv, pushed' = pushed \o pending, pending' = << >>,
         UNCHANGED <<scratch, ring>>, UNCHANGED Counts
  PROVE  FrameInv'
<1> USE CaptureAssumption DEF CaptureAssumption
<1>1. pushed' \in Seq(Frames)
  BY ConcatProperties DEF FrameInv
<1>2. pushed' \o << >> = pushed'
  BY <1>1, ConcatEmptySeq
<1>3. Kept' = Kept
  BY <1>2 DEF Kept
<1>4. pending' \in Seq(Frames) /\ Len(pending') = 0
  OBVIOUS
<1> QED
  BY <1>1, <1>3, <1>4, KeptType, FramesMove DEF FrameInv

(* Every step keeps the frames in order and accounted for.                 *)
LEMMA FrameStep == ASSUME FrameInv, [CaptureNext]_captureVars PROVE FrameInv'
<1> USE CaptureAssumption DEF CaptureAssumption
<1>1. ASSUME NEW count \in BufferSizes, OnFrames(count) PROVE FrameInv'
  <2>1. /\ delivered' = delivered + count /\ delivered' <= MaxFrames /\ remaining' = count
        /\ callback = "idle" /\ callback' = "place"
        /\ UNCHANGED Places /\ UNCHANGED <<writeAt, overruns, reported>>
    BY <1>1 DEF OnFrames, Places, pumpVars
  <2>2. Kept' = Kept
    BY <2>1 DEF Places, Kept
  <2>3. count \in Nat \ {0}
    OBVIOUS
  <2>4. /\ delivered' - remaining' = delivered /\ remaining = 0
        /\ delivered' \in 0..MaxFrames /\ remaining' \in 0..delivered' /\ remaining' # 0
        /\ delivered \in Nat
    BY <2>1, <2>3 DEF FrameInv
  <2>5. FramesAccountedFor'
    <3>1. Len(Kept) \in Nat /\ overruns \in Nat /\ reported \in Nat /\ delivered \in Nat
      BY KeptType DEF FrameInv
    <3>2. Len(Kept) + overruns + reported = delivered
      BY <2>4, <3>1 DEF FrameInv, FramesAccountedFor
    <3>3. Len(Kept') + remaining' + overruns' + reported' = delivered'
      BY <2>1, <2>2, <2>3, <3>1, <3>2
    <3> QED
      BY <2>2, <3>3 DEF FrameInv, FramesAccountedFor
  <2>6. \A i \in 1..Len(Kept') : Kept'[i] <= delivered' - remaining'
    <3>1. \A i \in 1..Len(Kept) : Kept[i] <= delivered
      <4>1. delivered - remaining = delivered
        BY <2>4
      <4> QED
        BY <4>1 DEF FrameInv
    <3> QED
      BY <2>2, <2>4, <3>1
  <2> QED
    BY <2>1, <2>4, <2>5, <2>6 DEF FrameInv, Places
<1>2. CASE PlaceFrames
  BY <1>2, PlaceStep
<1>3. CASE DropFrames
  <2>1. /\ overruns' = overruns + remaining /\ remaining' = 0 /\ callback' = "idle"
        /\ UNCHANGED Places /\ UNCHANGED <<delivered, writeAt, reported>>
    BY <1>3 DEF DropFrames, Places, pumpVars
  <2>2. Kept' = Kept
    BY <2>1 DEF Places, Kept
  <2>3. \A i \in 1..Len(Kept) : Kept[i] \in Nat
    BY KeptType, ElementOfSeq DEF Frames
  <2> QED
    BY <2>1, <2>2, <2>3, KeptType DEF FrameInv, FramesAccountedFor, Places
<1>4. CASE ReadFrames
  BY <1>4, ReadStep
<1>5. CASE EndRead
  BY <1>5, EndReadStep
<1>6. CASE Push
  BY <1>6, PushStep DEF Push, Counts, ringVars
<1>7. CASE PushFails
  BY <1>7, PushStep, FramesStay DEF PushFails, Counts, Places, ringVars
<1>8. CASE ReportLevel
  <2>1. /\ \/ reported' = reported + overruns /\ overruns' = 0
           \/ UNCHANGED <<overruns, reported>>
        /\ UNCHANGED Places /\ UNCHANGED <<delivered, remaining, callback, writeAt>>
    BY <1>8 DEF ReportLevel, Places, ringVars
  <2>2. Kept' = Kept
    BY <2>1 DEF Places, Kept
  <2>3. /\ overruns' \in Nat /\ reported' \in Nat
        /\ overruns' + reported' = overruns + reported
    BY <2>1 DEF FrameInv
  <2>4. FramesAccountedFor'
    <3>1. Len(Kept') + remaining' + overruns' + reported' = delivered'
      <4>1. Len(Kept) + remaining + overruns + reported = delivered
        BY DEF FrameInv, FramesAccountedFor
      <4>2. Len(Kept) \in Nat /\ remaining \in Nat /\ overruns \in Nat /\ reported \in Nat
        BY KeptType DEF FrameInv
      <4> QED
        BY <2>1, <2>2, <2>3, <4>1, <4>2
    <3> QED
      BY <2>2, <3>1 DEF FrameInv, FramesAccountedFor
  <2> QED
    BY <2>1, <2>2, <2>3, <2>4 DEF FrameInv, Places
<1>9. ASSUME PumpLoop \/ BeginRead \/ Delay \/ DelayCancelled \/ AskPolicy \/ PolicyFails
             \/ Recording \/ OwnerStep \/ UNCHANGED captureVars
      PROVE FrameInv'
  <2>1. UNCHANGED Places /\ UNCHANGED Counts
    BY <1>9 DEF PumpLoop, BeginRead, Delay, DelayCancelled, AskPolicy, PolicyFails, Recording,
       CreateSession,
       OpenDevice, StartStream, StartDevice, StopRecording, OwnerStep, AttachCallbacks,
       AwaitPump, BeginHalt,
       EndHalt, FinishStream, BeginClose, EndClose, FreeSession, captureVars, ringVars,
       pumpVars, Places, Counts
  <2> QED
    BY <2>1, FramesStay
<1> QED
  BY <1>1, <1>2, <1>3, <1>4, <1>5, <1>6, <1>7, <1>8, <1>9
  DEF CaptureNext, DeviceStep, PumpStep, EngineStep

-----------------------------------------------------------------------------
(* The invariants of a recording.                                          *)
CaptureInv == StopOK /\ ControlInv /\ FrameInv

(* A recording begins with nothing delivered and nothing kept; where none  *)
(* is made, it is over.                                                    *)
LEMMA CaptureStart ==
  ASSUME NothingStarted, owner \in {"create", "gone"} PROVE CaptureInv
<1> USE CaptureAssumption DEF CaptureAssumption, NothingStarted
<1>1. StopOK
  BY Zenon DEF StopOK
<1>2. ControlInv
  BY DEF ControlInv, NothingUsedAfterFree
<1>3. FrameInv
  <2>1. /\ pushed = << >> /\ pending = << >> /\ scratch = << >> /\ ring = << >>
        /\ delivered = 0 /\ remaining = 0 /\ callback = "idle" /\ writeAt = 0
        /\ overruns = 0 /\ reported = 0
    OBVIOUS
  <2>2. << >> \in Seq(Frames) /\ Len(<< >>) = 0
    OBVIOUS
  <2>3. Kept = << >>
    BY <2>1, <2>2, ConcatEmptySeq DEF Kept
  <2> QED
    BY <2>1, <2>2, <2>3 DEF FrameInv, FramesAccountedFor
<1> QED
  BY <1>1, <1>2, <1>3 DEF CaptureInv

(* No step of any of its threads breaks them.                              *)
LEMMA CaptureStep == CaptureInv /\ [CaptureNext]_captureVars => CaptureInv'
BY StopStep, ControlStep, FrameStep DEF CaptureInv

(* They say what type each variable has.                                   *)
LEMMA CaptureTyped == CaptureInv => CaptureTypeOK
<1> USE CaptureAssumption DEF CaptureAssumption
<1>1. ASSUME CaptureInv PROVE CaptureTypeOK
  <2> USE <1>1 DEF CaptureInv
  <2>1. stop \in BOOLEAN
    BY DEF StopOK
  <2>2. overruns \in 0..MaxFrames /\ reported \in 0..MaxFrames /\ remaining \in 0..MaxFrames
    BY KeptType DEF FrameInv, FramesAccountedFor
  <2>3. /\ device \in {"none", "open", "started", "freed"}
        /\ callback \in {"idle", "place", "drop"}
        /\ gate \in {"none", "pump", "owner"}
        /\ session \in {"none", "ready", "streaming", "finished", "freed"}
        /\ pump \in {"none", "policy", "loop", "read", "reading", "delay", "push", "level",
                     "done", "failed"}
        /\ owner \in {"create", "open", "prepare", "start", "attach", "recording", "await",
                      "halt", "halting", "finish", "dispose", "closing", "free", "gone"}
    BY DEF ControlInv
  <2>4. /\ delivered \in 0..MaxFrames
        /\ ring \in Seq(Frames) /\ Len(ring) <= Capacity
        /\ writeAt \in 0..(Capacity - 1)
        /\ scratch \in Seq(Frames) /\ pending \in Seq(Frames) /\ pushed \in Seq(Frames)
        /\ Len(pending) + Len(scratch) <= Chunk
    BY DEF FrameInv
  <2> QED
    BY <2>1, <2>2, <2>3, <2>4, Zenon DEF CaptureTypeOK
<1> QED
  BY <1>1

(* In every reachable state each thread of a recording is where the others *)
(* take it to be, and each frame is accounted for (LiveTranscription.cs:   *)
(* 80,153-181, audioio.c:117-147).                                         *)
THEOREM CaptureInvariant == CaptureSpec => []CaptureInv
<1>1. CaptureInit => CaptureInv
  BY CaptureStart DEF CaptureInit
<1> QED
  BY <1>1, CaptureStep, PTL DEF CaptureSpec

(* Type correctness (LiveTranscription.cs, AudioCapture.cs, audioio.c).    *)
THEOREM CaptureTypeCorrect == CaptureSpec => []CaptureTypeOK
BY CaptureInvariant, CaptureTyped, PTL

(* No frame is lost without being counted, whatever the ring, the window   *)
(* and the buffers (audioio.c:117-147, AudioCapture.cs:127-150).           *)
THEOREM FramesAreAccountedFor == CaptureSpec => []FramesAccountedFor
<1>1. CaptureInv => FramesAccountedFor
  BY DEF CaptureInv, FrameInv
<1> QED
  BY CaptureInvariant, <1>1, PTL

(* The pump and the audio thread touch nothing that was freed              *)
(* (LiveTranscription.cs:153-181, audioio.c:232-239).                      *)
THEOREM PumpUsesWhatIsThere == CaptureSpec => []NothingUsedAfterFree
<1>1. CaptureInv => NothingUsedAfterFree
  BY DEF CaptureInv, ControlInv
<1> QED
  BY CaptureInvariant, <1>1, PTL
================================================================================
