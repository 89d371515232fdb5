------------------------------- MODULE LiveCapture ------------------------------
(***************************************************************************)
(* One live recording: the device's audio thread fills a ring              *)
(* (native/audioio/audioio.c), the managed wrapper drains it under a lock  *)
(* (AudioCapture.cs), and a pump pushes what it drains into a streaming    *)
(* session until the recording is stopped (LiveTranscription.cs).          *)
(*                                                                         *)
(* A frame is the number it has among those the device delivered.          *)
(***************************************************************************)
EXTENDS Naturals, Sequences

CONSTANTS
  Capacity,    \* ring_frames
  Chunk,       \* policy.PreferredChunkSamples, or a second of frames
  BufferSizes, \* frame counts the device delivers at once
  MaxFrames    \* bound: frames the device delivers in all

ASSUME CaptureAssumption ==
  /\ Capacity \in Nat \ {0}
  /\ Chunk \in Nat \ {0}
  /\ BufferSizes \subseteq Nat \ {0}
  /\ MaxFrames \in Nat

VARIABLES
  device,     \* the native device: "none", "open", "started", "freed"
  delivered,  \* frames the device has delivered
  remaining,  \* of those, the ones on_frames has not placed yet
  callback,   \* on_frames: "idle", "place", or "drop" when it found no room
  ring,       \* frames committed and not read
  writeAt,    \* the ring's write position
  overruns,   \* self->overruns
  gate,       \* who holds CaptureSession._gate
  session,    \* "none", "ready", "streaming", "finished", "freed"
  pump,       \* where PumpAsync stands
  scratch,    \* what the read in progress has copied
  pending,    \* frames read and not pushed
  pushed,     \* frames pushed to the engine
  reported,   \* dropped frames the caller was told of
  stop,       \* _stop
  owner       \* where the code that starts and stops the recording stands

ringVars == <<delivered, remaining, callback, ring, writeAt>>
pumpVars == <<pump, scratch, pending, pushed>>
captureVars == <<device, delivered, remaining, callback, ring, writeAt, overruns, gate,
                 session, pump, scratch, pending, pushed, reported, stop, owner>>

Frames == 1..MaxFrames

CaptureTypeOK ==
  /\ device \in {"none", "open", "started", "freed"}
  /\ delivered \in 0..MaxFrames
  /\ remaining \in 0..MaxFrames
  /\ callback \in {"idle", "place", "drop"}
  /\ ring \in Seq(Frames) /\ Len(ring) <= Capacity
  /\ writeAt \in 0..(Capacity - 1)
  /\ overruns \in 0..MaxFrames
  /\ gate \in {"none", "pump", "owner"}
  /\ session \in {"none", "ready", "streaming", "finished", "freed"}
  /\ pump \in {"none", "policy", "loop", "read", "reading", "delay", "push", "level",
             "done", "failed"}
  /\ scratch \in Seq(Frames)
  /\ pending \in Seq(Frames) /\ Len(pending) + Len(scratch) <= Chunk
  /\ pushed \in Seq(Frames)
  /\ reported \in 0..MaxFrames
  /\ stop \in BOOLEAN
  /\ owner \in {"create", "open", "prepare", "start", "attach", "recording", "await",
                "halt", "halting", "finish", "dispose", "closing", "free", "gone"}

NothingStarted ==
  /\ device = "none"
  /\ delivered = 0 /\ remaining = 0 /\ callback = "idle"
  /\ ring = << >> /\ writeAt = 0 /\ overruns = 0
  /\ gate = "none"
  /\ session = "none"
  /\ pump = "none" /\ scratch = << >> /\ pending = << >> /\ pushed = << >>
  /\ reported = 0
  /\ stop = FALSE

CaptureInit == NothingStarted /\ owner = "create"

(* The ring hands out what is left before it wraps around.                 *)
Shorter(m, n) == IF m < n THEN m ELSE n
ReadAt == (writeAt + Capacity - Len(ring)) % Capacity
Writable == Shorter(Capacity - Len(ring), Capacity - writeAt)
Readable == Shorter(Len(ring), Capacity - ReadAt)

-----------------------------------------------------------------------------
(* on_frames, on the device's thread.                                      *)

OnFrames(count) ==
  /\ device = "started"
  /\ callback = "idle"
  /\ delivered + count <= MaxFrames
  /\ delivered' = delivered + count
  /\ remaining' = count
  /\ callback' = "place"
  /\ UNCHANGED <<device, ring, writeAt, overruns, gate, session, pumpVars,
                 reported, stop, owner>>

(* Mutant: the rest of the buffer is placed whatever room there is.        *)
PlaceFramesWhole ==
  /\ callback = "place"
  /\ LET first == delivered - remaining + 1
     IN ring' = ring \o [i \in 1..remaining |-> first + i - 1]
  /\ writeAt' = (writeAt + remaining) % Capacity
  /\ remaining' = 0
  /\ callback' = "idle"
  /\ UNCHANGED <<device, delivered, overruns, gate, session, pumpVars, reported, stop, owner>>

(* One pass of the loop: as much as fits before the ring wraps around.     *)
PlaceFrames ==
  /\ callback = "place"
  /\ LET count == Shorter(remaining, Writable)
         first == delivered - remaining + 1
     IN \/ /\ count = 0
           /\ callback' = "drop"
           /\ UNCHANGED <<remaining, ring, writeAt>>
        \/ /\ count > 0
           /\ ring' = ring \o [i \in 1..count |-> first + i - 1]
           /\ writeAt' = (writeAt + count) % Capacity
           /\ remaining' = remaining - count
           /\ callback' = IF count < remaining THEN "place" ELSE "idle"
  /\ UNCHANGED <<device, delivered, overruns, gate, session, pumpVars, reported, stop, owner>>

(* Mutant: what did not fit is let go without being counted.               *)
DropFramesUncounted ==
  /\ callback = "drop"
  /\ remaining' = 0
  /\ callback' = "idle"
  /\ UNCHANGED <<device, delivered, ring, writeAt, overruns, gate, session, pumpVars,
                 reported, stop, owner>>

(* The rest of the buffer is counted and let go.                           *)
DropFrames ==
  /\ callback = "drop"
  /\ overruns' = overruns + remaining
  /\ remaining' = 0
  /\ callback' = "idle"
  /\ UNCHANGED <<device, delivered, ring, writeAt, gate, session, pumpVars,
                 reported, stop, owner>>

-----------------------------------------------------------------------------
(* PumpAsync.                                                              *)

(* GetStreamPolicy names the window.                                       *)
AskPolicy ==
  /\ pump = "policy"
  /\ pump' = "loop"
  /\ UNCHANGED <<device, ringVars, overruns, gate, session, scratch, pending, pushed,
                 reported, stop, owner>>

PumpLoop ==
  /\ pump = "loop"
  /\ pump' = IF stop THEN "done" ELSE "read"
  /\ UNCHANGED <<device, ringVars, overruns, gate, session, scratch, pending, pushed,
                 reported, stop, owner>>

(* CaptureSession.Read takes the lock...                                   *)
BeginRead ==
  /\ pump = "read"
  /\ gate = "none"
  /\ gate' = "pump"
  /\ pump' = "reading"
  /\ UNCHANGED <<device, ringVars, overruns, session, scratch, pending, pushed,
                 reported, stop, owner>>

(* ... copies what the ring hands out, piece by piece...                   *)
ReadFrames ==
  /\ pump = "reading"
  /\ LET count == Shorter(Chunk - Len(pending) - Len(scratch), Readable)
     IN /\ count > 0
        /\ scratch' = scratch \o SubSeq(ring, 1, count)
        /\ ring' = SubSeq(ring, count + 1, Len(ring))
  /\ UNCHANGED <<device, delivered, remaining, callback, writeAt, overruns, gate, session,
                 pump, pending, pushed, reported, stop, owner>>

(* ... and returns when it has enough or there is no more.                 *)
EndRead ==
  /\ pump = "reading"
  /\ Len(pending) + Len(scratch) = Chunk \/ ring = << >>
  /\ gate' = "none"
  /\ pending' = pending \o scratch
  /\ scratch' = << >>
  /\ pump' = IF scratch = << >> THEN "delay"
             ELSE IF Len(pending') < Chunk THEN "loop" ELSE "push"
  /\ UNCHANGED <<device, ringVars, overruns, session, pushed, reported, stop, owner>>

(* Task.Delay elapses, or the token cancels it.                            *)
Delay ==
  /\ pump = "delay"
  /\ pump' = "level"
  /\ UNCHANGED <<device, ringVars, overruns, gate, session, scratch, pending, pushed,
                 reported, stop, owner>>

DelayCancelled ==
  /\ pump = "delay"
  /\ stop
  /\ pump' = "done"
  /\ UNCHANGED <<device, ringVars, overruns, gate, session, scratch, pending, pushed,
                 reported, stop, owner>>

(* PushStream, and the events it leaves queued, with the whole window.     *)
Push ==
  /\ pump = "push"
  /\ pushed' = pushed \o pending
  /\ pending' = << >>
  /\ pump' = "level"
  /\ UNCHANGED <<device, ringVars, overruns, gate, session, scratch, reported, stop, owner>>

(* The engine throws: GetStreamPolicy outside the try, so the task faults; *)
(* over a window, or the events it left, the catch hands it to OnError.    *)
PolicyFails ==
  /\ pump = "policy"
  /\ pump' = "failed"
  /\ UNCHANGED <<device, ringVars, overruns, gate, session, scratch, pending, pushed,
                 reported, stop, owner>>

PushFails ==
  /\ pump = "push"
  /\ pump' = "done"
  /\ \/ UNCHANGED <<pending, pushed>>
     \/ pushed' = pushed \o pending /\ pending' = << >>
  /\ UNCHANGED <<device, ringVars, overruns, gate, session, scratch, reported, stop, owner>>

(* OnLevel, with the overruns since the last time; nothing is taken while  *)
(* the callbacks are not set yet.                                          *)
ReportLevel ==
  /\ pump = "level"
  /\ pump' = "loop"
  /\ \/ gate = "none" /\ reported' = reported + overruns /\ overruns' = 0
     \/ owner = "attach" /\ UNCHANGED <<overruns, reported>>
  /\ UNCHANGED <<device, ringVars, gate, session, scratch, pending, pushed, stop, owner>>

-----------------------------------------------------------------------------
(* Start, StopAsync and Dispose.                                           *)

OwnerGoes(label) == owner' = label

(* The session, the device, the stream and the device's thread, in turn;   *)
(* what there is of them when one fails is disposed.                       *)
CreateSession ==
  /\ owner = "create"
  /\ \/ session' = "ready" /\ OwnerGoes("open")
     \/ OwnerGoes("gone") /\ UNCHANGED session
  /\ UNCHANGED <<device, ringVars, overruns, gate, pumpVars, reported, stop>>

OpenDevice ==
  /\ owner = "open"
  /\ \/ device' = "open" /\ OwnerGoes("prepare") /\ UNCHANGED session
     \/ session' = "freed" /\ OwnerGoes("gone") /\ UNCHANGED device
  /\ UNCHANGED <<ringVars, overruns, gate, pumpVars, reported, stop>>

StartStream ==
  /\ owner = "prepare"
  /\ \/ session' = "streaming" /\ OwnerGoes("start")
     \/ OwnerGoes("dispose") /\ UNCHANGED session
  /\ UNCHANGED <<device, ringVars, overruns, gate, pumpVars, reported, stop>>

StartDevice ==
  /\ owner = "start"
  /\ \/ device' = "started" /\ pump' = "policy" /\ OwnerGoes("attach")
     \/ OwnerGoes("dispose") /\ UNCHANGED <<device, pump>>
  /\ UNCHANGED <<ringVars, overruns, gate, session, scratch, pending, pushed, reported, stop>>

(* OnText, OnLevel and OnError are set on a pump that already runs.        *)
AttachCallbacks ==
  /\ owner = "attach"
  /\ OwnerGoes("recording")
  /\ UNCHANGED <<device, ringVars, overruns, gate, session, pumpVars, reported, stop>>

StopRecording ==
  /\ owner = "recording"
  /\ stop' = TRUE
  /\ OwnerGoes("await")
  /\ UNCHANGED <<device, ringVars, overruns, gate, session, pumpVars, reported>>

(* Mutant: the pump is not awaited.                                        *)
AwaitPumpNot ==
  /\ owner = "await"
  /\ OwnerGoes("halt")
  /\ UNCHANGED <<device, ringVars, overruns, gate, session, pumpVars, reported, stop>>

(* Awaiting a task that faulted throws, past the rest of StopAsync.        *)
AwaitPump ==
  /\ owner = "await"
  /\ \/ pump = "done" /\ OwnerGoes("halt")
     \/ pump = "failed" /\ OwnerGoes("dispose")
  /\ UNCHANGED <<device, ringVars, overruns, gate, session, pumpVars, reported, stop>>

(* _capture.Stop(): under the lock, until the audio thread is still, or    *)
(* the device refuses.                                                     *)
BeginHalt ==
  /\ owner = "halt"
  /\ gate = "none"
  /\ gate' = "owner"
  /\ OwnerGoes("halting")
  /\ UNCHANGED <<device, ringVars, overruns, session, pumpVars, reported, stop>>

EndHalt ==
  /\ owner = "halting"
  /\ \/ callback = "idle" /\ device' = "open"
     \/ UNCHANGED device
  /\ gate' = "none"
  /\ OwnerGoes("finish")
  /\ UNCHANGED <<ringVars, overruns, session, pumpVars, reported, stop>>

(* FinishStream; one that fails has nothing to finish.                     *)
FinishStream ==
  /\ owner = "finish"
  /\ session' \in {"finished", session}
  /\ OwnerGoes("dispose")
  /\ UNCHANGED <<device, ringVars, overruns, gate, pumpVars, reported, stop>>

(* Dispose: the token, the device under its lock, then the session.        *)
BeginClose ==
  /\ owner = "dispose"
  /\ gate = "none"
  /\ stop' = TRUE
  /\ gate' = "owner"
  /\ OwnerGoes("closing")
  /\ UNCHANGED <<device, ringVars, overruns, session, pumpVars, reported>>

EndClose ==
  /\ owner = "closing"
  /\ callback = "idle"
  /\ device' = "freed"
  /\ gate' = "none"
  /\ OwnerGoes("free")
  /\ UNCHANGED <<ringVars, overruns, session, pumpVars, reported, stop>>

FreeSession ==
  /\ owner = "free"
  /\ session' = "freed"
  /\ OwnerGoes("gone")
  /\ UNCHANGED <<device, ringVars, overruns, gate, pumpVars, reported, stop>>

-----------------------------------------------------------------------------
Recording == CreateSession \/ OpenDevice \/ StartStream \/ StartDevice \/ StopRecording

DeviceStep == PlaceFrames \/ DropFrames

PumpStep ==
  PumpLoop \/ BeginRead \/ ReadFrames \/ EndRead \/ Delay \/ DelayCancelled \/ ReportLevel

EngineStep == AskPolicy \/ PolicyFails \/ Push \/ PushFails

OwnerStep ==
  \/ AttachCallbacks \/ AwaitPump \/ BeginHalt \/ EndHalt
  \/ FinishStream \/ BeginClose \/ EndClose \/ FreeSession

CaptureNext ==
  \/ (\E count \in BufferSizes : OnFrames(count)) \/ DeviceStep
  \/ PumpStep \/ EngineStep
  \/ Recording \/ OwnerStep

(* Threads that can go on do; the engine may take for ever over a window.  *)
(* A device that is being closed ends its loop between two callbacks.      *)
CaptureFairness ==
  /\ WF_captureVars(DeviceStep) /\ WF_captureVars(PumpStep) /\ WF_captureVars(OwnerStep)
  /\ SF_captureVars(EndClose)

CaptureSpec == CaptureInit /\ [][CaptureNext]_captureVars

-----------------------------------------------------------------------------
(* Properties.                                                             *)

Kept == pushed \o pending \o scratch \o ring

(* Every frame the device delivered is, in order, pushed, held by the pump *)
(* or in the ring, or it is counted as dropped, once: a recording with no  *)
(* overrun to report has no hole (audioio.c:133-146, AudioCapture.cs:146). *)
FramesAccountedFor ==
  /\ \A i \in 1..(Len(Kept) - 1) : Kept[i] < Kept[i + 1]
  /\ Len(Kept) + remaining + overruns + reported = delivered

(* The engine is in one call at a time, on a session that is streaming;    *)
(* the ring is drained by one reader, and not freed under it or under the  *)
(* device's thread (AudioCapture.cs:67-72,127-140, audioio.c:234-238).     *)
NothingUsedAfterFree ==
  /\ pump \in {"policy", "loop", "read", "reading", "delay", "push", "level"} =>
       session = "streaming" /\ device = "started" /\ owner \in {"attach", "recording", "await"}
  /\ pump = "reading" <=> gate = "pump"
  /\ callback # "idle" => device = "started"

(* A recording that is stopped ends, as long as the engine returns from    *)
(* each window (LiveTranscription.cs:153-172).                             *)
StopEnds ==
  WF_captureVars(EngineStep) => (stop ~> owner = "gone")

(* The inductive invariant of the control: what the owner's label says of  *)
(* what it has made and of the lock, and that the pump lives inside the    *)
(* owner's recording (LiveTranscription.cs:80,155-159).                    *)
ControlInv ==
  /\ device \in {"none", "open", "started", "freed"}
  /\ callback \in {"idle", "place", "drop"}
  /\ gate \in {"none", "pump", "owner"}
  /\ session \in {"none", "ready", "streaming", "finished", "freed"}
  /\ pump \in {"none", "policy", "loop", "read", "reading", "delay", "push", "level",
               "done", "failed"}
  /\ owner \in {"create", "open", "prepare", "start", "attach", "recording", "await",
                "halt", "halting", "finish", "dispose", "closing", "free", "gone"}
  /\ owner \in {"attach", "recording", "await"} => session = "streaming" /\ device = "started"
  /\ owner = "start" => session = "streaming"
  /\ owner \in {"create", "open", "prepare", "start"} => pump = "none"
  /\ owner \in {"create", "open"} => device = "none"
  /\ gate = "owner" <=> owner \in {"halting", "closing"}
  /\ NothingUsedAfterFree

(* The inductive invariant of the frames: what is kept comes before what   *)
(* on_frames has still to place, in order (audioio.c:133-146).             *)
FrameInv ==
  /\ delivered \in 0..MaxFrames /\ remaining \in 0..delivered
  /\ callback = "idle" <=> remaining = 0
  /\ ring \in Seq(Frames) /\ Len(ring) <= Capacity
  /\ writeAt \in 0..(Capacity - 1)
  /\ overruns \in Nat /\ reported \in Nat
  /\ scratch \in Seq(Frames) /\ pending \in Seq(Frames) /\ pushed \in Seq(Frames)
  /\ Len(pending) + Len(scratch) <= Chunk
  /\ FramesAccountedFor
  /\ \A i \in 1..Len(Kept) : Kept[i] <= delivered - remaining
================================================================================
