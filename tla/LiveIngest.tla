------------------------------- MODULE LiveIngest -------------------------------
(***************************************************************************)
(* A live request: a body of PCM is read as the client speaks, whole       *)
(* frames of it go to the model, and what the model says goes back as      *)
(* events (Streaming.LiveTranscriptionAsync, LiveSpeechAsync, IngestAsync, *)
(* Routes.LiveAsync).  The model's gate is held for all of it.             *)
(*                                                                         *)
(* Bytes are counted, a transcript is a sequence of words, and the model   *)
(* is a device that may say a word after a push and anything at the end.   *)
(***************************************************************************)
EXTENDS Naturals, SequencesExt

CONSTANTS
  Frame,      \* BytesPerFrame
  ChunkBytes, \* MaxChunkBytes, 64 * 1024 frames at most
  BodyBytes,  \* MaxBodyBytes, or 0
  IdleLimit,  \* IdleTimeoutMs is positive
  TotalLimit, \* TotalTimeoutMs is positive
  Sendable,   \* bound: bytes the client sends
  Words,
  MaxWords    \* bound: words of a transcript

ASSUME IngestAssumption ==
  /\ Frame \in Nat \ {0} /\ ChunkBytes \in Nat \ {0}
  /\ BodyBytes \in Nat /\ Sendable \in Nat /\ MaxWords \in Nat
  /\ IdleLimit \in BOOLEAN /\ TotalLimit \in BOOLEAN

VARIABLES
  speech,     \* the route: speech, or transcription
  ingestAt,   \* where the handler stands
  received,   \* bytes read from the body
  carried,    \* bytes of a frame not whole yet
  pushedBytes,\* bytes of the frames the model was given
  clientEnded,\* the client sent the terminating chunk
  hungUp,     \* the client is gone
  sent,       \* what the deltas say, one after the other
  finalText,  \* the text of FinishStream's result
  reply,      \* "none" yet, "events", "status", "error", "done" or "cut"
  gateHeld    \* the model's gate

ingestVars == <<speech, ingestAt, received, carried, pushedBytes, clientEnded, hungUp, sent,
                finalText, reply, gateHeld>>
body == <<received, carried, pushedBytes>>
client == <<speech, clientEnded, hungUp>>

(* The buffer is allocated once, and reads fill what the carried bytes     *)
(* leave of it.                                                            *)
Window == IF ChunkBytes > Frame THEN ChunkBytes ELSE Frame
Room == Window - carried

Texts == BoundedSeq(Words, MaxWords)

IngestTypeOK ==
  /\ speech \in BOOLEAN
  /\ ingestAt \in {"gate", "start", "loop", "read", "push", "pump", "finish", "close", "released", "gone"}
  /\ received \in 0..Sendable
  /\ carried \in 0..(Frame - 1)
  /\ pushedBytes \in 0..Sendable
  /\ clientEnded \in BOOLEAN /\ hungUp \in BOOLEAN
  /\ sent \in Seq(Words) /\ finalText \in Seq(Words)
  /\ reply \in {"none", "events", "status", "error", "done", "cut"}
  /\ gateHeld \in BOOLEAN

IngestInit ==
  /\ speech \in BOOLEAN
  /\ ingestAt = "gate"
  /\ received = 0 /\ carried = 0 /\ pushedBytes = 0
  /\ clientEnded = FALSE /\ hungUp = FALSE
  /\ sent = << >> /\ finalText = << >>
  /\ reply = "none"
  /\ gateHeld = FALSE

-----------------------------------------------------------------------------
(* The client.                                                             *)

EndBody ==
  /\ ~clientEnded /\ ~hungUp
  /\ ingestAt # "gone"
  /\ clientEnded' = TRUE
  /\ UNCHANGED <<speech, hungUp, ingestAt, body, sent, finalText, reply, gateHeld>>

HangUp ==
  /\ ~hungUp
  /\ ingestAt # "gone"
  /\ hungUp' = TRUE
  /\ UNCHANGED <<speech, clientEnded, ingestAt, body, sent, finalText, reply, gateHeld>>

-----------------------------------------------------------------------------
(* How a request ends.                                                     *)

(* The gate goes with the exception or the return of the work it was       *)
(* taken for, before LiveAsync answers.                                    *)
End(answer) ==
  /\ ingestAt' = "gone"
  /\ gateHeld' = FALSE
  /\ reply' = answer

(* Mutant: a failure ends the stream as a transcript does.                 *)
FailRequestAsDone == End(IF hungUp THEN "cut" ELSE "done")

(* A status while nothing was written, else an event (LiveAsync's two      *)
(* catches); a client that hung up sees neither.                           *)
FailRequest == End(IF hungUp THEN "cut" ELSE IF reply = "none" THEN "status" ELSE "error")

-----------------------------------------------------------------------------
(* The handler.                                                            *)

TakeModel ==
  /\ ingestAt = "gate"
  /\ gateHeld' = TRUE
  /\ ingestAt' = "start"
  /\ UNCHANGED <<client, body, sent, finalText, reply>>

(* The queue was full for too long: 503, of the middleware.                *)
ModelBusy ==
  /\ ingestAt = "gate"
  /\ FailRequest
  /\ UNCHANGED <<client, body, sent, finalText>>

StartStream ==
  /\ ingestAt = "start"
  /\ ingestAt' = "loop"
  /\ UNCHANGED <<client, body, sent, finalText, reply, gateHeld>>

(* The engine refuses the contract, the frames or the finish.              *)
EngineFails ==
  /\ ingestAt \in {"start", "push", "pump", "finish"}
  /\ FailRequest
  /\ UNCHANGED <<client, body, sent, finalText>>

(* Mutant: the bytes of a frame not whole are left to the next read, which *)
(* starts over them.                                                       *)
ReadDroppingCarry ==
  /\ ingestAt = "read"
  /\ ~hungUp /\ ~clientEnded
  /\ \E n \in 1..Room :
       /\ received + n <= Sendable
       /\ BodyBytes = 0 \/ received + n <= BodyBytes
       /\ received' = received + n
       /\ pushedBytes' = pushedBytes + (n - (n % Frame))
       /\ ingestAt' = IF n < Frame THEN "loop" ELSE "push"
  /\ UNCHANGED <<client, carried, sent, finalText, reply, gateHeld>>

(* Mutant: a read is looked at for whole frames without what was carried.  *)
ReadWithoutCarry ==
  /\ ingestAt = "read"
  /\ ~hungUp /\ ~clientEnded
  /\ \E n \in 1..Room :
       /\ received + n <= Sendable
       /\ BodyBytes = 0 \/ received + n <= BodyBytes
       /\ received' = received + n
       /\ carried' = IF n < Frame THEN carried + n ELSE (carried + n) % Frame
       /\ pushedBytes' = pushedBytes + (carried + n - carried')
       /\ ingestAt' = IF n < Frame THEN "loop" ELSE "push"
  /\ UNCHANGED <<client, sent, finalText, reply, gateHeld>>

(* Some of what the client has sent by now; past the limit it is too much. *)
Read ==
  /\ ingestAt = "read"
  /\ ~hungUp /\ ~clientEnded
  /\ \E n \in 1..Room :
       /\ received + n <= Sendable
       /\ received' = received + n
       /\ \/ /\ BodyBytes > 0 /\ received + n > BodyBytes
             /\ FailRequest
             /\ UNCHANGED <<carried, pushedBytes>>
          \/ /\ BodyBytes = 0 \/ received + n <= BodyBytes
             /\ carried' = (carried + n) % Frame
             /\ pushedBytes' = pushedBytes + (carried + n - carried')
             /\ ingestAt' = IF carried + n < Frame THEN "loop" ELSE "push"
             /\ UNCHANGED <<reply, gateHeld>>
  /\ UNCHANGED <<client, sent, finalText>>

(* total_timeout_ms is looked at between two reads only.                   *)
BeginRead ==
  /\ ingestAt = "loop"
  /\ \/ ingestAt' = "read" /\ UNCHANGED <<reply, gateHeld>>
     \/ TotalLimit /\ FailRequest
  /\ UNCHANGED <<client, body, sent, finalText>>

(* Mutant: the wait for more of the body is cut short only for a client    *)
(* that is gone anyway.                                                    *)
TimeOutNever ==
  /\ hungUp /\ clientEnded /\ ingestAt = "read"
  /\ FailRequest
  /\ UNCHANGED <<client, body, sent, finalText>>

(* idle_timeout_ms without data.                                           *)
TimeOut ==
  /\ ingestAt = "read"
  /\ IdleLimit
  /\ FailRequest
  /\ UNCHANGED <<client, body, sent, finalText>>

(* The whole body was read; half a frame at its end is an error.           *)
ReadEnds ==
  /\ ingestAt = "read"
  /\ clientEnded /\ ~hungUp
  /\ IF carried > 0 THEN FailRequest
     ELSE ingestAt' = "finish" /\ UNCHANGED <<reply, gateHeld>>
  /\ UNCHANGED <<client, body, sent, finalText>>

(* Every await on the client or its token ends when it hung up, or when    *)
(* Kestrel cuts it off because it does not read what it is sent.           *)
Cut ==
  /\ hungUp
  /\ ingestAt \notin {"start", "loop", "push", "gone"}
  /\ End("cut")
  /\ UNCHANGED <<client, body, sent, finalText>>

Push ==
  /\ ingestAt = "push"
  /\ ingestAt' = "pump"
  /\ UNCHANGED <<client, body, sent, finalText, reply, gateHeld>>

(* A delta is written, which starts the response.                          *)
Emit(words) ==
  IF words = << >> \/ hungUp THEN UNCHANGED <<sent, reply>>
  ELSE /\ sent' = sent \o words
       /\ reply' = "events"

PumpEvent ==
  /\ ingestAt = "pump"
  /\ ~hungUp
  /\ Len(sent) < MaxWords
  /\ \E w \in Words : Emit(<<w>>)
  /\ UNCHANGED <<client, ingestAt, body, finalText, gateHeld>>

PumpEnds ==
  /\ ingestAt = "pump"
  /\ ingestAt' = "loop"
  /\ UNCHANGED <<client, body, sent, finalText, reply, gateHeld>>

(* Mutant: the whole transcript, as if partials restated it.               *)
ClosingDeltaWhole(said, final) == final

(* Streaming.ClosingDelta.                                                 *)
ClosingDelta(said, final) ==
  IF Len(final) > Len(said) /\ IsPrefix(said, final)
    THEN SubSeq(final, Len(said) + 1, Len(final))
    ELSE << >>

(* FinishStream's result: for speech, the audio the model still owes.      *)
FinishStream ==
  /\ ingestAt = "finish"
  /\ \E text \in Texts :
       /\ finalText' = text
       /\ Emit(IF speech THEN text ELSE ClosingDelta(sent, text))
  /\ ingestAt' = "close"
  /\ UNCHANGED <<client, body, gateHeld>>

ReleaseModel ==
  /\ ingestAt = "close"
  /\ gateHeld' = FALSE
  /\ ingestAt' = "released"
  /\ UNCHANGED <<client, body, sent, finalText, reply>>

(* A speech that made no sound is an error; a transcript may be empty.     *)
Answer ==
  /\ ingestAt = "released"
  /\ ~hungUp
  /\ End(IF speech /\ sent = << >> THEN "error" ELSE "done")
  /\ UNCHANGED <<client, body, sent, finalText>>

-----------------------------------------------------------------------------

Handle ==
  \/ TakeModel \/ ModelBusy \/ StartStream \/ EngineFails \/ BeginRead \/ TimeOut \/ ReadEnds \/ Cut
  \/ Push \/ PumpEvent \/ PumpEnds \/ FinishStream \/ ReleaseModel \/ Answer

IngestNext == Handle \/ Read \/ EndBody \/ HangUp

(* The client owes nothing, not even bytes to read.  The engine returns,   *)
(* and says so many words.                                                 *)
IngestFairness == WF_ingestVars(Handle)

IngestSpec == IngestInit /\ [][IngestNext]_ingestVars /\ IngestFairness

-----------------------------------------------------------------------------

(* No byte is lost or used twice however the reads split the frames, and a *)
(* read always has room: a read of no bytes would pass for the end of the  *)
(* body (IngestAsync).                                                     *)
EveryByteOnce ==
  /\ Room > 0
  /\ reply \notin {"status", "error"} =>
       pushedBytes + carried = received /\ pushedBytes % Frame = 0

(* [DONE] says that all went well: the client ended its body at a frame,   *)
(* the model was given all of it and the gate is free again                *)
(* (LiveTranscriptionAsync, LiveSpeechAsync, LiveAsync).                   *)
DoneMeansWhole ==
  reply = "done" => clientEnded /\ carried = 0 /\ pushedBytes = received /\ ~gateHeld

(* The deltas a client appended add up to the transcript it is then told,  *)
(* unless the model took back what it had said (ClosingDelta).             *)
DeltasAddUp ==
  [][ingestAt = "finish" /\ ingestAt' = "close" /\ ~speech /\ ~hungUp =>
       sent' = finalText' \/ (~IsPrefix(sent, finalText') /\ sent' = sent)]_ingestVars

(* A request that has the model gives it back, whatever its client does,   *)
(* as long as idle_timeout_ms is set; total_timeout_ms alone is not enough *)
(* (LiveIngestLimits, IngestAsync).                                        *)
GateComesBack == gateHeld ~> ~gateHeld

(* The inductive invariant: the bytes add up until a failure, and only a   *)
(* body read to its end leads to an answer (IngestAsync, LiveAsync).       *)
IngestInv ==
  /\ IngestTypeOK
  /\ reply \notin {"status", "error"} =>
       pushedBytes + carried = received /\ pushedBytes % Frame = 0
  /\ ingestAt # "gone" => reply \in {"none", "events"}
  /\ ingestAt \in {"finish", "close", "released"} => clientEnded /\ carried = 0
  /\ ingestAt \in {"released", "gone"} => ~gateHeld
  /\ reply = "done" => clientEnded /\ carried = 0
================================================================================
