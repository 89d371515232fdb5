------------------------------- MODULE AudioPlayer ------------------------------
(***************************************************************************)
(* The preview player: a clip, a playhead and a flag that the device's     *)
(* audio thread (on_playback) and the user interface share through atomics *)
(* (native/audioio/audioio.c), and the managed wrapper whose lock makes    *)
(* the user interface one caller (AudioPlayback.cs).                       *)
(*                                                                         *)
(* Each access to an atomic is a step of its own where another thread can  *)
(* come between it and the next one.                                       *)
(***************************************************************************)
EXTENDS Naturals

CONSTANTS
  ClipFrames,   \* self->frames
  PlaySizes     \* frame counts the device asks for

ASSUME PlayerAssumption ==
  /\ ClipFrames \in Nat \ {0}
  /\ PlaySizes \subseteq Nat \ {0}

VARIABLES
  position,   \* self->position
  playing,    \* self->playing
  player,     \* the handle: "open", "closing", "freed"
  audio,      \* where the audio thread stands in on_playback
  seen,       \* its local copy of position
  caller      \* where the caller that holds the wrapper's lock stands

AtMost(n, limit) == IF n < limit THEN n ELSE limit

playerVars == <<position, playing, player, audio, seen, caller>>
audioThread == <<audio, seen>>

PlayerTypeOK ==
  /\ position \in 0..ClipFrames
  /\ playing \in BOOLEAN
  /\ player \in {"open", "closing", "freed"}
  /\ audio \in {"idle", "load", "copy", "end"}
  /\ seen \in 0..ClipFrames
  /\ caller \in {"idle", "rewind", "play"}

PlayerInit ==
  /\ position = 0
  /\ playing = FALSE
  /\ player = "open"
  /\ audio = "idle"
  /\ seen = 0
  /\ caller = "idle"

-----------------------------------------------------------------------------
(* on_playback.                                                            *)

(* The device asks for frames; silence unless the clip is playing.         *)
OnPlayback ==
  /\ audio = "idle"
  /\ player # "freed"
  /\ playing
  /\ audio' = "load"
  /\ UNCHANGED <<position, playing, player, seen, caller>>

(* Mutant: the end of the clip is not looked for before copying.           *)
LoadPositionUnchecked ==
  /\ audio = "load"
  /\ seen' = position
  /\ audio' = "copy"
  /\ UNCHANGED <<position, playing, player, caller>>

LoadPosition ==
  /\ audio = "load"
  /\ seen' = position
  /\ audio' = IF position >= ClipFrames THEN "end" ELSE "copy"
  /\ UNCHANGED <<position, playing, player, caller>>

(* Copies from where the playhead was when it was read.                    *)
CopyOut(count) ==
  /\ audio = "copy"
  /\ position' = seen + AtMost(count, ClipFrames - seen)
  /\ audio' = IF position' >= ClipFrames THEN "end" ELSE "idle"
  /\ UNCHANGED <<playing, player, seen, caller>>

EndClip ==
  /\ audio = "end"
  /\ playing' = FALSE
  /\ audio' = "idle"
  /\ UNCHANGED <<position, player, seen, caller>>

-----------------------------------------------------------------------------
(* The calls, one at a time under the wrapper's lock.                      *)

Play ==
  /\ caller = "idle"
  /\ player = "open"
  /\ caller' = IF position >= ClipFrames THEN "rewind" ELSE "play"
  /\ UNCHANGED <<position, playing, player, audioThread>>

Rewind ==
  /\ caller = "rewind"
  /\ position' = 0
  /\ caller' = "play"
  /\ UNCHANGED <<playing, player, audioThread>>

SetPlaying ==
  /\ caller = "play"
  /\ playing' = TRUE
  /\ caller' = "idle"
  /\ UNCHANGED <<position, player, audioThread>>

Pause ==
  /\ caller = "idle"
  /\ player = "open"
  /\ playing' = FALSE
  /\ UNCHANGED <<position, player, audioThread, caller>>

(* Position = frame: past the end stops at the end.                        *)
Seek(frame) ==
  /\ caller = "idle"
  /\ player = "open"
  /\ position' = AtMost(frame, ClipFrames)
  /\ UNCHANGED <<playing, player, audioThread, caller>>

ClosePlayer ==
  /\ caller = "idle"
  /\ player = "open"
  /\ player' = "closing"
  /\ playing' = FALSE
  /\ UNCHANGED <<position, audioThread, caller>>

(* ma_device_uninit joins the audio thread before the samples are freed.   *)
FreeClip ==
  /\ player = "closing"
  /\ audio = "idle"
  /\ player' = "freed"
  /\ UNCHANGED <<position, playing, audioThread, caller>>

-----------------------------------------------------------------------------
AudioStep ==
  OnPlayback \/ LoadPosition \/ (\E count \in PlaySizes : CopyOut(count)) \/ EndClip

Request ==
  Play \/ Pause \/ ClosePlayer \/ \E frame \in 0..(ClipFrames + 1) : Seek(frame)

CallStep == Rewind \/ SetPlaying \/ FreeClip

PlayerNext == AudioStep \/ Request \/ CallStep

(* The device keeps asking, and a call that began goes on.                 *)
PlayerFairness == WF_playerVars(AudioStep) /\ WF_playerVars(CallStep)

PlayerSpec == PlayerInit /\ [][PlayerNext]_playerVars

-----------------------------------------------------------------------------
(* Properties.                                                             *)

(* The audio thread reads inside the clip, and the clip is there while it  *)
(* does, whatever was sought, played or closed around it                   *)
(* (audioio.c:296-308,387-392).                                            *)
ReadsInsideClip ==
  /\ audio = "copy" => seen < ClipFrames
  /\ audio # "idle" => player # "freed"
  /\ position <= ClipFrames

(* A preview that is left alone stops rather than looping                  *)
(* (audioio.c:282-286).                                                    *)
PreviewEnds ==
  <>[][~Request]_playerVars => (playing ~> ~playing)
================================================================================
