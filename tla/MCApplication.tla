------------------------------ MODULE MCApplication -----------------------------
(***************************************************************************)
(* The desktop application for TLC, its window and its audio: a behaviour  *)
(* is about one part of one of them.                                       *)
(***************************************************************************)
EXTENDS MCAudio, MCDesktop

AppInit == about \in AudioParts \cup WindowParts /\ AudioStart /\ WindowStart

AppNext ==
  \/ about \in AudioParts /\ MCNext /\ UNCHANGED allVars
  \/ about \in WindowParts /\ Next /\ UNCHANGED audioVars

AppSpec ==
  /\ AppInit
  /\ [][AppNext]_<<audioVars, allVars>>
  /\ CaptureFairness
  /\ PlayerFairness
  /\ SceneFairness
  /\ StudioFairness

-----------------------------------------------------------------------------
(* What was begun ends: the stop of a recording, a preview, a call on a    *)
(* device, and the window's Busy, as StopEnds, PreviewEnds, DeviceCallsEnd *)
(* and BusyEnds say of the parts, if the engine's own steps end and the    *)
(* user lets a preview play (LiveTranscription.cs:153-172,                 *)
(* audioio.c:216-239,282-286, MainWindowViewModel.cs:1770,2092,2425).      *)
Begun ==
  \/ about = "capture" /\ stop
  \/ about = "player" /\ playing
  \/ about = "device" /\ client # "idle"
  \/ about = "studio" /\ busy

Ended ==
  \/ about = "capture" /\ owner = "gone"
  \/ about = "player" /\ ~playing
  \/ about = "device" /\ CallEnded
  \/ about = "studio" /\ (~busy \/ window # "open")

BegunEnds ==
  WF_captureVars(EngineStep) /\ <>[][~Request]_playerVars => (Begun ~> Ended)
================================================================================
