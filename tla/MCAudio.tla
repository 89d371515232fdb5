--------------------------------- MODULE MCAudio --------------------------------
(***************************************************************************)
(* The audio of the desktop application for TLC: a device of miniaudio and *)
(* its ring, the list of devices, and the two users of a device, a         *)
(* recording and the preview player.  Each is an instance of its own, so a *)
(* behaviour is about one of them, chosen at the start.                    *)
(***************************************************************************)
EXTENDS LiveCapture, AudioPlayer, MaRing, MaDevice, DeviceList, Scene

audioVars ==
  <<captureVars, playerVars, maRingVars, deviceVars, listVars, about>>

AudioParts == {"capture", "player", "ring", "device", "list"}

AudioStart ==
  /\ NothingStarted
  /\ owner = IF about = "capture" THEN "create" ELSE "gone"
  /\ PlayerInit /\ RingInit /\ ListInit
  /\ DeviceInit

MCInit == about \in AudioParts /\ AudioStart

MCNext ==
  \/ /\ about = "capture" /\ CaptureNext
     /\ UNCHANGED <<playerVars, maRingVars, deviceVars, listVars, about>>
  \/ /\ about = "player" /\ PlayerNext
     /\ UNCHANGED <<captureVars, maRingVars, deviceVars, listVars, about>>
  \/ /\ about = "ring" /\ RingNext
     /\ UNCHANGED <<captureVars, playerVars, deviceVars, listVars, about>>
  \/ /\ about = "device" /\ DeviceNext
     /\ UNCHANGED <<captureVars, playerVars, maRingVars, listVars, about>>
  \/ /\ about = "list" /\ ListNext
     /\ UNCHANGED <<captureVars, playerVars, maRingVars, deviceVars, about>>

(* Nothing does anything unasked in the other scenes, except that a device *)
(* waits to be opened, so its fairness is that of its own scene.           *)
SceneFairness ==
  /\ WF_deviceVars(about = "device" /\ WorkerStep)
  /\ WF_deviceVars(about = "device" /\ ClientStep)

MCSpec ==
  /\ MCInit
  /\ [][MCNext]_audioVars
  /\ CaptureFairness
  /\ PlayerFairness
  /\ SceneFairness

DeviceScene ==
  MCInit /\ about = "device" /\ [][MCNext]_audioVars /\ DeviceFairness

(* The type invariants of the parts.                                       *)
AudioTypes == CaptureTypeOK /\ PlayerTypeOK /\ RingTypeOK /\ DeviceTypeOK /\ ListTypeOK
================================================================================
