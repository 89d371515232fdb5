------------------------------ MODULE NativeAudio_proofs ------------------------------
(***************************************************************************)
(* Proofs about the preview player, the handshake of miniaudio's worker    *)
(* thread and its caller, and the list of devices: for a clip of any       *)
(* length, buffers of any size, and any number of starts, threads, devices *)
(* and calls; and about the audio as a whole, a recording and the ring     *)
(* among it.                                                               *)
(***************************************************************************)
EXTENDS MCAudio, LiveCapture_proofs, MaRing_proofs, SequenceTheorems, TLAPS

-----------------------------------------------------------------------------
(* The preview player.                                                     *)

(* The flag, and what the invariant says of the rest.                      *)
FlagOK == playing \in BOOLEAN

CursorInv ==
  /\ position \in 0..ClipFrames
  /\ player \in {"open", "closing", "freed"}
  /\ audio \in {"idle", "load", "copy", "end"}
  /\ seen \in 0..ClipFrames
  /\ caller \in {"idle", "rewind", "play"}
  /\ ReadsInsideClip

(* The flag stays a flag.                                                  *)
LEMMA FlagStep == ASSUME FlagOK, [PlayerNext]_playerVars PROVE FlagOK'
<1> USE DEF FlagOK
<1>1. CASE AudioStep
  BY <1>1, Zenon DEF AudioStep, OnPlayback, LoadPosition, CopyOut, EndClip
<1>2. CASE Request
  BY <1>2, Zenon DEF Request, Play, Pause, ClosePlayer, Seek
<1>3. CASE CallStep
  BY <1>3, Zenon DEF CallStep, Rewind, SetPlaying, FreeClip
<1>4. CASE UNCHANGED playerVars
  BY <1>4, Zenon DEF playerVars
<1> QED
  BY <1>1, <1>2, <1>3, <1>4 DEF PlayerNext

(* The playhead stays in the clip.                                         *)
LEMMA CursorStep ==
  ASSUME PlayerAssumption, CursorInv, [PlayerNext]_playerVars PROVE CursorInv'
<1> USE DEF PlayerAssumption, CursorInv, ReadsInsideClip
<1>1. CASE AudioStep
  BY <1>1 DEF AudioStep, OnPlayback, LoadPosition, CopyOut, EndClip, AtMost
<1>2. CASE Request
  BY <1>2 DEF Request, Play, Pause, ClosePlayer, Seek, AtMost, audioThread
<1>3. CASE CallStep
  BY <1>3 DEF CallStep, Rewind, SetPlaying, FreeClip, audioThread
<1>4. CASE UNCHANGED playerVars
  BY <1>4 DEF playerVars
<1> QED
  BY <1>1, <1>2, <1>3, <1>4 DEF PlayerNext

(* The audio thread copies only from a playhead it found inside the clip,  *)
(* and is joined before the clip is freed (audioio.c:296-308,387-392).     *)
THEOREM PlayerReadsInsideClip == PlayerSpec => [](PlayerTypeOK /\ ReadsInsideClip)
<1>1. PlayerInit => FlagOK
  BY Zenon DEF PlayerInit, FlagOK
<1>2. PlayerInit => CursorInv
  BY PlayerAssumption DEF PlayerAssumption, PlayerInit, CursorInv, ReadsInsideClip
<1>3. CursorInv /\ [PlayerNext]_playerVars => CursorInv'
  BY PlayerAssumption, CursorStep
<1>4. FlagOK /\ CursorInv => PlayerTypeOK /\ ReadsInsideClip
  BY Zenon DEF FlagOK, CursorInv, PlayerTypeOK
<1> QED
  BY <1>1, <1>2, <1>3, <1>4, FlagStep, PTL DEF PlayerSpec

-----------------------------------------------------------------------------
(* The worker thread and its caller.                                       *)

(* Nothing is signalled and nothing runs at first.                         *)
LEMMA DeviceStarts == DeviceInit => DeviceInv
<1> SUFFICES ASSUME DeviceInit PROVE DeviceInv
  OBVIOUS
<1>1. /\ ~wakeupEvent /\ wakeupEvent \in BOOLEAN /\ ~startEvent /\ startEvent \in BOOLEAN
      /\ ~stopEvent /\ stopEvent \in BOOLEAN /\ workResult /\ workResult \in BOOLEAN
      /\ loopWakeup \in BOOLEAN /\ ~started /\ started \in BOOLEAN
      /\ lost \in BOOLEAN /\ silent \in BOOLEAN
  BY Zenon DEF DeviceInit
<1> QED
  BY <1>1, DeviceAssumption DEF DeviceAssumption, DeviceInit, DeviceInv, DeviceTypeOK, Handshake

(* The steps of the worker thread.                                         *)
LEMMA WorkerSteps ==
  ASSUME DeviceInv, WorkerStep
  PROVE  DeviceInv'
<1> USE DEF DeviceInv, DeviceTypeOK, Handshake, Running, events, world, audioio
<1>1. CASE BecomeStopped
  BY <1>1 DEF BecomeStopped
<1>2. CASE SignalStopped
  BY <1>2 DEF SignalStopped
<1>3. CASE WakeUp
  <2>1. ~wakeupEvent' /\ wakeupEvent' \in BOOLEAN /\ workResult' /\ workResult' \in BOOLEAN
    BY <1>3, Zenon DEF WakeUp
  <2> QED
    BY <1>3, <2>1 DEF WakeUp
<1>4. CASE LeaveOrStart
  BY <1>4 DEF LeaveOrStart
<1>5. CASE StartBackend
  <2>1. CASE worker' = "begin"
    BY <1>5, <2>1 DEF StartBackend
  <2>2. CASE worker' = "refused"
    <3>1. ~workResult' /\ workResult' \in BOOLEAN
      BY <1>5, <2>2, Zenon DEF StartBackend
    <3> QED
      BY <1>5, <2>2, <3>1 DEF StartBackend
  <2> QED
    BY <1>5, <2>1, <2>2 DEF StartBackend
<1>6. CASE RefuseStart
  BY <1>6 DEF RefuseStart
<1>7. CASE BecomeStarted
  BY <1>7 DEF BecomeStarted
<1>8. CASE SignalStarted
  BY <1>8 DEF SignalStarted
<1>9. CASE Loop
  BY <1>9 DEF Loop
<1>10. CASE Deliver
  BY <1>10 DEF Deliver
<1>11. CASE CallbackReturns
  BY <1>11 DEF CallbackReturns
<1>12. CASE LoopWoken
  <2>1. loopWakeup' \in BOOLEAN
    BY <1>12, Zenon DEF LoopWoken
  <2> QED
    BY <1>12, <2>1 DEF LoopWoken
<1>13. CASE EndLoop
  BY <1>13 DEF EndLoop
<1> QED
  BY <1>1, <1>2, <1>3, <1>4, <1>5, <1>6, <1>7, <1>8, <1>9, <1>10, <1>11, <1>12, <1>13
     DEF WorkerStep

(* The beginning of a start, a stop or a close.                            *)
LEMMA ClientCalls ==
  ASSUME DeviceInv, ClientCall
  PROVE  DeviceInv'
<1> USE DEF DeviceInv, DeviceTypeOK, Handshake, Running, events, world, audioio
<1>1. CASE StartCalled
  <2>1. CASE devState = "started"
    <3>1. ~lost => FALSE
      BY <1>1, <2>1 DEF StartCalled
    <3>2. started' /\ started' \in BOOLEAN
      BY <1>1, <2>1, Zenon DEF StartCalled
    <3> QED
      BY <1>1, <2>1, <3>1, <3>2, DeviceAssumption DEF StartCalled, DeviceAssumption
  <2>2. CASE devState # "started"
    BY <1>1, <2>2, DeviceAssumption DEF StartCalled, DeviceAssumption
  <2> QED
    BY <2>1, <2>2
<1>2. CASE StopCalled
  <2>1. CASE devState = "stopped"
    <3>1. ~lost => FALSE
      BY <1>2, <2>1 DEF StopCalled
    <3>2. ~started' /\ started' \in BOOLEAN
      BY <1>2, <2>1, Zenon DEF StopCalled
    <3> QED
      BY <1>2, <2>1, <3>1, <3>2 DEF StopCalled
  <2>2. CASE devState # "stopped"
    BY <1>2, <2>2 DEF StopCalled
  <2> QED
    BY <2>1, <2>2
<1>3. CASE CloseCalled
  BY <1>3 DEF CloseCalled
<1> QED
  BY <1>1, <1>2, <1>3 DEF ClientCall

(* The rest of a call.                                                     *)
LEMMA ClientSteps ==
  ASSUME DeviceInv, ClientStep
  PROVE  DeviceInv'
<1> USE DEF DeviceInv, DeviceTypeOK, Handshake, Running, events, world, audioio
<1>1. CASE Opened
  <2>1. ~stopEvent' /\ stopEvent' \in BOOLEAN
    BY <1>1, Zenon DEF Opened
  <2> QED
    BY <1>1, <2>1 DEF Opened
<1>2. CASE SetStarting
  BY <1>2 DEF SetStarting
<1>3. CASE SignalWakeup
  BY <1>3 DEF SignalWakeup
<1>4. CASE StartEnds
  <2>1. ~startEvent' /\ startEvent' \in BOOLEAN
    BY <1>4, Zenon DEF StartEnds
  <2>2. started' \in BOOLEAN /\ (started' <=> workResult)
    BY <1>4, Zenon DEF StartEnds
  <2> QED
    BY <1>4, <2>1, <2>2 DEF StartEnds
<1>5. CASE StartFailed
  BY <1>5 DEF StartFailed
<1>6. CASE SetStopping
  BY <1>6 DEF SetStopping
<1>7. CASE WakeLoop
  BY <1>7 DEF WakeLoop
<1>8. CASE StopReturns
  <2>1. ~stopEvent' /\ stopEvent' \in BOOLEAN /\ ~started' /\ started' \in BOOLEAN
    BY <1>8, Zenon DEF StopReturns
  <2> QED
    BY <1>8, <2>1 DEF StopReturns
<1>9. CASE WakeWorker
  BY <1>9 DEF WakeWorker
<1>10. CASE JoinWorker
  BY <1>10 DEF JoinWorker
<1> QED
  BY <1>1, <1>2, <1>3, <1>4, <1>5, <1>6, <1>7, <1>8, <1>9, <1>10 DEF ClientStep

(* What the world does, and a step in which nothing happens.               *)
LEMMA OtherSteps ==
  ASSUME DeviceInv, LoopBreaks \/ FallSilent \/ UNCHANGED deviceVars
  PROVE  DeviceInv'
<1> USE DEF DeviceInv, DeviceTypeOK, Handshake, Running, events, world, audioio
<1>1. CASE LoopBreaks
  <2>1. lost' /\ lost' \in BOOLEAN
    BY <1>1, Zenon DEF LoopBreaks
  <2> QED
    BY <1>1, <2>1 DEF LoopBreaks
<1>2. CASE FallSilent
  <2>1. silent' \in BOOLEAN
    BY <1>2, Zenon DEF FallSilent
  <2> QED
    BY <1>2, <2>1 DEF FallSilent
<1>3. CASE UNCHANGED deviceVars
  BY <1>3 DEF deviceVars
<1> QED
  BY <1>1, <1>2, <1>3

(* In every reachable state where the caller stands, as long as the loop   *)
(* has not ended by itself, tells where the worker stands, what the state  *)
(* says and which events are set (miniaudio.h:42783-42860,44285-44383).    *)
THEOREM DeviceInvariant == DeviceSpec => []DeviceInv
<1>1. DeviceInv /\ [DeviceNext]_deviceVars => DeviceInv'
  BY WorkerSteps, ClientCalls, ClientSteps, OtherSteps DEF DeviceNext
<1> QED
  BY <1>1, DeviceStarts, PTL DEF DeviceSpec

(* What the caller was told holds: a start that returned has the worker in *)
(* its loop, a stop that returned has it asleep, so that no callback runs  *)
(* or will, and a close that returned has it gone (audioio.c:216-239).     *)
THEOREM CallersKnow == DeviceSpec => []CallerKnowsWorker
<1>1. DeviceInv => CallerKnowsWorker
  BY DEF DeviceInv, Handshake, CallerKnowsWorker, Running
<1> QED
  BY <1>1, DeviceInvariant, PTL

(* The state, the events and the two threads' places keep their types.     *)
THEOREM DeviceTypeCorrect == DeviceSpec => []DeviceTypeOK
BY DeviceInvariant, PTL DEF DeviceInv

-----------------------------------------------------------------------------
(* The list of devices.                                                    *)

(* A process begins without a context.                                     *)
LEMMA ListStarts == ListInit => ListInv
<1> SUFFICES ASSUME ListInit PROVE ListInv
  OBVIOUS
<1> USE DeviceListAssumption DEF DeviceListAssumption, ListInit, NoRecord, None
<1>1. ~contextReady /\ contextReady \in BOOLEAN /\ ~lockReady /\ lockReady \in BOOLEAN
      /\ \A u \in Users : ~steady[u] /\ steady[u] \in BOOLEAN
  BY Zenon
<1>2. ListTypeOK
  BY <1>1 DEF ListTypeOK
<1>3. CallingInv /\ ContextInv
  BY <1>1 DEF CallingInv, ContextInv, BeforeContext, Making, UsesList
<1> QED
  BY <1>1, <1>2, <1>3 DEF ListInv

(* A list stays one of devices when one is added or taken out.             *)
LEMMA ReplugType ==
  ASSUME ListTypeOK, Replug PROVE plugged' \in Seq(Hardware)
<1>1. CASE \E d \in Hardware : plugged' = Append(plugged, d)
  BY <1>1, AppendProperties DEF ListTypeOK
<1>2. ASSUME NEW i \in DOMAIN plugged,
             plugged' = SubSeq(plugged, 1, i - 1) \o SubSeq(plugged, i + 1, Len(plugged))
      PROVE  plugged' \in Seq(Hardware)
  <2>1. plugged \in Seq(Hardware) /\ i \in 1..Len(plugged) /\ Len(plugged) \in Nat
    BY LenProperties DEF ListTypeOK
  <2>2. \A j \in 1..Len(plugged) : plugged[j] \in Hardware
    BY <2>1
  <2>3. SubSeq(plugged, 1, i - 1) \in Seq(Hardware)
    BY <2>1, <2>2, SubSeqProperties
  <2>4. SubSeq(plugged, i + 1, Len(plugged)) \in Seq(Hardware)
    BY <2>1, <2>2, SubSeqProperties
  <2> QED
    BY <1>2, <2>3, <2>4, ConcatProperties
<1> QED
  BY <1>1, <1>2 DEF Replug

(* Every step keeps the types.                                             *)
LEMMA ListTypeStep == ListTypeOK /\ [ListNext]_listVars => ListTypeOK'
<1> SUFFICES ASSUME ListTypeOK, [ListNext]_listVars PROVE ListTypeOK'
  OBVIOUS
<1> USE DeviceListAssumption
    DEF DeviceListAssumption, ListTypeOK, Goes, managed, callVars, contextVars, NoRecord, None
<1>1. CASE Replug
  <2>1. plugged' \in Seq(Hardware)
    BY <1>1, ReplugType
  <2>2. steady' \in [Users -> BOOLEAN]
    BY <1>1, Zenon DEF Replug
  <2> QED
    BY <1>1, <2>1, <2>2 DEF Replug
<1>2. ASSUME NEW u \in Users, NEW what \in {"devices", "open", "default"}, Call(u, what)
      PROVE  ListTypeOK'
  <2>1. steady' \in [Users -> BOOLEAN]
    BY <1>2, Zenon DEF Call
  <2> QED
    BY <1>2, <2>1 DEF Call
<1>3. ASSUME NEW u \in Users, EnsureContext(u) PROVE ListTypeOK'
  BY <1>3 DEF EnsureContext, AfterContext
<1>4. ASSUME NEW u \in Users, InitContext(u) PROVE ListTypeOK'
  <2>1. CASE contexts' = contexts + 1 /\ Goes(u, "initLock")
    BY <1>4, <2>1 DEF InitContext
  <2>2. CASE Goes(u, "idle") /\ UNCHANGED contexts
    BY <1>4, <2>2 DEF InitContext
  <2> QED
    BY <1>4, <2>1, <2>2 DEF InitContext
<1>5. ASSUME NEW u \in Users, InitLock(u) PROVE ListTypeOK'
  BY <1>5 DEF InitLock
<1>6. ASSUME NEW u \in Users, SetReady(u) PROVE ListTypeOK'
  BY <1>6 DEF SetReady, AfterContext
<1>7. ASSUME NEW u \in Users, LockDevices(u) PROVE ListTypeOK'
  BY <1>7 DEF LockDevices
<1>8. ASSUME NEW u \in Users, EmptyList(u) PROVE ListTypeOK'
  <2>1. steady' \in [Users -> BOOLEAN]
    BY <1>8, Zenon DEF EmptyList
  <2>2. record' \in [Users -> [index : Nat, device : Hardware \cup {None}]]
    <3>1. PICK garbage \in Hardware :
            record' = [v \in Users |->
              IF userAt[v] = "text" THEN [record[v] EXCEPT !.device = garbage] ELSE record[v]]
      BY <1>8 DEF EmptyList
    <3>2. \A v \in Users :
            [record[v] EXCEPT !.device = garbage] \in [index : Nat, device : Hardware \cup {None}]
      BY ZenonT(30)
    <3> QED
      BY <3>1, <3>2
  <2>3. userAt' \in [Users -> {"idle", "ensure", "initContext", "initLock", "setReady", "lock",
                 "rewrite", "fill", "copy", "unlock", "names", "text", "initDevice"}]
    BY <1>8 DEF EmptyList
  <2> QED
    BY <1>8, <2>1, <2>2, <2>3 DEF EmptyList
<1>9. ASSUME NEW u \in Users, FillList(u) PROVE ListTypeOK'
  BY <1>9 DEF FillList
<1>10. ASSUME NEW u \in Users, CopyId(u) PROVE ListTypeOK'
  <2>1. CASE record[u].index \in DOMAIN captureList
    <3>1. captureList[record[u].index] \in Hardware
      BY <2>1
    <3> QED
      BY <1>10, <2>1, <3>1 DEF CopyId
  <2>2. CASE record[u].index \notin DOMAIN captureList
    BY <1>10, <2>2 DEF CopyId
  <2> QED
    BY <2>1, <2>2
<1>11. ASSUME NEW u \in Users, UnlockDevices(u) PROVE ListTypeOK'
  BY <1>11 DEF UnlockDevices
<1>12. ASSUME NEW u \in Users, FindName(u) PROVE ListTypeOK'
  BY <1>12 DEF FindName
<1>13. ASSUME NEW u \in Users, ReadName(u) PROVE ListTypeOK'
  BY <1>13 DEF ReadName
<1>14. ASSUME NEW u \in Users, InitDevice(u) PROVE ListTypeOK'
  BY <1>14 DEF InitDevice
<1>15. CASE UNCHANGED listVars
  BY <1>15 DEF listVars
<1> QED
  BY <1>1, <1>2, <1>3, <1>4, <1>5, <1>6, <1>7, <1>8, <1>9, <1>10, <1>11, <1>12, <1>13, <1>14,
     <1>15 DEF ListNext

(* The list is rewritten by an enumeration and copied from by an open.     *)
LEMMA CallingStep ==
  ASSUME ListTypeOK, CallingInv, [ListNext]_listVars
  PROVE  CallingInv'
<1> USE DeviceListAssumption
    DEF DeviceListAssumption, ListTypeOK, CallingInv, Goes, managed, callVars, contextVars,
        NoRecord, None
<1>1. CASE Replug
  BY <1>1 DEF Replug
<1>2. ASSUME NEW u \in Users, NEW what \in {"devices", "open", "default"}, Call(u, what),
             what = "open" => record[u].index > 0
      PROVE  CallingInv'
  BY <1>2 DEF Call
<1>3. ASSUME NEW u \in Users, EnsureContext(u) PROVE CallingInv'
  BY <1>3 DEF EnsureContext, AfterContext
<1>4. ASSUME NEW u \in Users, InitContext(u) PROVE CallingInv'
  BY <1>4 DEF InitContext
<1>5. ASSUME NEW u \in Users, InitLock(u) PROVE CallingInv'
  BY <1>5 DEF InitLock
<1>6. ASSUME NEW u \in Users, SetReady(u) PROVE CallingInv'
  BY <1>6 DEF SetReady, AfterContext
<1>7. ASSUME NEW u \in Users, LockDevices(u) PROVE CallingInv'
  BY <1>7 DEF LockDevices
<1>8. ASSUME NEW u \in Users, EmptyList(u) PROVE CallingInv'
  BY <1>8 DEF EmptyList
<1>9. ASSUME NEW u \in Users, FillList(u) PROVE CallingInv'
  BY <1>9 DEF FillList
<1>10. ASSUME NEW u \in Users, CopyId(u) PROVE CallingInv'
  BY <1>10 DEF CopyId
<1>11. ASSUME NEW u \in Users, UnlockDevices(u) PROVE CallingInv'
  BY <1>11 DEF UnlockDevices
<1>12. ASSUME NEW u \in Users, FindName(u) PROVE CallingInv'
  BY <1>12 DEF FindName
<1>13. ASSUME NEW u \in Users, ReadName(u) PROVE CallingInv'
  BY <1>13 DEF ReadName
<1>14. ASSUME NEW u \in Users, InitDevice(u) PROVE CallingInv'
  BY <1>14 DEF InitDevice
<1>15. CASE UNCHANGED listVars
  BY <1>15 DEF listVars
<1> QED
  BY <1>1, <1>2, <1>3, <1>4, <1>5, <1>6, <1>7, <1>8, <1>9, <1>10, <1>11,
     <1>12, <1>13, <1>14, <1>15 DEF ListNext

(* Until a second thread makes the context, steps keep the lock's use.     *)
LEMMA ContextStep ==
  ASSUME ListTypeOK, CallingInv, ContextInv, contexts <= 1, contexts' <= 1, [ListNext]_listVars
  PROVE  ContextInv'
<1> USE DeviceListAssumption
    DEF DeviceListAssumption, ListTypeOK, CallingInv, ContextInv, BeforeContext, Making, UsesList,
        Goes, managed, callVars, contextVars, NoRecord, None
<1>1. CASE Replug
  BY <1>1 DEF Replug
<1>2. ASSUME NEW u \in Users, NEW what \in {"devices", "open", "default"}, Call(u, what),
             what = "open" => record[u].index > 0
      PROVE  ContextInv'
  <2>1. CASE what = "default"
    BY <1>2, <2>1 DEF Call
  <2>2. CASE what # "default"
    BY <1>2, <2>2 DEF Call
  <2> QED
    BY <2>1, <2>2
<1>3. ASSUME NEW u \in Users, EnsureContext(u) PROVE ContextInv'
  BY <1>3 DEF EnsureContext, AfterContext
<1>4. ASSUME NEW u \in Users, InitContext(u) PROVE ContextInv'
  <2>1. CASE contexts' = contexts + 1 /\ Goes(u, "initLock")
    <3>1. contexts = 0 /\ contexts' = 1
      BY <2>1
    <3>2. \A v \in Users : userAt[v] \in {"idle", "ensure", "initContext"}
      BY <3>1
    <3>3. \A v \in Users : v # u => userAt'[v] = userAt[v]
      BY <2>1
    <3>4. userAt'[u] = "initLock" /\ record' = record
      BY <1>4, <2>1 DEF InitContext
    <3>5. \A v \in Users : record[v].index = 0
      BY <3>1
    <3>6. ~contextReady' /\ lockedBy' = lockedBy /\ \A v \in Users : lockedBy # v
      BY <1>4, <3>1, <3>2 DEF InitContext
    <3>7. \A v \in Users : userAt'[v] \in {"idle", "ensure", "initContext", "initLock"}
      BY <3>2, <3>3, <3>4
    <3>8. \A v \in Users : userAt'[v] \in Making => v = u
      <4> SUFFICES ASSUME NEW v \in Users, v # u PROVE userAt'[v] \notin Making
        OBVIOUS
      <4>1. userAt'[v] = userAt[v] /\ userAt[v] \in {"idle", "ensure", "initContext"}
        BY <3>2, <3>3
      <4> QED
        BY <4>1
    <3>9. \A v \in Users : userAt'[v] # "setReady" /\ ~UsesList(v)' /\ lockedBy' # v
      BY <3>6, <3>7
    <3>10. \A v \in Users : record'[v].index = 0
      BY <3>4, <3>5
    <3> QED
      BY <3>1, <3>6, <3>7, <3>8, <3>9, <3>10
  <2>2. CASE Goes(u, "idle") /\ UNCHANGED contexts
    BY <1>4, <2>2 DEF InitContext
  <2> QED
    BY <1>4, <2>1, <2>2 DEF InitContext
<1>5. ASSUME NEW u \in Users, InitLock(u) PROVE ContextInv'
  BY <1>5, ZenonT(30) DEF InitLock
<1>6. ASSUME NEW u \in Users, SetReady(u) PROVE ContextInv'
  BY <1>6 DEF SetReady, AfterContext
<1>7. ASSUME NEW u \in Users, LockDevices(u) PROVE ContextInv'
  BY <1>7 DEF LockDevices
<1>8. ASSUME NEW u \in Users, EmptyList(u) PROVE ContextInv'
  BY <1>8 DEF EmptyList
<1>9. ASSUME NEW u \in Users, FillList(u) PROVE ContextInv'
  BY <1>9 DEF FillList
<1>10. ASSUME NEW u \in Users, CopyId(u) PROVE ContextInv'
  BY <1>10, ZenonT(30) DEF CopyId
<1>11. ASSUME NEW u \in Users, UnlockDevices(u) PROVE ContextInv'
  BY <1>11 DEF UnlockDevices
<1>12. ASSUME NEW u \in Users, FindName(u) PROVE ContextInv'
  BY <1>12, ZenonT(30) DEF FindName
<1>13. ASSUME NEW u \in Users, ReadName(u) PROVE ContextInv'
  BY <1>13 DEF ReadName
<1>14. ASSUME NEW u \in Users, InitDevice(u) PROVE ContextInv'
  BY <1>14 DEF InitDevice
<1>15. CASE UNCHANGED listVars
  BY <1>15 DEF listVars
<1> QED
  BY <1>1, <1>2, <1>3, <1>4, <1>5, <1>6, <1>7, <1>8, <1>9, <1>10, <1>11,
     <1>12, <1>13, <1>14, <1>15 DEF ListNext

(* Only the thread's own call, and others' refreshes, concern what it saw. *)
LEMMA RecordStep ==
  ASSUME ListTypeOK, CallingInv, ContextInv, [ListNext]_listVars,
         NEW w \in Users, steady[w] => RecordInv(w), steady'[w]
  PROVE  RecordInv(w)'
<1> USE DeviceListAssumption
    DEF DeviceListAssumption, ListTypeOK, CallingInv, RecordInv, HasRecord, Goes, managed,
        callVars, contextVars, NoRecord, None
<1>1. CASE Replug
  <2>1. ~steady'[w]
    BY <1>1, Zenon DEF Replug
  <2> QED
    BY <2>1
<1>2. ASSUME NEW u \in Users, NEW what \in {"devices", "open", "default"}, Call(u, what),
             what = "open" => record[u].index > 0
      PROVE  RecordInv(w)'
  <2>1. CASE u # w
    BY <1>2, <2>1 DEF Call
  <2>2. CASE u = w
    BY <1>2, <2>2 DEF Call
  <2> QED
    BY <2>1, <2>2
<1>3. ASSUME NEW u \in Users, EnsureContext(u) PROVE RecordInv(w)'
  BY <1>3 DEF EnsureContext, AfterContext
<1>4. ASSUME NEW u \in Users, InitContext(u) PROVE RecordInv(w)'
  BY <1>4 DEF InitContext, ContextInv
<1>5. ASSUME NEW u \in Users, InitLock(u) PROVE RecordInv(w)'
  BY <1>5 DEF InitLock
<1>6. ASSUME NEW u \in Users, SetReady(u) PROVE RecordInv(w)'
  BY <1>6 DEF SetReady, AfterContext
<1>7. ASSUME NEW u \in Users, LockDevices(u) PROVE RecordInv(w)'
  BY <1>7 DEF LockDevices
<1>8. ASSUME NEW u \in Users, EmptyList(u) PROVE RecordInv(w)'
  <2>1. steady[w] /\ userAt[w] \notin {"names", "text"}
    BY <1>8 DEF EmptyList
  <2>2. record'[w] = record[w]
    BY <1>8, <2>1 DEF EmptyList
  <2> QED
    BY <1>8, <2>1, <2>2 DEF EmptyList
<1>9. ASSUME NEW u \in Users, FillList(u) PROVE RecordInv(w)'
  BY <1>9 DEF FillList
<1>10. ASSUME NEW u \in Users, CopyId(u) PROVE RecordInv(w)'
  <2>1. CASE u # w
    BY <1>10, <2>1 DEF CopyId
  <2>2. CASE u = w
    BY <1>10, <2>2 DEF CopyId
  <2> QED
    BY <2>1, <2>2
<1>11. ASSUME NEW u \in Users, UnlockDevices(u) PROVE RecordInv(w)'
  <2>1. \A v \in Users : userAt[v] # "fill"
    BY <1>11 DEF UnlockDevices, ContextInv, UsesList
  <2> QED
    BY <1>11, <2>1 DEF UnlockDevices
<1>12. ASSUME NEW u \in Users, FindName(u) PROVE RecordInv(w)'
  <2>1. CASE u # w
    BY <1>12, <2>1 DEF FindName
  <2>2. CASE u = w
    BY <1>12, <2>2 DEF FindName
  <2> QED
    BY <2>1, <2>2
<1>13. ASSUME NEW u \in Users, ReadName(u) PROVE RecordInv(w)'
  BY <1>13 DEF ReadName
<1>14. ASSUME NEW u \in Users, InitDevice(u) PROVE RecordInv(w)'
  BY <1>14 DEF InitDevice
<1>15. CASE UNCHANGED listVars
  BY <1>15 DEF listVars
<1> QED
  BY <1>1, <1>2, <1>3, <1>4, <1>5, <1>6, <1>7, <1>8, <1>9, <1>10, <1>11,
     <1>12, <1>13, <1>14, <1>15 DEF ListNext

(* The invariant is inductive.                                             *)
LEMMA ListStep == ListInv /\ [ListNext]_listVars => ListInv'
<1> SUFFICES ASSUME ListInv, [ListNext]_listVars PROVE ListInv'
  OBVIOUS
<1> USE DEF ListInv
<1>1. ListTypeOK' /\ CallingInv'
  BY ListTypeStep, CallingStep
<1>2. contexts' <= 1 => contexts <= 1
  BY DEF ListTypeOK, ListNext, listVars, contextVars, Replug, Call, EnsureContext, InitContext,
         InitLock, SetReady, LockDevices, EmptyList, FillList, CopyId, UnlockDevices, FindName,
         ReadName, InitDevice
<1>3. contexts' <= 1 => ContextInv'
  BY <1>2, ContextStep
<1>4. contexts' <= 1 => \A u \in Users : steady'[u] => RecordInv(u)'
  BY <1>2, RecordStep
<1> QED
  BY <1>1, <1>3, <1>4

(* In every reachable state, as long as one thread initialised the context,*)
(* the lock is held exactly where the list is used, and what a thread saw  *)
(* in the list is still true (audioio.c:43-57,73-83,163-175).              *)
THEOREM ListInvariant == ListSpec => []ListInv
BY ListStarts, ListStep, PTL DEF ListSpec

(* Two threads never use the list at once, and a record opens the device it*)
(* names, for any number of threads, devices and calls (audioio.c:28-36).  *)
THEOREM DeviceListIsSound == ListSpec => []ListIsSound
<1>1. ListInv => ListIsSound
  BY DEF ListInv, ListIsSound, ContextInv, RecordInv
<1> QED
  BY <1>1, ListInvariant, PTL

-----------------------------------------------------------------------------
(* The audio as a whole.                                                   *)

(* A step of the audio is a step of one of its parts, and the others rest. *)
LEMMA AudioStepIsOfPart ==
  ASSUME [MCNext]_audioVars
  PROVE  /\ [CaptureNext]_captureVars /\ [PlayerNext]_playerVars
         /\ [RingNext]_maRingVars /\ [DeviceNext]_deviceVars /\ [ListNext]_listVars
BY DEF MCNext, audioVars

(* The player, the ring, the device and the list of devices behave in the  *)
(* whole as their own specifications say; a recording does too, or is over *)
(* from the start (audioio.c:98-147,181-345, miniaudio.h:58216-58372).     *)
THEOREM AudioRunsItsParts ==
  MCSpec => PlayerSpec /\ RingSpec /\ DeviceSpec /\ ListSpec /\ []CaptureInv
<1>1. MCInit => PlayerInit /\ RingInit /\ DeviceInit /\ ListInit
  BY DEF MCInit, AudioStart
<1>2. MCInit => CaptureInv
  <2>1. MCInit => NothingStarted /\ owner \in {"create", "gone"}
    BY DEF MCInit, AudioStart
  <2> QED
    BY <2>1, CaptureStart
<1>3. [MCNext]_audioVars =>
        /\ [CaptureNext]_captureVars /\ [PlayerNext]_playerVars
        /\ [RingNext]_maRingVars /\ [DeviceNext]_deviceVars /\ [ListNext]_listVars
  BY AudioStepIsOfPart
<1> QED
  BY <1>1, <1>2, <1>3, CaptureStep, PTL DEF MCSpec, PlayerSpec, RingSpec, DeviceSpec, ListSpec

(* Every variable of the audio keeps its type, whatever its threads do     *)
(* (AudioCapture.cs, audioio.c, miniaudio.h).                              *)
THEOREM AudioTypesHold == MCSpec => []AudioTypes
BY AudioRunsItsParts, CaptureTyped, PlayerReadsInsideClip, RingTypeCorrect, DeviceTypeCorrect,
   ListInvariant, PTL DEF AudioTypes, ListInv

(* A recording, a preview, the ring, a device and the list of devices are  *)
(* each safe in the whole: frames are counted or kept and come out of the  *)
(* ring in order, no thread touches what another is using or what is freed,*)
(* and a caller knows what the worker is doing (audioio.c:28-57,98-147,    *)
(* 216-257, AudioCapture.cs:67-150, LiveTranscription.cs:153-181).         *)
THEOREM AudioIsSafe ==
  MCSpec => /\ [](/\ FramesAccountedFor /\ NothingUsedAfterFree /\ ReadsInsideClip
                 /\ RegionsAreDisjoint /\ CallerKnowsWorker /\ ListIsSound)
            /\ RingIsAQueue
<1>1. CaptureInv => FramesAccountedFor /\ NothingUsedAfterFree
  BY DEF CaptureInv, FrameInv, ControlInv
<1> QED
  BY <1>1, AudioRunsItsParts, PlayerReadsInsideClip, RegionsNeverMeet, RingImplementsQueue,
     CallersKnow, DeviceListIsSound, PTL
================================================================================
