-------------------------------- MODULE MaDevice -------------------------------
(***************************************************************************)
(* A device of miniaudio on a synchronous backend, as audioio.c drives it: *)
(* the worker thread (ma_worker_thread) that runs the data loop, and the   *)
(* caller that starts, stops and closes it, who meet at three auto-reset   *)
(* events and one state.  The managed wrappers' locks make the callers one *)
(* (AudioCapture.cs, AudioPlayback.cs), so startStopLock is left out.      *)
(* MA_ASSERT is compiled out of the build (scripts/build-native.sh).       *)
(*                                                                         *)
(* Two things the world may do: the device goes (it is unplugged, and the  *)
(* loop ends with an error), or it goes silent and delivers nothing more.  *)
(***************************************************************************)
EXTENDS Naturals

CONSTANT MaxStarts   \* bound: starts of one device

ASSUME DeviceAssumption == MaxStarts \in Nat

VARIABLES
  devState,     \* pDevice->state
  wakeupEvent, startEvent, stopEvent,
  workResult,   \* pDevice->workResult is MA_SUCCESS
  loopWakeup,   \* onDeviceDataLoopWakeup was called and not yet seen
  worker,       \* where the worker thread stands
  client,       \* where the caller stands
  started,      \* audioio_device.started
  starts,       \* how many there were
  lost,         \* the device went away
  silent        \* the device delivers nothing more

deviceVars == <<devState, wakeupEvent, startEvent, stopEvent, workResult, loopWakeup, worker,
                client, started, starts, lost, silent>>
events == <<wakeupEvent, startEvent, stopEvent>>
world == <<lost, silent>>
audioio == <<started, starts>>

DeviceTypeOK ==
  /\ devState \in {"uninitialized", "stopped", "started", "starting", "stopping"}
  /\ wakeupEvent \in BOOLEAN /\ startEvent \in BOOLEAN /\ stopEvent \in BOOLEAN
  /\ workResult \in BOOLEAN /\ loopWakeup \in BOOLEAN
  /\ worker \in {"boot", "announce", "asleep", "woken", "starting", "refused", "begin",
                 "tell", "loop", "iterate", "callback", "ending", "setting", "exited"}
  /\ client \in {"opening", "idle", "setStarting", "signal", "waitStart", "failed",
                 "setStopping", "wakeLoop", "waitStop", "wakeWorker", "join", "gone"}
  /\ started \in BOOLEAN
  /\ starts \in 0..MaxStarts
  /\ lost \in BOOLEAN /\ silent \in BOOLEAN

(* ma_device_init has created the thread and waits for it to be ready.     *)
DeviceInit ==
  /\ devState = "uninitialized"
  /\ wakeupEvent = FALSE /\ startEvent = FALSE /\ stopEvent = FALSE
  /\ workResult = TRUE /\ loopWakeup = FALSE
  /\ worker = "boot"
  /\ client = "opening"
  /\ started = FALSE /\ starts = 0
  /\ lost = FALSE /\ silent = FALSE

-----------------------------------------------------------------------------
(* ma_worker_thread.                                                       *)

(* The state is set before the event that says so, here and after a stop.  *)
BecomeStopped ==
  /\ worker \in {"boot", "setting"}
  /\ devState' = "stopped"
  /\ worker' = "announce"
  /\ UNCHANGED <<events, workResult, loopWakeup, client, audioio, world>>

SignalStopped ==
  /\ worker = "announce"
  /\ stopEvent' = TRUE
  /\ worker' = "asleep"
  /\ UNCHANGED <<devState, wakeupEvent, startEvent, workResult, loopWakeup, client, audioio,
                 world>>

WakeUp ==
  /\ worker = "asleep"
  /\ wakeupEvent
  /\ wakeupEvent' = FALSE
  /\ workResult' = TRUE
  /\ worker' = "woken"
  /\ UNCHANGED <<devState, startEvent, stopEvent, loopWakeup, client, audioio, world>>

LeaveOrStart ==
  /\ worker = "woken"
  /\ worker' = IF devState = "uninitialized" THEN "exited" ELSE "starting"
  /\ UNCHANGED <<devState, events, workResult, loopWakeup, client, audioio, world>>

(* onDeviceStart, which may fail.                                          *)
StartBackend ==
  /\ worker = "starting"
  /\ \/ worker' = "begin" /\ UNCHANGED workResult
     \/ worker' = "refused" /\ workResult' = FALSE
  /\ UNCHANGED <<devState, events, loopWakeup, client, audioio, world>>

RefuseStart ==
  /\ worker = "refused"
  /\ startEvent' = TRUE
  /\ worker' = "asleep"
  /\ UNCHANGED <<devState, wakeupEvent, stopEvent, workResult, loopWakeup, client, audioio,
                 world>>

BecomeStarted ==
  /\ worker = "begin"
  /\ devState' = "started"
  /\ worker' = "tell"
  /\ UNCHANGED <<events, workResult, loopWakeup, client, audioio, world>>

SignalStarted ==
  /\ worker = "tell"
  /\ startEvent' = TRUE
  /\ worker' = "loop"
  /\ UNCHANGED <<devState, wakeupEvent, stopEvent, workResult, loopWakeup, client, audioio,
                 world>>

(* The data loop: round again as long as the state says started.           *)
Loop ==
  /\ worker = "loop"
  /\ worker' = IF devState = "started" THEN "iterate" ELSE "ending"
  /\ UNCHANGED <<devState, events, workResult, loopWakeup, client, audioio, world>>

(* The blocking wait of the loop ends with frames, which go to the         *)
(* callback; because it was woken; or with an error, and the loop with it. *)
Deliver ==
  /\ worker = "iterate"
  /\ ~silent
  /\ worker' = "callback"
  /\ UNCHANGED <<devState, events, workResult, loopWakeup, client, audioio, world>>

CallbackReturns ==
  /\ worker = "callback"
  /\ worker' = "loop"
  /\ UNCHANGED <<devState, events, workResult, loopWakeup, client, audioio, world>>

LoopWoken ==
  /\ worker = "iterate"
  /\ loopWakeup
  /\ loopWakeup' = FALSE
  /\ worker' = "loop"
  /\ UNCHANGED <<devState, events, workResult, client, audioio, world>>

LoopBreaks ==
  /\ worker = "iterate"
  /\ worker' = "ending"
  /\ lost' = TRUE
  /\ UNCHANGED <<devState, events, workResult, loopWakeup, client, audioio, silent>>

(* onDeviceStop, then the last look at the state before it is overwritten. *)
EndLoop ==
  /\ worker = "ending"
  /\ worker' = IF devState = "uninitialized" THEN "exited" ELSE "setting"
  /\ UNCHANGED <<devState, events, workResult, loopWakeup, client, audioio, world>>

-----------------------------------------------------------------------------
(* ma_device_init, audioio_start, audioio_stop and audioio_close.          *)

Opened ==
  /\ client = "opening"
  /\ stopEvent
  /\ stopEvent' = FALSE
  /\ client' = "idle"
  /\ UNCHANGED <<devState, wakeupEvent, startEvent, workResult, loopWakeup, worker, audioio,
                 world>>

(* A device that is started already is not started again.                  *)
StartCalled ==
  /\ client = "idle"
  /\ ~started
  /\ starts < MaxStarts
  /\ starts' = starts + 1
  /\ IF devState = "started"
     THEN started' = TRUE /\ UNCHANGED client
     ELSE client' = "setStarting" /\ UNCHANGED started
  /\ UNCHANGED <<devState, events, workResult, loopWakeup, worker, world>>

SetStarting ==
  /\ client = "setStarting"
  /\ devState' = "starting"
  /\ client' = "signal"
  /\ UNCHANGED <<events, workResult, loopWakeup, worker, audioio, world>>

SignalWakeup ==
  /\ client = "signal"
  /\ wakeupEvent' = TRUE
  /\ client' = "waitStart"
  /\ UNCHANGED <<devState, startEvent, stopEvent, workResult, loopWakeup, worker, audioio,
                 world>>

StartEnds ==
  /\ client = "waitStart"
  /\ startEvent
  /\ startEvent' = FALSE
  /\ started' = workResult
  /\ client' = IF workResult THEN "idle" ELSE "failed"
  /\ UNCHANGED <<devState, wakeupEvent, stopEvent, workResult, loopWakeup, worker, starts,
                 world>>

(* A start that failed puts the state back.                                *)
StartFailed ==
  /\ client = "failed"
  /\ devState' = "stopped"
  /\ client' = "idle"
  /\ UNCHANGED <<events, workResult, loopWakeup, worker, audioio, world>>

StopCalled ==
  /\ client = "idle"
  /\ started
  /\ IF devState = "stopped"
     THEN started' = FALSE /\ UNCHANGED client
     ELSE client' = "setStopping" /\ UNCHANGED started
  /\ UNCHANGED <<devState, events, workResult, loopWakeup, worker, starts, world>>

SetStopping ==
  /\ client = "setStopping"
  /\ devState' = "stopping"
  /\ client' = "wakeLoop"
  /\ UNCHANGED <<events, workResult, loopWakeup, worker, audioio, world>>

(* Mutant: the loop is not woken from its wait.                            *)
WakeLoopNot ==
  /\ client = "wakeLoop"
  /\ client' = "waitStop"
  /\ UNCHANGED <<devState, events, workResult, loopWakeup, worker, audioio, world>>

WakeLoop ==
  /\ client = "wakeLoop"
  /\ loopWakeup' = TRUE
  /\ client' = "waitStop"
  /\ UNCHANGED <<devState, events, workResult, worker, audioio, world>>

(* Mutant: the stop does not wait for the worker.                          *)
StopEndsUnawaited ==
  /\ client = "waitStop"
  /\ stopEvent' = FALSE
  /\ started' = FALSE
  /\ client' = "idle"
  /\ UNCHANGED <<devState, wakeupEvent, startEvent, workResult, loopWakeup, worker,
                 starts, world>>

StopReturns ==
  /\ client = "waitStop"
  /\ stopEvent
  /\ stopEvent' = FALSE
  /\ started' = FALSE
  /\ client' = "idle"
  /\ UNCHANGED <<devState, wakeupEvent, startEvent, workResult, loopWakeup, worker,
                 starts, world>>

(* ma_device_uninit: no stop, whatever the state; the state alone tells    *)
(* the worker to go, and it is joined before anything is freed.            *)
CloseCalled ==
  /\ client = "idle"
  /\ client' = "wakeWorker"
  /\ devState' = "uninitialized"
  /\ UNCHANGED <<events, workResult, loopWakeup, worker, audioio, world>>

WakeWorker ==
  /\ client = "wakeWorker"
  /\ wakeupEvent' = TRUE
  /\ client' = "join"
  /\ UNCHANGED <<devState, startEvent, stopEvent, workResult, loopWakeup, worker, audioio,
                 world>>

JoinWorker ==
  /\ client = "join"
  /\ worker = "exited"
  /\ client' = "gone"
  /\ UNCHANGED <<devState, events, workResult, loopWakeup, worker, audioio, world>>

(* The device's driver delivers nothing more, and says nothing of it.      *)
FallSilent ==
  /\ ~silent
  /\ silent' = TRUE
  /\ UNCHANGED <<devState, events, workResult, loopWakeup, worker, client, audioio, lost>>

-----------------------------------------------------------------------------
WorkerStep ==
  \/ BecomeStopped \/ SignalStopped \/ WakeUp \/ LeaveOrStart \/ StartBackend
  \/ RefuseStart \/ BecomeStarted \/ SignalStarted \/ Loop \/ Deliver \/ CallbackReturns
  \/ LoopWoken \/ EndLoop

ClientCall == StartCalled \/ StopCalled \/ CloseCalled

ClientStep ==
  \/ Opened \/ SetStarting \/ SignalWakeup \/ StartEnds \/ StartFailed
  \/ SetStopping \/ WakeLoop \/ StopReturns \/ WakeWorker \/ JoinWorker

DeviceNext == WorkerStep \/ ClientCall \/ ClientStep \/ LoopBreaks \/ FallSilent

(* Both threads go on when they can; a device that is not silent delivers. *)
DeviceFairness == WF_deviceVars(WorkerStep) /\ WF_deviceVars(ClientStep)

DeviceSpec == DeviceInit /\ [][DeviceNext]_deviceVars

-----------------------------------------------------------------------------
(* Properties.                                                             *)

Running == {"loop", "iterate", "callback"}

(* What the caller was told holds: started means that the worker is in the *)
(* data loop, stopped that no callback runs or will, closed that the thread*)
(* is gone and what the callback uses may be freed.  The first two may be  *)
(* false once the loop has ended by itself (miniaudio.h:42824-42825,       *)
(* 44377-44383, audioio.c:216-239).                                        *)
CallerKnowsWorker ==
  /\ client = "idle" /\ ~lost => IF started THEN worker \in Running ELSE worker = "asleep"
  /\ client = "gone" => worker = "exited"

(* A start and a stop return, whatever the device does, silence included;  *)
(* a close returns if the device neither goes silent nor was lost before   *)
(* (miniaudio.h:42798-42812,44369-44399,44128-44135).                      *)
CallEnded ==
  \/ client \in {"idle", "gone"}
  \/ client = "join" /\ (lost \/ silent)
DeviceCallsEnd == client # "idle" ~> CallEnded

(* miniaudio.h:44128 says that "Putting the device into an uninitialized   *)
(* state will make the worker thread return", audioio.c:234 that closing   *)
(* "stops the device and joins its thread".                                *)
CloseEndsWorker ==
  client = "join" ~> worker = "exited" \/ silent

(* The inductive invariant: until the loop has ended by itself, where the  *)
(* worker stands, the state and the events follow from where the caller    *)
(* stands (miniaudio.h:42783-42860,44285-44383).                           *)
Handshake ==
  CASE client = "opening" ->
         /\ ~wakeupEvent /\ ~startEvent /\ ~started
         /\ \/ worker = "boot" /\ ~stopEvent /\ devState = "uninitialized"
            \/ worker = "announce" /\ ~stopEvent /\ devState = "stopped"
            \/ worker = "asleep" /\ stopEvent /\ devState = "stopped"
    [] client \in {"idle", "setStarting"} /\ ~started ->
         ~wakeupEvent /\ ~startEvent /\ ~stopEvent /\ worker = "asleep" /\ devState = "stopped"
    [] client = "signal" ->
         /\ ~wakeupEvent /\ ~startEvent /\ ~stopEvent /\ ~started
         /\ worker = "asleep" /\ devState = "starting"
    [] client = "waitStart" ->
         /\ ~stopEvent /\ ~started
         /\ \/ /\ wakeupEvent /\ ~startEvent
               /\ worker = "asleep" /\ devState = "starting"
            \/ /\ ~wakeupEvent /\ ~startEvent /\ workResult
               /\ worker \in {"woken", "starting", "begin"} /\ devState = "starting"
            \/ /\ ~wakeupEvent /\ ~startEvent /\ ~workResult
               /\ worker = "refused" /\ devState = "starting"
            \/ /\ ~wakeupEvent /\ startEvent /\ ~workResult
               /\ worker = "asleep" /\ devState = "starting"
            \/ /\ ~wakeupEvent /\ ~startEvent /\ workResult
               /\ worker = "tell" /\ devState = "started"
            \/ /\ ~wakeupEvent /\ startEvent /\ workResult
               /\ worker \in Running /\ devState = "started"
    [] client = "failed" ->
         /\ ~wakeupEvent /\ ~startEvent /\ ~stopEvent /\ ~started
         /\ worker = "asleep" /\ devState = "starting"
    [] client \in {"idle", "setStopping"} /\ started ->
         ~wakeupEvent /\ ~startEvent /\ ~stopEvent /\ worker \in Running /\ devState = "started"
    [] client \in {"wakeLoop", "waitStop"} ->
         /\ ~wakeupEvent /\ ~startEvent /\ started
         /\ \/ ~stopEvent /\ worker \in Running \cup {"ending", "setting"} /\ devState = "stopping"
            \/ ~stopEvent /\ worker = "announce" /\ devState = "stopped"
            \/ stopEvent /\ worker = "asleep" /\ devState = "stopped"
    [] client \in {"wakeWorker", "join"} ->
         /\ devState = "uninitialized"
         /\ worker \in Running \cup {"asleep", "woken", "ending", "exited"}
         /\ client = "join" /\ worker = "asleep" => wakeupEvent
    [] OTHER -> TRUE

DeviceInv ==
  /\ DeviceTypeOK
  /\ ~lost => Handshake
  /\ client \in {"setStopping"} => started
  /\ client \in {"setStarting"} => ~started
  /\ client = "gone" => worker = "exited"
================================================================================
