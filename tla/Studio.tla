--------------------------------- MODULE Studio ---------------------------------
(***************************************************************************)
(* The commands of the desktop application's main window                   *)
(* (MainWindowViewModel.cs): load, run, install, unload, record and        *)
(* cancel.  Each is an async method of the user interface thread: it gives *)
(* the thread up at an await, when other commands run, and goes on when    *)
(* its continuation comes to the head of the dispatcher's queue.  The      *)
(* bodies they await run on the thread pool, next to anything.  The close  *)
(* of the window ends all of it, whatever it has begun.                    *)
(*                                                                         *)
(* The registry is created and freed with the model, and the VAD's model   *)
(* and session with the model and its session, so they are not told apart. *)
(* What a run outputs is StudioResults, what a recording does LiveCapture. *)
(***************************************************************************)
EXTENDS Naturals, Sequences

CONSTANTS
  Settings,       \* what a session is built for: task, backend, threads and options
  MaxLoads,       \* bound: models loaded in all
  MaxRecordings   \* bound: recordings started in all

ASSUME StudioAssumption ==
  /\ Settings # {}
  /\ MaxLoads \in Nat
  /\ MaxRecordings \in Nat

VARIABLES
  window,       \* "open", or "crashed" by an exception nobody catches
  busy,         \* _busy
  isLoaded,     \* _isLoaded
  isRecording,  \* _isRecording
  toggling,     \* _togglingRecording, with who set it: the button or a pump's error
  pc,           \* where each command stands
  posted,       \* the dispatcher's queue: continuations, and reports of a pump's error
  cancel,       \* _cancel, with what _cancellable says of it
  model,        \* _model, by number; 0 is null
  alive,        \* models not disposed
  loads,        \* models loaded so far
  runSession,      \* _session and _sessionKey
  making,       \* what the CreateSession call in progress builds
  live,         \* _live, by number; 0 is null
  held,         \* the recording each command took from _live and is stopping
  recording     \* what became of each recording

flagVars == <<window, busy, isLoaded, isRecording, toggling, cancel>>
modelVars == <<model, alive, loads, runSession, making>>
recordVars == <<isRecording, live, held, recording>>
studioVars == <<window, busy, isLoaded, isRecording, toggling, pc, posted, cancel, model, alive, loads, runSession, making, live, held, recording>>

Jobs == {"load", "run", "install"}      \* the commands that set Busy
Commands == Jobs \cup {"unload", "toggle"}
Models == 1..MaxLoads
Recordings == 1..MaxRecordings

NoSession == [model |-> 0]
Session(m, s, isOpen) == [model |-> m, setting |-> s, open |-> isOpen]
Sessions == [model : Models, setting : Settings, open : BOOLEAN] \cup {NoSession}

StudioTypeOK ==
  /\ window \in {"open", "crashed"}
  /\ {busy, isLoaded, isRecording} \subseteq BOOLEAN
  /\ toggling \in {"no", "pressed", "reported"}
  /\ pc \in [Commands -> {"idle", "cancelling", "cancelled", "stopping", "free", "loading",
                          "session", "making", "call", "models", "fields", "download",
                          "done", "failed"}]
  /\ posted \in Seq(Commands \cup {"error"})
  /\ cancel \in {"none", "fixed", "armed", "requested"}
  /\ model \in Models \cup {0}
  /\ alive \subseteq Models
  /\ loads \in 0..MaxLoads
  /\ runSession \in Sessions
  /\ making \in Sessions
  /\ live \in Recordings \cup {0}
  /\ held \in [Commands -> Recordings \cup {0}]
  /\ recording \in [Recordings -> {"none", "running", "ended", "faulted", "released"}]

StudioInit ==
  /\ window = "open"
  /\ busy = FALSE /\ isLoaded = FALSE /\ isRecording = FALSE /\ toggling = "no"
  /\ pc = [c \in Commands |-> "idle"]
  /\ posted = << >>
  /\ cancel = "none"
  /\ model = 0 /\ alive = {} /\ loads = 0
  /\ runSession = NoSession /\ making = NoSession
  /\ live = 0
  /\ held = [c \in Commands |-> 0]
  /\ recording = [r \in Recordings |-> "none"]

Goto(c, step) == pc' = [pc EXCEPT ![c] = step]
Post(entry) == posted' = Append(posted, entry)
Dispatch(entry) == posted # << >> /\ Head(posted) = entry /\ posted' = Tail(posted)
EndsWith(c, step) == Goto(c, step) /\ Post(c)

-----------------------------------------------------------------------------
(* Stopping a recording, and the pump that it waits for.                   *)

Release(r) == recording' = [recording EXCEPT ![r] = "released"]

(* Mutant: _live is cleared only once the stop has been awaited.           *)
TakeRecordingLate(c) ==
  /\ held' = [held EXCEPT ![c] = live]
  /\ \/ Goto(c, "cancelling")
     \/ recording[live] = "running" /\ Goto(c, "stopping")
  /\ UNCHANGED <<isRecording, live, recording>>

(* StopAsync as far as its first await: that of CancelAsync, which calls   *)
(* back who registered with the token, or, if the pump has not yet, that   *)
(* of the pump.                                                            *)
TakeRecording(c) ==
  /\ held' = [held EXCEPT ![c] = live]
  /\ live' = 0
  /\ \/ Goto(c, "cancelling")
     \/ recording[live] = "running" /\ Goto(c, "stopping")
  /\ UNCHANGED <<isRecording, recording>>

(* StopRecordingAsync as far as its first await, or to its end when there  *)
(* is nothing to wait for; `next' is what its caller goes on with.         *)
StopRecordingAsync(c, next) ==
  \/ /\ live = 0
     /\ Goto(c, next)
     /\ UNCHANGED recordVars
  \/ /\ live # 0
     /\ recording[live] # "running"
     /\ Release(live)
     /\ live' = 0
     /\ isRecording' = FALSE
     /\ Goto(c, next)
     /\ UNCHANGED held
  \/ live # 0 /\ TakeRecording(c)

CancelCalled(c) ==
  /\ pc[c] = "cancelling"
  /\ EndsWith(c, "cancelled")
  /\ UNCHANGED <<flagVars, modelVars, live, held, recording>>

WaitForPump(c) ==
  /\ pc[c] = "cancelled"
  /\ Dispatch(c)
  /\ recording[held[c]] = "running"
  /\ Goto(c, "stopping")
  /\ UNCHANGED <<flagVars, modelVars, live, held, recording>>

StopAwaited(c) ==
  /\ pc[c] \in {"cancelled", "stopping"}
  /\ Dispatch(c)
  /\ recording[held[c]] # "running"
  /\ held' = [held EXCEPT ![c] = 0]

(* StopRecordingAsync from its last await on.                              *)
RecordingStopped(c, next) ==
  /\ StopAwaited(c)
  /\ Release(held[c])
  /\ isRecording' = FALSE
  /\ Goto(c, next)
  /\ UNCHANGED live

IsHeld(r) == \E c \in Commands : held[c] = r

(* The continuation of whoever awaits the pump: of one command at most,    *)
(* since no two hold one recording (RecordingHasOneOwner).                 *)
Awaited(r) == {c \in Commands : held[c] = r /\ pc[c] = "stopping"}
Waiting(r) == IF Awaited(r) = {} THEN << >> ELSE <<CHOOSE c \in Awaited(r) : TRUE>>

(* Mutant: the loop does not look at the token that stops it.              *)
PumpEndsOnErrorOnly(r, reported) ==
  /\ recording[r] = "running"
  /\ reported
  /\ recording' = [recording EXCEPT ![r] = "ended"]
  /\ posted' = posted \o <<"error">> \o Waiting(r)
  /\ UNCHANGED <<flagVars, pc, modelVars, live, held>>

(* The pump leaves its loop because it was told to stop or because of an   *)
(* error, which it reports if OnError has been assigned by then.           *)
PumpEnds(r, reported) ==
  /\ recording[r] = "running"
  /\ recording' = [recording EXCEPT ![r] = "ended"]
  /\ posted' = posted \o (IF reported THEN <<"error">> ELSE << >>) \o Waiting(r)
  /\ UNCHANGED <<flagVars, pc, modelVars, live, held>>

(* The stream's policy, asked for before the loop, is refused: the pump    *)
(* ends with an exception that StopAsync throws.                           *)
PumpFaults(r) ==
  /\ recording[r] = "running"
  /\ recording' = [recording EXCEPT ![r] = "faulted"]
  /\ posted' = posted \o Waiting(r)
  /\ UNCHANGED <<flagVars, pc, modelVars, live, held>>

-----------------------------------------------------------------------------
(* LoadAsync.                                                              *)

Load ==
  /\ ~busy
  /\ busy' = TRUE
  /\ StopRecordingAsync("load", "free")
  /\ UNCHANGED <<window, isLoaded, toggling, posted, cancel, modelVars>>

LoadGoesOn ==
  /\ RecordingStopped("load", "free")
  /\ UNCHANGED <<window, busy, isLoaded, toggling, cancel, modelVars>>

(* The fields keep the disposed model until the new one is there.          *)
FreeReplaced ==
  /\ pc["load"] = "free"
  /\ alive' = alive \ {model}
  /\ runSession' = NoSession
  /\ Goto("load", "loading")
  /\ UNCHANGED <<flagVars, posted, model, loads, making, live, held, recording>>

ReadWeights ==
  /\ pc["load"] = "loading"
  /\ loads < MaxLoads
  /\ loads' = loads + 1
  /\ model' = loads + 1
  /\ alive' = alive \cup {loads + 1}
  /\ UNCHANGED <<flagVars, runSession, making, live, held, recording>>

LoadWeights == ReadWeights /\ EndsWith("load", "done")

(* The VAD is loaded last: when it fails, the new model is in the field.   *)
VadLoadFails == ReadWeights /\ EndsWith("load", "failed")

LoadFails ==
  /\ pc["load"] = "loading"
  /\ EndsWith("load", "failed")
  /\ UNCHANGED <<flagVars, modelVars, live, held, recording>>

(* The model is described from its handle, which an unload may have        *)
(* disposed meanwhile; a null one throws.                                  *)
Loaded ==
  /\ pc["load"] = "done"
  /\ Dispatch("load")
  /\ \/ model # 0 /\ isLoaded' = TRUE
     \/ model \notin alive /\ isLoaded' = FALSE
  /\ busy' = FALSE
  /\ Goto("load", "idle")
  /\ UNCHANGED <<window, isRecording, toggling, cancel, modelVars, live, held, recording>>

(* Mutant: the window goes on offering the model whose load failed.        *)
NotLoadedStillOffered ==
  /\ pc["load"] = "failed"
  /\ Dispatch("load")
  /\ busy' = FALSE
  /\ Goto("load", "idle")
  /\ UNCHANGED <<window, isLoaded, isRecording, toggling, cancel, modelVars,
                 live, held, recording>>

NotLoaded ==
  /\ pc["load"] = "failed"
  /\ Dispatch("load")
  /\ isLoaded' = FALSE
  /\ busy' = FALSE
  /\ Goto("load", "idle")
  /\ UNCHANGED <<window, isRecording, toggling, cancel, modelVars, live, held, recording>>

-----------------------------------------------------------------------------
(* RunAsync.  The window's settings may change at any time, so those that  *)
(* its body reads are any.                                                 *)

(* Mutant: the command does not look at Busy.                              *)
RunWhileBusy ==
  /\ isLoaded
  /\ pc["run"] = "idle"
  /\ busy' = TRUE
  /\ cancel' \in {"fixed", "armed"}
  /\ Goto("run", "session")
  /\ UNCHANGED <<window, isLoaded, isRecording, toggling, posted, modelVars,
                 live, held, recording>>

(* A run of one call has a token that no command may use.  A run refused   *)
(* for its inputs alone changes nothing here.                              *)
Run ==
  /\ ~busy
  /\ isLoaded
  /\ busy' = TRUE
  /\ cancel' \in {"fixed", "armed"}
  /\ Goto("run", "session")
  /\ UNCHANGED <<window, isLoaded, isRecording, toggling, posted, modelVars,
                 live, held, recording>>

RunWithoutInput ==
  /\ pc["run"] = "session"
  /\ EndsWith("run", "failed")
  /\ UNCHANGED <<flagVars, modelVars, live, held, recording>>

(* A kept session is looked for by its key alone.                          *)
Fits(s, setting) == s # NoSession /\ s.setting = setting

ReuseSession(setting) ==
  /\ pc["run"] = "session"
  /\ Fits(runSession, setting)
  /\ Goto("run", "call")
  /\ UNCHANGED <<flagVars, posted, modelVars, live, held, recording>>

(* Mutant: the model's field is cleared with the session.                  *)
ClosedByNulling(s) == IF s = NoSession THEN s ELSE [s EXCEPT !.model = 0]

Closed(s) == IF s = NoSession THEN s ELSE [s EXCEPT !.open = FALSE]

(* The session of other settings is disposed, and stays in its field with  *)
(* its key until another takes its place.                                  *)
ReplaceSession(setting) ==
  /\ pc["run"] = "session"
  /\ ~Fits(runSession, setting)
  /\ runSession' = Closed(runSession)
  /\ \/ /\ model # 0
        /\ making' = Session(model, setting, TRUE)
        /\ Goto("run", "making")
        /\ UNCHANGED posted
     \/ /\ model \notin alive
        /\ EndsWith("run", "failed")
        /\ UNCHANGED making
  /\ UNCHANGED <<flagVars, model, alive, loads, live, held, recording>>

SessionMade ==
  /\ pc["run"] = "making"
  /\ runSession' = making
  /\ making' = NoSession
  /\ Goto("run", "call")
  /\ UNCHANGED <<flagVars, posted, model, alive, loads, live, held, recording>>

SessionRefused ==
  /\ pc["run"] = "making"
  /\ making' = NoSession
  /\ EndsWith("run", "failed")
  /\ UNCHANGED <<flagVars, model, alive, loads, runSession, live, held, recording>>

(* The calls into the engine, one or one per piece; what a call on a       *)
(* disposed session does is not defined.                                   *)
RunCalls ==
  /\ pc["run"] = "call"
  /\ \/ runSession # NoSession /\ EndsWith("run", "done")
     \/ EndsWith("run", "failed")
  /\ UNCHANGED <<flagVars, modelVars, live, held, recording>>

RunReturns ==
  /\ pc["run"] \in {"done", "failed"}
  /\ Dispatch("run")
  /\ busy' = FALSE
  /\ cancel' = "none"
  /\ Goto("run", "idle")
  /\ UNCHANGED <<window, isLoaded, isRecording, toggling, modelVars, live, held, recording>>

-----------------------------------------------------------------------------
(* UnloadAsync, one at a time.                                             *)

Unload ==
  /\ isLoaded
  /\ ~busy
  /\ pc["unload"] = "idle"
  /\ StopRecordingAsync("unload", "session")
  /\ UNCHANGED <<window, busy, isLoaded, toggling, posted, cancel, modelVars>>

UnloadGoesOn ==
  /\ RecordingStopped("unload", "session")
  /\ UNCHANGED <<window, busy, isLoaded, toggling, cancel, modelVars>>

UnloadSession ==
  /\ pc["unload"] = "session"
  /\ runSession' = Closed(runSession)
  /\ Goto("unload", "models")
  /\ UNCHANGED <<flagVars, posted, model, alive, loads, making, live, held, recording>>

UnloadModel ==
  /\ pc["unload"] = "models"
  /\ alive' = alive \ {model}
  /\ Goto("unload", "fields")
  /\ UNCHANGED <<flagVars, posted, model, loads, runSession, making, live, held, recording>>

UnloadFields ==
  /\ pc["unload"] = "fields"
  /\ runSession' = NoSession
  /\ model' = 0
  /\ EndsWith("unload", "done")
  /\ UNCHANGED <<flagVars, alive, loads, making, live, held, recording>>

Unloaded ==
  /\ pc["unload"] = "done"
  /\ Dispatch("unload")
  /\ isLoaded' = FALSE
  /\ Goto("unload", "idle")
  /\ UNCHANGED <<window, busy, isRecording, toggling, cancel, modelVars, live, held, recording>>

-----------------------------------------------------------------------------
(* InstallAsync and CancelAsync.                                           *)

Install ==
  /\ ~busy
  /\ busy' = TRUE
  /\ cancel' = "armed"
  /\ Goto("install", "download")
  /\ UNCHANGED <<window, isLoaded, isRecording, toggling, posted, modelVars,
                 live, held, recording>>

DownloadEnds ==
  /\ pc["install"] = "download"
  /\ EndsWith("install", "done") \/ EndsWith("install", "failed")
  /\ UNCHANGED <<flagVars, modelVars, live, held, recording>>

(* An exception that no handler of it names clears Busy on its way out,    *)
(* and ends the application, since nobody awaits the command.              *)
Installed ==
  /\ pc["install"] \in {"done", "failed"}
  /\ Dispatch("install")
  /\ busy' = FALSE
  /\ cancel' = "none"
  /\ Goto("install", "idle")
  /\ window' = IF pc["install"] = "failed" THEN "crashed" ELSE window
  /\ UNCHANGED <<isLoaded, isRecording, toggling, modelVars, live, held, recording>>

Cancel ==
  /\ busy
  /\ cancel = "armed"
  /\ cancel' = "requested"
  /\ UNCHANGED <<window, busy, isLoaded, isRecording, toggling, pc, posted, modelVars,
                 live, held, recording>>

-----------------------------------------------------------------------------
(* ToggleRecordingAsync, for the Record button or for a pump's error.      *)

(* The start of a recording happens in one go on the user interface        *)
(* thread; what fails in it is caught.                                     *)
StartRecording ==
  /\ model # 0
  /\ \/ \E r \in Recordings :
          /\ recording[r] = "none"
          /\ \A other \in 1..(r - 1) : recording[other] # "none"
          /\ recording' = [recording EXCEPT ![r] = "running"]
          /\ live' = r
          /\ isRecording' = TRUE
     \/ isRecording' = FALSE /\ UNCHANGED <<live, recording>>
  /\ UNCHANGED <<held, toggling, pc>>

(* What follows the await of StopAsync.  An exception of it disposes the   *)
(* recording and goes on to the caller, past IsRecording.                  *)
RecordingEnds(r) ==
  /\ Release(r)
  /\ isRecording' = IF recording[r] = "faulted" THEN isRecording ELSE FALSE

ToggleRecording(by) ==
  /\ toggling = "no"
  /\ \/ /\ live = 0
        /\ StartRecording
     \/ /\ live # 0
        /\ recording[live] # "running"
        /\ RecordingEnds(live)
        /\ live' = 0
        /\ UNCHANGED <<held, toggling, pc>>
     \/ /\ live # 0
        /\ TakeRecording("toggle")
        /\ toggling' = by

(* Nobody awaits the button's command: its exception ends the application. *)
FaultEscapes(r) == r # 0 /\ recording[r] = "faulted"

Record ==
  /\ isRecording \/ (~busy /\ isLoaded)
  /\ ToggleRecording("pressed")
  /\ window' = IF FaultEscapes(live) /\ toggling' = "no" THEN "crashed" ELSE window
  /\ UNCHANGED <<busy, isLoaded, cancel, posted, modelVars>>

(* The report of an error is dropped while a toggle is in progress, and    *)
(* when there is neither a recording nor a model.                          *)
ErrorReported ==
  /\ Dispatch("error")
  /\ \/ /\ ToggleRecording("reported")
        /\ UNCHANGED <<window, busy, isLoaded, cancel, modelVars>>
     \/ /\ toggling # "no" \/ (live = 0 /\ model = 0)
        /\ UNCHANGED <<flagVars, pc, modelVars, live, held, recording>>

ToggleStopped ==
  /\ StopAwaited("toggle")
  /\ RecordingEnds(held["toggle"])
  /\ window' = IF FaultEscapes(held["toggle"]) /\ toggling = "pressed" THEN "crashed" ELSE window
  /\ toggling' = "no"
  /\ Goto("toggle", "idle")
  /\ UNCHANGED <<busy, isLoaded, cancel, modelVars, live>>

-----------------------------------------------------------------------------

Continue == LoadGoesOn \/ Loaded \/ NotLoaded \/ RunReturns \/ UnloadGoesOn \/ Unloaded
            \/ Installed \/ ErrorReported \/ ToggleStopped
            \/ \E c \in Commands : WaitForPump(c)
LoadBody == FreeReplaced \/ LoadWeights \/ VadLoadFails \/ LoadFails
RunBody == RunWithoutInput \/ SessionMade \/ SessionRefused \/ RunCalls
           \/ \E setting \in Settings : ReuseSession(setting) \/ ReplaceSession(setting)
UnloadBody == UnloadSession \/ UnloadModel \/ UnloadFields
StoppedPumpEnds == \E r \in Recordings : IsHeld(r) /\ PumpEnds(r, FALSE)

StudioNext ==
  /\ window = "open"
  /\ \/ Load \/ Run \/ Unload \/ Install \/ Cancel \/ Record
     \/ LoadGoesOn \/ Loaded \/ NotLoaded \/ RunReturns \/ UnloadGoesOn \/ Unloaded
     \/ Installed \/ ErrorReported \/ ToggleStopped
     \/ FreeReplaced \/ LoadWeights \/ VadLoadFails \/ LoadFails
     \/ RunWithoutInput \/ SessionMade \/ SessionRefused \/ RunCalls
     \/ \E setting \in Settings : ReuseSession(setting) \/ ReplaceSession(setting)
     \/ UnloadSession \/ UnloadModel \/ UnloadFields
     \/ DownloadEnds
     \/ \E c \in Commands : CancelCalled(c) \/ WaitForPump(c)
     \/ \E r \in Recordings :
          \/ \E reported \in BOOLEAN : PumpEnds(r, reported)
          \/ PumpFaults(r)

(* The dispatcher runs what is posted, a body on the thread pool gets on,  *)
(* the engine's calls return, and a pump that was told to stop ends, all   *)
(* of it as long as the window is open.                                    *)
StudioFairness ==
  /\ WF_studioVars(window = "open" /\ Continue)
  /\ WF_studioVars(window = "open" /\ LoadBody)
  /\ WF_studioVars(window = "open" /\ RunBody)
  /\ WF_studioVars(window = "open" /\ UnloadBody)
  /\ WF_studioVars(window = "open" /\ DownloadEnds)
  /\ \A c \in Commands : WF_studioVars(window = "open" /\ CancelCalled(c))
  /\ WF_studioVars(window = "open" /\ StoppedPumpEnds)

StudioSpec == StudioInit /\ [][StudioNext]_studioVars /\ StudioFairness

-----------------------------------------------------------------------------
(* Properties.                                                             *)

(* A recording that has not been released is in _live or in the hands of   *)
(* the one command that took it from there, and in no two of these places: *)
(* no recording is stopped twice, and none is left running with nobody to  *)
(* stop it, whatever is pressed while a stop is awaited                    *)
(* (MainWindowViewModel.cs:2532-2544, 2764-2796).                          *)
Owners(r) == {c \in Commands : held[c] = r} \cup (IF live = r THEN {"live"} ELSE {})
RecordingHasOneOwner ==
  \A r \in Recordings :
    IF recording[r] \in {"none", "released"}
    THEN Owners(r) = {}
    ELSE \E owner \in Commands \cup {"live"} : Owners(r) = {owner}

(* Busy is one job's: a load, a run and an install never overlap, Busy     *)
(* goes with the last continuation of the job that set it, and the token   *)
(* that Cancel would cancel is there exactly while its run or its install  *)
(* is in progress (MainWindowViewModel.cs:1590, 1779, 2374, 2835).         *)
Working == {c \in Jobs : pc[c] # "idle"}
BusyIsOneJobs ==
  /\ \A c, d \in Working : c = d
  /\ busy <=> Working # {}
  /\ cancel # "none" <=> Working \cap {"run", "install"} # {}

(* While the window offers a model and nothing is loading or unloading, it *)
(* is one that has not been disposed, and a session kept for the next run  *)
(* was built from it, however an unload and a load that was pressed during *)
(* it interleave (MainWindowViewModel.cs:1599-1617, 2479-2508).            *)
OfferedModelIsThere ==
  (isLoaded /\ pc["load"] = "idle" /\ pc["unload"] = "idle") =>
    /\ model \in alive
    /\ runSession # NoSession => runSession.model = model

(* The window does not stay busy: what a load, a run or an install waits   *)
(* for comes, the stop of a recording and its pump's end among it, and     *)
(* Busy is cleared whichever way it went, unless the application crashes   *)
(* first (the finally blocks at MainWindowViewModel.cs:1770, 2092, 2425).  *)
BusyEnds == busy ~> (~busy \/ window # "open")

(* MainWindowViewModel.cs:1860 says the session is "reused across runs":   *)
(* between the commands, one that is kept for reuse is not a disposed one. *)
KeptSessionIsOpen ==
  (runSession # NoSession /\ pc["run"] = "idle" /\ pc["unload"] = "idle") => runSession.open
================================================================================
