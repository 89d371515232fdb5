----------------------------- MODULE Desktop_proofs -----------------------------
(***************************************************************************)
(* Proofs about the desktop application: the commands of its main window,  *)
(* for any settings and any number of loads and recordings; the results of *)
(* its runs, for any tasks and any number of pieces; and the application   *)
(* as a whole.                                                             *)
(***************************************************************************)
EXTENDS MCDesktop, TextPieces_proofs

-----------------------------------------------------------------------------
(* The commands of the window.                                              *)

Steps == {"idle", "cancelling", "cancelled", "stopping", "free", "loading", "session",
          "making", "call", "models", "fields", "download", "done", "failed"}
Entries == Commands \cup {"error"}
StopSteps == {"cancelling", "cancelled", "stopping"}
Ends == {"none", "released"}

-----------------------------------------------------------------------------
(* Recordings.                                                             *)

RecordingOK ==
  /\ pc \in [Commands -> Steps]
  /\ toggling \in {"no", "pressed", "reported"}
  /\ live \in Recordings \cup {0}
  /\ held \in [Commands -> Recordings \cup {0}]
  /\ recording \in [Recordings -> {"none", "running", "ended", "faulted", "released"}]

(* A command holds a recording exactly where it waits for its stop, no two *)
(* places hold the same one, and what is not over is in one of them.       *)
OwnerInv ==
  /\ \A c \in Commands : held[c] # 0 <=> pc[c] \in StopSteps
  /\ \A c \in Commands : held[c] # 0 => held[c] # live /\ recording[held[c]] \notin Ends
  /\ \A c, d \in Commands : held[c] # 0 /\ held[c] = held[d] => c = d
  /\ live # 0 => recording[live] \notin Ends
  /\ \A r \in Recordings :
       recording[r] \notin Ends => live = r \/ \E c \in Commands : held[c] = r
  /\ toggling = "no" <=> pc["toggle"] = "idle"

(* Busy: it is inductive as it stands, but for what the commands are.      *)
BusyInv ==
  /\ \A c, d \in Jobs : pc[c] # "idle" /\ pc[d] # "idle" => c = d
  /\ busy <=> \E c \in Jobs : pc[c] # "idle"
  /\ cancel # "none" <=> pc["run"] # "idle" \/ pc["install"] # "idle"

(* The shapes of the steps that touch recordings.                          *)

(* A command goes on, between steps that stop no recording.                *)
LEMMA CommandMoves ==
  ASSUME RecordingOK, OwnerInv,
         NEW c \in Commands \ {"toggle"}, NEW step \in Steps \ StopSteps,
         pc[c] \notin StopSteps, Goto(c, step), UNCHANGED <<toggling, live, held, recording>>
  PROVE  RecordingOK' /\ OwnerInv'
BY DEF RecordingOK, OwnerInv, Goto, Steps, StopSteps, Commands, Jobs

(* A command goes on with the stop of the recording it holds.              *)
LEMMA StopMoves ==
  ASSUME RecordingOK, OwnerInv,
         NEW c \in Commands, NEW step \in StopSteps,
         pc[c] \in StopSteps, Goto(c, step), UNCHANGED <<toggling, live, held, recording>>
  PROVE  RecordingOK' /\ OwnerInv'
BY DEF RecordingOK, OwnerInv, Goto, Steps, StopSteps, Commands, Jobs

(* _live, taken or released at once.                                       *)
LEMMA LiveTaken ==
  ASSUME RecordingOK, OwnerInv,
         NEW c \in Commands, pc[c] \notin StopSteps, live # 0, TakeRecording(c),
         IF c = "toggle" THEN toggling' \in {"pressed", "reported"} ELSE toggling' = toggling
  PROVE  RecordingOK' /\ OwnerInv'
<1>1. PICK step \in StopSteps : pc' = [pc EXCEPT ![c] = step]
  BY DEF TakeRecording, Goto, StopSteps
<1>2. RecordingOK'
  BY <1>1 DEF RecordingOK, TakeRecording, Steps, StopSteps
<1>3. live \in Recordings /\ recording[live] \notin Ends
  BY DEF RecordingOK, OwnerInv
<1>4. held' = [held EXCEPT ![c] = live] /\ live' = 0 /\ recording' = recording
  BY DEF TakeRecording
<1>5. held[c] = 0
  BY DEF OwnerInv
<1>6. 0 \notin Recordings
  BY DEF Recordings
<1>7. pc'["toggle"] = "idle" <=> pc["toggle"] = "idle" /\ c # "toggle"
  BY <1>1 DEF RecordingOK, StopSteps, Commands
<1>8. toggling' = "no" <=> pc'["toggle"] = "idle"
  BY <1>7 DEF OwnerInv
<1>9. \A d \in Commands : held'[d] # 0 <=> pc'[d] \in StopSteps
  BY <1>1, <1>3, <1>4, <1>6 DEF OwnerInv, RecordingOK
<1>10. \A d \in Commands : held'[d] = IF d = c THEN live ELSE held[d]
  BY <1>4 DEF RecordingOK
<1> QED
  BY <1>2, <1>3, <1>4, <1>5, <1>8, <1>9, <1>10 DEF OwnerInv

(* The window lets go of its recording, which is stopped.                  *)
LEMMA LiveReleased ==
  ASSUME RecordingOK, OwnerInv, live # 0, Release(live), live' = 0, UNCHANGED <<toggling, held>>,
         UNCHANGED pc \/ \E c \in Commands \ {"toggle"}, step \in Steps \ StopSteps :
                           pc[c] \notin StopSteps /\ Goto(c, step)
  PROVE  RecordingOK' /\ OwnerInv'
<1>1. live \in Recordings
  BY DEF RecordingOK
<1>2. pc' \in [Commands -> Steps] /\ \A d \in Commands : pc'[d] \in StopSteps <=> pc[d] \in StopSteps
  BY DEF RecordingOK, Goto, Steps
<1>3. pc'["toggle"] = pc["toggle"]
  BY DEF RecordingOK, Goto, Commands
<1>4. \A r \in Recordings : recording'[r] = IF r = live THEN "released" ELSE recording[r]
  BY <1>1 DEF Release, RecordingOK
<1>5. RecordingOK'
  BY <1>1, <1>2 DEF RecordingOK, Release
<1>6. \A d \in Commands : held[d] # 0 => held[d] \in Recordings /\ held[d] # live
  BY DEF RecordingOK, OwnerInv
<1> QED
  BY <1>2, <1>3, <1>4, <1>5, <1>6 DEF OwnerInv, Ends

(* What a command held is released once its stop has been awaited.         *)
LEMMA HeldReleased ==
  ASSUME RecordingOK, OwnerInv,
         NEW c \in Commands, StopAwaited(c), Release(held[c]), UNCHANGED live,
         NEW step \in Steps \ StopSteps, Goto(c, step),
         IF c = "toggle" THEN step = "idle" /\ toggling' = "no"
                         ELSE toggling' = toggling
  PROVE  RecordingOK' /\ OwnerInv'
<1>1. held[c] \in Recordings /\ held[c] # live
  BY DEF StopAwaited, RecordingOK, OwnerInv, StopSteps
<1>2. \A d \in Commands : held'[d] = IF d = c THEN 0 ELSE held[d]
  BY DEF StopAwaited, RecordingOK
<1>3. \A d \in Commands : pc'[d] = IF d = c THEN step ELSE pc[d]
  BY DEF Goto, RecordingOK
<1>4. \A r \in Recordings : recording'[r] = IF r = held[c] THEN "released" ELSE recording[r]
  BY <1>1 DEF Release, RecordingOK
<1>5. RecordingOK'
  BY <1>1 DEF RecordingOK, StopAwaited, Release, Goto
<1>6. toggling' = "no" <=> pc'["toggle"] = "idle"
  BY <1>3 DEF OwnerInv, Commands
<1>7. \A d \in Commands : d # c /\ held[d] # 0 => held[d] \in Recordings /\ held[d] # held[c]
  BY <1>1 DEF OwnerInv, RecordingOK
<1>8. \A d \in Commands : held'[d] # 0 <=> pc'[d] \in StopSteps
  BY <1>2, <1>3 DEF OwnerInv
<1>9. \A d \in Commands : held'[d] # 0 => held'[d] # live' /\ recording'[held'[d]] \notin Ends
  BY <1>2, <1>4, <1>7 DEF OwnerInv
<1>10. \A d, e \in Commands : held'[d] # 0 /\ held'[d] = held'[e] => d = e
  BY <1>2 DEF OwnerInv
<1>11. live' # 0 => recording'[live'] \notin Ends
  BY <1>1, <1>4 DEF OwnerInv, RecordingOK
<1>12. \A r \in Recordings :
         recording'[r] \notin Ends => live' = r \/ \E d \in Commands : held'[d] = r
  BY <1>1, <1>2, <1>4 DEF OwnerInv, Ends
<1> QED
  BY <1>5, <1>6, <1>8, <1>9, <1>10, <1>11, <1>12 DEF OwnerInv

(* The window starts a recording when it has none.                         *)
LEMMA LiveStarted ==
  ASSUME RecordingOK, OwnerInv, live = 0, StartRecording
  PROVE  RecordingOK' /\ OwnerInv'
<1>1. CASE UNCHANGED <<live, recording>>
  BY <1>1 DEF StartRecording, RecordingOK, OwnerInv
<1>2. ASSUME NEW r \in Recordings, recording[r] = "none", live' = r,
             recording' = [recording EXCEPT ![r] = "running"]
      PROVE  RecordingOK' /\ OwnerInv'
  <2>1. UNCHANGED <<held, toggling, pc>>
    BY DEF StartRecording
  <2>2. \A q \in Recordings : recording'[q] = IF q = r THEN "running" ELSE recording[q]
    BY <1>2 DEF RecordingOK
  <2>3. RecordingOK'
    BY <1>2, <2>1 DEF RecordingOK
  <2>4. \A d \in Commands : held[d] # 0 => held[d] \in Recordings /\ held[d] # r
    BY <1>2 DEF OwnerInv, RecordingOK, Ends
  <2>5. \A d \in Commands : held'[d] # 0 => held'[d] # live' /\ recording'[held'[d]] \notin Ends
    BY <1>2, <2>1, <2>2, <2>4 DEF OwnerInv
  <2>6. live' # 0 => recording'[live'] \notin Ends
    BY <1>2, <2>2 DEF Ends
  <2>7. \A q \in Recordings :
          recording'[q] \notin Ends => live' = q \/ \E d \in Commands : held'[d] = q
    BY <1>2, <2>1, <2>2 DEF OwnerInv, Recordings
  <2> QED
    BY <2>1, <2>3, <2>5, <2>6, <2>7 DEF OwnerInv
<1> QED
  BY <1>1, <1>2 DEF StartRecording

(* The pump of a recording ends, whoever owns it.                          *)
LEMMA PumpOver ==
  ASSUME RecordingOK, OwnerInv, NEW r \in Recordings, NEW end \in {"ended", "faulted"},
         recording[r] = "running", recording' = [recording EXCEPT ![r] = end],
         UNCHANGED <<toggling, pc, live, held>>
  PROVE  RecordingOK' /\ OwnerInv'
<1>1. \A q \in Recordings : recording'[q] \in Ends <=> recording[q] \in Ends
  BY DEF RecordingOK, Ends
<1>2. RecordingOK'
  BY DEF RecordingOK
<1> QED
  BY <1>1, <1>2 DEF OwnerInv, RecordingOK

(* A command takes the recording from the window, or finds none            *)
(* (StopRecordingAsync).                                                   *)
LEMMA RecordingStops ==
  ASSUME RecordingOK, OwnerInv, NEW c \in Commands \ {"toggle"}, NEW next \in Steps \ StopSteps,
         pc[c] \notin StopSteps, StopRecordingAsync(c, next), UNCHANGED toggling
  PROVE  RecordingOK' /\ OwnerInv'
<1>1. CASE live = 0
  BY <1>1, CommandMoves DEF StopRecordingAsync, recordVars
<1>2. CASE live # 0 /\ TakeRecording(c)
  BY <1>2, LiveTaken
<1>3. CASE live # 0 /\ Release(live) /\ live' = 0 /\ Goto(c, next) /\ UNCHANGED held
  BY <1>3, LiveReleased
<1> QED
  BY <1>1, <1>2, <1>3 DEF StopRecordingAsync

(* The record command starts, stops or reports the end (ToggleRecording).  *)
LEMMA RecordingToggles ==
  ASSUME RecordingOK, OwnerInv, NEW by \in {"pressed", "reported"}, ToggleRecording(by)
  PROVE  RecordingOK' /\ OwnerInv'
<1>1. CASE live = 0 /\ StartRecording
  BY <1>1, LiveStarted
<1>2. CASE live # 0 /\ Release(live) /\ live' = 0 /\ UNCHANGED <<held, toggling, pc>>
  BY <1>2, LiveReleased
<1>3. CASE live # 0 /\ TakeRecording("toggle") /\ toggling' = by
  <2>1. "toggle" \in Commands /\ pc["toggle"] \notin StopSteps
    BY DEF ToggleRecording, OwnerInv, Commands, StopSteps
  <2> QED
    BY <1>3, <2>1, LiveTaken
<1> QED
  BY <1>1, <1>2, <1>3 DEF ToggleRecording, RecordingEnds

(* No step leaves a recording without its one owner.                       *)
LEMMA OwnerStep ==
  ASSUME RecordingOK, OwnerInv, BusyInv, [StudioNext]_studioVars
  PROVE  RecordingOK' /\ OwnerInv'
<1>0. {"idle", "free", "loading", "session", "making", "call", "models", "fields", "download",
        "done", "failed"} \subseteq Steps \ StopSteps
      /\ {"load", "run", "unload", "install"} \subseteq Commands \ {"toggle"}
  BY DEF Steps, StopSteps, Commands, Jobs
<1>1. CASE Load \/ Unload
  <2>1. Load => pc["load"] \notin StopSteps
    BY DEF Load, BusyInv, Jobs, StopSteps
  <2>2. Unload => pc["unload"] \notin StopSteps
    BY DEF Unload, StopSteps
  <2> QED
    BY <1>0, <1>1, <2>1, <2>2, RecordingStops DEF Load, Unload
<1>2. CASE LoadGoesOn \/ UnloadGoesOn
  BY <1>0, <1>2, HeldReleased DEF LoadGoesOn, UnloadGoesOn, RecordingStopped
<1>3. CASE FreeReplaced \/ LoadWeights \/ VadLoadFails \/ LoadFails \/ Loaded \/ NotLoaded
  <2>1. pc["load"] \notin StopSteps
    BY <1>3 DEF FreeReplaced, ReadWeights, LoadWeights, VadLoadFails, LoadFails, Loaded, NotLoaded, StopSteps
  <2>2. \E step \in Steps \ StopSteps : Goto("load", step)
    BY <1>0, <1>3 DEF FreeReplaced, ReadWeights, LoadWeights, VadLoadFails, LoadFails, Loaded, NotLoaded, EndsWith
  <2>3. UNCHANGED <<toggling, live, held, recording>>
    BY <1>3 DEF FreeReplaced, ReadWeights, LoadWeights, VadLoadFails, LoadFails, Loaded, NotLoaded, flagVars
  <2> QED
    BY <1>0, <2>1, <2>2, <2>3, CommandMoves
<1>4. CASE Run \/ RunWithoutInput \/ SessionMade \/ SessionRefused \/ RunCalls \/ RunReturns
           \/ \E setting \in Settings : ReuseSession(setting) \/ ReplaceSession(setting)
  <2>1. pc["run"] \notin StopSteps
    <3>1. CASE Run
      BY <3>1 DEF Run, BusyInv, Jobs, StopSteps
    <3>2. CASE ~Run
      BY <1>4, <3>2 DEF RunWithoutInput, SessionMade, SessionRefused, RunCalls, RunReturns,
                        ReuseSession, ReplaceSession, StopSteps
    <3> QED
      BY <3>1, <3>2
  <2>2. \E step \in Steps \ StopSteps : Goto("run", step)
    BY <1>0, <1>4 DEF Run, RunWithoutInput, SessionMade, SessionRefused, RunCalls, RunReturns,
                      ReuseSession, ReplaceSession, EndsWith
  <2>3. UNCHANGED <<toggling, live, held, recording>>
    BY <1>4 DEF Run, RunWithoutInput, SessionMade, SessionRefused, RunCalls, RunReturns,
                ReuseSession, ReplaceSession, flagVars
  <2> QED
    BY <1>0, <2>1, <2>2, <2>3, CommandMoves
<1>5. CASE UnloadSession \/ UnloadModel \/ UnloadFields \/ Unloaded
  <2>1. pc["unload"] \notin StopSteps
    BY <1>5 DEF UnloadSession, UnloadModel, UnloadFields, Unloaded, StopSteps
  <2>2. \E step \in Steps \ StopSteps : Goto("unload", step)
    BY <1>0, <1>5 DEF UnloadSession, UnloadModel, UnloadFields, Unloaded, EndsWith
  <2>3. UNCHANGED <<toggling, live, held, recording>>
    BY <1>5 DEF UnloadSession, UnloadModel, UnloadFields, Unloaded, flagVars
  <2> QED
    BY <1>0, <2>1, <2>2, <2>3, CommandMoves
<1>6. CASE Install \/ DownloadEnds \/ Installed
  <2>1. pc["install"] \notin StopSteps
    BY <1>6 DEF Install, DownloadEnds, Installed, BusyInv, Jobs, StopSteps
  <2>2. \E step \in Steps \ StopSteps : Goto("install", step)
    BY <1>0, <1>6 DEF Install, DownloadEnds, Installed, EndsWith
  <2>3. UNCHANGED <<toggling, live, held, recording>>
    BY <1>6 DEF Install, DownloadEnds, Installed, flagVars
  <2> QED
    BY <1>0, <2>1, <2>2, <2>3, CommandMoves
<1>7. CASE Record \/ ErrorReported
  <2>1. CASE \E by \in {"pressed", "reported"} : ToggleRecording(by)
    BY <2>1, RecordingToggles
  <2>2. CASE UNCHANGED <<toggling, pc, live, held, recording>>
    BY <2>2 DEF RecordingOK, OwnerInv
  <2> QED
    BY <1>7, <2>1, <2>2 DEF Record, ErrorReported, flagVars
<1>8. CASE ToggleStopped
  <2>1. "toggle" \in Commands
    BY DEF Commands
  <2> QED
    BY <1>0, <1>8, <2>1, HeldReleased DEF ToggleStopped, RecordingEnds
<1>9. ASSUME NEW c \in Commands, CancelCalled(c) \/ WaitForPump(c) PROVE RecordingOK' /\ OwnerInv'
  <2>1. pc[c] \in StopSteps
    BY <1>9 DEF CancelCalled, WaitForPump, StopSteps
  <2>2. \E step \in StopSteps : Goto(c, step)
    BY <1>9 DEF CancelCalled, WaitForPump, StopSteps, EndsWith
  <2>3. UNCHANGED <<toggling, live, held, recording>>
    BY <1>9 DEF CancelCalled, WaitForPump, flagVars
  <2> QED
    BY <2>1, <2>2, <2>3, StopMoves
<1>10. ASSUME NEW r \in Recordings, PumpFaults(r) \/ \E reported \in BOOLEAN : PumpEnds(r, reported)
       PROVE  RecordingOK' /\ OwnerInv'
  <2>1. PICK end \in {"ended", "faulted"} : recording' = [recording EXCEPT ![r] = end]
    BY <1>10 DEF PumpEnds, PumpFaults
  <2>2. recording[r] = "running" /\ UNCHANGED <<toggling, pc, live, held>>
    BY <1>10 DEF PumpEnds, PumpFaults, flagVars
  <2> QED
    BY <2>1, <2>2, PumpOver
<1>11. CASE Cancel \/ UNCHANGED studioVars
  BY <1>11 DEF Cancel, studioVars, RecordingOK, OwnerInv
<1> QED
  BY <1>1, <1>2, <1>3, <1>4, <1>5, <1>6, <1>7, <1>8, <1>9, <1>10, <1>11 DEF StudioNext

-----------------------------------------------------------------------------
(* Busy.                                                                   *)

(* What the steps do to it: a job starts when there is none, goes on, or   *)
(* ends, and nothing else touches its flag or its token.                   *)
JobStarts(j) ==
  /\ ~busy /\ busy' = TRUE
  /\ \E step \in Steps \ {"idle"} : Goto(j, step)
  /\ IF j = "load" THEN cancel' = cancel ELSE cancel' # "none"

JobEnds(j) ==
  /\ pc[j] # "idle"
  /\ busy' = FALSE
  /\ Goto(j, "idle")
  /\ IF j = "load" THEN cancel' = cancel ELSE cancel' = "none"

JobGoesOn ==
  /\ busy' = busy
  /\ cancel' # "none" <=> cancel # "none"
  /\ \A j \in Jobs : pc'[j] # "idle" <=> pc[j] # "idle"

(* Busy is set and reset with the job it is of.                            *)
LEMMA BusyChanges ==
  ASSUME BusyInv, pc \in [Commands -> Steps],
         JobGoesOn \/ \E j \in Jobs : JobStarts(j) \/ JobEnds(j)
  PROVE  BusyInv'
<1>1. CASE JobGoesOn
  BY <1>1, Zenon DEF JobGoesOn, BusyInv, Jobs
<1>2. ASSUME NEW j \in Jobs, JobStarts(j) PROVE BusyInv'
  <2>1. \A c \in Jobs : pc[c] = "idle"
    BY <1>2 DEF JobStarts, BusyInv
  <2>2. \A c \in Jobs : pc'[c] # "idle" <=> c = j
    BY <1>2, <2>1 DEF JobStarts, Goto, Commands
  <2>3. cancel' # "none" <=> pc'["run"] # "idle" \/ pc'["install"] # "idle"
    BY <1>2, <2>1, <2>2 DEF JobStarts, BusyInv, Jobs
  <2> QED
    BY <1>2, <2>2, <2>3, Zenon DEF JobStarts, BusyInv
<1>3. ASSUME NEW j \in Jobs, JobEnds(j) PROVE BusyInv'
  <2>1. \A c \in Jobs : pc[c] # "idle" => c = j
    BY <1>3 DEF JobEnds, BusyInv
  <2>2. \A c \in Jobs : pc'[c] = "idle"
    BY <1>3, <2>1 DEF JobEnds, Goto, Commands
  <2>3. cancel' = "none"
    BY <1>3, <2>1 DEF JobEnds, BusyInv, Jobs
  <2> QED
    BY <1>3, <2>2, <2>3, Zenon DEF JobEnds, BusyInv, Jobs
<1> QED
  BY <1>1, <1>2, <1>3

(* A step of a command that moves within it.                               *)
LEMMA PcMoves ==
  ASSUME pc \in [Commands -> Steps], NEW c \in Commands, NEW step \in Steps, Goto(c, step),
         c \in Jobs => pc[c] # "idle" /\ step # "idle",
         UNCHANGED <<busy, cancel>>
  PROVE  JobGoesOn
<1>1. \A j \in Jobs : pc'[j] # "idle" <=> pc[j] # "idle"
  BY DEF Goto, Commands
<1> QED
  BY <1>1, Zenon DEF JobGoesOn

(* No step sets or resets Busy but a job that starts or ends.              *)
LEMMA BusyStep ==
  ASSUME BusyInv, RecordingOK, [StudioNext]_studioVars PROVE BusyInv'
<1>0. pc \in [Commands -> Steps] /\ Jobs \subseteq Commands
      /\ {"load", "run", "install", "unload", "toggle"} \subseteq Commands
      /\ {"unload", "toggle"} \cap Jobs = {} /\ {"load", "run", "install"} = Jobs
  BY DEF RecordingOK, Commands, Jobs
<1>1. CASE Load
  <2>1. \E step \in Steps \ {"idle"} : Goto("load", step)
    BY <1>1 DEF Load, StopRecordingAsync, TakeRecording, Steps
  <2>2. JobStarts("load")
    BY <1>1, <2>1, Zenon DEF Load, JobStarts
  <2> QED
    BY <1>0, <2>2, BusyChanges
<1>2. CASE Run
  <2>1. "session" \in Steps \ {"idle"} /\ cancel' # "none" /\ "run" # "load"
    BY <1>2 DEF Run, Steps
  <2>2. JobStarts("run")
    BY <1>2, <2>1, Zenon DEF Run, JobStarts
  <2> QED
    BY <1>0, <2>2, BusyChanges
<1>3. CASE Install
  <2>1. "download" \in Steps \ {"idle"} /\ cancel' # "none" /\ "install" # "load"
    BY <1>3 DEF Install, Steps
  <2>2. JobStarts("install")
    BY <1>3, <2>1, Zenon DEF Install, JobStarts
  <2> QED
    BY <1>0, <2>2, BusyChanges
<1>4. CASE Loaded \/ NotLoaded
  <2>1. pc["load"] # "idle"
    BY <1>4 DEF Loaded, NotLoaded
  <2>2. JobEnds("load")
    BY <1>4, <2>1, Zenon DEF Loaded, NotLoaded, JobEnds
  <2> QED
    BY <1>0, <2>2, BusyChanges
<1>5. CASE RunReturns
  <2>1. pc["run"] # "idle" /\ "run" # "load"
    BY <1>5 DEF RunReturns
  <2>2. JobEnds("run")
    BY <1>5, <2>1, Zenon DEF RunReturns, JobEnds
  <2> QED
    BY <1>0, <2>2, BusyChanges
<1>6. CASE Installed
  <2>1. pc["install"] # "idle" /\ "install" # "load"
    BY <1>6 DEF Installed
  <2>2. JobEnds("install")
    BY <1>6, <2>1, Zenon DEF Installed, JobEnds
  <2> QED
    BY <1>0, <2>2, BusyChanges
<1>7. CASE LoadGoesOn \/ FreeReplaced \/ LoadWeights \/ VadLoadFails \/ LoadFails
  <2>1. pc["load"] # "idle" /\ \E step \in Steps : step # "idle" /\ Goto("load", step)
    BY <1>7 DEF LoadGoesOn, RecordingStopped, StopAwaited, FreeReplaced, ReadWeights, LoadWeights, VadLoadFails, LoadFails,
                EndsWith, Steps
  <2>2. UNCHANGED <<busy, cancel>>
    BY <1>7, Zenon DEF LoadGoesOn, FreeReplaced, ReadWeights, LoadWeights, VadLoadFails, LoadFails, flagVars
  <2> QED
    BY <1>0, <2>1, <2>2, PcMoves, BusyChanges
<1>8. CASE RunWithoutInput \/ SessionMade \/ SessionRefused \/ RunCalls
           \/ \E setting \in Settings : ReuseSession(setting) \/ ReplaceSession(setting)
  <2>1. pc["run"] # "idle" /\ \E step \in Steps : step # "idle" /\ Goto("run", step)
    BY <1>8 DEF RunWithoutInput, SessionMade, SessionRefused, RunCalls, ReuseSession,
                ReplaceSession, EndsWith, Steps
  <2>2. UNCHANGED <<busy, cancel>>
    BY <1>8, Zenon DEF RunWithoutInput, SessionMade, SessionRefused, RunCalls, ReuseSession,
                       ReplaceSession, flagVars
  <2> QED
    BY <1>0, <2>1, <2>2, PcMoves, BusyChanges
<1>9. CASE DownloadEnds
  <2>1. pc["install"] # "idle" /\ \E step \in Steps : step # "idle" /\ Goto("install", step)
    BY <1>9 DEF DownloadEnds, EndsWith, Steps
  <2>2. UNCHANGED <<busy, cancel>>
    BY <1>9, Zenon DEF DownloadEnds, flagVars
  <2> QED
    BY <1>0, <2>1, <2>2, PcMoves, BusyChanges
<1>10. CASE Unload \/ UnloadGoesOn \/ UnloadSession \/ UnloadModel \/ UnloadFields \/ Unloaded
  <2>1. \E step \in Steps : Goto("unload", step)
    BY <1>10 DEF Unload, StopRecordingAsync, TakeRecording, UnloadGoesOn, RecordingStopped,
                 UnloadSession, UnloadModel, UnloadFields, Unloaded, EndsWith, Steps
  <2>2. UNCHANGED <<busy, cancel>>
    BY <1>10, Zenon DEF Unload, UnloadGoesOn, UnloadSession, UnloadModel, UnloadFields, Unloaded,
                        flagVars
  <2> QED
    BY <1>0, <2>1, <2>2, PcMoves, BusyChanges
<1>11. CASE Record \/ ErrorReported \/ ToggleStopped
  <2>1. UNCHANGED pc \/ \E step \in Steps : Goto("toggle", step)
    BY <1>11 DEF Record, ErrorReported, ToggleRecording, StartRecording, TakeRecording,
                 ToggleStopped, Steps
  <2>2. UNCHANGED <<busy, cancel>>
    BY <1>11, Zenon DEF Record, ErrorReported, ToggleStopped, flagVars
  <2>3. CASE UNCHANGED pc
    <3>1. JobGoesOn
      BY <2>2, <2>3, Zenon DEF JobGoesOn
    <3> QED
      BY <1>0, <3>1, BusyChanges
  <2> QED
    BY <1>0, <2>1, <2>2, <2>3, PcMoves, BusyChanges
<1>12. ASSUME NEW c \in Commands, CancelCalled(c) \/ WaitForPump(c) PROVE BusyInv'
  <2>1. pc[c] # "idle" /\ \E step \in Steps : step # "idle" /\ Goto(c, step)
    BY <1>12 DEF CancelCalled, WaitForPump, EndsWith, Steps
  <2>2. UNCHANGED <<busy, cancel>>
    BY <1>12, Zenon DEF CancelCalled, WaitForPump, flagVars
  <2> QED
    BY <1>0, <2>1, <2>2, PcMoves, BusyChanges
<1>13. CASE Cancel
  <2>1. (cancel' # "none" <=> cancel # "none") /\ UNCHANGED pc
    BY <1>13 DEF Cancel
  <2>2. busy' = busy
    BY <1>13, Zenon DEF Cancel
  <2>3. JobGoesOn
    BY <2>1, <2>2, Zenon DEF JobGoesOn
  <2> QED
    BY <1>0, <2>3, BusyChanges
<1>14. CASE UNCHANGED studioVars
           \/ \E r \in Recordings : PumpFaults(r) \/ \E reported \in BOOLEAN : PumpEnds(r, reported)
  <2>1. UNCHANGED <<busy, cancel, pc>>
    BY <1>14, Zenon DEF studioVars, PumpEnds, PumpFaults, flagVars
  <2>2. JobGoesOn
    BY <2>1, Zenon DEF JobGoesOn
  <2> QED
    BY <1>0, <2>2, BusyChanges
<1> QED
  BY <1>1, <1>2, <1>3, <1>4, <1>5, <1>6, <1>7, <1>8, <1>9, <1>10, <1>11, <1>12, <1>13, <1>14, Zenon
     DEF StudioNext

-----------------------------------------------------------------------------
(* The dispatcher's queue and the flags.                                   *)

QueueOK ==
  /\ window \in {"open", "crashed"}
  /\ posted \in Seq(Entries)
  /\ cancel \in {"none", "fixed", "armed", "requested"}

FlagsOK ==
  /\ busy \in BOOLEAN
  /\ isLoaded \in BOOLEAN
  /\ isRecording \in BOOLEAN

(* What is posted is posted whole, and what is handled was posted first.   *)
LEMMA Posting ==
  ASSUME posted \in Seq(Entries), NEW entry \in Entries
  PROVE  /\ Append(posted, entry) \in Seq(Entries)
         /\ posted # << >> => Tail(posted) \in Seq(Entries)
OBVIOUS

(* What waits for a recording is what its pump will post.                  *)
LEMMA WaitingOK == ASSUME NEW r PROVE Waiting(r) \in Seq(Entries)
<1>1. Awaited(r) \subseteq Entries
  BY DEF Awaited, Entries
<1>2. CASE Awaited(r) = {}
  BY <1>2 DEF Waiting
<1>3. CASE Awaited(r) # {}
  BY <1>1, <1>3 DEF Waiting
<1> QED
  BY <1>2, <1>3

(* What a pump posts as it ends goes after what was posted.                *)
LEMMA PumpPosting ==
  ASSUME posted \in Seq(Entries), NEW r, NEW reports \in {<< >>, <<"error">>}
  PROVE  posted \o (reports \o Waiting(r)) \in Seq(Entries)
<1>1. reports \in Seq(Entries)
  <2>1. "error" \in Entries
    BY DEF Entries
  <2>2. << >> \in Seq(Entries) /\ <<"error">> \in Seq(Entries)
    BY <2>1
  <2> QED
    BY <2>2, Zenon
<1>2. \A s, t \in Seq(Entries) : s \o t \in Seq(Entries)
  OBVIOUS
<1>3. Waiting(r) \in Seq(Entries)
  BY WaitingOK
<1>4. reports \o Waiting(r) \in Seq(Entries)
  BY <1>1, <1>2, <1>3, Zenon
<1> QED
  BY <1>2, <1>4, Zenon

(* No step puts anything else in the queue of the window.                  *)
LEMMA QueueStep ==
  ASSUME QueueOK, [StudioNext]_studioVars PROVE QueueOK'
<1>0. {"load", "run", "install", "unload", "toggle", "error"} \subseteq Entries
      /\ Commands \subseteq Entries
  BY DEF Entries, Commands, Jobs
<1> USE DEF QueueOK
<1>1. CASE Load \/ Unload \/ Run \/ Install \/ Cancel \/ FreeReplaced \/ UnloadSession \/ UnloadModel
           \/ SessionMade \/ (\E setting \in Settings : ReuseSession(setting))
           \/ UNCHANGED studioVars
  BY <1>1 DEF Load, Unload, Run, Install, Cancel, FreeReplaced, UnloadSession, UnloadModel,
              SessionMade, ReuseSession, studioVars, flagVars
<1>2. CASE Record
  BY <1>2 DEF Record
<1>3. CASE \/ LoadGoesOn \/ UnloadGoesOn \/ Loaded \/ NotLoaded \/ RunReturns \/ Unloaded \/ Installed
           \/ ErrorReported \/ ToggleStopped \/ \E c \in Commands : WaitForPump(c)
  <2>1. posted' \in Seq(Entries)
    <3>1. posted # << >> /\ posted' = Tail(posted)
      BY <1>3 DEF LoadGoesOn, UnloadGoesOn, RecordingStopped, StopAwaited, Loaded, NotLoaded,
                  RunReturns, Unloaded, Installed, ErrorReported, ToggleStopped, WaitForPump, Dispatch
    <3> QED
      BY <3>1, <1>0, Posting
  <2> QED
    BY <1>3, <2>1 DEF LoadGoesOn, UnloadGoesOn, Loaded, NotLoaded, RunReturns, Unloaded, Installed,
                      ErrorReported, ToggleStopped, WaitForPump, flagVars
<1>4. CASE \/ LoadWeights \/ VadLoadFails \/ LoadFails \/ RunWithoutInput \/ SessionRefused \/ RunCalls
           \/ UnloadFields \/ DownloadEnds \/ \E c \in Commands : CancelCalled(c)
  <2>1. \E entry \in Entries : posted' = Append(posted, entry)
    BY <1>0, <1>4 DEF ReadWeights, LoadWeights, VadLoadFails, LoadFails, RunWithoutInput, SessionRefused, RunCalls,
                      UnloadFields, DownloadEnds, CancelCalled, EndsWith, Post
  <2> QED
    BY <1>4, <2>1, Posting DEF ReadWeights, LoadWeights, VadLoadFails, LoadFails, RunWithoutInput, SessionRefused, RunCalls,
                               UnloadFields, DownloadEnds, CancelCalled, flagVars
<1>5. ASSUME NEW setting \in Settings, ReplaceSession(setting) PROVE QueueOK'
  BY <1>0, <1>5, Posting DEF ReplaceSession, EndsWith, Post, flagVars
<1>6. ASSUME NEW r \in Recordings, PumpFaults(r) \/ \E reported \in BOOLEAN : PumpEnds(r, reported)
      PROVE  QueueOK'
  <2>1. \E reports \in {<< >>, <<"error">>} : posted' = posted \o (reports \o Waiting(r))
    <3>1. CASE PumpFaults(r)
      BY <3>1, WaitingOK DEF PumpFaults
    <3>2. ASSUME NEW reported \in BOOLEAN, PumpEnds(r, reported)
          PROVE  \E reports \in {<< >>, <<"error">>} : posted' = posted \o (reports \o Waiting(r))
      <4>1. PICK reports \in {<< >>, <<"error">>} : posted' = posted \o reports \o Waiting(r)
        BY <3>2 DEF PumpEnds
      <4>2. posted \o reports \o Waiting(r) = posted \o (reports \o Waiting(r))
        BY WaitingOK, <1>0
      <4> QED
        BY <4>1, <4>2
    <3> QED
      BY <1>6, <3>1, <3>2
  <2>2. posted' \in Seq(Entries)
    BY <2>1, PumpPosting, Zenon
  <2>3. UNCHANGED flagVars
    BY <1>6, Zenon DEF PumpFaults, PumpEnds
  <2> QED
    BY <2>2, <2>3 DEF flagVars
<1> QED
  BY <1>1, <1>2, <1>3, <1>4, <1>5, <1>6 DEF StudioNext

(* No step gives a flag anything but a truth value.                        *)
LEMMA FlagsStep ==
  ASSUME FlagsOK, [StudioNext]_studioVars PROVE FlagsOK'
<1> USE DEF FlagsOK
<1>1. CASE Load \/ LoadGoesOn \/ Unload \/ UnloadGoesOn
  BY <1>1, Zenon DEF Load, LoadGoesOn, Unload, UnloadGoesOn, StopRecordingAsync, RecordingStopped,
                     TakeRecording, recordVars
<1>2. CASE FreeReplaced \/ LoadWeights \/ VadLoadFails \/ LoadFails \/ Loaded \/ NotLoaded
  BY <1>2, Zenon DEF FreeReplaced, ReadWeights, LoadWeights, VadLoadFails, LoadFails, Loaded, NotLoaded, flagVars
<1>3. CASE Run \/ RunWithoutInput \/ SessionMade \/ SessionRefused \/ RunCalls \/ RunReturns
  BY <1>3, Zenon DEF Run, RunWithoutInput, SessionMade, SessionRefused, RunCalls, RunReturns, flagVars
<1>4. CASE \E setting \in Settings : ReuseSession(setting) \/ ReplaceSession(setting)
  BY <1>4, Zenon DEF ReuseSession, ReplaceSession, flagVars
<1>5. CASE UnloadSession \/ UnloadModel \/ UnloadFields \/ Unloaded
  BY <1>5, Zenon DEF UnloadSession, UnloadModel, UnloadFields, Unloaded, flagVars
<1>6. CASE Install \/ DownloadEnds \/ Installed \/ Cancel
  BY <1>6, Zenon DEF Install, DownloadEnds, Installed, Cancel, flagVars
<1>7. CASE Record \/ ErrorReported
  BY <1>7, Zenon DEF Record, ErrorReported, ToggleRecording, StartRecording, RecordingEnds,
                     TakeRecording, flagVars
<1>8. CASE ToggleStopped
  BY <1>8, Zenon DEF ToggleStopped, RecordingEnds
<1>9. CASE \E c \in Commands : CancelCalled(c) \/ WaitForPump(c)
  BY <1>9, Zenon DEF CancelCalled, WaitForPump, flagVars
<1>10. CASE \E r \in Recordings : PumpFaults(r) \/ \E reported \in BOOLEAN : PumpEnds(r, reported)
  BY <1>10, Zenon DEF PumpFaults, PumpEnds, flagVars
<1>11. CASE UNCHANGED studioVars
  BY <1>11, Zenon DEF studioVars
<1> QED
  BY <1>1, <1>2, <1>3, <1>4, <1>5, <1>6, <1>7, <1>8, <1>9, <1>10, <1>11, Zenon DEF StudioNext

-----------------------------------------------------------------------------
(* The model and its session.                                              *)

ModelOK ==
  /\ model \in Models \cup {0}
  /\ alive \subseteq Models
  /\ loads \in 0..MaxLoads
  /\ runSession \in Sessions
  /\ making \in Sessions

(* An offered model is there, or a load or an unload that disposed it is   *)
(* still to say so; a session belongs to the model in the field, which an  *)
(* unload may have cleared, and there is none while weights are read.      *)
ModelInv ==
  /\ isLoaded /\ model \notin alive =>
       pc["load"] \in {"loading", "done", "failed"} \/ pc["unload"] \in {"fields", "done"}
  /\ pc["load"] = "done" => model = 0 \/ model \in alive \/ pc["unload"] = "fields"
  /\ pc["load"] = "loading" => runSession = NoSession
  /\ runSession.model \in {0, model} \/ model = 0
  /\ making.model \in {0, model} \/ model = 0
  /\ pc["run"] # "making" => making = NoSession

(* A session has a model, and has it still when it is closed.              *)
LEMMA SessionFacts ==
  /\ NoSession \in Sessions /\ NoSession.model = 0
  /\ \A s \in Sessions : s.model \in Models \cup {0} /\ (s.model = 0 <=> s = NoSession)
  /\ \A s \in Sessions : Closed(s) \in Sessions /\ Closed(s).model = s.model
  /\ \A m \in Models, setting \in Settings :
       Session(m, setting, TRUE) \in Sessions /\ Session(m, setting, TRUE).model = m
<1>1. NoSession \in Sessions /\ NoSession.model = 0
  BY DEF NoSession, Sessions
<1>2. \A s \in Sessions : s.model \in Models \cup {0} /\ (s.model = 0 <=> s = NoSession)
  BY <1>1 DEF NoSession, Sessions, Models
<1>3. \A s \in Sessions : Closed(s) \in Sessions /\ Closed(s).model = s.model
  BY <1>1 DEF Closed, NoSession, Sessions
<1>4. \A m \in Models, setting \in Settings :
        Session(m, setting, TRUE) \in Sessions /\ Session(m, setting, TRUE).model = m
  BY DEF Session, Sessions
<1> QED
  BY <1>1, <1>2, <1>3, <1>4

(* No step offers a model that is not there.                               *)
LEMMA ModelStep ==
  ASSUME StudioAssumption, ModelOK, ModelInv, BusyInv, RecordingOK, [StudioNext]_studioVars
  PROVE  ModelOK' /\ ModelInv'
<1> USE SessionFacts
<1>0. /\ pc \in [Commands -> Steps] /\ 0 \notin Models
      /\ {"load", "run", "install", "unload", "toggle"} = Commands
      /\ {"load", "run", "install"} = Jobs
  BY DEF RecordingOK, Commands, Jobs, Models
<1>1. CASE Load \/ LoadGoesOn
  <2>1. \E step \in {"cancelling", "stopping", "free"} : pc' = [pc EXCEPT !["load"] = step]
    BY <1>1 DEF Load, LoadGoesOn, StopRecordingAsync, TakeRecording, RecordingStopped, Goto
  <2>2. pc["load"] \in {"idle", "cancelled", "stopping"}
    BY <1>0, <1>1 DEF Load, LoadGoesOn, RecordingStopped, StopAwaited, BusyInv
  <2>3. UNCHANGED <<isLoaded, modelVars>>
    BY <1>1, Zenon DEF Load, LoadGoesOn
  <2> QED
    BY <1>0, <2>1, <2>2, <2>3 DEF ModelOK, ModelInv, modelVars
<1>2. CASE FreeReplaced
  <2>1. pc' = [pc EXCEPT !["load"] = "loading"] /\ runSession' = NoSession /\ alive' = alive \ {model}
    BY <1>2 DEF FreeReplaced, Goto
  <2>2. UNCHANGED <<model, loads, making>>
    BY <1>2 DEF FreeReplaced
  <2> QED
    BY <1>0, <2>1, <2>2 DEF ModelOK, ModelInv
<1>3. CASE LoadWeights \/ VadLoadFails
  <2>1. pc["load"] = "loading"
        /\ \E step \in {"done", "failed"} : pc' = [pc EXCEPT !["load"] = step]
    BY <1>3 DEF ReadWeights, LoadWeights, VadLoadFails, EndsWith, Goto
  <2>2. pc["run"] = "idle"
    BY <1>0, <2>1 DEF BusyInv
  <2>3. loads + 1 \in Models /\ loads' = loads + 1 /\ loads' \in 0..MaxLoads
    BY <1>3, StudioAssumption
       DEF StudioAssumption, ReadWeights, LoadWeights, VadLoadFails, Models, ModelOK
  <2>4. model' = loads + 1 /\ alive' = alive \cup {loads + 1}
    BY <1>3 DEF ReadWeights, LoadWeights, VadLoadFails
  <2>5. UNCHANGED <<runSession, making>>
    BY <1>3 DEF ReadWeights, LoadWeights, VadLoadFails
  <2> QED
    BY <1>0, <2>1, <2>2, <2>3, <2>4, <2>5 DEF ModelOK, ModelInv
<1>4. CASE LoadFails \/ NotLoaded \/ Loaded
  <2>1. UNCHANGED modelVars
    BY <1>4 DEF LoadFails, NotLoaded, Loaded
  <2>2. CASE LoadFails
    BY <1>0, <2>1, <2>2 DEF LoadFails, EndsWith, Goto, flagVars, ModelOK, ModelInv, modelVars
  <2>3. CASE NotLoaded \/ Loaded
    <3>1. isLoaded' => model \in alive \/ pc["unload"] = "fields"
      BY <2>3, Zenon DEF NotLoaded, Loaded, ModelInv
    <3>2. pc' = [pc EXCEPT !["load"] = "idle"]
      BY <2>3 DEF NotLoaded, Loaded, Goto
    <3> QED
      BY <1>0, <2>1, <3>1, <3>2 DEF ModelOK, ModelInv, modelVars
  <2> QED
    BY <1>4, <2>2, <2>3
<1>5. CASE Run \/ RunWithoutInput \/ RunCalls \/ RunReturns
           \/ \E setting \in Settings : ReuseSession(setting)
  <2>1. \E step \in Steps \ {"making"} : pc' = [pc EXCEPT !["run"] = step]
    BY <1>5 DEF Run, RunWithoutInput, RunCalls, RunReturns, ReuseSession, EndsWith, Goto, Steps
  <2>2. pc["run"] # "making"
    BY <1>0, <1>5 DEF Run, RunWithoutInput, RunCalls, RunReturns, ReuseSession, BusyInv
  <2>3. UNCHANGED <<isLoaded, modelVars>>
    BY <1>5, Zenon DEF Run, RunWithoutInput, RunCalls, RunReturns, ReuseSession, flagVars
  <2> QED
    BY <1>0, <2>1, <2>2, <2>3 DEF ModelOK, ModelInv, modelVars
<1>6. ASSUME NEW setting \in Settings, ReplaceSession(setting) PROVE ModelOK' /\ ModelInv'
  <2>1. pc["run"] = "session" /\ pc["load"] = "idle" /\ making = NoSession
    BY <1>0, <1>6 DEF ReplaceSession, BusyInv, ModelInv
  <2>2. runSession' = Closed(runSession) /\ UNCHANGED <<isLoaded, model, alive, loads>>
    BY <1>6 DEF ReplaceSession, flagVars
  <2>3. \/ making' = Session(model, setting, TRUE) /\ model # 0 /\ pc' = [pc EXCEPT !["run"] = "making"]
        \/ making' = making /\ pc' = [pc EXCEPT !["run"] = "failed"]
    BY <1>6 DEF ReplaceSession, EndsWith, Goto
  <2>4. \E step \in {"making", "failed"} : pc' = [pc EXCEPT !["run"] = step]
    BY <2>3
  <2>5. making' \in Sessions /\ making'.model \in {0, model}
        /\ (pc'["run"] # "making" => making' = NoSession)
    <3>1. CASE making' = Session(model, setting, TRUE) /\ model # 0 /\ pc' = [pc EXCEPT !["run"] = "making"]
      BY <1>0, <3>1 DEF ModelOK
    <3>2. CASE making' = making
      BY <2>1, <3>2 DEF ModelOK
    <3> QED
      BY <2>3, <3>1, <3>2
  <2>6. runSession' \in Sessions /\ runSession'.model = runSession.model
    BY <2>2 DEF ModelOK
  <2> QED
    BY <1>0, <2>1, <2>2, <2>4, <2>5, <2>6 DEF ModelOK, ModelInv
<1>7. CASE SessionMade \/ SessionRefused
  <2>1. pc["run"] = "making" /\ pc["load"] = "idle" /\ making' = NoSession
    BY <1>0, <1>7 DEF SessionMade, SessionRefused, BusyInv
  <2>2. runSession' \in {runSession, making} /\ UNCHANGED <<isLoaded, model, alive, loads>>
    BY <1>7 DEF SessionMade, SessionRefused, flagVars
  <2>3. \E step \in Steps : pc' = [pc EXCEPT !["run"] = step]
    BY <1>7 DEF SessionMade, SessionRefused, EndsWith, Goto, Steps
  <2> QED
    BY <1>0, <2>1, <2>2, <2>3 DEF ModelOK, ModelInv
<1>8. CASE Unload \/ UnloadGoesOn
  <2>1. \E step \in {"cancelling", "stopping", "session"} : pc' = [pc EXCEPT !["unload"] = step]
    BY <1>8 DEF Unload, UnloadGoesOn, StopRecordingAsync, TakeRecording, RecordingStopped, Goto
  <2>2. pc["unload"] \in {"idle", "cancelled", "stopping"}
    BY <1>8 DEF Unload, UnloadGoesOn, RecordingStopped, StopAwaited
  <2>3. UNCHANGED <<isLoaded, modelVars>>
    BY <1>8, Zenon DEF Unload, UnloadGoesOn
  <2> QED
    BY <1>0, <2>1, <2>2, <2>3 DEF ModelOK, ModelInv, modelVars
<1>9. CASE UnloadSession
  <2>1. runSession' = Closed(runSession) /\ UNCHANGED <<isLoaded, model, alive, loads, making>>
    BY <1>9 DEF UnloadSession, flagVars
  <2>2. pc["unload"] = "session" /\ pc' = [pc EXCEPT !["unload"] = "models"]
    BY <1>9 DEF UnloadSession, Goto
  <2> QED
    BY <1>0, <2>1, <2>2 DEF ModelOK, ModelInv
<1>10. CASE UnloadModel
  <2>1. alive' = alive \ {model} /\ UNCHANGED <<isLoaded, model, loads, runSession, making>>
    BY <1>10 DEF UnloadModel, flagVars
  <2>2. pc["unload"] = "models" /\ pc' = [pc EXCEPT !["unload"] = "fields"]
    BY <1>10 DEF UnloadModel, Goto
  <2> QED
    BY <1>0, <2>1, <2>2 DEF ModelOK, ModelInv
<1>11. CASE UnloadFields
  <2>1. runSession' = NoSession /\ model' = 0 /\ UNCHANGED <<isLoaded, alive, loads, making>>
    BY <1>11 DEF UnloadFields, flagVars
  <2>2. pc["unload"] = "fields" /\ pc' = [pc EXCEPT !["unload"] = "done"]
    BY <1>11 DEF UnloadFields, EndsWith, Goto
  <2> QED
    BY <1>0, <2>1, <2>2 DEF ModelOK, ModelInv
<1>12. CASE Unloaded
  <2>1. isLoaded' = FALSE /\ UNCHANGED modelVars
    BY <1>12 DEF Unloaded
  <2>2. pc["unload"] = "done" /\ pc' = [pc EXCEPT !["unload"] = "idle"]
    BY <1>12 DEF Unloaded, Goto
  <2> QED
    BY <1>0, <2>1, <2>2 DEF ModelOK, ModelInv, modelVars
<1>13. CASE Install \/ DownloadEnds \/ Installed \/ Record \/ ErrorReported \/ ToggleStopped
  <2>1. UNCHANGED pc \/ \E c \in {"install", "toggle"}, step \in Steps : pc' = [pc EXCEPT ![c] = step]
    BY <1>13 DEF Install, DownloadEnds, Installed, Record, ErrorReported, ToggleRecording,
                 StartRecording, TakeRecording, ToggleStopped, EndsWith, Goto, Steps
  <2>2. UNCHANGED <<isLoaded, modelVars>>
    BY <1>13, Zenon DEF Install, DownloadEnds, Installed, Record, ErrorReported, ToggleStopped, flagVars
  <2> QED
    BY <1>0, <2>1, <2>2 DEF ModelOK, ModelInv, modelVars
<1>14. ASSUME NEW c \in Commands, CancelCalled(c) \/ WaitForPump(c) PROVE ModelOK' /\ ModelInv'
  <2>1. pc[c] \in StopSteps /\ \E step \in StopSteps : pc' = [pc EXCEPT ![c] = step]
    BY <1>14 DEF CancelCalled, WaitForPump, EndsWith, Goto, StopSteps
  <2>2. UNCHANGED <<isLoaded, modelVars>>
    BY <1>14, Zenon DEF CancelCalled, WaitForPump, flagVars
  <2> QED
    BY <1>0, <2>1, <2>2 DEF ModelOK, ModelInv, modelVars, StopSteps
<1>15. CASE Cancel \/ UNCHANGED studioVars
            \/ \E r \in Recordings : PumpFaults(r) \/ \E reported \in BOOLEAN : PumpEnds(r, reported)
  <2>1. UNCHANGED <<isLoaded, pc, modelVars>>
    BY <1>15, Zenon DEF Cancel, PumpFaults, PumpEnds, flagVars, studioVars, modelVars
  <2> QED
    BY <2>1 DEF ModelOK, ModelInv, modelVars
<1> QED
  BY <1>1, <1>2, <1>3, <1>4, <1>5, <1>6, <1>7, <1>8, <1>9, <1>10, <1>11, <1>12, <1>13, <1>14, <1>15,
     Zenon DEF StudioNext

-----------------------------------------------------------------------------
(* The invariant, and what follows from it.                                *)

StudioInv ==
  /\ RecordingOK /\ OwnerInv
  /\ BusyInv
  /\ QueueOK /\ FlagsOK
  /\ ModelOK /\ ModelInv

(* The window opens with no recording, no job and no model.                *)
LEMMA StudioStart == StudioInit => StudioInv
<1> USE StudioAssumption DEF StudioAssumption
<1>1. StudioInit => FlagsOK
  BY Zenon DEF StudioInit, FlagsOK
<1>2. StudioInit => RecordingOK /\ OwnerInv
  BY DEF StudioInit, RecordingOK, OwnerInv, Steps, StopSteps, Ends, Commands, Jobs
<1>3. StudioInit => BusyInv
  BY DEF StudioInit, BusyInv, Commands, Jobs
<1>4. StudioInit => QueueOK
  BY DEF StudioInit, QueueOK
<1>5. StudioInit => ModelOK /\ ModelInv
  BY SessionFacts DEF StudioInit, ModelOK, ModelInv, Commands, Jobs
<1> QED
  BY <1>1, <1>2, <1>3, <1>4, <1>5, Zenon DEF StudioInv

(* A command holds a recording exactly while it waits for its stop, Busy   *)
(* is its one job's, and an offered model that is not there belongs to a   *)
(* load or an unload that will say so, for any settings, loads and         *)
(* recordings (MainWindowViewModel.cs:1588-2102, 2475-2544, 2764-2831).    *)
THEOREM StudioInvariant == StudioSpec => []StudioInv
<1>1. StudioInv /\ [StudioNext]_studioVars => StudioInv'
  BY StudioAssumption, OwnerStep, BusyStep, QueueStep, FlagsStep, ModelStep, Zenon DEF StudioInv
<1> QED
  BY <1>1, StudioStart, PTL DEF StudioSpec

(* Type correctness (MainWindowViewModel.cs:21-89).                        *)
THEOREM StudioTypeCorrect == StudioSpec => []StudioTypeOK
<1>1. StudioInv => StudioTypeOK
  <2> SUFFICES ASSUME StudioInv PROVE StudioTypeOK
    OBVIOUS
  <2>1. {busy, isLoaded, isRecording} \subseteq BOOLEAN
    BY Zenon DEF StudioInv, FlagsOK
  <2> QED
    BY <2>1, Zenon DEF StudioInv, StudioTypeOK, RecordingOK, QueueOK, ModelOK, Steps, Entries
<1> QED
  BY <1>1, StudioInvariant, PTL

(* No recording is stopped twice and none is left running with nobody to   *)
(* stop it (MainWindowViewModel.cs:2532-2544, 2764-2796).                  *)
THEOREM RecordingsAreOwned == StudioSpec => []RecordingHasOneOwner
<1>1. StudioInv => RecordingHasOneOwner
  <2> SUFFICES ASSUME StudioInv, NEW r \in Recordings
               PROVE  IF recording[r] \in {"none", "released"}
                      THEN Owners(r) = {}
                      ELSE \E owner \in Commands \cup {"live"} : Owners(r) = {owner}
    BY Zenon DEF RecordingHasOneOwner
  <2> USE DEF StudioInv, RecordingOK, OwnerInv, Ends, Owners
  <2>0. r # 0
    BY DEF Recordings
  <2>1. CASE recording[r] \in {"none", "released"}
    BY <2>0, <2>1
  <2>2. CASE recording[r] \notin {"none", "released"} /\ live = r
    <3>1. \A c \in Commands : held[c] # r
      BY <2>0, <2>2
    <3>2. Owners(r) = {"live"}
      BY <2>2, <3>1
    <3> QED
      BY <2>2, <3>2
  <2>3. CASE recording[r] \notin {"none", "released"} /\ live # r
    <3>1. PICK c \in Commands : held[c] = r
      BY <2>3
    <3>2. Owners(r) = {c}
      BY <2>0, <2>3, <3>1
    <3> QED
      BY <2>3, <3>2
  <2> QED
    BY <2>1, <2>2, <2>3
<1> QED
  BY <1>1, StudioInvariant, PTL

(* A load, a run and an install never overlap, Busy ends with the job that *)
(* set it, and so does its token (MainWindowViewModel.cs:1590, 1779, 2374, *)
(* 2835).                                                                  *)
THEOREM BusyBelongsToOneJob == StudioSpec => []BusyIsOneJobs
<1>1. StudioInv => BusyIsOneJobs
  <2> SUFFICES ASSUME BusyInv PROVE BusyIsOneJobs
    BY DEF StudioInv
  <2>1. \A c, d \in Working : c = d
    BY DEF BusyInv, Working
  <2>2. busy <=> Working # {}
    BY DEF BusyInv, Working
  <2>3. cancel # "none" <=> Working \cap {"run", "install"} # {}
    BY DEF BusyInv, Working, Jobs
  <2> QED
    BY <2>1, <2>2, <2>3 DEF BusyIsOneJobs
<1> QED
  BY <1>1, StudioInvariant, PTL

(* What the window offers between loads and unloads was not disposed, and  *)
(* the session it keeps is of that model (MainWindowViewModel.cs:1599-     *)
(* 1617, 2479-2508).                                                       *)
THEOREM OfferedModelsAreThere == StudioSpec => []OfferedModelIsThere
<1>1. StudioInv => OfferedModelIsThere
  BY SessionFacts DEF StudioInv, ModelOK, ModelInv, OfferedModelIsThere, Models
<1> QED
  BY <1>1, StudioInvariant, PTL

-----------------------------------------------------------------------------
(* The results of the runs.                                                *)

(* The flags, and what the invariant says of the rest.                     *)
ResultFlags ==
  /\ stopAsked \in BOOLEAN
  /\ unloading \in BOOLEAN
  /\ shown \in BOOLEAN
  /\ tangled \in BOOLEAN

DataOK ==
  /\ task \in Tasks
  /\ setter \in {"no", "set", "stashed", "restoring"}
  /\ leaving \in Tasks
  /\ panel \in Results
  /\ kept \in [Tasks -> Results]
  /\ run \in {"idle", "session", "whole", "long", "grouped", "done", "failed"}
  /\ ranAs \in Tasks
  /\ builtFor \in Tasks
  /\ transcript \subseteq Tasks
  /\ toDo \in 0..MaxPieces
  /\ hearing \in {"off", "on", "stopping"}
  /\ closing \in 0..2
  /\ due \subseteq {"text", "error"}
  /\ owed \subseteq Tasks

USE DEF runVars, liveVars, onScreen, others, screen, ThreadIsFree

SetterStep == (\E to \in Tasks : SwitchTask(to)) \/ StashResult \/ RestoreResult \/ RestoreSegments
BodyStep == RunWhole \/ RunLongText \/ RunSegmented \/ WholeOutput \/ Piece \/ JoinPieces
            \/ Stretch \/ EndOfSpeech \/ Fail
RunStep == StartRun \/ CancelRun \/ Publish \/ GiveUp
UnloadStep == StartUnload \/ EndUnload
LiveStep == PressRecord \/ ErrorToggles \/ ListeningStopped \/ CloseListening \/ ListeningClosed
            \/ PumpPosts \/ OnText

(* The kinds of steps there are.                                           *)
LEMMA ResultsSteps ==
  ASSUME [ResultsNext]_resultsVars
  PROVE  SetterStep \/ BodyStep \/ RunStep \/ UnloadStep \/ LiveStep \/ UNCHANGED resultsVars
BY Zenon DEF ResultsNext, SetterStep, BodyStep, RunStep, UnloadStep, LiveStep

(* No step of a run or of a recording breaks what its flags are.           *)
LEMMA ResultFlagsStep == ASSUME ResultFlags, [ResultsNext]_resultsVars PROVE ResultFlags'
<1> USE DEF ResultFlags
<1>1. CASE SetterStep
  <2>1. tangled' \in BOOLEAN
    <3>1. ASSUME NEW to \in Tasks, SwitchTask(to) PROVE tangled' \in BOOLEAN
      BY <3>1, Zenon DEF SwitchTask
    <3> QED
      BY <1>1, <3>1, Zenon DEF SetterStep, StashResult, RestoreResult, RestoreSegments
  <2> QED
    BY <1>1, <2>1, Zenon DEF SetterStep, SwitchTask, StashResult, RestoreResult, RestoreSegments
<1>2. CASE BodyStep
  BY <1>2, Zenon DEF BodyStep, RunWhole, RunLongText, RunSegmented, WholeOutput, Piece, JoinPieces,
                     Stretch, EndOfSpeech, Fail
<1>3. CASE RunStep
  BY <1>3, Zenon DEF RunStep, StartRun, CancelRun, Publish, GiveUp, RunEnds
<1>4. CASE UnloadStep
  BY <1>4, Zenon DEF UnloadStep, StartUnload, EndUnload
<1>5. CASE LiveStep
  BY <1>5, Zenon DEF LiveStep, PressRecord, ErrorToggles, BeginListening, StopListening,
                     ListeningStopped, CloseListening, ListeningClosed, PumpPosts, OnText
<1>6. CASE UNCHANGED resultsVars
  BY <1>6, Zenon DEF resultsVars
<1> QED
  BY <1>1, <1>2, <1>3, <1>4, <1>5, <1>6, ResultsSteps

(* Keeping a result keeps one of each task.                                *)
LEMMA StashOK ==
  ASSUME DataOK, NEW t \in Tasks, NEW result \in Results
  PROVE  Stashed(t, result) \in [Tasks -> Results]
<1>1. Empty \in Results
  BY DEF Empty, Results
<1> QED
  BY <1>1 DEF DataOK, Stashed

(* A panel keeps its kind when parts of it are replaced.                   *)
LEMMA PanelOK ==
  ASSUME DataOK, NEW words \in SUBSET Tasks, NEW audio \in SUBSET Tasks
  PROVE  /\ [panel EXCEPT !.transcript = words] \in Results
         /\ [panel EXCEPT !.audio = audio] \in Results
         /\ [panel EXCEPT !.segments = words] \in Results
         /\ [panel EXCEPT !.transcript = words, !.audio = audio] \in Results
BY DEF DataOK, Results

(* What the steps of a recording do to the panel: clear its text or not,   *)
(* or, if there was a recording, show another text.                        *)
LEMMA LivePanel ==
  ASSUME DataOK, LiveStep, ResultsAssumption
  PROVE  /\ \/ UNCHANGED <<panel, owed>>
            \/ /\ ThreadIsFree
               /\ owed' = owed \ {task}
               /\ \E words \in SUBSET Tasks :
                    /\ panel' = [panel EXCEPT !.transcript = words]
                    /\ words \subseteq panel.transcript \cup {LiveTask}
                    /\ words \subseteq panel.transcript \/ Listening
         /\ UNCHANGED <<onScreen, kept, runVars, unloading, tangled>>
<1>0. panel.transcript \in SUBSET Tasks /\ LiveTask \in Tasks
  BY DEF DataOK, Results, ResultsAssumption
<1>1. BeginListening =>
        /\ owed' = owed \ {task}
        /\ \E words \in SUBSET Tasks :
             panel' = [panel EXCEPT !.transcript = words] /\ words \subseteq panel.transcript
  BY <1>0 DEF BeginListening, TextCleared
<1>2. ShowText =>
        /\ owed' = owed \ {task}
        /\ \E words \in SUBSET Tasks :
             /\ panel' = [panel EXCEPT !.transcript = words]
             /\ words \subseteq panel.transcript \cup {LiveTask}
  BY <1>0 DEF ShowText
<1>3. CASE PressRecord \/ ErrorToggles
  BY <1>1, <1>3 DEF PressRecord, ErrorToggles, StopListening
<1>4. CASE ListeningStopped \/ OnText
  <2>1. Listening /\ ThreadIsFree
    BY <1>4 DEF ListeningStopped, OnText, Listening
  <2> QED
    BY <1>2, <1>4, <2>1 DEF ListeningStopped, OnText
<1>5. CASE CloseListening \/ ListeningClosed \/ PumpPosts
  BY <1>5, Zenon DEF CloseListening, ListeningClosed, PumpPosts
<1> QED
  BY <1>3, <1>4, <1>5 DEF LiveStep

(* A recording begins where its task is on screen and nothing runs, or     *)
(* where there was one.                                                    *)
LEMMA LiveBegins ==
  ASSUME LiveStep, Listening'
  PROVE  Listening \/ (ThreadIsFree /\ run = "idle" /\ task = LiveTask)
<1>1. CASE PressRecord
  BY <1>1 DEF PressRecord, Listening
<1>2. CASE ErrorToggles
  BY <1>2 DEF ErrorToggles, Listening
<1>3. CASE ListeningStopped \/ CloseListening \/ ListeningClosed
  BY <1>3 DEF ListeningStopped, CloseListening, ListeningClosed, Listening
<1>4. CASE PumpPosts \/ OnText
  BY <1>4 DEF PumpPosts, OnText, Listening
<1> QED
  BY <1>1, <1>2, <1>3, <1>4 DEF LiveStep

(* No step puts anything else where a result, a task or a piece belongs.   *)
LEMMA DataStep ==
  ASSUME ResultsAssumption, DataOK, [ResultsNext]_resultsVars PROVE DataOK'
<1> USE DEF ResultsAssumption
<1>1. CASE SetterStep
  <2>1. ASSUME NEW to \in Tasks, SwitchTask(to) PROVE DataOK'
    BY <2>1 DEF SwitchTask, DataOK
  <2>2. CASE StashResult
    BY <2>2, StashOK DEF StashResult, DataOK
  <2>3. CASE RestoreResult \/ RestoreSegments
    BY <2>3 DEF RestoreResult, RestoreSegments, DataOK, Results
  <2> QED
    BY <1>1, <2>1, <2>2, <2>3 DEF SetterStep
<1>2. CASE BodyStep
  <2>1. CASE RunWhole \/ RunSegmented \/ Stretch \/ EndOfSpeech \/ Fail
    <3>1. UNCHANGED <<onScreen, panel, kept, ranAs, hearing, closing, due, owed>>
      BY <2>1, Zenon DEF RunWhole, RunSegmented, Stretch, EndOfSpeech, Fail
    <3>2. builtFor' \in Tasks
      BY <2>1 DEF RunWhole, RunSegmented, Stretch, EndOfSpeech, Fail, DataOK
    <3>3. transcript' \subseteq Tasks
      BY <2>1 DEF RunWhole, RunSegmented, Stretch, EndOfSpeech, Fail, DataOK
    <3>4. toDo' \in 0..MaxPieces
      BY <2>1 DEF RunWhole, RunSegmented, Stretch, EndOfSpeech, Fail, DataOK
    <3>5. run' \in {"idle", "session", "whole", "long", "grouped", "done", "failed"}
      BY <2>1 DEF RunWhole, RunSegmented, Stretch, EndOfSpeech, Fail, DataOK
    <3> QED
      BY <3>1, <3>2, <3>3, <3>4, <3>5 DEF DataOK
  <2>2. CASE RunLongText
    <3>0. [panel EXCEPT !.segments = {}] \in Results
      BY PanelOK
    <3>1. panel' \in Results /\ toDo' \in 0..MaxPieces
      BY <2>2, <3>0 DEF RunLongText
    <3> QED
      BY <2>2, <3>1, Zenon DEF RunLongText, DataOK
  <2>3. CASE WholeOutput \/ Piece
    BY <2>3 DEF WholeOutput, Piece, DataOK, Results
  <2>4. CASE JoinPieces
    <3>1. panel.segments \in SUBSET Tasks
      BY DEF DataOK, Results
    <3> QED
      BY <2>4, <3>1, PanelOK DEF JoinPieces, DataOK
  <2> QED
    BY <1>2, <2>1, <2>2, <2>3, <2>4 DEF BodyStep
<1>3. CASE RunStep
  <2>1. CASE StartRun
    BY <2>1, PanelOK DEF StartRun, DataOK
  <2>2. CASE CancelRun \/ GiveUp
    <3>1. UNCHANGED <<onScreen, panel, kept, ranAs, builtFor, hearing, closing, due, owed>>
      BY <2>2, Zenon DEF CancelRun, GiveUp, RunEnds
    <3>2. /\ run' \in {run, "idle"} /\ transcript' \in {transcript, {}} /\ toDo' \in {toDo, 0}
      BY <2>2 DEF CancelRun, GiveUp, RunEnds
    <3> QED
      BY <3>1, <3>2 DEF DataOK
  <2>3. CASE Publish
    <3>1. panel.transcript \in SUBSET Tasks
      BY DEF DataOK, Results
    <3>2. \A words \in PublishedWords : Published(words) \in Results
      BY <3>1, PanelOK DEF PublishedWords, Published, DataOK
    <3>3. \A words \in PublishedWords : Stashed(ranAs, Published(words)) \in [Tasks -> Results]
      BY <3>2, StashOK DEF DataOK
    <3>4. panel' \in Results /\ kept' \in [Tasks -> Results]
      BY <2>3, <3>2, <3>3 DEF Publish, DataOK
    <3> QED
      BY <2>3, <3>4 DEF Publish, RunEnds, DataOK
  <2> QED
    BY <1>3, <2>1, <2>2, <2>3 DEF RunStep
<1>4. CASE UnloadStep
  <2>1. panel.transcript \in SUBSET Tasks
    BY DEF DataOK, Results
  <2>2. UNCHANGED <<onScreen, kept, runVars, liveVars>>
    BY <1>4, Zenon DEF UnloadStep, StartUnload, EndUnload
  <2>3. panel' \in Results
    <3>1. \A words \in TextCleared : [panel EXCEPT !.transcript = words, !.audio = {}] \in Results
      BY <2>1, PanelOK DEF TextCleared
    <3>2. panel \in Results
      BY DEF DataOK
    <3> QED
      BY <1>4, <3>1, <3>2, Zenon DEF UnloadStep, StartUnload, EndUnload
  <2>4. owed' \subseteq Tasks
    BY <1>4 DEF UnloadStep, StartUnload, EndUnload, DataOK
  <2> QED
    BY <2>2, <2>3, <2>4 DEF DataOK
<1>5. CASE LiveStep
  <2>1. panel.transcript \in SUBSET Tasks
    BY DEF DataOK, Results
  <2>2. panel' \in Results /\ owed' \subseteq Tasks
    BY <1>5, <2>1, LivePanel, PanelOK DEF DataOK
  <2>3. hearing' \in {"off", "on", "stopping"}
    BY <1>5 DEF LiveStep, PressRecord, ErrorToggles, BeginListening, StopListening, ListeningStopped,
                CloseListening, ListeningClosed, PumpPosts, OnText, DataOK
  <2>4. closing' \in 0..2
    BY <1>5 DEF LiveStep, PressRecord, ErrorToggles, ListeningStopped, CloseListening,
                ListeningClosed, PumpPosts, OnText, DataOK
  <2>5. due' \subseteq {"text", "error"}
    BY <1>5 DEF LiveStep, PressRecord, ErrorToggles, ListeningStopped, CloseListening,
                ListeningClosed, PumpPosts, OnText, DataOK
  <2> QED
    BY <1>5, <2>2, <2>3, <2>4, <2>5, LivePanel DEF DataOK
<1>6. CASE UNCHANGED resultsVars
  BY <1>6 DEF resultsVars, DataOK
<1> QED
  BY <1>1, <1>2, <1>3, <1>4, <1>5, <1>6, ResultsSteps

-----------------------------------------------------------------------------
(* Whose results they are.                                                 *)

Own(t, result) == Content(result) \subseteq {t}

(* Whose output the panel holds: the run's while there is one, wherever    *)
(* the task has been switched to; and else that of the task on screen, or  *)
(* in part still of the one that the setter is leaving.                    *)
PanelInv ==
  IF run # "idle"
  THEN /\ Own(ranAs, panel)
       /\ task # ranAs => kept[task] = Empty
       /\ setter # "no" => leaving = ranAs /\ task # ranAs
  ELSE /\ setter = "no" => Own(task, panel)
       /\ setter \in {"set", "stashed"} => Own(leaving, panel)
       /\ setter = "restoring" =>
            panel.transcript \cup panel.audio \subseteq {task} /\ panel.segments \subseteq {leaving}

(* Until results are entangled, everything kept is its task's own, and so  *)
(* is what a run has in its locals; a recording has its task on screen.    *)
OwnInv ==
  /\ \A t \in Tasks : Own(t, kept[t])
  /\ PanelInv
  /\ transcript \subseteq {ranAs}
  /\ run = "idle" => transcript = {}
  /\ run = "session" => task = ranAs /\ setter = "no"
  /\ run \in {"whole", "long", "grouped"} => builtFor = ranAs
  /\ Listening => setter = "no" /\ task = LiveTask /\ (run # "idle" => ranAs = LiveTask)

(* Once results are entangled there is nothing left to show, and no step   *)
(* undoes that.                                                            *)
LEMMA TangleStays == ASSUME [ResultsNext]_resultsVars PROVE tangled => tangled'
<1>1. CASE SetterStep
  BY <1>1, Zenon DEF SetterStep, SwitchTask, StashResult, RestoreResult, RestoreSegments
<1>2. CASE BodyStep
  BY <1>2, Zenon DEF BodyStep, RunWhole, RunLongText, RunSegmented, WholeOutput, Piece, JoinPieces,
                     Stretch, EndOfSpeech, Fail
<1>3. CASE RunStep \/ UnloadStep \/ UNCHANGED resultsVars
  BY <1>3, Zenon DEF RunStep, UnloadStep, StartRun, CancelRun, Publish, GiveUp, StartUnload,
                     EndUnload, resultsVars
<1>4. CASE LiveStep
  BY <1>4, Zenon DEF LiveStep, PressRecord, ErrorToggles, ListeningStopped, CloseListening,
                     ListeningClosed, PumpPosts, OnText
<1> QED
  BY <1>1, <1>2, <1>3, <1>4, ResultsSteps

(* Keeping a task's own result keeps all that is kept its task's.          *)
LEMMA OwnStash ==
  ASSUME DataOK, NEW t \in Tasks, NEW result \in Results, Own(t, result),
         \A other \in Tasks : Own(other, kept[other])
  PROVE  \A other \in Tasks : Own(other, Stashed(t, result)[other])
BY DEF DataOK, Stashed, Own, Content, Empty

(* No step puts the result of one task where another's is kept or shown,   *)
(* as long as results are not entangled by it.                             *)
LEMMA OwnStep ==
  ASSUME ResultsAssumption, DataOK, OwnInv, ~tangled', [ResultsNext]_resultsVars
  PROVE  OwnInv'
<1>1. CASE SetterStep
  <2>1. ASSUME NEW to \in Tasks, SwitchTask(to) PROVE OwnInv'
    <3>1. ~Listening /\ setter = "no" /\ task # to
          /\ (run # "idle" => run # "session" /\ task = ranAs /\ kept[to] = Empty)
      BY <2>1 DEF SwitchTask
    <3>2. PanelInv'
      BY <2>1, <3>1 DEF SwitchTask, OwnInv, PanelInv, Own, Content, DataOK
    <3>3. ~Listening'
      BY <2>1, <3>1 DEF SwitchTask, Listening
    <3> QED
      BY <2>1, <3>1, <3>2, <3>3 DEF SwitchTask, OwnInv, Own, Content
  <2>2. CASE StashResult
    <3>1. Own(leaving, panel)
      BY <2>2 DEF StashResult, OwnInv, PanelInv
    <3>2. \A t \in Tasks : Own(t, kept'[t])
      BY <2>2, <3>1, OwnStash DEF StashResult, OwnInv, DataOK
    <3>3. run # "idle" => kept'[task] = kept[task]
      BY <2>2 DEF StashResult, Stashed, OwnInv, PanelInv, DataOK
    <3>4. PanelInv'
      BY <2>2, <3>1, <3>3 DEF StashResult, OwnInv, PanelInv, Own, Content
    <3>5. ~Listening' /\ setter # "no"
      BY <2>2 DEF StashResult, OwnInv, Listening
    <3> QED
      BY <2>2, <3>2, <3>4, <3>5 DEF StashResult, OwnInv, Own, Content
  <2>3. CASE RestoreResult \/ RestoreSegments
    <3>1. Own(task, kept[task])
      BY DEF OwnInv, DataOK
    <3>2. PanelInv'
      <4>1. CASE RestoreResult
        BY <3>1, <4>1 DEF RestoreResult, OwnInv, PanelInv, Own, Content, DataOK, Results, Empty
      <4>2. CASE RestoreSegments
        BY <3>1, <4>2 DEF RestoreSegments, OwnInv, PanelInv, Own, Content, DataOK, Results, Empty
      <4> QED
        BY <2>3, <4>1, <4>2
    <3>3. ~Listening' /\ setter # "no"
      BY <2>3 DEF RestoreResult, RestoreSegments, OwnInv, Listening
    <3> QED
      BY <2>3, <3>2, <3>3 DEF RestoreResult, RestoreSegments, OwnInv, Own, Content
  <2> QED
    BY <1>1, <2>1, <2>2, <2>3 DEF SetterStep
<1>2. CASE BodyStep
  <2>1. run # "idle" /\ run' # "idle" /\ run' # "session" /\ UNCHANGED <<ranAs, others>>
    BY <1>2 DEF BodyStep, RunWhole, RunLongText, RunSegmented, WholeOutput, Piece, JoinPieces,
                Stretch, EndOfSpeech, Fail
  <2>2. Own(ranAs, panel) /\ Own(ranAs, panel')
    <3>1. Own(ranAs, panel)
      BY <2>1 DEF OwnInv, PanelInv
    <3> QED
      BY <1>2, <3>1 DEF BodyStep, RunWhole, RunLongText, RunSegmented, WholeOutput, Piece,
         JoinPieces, Stretch, EndOfSpeech, Fail, Own, Content, DataOK, Results
  <2>3. transcript' \subseteq {ranAs}
    BY <1>2, <2>2 DEF BodyStep, RunWhole, RunLongText, RunSegmented, WholeOutput, Piece,
       JoinPieces, Stretch, EndOfSpeech, Fail, Own, Content, OwnInv
  <2>4. run' \in {"whole", "long", "grouped"} => builtFor' = ranAs
    BY <1>2 DEF BodyStep, RunWhole, RunLongText, RunSegmented, WholeOutput, Piece,
       JoinPieces, Stretch, EndOfSpeech, Fail, OwnInv
  <2>5. PanelInv'
    BY <2>1, <2>2 DEF OwnInv, PanelInv
  <2>6. Listening' = Listening
    BY <2>1 DEF Listening
  <2> QED
    BY <2>1, <2>3, <2>4, <2>5, <2>6 DEF OwnInv, Own, Content
<1>3. CASE RunStep
  <2>0. setter = "no" /\ UNCHANGED <<onScreen, liveVars>> /\ Listening' = Listening
    BY <1>3 DEF RunStep, StartRun, CancelRun, Publish, GiveUp, Listening
  <2>1. CASE StartRun
    BY <2>0, <2>1 DEF StartRun, OwnInv, PanelInv, Own, Content, DataOK, Results
  <2>2. CASE CancelRun
    BY <2>0, <2>2 DEF CancelRun, OwnInv, PanelInv, Own, Content
  <2>3. CASE GiveUp
    BY <2>0, <2>3 DEF GiveUp, RunEnds, OwnInv, PanelInv, Own, Content
  <2>4. CASE Publish
    <3>1. run = "done" /\ run' = "idle" /\ transcript' = {}
      BY <2>4 DEF Publish, RunEnds
    <3>2. PICK words \in PublishedWords :
            \/ task = ranAs /\ panel' = Published(words) /\ kept' = kept
            \/ task # ranAs /\ kept' = Stashed(ranAs, Published(words)) /\ panel' = kept'[task]
      BY <2>4 DEF Publish
    <3>3. panel.transcript \in SUBSET Tasks /\ words \in SUBSET Tasks
      BY <3>2 DEF DataOK, Results, PublishedWords
    <3>4. Own(ranAs, Published(words)) /\ Published(words) \in Results
      BY <3>1, <3>2, <3>3, PanelOK
         DEF PublishedWords, Published, OwnInv, PanelInv, Own, Content, DataOK, Results
    <3>5. (\A t \in Tasks : Own(t, kept'[t])) /\ Own(task, panel')
      <4>1. CASE task = ranAs
        BY <3>2, <3>4, <4>1 DEF OwnInv
      <4>2. CASE task # ranAs
        <5>1. \A t \in Tasks : Own(t, kept'[t])
          BY <3>2, <3>4, <4>2, OwnStash DEF OwnInv, DataOK
        <5> QED
          BY <3>2, <4>2, <5>1 DEF DataOK
      <4> QED
        BY <4>1, <4>2
    <3>6. task' = task /\ setter' = "no"
      BY <2>0
    <3>7. PanelInv'
      BY <3>1, <3>5, <3>6 DEF PanelInv, Own, Content
    <3> QED
      BY <2>0, <3>1, <3>5, <3>6, <3>7 DEF OwnInv, Own, Content
  <2> QED
    BY <1>3, <2>1, <2>2, <2>3, <2>4 DEF RunStep
<1>4. CASE UnloadStep
  <2>0. UNCHANGED <<onScreen, kept, runVars, liveVars>> /\ setter = "no"
    BY <1>4, Zenon DEF UnloadStep, StartUnload, EndUnload
  <2>1. UNCHANGED <<onScreen, kept, runVars, liveVars>> /\ setter = "no" /\ Listening' = Listening
    BY <2>0, Zenon DEF Listening
  <2>2. \A t \in Tasks : Own(t, panel) => Own(t, panel')
    BY <1>4 DEF UnloadStep, StartUnload, EndUnload, TextCleared, Own, Content, DataOK, Results
  <2>3. PanelInv'
    BY <2>1, <2>2 DEF OwnInv, PanelInv, Own, Content, DataOK
  <2> QED
    BY <2>1, <2>3 DEF OwnInv, Own, Content
<1>5. CASE LiveStep
  <2>1. UNCHANGED <<onScreen, kept, runVars, unloading, tangled>>
    BY <1>5, LivePanel
  <2>2. Listening' => setter = "no" /\ task = LiveTask /\ (run # "idle" => ranAs = LiveTask)
    BY <1>5, LiveBegins DEF OwnInv
  <2>3. PanelInv'
    <3>1. CASE panel' = panel
      BY <2>1, <3>1 DEF OwnInv, PanelInv, Own, Content
    <3>2. CASE panel' # panel
      <4>1. PICK words \in SUBSET Tasks :
              /\ panel' = [panel EXCEPT !.transcript = words]
              /\ words \subseteq panel.transcript \cup {LiveTask}
              /\ words \subseteq panel.transcript \/ Listening
        BY <1>5, <3>2, LivePanel
      <4>2. setter = "no"
        BY <1>5, <3>2, LivePanel
      <4>3. \A t \in Tasks : Own(t, panel) /\ (Listening => t = LiveTask) => Own(t, panel')
        BY <4>1 DEF Own, Content, DataOK, Results
      <4>4. run = "idle" => Own(task, panel')
        BY <4>2, <4>3 DEF OwnInv, PanelInv, DataOK
      <4>5. run # "idle" => Own(ranAs, panel')
        BY <4>2, <4>3 DEF OwnInv, PanelInv, DataOK
      <4> QED
        BY <2>1, <4>2, <4>4, <4>5 DEF OwnInv, PanelInv, Own, Content
    <3> QED
      BY <3>1, <3>2
  <2> QED
    BY <2>1, <2>2, <2>3 DEF OwnInv, Own, Content
<1>6. CASE UNCHANGED resultsVars
  BY <1>6 DEF resultsVars, OwnInv, PanelInv, Own, Content, Listening
<1> QED
  BY <1>1, <1>2, <1>3, <1>4, <1>5, <1>6, ResultsSteps

-----------------------------------------------------------------------------
(* What a run has published.                                               *)

(* A task with published words has them in the panel while it is there,    *)
(* and kept when it is not or when a run is in progress, which is then     *)
(* never its own.                                                          *)
InPanel(t) == t = (IF setter \in {"set", "stashed"} THEN leaving ELSE task)
OwedInv ==
  /\ \A t \in owed : InPanel(t) => t \in panel.transcript
  /\ \A t \in owed : ~InPanel(t) \/ run # "idle" \/ setter \in {"stashed", "restoring"} =>
                       t \in kept[t].transcript
  /\ run # "idle" => ranAs \notin owed
  /\ setter # "no" => leaving # task

(* No step loses the words that a run has published.                       *)
LEMMA OwedStep ==
  ASSUME ResultsAssumption, DataOK, OwedInv, [ResultsNext]_resultsVars PROVE OwedInv'
<1>1. CASE SetterStep
  <2>1. ASSUME NEW to \in Tasks, SwitchTask(to) PROVE OwedInv'
    BY <2>1 DEF SwitchTask, OwedInv, InPanel
  <2>2. CASE StashResult
    <3>1. leaving \in owed => leaving \in kept'[leaving].transcript
      BY <2>2 DEF StashResult, Stashed, HasAnything, OwedInv, InPanel, DataOK
    <3>2. \A t \in Tasks \ {leaving} : kept'[t] = kept[t]
      BY <2>2 DEF StashResult, Stashed, DataOK
    <3> QED
      BY <2>2, <3>1, <3>2 DEF StashResult, OwedInv, InPanel, DataOK
  <2>3. CASE RestoreResult
    BY <2>3 DEF RestoreResult, OwedInv, InPanel, DataOK, Results
  <2>4. CASE RestoreSegments
    BY <2>4 DEF RestoreSegments, OwedInv, InPanel, DataOK, Results
  <2> QED
    BY <1>1, <2>1, <2>2, <2>3, <2>4 DEF SetterStep
<1>2. CASE BodyStep
  <2>1. panel'.transcript = panel.transcript
    BY <1>2 DEF BodyStep, RunWhole, RunLongText, RunSegmented, WholeOutput, Piece, JoinPieces,
                Stretch, EndOfSpeech, Fail, DataOK, Results
  <2>2. run # "idle" /\ UNCHANGED <<ranAs, others>>
    BY <1>2 DEF BodyStep, RunWhole, RunLongText, RunSegmented, WholeOutput, Piece, JoinPieces,
                Stretch, EndOfSpeech, Fail
  <2> QED
    BY <2>1, <2>2 DEF OwedInv, InPanel
<1>3. CASE RunStep
  <2>1. CASE StartRun
    BY <2>1 DEF StartRun, OwedInv, InPanel, DataOK, Results
  <2>2. CASE CancelRun
    BY <2>2 DEF CancelRun, OwedInv, InPanel
  <2>3. CASE GiveUp
    BY <2>3 DEF GiveUp, RunEnds, OwedInv, InPanel
  <2>4. CASE Publish
    <3>1. run = "done" /\ run' = "idle" /\ setter = "no" /\ UNCHANGED onScreen
      BY <2>4 DEF Publish, RunEnds
    <3>2. PICK words \in PublishedWords :
            \/ task = ranAs /\ panel' = Published(words) /\ kept' = kept
            \/ task # ranAs /\ kept' = Stashed(ranAs, Published(words)) /\ panel' = kept'[task]
      BY <2>4 DEF Publish
    <3>3. transcript \subseteq words /\ Published(words).transcript = words
      BY <3>2 DEF PublishedWords, Published, DataOK, Results
    <3>4. \A t \in owed' : t \in owed \ {ranAs} \/ (t = ranAs /\ t \in words)
      BY <2>4, <3>1, <3>3 DEF Publish, OwedInv
    <3>5. CASE task = ranAs
      BY <3>1, <3>2, <3>3, <3>4, <3>5 DEF OwedInv, InPanel
    <3>6. CASE task # ranAs
      <4>1. \A t \in Tasks \ {ranAs} : kept'[t] = kept[t]
        BY <3>2, <3>6 DEF Stashed, DataOK
      <4>2. ranAs \in words => ranAs \in kept'[ranAs].transcript
        BY <3>2, <3>3, <3>6 DEF Stashed, HasAnything, DataOK
      <4>3. \A t \in owed' : t \in kept'[t].transcript
        BY <3>1, <3>4, <4>1, <4>2 DEF OwedInv, DataOK
      <4> QED
        BY <3>1, <3>2, <3>6, <4>3 DEF OwedInv, InPanel
    <3> QED
      BY <3>5, <3>6
  <2> QED
    BY <1>3, <2>1, <2>2, <2>3, <2>4 DEF RunStep
<1>4. CASE UnloadStep
  BY <1>4 DEF UnloadStep, StartUnload, EndUnload, OwedInv, InPanel
<1>5. CASE LiveStep
  <2>1. UNCHANGED <<onScreen, kept, runVars>>
    BY <1>5, LivePanel
  <2>2. UNCHANGED <<panel, owed>> \/ (setter = "no" /\ owed' = owed \ {task})
    BY <1>5, LivePanel
  <2> QED
    BY <2>1, <2>2 DEF OwedInv, InPanel
<1>6. CASE UNCHANGED resultsVars
  BY <1>6 DEF resultsVars, OwedInv, InPanel
<1> QED
  BY <1>1, <1>2, <1>3, <1>4, <1>5, <1>6, ResultsSteps

-----------------------------------------------------------------------------

ResultsInv == ResultFlags /\ DataOK /\ OwedInv /\ (~tangled => OwnInv)

(* What the panel and the kept results hold: the words of finished runs    *)
(* always, and nothing of another task's until results are entangled, for  *)
(* any tasks and pieces, next to a body on the thread pool and to a        *)
(* recording (MainWindowViewModel.cs:1058-1149, 1778-2102, 2781-2831).     *)
THEOREM ResultsInvariant == ResultsSpec => []ResultsInv
<1>1. ResultsInit => ResultFlags
  BY Zenon DEF ResultsInit, ResultFlags
<1>2. ResultsInit => DataOK
  BY ResultsAssumption DEF ResultsAssumption, ResultsInit, DataOK, Results, Empty
<1>3. ResultsInit => OwnInv /\ OwedInv
  BY DEF ResultsInit, OwnInv, OwedInv, InPanel, PanelInv, Own, Content, Empty, Listening
<1>4. ResultsInv /\ [ResultsNext]_resultsVars => ResultsInv'
  <2> SUFFICES ASSUME ResultsInv, [ResultsNext]_resultsVars PROVE ResultsInv'
    OBVIOUS
  <2>1. ResultFlags'
    BY ResultFlagsStep DEF ResultsInv
  <2>2. DataOK' /\ OwedInv'
    BY ResultsAssumption, DataStep, OwedStep DEF ResultsInv
  <2>3. ASSUME ~tangled' PROVE OwnInv'
    BY <2>3, ResultsAssumption, TangleStays, OwnStep DEF ResultsInv
  <2> QED
    BY <2>1, <2>2, <2>3, Zenon DEF ResultsInv
<1> QED
  BY <1>1, <1>2, <1>3, <1>4, PTL DEF ResultsSpec, ResultsInv

(* Type correctness (TaskResult.cs, MainWindowViewModel.cs:1088-1149).     *)
THEOREM ResultsTypeCorrect == ResultsSpec => []ResultsTypeOK
<1>1. ResultsInv => ResultsTypeOK
  BY Zenon DEF ResultsInv, ResultFlags, DataOK, ResultsTypeOK
<1> QED
  BY <1>1, ResultsInvariant, PTL

(* Output lands with the task that asked for it, also when another one is  *)
(* on screen by then, until results are entangled                          *)
(* (MainWindowViewModel.cs:1805-1808, 2067-2076).                          *)
THEOREM ResultsAreTheirTasks == ResultsSpec => []OwnResultsUnlessTangled
<1>1. ResultsInv => OwnResultsUnlessTangled
  BY DEF ResultsInv, OwnInv, PanelInv, Own, OwnResultsUnlessTangled, ResultsStayWithTheirTask
<1> QED
  BY <1>1, ResultsInvariant, PTL

(* No switch, and no run of another task, loses the words that a run has   *)
(* published (MainWindowViewModel.cs:1064-1072, 2067-2076).                *)
THEOREM PublishedWordsAreKept == ResultsSpec => []PublishedWordsStay
<1>1. ResultsInv => PublishedWordsStay
  BY DEF ResultsInv, OwedInv, InPanel, PublishedWordsStay, ResultOf
<1> QED
  BY <1>1, ResultsInvariant, PTL

-----------------------------------------------------------------------------
(* The application as a whole.                                             *)

(* A step of the application is a step of one of its parts, and the others *)
(* rest.                                                                   *)
LEMMA DesktopStepIsOfPart ==
  ASSUME [Next]_allVars
  PROVE  /\ [StudioNext]_studioVars /\ [ResultsNext]_resultsVars /\ [PiecesNext]_piecesVars
BY DEF Next, BoundedResults, allVars

(* The window and the results behave in the whole as their own             *)
(* specifications say (MainWindowViewModel.cs).                            *)
THEOREM DesktopRunsItsParts == Spec => StudioSpec /\ ResultsSpec
<1>1. Init => StudioInit /\ ResultsInit
  BY DEF Init, WindowStart
<1>2. [Next]_allVars => [StudioNext]_studioVars /\ [ResultsNext]_resultsVars
  BY DesktopStepIsOfPart
<1> QED
  BY <1>1, <1>2, PTL DEF Spec, StudioSpec, ResultsSpec

(* Every variable of the application keeps its type, whatever its commands *)
(* do (MainWindowViewModel.cs, TaskResult.cs).                             *)
THEOREM DesktopTypesHold == Spec => []DesktopTypes
BY DesktopRunsItsParts, StudioTypeCorrect, ResultsTypeCorrect, PTL DEF DesktopTypes

(* A recording has one owner, the busy flag is one command's, an offered   *)
(* model is there, results stay with the task that asked for them until    *)
(* they are entangled, and published words stay whatever happens           *)
(* (MainWindowViewModel.cs:1058-1149,1580-1640,1805-1808,2067-2076).       *)
THEOREM DesktopIsSafe ==
  Spec => /\ [](/\ RecordingHasOneOwner /\ BusyIsOneJobs /\ OfferedModelIsThere
               /\ OwnResultsUnlessTangled /\ PublishedWordsStay)
BY DesktopRunsItsParts, RecordingsAreOwned, BusyBelongsToOneJob, OfferedModelsAreThere,
   ResultsAreTheirTasks, PublishedWordsAreKept, PTL

(* Cutting loses nothing of a text or of a recording, as the application   *)
(* goes on (TextChunker.cs:118-257, MainWindowViewModel.cs:2234-2261).     *)
THEOREM DesktopLosesNothing == Spec => []CuttingLosesNothing
<1>1. Init => PiecesInv
  BY TextStarts, SpeechStarts DEF Init, WindowStart, PiecesInv
<1>2. PiecesInv /\ [Next]_allVars => PiecesInv'
  BY DesktopStepIsOfPart, PiecesStep
<1>3. PiecesInv => CuttingLosesNothing
  BY TextSaid, SpeechCovered DEF PiecesInv, CuttingLosesNothing
<1> QED
  BY <1>1, <1>2, <1>3, PTL DEF Spec
================================================================================
