------------------------------ MODULE StudioResults ------------------------------
(***************************************************************************)
(* What a run outputs and where it is shown (MainWindowViewModel.cs): one  *)
(* panel for the task on screen, the results kept of the other tasks, a    *)
(* run whose body writes some of its output into the panel's own fields    *)
(* from the thread pool while the user may be switching tasks, and a live  *)
(* recording whose text goes to the panel whatever it shows by then.       *)
(*                                                                         *)
(* Output is told apart by the task that it is output of, so an audio or a *)
(* list of segments is the set of the tasks it has output of.  The         *)
(* transcript stands for everything a run publishes at its end (text,      *)
(* rows, words, streams, artifacts).  What the user interface thread does  *)
(* in one go is one step, except the setter of the task, next to which the *)
(* body of a run goes on.  When the commands other than Record may be      *)
(* pressed is Studio; so is which command stops which recording.           *)
(***************************************************************************)
EXTENDS Naturals

CONSTANTS
  Tasks,
  LongTasks,  \* those whose text is cut into pieces: ShowTextChunking
  LiveTask,   \* the one a recording is transcribed for: ShowAsrAudioControls
  MaxPieces   \* bound: pieces of a text, or stretches of speech in a clip

ASSUME ResultsAssumption ==
  /\ LiveTask \in Tasks
  /\ LongTasks \subseteq Tasks
  /\ MaxPieces \in Nat

VARIABLES
  task,       \* _task
  setter,     \* where the setter of Task stands
  leaving,    \* its local of that name
  panel,      \* the transcript, _outputSamples and _segments
  kept,       \* _resultsByTask; a task without an entry has Empty
  run,        \* where RunAsync stands
  ranAs,      \* its local of that name
  builtFor,   \* the task its session was created for
  transcript, \* its local of that name
  toDo,       \* pieces it has still to run
  stopAsked,  \* its token's IsCancellationRequested
  unloading,  \* whether an UnloadAsync is in progress
  hearing,    \* _live: null, recording, or being stopped by the Record button
  closing,    \* recordings that a load or an unload is stopping
  shown,      \* _isRecording
  due,        \* what the pumps have posted to the user interface thread
  tangled,    \* history: see OwnResultsUnlessTangled
  owed        \* history: tasks with words of a finished run, not replaced since

runVars == <<run, ranAs, builtFor, transcript, toDo, stopAsked>>
liveVars == <<hearing, closing, shown, due>>
resultsVars == <<task, setter, leaving, panel, kept, run, ranAs, builtFor, transcript,
                 toDo, stopAsked, unloading, hearing, closing, shown, due, tangled, owed>>

Results == [transcript : SUBSET Tasks, audio : SUBSET Tasks, segments : SUBSET Tasks]
Empty == [transcript |-> {}, audio |-> {}, segments |-> {}]

(* The tasks whose output a result holds.                                  *)
Content(result) == result.transcript \cup result.audio \cup result.segments

ResultsTypeOK ==
  /\ task \in Tasks
  /\ setter \in {"no", "set", "stashed", "restoring"}
  /\ leaving \in Tasks
  /\ panel \in Results
  /\ kept \in [Tasks -> Results]
  /\ run \in {"idle", "session", "whole", "long", "grouped", "done", "failed"}
  /\ ranAs \in Tasks
  /\ builtFor \in Tasks
  /\ transcript \subseteq Tasks
  /\ toDo \in 0..MaxPieces
  /\ stopAsked \in BOOLEAN
  /\ unloading \in BOOLEAN
  /\ hearing \in {"off", "on", "stopping"}
  /\ closing \in 0..2
  /\ shown \in BOOLEAN
  /\ due \subseteq {"text", "error"}
  /\ tangled \in BOOLEAN
  /\ owed \subseteq Tasks

ResultsInit ==
  /\ task \in Tasks
  /\ setter = "no"
  /\ leaving = task
  /\ panel = Empty
  /\ kept = [t \in Tasks |-> Empty]
  /\ run = "idle"
  /\ ranAs = task
  /\ builtFor = task
  /\ transcript = {}
  /\ toDo = 0
  /\ stopAsked = FALSE
  /\ unloading = FALSE
  /\ hearing = "off"
  /\ closing = 0
  /\ shown = FALSE
  /\ due = {}
  /\ tangled = FALSE
  /\ owed = {}

(* Whether the user interface thread is free for another command.          *)
ThreadIsFree == setter = "no"

-----------------------------------------------------------------------------
(* Switching tasks.                                                        *)

(* A recording is in progress, or a word of one is still to come.          *)
Listening == hearing # "off" \/ closing > 0 \/ shown \/ due # {}

(* The Task setter: from the window, or from a load that settles the task. *)
(* A switch entangles results when it meets a recording, or a run that has *)
(* no session yet, was switched away from before, or finds results of      *)
(* another task where it is switched to.                                   *)
SwitchTask(to) ==
  /\ ThreadIsFree
  /\ to # task
  /\ task' = to
  /\ leaving' = task
  /\ setter' = "set"
  /\ tangled' = ( \/ tangled
                  \/ Listening
                  \/ run = "session"
                  \/ run # "idle" /\ (task # ranAs \/ kept[to] # Empty))
  /\ UNCHANGED <<panel, kept, runVars, unloading, liveVars, owed>>

(* HasAnything does not count the segments.                                *)
HasAnything(result) == result.transcript # {} \/ result.audio # {}
Stashed(t, result) == [kept EXCEPT ![t] = IF HasAnything(result) THEN result ELSE Empty]

(* Mutant: the panel is kept under the task that is on screen by now.      *)
StashUnderTask ==
  /\ setter = "set"
  /\ kept' = Stashed(task, panel)
  /\ setter' = "stashed"
  /\ UNCHANGED <<task, leaving, panel, runVars, unloading, liveVars, tangled, owed>>

StashResult ==
  /\ setter = "set"
  /\ kept' = Stashed(leaving, panel)
  /\ setter' = "stashed"
  /\ UNCHANGED <<task, leaving, panel, runVars, unloading, liveVars, tangled, owed>>

(* RestoreResult: the words and the audio, and then the segments.          *)
RestoreResult ==
  /\ setter = "stashed"
  /\ panel' = [kept[task] EXCEPT !.segments = panel.segments]
  /\ setter' = "restoring"
  /\ UNCHANGED <<task, leaving, kept, runVars, unloading, liveVars, tangled, owed>>

RestoreSegments ==
  /\ setter = "restoring"
  /\ panel' = [panel EXCEPT !.segments = kept[task].segments]
  /\ setter' = "no"
  /\ UNCHANGED <<task, leaving, kept, runVars, unloading, liveVars, tangled, owed>>

-----------------------------------------------------------------------------
(* RunAsync: on the user interface thread, then on the thread pool.        *)

onScreen == <<task, setter, leaving>>
others == <<onScreen, kept, unloading, liveVars, tangled, owed>>

(* The panel is cleared, its segments excepted.                            *)
StartRun ==
  /\ ThreadIsFree
  /\ run = "idle"
  /\ run' = "session"
  /\ panel' = [panel EXCEPT !.transcript = {}, !.audio = {}]
  /\ ranAs' = task
  /\ owed' = owed \ {task}
  /\ UNCHANGED <<onScreen, kept, builtFor, transcript, toDo, stopAsked, unloading,
                 liveVars, tangled>>

Fail ==
  /\ run \in {"session", "whole", "long", "grouped"}
  /\ run' = "failed"
  /\ UNCHANGED <<panel, ranAs, builtFor, transcript, toDo, stopAsked, others>>

(* The session is one for the task on screen now, and so is the way the    *)
(* input is cut: a text into pieces, a clip at its pauses, or not at all.  *)
RunWhole ==
  /\ run = "session"
  /\ run' = "whole"
  /\ builtFor' = task
  /\ UNCHANGED <<panel, ranAs, transcript, toDo, stopAsked, others>>

RunLongText ==
  /\ run = "session"
  /\ task \in LongTasks
  /\ run' = "long"
  /\ builtFor' = task
  /\ toDo' \in 2..MaxPieces
  /\ panel' = [panel EXCEPT !.segments = {}]
  /\ UNCHANGED <<ranAs, transcript, stopAsked, others>>

RunSegmented ==
  /\ run = "session"
  /\ task \notin LongTasks
  /\ run' = "grouped"
  /\ builtFor' = task
  /\ toDo' \in 0..MaxPieces
  /\ UNCHANGED <<panel, ranAs, transcript, stopAsked, others>>

(* One call: the audio goes to the panel's field at once, whatever task    *)
(* that shows, the rest waits in locals.                                   *)
WholeOutput ==
  /\ run = "whole"
  /\ panel' \in {panel, [panel EXCEPT !.audio = {ranAs}]}
  /\ transcript' \in {{}, {ranAs}}
  /\ run' = "done"
  /\ UNCHANGED <<ranAs, builtFor, toDo, stopAsked, others>>

(* A piece that has no audio is passed over.                               *)
Piece ==
  /\ run = "long"
  /\ toDo > 0
  /\ ~stopAsked
  /\ toDo' = toDo - 1
  /\ panel' \in {panel, [panel EXCEPT !.segments = @ \cup {ranAs}]}
  /\ UNCHANGED <<run, ranAs, builtFor, transcript, stopAsked, others>>

(* The pieces are those the panel's list holds by now.                     *)
JoinPieces ==
  /\ run = "long"
  /\ toDo = 0 \/ stopAsked
  /\ panel' = IF panel.segments = {} THEN panel ELSE [panel EXCEPT !.audio = panel.segments]
  /\ transcript' = panel.segments
  /\ run' = "done"
  /\ UNCHANGED <<ranAs, builtFor, toDo, stopAsked, others>>

Stretch ==
  /\ run = "grouped"
  /\ toDo > 0
  /\ ~stopAsked
  /\ toDo' = toDo - 1
  /\ transcript' \in {transcript, transcript \cup {ranAs}}
  /\ UNCHANGED <<panel, run, ranAs, builtFor, stopAsked, others>>

EndOfSpeech ==
  /\ run = "grouped"
  /\ toDo = 0 \/ stopAsked
  /\ run' = "done"
  /\ UNCHANGED <<panel, ranAs, builtFor, transcript, toDo, stopAsked, others>>

(* CancelAsync; a run of one call does not offer it.                       *)
CancelRun ==
  /\ ThreadIsFree
  /\ run \in {"long", "grouped"}
  /\ stopAsked' = TRUE
  /\ UNCHANGED <<panel, run, ranAs, builtFor, transcript, toDo, others>>

RunEnds ==
  /\ run' = "idle"
  /\ transcript' = {}
  /\ toDo' = 0
  /\ stopAsked' = FALSE
  /\ UNCHANGED <<ranAs, builtFor>>

(* What a run publishes takes the place of what the panel has, but for its *)
(* rows, which are added to those of the panel.                            *)
Published(words) == [panel EXCEPT !.transcript = words]
PublishedWords == {transcript, transcript \cup panel.transcript}

(* Mutant: the result is left to the task on screen.                       *)
PublishOnScreen ==
  /\ ThreadIsFree
  /\ run = "done"
  /\ \E words \in PublishedWords : panel' = Published(words)
  /\ owed' = IF ranAs \in transcript THEN owed \cup {ranAs} ELSE owed
  /\ RunEnds
  /\ UNCHANGED <<onScreen, kept, unloading, liveVars, tangled>>

(* The continuation: the panel becomes the result of the run, and is kept  *)
(* under the task that ran it if another one is on screen.                 *)
Publish ==
  /\ ThreadIsFree
  /\ run = "done"
  /\ \E words \in PublishedWords :
       \/ /\ task = ranAs
          /\ panel' = Published(words)
          /\ UNCHANGED kept
       \/ /\ task # ranAs
          /\ kept' = Stashed(ranAs, Published(words))
          /\ panel' = kept'[task]
  /\ owed' = IF ranAs \in transcript THEN owed \cup {ranAs} ELSE owed
  /\ RunEnds
  /\ UNCHANGED <<onScreen, unloading, liveVars, tangled>>

(* A run that failed leaves in the panel what its body has put there.      *)
GiveUp ==
  /\ ThreadIsFree
  /\ run = "failed"
  /\ tangled' = (tangled \/ task # ranAs)
  /\ RunEnds
  /\ UNCHANGED <<onScreen, panel, kept, unloading, liveVars, owed>>

(* The text and the rows go; words, streams and artifacts may stay.        *)
TextCleared == {{}, panel.transcript}

(* UnloadAsync may be pressed before a run and end during it.              *)
StartUnload ==
  /\ ThreadIsFree
  /\ run = "idle"
  /\ unloading' = TRUE
  /\ UNCHANGED <<onScreen, panel, kept, runVars, liveVars, tangled, owed>>

EndUnload ==
  /\ ThreadIsFree
  /\ unloading
  /\ unloading' = FALSE
  /\ \E words \in TextCleared : panel' = [panel EXCEPT !.transcript = words, !.audio = {}]
  /\ owed' = owed \ {task}
  /\ UNCHANGED <<onScreen, kept, runVars, liveVars, tangled>>

-----------------------------------------------------------------------------
(* A live recording: the Record button, and the posts of its pump.         *)

screen == <<onScreen, kept, runVars, unloading, tangled>>

(* The panel is cleared whether or not the recording can be started.       *)
BeginListening ==
  /\ hearing = "off"
  /\ \E words \in TextCleared : panel' = [panel EXCEPT !.transcript = words]
  /\ owed' = owed \ {task}
  /\ \/ hearing' = "on" /\ shown' = TRUE
     \/ hearing' = "off" /\ shown' = FALSE

StopListening ==
  /\ hearing = "on"
  /\ hearing' = "stopping"
  /\ UNCHANGED <<panel, shown, owed>>

(* The button stops a recording even when its task is not on screen.       *)
PressRecord ==
  /\ ThreadIsFree
  /\ shown \/ (run = "idle" /\ task = LiveTask)
  /\ BeginListening \/ StopListening
  /\ UNCHANGED <<closing, due, screen>>

(* The report of an error toggles as the button does, and asks nothing;    *)
(* during the stop of another recording it is dropped.                     *)
ErrorToggles ==
  /\ ThreadIsFree
  /\ "error" \in due
  /\ due' = due \ {"error"}
  /\ \/ BeginListening
     \/ StopListening
     \/ hearing = "stopping" /\ UNCHANGED <<hearing, panel, shown, owed>>
  /\ UNCHANGED <<closing, screen>>

(* A text becomes that of the panel, whose rows may stay.                  *)
ShowText ==
  /\ \E words \in {{}, panel.transcript} :
       panel' = [panel EXCEPT !.transcript = words \cup {LiveTask}]
  /\ owed' = owed \ {task}

(* StopAsync has returned, with the final text or with none; or thrown.    *)
ListeningStopped ==
  /\ ThreadIsFree
  /\ hearing = "stopping"
  /\ hearing' = "off"
  /\ \/ shown' = FALSE /\ (ShowText \/ UNCHANGED <<panel, owed>>)
     \/ UNCHANGED <<shown, panel, owed>>
  /\ UNCHANGED <<closing, due, screen>>

(* StopRecordingAsync, of a load or an unload, which shows no text.        *)
CloseListening ==
  /\ ThreadIsFree
  /\ hearing = "on"
  /\ closing < 2
  /\ hearing' = "off"
  /\ closing' = closing + 1
  /\ UNCHANGED <<panel, shown, due, owed, screen>>

ListeningClosed ==
  /\ ThreadIsFree
  /\ closing > 0
  /\ closing' = closing - 1
  /\ shown' = FALSE
  /\ UNCHANGED <<panel, hearing, due, owed, screen>>

(* A pump's text or error, posted while it runs, also during a setter.     *)
PumpPosts ==
  /\ hearing # "off" \/ closing > 0
  /\ \E post \in {"text", "error"} : due' = due \cup {post}
  /\ UNCHANGED <<panel, hearing, closing, shown, owed, screen>>

(* OnText: there may be more of them.                                      *)
OnText ==
  /\ ThreadIsFree
  /\ "text" \in due
  /\ due' \in {due, due \ {"text"}}
  /\ ShowText
  /\ UNCHANGED <<hearing, closing, shown, screen>>

-----------------------------------------------------------------------------

ResultsNext ==
  \/ \E to \in Tasks : SwitchTask(to)
  \/ StashResult \/ RestoreResult \/ RestoreSegments
  \/ StartRun \/ RunWhole \/ RunLongText \/ RunSegmented
  \/ WholeOutput \/ Piece \/ JoinPieces \/ Stretch \/ EndOfSpeech
  \/ CancelRun \/ Fail \/ Publish \/ GiveUp
  \/ StartUnload \/ EndUnload
  \/ PressRecord \/ ErrorToggles \/ ListeningStopped
  \/ CloseListening \/ ListeningClosed \/ PumpPosts \/ OnText

ResultsSpec == ResultsInit /\ [][ResultsNext]_resultsVars

-----------------------------------------------------------------------------
(* Properties.                                                             *)

(* MainWindowViewModel.cs:1805-1807 says a result "belongs to the task     *)
(* that asked for it, not to whatever is on screen when it lands": what is *)
(* kept for a task, and what the panel shows of it when nothing runs, are  *)
(* that task's own output.                                                 *)
ResultsStayWithTheirTask ==
  /\ \A t \in Tasks : Content(kept[t]) \subseteq {t}
  /\ run = "idle" /\ ThreadIsFree => Content(panel) \subseteq {task}

(* They are, and a run's session is one for the task that asked for it,    *)
(* also when a run ends with another task on screen, as long as no switch  *)
(* met a recording, and each run was switched away from once at most,      *)
(* after its session was made, to a task that had nothing to show, and did *)
(* not fail then (MainWindowViewModel.cs:1070-1071, 2056-2057, 2067-2076,  *)
(* 2808).                                                                  *)
OwnResultsUnlessTangled ==
  ~tangled =>
    /\ ResultsStayWithTheirTask
    /\ run \in {"whole", "long", "grouped"} => builtFor = ranAs

(* The words a run has published stay with the task that asked for them,   *)
(* through any number of switches and through runs of other tasks, until   *)
(* the task's own panel is cleared or written by a run, a recording or an  *)
(* unload (MainWindowViewModel.cs:1064-1072, 2067-2076).                   *)
ResultOf(t) == IF t = task THEN panel ELSE kept[t]
PublishedWordsStay ==
  ThreadIsFree => \A t \in owed : t \in ResultOf(t).transcript
================================================================================
