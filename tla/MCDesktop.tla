-------------------------------- MODULE MCDesktop -------------------------------
(***************************************************************************)
(* The desktop application's parts for TLC: the window's commands, the     *)
(* results of its runs, and what it cuts before a run.  They share         *)
(* nothing, so a behaviour is about one of them, chosen at the start.      *)
(***************************************************************************)
EXTENDS Studio, StudioResults, TextPieces, Scene

CONSTANT MaxBegun  \* bound: what is begun in the scene of the results

VARIABLE begun     \* how much of it has been

allVars == <<studioVars, resultsVars, begun, piecesVars, about>>

WindowParts == {"studio", "results", "pieces"}

WindowStart ==
  /\ StudioInit
  /\ ResultsInit /\ task = LiveTask
  /\ begun = 0
  /\ \/ about = "pieces" /\ PiecesInit
     \/ about # "pieces" /\ NothingToCut

Init == about \in WindowParts /\ WindowStart

(* A switch, a run, a recording or an unload begins.                       *)
Begins ==
  \/ task' # task
  \/ run = "idle" /\ run' # "idle"
  \/ hearing # "on" /\ hearing' = "on"
  \/ ~unloading /\ unloading'

BoundedResults ==
  /\ ResultsNext
  /\ begun' = IF Begins THEN begun + 1 ELSE begun
  /\ begun' <= MaxBegun

Next ==
  \/ /\ about = "studio" /\ StudioNext
     /\ UNCHANGED <<resultsVars, begun, piecesVars, about>>
  \/ /\ about = "results" /\ BoundedResults
     /\ UNCHANGED <<studioVars, piecesVars, about>>
  \/ /\ about = "pieces" /\ PiecesNext
     /\ UNCHANGED <<studioVars, resultsVars, begun, about>>

(* Nothing does anything unasked in the other scenes, so the fairness of a *)
(* part says nothing of them.                                              *)
Spec ==
  /\ Init
  /\ [][Next]_allVars
  /\ StudioFairness

(* The scene of the run that is about the window only.                     *)
StudioScene == Init /\ about = "studio" /\ [][Next]_allVars

(* The type invariants of the parts.                                       *)
DesktopTypes == StudioTypeOK /\ ResultsTypeOK
================================================================================
