-------------------------------- MODULE MCServer --------------------------------
(***************************************************************************)
(* The server for TLC: its pool, the install jobs, its starts and stops,   *)
(* the routes that load and run, and a live request.  Each is an instance  *)
(* of its own, so a behaviour is about one of them, chosen at the start.   *)
(***************************************************************************)
EXTENDS ModelPool, InstallJobs, ServerLifecycle, ModelRoutes, LiveIngest, TLC

CONSTANTS
  Scenes,   \* what a behaviour may be about
  s1

(* The models are there from the start, or all to be added.                *)
AllConfigured == [i \in Ids |-> s1]
NoneConfigured == [i \in Ids |-> None]

(* No definition names an entry, a job or a client.                        *)
ServerSymmetry == Permutations(Entries) \cup Permutations(Jobs) \cup Permutations(Clients)

VARIABLE about

allVars == <<vars, installVars, serverVars, routesVars, ingestVars, about>>

MCInit ==
  /\ about \in Scenes
  /\ Init /\ InstallInit /\ ServerInit
  /\ RoutesInit /\ (about = "routes" \/ registered = NoSpec)
  /\ IngestInit /\ (about = "ingest" \/ speech = TRUE)

MCNext ==
  \/ /\ about = "pool" /\ Next
     /\ UNCHANGED <<installVars, serverVars, routesVars, ingestVars, about>>
  \/ /\ about = "install" /\ InstallNext
     /\ UNCHANGED <<vars, serverVars, routesVars, ingestVars, about>>
  \/ /\ about = "lifecycle" /\ ServerNext
     /\ UNCHANGED <<vars, installVars, routesVars, ingestVars, about>>
  \/ /\ about = "routes" /\ RoutesNext
     /\ UNCHANGED <<vars, installVars, serverVars, ingestVars, about>>
  \/ /\ about = "ingest" /\ IngestNext
     /\ UNCHANGED <<vars, installVars, serverVars, routesVars, about>>

(* Nothing does anything unasked in the other scenes, except that a live   *)
(* request waits for its model, so its fairness is that of its own scene.  *)
MCSpec ==
  /\ MCInit
  /\ [][MCNext]_allVars
  /\ Fairness
  /\ InstallFairness
  /\ ServerFairness
  /\ WF_ingestVars(about = "ingest" /\ Handle)

(* Nothing is said of what follows a crossing of two install requests, so  *)
(* where only the install jobs' safety is asked for, nothing follows.      *)
UncrossedSpec == MCInit /\ [][~raced /\ MCNext]_allVars

(* The type invariants of the parts.                                       *)
ServerTypes == InstallTypeOK /\ ServerTypeOK /\ RoutesTypeOK /\ IngestTypeOK
================================================================================
