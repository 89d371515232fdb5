------------------------------ MODULE Server_proofs -----------------------------
(***************************************************************************)
(* Proofs about the parts of the server around its pool.                   *)
(***************************************************************************)
EXTENDS MCServer, InstallJobs_proofs, Integers, SequenceTheorems, TLAPS

-----------------------------------------------------------------------------
(* Starting and stopping.                                                  *)

(* What the invariant says while no two calls overlap.                     *)
TruthInv ==
  /\ \A c, d \in ServerCalls : callAt[c] \notin Idle /\ callAt[d] \notin Idle => c = d
  /\ \A c \in ServerCalls : CommandInv(c)
  /\ Quiet => \/ serverState = "Running" /\ Served
              \/ Down /\ NothingUp /\ pool = NoCall

(* A call that has entries to dispose has a pool.                          *)
Targets == \A c \in ServerCalls :
             callAt[c] = "disposing" /\ remaining[c] # {} => target[c] # NoCall

(* No call has the number that stands for none.                            *)
LEMMA CallsAreNumbered == NoCall \notin ServerCalls
BY ServerAssumption DEF ServerCalls, NoCall

(* A press, by either button, and what a call does by itself.              *)
CallStep(c) == PressStart(c) \/ PressStop(c) \/ Proceed(c)
RequestStep(r) == Use(r) \/ Leave(r) \/ \E e \in PoolEntries : Ask(r, e)

(* A tear-down keeps the types.                                            *)
LEMMA TearDownTyped ==
  ASSUME ServerTypeOK, NEW c \in ServerCalls, NEW running, TearDown(c, running)
  PROVE  /\ app' \in ServerCalls \cup {NoCall} /\ listening' \subseteq ServerCalls
         /\ callAt' \in
              [ServerCalls -> {"unused", "binding", "warming", "draining", "disposing", "done"}]
         /\ remaining' \in [ServerCalls -> SUBSET Models]
         /\ running \in ServerCalls \cup {NoCall} =>
              target' \in [ServerCalls -> ServerCalls \cup {NoCall}]
BY DEF TearDown, DisposePool, ServerTypeOK

(* So does a step.                                                        *)
LEMMA ServerTypeStep ==
  ASSUME ServerTypeOK, Targets,
         \/ \E c \in ServerCalls : CallStep(c)
         \/ \E r \in HttpClients : RequestStep(r)
  PROVE  ServerTypeOK'
<1> USE DEF server, calls, requests
<1>0. \A running : running \in {app} \cup ServerCalls => running \in ServerCalls \cup {NoCall}
  BY DEF ServerTypeOK
<1>1. ASSUME NEW c \in ServerCalls, PressStart(c)
      PROVE  ServerTypeOK'
  <2>1. overlapped' \in BOOLEAN
    BY <1>1, Zenon DEF PressStart, Press
  <2> QED
    BY <1>1, <2>1 DEF PressStart, ServerTypeOK
<1>2. ASSUME NEW c \in ServerCalls, PressStop(c)
      PROVE  ServerTypeOK'
  <2>1. overlapped' \in BOOLEAN
    BY <1>2, Zenon DEF PressStop, Press
  <2> QED
    BY <1>0, <1>2, <2>1, TearDownTyped DEF PressStop, ServerTypeOK
<1>3. ASSUME NEW c \in ServerCalls, NEW running \in {app} \cup ServerCalls, StartThrows(c, running)
      PROVE  ServerTypeOK'
  BY <1>0, <1>3, TearDownTyped DEF StartThrows, ServerTypeOK
<1>4. ASSUME NEW c \in ServerCalls, Binds(c)
      PROVE  ServerTypeOK'
  BY <1>4 DEF Binds, ServerTypeOK
<1>5. ASSUME NEW c \in ServerCalls, NEW k \in Models, WarmModel(c, k)
      PROVE  ServerTypeOK'
  BY <1>5 DEF WarmModel, ServerTypeOK
<1>6. ASSUME NEW c \in ServerCalls, WarmUpEnds(c)
      PROVE  ServerTypeOK'
  BY <1>6 DEF WarmUpEnds, ServerTypeOK
<1>7. ASSUME NEW c \in ServerCalls, DrainEnds(c)
      PROVE  ServerTypeOK'
  BY <1>7 DEF DrainEnds, DisposePool, ServerTypeOK
<1>8. ASSUME NEW c \in ServerCalls, NEW k \in Models, DisposeEntry(c, k)
      PROVE  ServerTypeOK'
  <2>1. target[c] \in ServerCalls
    BY <1>8 DEF DisposeEntry, Targets, ServerTypeOK
  <2>2. gone' \subseteq PoolEntries
    BY <1>8, <2>1 DEF DisposeEntry, ServerTypeOK, PoolEntries
  <2> QED
    BY <1>8, <2>2 DEF DisposeEntry, ServerTypeOK
<1>9. ASSUME NEW c \in ServerCalls, TearDownEnds(c)
      PROVE  ServerTypeOK'
  BY <1>9 DEF TearDownEnds, ServerTypeOK
<1>10. ASSUME NEW r \in HttpClients, RequestStep(r)
       PROVE  ServerTypeOK'
  BY <1>10 DEF RequestStep, Use, Leave, Ask, ServerTypeOK
<1> QED
  BY <1>1, <1>2, <1>3, <1>4, <1>5, <1>6, <1>7, <1>8, <1>9, <1>10
     DEF CallStep, Proceed, BindFails, BindsWithoutPool, WarmUpThrows

(* A step keeps a pool with every disposal that is under way.              *)
LEMMA TargetsStep ==
  ASSUME ServerTypeOK, Targets,
         \/ \E c \in ServerCalls : CallStep(c)
         \/ \E r \in HttpClients : RequestStep(r)
  PROVE  Targets'
<1> USE DEF server, calls, requests, ServerTypeOK, Targets
<1>1. ASSUME NEW c \in ServerCalls, PressStart(c)
      PROVE  Targets'
  BY <1>1 DEF PressStart
<1>2. ASSUME NEW c \in ServerCalls, NEW running, TearDown(c, running)
      PROVE  Targets'
  BY <1>2 DEF TearDown, DisposePool
<1>3. ASSUME NEW c \in ServerCalls, Binds(c)
      PROVE  Targets'
  BY <1>3 DEF Binds
<1>4. ASSUME NEW c \in ServerCalls, \E k \in Models : WarmModel(c, k) \/ DisposeEntry(c, k)
      PROVE  Targets'
  BY <1>4 DEF WarmModel, DisposeEntry
<1>5. ASSUME NEW c \in ServerCalls, WarmUpEnds(c) \/ TearDownEnds(c)
      PROVE  Targets'
  BY <1>5 DEF WarmUpEnds, TearDownEnds
<1>6. ASSUME NEW c \in ServerCalls, DrainEnds(c)
      PROVE  Targets'
  BY <1>6 DEF DrainEnds, DisposePool
<1>7. ASSUME NEW r \in HttpClients, RequestStep(r)
      PROVE  Targets'
  BY <1>7 DEF RequestStep, Use, Leave, Ask
<1> QED
  BY <1>1, <1>2, <1>3, <1>4, <1>5, <1>6, <1>7
     DEF CallStep, Proceed, PressStop, BindFails, BindsWithoutPool, WarmUpThrows, StartThrows

(* A step of the one call in progress, or the press of one when none is.   *)
LEMMA TruthStep ==
  ASSUME ServerTypeOK, TruthInv, ~overlapped',
         \/ \E c \in ServerCalls : CallStep(c)
         \/ \E r \in HttpClients : RequestStep(r)
  PROVE  TruthInv'
<1> USE CallsAreNumbered DEF server, calls, requests, ServerTypeOK
<1>0. ASSUME NEW c \in ServerCalls, callAt[c] \notin Idle
      PROVE  /\ CommandInv(c)
             /\ \A d \in ServerCalls \ {c} : callAt[d] \in {"unused", "done"} /\ CommandInv(d)
  BY <1>0 DEF TruthInv, Idle
<1>1. ASSUME NEW c \in ServerCalls, PressStart(c)
      PROVE  TruthInv'
  <2>1. Quiet /\ NothingUp /\ pool = NoCall /\ Down /\ CommandInv(c) /\ callAt[c] = "unused"
    BY <1>1 DEF PressStart, Press, TruthInv, Down
  <2>2. \A d \in ServerCalls : callAt[d] \in {"unused", "done"} /\ CommandInv(d)
    BY <2>1 DEF TruthInv, Quiet, Idle
  <2>3. \A d \in ServerCalls : CommandInv(d)'
    BY <1>1, <2>1, <2>2 DEF PressStart, CommandInv, NothingUp
  <2> QED
    BY <1>1, <2>2, <2>3 DEF PressStart, TruthInv, Quiet, Idle
<1>2. ASSUME NEW c \in ServerCalls, PressStop(c)
      PROVE  TruthInv'
  <2>1. Quiet /\ Served /\ serverState = "Running" /\ CommandInv(c) /\ callAt[c] = "unused"
    BY <1>2 DEF PressStop, Press, TruthInv, Down
  <2>2. \A d \in ServerCalls : callAt[d] \in {"unused", "done"} /\ CommandInv(d)
    BY <2>1 DEF TruthInv, Quiet, Idle
  <2>3. /\ app' = NoCall /\ listening' = {} /\ callAt' = [callAt EXCEPT ![c] = "draining"]
        /\ pool' = pool /\ gone' = gone /\ stops' = stops \cup {c} /\ serverState' = "Stopping"
    BY <1>2, <2>1 DEF PressStop, TearDown, Served
  <2>4. pool # c /\ pool \in ServerCalls /\ callAt[pool] = "done" /\ pool \notin stops
    BY <2>1, <2>2 DEF Served
  <2>5. \A d \in ServerCalls : CommandInv(d)'
    BY <2>2, <2>3, <2>4 DEF CommandInv, NothingUp
  <2> QED
    BY <2>2, <2>3, <2>5 DEF TruthInv, Quiet, Idle
<1>3. ASSUME NEW c \in ServerCalls, BindFails(c)
      PROVE  TruthInv'
  <2>1. callAt[c] = "binding" /\ CommandInv(c)
        /\ \A d \in ServerCalls \ {c} : callAt[d] \in {"unused", "done"} /\ CommandInv(d)
    BY <1>0, <1>3 DEF BindFails, Idle
  <2>2. /\ app' = NoCall /\ listening' = {} /\ callAt' = [callAt EXCEPT ![c] = "disposing"]
        /\ target' = [target EXCEPT ![c] = c] /\ remaining' = [remaining EXCEPT ![c] = Models]
        /\ pool' = c /\ gone' = gone /\ stops' = stops /\ serverState' = "Failed"
    BY <1>3, <2>1 DEF BindFails, StartThrows, TearDown, DisposePool, CommandInv, NothingUp
  <2>3. \A d \in ServerCalls : CommandInv(d)'
    BY <2>1, <2>2 DEF CommandInv, NothingUp
  <2> QED
    BY <2>1, <2>2, <2>3 DEF TruthInv, Quiet, Idle
<1>4. ASSUME NEW c \in ServerCalls, Binds(c)
      PROVE  TruthInv'
  <2>1. callAt[c] = "binding" /\ CommandInv(c)
        /\ \A d \in ServerCalls \ {c} : callAt[d] \in {"unused", "done"} /\ CommandInv(d)
    BY <1>0, <1>4 DEF Binds, Idle
  <2>2. Served' /\ serverState' = "Running" /\ callAt' = [callAt EXCEPT ![c] = "warming"]
    BY <1>4, <2>1 DEF Binds, CommandInv, Served
  <2>3. \A d \in ServerCalls : CommandInv(d)'
    BY <1>4, <2>1, <2>2 DEF Binds, CommandInv
  <2> QED
    BY <2>1, <2>2, <2>3 DEF TruthInv, Quiet, Idle
<1>5. ASSUME NEW c \in ServerCalls, BindsWithoutPool(c)
      PROVE  TruthInv'
  BY <1>0, <1>5 DEF BindsWithoutPool, CommandInv, Idle
<1>6. ASSUME NEW c \in ServerCalls, NEW k \in Models, WarmModel(c, k)
      PROVE  TruthInv'
  <2>1. callAt[c] = "warming"
    BY <1>6 DEF WarmModel
  <2>2. \A d \in ServerCalls : CommandInv(d)'
    BY <1>6, <2>1 DEF WarmModel, CommandInv, TruthInv, NothingUp, Served
  <2> QED
    BY <1>6, <2>1, <2>2 DEF WarmModel, TruthInv, Quiet, Idle
<1>7. ASSUME NEW c \in ServerCalls, WarmUpThrows(c)
      PROVE  TruthInv'
  <2>1. callAt[c] = "warming" /\ CommandInv(c)
        /\ \A d \in ServerCalls \ {c} : callAt[d] \in {"unused", "done"} /\ CommandInv(d)
    BY <1>0, <1>7 DEF WarmUpThrows, Idle
  <2>2. /\ app' = NoCall /\ listening' = {} /\ callAt' = [callAt EXCEPT ![c] = "draining"]
        /\ pool' = c /\ gone' = gone /\ stops' = stops /\ serverState' = "Failed"
    BY <1>7, <2>1 DEF WarmUpThrows, StartThrows, TearDown, CommandInv, Served
  <2>3. c \notin stops /\ pool = c
    BY <2>1 DEF CommandInv, Served
  <2>4. \A d \in ServerCalls : CommandInv(d)'
    BY <2>1, <2>2, <2>3 DEF CommandInv, NothingUp
  <2> QED
    BY <2>1, <2>2, <2>4 DEF TruthInv, Quiet, Idle
<1>8. ASSUME NEW c \in ServerCalls, WarmUpEnds(c)
      PROVE  TruthInv'
  <2>1. callAt[c] = "warming" /\ CommandInv(c)
        /\ \A d \in ServerCalls \ {c} : callAt[d] \in {"unused", "done"} /\ CommandInv(d)
    BY <1>0, <1>8 DEF WarmUpEnds, Idle
  <2>2. Served' /\ serverState' = "Running" /\ callAt' = [callAt EXCEPT ![c] = "done"]
    BY <1>8, <2>1 DEF WarmUpEnds, CommandInv, Served
  <2>3. \A d \in ServerCalls : CommandInv(d)'
    BY <1>8, <2>1, <2>2 DEF WarmUpEnds, CommandInv, Served
  <2> QED
    BY <2>1, <2>2, <2>3 DEF TruthInv, Quiet, Idle
<1>9. ASSUME NEW c \in ServerCalls, DrainEnds(c)
      PROVE  TruthInv'
  <2>1. callAt[c] = "draining" /\ CommandInv(c)
        /\ \A d \in ServerCalls \ {c} : callAt[d] \in {"unused", "done"} /\ CommandInv(d)
    BY <1>0, <1>9 DEF DrainEnds, Idle
  <2>2. /\ callAt' = [callAt EXCEPT ![c] = "disposing"]
        /\ target' = [target EXCEPT ![c] = pool] /\ remaining' = [remaining EXCEPT ![c] = Models]
        /\ UNCHANGED <<server, gone, stops, listening>>
    BY <1>9, <2>1 DEF DrainEnds, DisposePool, CommandInv
  <2>3. \A d \in ServerCalls : CommandInv(d)'
    BY <2>1, <2>2 DEF CommandInv, NothingUp
  <2> QED
    BY <2>1, <2>2, <2>3 DEF TruthInv, Quiet, Idle
<1>10. ASSUME NEW c \in ServerCalls, NEW k \in Models, DisposeEntry(c, k)
       PROVE  TruthInv'
  <2>1. callAt[c] = "disposing" /\ CommandInv(c)
        /\ \A d \in ServerCalls \ {c} : callAt[d] \in {"unused", "done"} /\ CommandInv(d)
    BY <1>0, <1>10 DEF DisposeEntry, Idle
  <2>2. /\ gone' = gone \cup {<<pool, k>>} /\ remaining' = [remaining EXCEPT ![c] = @ \ {k}]
        /\ UNCHANGED <<server, listening, callAt, target, stops>>
        /\ pool \in ServerCalls /\ callAt[pool] # "unused"
    BY <1>10, <2>1 DEF DisposeEntry, CommandInv
  <2>3. \A d \in ServerCalls : CommandInv(d)'
    BY <2>1, <2>2 DEF CommandInv, NothingUp
  <2> QED
    BY <2>1, <2>2, <2>3 DEF TruthInv, Quiet, Idle
<1>11. ASSUME NEW c \in ServerCalls, TearDownEnds(c)
       PROVE  TruthInv'
  <2>1. callAt[c] = "disposing" /\ CommandInv(c)
        /\ \A d \in ServerCalls \ {c} : callAt[d] \in {"unused", "done"} /\ CommandInv(d)
    BY <1>0, <1>11 DEF TearDownEnds, Idle
  <2>2. /\ NothingUp' /\ pool' = NoCall /\ callAt' = [callAt EXCEPT ![c] = "done"]
        /\ gone' = gone /\ stops' = stops
        /\ \A k \in Models : <<pool, k>> \in gone
        /\ Down'
    BY <1>11, <2>1 DEF TearDownEnds, CommandInv, NothingUp, Down
  <2>3. \A d \in ServerCalls : CommandInv(d)'
    BY <2>1, <2>2 DEF CommandInv
  <2> QED
    BY <2>1, <2>2, <2>3 DEF TruthInv, Quiet, Idle
<1>12. ASSUME NEW r \in HttpClients, RequestStep(r)
       PROVE  TruthInv'
  BY <1>12 DEF RequestStep, Use, Leave, Ask, TruthInv, CommandInv, Quiet, Down, NothingUp, Served
<1> QED
  BY <1>1, <1>2, <1>3, <1>4, <1>5, <1>6, <1>7, <1>8, <1>9, <1>10, <1>11, <1>12 DEF CallStep, Proceed

(* Once two calls overlapped, they did.                                    *)
LEMMA OverlapStays ==
  ASSUME \/ \E c \in ServerCalls : CallStep(c)
         \/ \E r \in HttpClients : RequestStep(r)
  PROVE  ~overlapped' => ~overlapped
<1>1. ASSUME NEW c \in ServerCalls, PressStart(c) \/ PressStop(c)
      PROVE  ~overlapped' => ~overlapped
  BY <1>1 DEF PressStart, PressStop, Press
<1>2. ASSUME NEW c \in ServerCalls, Proceed(c)
      PROVE  overlapped' = overlapped
  BY <1>2 DEF Proceed, BindFails, Binds, BindsWithoutPool, StartThrows, WarmModel, WarmUpThrows,
              WarmUpEnds, DrainEnds, DisposeEntry, TearDownEnds
<1>3. ASSUME NEW r \in HttpClients, RequestStep(r)
      PROVE  overlapped' = overlapped
  BY <1>3 DEF RequestStep, Use, Leave, Ask
<1> QED
  BY <1>1, <1>2, <1>3 DEF CallStep

(* The inductive invariant of the server's life holds for any number of    *)
(* calls, models and clients (StartAsync, StopAsync, TearDownAsync).       *)
THEOREM ServerInvariant == ServerSpec => []ServerInv
<1>1. ServerInit => ServerInv
  <2> SUFFICES ASSUME ServerInit
               PROVE  ServerInv
    OBVIOUS
  <2>1. overlapped \in BOOLEAN
    BY Zenon DEF ServerInit
  <2>2. ServerTypeOK
    BY <2>1 DEF ServerInit, ServerTypeOK
  <2>3. Targets /\ TruthInv
    BY CallsAreNumbered DEF ServerInit, Targets, TruthInv, CommandInv, Idle, Quiet, Down, NothingUp
  <2> QED
    BY <2>2, <2>3 DEF ServerInv, Targets, TruthInv
<1>2. ServerInv /\ [ServerNext]_serverVars => ServerInv'
  <2> SUFFICES ASSUME ServerInv, [ServerNext]_serverVars
               PROVE  ServerInv'
    OBVIOUS
  <2>1. CASE UNCHANGED serverVars
    BY <2>1 DEF serverVars, server, calls, requests, ServerInv, ServerTypeOK, CommandInv, Quiet, Down,
                NothingUp, Served
  <2>2. CASE ServerNext
    <3>1. \/ \E c \in ServerCalls : CallStep(c)
          \/ \E r \in HttpClients : RequestStep(r)
      BY <2>2 DEF ServerNext, CallStep, RequestStep
    <3>2. ServerTypeOK /\ Targets /\ (~overlapped => TruthInv)
      BY DEF ServerInv, Targets, TruthInv
    <3>3. ServerTypeOK' /\ Targets' /\ (~overlapped' => TruthInv')
      BY <3>1, <3>2, ServerTypeStep, TargetsStep, TruthStep, OverlapStays
    <3> QED
      BY <3>3 DEF ServerInv, Targets, TruthInv
  <2> QED
    BY <2>1, <2>2
<1> QED
  BY <1>1, <1>2, PTL DEF ServerSpec

(* Every value of the server's state keeps its type.                       *)
THEOREM ServerTypeCorrect == ServerSpec => []ServerTypeOK
<1>1. ServerInv => ServerTypeOK
  BY DEF ServerInv
<1> QED
  BY <1>1, ServerInvariant, PTL

(* As long as no command is given while another is in progress, the state  *)
(* tells the truth (AudioCppServer.StartAsync, TearDownAsync).             *)
THEOREM TheStateIsTrue == ServerSpec => []StateTellsTruth
<1>1. ServerInv => StateTellsTruth
  <2> SUFFICES ASSUME ServerInv, ~overlapped
               PROVE  /\ serverState = "Running" =>
                           /\ app # NoCall /\ listening = {app} /\ pool = app
                           /\ \A k \in Models : <<app, k>> \notin gone
                      /\ Quiet /\ Down =>
                           /\ listening = {} /\ app = NoCall /\ pool = NoCall
                           /\ \A c \in ServerCalls : callAt[c] = "done" /\ c \notin stops =>
                                \A k \in Models : <<c, k>> \in gone
    BY DEF StateTellsTruth
  <2>1. serverState = "Running" => Served
    <3>1. CASE Quiet
      BY <3>1 DEF ServerInv, Down
    <3>2. ASSUME NEW c \in ServerCalls, callAt[c] \notin Idle
          PROVE  serverState = "Running" => Served
      BY <3>2 DEF ServerInv, ServerTypeOK, CommandInv, Idle
    <3> QED
      BY <3>1, <3>2 DEF Quiet
  <2>2. Quiet /\ Down => NothingUp /\ pool = NoCall
    BY DEF ServerInv, Down
  <2> QED
    BY <2>1, <2>2, CallsAreNumbered DEF ServerInv, CommandInv, Served, NothingUp
<1> QED
  BY <1>1, ServerInvariant, PTL

-----------------------------------------------------------------------------
(* Runs and loads.                                                         *)

Places == {"idle", "capture", "queue", "use", "work", "refused", "register",
           "add", "swap", "release", "clear", "forget", "forgetRelease", "unlist", "drop"}
Optional == Descriptions \cup {NoSpec}
Locals == [route : {"run", "load", "rollback"}, withOption : BOOLEAN,
           captured : Optional, registering : Optional, previous : Optional]

(* A request that goes on, and the others that do not.                     *)
LEMMA StandsFacts ==
  ASSUME RoutesTypeOK, NEW r \in Routes, NEW place \in Places, NEW locals \in Locals,
         Stands(r, place, locals)
  PROVE  /\ routeAt' \in [Routes -> Places] /\ req' \in [Routes -> Locals]
         /\ routeAt'[r] = place
         /\ place = "idle" => req'[r] = NoRequest
         /\ place # "idle" => req'[r] = locals
         /\ \A q \in Routes : q # r => routeAt'[q] = routeAt[q] /\ req'[q] = req[q]
<1>1. NoRequest \in Locals
  <2>1. FALSE \in BOOLEAN
    BY Zenon
  <2> QED
    BY <2>1 DEF NoRequest, Request, Locals, Optional
<1> QED
  BY <1>1 DEF RoutesTypeOK, Stands, Places, Locals, Optional

(* The fields of a request.                                                *)
LEMMA LocalsFacts ==
  ASSUME RoutesTypeOK, NEW r \in Routes
  PROVE  /\ req[r] \in Locals /\ routeAt[r] \in Places
         /\ \A d \in Optional : [req[r] EXCEPT !.captured = d] \in Locals
         /\ [req[r] EXCEPT !.withOption = FALSE] \in Locals
         /\ Request("rollback", FALSE, req[r].previous, NoSpec) \in Locals
         /\ \A d \in Descriptions : Request("load", FALSE, d, registered) \in Locals
         /\ \A b \in BOOLEAN : Request("run", b, NoSpec, NoSpec) \in Locals
<1>1. req[r] \in Locals /\ routeAt[r] \in Places
  BY DEF RoutesTypeOK, Locals, Optional, Places
<1>2. FALSE \in BOOLEAN
  BY Zenon
<1> QED
  BY <1>1, <1>2 DEF RoutesTypeOK, Locals, Optional, Request

(* What one request does.                                                  *)
RequestMoves(r) ==
  \/ StartRun(r) \/ Capture(r) \/ EnterGate(r) \/ BreakOff(r) \/ UseResident(r) \/ OpenFails(r)
  \/ Work(r) \/ NoteRefusal(r)
  \/ \E s \in Descriptions : StartLoad(r, s)
  \/ Register(r) \/ Replace(r) \/ ReleaseOld(r) \/ CancelReleaseOld(r) \/ ClearRefusal(r)
  \/ Forget(r) \/ RemoveSpec(r) \/ DropEntry(r)

(* The fields keep their types when a request stands where it should. *)
LEMMA TypeKept ==
  ASSUME RoutesTypeOK, NEW r \in Routes, NEW place \in Places, NEW locals \in Locals,
         Stands(r, place, locals),
         registered' \in Optional, resident' \in Optional, opened' \in BOOLEAN,
         gateHolder' \in Routes \cup {NoSpec}, refusesLanguage' \in BOOLEAN,
         loads' \in 0..MaxLoads, worked' \in Optional,
         crossed' \in BOOLEAN, abandoned' \in BOOLEAN, mixed' \in BOOLEAN
  PROVE  RoutesTypeOK'
BY StandsFacts DEF RoutesTypeOK, Places, Locals, Optional

(* The rest of the state, field by field.                                  *)
LEMMA FieldsTyped ==
  ASSUME RoutesTypeOK
  PROVE  /\ registered \in Optional /\ resident \in Optional /\ opened \in BOOLEAN
         /\ gateHolder \in Routes \cup {NoSpec}
         /\ refusesLanguage \in BOOLEAN /\ loads \in 0..MaxLoads /\ worked \in Optional
         /\ crossed \in BOOLEAN /\ abandoned \in BOOLEAN /\ mixed \in BOOLEAN
BY DEF RoutesTypeOK, Optional

(* A step keeps the types.                                                 *)
LEMMA RoutesTypeStep ==
  ASSUME RoutesTypeOK, \A q \in Routes : ControlInv(q), NEW r \in Routes, RequestMoves(r)
  PROVE  RoutesTypeOK'
<1> USE FieldsTyped, LocalsFacts DEF entryModel, pooled, loadHistory, history
<1>1. CASE StartRun(r)
  <2>1. PICK language \in BOOLEAN :
          Stands(r, "capture", Request("run", language /\ ~refusesLanguage, NoSpec, NoSpec))
    BY <1>1 DEF StartRun
  <2>2. (language /\ ~refusesLanguage) \in BOOLEAN /\ mixed' \in BOOLEAN
    BY <1>1, Zenon DEF StartRun, Mixes
  <2>3. Request("run", language /\ ~refusesLanguage, NoSpec, NoSpec) \in Locals
    BY <2>2
  <2> QED
    BY <1>1, <2>1, <2>2, <2>3, TypeKept DEF StartRun, Places
<1>2. CASE Capture(r)
  BY <1>2, TypeKept DEF Capture, Places
<1>3. CASE EnterGate(r)
  BY <1>3, TypeKept DEF EnterGate, Goes, Places
<1>4. CASE BreakOff(r)
  <2>1. abandoned' \in BOOLEAN
    BY <1>4, Zenon DEF BreakOff
  <2> QED
    BY <1>4, <2>1, TypeKept DEF BreakOff, Goes, Places
<1>5. CASE UseResident(r)
  <2>1. req[r].captured \in Optional
    BY DEF Locals
  <2>2. opened' \in BOOLEAN /\ mixed' \in BOOLEAN
    BY <1>5, Zenon DEF UseResident, Mixes
  <2> QED
    BY <1>5, <2>1, <2>2, TypeKept DEF UseResident, Goes, Places
<1>6. CASE OpenFails(r)
  <2>1. req[r].captured \in Optional
    BY DEF Locals
  <2> QED
    BY <1>6, <2>1, TypeKept DEF OpenFails, OpenBreaks, Places
<1>7. CASE Work(r)
  <2>1. req[r].registering \in Optional
    BY DEF Locals
  <2>2. worked' \in Optional /\ gateHolder' \in Routes \cup {NoSpec}
    BY <1>7, <2>1 DEF Work
  <2>3. PICK place \in {"refused", "idle"} : Stands(r, place, req[r])
    BY <1>7 DEF Work, Goes
  <2> QED
    BY <1>7, <2>2, <2>3, TypeKept DEF Work, Places
<1>8. CASE NoteRefusal(r)
  <2>1. refusesLanguage' \in BOOLEAN
    BY <1>8, Zenon DEF NoteRefusal
  <2> QED
    BY <1>8, <2>1, TypeKept DEF NoteRefusal, Places
<1>9. CASE \E s \in Descriptions : StartLoad(r, s)
  <2>1. PICK s \in Descriptions : StartLoad(r, s)
    BY <1>9
  <2>2. crossed' \in BOOLEAN /\ abandoned' \in BOOLEAN /\ mixed' \in BOOLEAN
    BY <2>1, Zenon DEF StartLoad
  <2>3. loads' \in 0..MaxLoads
    BY <2>1, RoutesAssumption DEF StartLoad
  <2> QED
    BY <2>1, <2>2, <2>3, TypeKept DEF StartLoad, Places
<1>10. CASE Register(r)
  <2>1. PICK place \in Places : Stands(r, place, req[r])
    BY <1>10 DEF Register, Goes, AfterRegister, Places
  <2> QED
    BY <1>10, <2>1, TypeKept DEF Register
<1>11. CASE Replace(r)
  <2>1. req[r].registering \in Optional
    BY DEF Locals
  <2> QED
    BY <1>11, <2>1, TypeKept DEF Replace, Goes, Places
<1>12. CASE ReleaseOld(r)
  <2>1. opened' \in BOOLEAN
    BY <1>12, Zenon DEF ReleaseOld
  <2>2. resident' \in Optional
    BY <1>12 DEF ReleaseOld, Optional
  <2>3. PICK place \in {"clear", "unlist"} : Stands(r, place, req[r])
    BY <1>12 DEF ReleaseOld, Goes
  <2>4. UNCHANGED <<registered, gateHolder, refusesLanguage, history>> /\ place \in Places
    BY <1>12 DEF ReleaseOld, Places
  <2> QED
    BY <2>1, <2>2, <2>3, <2>4, TypeKept
<1>13. CASE CancelReleaseOld(r)
  <2>1. abandoned' \in BOOLEAN /\ mixed' \in BOOLEAN
    BY <1>13, Zenon DEF CancelReleaseOld, Mixes
  <2> QED
    BY <1>13, <2>1, TypeKept DEF CancelReleaseOld, Goes, Places
<1>14. CASE ClearRefusal(r)
  <2>1. refusesLanguage' \in BOOLEAN
    BY <1>14, Zenon DEF ClearRefusal
  <2> QED
    BY <1>14, <2>1, TypeKept DEF ClearRefusal, Goes, AfterRegister, Places
<1>15. CASE Forget(r)
  BY <1>15, TypeKept DEF Forget, Goes, Places
<1>16. CASE RemoveSpec(r)
  <2>1. registered' \in Optional
    BY <1>16 DEF RemoveSpec, Optional
  <2> QED
    BY <1>16, <2>1, TypeKept DEF RemoveSpec, Goes, Places
<1>17. CASE DropEntry(r)
  <2>1. opened' \in BOOLEAN
    BY <1>17, Zenon DEF DropEntry
  <2>2. resident' \in Optional
    BY <1>17 DEF DropEntry, Optional
  <2> QED
    BY <1>17, <2>1, <2>2, TypeKept DEF DropEntry, Goes, Places
<1> QED
  BY <1>1, <1>2, <1>3, <1>4, <1>5, <1>6, <1>7, <1>8, <1>9, <1>10, <1>11, <1>12, <1>13, <1>14, <1>15,
     <1>16, <1>17 DEF RequestMoves

(* Where a run, a load and a rollback may stand.                           *)
MayStand(kind, place) ==
  /\ kind = "run" => place \in {"idle", "capture", "queue", "use", "work", "refused"}
  /\ kind = "load" =>
       place \in {"register", "add", "swap", "release", "clear", "capture", "queue", "use", "work"}
  /\ kind = "rollback" =>
       place \in {"register", "add", "swap", "release", "clear", "forget", "forgetRelease",
                  "unlist", "drop"}

(* A request that stands where it may leaves all where they may.           *)
LEMMA ControlKept ==
  ASSUME RoutesTypeOK, \A q \in Routes : ControlInv(q),
         NEW r \in Routes, NEW place \in Places, NEW locals \in Locals,
         Stands(r, place, locals),
         place = "idle" \/ MayStand(locals.route, place),
         place \in {"use", "work"} <=> gateHolder' = r,
         gateHolder' = gateHolder \/ {gateHolder, gateHolder'} \subseteq {NoSpec, r}
  PROVE  \A q \in Routes : ControlInv(q)'
<1> SUFFICES ASSUME NEW q \in Routes
             PROVE  ControlInv(q)'
  OBVIOUS
<1>1. CASE q # r
  BY <1>1, StandsFacts, RoutesAssumption DEF ControlInv
<1>2. CASE q = r /\ place = "idle"
  <2>1. routeAt'[r] = "idle" /\ req'[r] = NoRequest /\ NoRequest.route = "run"
    BY <1>2, StandsFacts DEF NoRequest, Request
  <2> QED
    BY <1>2, <2>1 DEF ControlInv
<1>3. CASE q = r /\ place # "idle"
  <2>1. routeAt'[r] = place /\ req'[r] = locals
    BY <1>3, StandsFacts
  <2> QED
    BY <1>3, <2>1 DEF ControlInv, MayStand
<1> QED
  BY <1>1, <1>2, <1>3

(* A step leaves every request where its kind may stand, and the gate with *)
(* the one that is behind it.                                              *)
LEMMA ControlStep ==
  ASSUME RoutesTypeOK, \A q \in Routes : ControlInv(q), NEW r \in Routes, RequestMoves(r)
  PROVE  \A q \in Routes : ControlInv(q)'
<1> USE FieldsTyped, LocalsFacts DEF entryModel, pooled, loadHistory, history
<1>0. /\ req[r].route \in {"run", "load", "rollback"}
      /\ ControlInv(r)
      /\ \A b \in BOOLEAN : Request("run", b, NoSpec, NoSpec).route = "run"
      /\ \A new, old : Request("load", FALSE, new, old).route = "load"
      /\ \A new, old : Request("rollback", FALSE, new, old).route = "rollback"
      /\ \A d : [req[r] EXCEPT !.captured = d].route = req[r].route
      /\ [req[r] EXCEPT !.withOption = FALSE].route = req[r].route
  BY DEF Locals, Request
<1>1. CASE StartRun(r)
  <2>1. PICK language \in BOOLEAN :
          Stands(r, "capture", Request("run", language /\ ~refusesLanguage, NoSpec, NoSpec))
    BY <1>1 DEF StartRun
  <2>2. (language /\ ~refusesLanguage) \in BOOLEAN
    BY Zenon
  <2>3. Request("run", language /\ ~refusesLanguage, NoSpec, NoSpec) \in Locals
    BY <2>2
  <2> QED
    BY <1>0, <1>1, <2>1, <2>2, <2>3, ControlKept DEF StartRun, Places, MayStand, ControlInv
<1>2. CASE Capture(r)
  BY <1>0, <1>2, ControlKept DEF Capture, Places, MayStand, ControlInv
<1>3. CASE EnterGate(r)
  BY <1>0, <1>3, ControlKept DEF EnterGate, Goes, Places, MayStand, ControlInv
<1>4. CASE BreakOff(r)
  BY <1>0, <1>4, RoutesAssumption, ControlKept DEF BreakOff, Goes, Places, MayStand, ControlInv
<1>5. CASE UseResident(r)
  BY <1>0, <1>5, ControlKept DEF UseResident, Goes, Places, MayStand, ControlInv
<1>6. CASE OpenFails(r)
  <2>1. gateHolder = r /\ gateHolder' = NoSpec /\ NoSpec # r
    BY <1>0, <1>6, RoutesAssumption DEF OpenFails, OpenBreaks, ControlInv
  <2> QED
    BY <1>0, <1>6, <2>1, ControlKept DEF OpenFails, OpenBreaks, Places, MayStand
<1>7. CASE Work(r)
  <2>1. gateHolder = r /\ gateHolder' = NoSpec /\ NoSpec # r
    BY <1>0, <1>7, RoutesAssumption DEF Work, ControlInv
  <2> QED
    BY <1>0, <1>7, <2>1, ControlKept DEF Work, Goes, Places, MayStand
<1>8. CASE NoteRefusal(r)
  BY <1>0, <1>8, ControlKept DEF NoteRefusal, Places, MayStand, ControlInv
<1>9. CASE \E s \in Descriptions : StartLoad(r, s)
  BY <1>0, <1>9, ControlKept DEF StartLoad, Places, MayStand, ControlInv
<1>10. CASE Register(r)
  BY <1>0, <1>10, ControlKept
     DEF Register, Goes, AfterRegister, Places, MayStand, ControlInv
<1>11. CASE Replace(r)
  BY <1>0, <1>11, ControlKept DEF Replace, Goes, Places, MayStand, ControlInv
<1>12. CASE ReleaseOld(r)
  BY <1>0, <1>12, ControlKept DEF ReleaseOld, Goes, Places, MayStand, ControlInv
<1>13. CASE CancelReleaseOld(r)
  BY <1>0, <1>13, ControlKept DEF CancelReleaseOld, Goes, Places, MayStand, ControlInv
<1>14. CASE ClearRefusal(r)
  BY <1>0, <1>14, ControlKept
     DEF ClearRefusal, Goes, AfterRegister, Places, MayStand, ControlInv
<1>15. CASE Forget(r)
  BY <1>0, <1>15, ControlKept DEF Forget, Goes, Places, MayStand, ControlInv
<1>16. CASE RemoveSpec(r)
  BY <1>0, <1>16, ControlKept DEF RemoveSpec, Goes, Places, MayStand, ControlInv
<1>17. CASE DropEntry(r)
  BY <1>0, <1>17, ControlKept DEF DropEntry, Goes, Places, MayStand, ControlInv
<1> QED
  BY <1>1, <1>2, <1>3, <1>4, <1>5, <1>6, <1>7, <1>8, <1>9, <1>10, <1>11, <1>12, <1>13, <1>14, <1>15,
     <1>16, <1>17 DEF RequestMoves

(* What the fields of a request are after what a step makes of it.         *)
LEMMA RequestFields ==
  ASSUME RoutesTypeOK, NEW r \in Routes
  PROVE  /\ req[r].route \in {"run", "load", "rollback"}
         /\ \A b : Request("run", b, NoSpec, NoSpec).route = "run"
         /\ \A new, old : /\ Request("load", FALSE, new, old).route = "load"
                          /\ Request("load", FALSE, new, old).registering = new
                          /\ Request("load", FALSE, new, old).previous = old
         /\ \A new, old : /\ Request("rollback", FALSE, new, old).route = "rollback"
                          /\ Request("rollback", FALSE, new, old).registering = new
         /\ \A d : /\ [req[r] EXCEPT !.captured = d].route = req[r].route
                   /\ [req[r] EXCEPT !.captured = d].captured = d
                   /\ [req[r] EXCEPT !.captured = d].registering = req[r].registering
                   /\ [req[r] EXCEPT !.captured = d].previous = req[r].previous
         /\ [req[r] EXCEPT !.withOption = FALSE].route = req[r].route
BY LocalsFacts DEF Locals, Request

-----------------------------------------------------------------------------
(* A load and its rollback, whatever runs at the time.                     *)

(* What StandsOrFallsInv says of loads that do not overlap.                *)
Undisputed ==
  /\ \A r, q \in Loading : r = q
  /\ \A r \in Loading : /\ req[r].route = "load" => LoadInv(r)
                        /\ req[r].route = "rollback" => RollbackInv(r)
  /\ Loading = {} => registered = worked

(* A run goes on beside a load, if there is one.                           *)
LEMMA RunKeepsLoads ==
  ASSUME RoutesTypeOK, NEW r \in Routes, NEW place \in Places, NEW locals \in Locals,
         Stands(r, place, locals),
         routeAt[r] = "idle" \/ req[r].route = "run", place = "idle" \/ locals.route = "run",
         UNCHANGED <<registered, worked>>, Undisputed
  PROVE  Undisputed'
<1>1. Loading' = Loading /\ r \notin Loading
  BY StandsFacts DEF Loading
<1>2. \A q \in Loading : routeAt'[q] = routeAt[q] /\ req'[q] = req[q]
  BY <1>1, StandsFacts DEF Loading
<1> QED
  BY <1>1, <1>2 DEF Undisputed, LoadInv, RollbackInv

(* The only load goes on.                                                  *)
LEMMA LoadKeepsOn ==
  ASSUME RoutesTypeOK, NEW r \in Routes, Loading \subseteq {r},
         NEW place \in Places, NEW locals \in Locals,
         Stands(r, place, locals), place # "idle", locals.route # "run",
         locals.route = "load" => LoadInv(r)',
         locals.route = "rollback" => RollbackInv(r)'
  PROVE  Undisputed'
<1>1. Loading' = {r} /\ req'[r] = locals
  BY StandsFacts DEF Loading
<1> QED
  BY <1>1 DEF Undisputed

(* The only load ends.                                                     *)
LEMMA LoadIsOver ==
  ASSUME RoutesTypeOK, NEW r \in Routes, Loading \subseteq {r}, NEW locals \in Locals,
         Stands(r, "idle", locals), registered' = worked'
  PROVE  Undisputed'
<1> USE DEF Places
<1>1. Loading' = {}
  BY StandsFacts DEF Loading
<1> QED
  BY <1>1 DEF Undisputed

(* A step of a run.                                                        *)
LEMMA RunBesideLoad ==
  ASSUME RoutesTypeOK, \A q \in Routes : ControlInv(q), Undisputed, NEW r \in Routes,
         RequestMoves(r), routeAt[r] = "idle" \/ req[r].route = "run",
         ~\E s \in Descriptions : StartLoad(r, s)
  PROVE  Undisputed'
<1> USE DEF entryModel, pooled, loadHistory, history
<1>0. ControlInv(r)
  OBVIOUS
<1>1. CASE StartRun(r)
  <2>1. PICK language \in BOOLEAN :
          Stands(r, "capture", Request("run", language /\ ~refusesLanguage, NoSpec, NoSpec))
    BY <1>1 DEF StartRun
  <2>2. (language /\ ~refusesLanguage) \in BOOLEAN
    BY Zenon
  <2>3. Request("run", language /\ ~refusesLanguage, NoSpec, NoSpec) \in Locals
    BY <2>2, LocalsFacts
  <2>4. Request("run", language /\ ~refusesLanguage, NoSpec, NoSpec).route = "run"
    BY RequestFields
  <2>5. UNCHANGED <<registered, worked>> /\ "capture" \in Places
    BY <1>1 DEF StartRun, Places
  <2> QED
    BY <2>1, <2>3, <2>4, <2>5, RunKeepsLoads
<1>2. CASE Capture(r)
  <2> DEFINE locals == [req[r] EXCEPT !.captured = registered]
  <2>1. PICK place \in {"idle", "queue"} : Stands(r, place, locals)
    BY <1>2 DEF Capture
  <2>2. locals \in Locals /\ locals.route = req[r].route /\ place \in Places
    BY FieldsTyped, LocalsFacts DEF Locals, Places
  <2>3. UNCHANGED <<registered, worked>> /\ routeAt[r] # "idle"
    BY <1>2 DEF Capture
  <2> HIDE DEF locals
  <2> QED
    BY <2>1, <2>2, <2>3, RunKeepsLoads
<1>3. CASE EnterGate(r) \/ BreakOff(r) \/ UseResident(r)
  <2>1. PICK place \in {"use", "idle", "work"} : Stands(r, place, req[r])
    BY <1>3 DEF EnterGate, BreakOff, UseResident, Goes
  <2>2. UNCHANGED <<registered, worked>> /\ routeAt[r] # "idle" /\ place \in Places
    BY <1>3 DEF EnterGate, BreakOff, UseResident, Places
  <2> QED
    BY <2>1, <2>2, LocalsFacts, RunKeepsLoads
<1>4. CASE OpenFails(r)
  <2> DEFINE back == Request("rollback", FALSE, req[r].previous, NoSpec)
  <2>1. Stands(r, "idle", back)
    BY <1>4 DEF OpenFails, OpenBreaks
  <2>2. UNCHANGED <<registered, worked>> /\ back \in Locals /\ "idle" \in Places
    BY <1>4, LocalsFacts DEF OpenFails, OpenBreaks, Places
  <2> HIDE DEF back
  <2> QED
    BY <2>1, <2>2, RunKeepsLoads
<1>5. CASE Work(r)
  <2>1. PICK place \in {"refused", "idle"} : Stands(r, place, req[r])
    BY <1>5 DEF Work, Goes
  <2>2. UNCHANGED <<registered, worked>> /\ place \in Places /\ routeAt[r] # "idle"
    BY <1>5 DEF Work, Places
  <2> QED
    BY <2>1, <2>2, LocalsFacts, RunKeepsLoads
<1>6. CASE NoteRefusal(r)
  <2> DEFINE locals == [req[r] EXCEPT !.withOption = FALSE]
  <2>1. Stands(r, "capture", locals) /\ UNCHANGED <<registered, worked>> /\ routeAt[r] # "idle"
    BY <1>6 DEF NoteRefusal
  <2>2. locals \in Locals /\ locals.route = req[r].route /\ "capture" \in Places
    BY LocalsFacts, RequestFields DEF Places
  <2> HIDE DEF locals
  <2> QED
    BY <2>1, <2>2, RunKeepsLoads
<1>7. CASE \/ Register(r) \/ Replace(r) \/ ReleaseOld(r) \/ CancelReleaseOld(r) \/ ClearRefusal(r)
           \/ Forget(r) \/ RemoveSpec(r) \/ DropEntry(r)
  BY <1>0, <1>7 DEF ControlInv, Register, Replace, ReleaseOld, CancelReleaseOld, ClearRefusal,
                    Forget, RemoveSpec, DropEntry
<1> QED
  BY <1>1, <1>2, <1>3, <1>4, <1>5, <1>6, <1>7 DEF RequestMoves

(* Where a load and a rollback go: on, or to their end.                    *)
LEMMA LoadPlaces ==
  ASSUME RoutesTypeOK, NEW r \in Routes, NEW place \in Places, Stands(r, place, req[r]),
         place # "idle"
  PROVE  routeAt'[r] = place /\ req'[r] = req[r]
BY LocalsFacts, StandsFacts

(* A step of the only load, which nobody gives up.                         *)
LEMMA LoadMoves ==
  ASSUME RoutesTypeOK, NEW r \in Routes, ControlInv(r), Loading \subseteq {r}, LoadInv(r),
         RequestMoves(r), routeAt[r] # "idle", req[r].route = "load", ~abandoned'
  PROVE  Undisputed'
<1> USE DEF entryModel, pooled, loadHistory, history
<1>a. req[r] \in Locals
  BY LocalsFacts
<1>1. CASE StartRun(r) \/ NoteRefusal(r) \/ \E s \in Descriptions : StartLoad(r, s)
  BY <1>1 DEF StartRun, NoteRefusal, StartLoad, ControlInv
<1>2. CASE Capture(r)
  <2> DEFINE locals == [req[r] EXCEPT !.captured = registered]
  <2>1. registered = req[r].registering /\ registered # NoSpec
    BY <1>2, RoutesAssumption DEF Capture, LoadInv
  <2>2. Stands(r, "queue", locals) /\ UNCHANGED <<registered, worked>>
    BY <1>2, <2>1 DEF Capture
  <2>3. /\ locals \in Locals /\ locals.route = "load"
        /\ locals.registering = req[r].registering /\ locals.previous = req[r].previous
    BY <1>a, FieldsTyped DEF Locals
  <2> HIDE DEF locals
  <2>4. "queue" \in Places /\ routeAt'[r] = "queue" /\ req'[r] = locals
    BY <2>2, <2>3, StandsFacts DEF Places
  <2>5. LoadInv(r)'
    BY <2>1, <2>2, <2>3, <2>4 DEF LoadInv
  <2> QED
    BY <2>2, <2>3, <2>4, <2>5, LoadKeepsOn
<1>3. CASE EnterGate(r) \/ UseResident(r)
  <2>1. PICK place \in {"use", "work"} : Stands(r, place, req[r])
    BY <1>3 DEF EnterGate, UseResident, Goes
  <2>2. UNCHANGED <<registered, worked>> /\ place \in Places /\ routeAt[r] \in {"queue", "use"}
    BY <1>3 DEF EnterGate, UseResident, Places
  <2>3. LoadInv(r)'
    BY <2>1, <2>2, LoadPlaces DEF LoadInv
  <2> QED
    BY <1>a, <2>1, <2>2, <2>3, LoadKeepsOn
<1>4. CASE BreakOff(r) \/ CancelReleaseOld(r)
  BY <1>4 DEF BreakOff, CancelReleaseOld
<1>5. CASE OpenFails(r)
  <2> DEFINE place == IF req[r].previous # NoSpec THEN "register" ELSE "forget"
  <2> DEFINE back == Request("rollback", FALSE, req[r].previous, NoSpec)
  <2>1. back \in Locals /\ back.route = "rollback" /\ back.registering = req[r].previous
    BY LocalsFacts DEF Request
  <2>2. Stands(r, place, back) /\ place \in Places /\ place # "idle"
    BY <1>5 DEF OpenFails, Places
  <2>3. /\ UNCHANGED <<registered, worked>> /\ registered = req[r].registering
        /\ req[r].previous = worked /\ registered # NoSpec
    BY <1>5, RoutesAssumption DEF OpenFails, OpenBreaks, LoadInv
  <2>4. place = IF worked # NoSpec THEN "register" ELSE "forget"
    BY <2>3
  <2> HIDE DEF place, back
  <2>5. routeAt'[r] = place /\ req'[r] = back
    BY <2>1, <2>2, StandsFacts
  <2>6. RollbackInv(r)'
    BY <2>1, <2>3, <2>4, <2>5 DEF RollbackInv
  <2> QED
    BY <2>1, <2>2, <2>6, LoadKeepsOn
<1>6. CASE Work(r)
  <2>1. Stands(r, "idle", req[r]) /\ registered' = worked'
    BY <1>6 DEF Work, Goes, LoadInv
  <2> QED
    BY <1>a, <2>1, LoadIsOver
<1>7. CASE Register(r)
  <2> DEFINE place == CASE registered = req[r].registering -> "capture"
                        [] registered = NoSpec -> "add"
                        [] OTHER -> "swap"
  <2>1. place \in Places /\ place # "idle" /\ Stands(r, place, req[r])
    BY <1>7 DEF Register, Goes, AfterRegister, Places
  <2>2. /\ place \notin {"capture", "add", "swap"} => FALSE
        /\ place = "capture" => registered = req[r].registering
    OBVIOUS
  <2>3. UNCHANGED <<registered, worked>> /\ routeAt[r] = "register"
    BY <1>7 DEF Register
  <2> HIDE DEF place
  <2>4. LoadInv(r)'
    BY <2>1, <2>2, <2>3, LoadPlaces DEF LoadInv
  <2> QED
    BY <1>a, <2>1, <2>4, LoadKeepsOn
<1>8. CASE Replace(r) \/ ReleaseOld(r) \/ ClearRefusal(r)
  <2>1. PICK place \in {"release", "clear", "capture"} : Stands(r, place, req[r])
    BY <1>8 DEF Replace, ReleaseOld, ClearRefusal, Goes, AfterRegister, ControlInv
  <2>2. worked' = worked /\ registered' = req[r].registering /\ place \in Places
    BY <1>8 DEF LoadInv, Replace, ReleaseOld, ClearRefusal, ControlInv, Places
  <2>3. LoadInv(r)'
    BY <2>1, <2>2, LoadPlaces DEF LoadInv
  <2> QED
    BY <1>a, <2>1, <2>2, <2>3, LoadKeepsOn
<1>9. CASE Forget(r) \/ RemoveSpec(r) \/ DropEntry(r)
  BY <1>9 DEF ControlInv, Forget, RemoveSpec, DropEntry
<1> QED
  BY <1>1, <1>2, <1>3, <1>4, <1>5, <1>6, <1>7, <1>8, <1>9 DEF RequestMoves

(* A step of the only rollback.                                            *)
LEMMA RollbackMoves ==
  ASSUME RoutesTypeOK, NEW r \in Routes, ControlInv(r), Loading \subseteq {r}, RollbackInv(r),
         RequestMoves(r), routeAt[r] # "idle", req[r].route = "rollback"
  PROVE  Undisputed'
<1> USE DEF entryModel, pooled, loadHistory, history
<1>a. req[r] \in Locals
  BY LocalsFacts
<1>b. ASSUME NEW place \in Places, place # "idle", Stands(r, place, req[r]), RollbackInv(r)'
      PROVE  Undisputed'
  BY <1>a, <1>b, LoadKeepsOn
<1>c. ASSUME Stands(r, "idle", req[r]), registered' = worked'
      PROVE  Undisputed'
  BY <1>a, <1>c, LoadIsOver
<1>1. CASE \/ StartRun(r) \/ Capture(r) \/ EnterGate(r) \/ BreakOff(r) \/ UseResident(r)
           \/ OpenFails(r) \/ Work(r) \/ NoteRefusal(r) \/ CancelReleaseOld(r)
           \/ \E s \in Descriptions : StartLoad(r, s)
  BY <1>1 DEF StartRun, Capture, EnterGate, BreakOff, UseResident, OpenFails, OpenBreaks, Work,
              NoteRefusal, CancelReleaseOld, StartLoad, ControlInv
<1>2. CASE Register(r)
  <2>1. UNCHANGED <<registered, worked>> /\ registered # NoSpec
    BY <1>2 DEF Register, RollbackInv
  <2>2. CASE registered = req[r].registering
    <3>1. AfterRegister(r) = "idle"
      BY DEF AfterRegister
    <3>2. Stands(r, "idle", req[r])
      BY <1>2, <2>1, <2>2, <3>1 DEF Register, Goes
    <3> QED
      BY <1>c, <2>1, <2>2, <3>2 DEF RollbackInv
  <2>3. CASE registered # req[r].registering
    <3>1. Stands(r, "swap", req[r]) /\ "swap" \in Places /\ worked # NoSpec
      BY <1>2, <2>1, <2>3 DEF Register, Goes, RollbackInv, Places
    <3>2. RollbackInv(r)'
      BY <2>1, <3>1, LoadPlaces DEF RollbackInv
    <3> QED
      BY <1>b, <3>1, <3>2
  <2> QED
    BY <2>2, <2>3
<1>3. CASE Replace(r)
  <2>1. PICK place \in {"release", "clear"} : Stands(r, place, req[r])
    BY <1>3 DEF Replace, Goes
  <2>2. registered' = worked' /\ worked' = worked /\ place \in Places
    BY <1>3 DEF Replace, RollbackInv, Places
  <2>3. RollbackInv(r)'
    BY <2>1, <2>2, LoadPlaces DEF RollbackInv
  <2> QED
    BY <1>b, <2>1, <2>2, <2>3
<1>4. CASE ReleaseOld(r)
  <2>1. PICK place \in {"clear", "unlist"} :
          /\ Stands(r, place, req[r])
          /\ routeAt[r] = IF place = "clear" THEN "release" ELSE "forgetRelease"
    BY <1>4 DEF ReleaseOld, Goes
  <2>2. UNCHANGED <<registered, worked>> /\ place \in Places
    BY <1>4 DEF ReleaseOld, Places
  <2>3. RollbackInv(r)'
    BY <2>1, <2>2, LoadPlaces DEF RollbackInv
  <2> QED
    BY <1>b, <2>1, <2>2, <2>3
<1>5. CASE RemoveSpec(r)
  <2>1. Stands(r, "drop", req[r]) /\ "drop" \in Places
    BY <1>5 DEF RemoveSpec, Goes, Places
  <2>2. registered' = worked' /\ worked' = worked
    BY <1>5 DEF RemoveSpec, RollbackInv
  <2>3. RollbackInv(r)'
    BY <2>1, <2>2, LoadPlaces DEF RollbackInv
  <2> QED
    BY <1>b, <2>1, <2>3
<1>6. CASE DropEntry(r)
  <2>1. Stands(r, "clear", req[r]) /\ "clear" \in Places
    BY <1>6 DEF DropEntry, Goes, Places
  <2>2. registered' = worked' /\ worked' = worked
    BY <1>6 DEF DropEntry, RollbackInv
  <2>3. RollbackInv(r)'
    BY <2>1, <2>2, LoadPlaces DEF RollbackInv
  <2> QED
    BY <1>b, <2>1, <2>3
<1>7. CASE ClearRefusal(r)
  <2>1. Stands(r, "idle", req[r]) /\ registered' = worked'
    BY <1>7 DEF ClearRefusal, Goes, AfterRegister, RollbackInv
  <2> QED
    BY <1>c, <2>1
<1>8. CASE Forget(r)
  <2>1. UNCHANGED <<registered, worked>> /\ worked = NoSpec /\ routeAt[r] = "forget"
    BY <1>8 DEF Forget, RollbackInv
  <2>2. CASE registered = NoSpec
    <3>1. Stands(r, "idle", req[r])
      BY <1>8, <2>2 DEF Forget, Goes
    <3> QED
      BY <1>c, <2>1, <2>2, <3>1
  <2>3. CASE registered # NoSpec
    <3>1. Stands(r, "forgetRelease", req[r]) /\ "forgetRelease" \in Places
      BY <1>8, <2>3 DEF Forget, Goes, Places
    <3>2. RollbackInv(r)'
      BY <2>1, <3>1, LoadPlaces DEF RollbackInv
    <3> QED
      BY <1>b, <3>1, <3>2
  <2> QED
    BY <2>2, <2>3
<1> QED
  BY <1>1, <1>2, <1>3, <1>4, <1>5, <1>6, <1>7, <1>8 DEF RequestMoves

(* A load that begins alone starts the history over.                       *)
LEMMA LoadBegins ==
  ASSUME RoutesTypeOK, NEW r \in Routes, NEW s \in Descriptions, StartLoad(r, s), Loading = {}
  PROVE  Undisputed'
<1> USE DEF pooled
<1> DEFINE load == Request("load", FALSE, s, registered)
<1>1. load \in Locals /\ load.route = "load" /\ load.registering = s /\ load.previous = registered
  BY LocalsFacts DEF Request
<1>2. Stands(r, "register", load) /\ "register" \in Places /\ UNCHANGED registered
  BY DEF StartLoad, Places
<1>3. worked' = registered
  BY DEF StartLoad
<1> HIDE DEF load
<1>4. routeAt'[r] = "register" /\ req'[r] = load
  BY <1>1, <1>2, StandsFacts
<1>5. LoadInv(r)'
  BY <1>1, <1>2, <1>3, <1>4 DEF LoadInv
<1> QED
  BY <1>1, <1>2, <1>5, LoadKeepsOn

(* A step of the routes, as far as the registration goes.                  *)
LEMMA StandsOrFallsStep ==
  ASSUME RoutesTypeOK, \A q \in Routes : ControlInv(q), StandsOrFallsInv, NEW r \in Routes,
         RequestMoves(r)
  PROVE  StandsOrFallsInv'
<1> SUFFICES ASSUME ~crossed', ~abandoned'
             PROVE  Undisputed'
  BY DEF StandsOrFallsInv, Undisputed
<1>1. CASE \E s \in Descriptions : StartLoad(r, s)
  <2>1. Loading = {}
    BY <1>1 DEF StartLoad
  <2> QED
    BY <1>1, <2>1, LoadBegins
<1>2. CASE ~\E s \in Descriptions : StartLoad(r, s)
  <2>1. ~crossed /\ ~abandoned
    <3> USE DEF history, loadHistory, Mixes
    <3>1. CASE StartRun(r)
      BY <3>1 DEF StartRun
    <3>4. CASE Capture(r) \/ EnterGate(r) \/ UseResident(r)
      BY <3>4 DEF Capture, EnterGate, UseResident
    <3>6. CASE BreakOff(r)
      BY <3>6, Zenon DEF BreakOff
    <3>5. CASE OpenFails(r)
      BY <3>5 DEF OpenFails, OpenBreaks
    <3>2. CASE Work(r) \/ NoteRefusal(r) \/ Register(r) \/ Replace(r) \/ ReleaseOld(r)
      BY <3>2 DEF Work, NoteRefusal, Register, Replace, ReleaseOld
    <3>3. CASE CancelReleaseOld(r) \/ ClearRefusal(r) \/ Forget(r) \/ RemoveSpec(r) \/ DropEntry(r)
      BY <3>3 DEF CancelReleaseOld, ClearRefusal, Forget, RemoveSpec, DropEntry
    <3> QED
      BY <1>2, <3>1, <3>2, <3>3, <3>4, <3>5, <3>6 DEF RequestMoves
  <2>2. Undisputed
    BY <2>1 DEF StandsOrFallsInv, Undisputed
  <2>3. CASE routeAt[r] = "idle" \/ req[r].route = "run"
    BY <1>2, <2>2, <2>3, RunBesideLoad
  <2>4. CASE routeAt[r] # "idle" /\ req[r].route # "run"
    <3>1. r \in Loading /\ req[r].route \in {"load", "rollback"}
      BY <2>4, RequestFields DEF Loading
    <3>2. Loading \subseteq {r} /\ ControlInv(r)
      BY <2>2, <3>1 DEF Undisputed
    <3>3. /\ req[r].route = "load" => LoadInv(r)
          /\ req[r].route = "rollback" => RollbackInv(r)
      <4>1. \A q \in Loading : /\ req[q].route = "load" => LoadInv(q)
                               /\ req[q].route = "rollback" => RollbackInv(q)
        BY <2>2 DEF Undisputed
      <4> QED
        BY <3>1, <4>1
    <3> QED
      BY <2>4, <3>1, <3>2, <3>3, LoadMoves, RollbackMoves
  <2> QED
    BY <2>3, <2>4
<1> QED
  BY <1>1, <1>2


-----------------------------------------------------------------------------
(* What is remembered of the option, while nothing is mixed.               *)

(* What FitsInv says then.                                                 *)
Fitting ==
  /\ \A r \in Loading :
       /\ Others(r) = {}
       /\ req[r].route = "load" => LoadFits(r)
       /\ req[r].route = "rollback" => RollbackFits(r)
  /\ Loading = {} =>
       /\ refusesLanguage => registered \in Strict
       /\ \A r \in Routes : RunFits(r)

(* A run goes on among runs.                                               *)
LEMMA RunGoesOn ==
  ASSUME RoutesTypeOK, NEW r \in Routes, NEW place \in Places, NEW locals \in Locals,
         Stands(r, place, locals), place = "idle" \/ locals.route = "run",
         Loading = {}, \A q \in Routes : RunFits(q), registered' = registered,
         refusesLanguage' => registered \in Strict, RunFits(r)',
         resident' = resident \/ \A q \in Routes \ {r} : routeAt[q] # "work"
  PROVE  Fitting'
<1>1. Loading' = {}
  BY StandsFacts DEF Loading
<1>2. \A q \in Routes : RunFits(q)'
  BY StandsFacts DEF RunFits
<1> QED
  BY <1>1, <1>2 DEF Fitting

(* A load that is alone goes on.                                           *)
LEMMA LoadGoesOn ==
  ASSUME RoutesTypeOK, NEW r \in Routes, NEW place \in Places, NEW locals \in Locals,
         Stands(r, place, locals), Others(r) = {}, place # "idle",
         \/ locals.route = "load" /\ LoadFits(r)'
         \/ locals.route = "rollback" /\ RollbackFits(r)'
  PROVE  Fitting'
<1>1. routeAt'[r] = place /\ req'[r] = locals
  BY StandsFacts
<1>2. \A q \in Routes : q # r => routeAt[q] = "idle" /\ routeAt'[q] = "idle"
  BY StandsFacts DEF Others
<1>3. Loading' = {r} /\ Others(r)' = {}
  BY <1>1, <1>2 DEF Loading, Others
<1> QED
  BY <1>1, <1>3 DEF Fitting

(* It ends.                                                                *)
LEMMA LoadEnds ==
  ASSUME RoutesTypeOK, NEW r \in Routes, NEW locals \in Locals, Stands(r, "idle", locals),
         Others(r) = {}, refusesLanguage' => registered' \in Strict
  PROVE  Fitting'
<1>1. \A q \in Routes : routeAt'[q] = "idle"
  BY StandsFacts DEF Others, Places
<1>2. Loading' = {} /\ \A q \in Routes : RunFits(q)'
  BY <1>1 DEF Loading, RunFits
<1> QED
  BY <1>2 DEF Fitting

(* A step of a run while no load is there.                                 *)
LEMMA RunStaysFit ==
  ASSUME RoutesTypeOK, \A q \in Routes : ControlInv(q), NEW r \in Routes, RequestMoves(r),
         routeAt[r] = "idle" \/ req[r].route = "run", ~\E s \in Descriptions : StartLoad(r, s),
         Loading = {}, \A q \in Routes : RunFits(q),
         refusesLanguage => registered \in Strict, ~mixed'
  PROVE  Fitting'
<1> USE DEF entryModel, pooled, loadHistory, history
<1>a. req[r] \in Locals /\ ControlInv(r) /\ RunFits(r)
  BY LocalsFacts
<1>b. routeAt[r] \in {"use", "work"} => \A q \in Routes \ {r} : routeAt[q] # "work"
  BY DEF ControlInv
<1>c. ASSUME NEW place \in Places, NEW locals \in Locals, Stands(r, place, locals),
             place = "idle" \/ locals.route = "run", registered' = registered,
             refusesLanguage' => registered \in Strict, RunFits(r)',
             resident' = resident \/ routeAt[r] = "use"
      PROVE  Fitting'
  BY <1>b, <1>c, RunGoesOn
<1>1. CASE StartRun(r)
  <2>1. PICK language \in BOOLEAN :
          Stands(r, "capture", Request("run", language /\ ~refusesLanguage, NoSpec, NoSpec))
    BY <1>1 DEF StartRun
  <2>2. (language /\ ~refusesLanguage) \in BOOLEAN
    BY Zenon
  <2>3. Request("run", language /\ ~refusesLanguage, NoSpec, NoSpec) \in Locals
    BY <2>2, LocalsFacts
  <2>4. Request("run", language /\ ~refusesLanguage, NoSpec, NoSpec).route = "run"
    BY RequestFields
  <2>5. UNCHANGED <<registered, resident, refusesLanguage>> /\ "capture" \in Places
    BY <1>1 DEF StartRun, Places
  <2>6. RunFits(r)'
    BY <2>1, <2>3, <2>5, StandsFacts DEF RunFits
  <2> QED
    BY <1>c, <2>1, <2>3, <2>4, <2>5, <2>6
<1>2. CASE Capture(r)
  <2> DEFINE locals == [req[r] EXCEPT !.captured = registered]
  <2>1. PICK place \in {"idle", "queue"} : Stands(r, place, locals)
    BY <1>2 DEF Capture
  <2>2. /\ locals \in Locals /\ locals.route = req[r].route /\ locals.captured = registered
        /\ place \in Places
    BY <1>a, FieldsTyped DEF Locals, Places
  <2>3. UNCHANGED <<registered, resident, refusesLanguage>> /\ routeAt[r] # "idle"
    BY <1>2 DEF Capture
  <2> HIDE DEF locals
  <2>4. RunFits(r)'
    BY <2>1, <2>2, <2>3, StandsFacts DEF RunFits
  <2> QED
    BY <1>c, <2>1, <2>2, <2>3, <2>4
<1>3. CASE EnterGate(r) \/ BreakOff(r)
  <2>1. PICK place \in {"use", "idle"} :
          Stands(r, place, req[r]) /\ (place = "use" => routeAt[r] = "queue")
    BY <1>3 DEF EnterGate, BreakOff, Goes
  <2>2. /\ UNCHANGED <<registered, resident, refusesLanguage>>
        /\ routeAt[r] # "idle" /\ place \in Places
    BY <1>3 DEF EnterGate, BreakOff, Places
  <2>3. RunFits(r)'
    BY <1>a, <2>1, <2>2, StandsFacts DEF RunFits
  <2> QED
    BY <1>a, <1>c, <2>1, <2>2, <2>3
<1>4. CASE UseResident(r)
  <2>1. Stands(r, "work", req[r]) /\ "work" \in Places /\ routeAt[r] = "use"
    BY <1>4 DEF UseResident, Goes, Places
  <2>2. UNCHANGED <<registered, refusesLanguage>> /\ resident' = req[r].captured
    BY <1>4 DEF UseResident, Mixes
  <2>3. RunFits(r)'
    BY <1>a, <2>1, <2>2, StandsFacts DEF RunFits
  <2> QED
    BY <1>a, <1>c, <2>1, <2>2, <2>3
<1>5. CASE OpenFails(r)
  <2> DEFINE back == Request("rollback", FALSE, req[r].previous, NoSpec)
  <2>1. Stands(r, "idle", back) /\ routeAt[r] = "use" /\ "idle" \in Places
    BY <1>5 DEF OpenFails, OpenBreaks, Places, ControlInv
  <2>2. UNCHANGED <<registered, refusesLanguage>> /\ back \in Locals
    BY <1>5, LocalsFacts DEF OpenFails, OpenBreaks
  <2> HIDE DEF back
  <2>3. RunFits(r)'
    BY <2>1, <2>2, StandsFacts DEF RunFits
  <2> QED
    BY <1>c, <2>1, <2>2, <2>3
<1>6. CASE Work(r)
  <2>1. PICK place \in {"refused", "idle"} :
          Stands(r, place, req[r]) /\ (place = "refused" => resident \in Strict)
    BY <1>6 DEF Work, Goes
  <2>2. /\ UNCHANGED <<registered, resident, refusesLanguage>>
        /\ place \in Places /\ routeAt[r] = "work"
    BY <1>6 DEF Work, Places
  <2>3. RunFits(r)'
    BY <1>a, <2>1, <2>2, StandsFacts DEF RunFits
  <2> QED
    BY <1>a, <1>c, <2>1, <2>2, <2>3
<1>7. CASE NoteRefusal(r)
  <2> DEFINE locals == [req[r] EXCEPT !.withOption = FALSE]
  <2>1. /\ Stands(r, "capture", locals) /\ UNCHANGED <<registered, resident>>
        /\ routeAt[r] = "refused" /\ "capture" \in Places
    BY <1>7 DEF NoteRefusal, Places
  <2>2. locals \in Locals /\ locals.route = req[r].route
    BY LocalsFacts, RequestFields
  <2>3. registered \in Strict
    BY <1>a, <2>1 DEF RunFits
  <2> HIDE DEF locals
  <2>4. RunFits(r)'
    BY <2>1, <2>2, StandsFacts DEF RunFits
  <2> QED
    BY <1>c, <2>1, <2>2, <2>3, <2>4
<1>8. CASE \/ Register(r) \/ Replace(r) \/ ReleaseOld(r) \/ CancelReleaseOld(r) \/ ClearRefusal(r)
           \/ Forget(r) \/ RemoveSpec(r) \/ DropEntry(r)
  BY <1>a, <1>8 DEF ControlInv, Register, Replace, ReleaseOld, CancelReleaseOld, ClearRefusal,
                    Forget, RemoveSpec, DropEntry
<1> QED
  BY <1>1, <1>2, <1>3, <1>4, <1>5, <1>6, <1>7, <1>8 DEF RequestMoves

(* A step of a load that is alone.                                         *)
LEMMA LoadStaysFit ==
  ASSUME RoutesTypeOK, NEW r \in Routes, ControlInv(r), RequestMoves(r), Others(r) = {},
         LoadFits(r), routeAt[r] # "idle", req[r].route = "load", ~mixed'
  PROVE  Fitting'
<1> USE DEF entryModel, pooled, loadHistory, history
<1>a. req[r] \in Locals
  BY LocalsFacts
<1>b. ASSUME NEW place \in Places, place # "idle", Stands(r, place, req[r]), LoadFits(r)'
      PROVE  Fitting'
  BY <1>a, <1>b, LoadGoesOn
<1>c. ASSUME Stands(r, "idle", req[r]), registered' = registered, refusesLanguage' = refusesLanguage,
             routeAt[r] \in {"queue", "use", "work"}
      PROVE  Fitting'
  BY <1>a, <1>c, LoadEnds DEF LoadFits
<1>1. CASE StartRun(r) \/ NoteRefusal(r) \/ \E s \in Descriptions : StartLoad(r, s)
  BY <1>1 DEF StartRun, NoteRefusal, StartLoad, ControlInv
<1>2. CASE Capture(r)
  <2> DEFINE locals == [req[r] EXCEPT !.captured = registered]
  <2>1. registered # NoSpec
    BY <1>2, RoutesAssumption DEF Capture, LoadFits
  <2>2. Stands(r, "queue", locals) /\ UNCHANGED <<registered, refusesLanguage>> /\ "queue" \in Places
    BY <1>2, <2>1 DEF Capture, Places
  <2>3. /\ locals \in Locals /\ locals.route = "load"
        /\ locals.registering = req[r].registering /\ locals.previous = req[r].previous
    BY <1>a, FieldsTyped DEF Locals
  <2>4. routeAt[r] = "capture"
    BY <1>2 DEF Capture
  <2> HIDE DEF locals
  <2>5. routeAt'[r] = "queue" /\ req'[r] = locals
    BY <2>2, <2>3, StandsFacts
  <2>6. LoadFits(r)'
    BY <2>2, <2>3, <2>4, <2>5 DEF LoadFits
  <2> QED
    BY <2>2, <2>3, <2>6, LoadGoesOn
<1>3. CASE EnterGate(r) \/ UseResident(r)
  <2>1. PICK place \in {"use", "work"} : Stands(r, place, req[r])
    BY <1>3 DEF EnterGate, UseResident, Goes
  <2>2. /\ UNCHANGED <<registered, refusesLanguage>> /\ place \in Places
        /\ routeAt[r] \in {"queue", "use"}
    BY <1>3 DEF EnterGate, UseResident, Places
  <2>3. LoadFits(r)'
    BY <2>1, <2>2, LoadPlaces DEF LoadFits
  <2> QED
    BY <1>b, <2>1, <2>2, <2>3
<1>4. CASE BreakOff(r) \/ Work(r)
  <2>1. /\ Stands(r, "idle", req[r]) /\ UNCHANGED <<registered, refusesLanguage>>
        /\ routeAt[r] \in {"queue", "use", "work"}
    BY <1>4 DEF BreakOff, Work, Goes
  <2> QED
    BY <1>c, <2>1
<1>5. CASE OpenFails(r)
  <2> DEFINE place == IF req[r].previous # NoSpec THEN "register" ELSE "forget"
  <2> DEFINE back == Request("rollback", FALSE, req[r].previous, NoSpec)
  <2>1. back \in Locals /\ back.route = "rollback" /\ back.registering = req[r].previous
    BY LocalsFacts DEF Request
  <2>2. Stands(r, place, back) /\ place \in Places /\ place # "idle"
    BY <1>5 DEF OpenFails, Places
  <2>3. UNCHANGED <<registered, refusesLanguage>> /\ routeAt[r] = "use"
    BY <1>5 DEF OpenFails, OpenBreaks
  <2>4. refusesLanguage =>
          registered = req[r].previous /\ registered \in Strict /\ req[r].previous # NoSpec
    BY <2>3, RoutesAssumption DEF LoadFits
  <2>5. refusesLanguage => place = "register"
    BY <2>4
  <2> HIDE DEF place, back
  <2>6. routeAt'[r] = place /\ req'[r] = back
    BY <2>1, <2>2, StandsFacts
  <2>7. RollbackFits(r)'
    BY <2>1, <2>3, <2>4, <2>5, <2>6 DEF RollbackFits
  <2> QED
    BY <2>1, <2>2, <2>7, LoadGoesOn
<1>6. CASE CancelReleaseOld(r)
  BY <1>6 DEF CancelReleaseOld, Mixes
<1>7. CASE Register(r)
  <2> DEFINE place == CASE registered = req[r].registering -> "capture"
                        [] registered = NoSpec -> "add"
                        [] OTHER -> "swap"
  <2>0. registered = req[r].registering => registered # NoSpec
    BY RoutesAssumption DEF LoadFits
  <2>1. place \in Places /\ place # "idle" /\ Stands(r, place, req[r])
    BY <1>7 DEF Register, Goes, AfterRegister, Places
  <2>2. /\ place \in {"capture", "add", "swap"}
        /\ place = "capture" <=> registered = req[r].registering
    BY <2>0
  <2>3. UNCHANGED <<registered, refusesLanguage>> /\ routeAt[r] = "register"
    BY <1>7 DEF Register
  <2> HIDE DEF place
  <2>4. LoadFits(r)'
    BY <2>1, <2>2, <2>3, LoadPlaces DEF LoadFits
  <2> QED
    BY <1>b, <2>1, <2>4
<1>8. CASE Replace(r)
  <2>1. PICK place \in {"release", "clear"} : Stands(r, place, req[r])
    BY <1>8 DEF Replace, Goes
  <2>2. registered' = req[r].registering /\ place \in Places
    BY <1>8 DEF Replace, Places
  <2>3. LoadFits(r)'
    BY <2>1, <2>2, LoadPlaces DEF LoadFits
  <2> QED
    BY <1>b, <2>1, <2>2, <2>3
<1>9. CASE ReleaseOld(r)
  <2>1. Stands(r, "clear", req[r]) /\ registered' = registered /\ routeAt[r] = "release"
    BY <1>9 DEF ReleaseOld, Goes, ControlInv
  <2>2. "clear" \in Places
    BY DEF Places
  <2>3. LoadFits(r)'
    BY <2>1, <2>2, LoadPlaces DEF LoadFits
  <2> QED
    BY <1>b, <2>1, <2>2, <2>3
<1>10. CASE ClearRefusal(r)
  <2>1. /\ Stands(r, "capture", req[r]) /\ registered' = registered /\ refusesLanguage' = FALSE
        /\ routeAt[r] = "clear"
    BY <1>10 DEF ClearRefusal, Goes, AfterRegister
  <2>2. "capture" \in Places
    BY DEF Places
  <2>3. LoadFits(r)'
    BY <2>1, <2>2, LoadPlaces DEF LoadFits
  <2> QED
    BY <1>b, <2>1, <2>2, <2>3
<1>11. CASE Forget(r) \/ RemoveSpec(r) \/ DropEntry(r)
  BY <1>11 DEF ControlInv, Forget, RemoveSpec, DropEntry
<1> QED
  BY <1>1, <1>2, <1>3, <1>4, <1>5, <1>6, <1>7, <1>8, <1>9, <1>10, <1>11 DEF RequestMoves

(* A step of a rollback that is alone.                                     *)
LEMMA RollbackStaysFit ==
  ASSUME RoutesTypeOK, NEW r \in Routes, ControlInv(r), RequestMoves(r), Others(r) = {},
         RollbackFits(r), routeAt[r] # "idle", req[r].route = "rollback"
  PROVE  Fitting'
<1> USE DEF entryModel, pooled, loadHistory, history
<1>a. req[r] \in Locals
  BY LocalsFacts
<1>b. ASSUME NEW place \in Places, place # "idle", Stands(r, place, req[r]), ~refusesLanguage'
      PROVE  Fitting'
  BY <1>a, <1>b, LoadGoesOn DEF RollbackFits
<1>c. ASSUME Stands(r, "idle", req[r]), refusesLanguage' => registered' \in Strict
      PROVE  Fitting'
  BY <1>a, <1>c, LoadEnds
<1>1. CASE \/ StartRun(r) \/ Capture(r) \/ EnterGate(r) \/ BreakOff(r) \/ UseResident(r)
           \/ OpenFails(r) \/ Work(r) \/ NoteRefusal(r) \/ CancelReleaseOld(r)
           \/ \E s \in Descriptions : StartLoad(r, s)
  BY <1>1 DEF StartRun, Capture, EnterGate, BreakOff, UseResident, OpenFails, OpenBreaks, Work,
              NoteRefusal, CancelReleaseOld, StartLoad, ControlInv
<1>2. CASE Register(r)
  <2>1. PICK place \in {"idle", "add", "swap"} :
          /\ Stands(r, place, req[r])
          /\ place # "idle" => registered # req[r].registering \/ registered = NoSpec
    BY <1>2 DEF Register, Goes, AfterRegister
  <2>2. UNCHANGED <<registered, refusesLanguage>> /\ place \in Places
    BY <1>2 DEF Register, Places
  <2>3. CASE place = "idle"
    BY <1>c, <2>1, <2>2, <2>3 DEF RollbackFits
  <2>4. CASE place # "idle"
    BY <1>b, <2>1, <2>2, <2>4, RoutesAssumption DEF RollbackFits
  <2> QED
    BY <2>3, <2>4
<1>3. CASE Replace(r) \/ ReleaseOld(r) \/ RemoveSpec(r) \/ DropEntry(r)
  <2>1. PICK place \in {"release", "clear", "unlist", "drop"} : Stands(r, place, req[r])
    BY <1>3 DEF Replace, ReleaseOld, RemoveSpec, DropEntry, Goes
  <2>2. ~refusesLanguage' /\ place \in Places
    BY <1>3 DEF Replace, ReleaseOld, RemoveSpec, DropEntry, RollbackFits, Places
  <2> QED
    BY <1>b, <2>1, <2>2
<1>4. CASE ClearRefusal(r)
  <2>1. Stands(r, "idle", req[r]) /\ refusesLanguage' = FALSE
    BY <1>4 DEF ClearRefusal, Goes, AfterRegister
  <2> QED
    BY <1>c, <2>1
<1>5. CASE Forget(r)
  <2>1. PICK place \in {"idle", "forgetRelease"} : Stands(r, place, req[r])
    BY <1>5 DEF Forget, Goes
  <2>2. ~refusesLanguage' /\ place \in Places
    BY <1>5 DEF Forget, RollbackFits, Places
  <2> QED
    BY <1>b, <1>c, <2>1, <2>2
<1> QED
  BY <1>1, <1>2, <1>3, <1>4, <1>5 DEF RequestMoves

(* A load that finds nobody.                                               *)
LEMMA LoadBeginsFit ==
  ASSUME RoutesTypeOK, NEW r \in Routes, NEW s \in Descriptions, StartLoad(r, s), Others(r) = {},
         (refusesLanguage => registered \in Strict) \/ s # registered
  PROVE  Fitting'
<1> DEFINE load == Request("load", FALSE, s, registered)
<1>1. load \in Locals /\ load.route = "load" /\ load.registering = s /\ load.previous = registered
  BY LocalsFacts DEF Request
<1>2. /\ Stands(r, "register", load) /\ "register" \in Places
      /\ UNCHANGED <<registered, refusesLanguage>>
  BY DEF StartLoad, pooled, Places
<1> HIDE DEF load
<1>3. routeAt'[r] = "register" /\ req'[r] = load
  BY <1>1, <1>2, StandsFacts
<1>4. LoadFits(r)'
  BY <1>1, <1>2, <1>3 DEF LoadFits
<1> QED
  BY <1>1, <1>2, <1>4, LoadGoesOn

(* A step of the routes, as far as the option goes.                        *)
LEMMA FitsStep ==
  ASSUME RoutesTypeOK, \A q \in Routes : ControlInv(q), FitsInv, NEW r \in Routes,
         RequestMoves(r)
  PROVE  FitsInv'
<1> SUFFICES ASSUME ~mixed'
             PROVE  Fitting'
  BY DEF FitsInv, Fitting
<1>1. CASE \E s \in Descriptions : StartLoad(r, s)
  <2>1. PICK s \in Descriptions : StartLoad(r, s)
    BY <1>1
  <2>2. Others(r) = {} /\ (~mixed \/ s # registered)
    BY <2>1 DEF StartLoad
  <2>3. Loading = {}
    BY <2>1, <2>2 DEF StartLoad, Loading, Others
  <2>4. ~mixed => (refusesLanguage => registered \in Strict)
    BY <2>3 DEF FitsInv
  <2> QED
    BY <2>1, <2>2, <2>4, LoadBeginsFit
<1>2. CASE ~\E s \in Descriptions : StartLoad(r, s)
  <2>1. ~mixed
    <3> USE DEF history, Mixes
    <3>1. CASE StartRun(r) \/ UseResident(r) \/ CancelReleaseOld(r)
      BY <3>1 DEF StartRun, UseResident, CancelReleaseOld
    <3>2. CASE Capture(r) \/ EnterGate(r) \/ BreakOff(r) \/ Work(r) \/ NoteRefusal(r)
      BY <3>2 DEF Capture, EnterGate, BreakOff, Work, NoteRefusal
    <3>3. CASE OpenFails(r)
      BY <3>3 DEF OpenFails, OpenBreaks
    <3>4. CASE Register(r) \/ Replace(r) \/ ReleaseOld(r) \/ ClearRefusal(r)
      BY <3>4 DEF Register, Replace, ReleaseOld, ClearRefusal
    <3>5. CASE Forget(r) \/ RemoveSpec(r) \/ DropEntry(r)
      BY <3>5 DEF Forget, RemoveSpec, DropEntry
    <3> QED
      BY <1>2, <3>1, <3>2, <3>3, <3>4, <3>5 DEF RequestMoves
  <2>2. Fitting
    BY <2>1 DEF FitsInv, Fitting
  <2>3. CASE routeAt[r] # "idle" /\ req[r].route # "run"
    <3>1. r \in Loading /\ req[r].route \in {"load", "rollback"}
      BY <2>3, RequestFields DEF Loading
    <3>2. \A q \in Loading : /\ Others(q) = {}
                             /\ req[q].route = "load" => LoadFits(q)
                             /\ req[q].route = "rollback" => RollbackFits(q)
      BY <2>2 DEF Fitting
    <3>3. /\ Others(r) = {}
          /\ req[r].route = "load" => LoadFits(r)
          /\ req[r].route = "rollback" => RollbackFits(r)
      BY <3>1, <3>2
    <3> QED
      BY <2>3, <3>1, <3>3, LoadStaysFit, RollbackStaysFit
  <2>4. CASE routeAt[r] = "idle" \/ req[r].route = "run"
    <3>1. Loading = {}
      <4>1. CASE routeAt[r] = "idle"
        <5>1. StartRun(r)
          BY <1>2, <4>1 DEF RequestMoves, Capture, EnterGate, BreakOff, UseResident, OpenFails,
               OpenBreaks, Work, NoteRefusal, Register, Replace, ReleaseOld, CancelReleaseOld,
               ClearRefusal, Forget, RemoveSpec, DropEntry
        <5> QED
          BY <5>1 DEF StartRun, Mixes
      <4>2. CASE routeAt[r] # "idle"
        <5>1. \A q \in Loading : Others(q) = {} /\ q # r
          BY <2>2, <2>4, <4>2 DEF Fitting, Loading
        <5>2. \A q \in Loading : r \in Others(q)
          BY <4>2, <5>1 DEF Others
        <5> QED
          BY <5>1, <5>2
      <4> QED
        BY <4>1, <4>2
    <3>2. (refusesLanguage => registered \in Strict) /\ \A q \in Routes : RunFits(q)
      BY <2>2, <3>1 DEF Fitting
    <3> QED
      BY <1>2, <2>4, <3>1, <3>2, RunStaysFit
  <2> QED
    BY <2>3, <2>4
<1> QED
  BY <1>1, <1>2

(* A model nobody uses is freed: nobody stands behind the gate.            *)
LEMMA FreeStep ==
  ASSUME RoutesInv, FreeModel
  PROVE  RoutesInv'
<1> USE DEF FreeModel, history, loadHistory
<1>1. RoutesTypeOK'
  BY DEF RoutesInv, RoutesTypeOK
<1>2. \A r \in Routes : ControlInv(r)' /\ routeAt[r] \notin {"use", "work"}
  BY RoutesAssumption DEF RoutesInv, ControlInv
<1>3. StandsOrFallsInv'
  BY DEF RoutesInv, StandsOrFallsInv, Loading, LoadInv, RollbackInv
<1>4. FitsInv'
  BY <1>2 DEF RoutesInv, FitsInv, Loading, Others, RunFits, LoadFits, RollbackFits
<1> QED
  BY <1>1, <1>2, <1>3, <1>4 DEF RoutesInv

(* A step of the routes keeps the invariant.                               *)
LEMMA RoutesStep ==
  ASSUME RoutesInv, [RoutesNext]_routesVars
  PROVE  RoutesInv'
<1>1. CASE \E r \in Routes : RequestMoves(r)
  <2>1. PICK r \in Routes : RequestMoves(r)
    BY <1>1
  <2>2. RoutesTypeOK /\ StandsOrFallsInv /\ FitsInv
    BY DEF RoutesInv
  <2>3. \A q \in Routes : ControlInv(q)
    BY DEF RoutesInv
  <2> QED
    BY <2>1, <2>2, <2>3, RoutesTypeStep, ControlStep, StandsOrFallsStep, FitsStep DEF RoutesInv
<1>2. CASE FreeModel
  BY <1>2, FreeStep
<1>3. CASE UNCHANGED routesVars
  BY <1>3 DEF routesVars, entryModel, pooled, loadHistory, history, RoutesInv, RoutesTypeOK,
              ControlInv, StandsOrFallsInv, FitsInv, Loading, Others, LoadInv, RollbackInv,
              RunFits, LoadFits, RollbackFits
<1> QED
  BY <1>1, <1>2, <1>3 DEF RoutesNext, RequestMoves

(* At the start nobody asks anything.                                      *)
LEMMA RoutesInitInv ==
  ASSUME RoutesInit
  PROVE  RoutesInv
<1>1. NoRequest \in Locals /\ NoRequest.route = "run"
  <2>1. FALSE \in BOOLEAN
    BY Zenon
  <2> QED
    BY <2>1 DEF NoRequest, Request, Locals, Optional
<1>2. \A r \in Routes : routeAt[r] = "idle" /\ req[r] = NoRequest
  BY DEF RoutesInit
<1>3. RoutesTypeOK
  <2>1. loads \in 0..MaxLoads
    BY RoutesAssumption DEF RoutesInit
  <2>2. refusesLanguage \in BOOLEAN /\ opened \in BOOLEAN
    BY Zenon DEF RoutesInit
  <2>3. crossed \in BOOLEAN /\ abandoned \in BOOLEAN /\ mixed \in BOOLEAN
    BY Zenon DEF RoutesInit
  <2>4. req \in [Routes -> Locals]
    BY <1>1 DEF RoutesInit
  <2> QED
    BY <2>1, <2>2, <2>3, <2>4 DEF RoutesInit, RoutesTypeOK, Locals, Optional
<1>4. \A r \in Routes : ControlInv(r)
  BY <1>1, <1>2, RoutesAssumption DEF RoutesInit, ControlInv
<1>5. Loading = {}
  BY <1>2 DEF Loading
<1>6. StandsOrFallsInv /\ FitsInv
  BY <1>2, <1>5 DEF RoutesInit, StandsOrFallsInv, FitsInv, RunFits
<1> QED
  BY <1>3, <1>4, <1>6 DEF RoutesInv

(* In every reachable state a request stands where it may, the gate is     *)
(* with the request that is behind it, a load that is not disputed has the *)
(* registration where it left it, and while nothing is mixed what is       *)
(* remembered of the language option is of the model at hand               *)
(* (Routes.cs:304-345,474-528, ModelPool.cs:99-132,214-268,329-404).       *)
THEOREM RoutesInvariant == RoutesSpec => []RoutesInv
<1>1. RoutesInit => RoutesInv
  BY RoutesInitInv
<1>2. RoutesInv /\ [RoutesNext]_routesVars => RoutesInv'
  BY RoutesStep
<1> QED
  BY <1>1, <1>2, PTL DEF RoutesSpec

(* The types of the routes' state and of their requests' locals.           *)
THEOREM RoutesTypeCorrect == RoutesSpec => []RoutesTypeOK
<1>1. RoutesInv => RoutesTypeOK
  BY DEF RoutesInv
<1> QED
  BY <1>1, RoutesInvariant, PTL

(* The registration stands or falls with the load, for any number of runs  *)
(* beside it, wherever the opening of the model fails and whatever it      *)
(* leaves (Routes.LoadModelAsync, ModelPool.RegisterAsync, ForgetAsync).   *)
THEOREM LoadsStandOrFall == RoutesSpec => []RegistrationStandsOrFalls
<1>1. RoutesInv => RegistrationStandsOrFalls
  BY DEF RoutesInv, StandsOrFallsInv, RegistrationStandsOrFalls
<1> QED
  BY <1>1, RoutesInvariant, PTL

(* What is remembered of the language option is true of the registered     *)
(* description, again after a meeting as before one, for any set of        *)
(* descriptions (Routes.RunWithLanguageAsync, NoteLanguageRefused).        *)
THEOREM RefusalsFit == RoutesSpec => []RefusalFitsModel
<1>1. RoutesInv => RefusalFitsModel
  BY DEF RoutesInv, FitsInv, RefusalFitsModel
<1> QED
  BY <1>1, RoutesInvariant, PTL

-----------------------------------------------------------------------------
(* A live request.                                                         *)

(* A multiple has no remainder.                                            *)
LEMMA NoRemainder ==
  ASSUME NEW F \in Nat \ {0}, NEW k \in Nat
  PROVE  (F * k) % F = 0
<1> DEFINE y == F * k
           q == y \div F
           r == y % F
<1>1. y \in Int /\ q \in Int /\ r \in 0..(F - 1) /\ y = F * q + r
  OBVIOUS
<1> HIDE DEF q, r
<1>2. F * (k - q) = r
  BY <1>1
<1>3. CASE k - q >= 1
  <2>1. F * (k - q) >= F
    BY <1>1, <1>3
  <2> QED
    BY <1>1, <1>2, <2>1
<1>4. CASE k - q <= 0 - 1
  <2>1. F * (k - q) <= 0 - F
    BY <1>1, <1>4
  <2> QED
    BY <1>1, <1>2, <2>1
<1>5. CASE k = q
  BY <1>1, <1>2, <1>5
<1> QED
  BY <1>1, <1>3, <1>4, <1>5 DEF r

(* What is left of whole frames when a remainder is carried over.          *)
LEMMA WholeFrames ==
  ASSUME NEW F \in Nat \ {0}, NEW a \in Nat, NEW x \in Nat, a % F = 0
  PROVE  (a + (x - (x % F))) % F = 0
<1>1. a = F * (a \div F) /\ a \div F \in Nat
  OBVIOUS
<1>2. x = F * (x \div F) + (x % F) /\ x \div F \in Nat
  OBVIOUS
<1>3. a + (x - (x % F)) = F * ((a \div F) + (x \div F))
  <2>1. \A j, k \in Nat : F * (j + k) = F * j + F * k
    OBVIOUS
  <2>2. F * ((a \div F) + (x \div F)) = F * (a \div F) + F * (x \div F)
    BY <1>1, <1>2, <2>1
  <2>3. x - (x % F) = F * (x \div F) /\ x % F \in Int
    BY <1>2
  <2> QED
    BY <1>1, <2>2, <2>3
<1>4. (a \div F) + (x \div F) \in Nat
  BY <1>1, <1>2
<1> QED
  BY <1>3, <1>4, NoRemainder

(* Texts of a bounded length are texts.                                    *)
LEMMA TextsAreSequences == Texts \subseteq Seq(Words)
BY DEF Texts, BoundedSeq, SeqOf

(* A closing delta completes what was said, or is empty.                   *)
LEMMA ClosingDeltaCompletes ==
  ASSUME NEW said \in Seq(Words), NEW full \in Seq(Words)
  PROVE  /\ ClosingDelta(said, full) \in Seq(Words)
         /\ IsPrefix(said, full) => said \o ClosingDelta(said, full) = full
         /\ ~IsPrefix(said, full) => ClosingDelta(said, full) = << >>
<1>1. /\ Len(said) \in Nat /\ Len(full) \in Nat
      /\ \A i \in 1..Len(said) : said[i] \in Words
      /\ \A i \in 1..Len(full) : full[i] \in Words
  BY LenProperties
<1>2. CASE ~IsPrefix(said, full)
  BY <1>2, EmptySeq DEF ClosingDelta
<1>3. CASE IsPrefix(said, full)
  <2>1. /\ Len(said) <= Len(full)
        /\ \A i \in 1..Len(said) : said[i] = full[i]
    <3>1. Len(said) <= Len(full) /\ SubSeq(said, 1, Len(said)) = SubSeq(full, 1, Len(said))
      BY <1>1, <1>3 DEF IsPrefix
    <3>2. \A i \in 1..Len(said) : SubSeq(said, 1, Len(said))[i] = said[i]
      BY <1>1, SubSeqProperties
    <3>3. \A i \in 1..Len(said) : SubSeq(full, 1, Len(said))[i] = full[i]
      BY <1>1, <3>1, SubSeqProperties
    <3> QED
      BY <3>1, <3>2, <3>3
  <2>2. CASE Len(full) = Len(said)
    <3>1. full = said
      BY <1>1, <2>1, <2>2, SeqEqual
    <3> QED
      BY <2>2, <3>1, <1>3, EmptySeq, ConcatEmptySeq DEF ClosingDelta
  <2>3. CASE Len(full) > Len(said)
    <3> DEFINE rest == SubSeq(full, Len(said) + 1, Len(full))
    <3>1. ClosingDelta(said, full) = rest
      BY <1>3, <2>3 DEF ClosingDelta
    <3>2. /\ rest \in Seq(Words)
          /\ Len(rest) = Len(full) - Len(said)
          /\ \A i \in 1..(Len(full) - Len(said)) : rest[i] = full[Len(said) + i]
      BY <1>1, <2>3, SubSeqProperties
    <3>3. said \o rest \in Seq(Words) /\ Len(said \o rest) = Len(full)
      BY <1>1, <3>2, ConcatProperties
    <3>4. \A i \in 1..Len(full) : (said \o rest)[i] = full[i]
      BY <1>1, <2>1, <3>2, ConcatProperties
    <3>5. said \o rest = full
      BY <3>3, <3>4, SeqEqual
    <3> QED
      BY <1>3, <3>1, <3>2, <3>5
  <2> QED
    BY <1>1, <2>1, <2>2, <2>3
<1> QED
  BY <1>2, <1>3

(* The invariant holds of a request that came in.                          *)
LEMMA IngestStarts == IngestInit => IngestInv
<1> SUFFICES ASSUME IngestInit PROVE IngestInv
  OBVIOUS
<1> USE IngestAssumption DEF IngestAssumption
<1>1. /\ clientEnded \in BOOLEAN /\ hungUp \in BOOLEAN /\ gateHeld \in BOOLEAN
      /\ speech \in BOOLEAN /\ ~gateHeld
  BY Zenon DEF IngestInit
<1>2. 0 % Frame = 0
  BY NoRemainder
<1> QED
  BY <1>1, <1>2, EmptySeq DEF IngestInit, IngestInv, IngestTypeOK

(* An ending gives the gate back and answers, never as done.               *)
LEMMA EndFacts ==
  ASSUME NEW answer, End(answer)
  PROVE  /\ ingestAt' = "gone" /\ reply' = answer
         /\ gateHeld' \in BOOLEAN /\ ~gateHeld'
BY Zenon DEF End

(* So does a failure, with what the client can still be told.              *)
LEMMA FailRequestFacts ==
  ASSUME FailRequest
  PROVE  /\ ingestAt' = "gone" /\ reply' \in {"cut", "status", "error"}
         /\ gateHeld' \in BOOLEAN /\ ~gateHeld'
         /\ reply' \notin {"status", "error"} => hungUp
<1>1. CASE hungUp
  <2>1. End("cut")
    BY <1>1 DEF FailRequest
  <2> QED
    BY <1>1, <2>1, EndFacts
<1>2. CASE ~hungUp
  <2>1. End(IF reply = "none" THEN "status" ELSE "error")
    BY <1>2 DEF FailRequest
  <2> QED
    BY <2>1, EndFacts
<1> QED
  BY <1>1, <1>2

(* Writing a delta.                                                        *)
LEMMA EmitFacts ==
  ASSUME IngestTypeOK, NEW words \in Seq(Words), Emit(words)
  PROVE  /\ sent' \in Seq(Words)
         /\ reply' \in {reply, "events"}
         /\ ~hungUp => sent' = sent \o words
BY ConcatProperties, ConcatEmptySeq, ZenonT(30) DEF Emit, IngestTypeOK

(* Reading keeps the count of the bytes.                                   *)
LEMMA ReadStep ==
  ASSUME IngestInv, Read
  PROVE  IngestInv'
<1> USE IngestAssumption DEF IngestAssumption, IngestInv, IngestTypeOK, client
<1>1. PICK n \in 1..Room :
        /\ received + n <= Sendable
        /\ received' = received + n
        /\ \/ /\ BodyBytes > 0 /\ received + n > BodyBytes
              /\ FailRequest
              /\ UNCHANGED <<carried, pushedBytes>>
           \/ /\ BodyBytes = 0 \/ received + n <= BodyBytes
              /\ carried' = (carried + n) % Frame
              /\ pushedBytes' = pushedBytes + (carried + n - carried')
              /\ ingestAt' = IF carried + n < Frame THEN "loop" ELSE "push"
              /\ UNCHANGED <<reply, gateHeld>>
  BY DEF Read
<1>2. /\ ingestAt = "read" /\ ~hungUp /\ UNCHANGED <<client, sent, finalText>>
      /\ received \in Nat /\ carried \in Nat /\ pushedBytes \in Nat
      /\ pushedBytes + carried = received /\ pushedBytes % Frame = 0
  BY DEF Read
<1>3. n \in Nat /\ n >= 1
  BY DEF Room, Window
<1>4. CASE FailRequest /\ UNCHANGED <<carried, pushedBytes>>
  <2>1. /\ ingestAt' = "gone" /\ reply' \in {"status", "error"}
        /\ gateHeld' \in BOOLEAN /\ ~gateHeld'
    BY <1>2, <1>4, FailRequestFacts
  <2> QED
    BY <1>1, <1>2, <1>3, <1>4, <2>1
<1>5. CASE /\ carried' = (carried + n) % Frame
           /\ pushedBytes' = pushedBytes + (carried + n - carried')
           /\ ingestAt' = IF carried + n < Frame THEN "loop" ELSE "push"
           /\ UNCHANGED <<reply, gateHeld>>
  <2>1. carried' \in 0..(Frame - 1) /\ carried' <= carried + n
    BY <1>2, <1>3, <1>5
  <2>2. pushedBytes' + carried' = received + n
    BY <1>2, <1>3, <1>5, <2>1
  <2>3. pushedBytes' % Frame = 0
    <3>1. carried + n \in Nat /\ pushedBytes \in Nat /\ pushedBytes % Frame = 0
      BY <1>2, <1>3
    <3>2. pushedBytes' = pushedBytes + ((carried + n) - ((carried + n) % Frame))
      BY <1>5, SMTT(30)
    <3>3. Frame \in Nat \ {0}
      OBVIOUS
    <3> HIDE DEF IngestInv, IngestTypeOK
    <3>4. (pushedBytes + ((carried + n) - ((carried + n) % Frame))) % Frame = 0
      BY ONLY <3>1, <3>3, WholeFrames
    <3> QED
      BY <3>2, <3>4
  <2>4. pushedBytes' \in 0..Sendable /\ received' \in 0..Sendable
    BY <1>1, <1>2, <1>3, <1>5, <2>1, <2>2
  <2> QED
    BY <1>1, <1>2, <1>5, <2>1, <2>2, <2>3, <2>4
<1> QED
  BY <1>1, <1>4, <1>5

(* A step of the server keeps the invariant.                               *)
LEMMA HandleStep ==
  ASSUME IngestInv, Handle
  PROVE  IngestInv'
<1> USE IngestAssumption DEF IngestAssumption, IngestInv, IngestTypeOK, client, body
<1>1. CASE TakeModel
  BY <1>1 DEF TakeModel
<1>2. CASE ModelBusy
  BY <1>2, FailRequestFacts DEF ModelBusy
<1>3. CASE StartStream
  BY <1>3 DEF StartStream
<1>4. CASE EngineFails
  BY <1>4, FailRequestFacts DEF EngineFails
<1>5. CASE BeginRead
  <2>1. CASE FailRequest
    BY <1>5, <2>1, FailRequestFacts DEF BeginRead
  <2>2. CASE ingestAt' = "read" /\ UNCHANGED <<reply, gateHeld>>
    BY <1>5, <2>2 DEF BeginRead
  <2> QED
    BY <1>5, <2>1, <2>2 DEF BeginRead
<1>6. CASE TimeOut
  BY <1>6, FailRequestFacts DEF TimeOut
<1>7. CASE ReadEnds
  <2>1. CASE carried > 0
    BY <1>7, <2>1, FailRequestFacts DEF ReadEnds
  <2>2. CASE ~(carried > 0)
    BY <1>7, <2>2 DEF ReadEnds
  <2> QED
    BY <2>1, <2>2
<1>8. CASE Cut
  BY <1>8, EndFacts DEF Cut
<1>9. CASE Push
  BY <1>9 DEF Push
<1>10. CASE PumpEvent
  <2>1. PICK w \in Words : Emit(<<w>>)
    BY <1>10 DEF PumpEvent
  <2>2. <<w>> \in Seq(Words)
    OBVIOUS
  <2> QED
    BY <1>10, <2>1, <2>2, EmitFacts DEF PumpEvent
<1>11. CASE PumpEnds
  BY <1>11 DEF PumpEnds
<1>12. CASE FinishStream
  <2>1. PICK text \in Texts :
          finalText' = text /\ Emit(IF speech THEN text ELSE ClosingDelta(sent, text))
    BY <1>12 DEF FinishStream
  <2>2. text \in Seq(Words)
    BY TextsAreSequences
  <2>3. (IF speech THEN text ELSE ClosingDelta(sent, text)) \in Seq(Words)
    BY <2>2, ClosingDeltaCompletes
  <2> QED
    BY <1>12, <2>1, <2>2, <2>3, EmitFacts DEF FinishStream
<1>13. CASE ReleaseModel
  <2>1. ~gateHeld' /\ gateHeld' \in BOOLEAN
    BY <1>13, Zenon DEF ReleaseModel
  <2> QED
    BY <1>13, <2>1 DEF ReleaseModel
<1>14. CASE Answer
  <2>1. /\ ingestAt' = "gone" /\ reply' \in {"error", "done"}
        /\ gateHeld' \in BOOLEAN /\ ~gateHeld'
    BY <1>14, EndFacts DEF Answer
  <2> QED
    BY <1>14, <2>1 DEF Answer
<1> QED
  BY <1>1, <1>2, <1>3, <1>4, <1>5, <1>6, <1>7, <1>8, <1>9, <1>10, <1>11, <1>12, <1>13, <1>14
     DEF Handle

(* So does any step, the client's among them.                              *)
LEMMA IngestStep == IngestInv /\ [IngestNext]_ingestVars => IngestInv'
<1> SUFFICES ASSUME IngestInv, [IngestNext]_ingestVars PROVE IngestInv'
  OBVIOUS
<1> USE DEF IngestInv, IngestTypeOK, body
<1>1. CASE Handle \/ Read
  BY <1>1, HandleStep, ReadStep
<1>2. CASE EndBody
  <2>1. clientEnded' /\ clientEnded' \in BOOLEAN
    BY <1>2, Zenon DEF EndBody
  <2> QED
    BY <1>2, <2>1 DEF EndBody
<1>3. CASE HangUp
  <2>1. hungUp' /\ hungUp' \in BOOLEAN
    BY <1>3, Zenon DEF HangUp
  <2> QED
    BY <1>3, <2>1 DEF HangUp
<1>4. CASE UNCHANGED ingestVars
  BY <1>4 DEF ingestVars
<1> QED
  BY <1>1, <1>2, <1>3, <1>4 DEF IngestNext

(* In every reachable state the bytes of a request that has not failed add *)
(* up, and only a body read to its end is on its way to an answer          *)
(* (Streaming.IngestAsync, Routes.LiveAsync).                              *)
THEOREM IngestInvariant == IngestSpec => []IngestInv
BY IngestStarts, IngestStep, PTL DEF IngestSpec

(* The types of a live request.                                            *)
THEOREM IngestTypeCorrect == IngestSpec => []IngestTypeOK
BY IngestInvariant, PTL DEF IngestInv

(* No byte is lost or used twice, for frames, buffers and limits of any    *)
(* size, and a read always has room (Streaming.IngestAsync).               *)
THEOREM BytesAreUsedOnce == IngestSpec => []EveryByteOnce
<1>1. IngestInv => EveryByteOnce
  BY IngestAssumption
     DEF IngestAssumption, IngestInv, IngestTypeOK, EveryByteOnce, Room, Window
<1> QED
  BY <1>1, IngestInvariant, PTL

(* [DONE] is sent only when the model was given the whole of the body      *)
(* (Streaming.LiveTranscriptionAsync, LiveSpeechAsync, Routes.LiveAsync).  *)
THEOREM DoneIsWhole == IngestSpec => []DoneMeansWhole
<1>1. IngestInv => DoneMeansWhole
  BY DEF IngestInv, IngestTypeOK, DoneMeansWhole
<1> QED
  BY <1>1, IngestInvariant, PTL

(* The last read of a transcript brings what was sent up to it.            *)
LEMMA DeltaStep ==
  IngestInv /\ [IngestNext]_ingestVars =>
    [ingestAt = "finish" /\ ingestAt' = "close" /\ ~speech /\ ~hungUp =>
       sent' = finalText' \/ (~IsPrefix(sent, finalText') /\ sent' = sent)]_ingestVars
<1>1. ASSUME IngestInv, [IngestNext]_ingestVars, ingestAt = "finish", ingestAt' = "close",
             ~speech, ~hungUp
      PROVE  sent' = finalText' \/ (~IsPrefix(sent, finalText') /\ sent' = sent)
  <2>1. FinishStream
    BY <1>1 DEF IngestNext, Handle, TakeModel, ModelBusy, StartStream, EngineFails, BeginRead,
         TimeOut, ReadEnds, Cut, Push, PumpEvent, PumpEnds, ReleaseModel, Answer, Read, EndBody,
         HangUp, FailRequest, End, ingestVars
  <2>2. PICK text \in Texts : finalText' = text /\ Emit(ClosingDelta(sent, text))
    BY <1>1, <2>1 DEF FinishStream
  <2>3. text \in Seq(Words) /\ sent \in Seq(Words)
    BY <1>1, TextsAreSequences DEF IngestInv, IngestTypeOK
  <2>4. sent' = sent \o ClosingDelta(sent, text)
    BY <1>1, <2>2, <2>3, ClosingDeltaCompletes, EmitFacts DEF IngestInv
  <2> QED
    BY <2>2, <2>3, <2>4, ClosingDeltaCompletes, ConcatEmptySeq
<1> QED
  BY <1>1

(* The deltas add up to the transcript, or the model took back what it had *)
(* said and the closing delta is empty (Streaming.ClosingDelta).           *)
THEOREM DeltasAddUpAlways == IngestSpec => DeltasAddUp
BY DeltaStep, IngestInvariant, PTL DEF IngestSpec, DeltasAddUp

-----------------------------------------------------------------------------
(* The server as a whole.                                                  *)

(* A step of the server is a step of one of its parts, and the others rest.*)
LEMMA ServerStepIsOfPart ==
  ASSUME [MCNext]_allVars
  PROVE  /\ [Next]_vars /\ [InstallNext]_installVars /\ [ServerNext]_serverVars
         /\ [RoutesNext]_routesVars /\ [IngestNext]_ingestVars
BY DEF MCNext, allVars

(* The server behaves in each of its five parts as that part's own         *)
(* specification says, fairness included; only of a live request it is the *)
(* steps, as its fairness is for the scene it is in (AudioCppServer.cs:    *)
(* 78-257, which makes the parts).                                         *)
THEOREM ServerRunsItsParts ==
  MCSpec => /\ FairSpec /\ FairInstallSpec /\ ServerSpec /\ RoutesSpec
            /\ IngestInit /\ [][IngestNext]_ingestVars
<1>1. MCInit => Init /\ InstallInit /\ ServerInit /\ RoutesInit /\ IngestInit
  BY DEF MCInit
<1>2. [MCNext]_allVars =>
        /\ [Next]_vars /\ [InstallNext]_installVars /\ [ServerNext]_serverVars
        /\ [RoutesNext]_routesVars /\ [IngestNext]_ingestVars
  BY ServerStepIsOfPart
<1> QED
  BY <1>1, <1>2, PTL
     DEF MCSpec, Spec, FairSpec, InstallSpec, FairInstallSpec, ServerSpec, RoutesSpec

(* A live request of the server keeps its invariant.                       *)
LEMMA ServerTakesTheStream == MCSpec => []IngestInv
BY IngestStarts, IngestStep, ServerRunsItsParts, PTL

(* Every variable of the server's parts around the pool keeps its type,    *)
(* whatever the parts do (InstallJobs.cs, PackageInstaller.cs,             *)
(* AudioCppServer.cs, UiRoutes.cs, Routes.cs and Streaming.cs).            *)
THEOREM ServerTypesHold == MCSpec => []ServerTypes
<1>1. IngestInv => IngestTypeOK
  BY DEF IngestInv
<1>2. FairInstallSpec => InstallSpec
  BY DEF FairInstallSpec
<1> QED
  BY <1>1, <1>2, ServerRunsItsParts, InstallTypeCorrect, ServerTypeCorrect, RoutesTypeCorrect,
     ServerTakesTheStream, PTL DEF ServerTypes

(* What the server tells its clients is so: its state, the registered      *)
(* description and the language it refuses, and the end of a live request  *)
(* (AudioCppServer.StartAsync, UiRoutes.LoadAsync, Routes.LiveAsync).      *)
THEOREM ServerTellsTheTruth ==
  MCSpec => /\ [](/\ StateTellsTruth /\ RegistrationStandsOrFalls /\ RefusalFitsModel
                 /\ EveryByteOnce /\ DoneMeansWhole)
            /\ DeltasAddUp
<1>1. IngestInv => EveryByteOnce /\ DoneMeansWhole
  BY IngestAssumption
     DEF IngestAssumption, IngestInv, IngestTypeOK, EveryByteOnce, Room, Window, DoneMeansWhole
<1> QED
  BY <1>1, ServerRunsItsParts, TheStateIsTrue, LoadsStandOrFall, RefusalsFit,
     ServerTakesTheStream, DeltaStep, PTL DEF DeltasAddUp

(* While every package has one name and no two requests have crossed, the  *)
(* server's downloads are whole, listed and where they were sent, and its  *)
(* removals complete (InstallJobs.cs:16-20,244-246, PackageInstaller.cs:   *)
(* 262-264, UiRoutes.cs:169-177).                                          *)
THEOREM ServerInstallsWell ==
  ASSUME OneSpelling
  PROVE  MCSpec => [](InstalledIsWhole /\ WorkerIsListed /\ RootHoldsStill /\ RemovalIsComplete)
<1>1. InstallInv => InstalledIsWhole /\ WorkerIsListed /\ RootHoldsStill /\ RemovalIsComplete
  BY DEF InstallInv, UncrossedInv, InstalledIsWhole, WorkerIsListed, RootHoldsStill,
         RemovalIsComplete
<1>2. FairInstallSpec => InstallSpec
  BY DEF FairInstallSpec
<1> QED
  BY <1>1, <1>2, ServerRunsItsParts, InstallInvariant, PTL
================================================================================
