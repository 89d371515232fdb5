------------------------------- MODULE ModelRoutes ------------------------------
(***************************************************************************)
(* The routes that run a model and the one that loads it, above the pool:  *)
(* the retry without the language option (Routes.RunWithLanguageAsync) and *)
(* the rollback of a load that failed (Routes.LoadModelAsync), for one id. *)
(*                                                                         *)
(* ModelPool.tla has the pool's entries; here its calls are seen from the  *)
(* routes, with a step for every lock, gate and await the routes can meet  *)
(* each other at, and one gate: when the id is forgotten while a request   *)
(* holds the gate of its entry, the next registration is taken to get that *)
(* entry back.                                                             *)
(***************************************************************************)
EXTENDS Naturals

CONSTANTS
  Routes,   \* requests being handled
  Descriptions,    \* descriptions (ServerModel) of the id
  Strict,   \* those whose model refuses the option
  NoSpec,   \* null
  MaxLoads  \* bound: load requests in all

ASSUME RoutesAssumption ==
  /\ Strict \subseteq Descriptions
  /\ NoSpec \notin Descriptions /\ NoSpec \notin Routes
  /\ MaxLoads \in Nat

VARIABLES
  registered,       \* the description in _specs
  resident,         \* entry.Model: the description its weights were loaded from
  opened,           \* entry.Session is not null
  gateHolder,       \* who holds the entry's gate
  refusesLanguage,  \* _refusesLanguage has the id
  routeAt,          \* where each request stands
  req,              \* what it is about, and its locals
  loads,            \* how many load requests began
  worked,           \* history: what was registered when a load began, or was loaded
  crossed,          \* history: a load began during another
  abandoned,        \* history: a load ended by a full queue or its client
  mixed             \* history: see Mixes

entryModel == <<resident, opened>>
pooled == <<registered, entryModel, gateHolder, refusesLanguage>>
loadHistory == <<loads, worked, crossed, abandoned>>
history == <<loadHistory, mixed>>
routesVars == <<pooled, routeAt, req, history>>

(* route: "run", "load", or "rollback" of a load; withOption: a run sends  *)
(* the language as an option; captured: the description UseAsync read;     *)
(* registering: the one RegisterAsync puts in; previous: the one a load    *)
(* goes back to.                                                           *)
Request(kind, option, new, old) ==
  [route |-> kind, withOption |-> option, captured |-> NoSpec,
   registering |-> new, previous |-> old]

NoRequest == Request("run", FALSE, NoSpec, NoSpec)

RoutesTypeOK ==
  /\ registered \in Descriptions \cup {NoSpec} /\ resident \in Descriptions \cup {NoSpec}
  /\ opened \in BOOLEAN
  /\ gateHolder \in Routes \cup {NoSpec}
  /\ refusesLanguage \in BOOLEAN
  /\ routeAt \in [Routes -> {"idle", "capture", "queue", "use", "work", "refused", "register",
                             "add", "swap", "release", "clear", "forget", "forgetRelease",
                             "unlist", "drop"}]
  /\ req \in [Routes -> [route : {"run", "load", "rollback"}, withOption : BOOLEAN,
                         captured : Descriptions \cup {NoSpec},
                         registering : Descriptions \cup {NoSpec},
                         previous : Descriptions \cup {NoSpec}]]
  /\ loads \in 0..MaxLoads
  /\ worked \in Descriptions \cup {NoSpec}
  /\ crossed \in BOOLEAN /\ abandoned \in BOOLEAN /\ mixed \in BOOLEAN

RoutesInit ==
  /\ registered \in Descriptions \cup {NoSpec}
  /\ resident = NoSpec /\ opened = FALSE /\ gateHolder = NoSpec
  /\ refusesLanguage = FALSE
  /\ routeAt = [r \in Routes |-> "idle"]
  /\ req = [r \in Routes |-> NoRequest]
  /\ loads = 0
  /\ worked = registered
  /\ crossed = FALSE /\ abandoned = FALSE /\ mixed = FALSE

(* A request goes on; when it answers its locals are gone.                 *)
Stands(r, place, locals) ==
  /\ routeAt' = [routeAt EXCEPT ![r] = place]
  /\ req' = [req EXCEPT ![r] = IF place = "idle" THEN NoRequest ELSE locals]

Goes(r, place) == Stands(r, place, req[r])
Others(r) == {q \in Routes \ {r} : routeAt[q] # "idle"}
Loading == {r \in Routes : routeAt[r] # "idle" /\ req[r].route # "run"}

(* What the routes cannot tell apart: a run and a load at the same time, a *)
(* load cut off with the old model in place, and a request that is served  *)
(* by the weights of another description than it read.                     *)
Mixes(happened) == mixed' = (mixed \/ happened)

-----------------------------------------------------------------------------
(* A run.                                                                  *)

StartRun(r) ==
  /\ routeAt[r] = "idle"
  /\ registered # NoSpec
  /\ \E language \in BOOLEAN :
       Stands(r, "capture", Request("run", language /\ ~refusesLanguage, NoSpec, NoSpec))
  /\ Mixes(Loading # {})
  /\ UNCHANGED <<pooled, loadHistory>>

(* ModelPool.UseAsync, for a run and for LoadAsync: the description first, *)
(* then the gate.  An id that is gone by now ends the request.             *)
Capture(r) ==
  /\ routeAt[r] = "capture"
  /\ Stands(r, IF registered = NoSpec THEN "idle" ELSE "queue",
            [req[r] EXCEPT !.captured = registered])
  /\ UNCHANGED <<pooled, history>>

EnterGate(r) ==
  /\ routeAt[r] = "queue"
  /\ gateHolder = NoSpec
  /\ gateHolder' = r
  /\ Goes(r, "use")
  /\ UNCHANGED <<registered, entryModel, refusesLanguage, history>>

(* ServerBusyException, or the client went, which is seen again while room *)
(* is made: neither is an AudioCppException, so a load is not rolled back. *)
BreakOff(r) ==
  /\ routeAt[r] = "queue" \/ (routeAt[r] = "use" /\ resident = NoSpec)
  /\ gateHolder' = IF routeAt[r] = "use" THEN NoSpec ELSE gateHolder
  /\ Goes(r, "idle")
  /\ abandoned' = (abandoned \/ req[r].route = "load")
  /\ UNCHANGED <<registered, entryModel, refusesLanguage, loads, worked, crossed, mixed>>

(* The session that is there, or one on the weights that are there, or one *)
(* on weights loaded for it.                                               *)
UseResident(r) ==
  /\ routeAt[r] = "use"
  /\ resident' = IF resident = NoSpec THEN req[r].captured ELSE resident
  /\ opened' = TRUE
  /\ Mixes(resident' # req[r].captured)
  /\ Goes(r, "work")
  /\ UNCHANGED <<registered, gateHolder, refusesLanguage, loadHistory>>

(* Opening fails at the weights, or at the session and leaves them.        *)
OpenBreaks(r) ==
  /\ routeAt[r] = "use"
  /\ ~opened
  /\ resident' \in {resident, IF resident = NoSpec THEN req[r].captured ELSE resident}
  /\ gateHolder' = NoSpec
  /\ UNCHANGED <<registered, opened, refusesLanguage, history>>

(* Mutant: a failed load forgets the id, whatever was registered before.   *)
OpenFailsAndForgets(r) ==
  /\ OpenBreaks(r)
  /\ Stands(r, IF req[r].route = "load" THEN "forget" ELSE "idle",
            [req[r] EXCEPT !.route = "rollback"])

(* AudioCppException: a run answers 500, a load is rolled back.            *)
OpenFails(r) ==
  /\ OpenBreaks(r)
  /\ Stands(r, CASE req[r].route = "run" -> "idle"
                 [] req[r].route = "load" /\ req[r].previous # NoSpec -> "register"
                 [] OTHER -> "forget",
            Request("rollback", FALSE, req[r].previous, NoSpec))

(* A run is refused before the model does any work; a load does none.      *)
Work(r) ==
  /\ routeAt[r] = "work"
  /\ gateHolder' = NoSpec
  /\ IF req[r].route = "run" /\ req[r].withOption /\ resident \in Strict
       THEN Goes(r, "refused")
       ELSE Goes(r, "idle")
  /\ worked' = IF req[r].route = "load" THEN req[r].registering ELSE worked
  /\ UNCHANGED <<registered, entryModel, refusesLanguage, loads, crossed, abandoned, mixed>>

(* NoteLanguageRefused, and once more without the option.                  *)
NoteRefusal(r) ==
  /\ routeAt[r] = "refused"
  /\ refusesLanguage' = TRUE
  /\ Stands(r, "capture", [req[r] EXCEPT !.withOption = FALSE])
  /\ UNCHANGED <<registered, entryModel, gateHolder, history>>

-----------------------------------------------------------------------------
(* A load.                                                                 *)

(* A load that finds no other starts the history of loads over, and a      *)
(* reconfiguration that finds nobody that of the models.                   *)
StartLoad(r, s) ==
  /\ routeAt[r] = "idle"
  /\ loads < MaxLoads
  /\ loads' = loads + 1
  /\ Stands(r, "register", Request("load", FALSE, s, registered))
  /\ crossed' = (Loading # {})
  /\ worked' = IF Loading = {} THEN registered ELSE worked
  /\ abandoned' = (abandoned /\ Loading # {})
  /\ mixed' = (Others(r) # {} \/ (mixed /\ s = registered))
  /\ UNCHANGED pooled

AfterRegister(r) == IF req[r].route = "load" THEN "capture" ELSE "idle"

(* ModelPool.RegisterAsync: compared in one lock, replaced in another.     *)
Register(r) ==
  /\ routeAt[r] = "register"
  /\ Goes(r, CASE registered = req[r].registering -> AfterRegister(r)
               [] registered = NoSpec -> "add"
               [] OTHER -> "swap")
  /\ UNCHANGED <<pooled, history>>

Replace(r) ==
  /\ routeAt[r] \in {"add", "swap"}
  /\ registered' = req[r].registering
  /\ Goes(r, IF routeAt[r] = "swap" THEN "release" ELSE "clear")
  /\ UNCHANGED <<entryModel, gateHolder, refusesLanguage, history>>

(* UnloadAsync, behind whoever holds the gate: weights without a session   *)
(* are not taken for a loaded model, and stay.                             *)
ReleaseOld(r) ==
  /\ routeAt[r] \in {"release", "forgetRelease"}
  /\ gateHolder = NoSpec
  /\ resident' = IF opened THEN NoSpec ELSE resident
  /\ opened' = FALSE
  /\ Goes(r, IF routeAt[r] = "release" THEN "clear" ELSE "unlist")
  /\ UNCHANGED <<registered, gateHolder, refusesLanguage, history>>

(* A rollback is not cancelled, a load is.                                 *)
CancelReleaseOld(r) ==
  /\ routeAt[r] = "release"
  /\ req[r].route = "load"
  /\ Goes(r, "idle")
  /\ abandoned' = TRUE
  /\ Mixes(TRUE)
  /\ UNCHANGED <<pooled, loads, worked, crossed>>

(* Mutant: the refusal outlives the description it was about.              *)
ClearNothing(r) ==
  /\ routeAt[r] = "clear"
  /\ Goes(r, AfterRegister(r))
  /\ UNCHANGED <<pooled, history>>

ClearRefusal(r) ==
  /\ routeAt[r] = "clear"
  /\ refusesLanguage' = FALSE
  /\ Goes(r, AfterRegister(r))
  /\ UNCHANGED <<registered, entryModel, gateHolder, history>>

(* ForgetAsync.                                                            *)
Forget(r) ==
  /\ routeAt[r] = "forget"
  /\ Goes(r, IF registered = NoSpec THEN "idle" ELSE "forgetRelease")
  /\ UNCHANGED <<pooled, history>>

RemoveSpec(r) ==
  /\ routeAt[r] = "unlist"
  /\ registered' = NoSpec
  /\ Goes(r, "drop")
  /\ UNCHANGED <<entryModel, gateHolder, refusesLanguage, history>>

(* The entry goes, and what it still holds with it.                        *)
DropEntry(r) ==
  /\ routeAt[r] = "drop"
  /\ resident' = IF gateHolder = NoSpec THEN NoSpec ELSE resident
  /\ opened' = (opened /\ gateHolder # NoSpec)
  /\ Goes(r, "clear")
  /\ UNCHANGED <<registered, gateHolder, refusesLanguage, history>>

(* The unload routes free a loaded model, and a load of another id evicts  *)
(* whatever holds weights (ModelPool.tla: Evict).                          *)
FreeModel ==
  /\ gateHolder = NoSpec
  /\ resident # NoSpec
  /\ resident' = NoSpec /\ opened' = FALSE
  /\ UNCHANGED <<registered, gateHolder, refusesLanguage, routeAt, req, history>>

-----------------------------------------------------------------------------

RoutesNext ==
  \/ \E r \in Routes :
       \/ StartRun(r) \/ Capture(r) \/ EnterGate(r) \/ BreakOff(r) \/ UseResident(r) \/ OpenFails(r)
       \/ Work(r) \/ NoteRefusal(r)
       \/ \E s \in Descriptions : StartLoad(r, s)
       \/ Register(r) \/ Replace(r) \/ ReleaseOld(r) \/ CancelReleaseOld(r) \/ ClearRefusal(r)
       \/ Forget(r) \/ RemoveSpec(r) \/ DropEntry(r)
  \/ FreeModel

RoutesSpec == RoutesInit /\ [][RoutesNext]_routesVars

-----------------------------------------------------------------------------

(* The registration stands or falls with the load: when no load is in      *)
(* progress, the id is registered as the last load left it that answered   *)
(* "loaded", or as it was before one that failed at its weights or at its  *)
(* session, whatever ran, was refused, unloaded or evicted at the time; as *)
(* long as the load did not overlap another and was not given up half way  *)
(* (LoadModelAsync).                                                       *)
RegistrationStandsOrFalls ==
  Loading = {} /\ ~abandoned /\ ~crossed => registered = worked

(* What is remembered of the language option is true of the description    *)
(* that is registered.  Where a load meets a run it may not be, but it is  *)
(* again from the next reconfiguration that meets nobody, even one that    *)
(* fails and is rolled back (RunWithLanguageAsync, NoteLanguageRefused,    *)
(* RegisterAsync).                                                         *)
RefusalFitsModel ==
  Loading = {} /\ ~mixed /\ refusesLanguage => registered \in Strict

(* A request gets the model its id was registered as, which is what        *)
(* swapping the description before unloading is for (ModelPool.cs:131-139) *)
(* and what goes back on a failed load (Routes.cs:514-518).                *)
OwnWeights ==
  \A r \in Routes : routeAt[r] = "work" => resident = req[r].captured

(* Where a run, a load and a rollback may stand, and whose the gate is.    *)
ControlInv(r) ==
  /\ routeAt[r] \in {"use", "work"} <=> gateHolder = r
  /\ routeAt[r] = "idle" => req[r] = NoRequest
  /\ req[r].route = "run" =>
       routeAt[r] \in {"idle", "capture", "queue", "use", "work", "refused"}
  /\ req[r].route = "load" =>
       routeAt[r] \in {"register", "add", "swap", "release", "clear", "capture", "queue", "use",
                       "work"}
  /\ req[r].route = "rollback" =>
       routeAt[r] \in {"register", "add", "swap", "release", "clear", "forget", "forgetRelease",
                       "unlist", "drop"}

(* What is registered while a load is the only one: the description it     *)
(* found, then the one it puts in, and the first again once it failed.     *)
LoadInv(r) ==
  /\ req[r].registering \in Descriptions
  /\ req[r].previous = worked
  /\ registered = IF routeAt[r] \in {"register", "add", "swap"} THEN worked
                  ELSE req[r].registering

RollbackInv(r) ==
  /\ req[r].registering = worked
  /\ routeAt[r] = "add" => registered = NoSpec
  /\ routeAt[r] \in {"register", "swap"} => worked # NoSpec /\ registered # NoSpec
  /\ routeAt[r] = "release" => registered = worked
  /\ routeAt[r] \in {"forget", "forgetRelease", "unlist"} => worked = NoSpec
  /\ routeAt[r] \in {"drop", "clear"} => registered = worked

StandsOrFallsInv ==
  ~crossed /\ ~abandoned =>
    /\ \A r, q \in Loading : r = q
    /\ \A r \in Loading : /\ req[r].route = "load" => LoadInv(r)
                          /\ req[r].route = "rollback" => RollbackInv(r)
    /\ Loading = {} => registered = worked

(* What is known of a refusal while nothing is mixed: a load is alone, and *)
(* the runs work with what is registered.                                  *)
RunFits(r) ==
  /\ routeAt[r] \in {"queue", "use"} => req[r].captured = registered
  /\ routeAt[r] = "work" => resident = registered
  /\ routeAt[r] = "refused" => registered \in Strict

LoadFits(r) ==
  LET new == req[r].registering
      old == req[r].previous
  IN /\ new \in Descriptions
     /\ routeAt[r] \in {"register", "add", "swap"} =>
          registered = old /\ (new = old /\ refusesLanguage => old \in Strict)
     /\ routeAt[r] \in {"add", "swap"} => new # old
     /\ routeAt[r] \notin {"register", "add", "swap"} => registered = new
     /\ routeAt[r] \in {"capture", "queue", "use", "work"} =>
          (refusesLanguage => new = old /\ new \in Strict)

RollbackFits(r) ==
  refusesLanguage =>
    routeAt[r] = "register" /\ registered = req[r].registering /\ registered \in Strict

FitsInv ==
  ~mixed =>
    /\ \A r \in Loading :
         /\ Others(r) = {}
         /\ req[r].route = "load" => LoadFits(r)
         /\ req[r].route = "rollback" => RollbackFits(r)
    /\ Loading = {} =>
         /\ refusesLanguage => registered \in Strict
         /\ \A r \in Routes : RunFits(r)

(* The inductive invariant of the routes.                                  *)
RoutesInv ==
  /\ RoutesTypeOK
  /\ \A r \in Routes : ControlInv(r)
  /\ StandsOrFallsInv /\ FitsInv
================================================================================
