----------------------------- MODULE ServerLifecycle ----------------------------
(***************************************************************************)
(* Starting and stopping the HTTP server from its page: AudioCppServer     *)
(* (StartAsync, StopAsync, TearDownAsync), the warm-up and the disposal of *)
(* its pool, and the page's two commands.  Everything but the requests     *)
(* runs on the window's thread, so a step is what happens between two      *)
(* awaits; the one blocking wait, in ModelPool.Dispose, stops that thread. *)
(*                                                                         *)
(* A pool is named by the call that made it, and so is its application.    *)
(* Sessions are left to ModelPool.tla: of a pool's entry only the gate and *)
(* whether it was disposed matter here.                                    *)
(***************************************************************************)
EXTENDS Naturals

CONSTANTS
  Models,    \* the ids of the configuration
  HttpClients,  \* clients
  MaxServerCalls   \* bound: calls of Start and Stop in all

ASSUME ServerAssumption == MaxServerCalls \in Nat

ServerCalls == 1..MaxServerCalls
NoCall == 0

VARIABLES
  serverState,      \* AudioCppServer.State
  app,        \* _app
  pool,       \* _pool
  listening,  \* the applications bound to the port and serving
  gone,       \* the entries disposed, as <<pool, model>>
  callAt,         \* where each call stands
  target,     \* the application it awaits, or the pool it uses or disposes
  remaining,       \* the models it has still to warm or to dispose
  stops,      \* the calls that are of Stop
  shown,      \* the state at the page's last Refresh
  reqAt,      \* where each client's request stands
  reqEntry,   \* the entry it is for
  overlapped  \* history: a call began while another was in progress

calls == <<callAt, target, remaining, stops>>
requests == <<reqAt, reqEntry>>
server == <<serverState, app, pool>>
serverVars == <<server, listening, gone, calls, shown, requests, overlapped>>

Idle == {"unused", "done"}
Quiet == \A c \in ServerCalls : callAt[c] \in Idle
Down == serverState \in {"Stopped", "Failed"}
PoolEntries == ServerCalls \X Models
NoEntry == << >>

ServerTypeOK ==
  /\ serverState \in {"Stopped", "Starting", "Running", "Stopping", "Failed"}
  /\ shown \in {"Stopped", "Starting", "Running", "Stopping", "Failed"}
  /\ app \in ServerCalls \cup {NoCall} /\ pool \in ServerCalls \cup {NoCall}
  /\ listening \subseteq ServerCalls
  /\ gone \subseteq PoolEntries
  /\ callAt \in [ServerCalls -> {"unused", "binding", "warming", "draining", "disposing", "done"}]
  /\ target \in [ServerCalls -> ServerCalls \cup {NoCall}]
  /\ remaining \in [ServerCalls -> SUBSET Models]
  /\ stops \subseteq ServerCalls
  /\ reqAt \in [HttpClients -> {"none", "asking", "using"}]
  /\ reqEntry \in [HttpClients -> PoolEntries \cup {NoEntry}]
  /\ overlapped \in BOOLEAN

ServerInit ==
  /\ serverState = "Stopped" /\ shown = "Stopped"
  /\ app = NoCall /\ pool = NoCall
  /\ listening = {} /\ gone = {}
  /\ callAt = [c \in ServerCalls |-> "unused"]
  /\ target = [c \in ServerCalls |-> NoCall]
  /\ remaining = [c \in ServerCalls |-> {}]
  /\ stops = {}
  /\ reqAt = [r \in HttpClients |-> "none"]
  /\ reqEntry = [r \in HttpClients |-> NoEntry]
  /\ overlapped = FALSE

GateFree(e) == \A r \in HttpClients : ~(reqAt[r] = "using" /\ reqEntry[r] = e)

(* A call in ModelPool.Dispose keeps the window's thread from all others.  *)
WindowFree(c) == \A d \in ServerCalls : callAt[d] = "disposing" => d = c

-----------------------------------------------------------------------------
(* TearDownAsync, as the end of the segment that calls it: the application *)
(* of the moment is drained and then the pool of that later moment goes.   *)

DisposePool(c) ==
  /\ callAt' = [callAt EXCEPT ![c] = "disposing"]
  /\ target' = [target EXCEPT ![c] = pool]
  /\ remaining' = [remaining EXCEPT ![c] = IF pool = NoCall THEN {} ELSE Models]

TearDown(c, running) ==
  \/ /\ running # NoCall
     /\ app' = NoCall
     /\ listening' = listening \ {running}
     /\ callAt' = [callAt EXCEPT ![c] = "draining"]
     /\ target' = [target EXCEPT ![c] = running]
     /\ remaining' = [remaining EXCEPT ![c] = {}]
  \/ /\ running = NoCall
     /\ DisposePool(c)
     /\ UNCHANGED <<app, listening>>

(* app.StopAsync waits ten seconds at most for the requests in flight.     *)
DrainEnds(c) ==
  /\ WindowFree(c)
  /\ callAt[c] = "draining"
  /\ DisposePool(c)
  /\ UNCHANGED <<server, listening, gone, stops, shown, requests, overlapped>>

DisposeEntry(c, k) ==
  /\ callAt[c] = "disposing"
  /\ k \in remaining[c]
  /\ GateFree(<<target[c], k>>)
  /\ gone' = gone \cup {<<target[c], k>>}
  /\ remaining' = [remaining EXCEPT ![c] = @ \ {k}]
  /\ UNCHANGED <<server, listening, callAt, target, stops, shown, requests, overlapped>>

(* Mutant: the stop does not record that it ended.                         *)
TearDownLeavesState(c) ==
  /\ callAt[c] = "disposing"
  /\ remaining[c] = {}
  /\ pool' = NoCall
  /\ shown' = serverState
  /\ callAt' = [callAt EXCEPT ![c] = "done"]
  /\ UNCHANGED <<app, serverState, listening, gone, target, remaining, stops, requests, overlapped>>

(* A start that failed has set its state before; a stop sets it now.  The  *)
(* page refreshes when either returns.                                     *)
TearDownEnds(c) ==
  /\ callAt[c] = "disposing"
  /\ remaining[c] = {}
  /\ pool' = NoCall
  /\ serverState' = IF c \in stops THEN "Stopped" ELSE serverState
  /\ shown' = serverState'
  /\ callAt' = [callAt EXCEPT ![c] = "done"]
  /\ UNCHANGED <<app, listening, gone, target, remaining, stops, requests, overlapped>>

-----------------------------------------------------------------------------
(* The page's commands.  A button is offered by the last refresh and asks  *)
(* again when it is pressed; the next unused call stands for this one.     *)

Press(c) ==
  /\ WindowFree(c)
  /\ callAt[c] = "unused"
  /\ \A d \in 1..(c - 1) : callAt[d] # "unused"
  /\ overlapped' = (overlapped \/ ~Quiet)

PressStart(c) ==
  /\ Press(c)
  /\ shown \in {"Stopped", "Failed"}
  /\ Down
  /\ serverState' = "Starting"
  /\ pool' = c
  /\ shown' = serverState
  /\ callAt' = [callAt EXCEPT ![c] = "binding"]
  /\ UNCHANGED <<app, listening, gone, target, remaining, stops, requests>>

PressStop(c) ==
  /\ Press(c)
  /\ shown = "Running"
  /\ serverState = "Running"
  /\ serverState' = "Stopping"
  /\ stops' = stops \cup {c}
  /\ TearDown(c, app)
  /\ UNCHANGED <<pool, gone, shown, requests>>

(* Mutant: a start that fails says so and leaves what it had set up.       *)
StartJustFails(c, running) ==
  /\ serverState' = "Failed"
  /\ callAt' = [callAt EXCEPT ![c] = "done"]
  /\ shown' = serverState'
  /\ UNCHANGED <<app, pool, listening, gone, target, remaining, stops, requests, overlapped>>

(* StartAsync's catch: whatever went wrong, the moment's server goes.      *)
StartThrows(c, running) ==
  /\ serverState' = "Failed"
  /\ TearDown(c, running)
  /\ UNCHANGED <<pool, gone, stops, shown, requests, overlapped>>

(* The port is taken, by this process or another, or the address is none.  *)
BindFails(c) ==
  /\ WindowFree(c)
  /\ callAt[c] = "binding"
  /\ StartThrows(c, app)

(* Bound, it warms the pool of the moment, which may be none by now.       *)
Binds(c) ==
  /\ WindowFree(c)
  /\ callAt[c] = "binding"
  /\ listening = {}
  /\ pool # NoCall
  /\ app' = c
  /\ listening' = {c}
  /\ serverState' = "Running"
  /\ callAt' = [callAt EXCEPT ![c] = "warming"]
  /\ target' = [target EXCEPT ![c] = pool]
  /\ \E eager \in {{}, Models} : remaining' = [remaining EXCEPT ![c] = eager]
  /\ UNCHANGED <<pool, gone, stops, shown, requests, overlapped>>

BindsWithoutPool(c) ==
  /\ WindowFree(c)
  /\ callAt[c] = "binding"
  /\ listening = {}
  /\ pool = NoCall
  /\ StartThrows(c, c)

(* The model is loaded, or it would not load and that was logged.  In a    *)
(* pool that was disposed the registry's handle is freed, and what a load  *)
(* with it comes to is not defined: this, or an exception.                 *)
WarmModel(c, k) ==
  /\ WindowFree(c)
  /\ callAt[c] = "warming"
  /\ k \in remaining[c]
  /\ GateFree(<<target[c], k>>)
  /\ remaining' = [remaining EXCEPT ![c] = @ \ {k}]
  /\ UNCHANGED <<server, listening, gone, callAt, target, stops, shown, requests, overlapped>>

(* Neither ServerBusyException, from a gate a request has held too long,   *)
(* nor ObjectDisposedException is one WarmAsync catches.                   *)
WarmUpThrows(c) ==
  /\ WindowFree(c)
  /\ callAt[c] = "warming"
  /\ \E k \in remaining[c] : ~GateFree(<<target[c], k>>) \/ <<target[c], k>> \in gone
  /\ StartThrows(c, app)

WarmUpEnds(c) ==
  /\ WindowFree(c)
  /\ callAt[c] = "warming"
  /\ remaining[c] = {}
  /\ shown' = serverState
  /\ callAt' = [callAt EXCEPT ![c] = "done"]
  /\ UNCHANGED <<server, listening, gone, target, remaining, stops, requests, overlapped>>

-----------------------------------------------------------------------------
(* Requests, on threads of their own: a route keeps the pool it was mapped *)
(* with, and waits for the gate of the model it names.                     *)

Ask(r, e) ==
  /\ reqAt[r] = "none"
  /\ e[1] \in listening
  /\ reqAt' = [reqAt EXCEPT ![r] = "asking"]
  /\ reqEntry' = [reqEntry EXCEPT ![r] = e]
  /\ UNCHANGED <<server, listening, gone, calls, shown, overlapped>>

Use(r) ==
  /\ reqAt[r] = "asking"
  /\ GateFree(reqEntry[r]) /\ reqEntry[r] \notin gone
  /\ reqAt' = [reqAt EXCEPT ![r] = "using"]
  /\ UNCHANGED <<server, listening, gone, calls, shown, reqEntry, overlapped>>

(* Served; or busy for too long, aborted, or too late for its pool.        *)
Leave(r) ==
  /\ reqAt[r] # "none"
  /\ reqAt' = [reqAt EXCEPT ![r] = "none"]
  /\ reqEntry' = [reqEntry EXCEPT ![r] = NoEntry]
  /\ UNCHANGED <<server, listening, gone, calls, shown, overlapped>>

-----------------------------------------------------------------------------

Proceed(c) ==
  \/ BindFails(c) \/ Binds(c) \/ BindsWithoutPool(c)
  \/ \E k \in Models : WarmModel(c, k)
  \/ WarmUpThrows(c) \/ WarmUpEnds(c)
  \/ DrainEnds(c)
  \/ \E k \in Models : DisposeEntry(c, k)
  \/ TearDownEnds(c)

ServerNext ==
  \/ \E c \in ServerCalls : PressStart(c) \/ PressStop(c) \/ Proceed(c)
  \/ \E r \in HttpClients : Use(r) \/ Leave(r) \/ \E e \in PoolEntries : Ask(r, e)

(* The bind returns, a warm-up waits no longer than busy_timeout_ms, the   *)
(* drain is bounded, and a request ends: an inference is taken to end.     *)
ServerFairness ==
  /\ \A c \in ServerCalls : WF_serverVars(Proceed(c))
  /\ \A r \in HttpClients : WF_serverVars(Leave(r))

ServerSpec == ServerInit /\ [][ServerNext]_serverVars /\ ServerFairness

-----------------------------------------------------------------------------

(* As long as no command is given while another is in progress, the state  *)
(* tells the truth: Running means the port answers with a pool none of     *)
(* which is disposed, and a server at rest has released the port and       *)
(* disposed every pool it made (AudioCppServer.StartAsync, TearDownAsync). *)
StateTellsTruth ==
  ~overlapped =>
    /\ serverState = "Running" =>
         /\ app # NoCall /\ listening = {app} /\ pool = app
         /\ \A k \in Models : <<app, k>> \notin gone
    /\ Quiet /\ Down =>
         /\ listening = {} /\ app = NoCall /\ pool = NoCall
         /\ \A c \in ServerCalls : callAt[c] = "done" /\ c \notin stops =>
              \A k \in Models : <<c, k>> \in gone

(* A stop ends, whatever requests were running when it was pressed         *)
(* (AudioCppServer.StopAsync, ModelPool.Dispose).                          *)
StopCompletes == serverState = "Stopping" ~> serverState # "Stopping"

(* The inductive invariant.  While no two calls overlap, the one that is in*)
(* progress says what is up: the pool it made or is about to take down, and*)
(* every pool of an earlier start has been disposed (StartAsync,           *)
(* TearDownAsync).                                                         *)
NothingUp == app = NoCall /\ listening = {}

Served ==
  /\ app # NoCall /\ listening = {app} /\ pool = app
  /\ app \notin stops /\ callAt[app] # "unused"
  /\ \A k \in Models : <<app, k>> \notin gone

CommandInv(c) ==
  /\ callAt[c] = "unused" => c \notin stops /\ \A k \in Models : <<c, k>> \notin gone
  /\ callAt[c] = "binding" =>
       /\ serverState = "Starting" /\ NothingUp /\ pool = c /\ c \notin stops
       /\ \A k \in Models : <<c, k>> \notin gone
  /\ callAt[c] = "warming" =>
       serverState = "Running" /\ Served /\ app = c /\ target[c] = c
  /\ callAt[c] \in {"draining", "disposing"} =>
       /\ NothingUp /\ pool # NoCall /\ pool \notin stops
       /\ IF c \in stops THEN serverState = "Stopping" /\ callAt[pool] = "done"
          ELSE serverState = "Failed" /\ pool = c
  /\ callAt[c] = "disposing" =>
       target[c] = pool /\ \A k \in Models \ remaining[c] : <<pool, k>> \in gone
  /\ callAt[c] = "done" /\ c \notin stops /\ c # pool => \A k \in Models : <<c, k>> \in gone

ServerInv ==
  /\ ServerTypeOK
  /\ \A c \in ServerCalls :
       callAt[c] = "disposing" /\ remaining[c] # {} => target[c] # NoCall
  /\ ~overlapped =>
       /\ \A c, d \in ServerCalls : callAt[c] \notin Idle /\ callAt[d] \notin Idle => c = d
       /\ \A c \in ServerCalls : CommandInv(c)
       /\ Quiet => \/ serverState = "Running" /\ Served
                   \/ Down /\ NothingUp /\ pool = NoCall
================================================================================
