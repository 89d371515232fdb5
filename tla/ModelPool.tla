------------------------------- MODULE ModelPool -------------------------------
(***************************************************************************)
(* The server's model pool (src/AudioCpp.Server/ModelPool.cs): models      *)
(* loaded on demand, used by one request at a time, evicted to stay within *)
(* max_loaded_models, and registered, reconfigured, unloaded and forgotten *)
(* while requests are in flight.                                           *)
(*                                                                         *)
(* A thread is one request being handled by the server; its pc names the   *)
(* await or the lock it stands at, so one action is the code between two   *)
(* points where another thread can run.  An Entry object is an element of  *)
(* Entries: forgetting an id and using it again creates a different Entry, *)
(* and threads may still hold the old one.                                 *)
(***************************************************************************)
EXTENDS Naturals, Sequences, FiniteSets, Functions

CONSTANTS
  Requests,    \* threads that call UseAsync or UseStreamingAsync
  Managers,    \* threads that call the management methods
  Ids,         \* model ids
  Specs,       \* descriptions (ServerModel without its id)
  Entries,     \* Entry objects
  Configured,  \* config.Models: the descriptions the server starts with
  MaxLoaded,   \* config.MaxLoadedModels, 0 for no limit
  BusyTimeout, \* whether config.BusyTimeoutMs > 0
  Calls,       \* the management methods that are called
  Faults,      \* what may fail: "load", "session", "cancel"
  None         \* null

CallNames == {"register", "unload", "unload_all", "forget", "note"}

Threads == Requests \cup Managers

ASSUME PoolAssumption ==
  /\ Requests \cap Managers = {}
  /\ IsFiniteSet(Ids)
  /\ MaxLoaded \in Nat
  /\ BusyTimeout \in BOOLEAN
  /\ Calls \subseteq CallNames
  /\ Faults \subseteq {"load", "session", "cancel"}
  /\ None \notin Threads \cup Ids \cup Specs \cup Entries
  /\ Configured \in [Ids -> Specs \cup {None}]

VARIABLES
  specs,    \* _specs: the registered description of each id
  entries,  \* _entries: the Entry in the table under each id
  gate,     \* Entry.Gate: the thread holding it
  model,    \* Entry.Model: the description its weights were loaded from
  session,  \* Entry.Session: the description the session was created from
  older,    \* <<e, f>>: Entry.UsedAtTicks of e is below that of f
  refuses,  \* _refusesLanguage
  pc,       \* where each thread stands
  call,     \* the public method each thread is in
  id,       \* that call's id
  spec,     \* that call's captured or given description
  entry,    \* the Entry it works on
  plan,     \* MakeRoomAsync: candidates left, least recently used first
  todo      \* UnloadAllAsync: ids left

table == <<specs, entries, refuses>>
weights == <<model, session, older>>
local == <<call, id, spec, entry, plan, todo>>
vars == <<specs, entries, gate, model, session, older, refuses,
          pc, call, id, spec, entry, plan, todo>>

(* Where a thread holds the gate of its own entry.                         *)
Serving == {"serve", "room", "scan", "evict", "load", "create", "run"}
Holding == Serving \cup {"free"}
PCs == Holding \cup
       {"idle", "enter", "wait", "lookup", "add", "swap", "clear",
        "unlist", "drop", "next"}

TypeOK ==
  /\ specs \in [Ids -> Specs \cup {None}]
  /\ entries \in [Ids -> Entries \cup {None}]
  /\ gate \in [Entries -> Threads \cup {None}]
  /\ model \in [Entries -> Specs \cup {None}]
  /\ session \in [Entries -> Specs \cup {None}]
  /\ older \in SUBSET (Entries \X Entries)
  /\ refuses \in SUBSET Ids
  /\ pc \in [Threads -> PCs]
  /\ call \in [Threads -> {"none", "use"} \cup CallNames]
  /\ id \in [Threads -> Ids \cup {None}]
  /\ spec \in [Threads -> Specs \cup {None}]
  /\ entry \in [Threads -> Entries \cup {None}]
  /\ plan \in [Threads -> Seq(Entries)]
  /\ todo \in [Threads -> SUBSET Ids]

Init ==
  /\ specs = Configured
  /\ entries = [i \in Ids |-> None]
  /\ gate = [e \in Entries |-> None]
  /\ model = [e \in Entries |-> None]
  /\ session = [e \in Entries |-> None]
  /\ older = {}
  /\ refuses = {}
  /\ pc = [t \in Threads |-> "idle"]
  /\ call = [t \in Threads |-> "none"]
  /\ id = [t \in Threads |-> None]
  /\ spec = [t \in Threads |-> None]
  /\ entry = [t \in Threads |-> None]
  /\ plan = [t \in Threads |-> << >>]
  /\ todo = [t \in Threads |-> {}]

-----------------------------------------------------------------------------
(* Control of one thread.                                                  *)

Goto(t, label) == pc' = [pc EXCEPT ![t] = label]

(* The call starts; u and s are its id and description, ids what it walks. *)
Begin(t, name, label, i, s, ids) ==
  /\ pc[t] = "idle"
  /\ Goto(t, label)
  /\ call' = [call EXCEPT ![t] = name]
  /\ id' = [id EXCEPT ![t] = i]
  /\ spec' = [spec EXCEPT ![t] = s]
  /\ todo' = [todo EXCEPT ![t] = ids]
  /\ UNCHANGED <<entry, plan, table, gate, weights>>

(* The call returns or throws: its locals are gone.                        *)
Return(t) ==
  /\ Goto(t, "idle")
  /\ call' = [call EXCEPT ![t] = "none"]
  /\ id' = [id EXCEPT ![t] = None]
  /\ spec' = [spec EXCEPT ![t] = None]
  /\ entry' = [entry EXCEPT ![t] = None]
  /\ plan' = [plan EXCEPT ![t] = << >>]
  /\ todo' = [todo EXCEPT ![t] = {}]

Take(t, e) ==
  /\ gate[e] = None
  /\ gate' = [gate EXCEPT ![e] = t]

Release(e) == gate' = [gate EXCEPT ![e] = None]

(* UsedAtTicks = UtcNow: every other entry was used earlier.               *)
Touch(e) ==
  older' = {p \in older : p[1] # e} \cup ((Entries \ {e}) \X {e})

(* UsedAtTicks = 0: an entry was used before every other that was used.    *)
Unused(e) ==
  LET others == {p \in older : p[2] # e}
  IN others \cup {<<e, p[2]>> : p \in others}

(* The entries no table slot and no thread can reach.                      *)
Reachable(e) ==
  \/ e \in Range(entries)
  \/ \E t \in Threads : e = entry[t] \/ e \in Range(plan[t])

Fresh(e) == ~Reachable(e) /\ model[e] = None

-----------------------------------------------------------------------------
(* UseAsync / UseStreamingAsync.                                           *)

(* The description is captured before the entry is found and waited for.   *)
StartUse(t, i) ==
  /\ specs[i] # None
  /\ Begin(t, "use", "enter", i, specs[i], {})

(* _entries.GetOrAdd: a new Entry has never been used (ticks 0).           *)
EnterTable(t) ==
  /\ pc[t] = "enter"
  /\ \/ /\ entries[id[t]] # None
        /\ entry' = [entry EXCEPT ![t] = entries[id[t]]]
        /\ UNCHANGED <<entries, older>>
     \/ /\ entries[id[t]] = None
        /\ \E e \in Entries :
             /\ Fresh(e)
             /\ entries' = [entries EXCEPT ![id[t]] = e]
             /\ entry' = [entry EXCEPT ![t] = e]
             /\ older' = Unused(e)
  /\ Goto(t, "wait")
  /\ UNCHANGED <<specs, refuses, gate, model, session, call, id, spec, plan, todo>>

(* Gate.WaitAsync succeeds, for a run or for an unload.                    *)
TakeGate(t) ==
  /\ pc[t] = "wait"
  /\ Take(t, entry[t])
  /\ Goto(t, IF call[t] = "use" THEN "serve" ELSE "free")
  /\ UNCHANGED <<table, weights, local>>

(* The client went away while its request was queued on a gate.            *)
CancelWait(t) ==
  /\ "cancel" \in Faults
  /\ pc[t] = "wait"
  /\ Return(t)
  /\ UNCHANGED <<table, gate, weights>>

(* Mutant: the timeout of the wait is applied the wrong way round.         *)
GiveUpUnbounded(t) ==
  /\ pc[t] = "wait"
  /\ call[t] = "use"
  /\ ~BusyTimeout
  /\ Return(t)
  /\ UNCHANGED <<table, gate, weights>>

(* ServerBusyException: only a run bounds its wait.                        *)
GiveUp(t) ==
  /\ pc[t] = "wait"
  /\ call[t] = "use"
  /\ BusyTimeout
  /\ gate[entry[t]] # None
  /\ Return(t)
  /\ UNCHANGED <<table, gate, weights>>

(* Mutant: the gate is released before work() is awaited.                  *)
ReuseReleasing(t) ==
  /\ pc[t] = "serve"
  /\ session[entry[t]] # None
  /\ Touch(entry[t])
  /\ Release(entry[t])
  /\ Goto(t, "run")
  /\ UNCHANGED <<table, model, session, local>>

(* A resident session is reused.                                           *)
Reuse(t) ==
  /\ pc[t] = "serve"
  /\ session[entry[t]] # None
  /\ Touch(entry[t])
  /\ Goto(t, "run")
  /\ UNCHANGED <<table, gate, model, session, local>>

(* No session: room is made only when the weights are to be read too.      *)
Open(t) ==
  /\ pc[t] = "serve"
  /\ session[entry[t]] = None
  /\ Goto(t, IF model[entry[t]] # None THEN "create"
             ELSE IF MaxLoaded > 0 THEN "room" ELSE "load")
  /\ UNCHANGED <<table, gate, weights, local>>

(* entry.Model ??= _registry.Load(spec...)                                 *)
LoadWeights(t) ==
  /\ pc[t] = "load"
  /\ model' = [model EXCEPT ![entry[t]] = spec[t]]
  /\ Goto(t, "create")
  /\ UNCHANGED <<table, gate, session, older, local>>

(* Mutant: the exception path does not release the gate.                   *)
LoadFailsHolding(t) ==
  /\ "load" \in Faults
  /\ pc[t] = "load"
  /\ Return(t)
  /\ UNCHANGED <<table, gate, weights>>

(* An exception leaves through the finally that releases the gate.         *)
LoadFails(t) ==
  /\ "load" \in Faults
  /\ pc[t] = "load"
  /\ Release(entry[t])
  /\ Return(t)
  /\ UNCHANGED <<table, weights>>

CreateSession(t) ==
  /\ pc[t] = "create"
  /\ session' = [session EXCEPT ![entry[t]] = spec[t]]
  /\ Touch(entry[t])
  /\ Goto(t, "run")
  /\ UNCHANGED <<table, gate, model, local>>

(* The weights just read stay in the entry.                                *)
CreateSessionFails(t) ==
  /\ "session" \in Faults
  /\ pc[t] = "create"
  /\ Release(entry[t])
  /\ Return(t)
  /\ UNCHANGED <<table, weights>>

(* work() returned, threw or was cancelled.                                *)
Finish(t) ==
  /\ pc[t] = "run"
  /\ Release(entry[t])
  /\ Return(t)
  /\ UNCHANGED <<table, weights>>

-----------------------------------------------------------------------------
(* MakeRoomAsync.                                                          *)

Resident(i) ==
  {e \in {entries[j] : j \in Ids \ {i}} \ {None} : model[e] # None}

(* OrderBy(UsedAtTicks): ties, the entries never used, in any order.       *)
EvictionOrders(S) ==
  {p \in [1..Cardinality(S) -> S] :
     /\ IsInjective(p)
     /\ \A i, j \in 1..Cardinality(S) : i < j => <<p[j], p[i]>> \notin older}

(* One pass of the while loop: count, then fix the candidates' order.      *)
Survey(t) ==
  /\ pc[t] = "room"
  /\ LET resident == Resident(id[t])
     IN \/ /\ Cardinality(resident) + 1 <= MaxLoaded
           /\ Goto(t, "load")
           /\ UNCHANGED plan
        \/ /\ Cardinality(resident) + 1 > MaxLoaded
           /\ \E p \in EvictionOrders(resident) : plan' = [plan EXCEPT ![t] = p]
           /\ Goto(t, "scan")
  /\ UNCHANGED <<table, gate, weights, call, id, spec, entry, todo>>

(* Mutant: the victim's gate is not tried.                                 *)
TryEvictBusy(t) ==
  /\ pc[t] = "scan"
  /\ plan[t] # << >>
  /\ gate' = [gate EXCEPT ![Head(plan[t])] = t]
  /\ Goto(t, "evict")
  /\ UNCHANGED <<table, weights, local>>

(* Gate.WaitAsync(0) on the next candidate.                                *)
TryEvict(t) ==
  /\ pc[t] = "scan"
  /\ plan[t] # << >>
  /\ Take(t, Head(plan[t]))
  /\ Goto(t, "evict")
  /\ UNCHANGED <<table, weights, local>>

SkipBusy(t) ==
  /\ pc[t] = "scan"
  /\ plan[t] # << >>
  /\ gate[Head(plan[t])] # None
  /\ plan' = [plan EXCEPT ![t] = Tail(@)]
  /\ UNCHANGED <<table, gate, weights, pc, call, id, spec, entry, todo>>

(* It was unloaded since it was counted: on to the next candidate.         *)
SkipEmpty(t) ==
  /\ pc[t] = "evict"
  /\ model[Head(plan[t])] = None
  /\ Release(Head(plan[t]))
  /\ plan' = [plan EXCEPT ![t] = Tail(@)]
  /\ Goto(t, "scan")
  /\ UNCHANGED <<table, weights, call, id, spec, entry, todo>>

(* Mutant: the weights are freed under the session.                        *)
EvictKeepingSession(t) ==
  /\ pc[t] = "evict"
  /\ LET victim == Head(plan[t])
     IN /\ model[victim] # None
        /\ model' = [model EXCEPT ![victim] = None]
        /\ Release(victim)
  /\ plan' = [plan EXCEPT ![t] = << >>]
  /\ Goto(t, "room")
  /\ UNCHANGED <<table, session, older, call, id, spec, entry, todo>>

(* Session and weights go, and the residents are counted again.            *)
Evict(t) ==
  /\ pc[t] = "evict"
  /\ LET victim == Head(plan[t])
     IN /\ model[victim] # None
        /\ session' = [session EXCEPT ![victim] = None]
        /\ model' = [model EXCEPT ![victim] = None]
        /\ Release(victim)
  /\ plan' = [plan EXCEPT ![t] = << >>]
  /\ Goto(t, "room")
  /\ UNCHANGED <<table, older, call, id, spec, entry, todo>>

(* Every candidate was busy or already empty: the load proceeds anyway.    *)
NothingToEvict(t) ==
  /\ pc[t] = "scan"
  /\ plan[t] = << >>
  /\ Goto(t, "load")
  /\ UNCHANGED <<table, gate, weights, local>>

(* WaitAsync(0, cancel) throws once the token is cancelled.                *)
CancelScan(t) ==
  /\ "cancel" \in Faults
  /\ pc[t] = "scan"
  /\ plan[t] # << >>
  /\ Release(entry[t])
  /\ Return(t)
  /\ UNCHANGED <<table, weights>>

-----------------------------------------------------------------------------
(* UnloadAsync, by itself and as awaited by the other management methods.  *)

StartUnload(t, i) ==
  /\ "unload" \in Calls
  /\ Begin(t, "unload", "lookup", i, None, {})

(* UnloadAllAsync: over the Models of this moment, one by one.             *)
StartUnloadAll(t) ==
  /\ "unload_all" \in Calls
  /\ Begin(t, "unload_all", "next", None, None, {i \in Ids : specs[i] # None})

UnloadNext(t) ==
  /\ pc[t] = "next"
  /\ \/ /\ todo[t] = {}
        /\ Return(t)
     \/ /\ \E i \in todo[t] :
             /\ id' = [id EXCEPT ![t] = i]
             /\ todo' = [todo EXCEPT ![t] = @ \ {i}]
        /\ Goto(t, "lookup")
        /\ UNCHANGED <<call, spec, entry, plan>>
  /\ UNCHANGED <<table, gate, weights>>

(* What the awaiting method does once UnloadAsync has returned.            *)
AfterUnload(t) ==
  \/ call[t] = "unload" /\ Return(t)
  \/ /\ call[t] # "unload"
     /\ Goto(t, CASE call[t] = "register" -> "clear"
                  [] call[t] = "forget" -> "unlist"
                  [] OTHER -> "next")
     /\ entry' = [entry EXCEPT ![t] = None]
     /\ UNCHANGED <<call, id, spec, plan, todo>>

LookUp(t) ==
  /\ pc[t] = "lookup"
  /\ \/ /\ entries[id[t]] = None
        /\ AfterUnload(t)
     \/ /\ entries[id[t]] # None
        /\ entry' = [entry EXCEPT ![t] = entries[id[t]]]
        /\ Goto(t, "wait")
        /\ UNCHANGED <<call, id, spec, plan, todo>>
  /\ UNCHANGED <<table, gate, weights>>

(* Under the gate: nothing is freed unless there is a session.             *)
Unload(t) ==
  /\ pc[t] = "free"
  /\ \/ /\ session[entry[t]] = None
        /\ UNCHANGED <<session, model>>
     \/ /\ session[entry[t]] # None
        /\ session' = [session EXCEPT ![entry[t]] = None]
        /\ model' = [model EXCEPT ![entry[t]] = None]
  /\ Release(entry[t])
  /\ AfterUnload(t)
  /\ UNCHANGED <<table, older>>

-----------------------------------------------------------------------------
(* RegisterAsync and ForgetAsync.                                          *)

(* The previous description is read in one critical section...             *)
StartRegister(t, i, s) ==
  /\ "register" \in Calls
  /\ specs[i] # s
  /\ Begin(t, "register", IF specs[i] = None THEN "add" ELSE "swap", i, s, {})

(* ... and replaced in another; the old weights are released after.        *)
Swap(t) ==
  /\ pc[t] \in {"add", "swap"}
  /\ specs' = [specs EXCEPT ![id[t]] = spec[t]]
  /\ Goto(t, IF pc[t] = "swap" THEN "lookup" ELSE "clear")
  /\ UNCHANGED <<entries, refuses, gate, weights, local>>

Clear(t) ==
  /\ pc[t] = "clear"
  /\ refuses' = refuses \ {id[t]}
  /\ Return(t)
  /\ UNCHANGED <<specs, entries, gate, weights>>

StartForget(t, i) ==
  /\ "forget" \in Calls
  /\ specs[i] # None
  /\ Begin(t, "forget", "lookup", i, None, {})

Unlist(t) ==
  /\ pc[t] = "unlist"
  /\ specs' = [specs EXCEPT ![id[t]] = None]
  /\ Goto(t, "drop")
  /\ UNCHANGED <<entries, refuses, gate, weights, local>>

(* _entries.TryRemove, whoever is queued on the entry's gate.              *)
Drop(t) ==
  /\ pc[t] = "drop"
  /\ entries' = [entries EXCEPT ![id[t]] = None]
  /\ Goto(t, "clear")
  /\ UNCHANGED <<specs, refuses, gate, weights, local>>

(* Mutant: the id of the call in progress is noted.                        *)
NoteLanguageRefusedOfCall(t, i) ==
  /\ "note" \in Calls
  /\ pc[t] = "idle"
  /\ refuses' = refuses \cup {id[t]}
  /\ UNCHANGED <<specs, entries, gate, weights, pc, local>>

(* NoteLanguageRefused, called by a route after a refused run.             *)
NoteLanguageRefused(t, i) ==
  /\ "note" \in Calls
  /\ pc[t] = "idle"
  /\ refuses' = refuses \cup {i}
  /\ UNCHANGED <<specs, entries, gate, weights, pc, local>>

(* The runtime finalizes the handles of an Entry nothing refers to.        *)
Collect(e) ==
  /\ ~Reachable(e)
  /\ model[e] # None
  /\ model' = [model EXCEPT ![e] = None]
  /\ session' = [session EXCEPT ![e] = None]
  /\ UNCHANGED <<table, gate, older, pc, local>>

-----------------------------------------------------------------------------
UseStep(t) ==
  \/ EnterTable(t) \/ GiveUp(t) \/ Reuse(t) \/ Open(t)
  \/ LoadWeights(t) \/ LoadFails(t)
  \/ CreateSession(t) \/ CreateSessionFails(t)

RoomStep(t) ==
  \/ Survey(t) \/ TryEvict(t) \/ SkipBusy(t) \/ SkipEmpty(t) \/ Evict(t)
  \/ NothingToEvict(t)

ManageStep(t) ==
  \/ UnloadNext(t) \/ LookUp(t) \/ Unload(t)
  \/ Swap(t) \/ Clear(t) \/ Unlist(t) \/ Drop(t)

(* What the pool does on its own once a call is in it.                     *)
Progress(t) == UseStep(t) \/ RoomStep(t) \/ ManageStep(t)

Cancel(t) == CancelWait(t) \/ CancelScan(t)

StartManaging(t, i) ==
  \/ StartUnload(t, i) \/ StartUnloadAll(t) \/ StartForget(t, i)
  \/ NoteLanguageRefused(t, i)
  \/ \E s \in Specs : StartRegister(t, i, s)

Next ==
  \/ \E t \in Requests, i \in Ids : StartUse(t, i)
  \/ \E t \in Managers, i \in Ids : StartManaging(t, i)
  \/ \E t \in Threads : Progress(t) \/ TakeGate(t) \/ Finish(t) \/ Cancel(t)
  \/ \E e \in Entries : Collect(e)

Spec == Init /\ [][Next]_vars

(* A thread in the pool goes on, and one queued on a gate that keeps being *)
(* released gets it in the end.  Nothing is assumed of Finish: an inference*)
(* may wedge its device and never return.                                  *)
Fairness ==
  \A t \in Threads : WF_vars(Progress(t)) /\ SF_vars(TakeGate(t))

FairSpec == Spec /\ Fairness

-----------------------------------------------------------------------------
(* Properties.                                                             *)

(* A session is used only by the thread that holds its gate, and nothing   *)
(* disposes a session a run is using: no unload, eviction, reconfiguration *)
(* or finalizer lands in the middle of a run (ModelPool.cs:16-19,199-207). *)
SessionInUseIsLive ==
  \A t \in Threads :
    pc[t] = "run" => gate[entry[t]] = t /\ session[entry[t]] # None

(* A gate is held only by a thread that is on its way to releasing it:     *)
(* every exception, cancellation and early return passes through a release,*)
(* for the victims of an eviction as for a thread's own entry.             *)
NoGateLeaked ==
  \A e \in Entries : gate[e] # None =>
    LET t == gate[e]
    IN \/ pc[t] \in Holding /\ entry[t] = e
       \/ pc[t] = "evict" /\ plan[t] # << >> /\ Head(plan[t]) = e

(* A session never outlives its weights, and weights are read only into an *)
(* entry that holds none, so no load leaks the weights it replaces.        *)
WeightsOutliveSession ==
  /\ \A e \in Entries : session[e] # None => model[e] # None
  /\ \A t \in Threads : pc[t] = "load" => model[entry[t]] = None
  /\ \A t \in Threads : pc[t] = "create" =>
       model[entry[t]] # None /\ session[entry[t]] = None

(* What a thread's label says of its locals.                               *)
CallInv ==
  \A t \in Threads :
    /\ pc[t] \notin {"idle", "next"} => id[t] \in Ids
    /\ call[t] = "use" => spec[t] \in Specs
    /\ pc[t] \in Serving => call[t] = "use"
    /\ pc[t] \in Holding \cup {"wait"} => entry[t] \in Entries

(* A thread past the wait holds its entry's gate, and one that is evicting *)
(* holds its victim's, another entry's, as well.                           *)
HolderInv ==
  \A t \in Threads :
    /\ pc[t] \in Holding => gate[entry[t]] = t
    /\ pc[t] = "evict" => /\ plan[t] # << >>
                          /\ gate[Head(plan[t])] = t
                          /\ Head(plan[t]) # entry[t]

(* What the holder of a gate has found or put in the entry stays there.    *)
ServiceInv ==
  \A t \in Threads :
    /\ pc[t] = "run" => session[entry[t]] # None
    /\ pc[t] \in {"room", "scan", "evict", "load"} => model[entry[t]] = None
    /\ pc[t] = "create" => model[entry[t]] # None /\ session[entry[t]] = None

SessionInv == \A e \in Entries : session[e] # None => model[e] # None

(* The inductive invariant: a gate is held exactly where the control says, *)
(* so an entry changes under no thread but its holder                      *)
(* (ModelPool.cs:86-104,212-226,352-387).                                  *)
IndInv ==
  TypeOK /\ CallInv /\ HolderInv /\ NoGateLeaked /\ ServiceInv /\ SessionInv

(* "If every other model is busy, the load proceeds over the limit"        *)
(* (ModelPool.cs:62-66): weights are read past the limit only while every  *)
(* other resident model is held.                                           *)
OverLimitOnlyWhenBusy ==
  [][\A t \in Threads : pc[t] = "load" /\ pc'[t] = "create" /\ MaxLoaded > 0 =>
       \/ Cardinality(Resident(id[t])) + 1 <= MaxLoaded
       \/ \A e \in Resident(id[t]) : gate[e] # None]_vars

(* "One session per model id, and one request at a time against it"        *)
(* (ModelPool.cs:16-18): two requests never run one id at once.            *)
OneRequestPerModel ==
  \A t, u \in Threads :
    pc[t] = "run" /\ pc[u] = "run" /\ id[t] = id[u] => t = u

(* Once every call has returned, a resident session is one of the          *)
(* registered description: the mismatch that swapping before unloading is  *)
(* meant to prevent (ModelPool.cs:131-139) is not there.                   *)
NoMismatchAtRest ==
  (\A t \in Threads : pc[t] = "idle") =>
    \A i \in Ids : entries[i] # None => session[entries[i]] \in {None, specs[i]}

(* Whatever interleaves, a call that entered the pool returns, as long as  *)
(* every run ends: no unload, reconfiguration or request waits for a gate  *)
(* nobody will release (ModelPool.cs:208-227,352-387).                     *)
EveryCallReturns ==
  (\A t \in Threads : []<>(pc[t] # "run")) =>
    \A t \in Threads : pc[t] # "idle" ~> pc[t] = "idle"

(* With busy_timeout_ms set, a request leaves the queue even when the run  *)
(* ahead of it never ends (ModelPool.cs:348-351).                          *)
QueueDrains ==
  \A t \in Requests : pc[t] = "wait" ~> pc[t] # "wait"

(* Each pool entry is an ExclusiveSessions session; its users are the      *)
(* threads whose work() is running on it.                                  *)
Live == {e \in Entries : session[e] # None}
RunnersOn(e) == {t \in Threads : pc[t] = "run" /\ entry[t] = e}

Abstract == INSTANCE ExclusiveSessions WITH
  Users <- Threads,
  Sessions <- Entries,
  live <- Live,
  users <- [e \in Entries |-> RunnersOn(e)]

(* The pool implements exclusive sessions: gates, queues, eviction,        *)
(* reconfiguration and failures included (ModelPool.cs:16-19).             *)
ImplementsExclusiveSessions == Abstract!Spec
================================================================================
