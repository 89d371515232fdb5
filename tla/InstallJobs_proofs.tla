-------------------------- MODULE InstallJobs_proofs ---------------------------
(***************************************************************************)
(* Proofs about the install jobs, for any number of clients, jobs, files   *)
(* and folders.                                                            *)
(***************************************************************************)
EXTENDS InstallJobs, TLAPS

(* A step of a task changes its own locals, and keeps their types.         *)
LEMMA TaskTyped ==
  ASSUME InstallAssumption, JobsInv, NEW j \in Jobs,
         NEW label \in Downloading \cup {"settled", "disposed"}, Step(j, label),
         state' \in [Jobs -> Active \cup Terminal \cup {"new"}],
         root' \in [Jobs -> Roots \cup {Nothing}],
         at' \in [Jobs -> 0..(FileCount + 1)],
         final' \in [Roots \X Files -> (Jobs \X Files) \cup {Nothing}],
         part' \in [Roots \X Files -> (Jobs \X Files) \cup {Nothing}],
         whole' \in SUBSET (Jobs \X Files),
         UNCHANGED <<slot, cancelled, modelsRoot, clients>>,
         \A k \in Jobs \ {j} : root'[k] = root[k] /\ at'[k] = at[k],
         label \in Downloading => root'[j] \in Roots,
         label = "next" => at'[j] \in 1..(FileCount + 1),
         label \in {"open", "write", "move", "failing", "stopping"} => at'[j] \in Files
  PROVE  JobsInv'
<1>1. /\ \A k \in Jobs : task'[k] = IF k = j THEN label ELSE task[k]
      /\ task' \in [Jobs -> Working \cup {"none", "settled", "disposed"}]
  BY DEF Step, JobsInv, InstallTypeOK, Working
<1>2. InstallTypeOK'
  BY <1>1 DEF JobsInv, InstallTypeOK, clients
<1>3. ClientInv' /\ \A k \in Jobs : WriterAt(k)'
  BY <1>1 DEF JobsInv, ClientInv, WriterAt, clients
<1> QED
  BY <1>2, <1>3 DEF JobsInv

(* Each step of a task is such a step.                                     *)
LEMMA OwnTyped ==
  ASSUME InstallAssumption, JobsInv, NEW j \in Jobs, OwnStep(j) \/ NetworkStep(j)
  PROVE  JobsInv'
<1> USE DEF JobsInv, InstallTypeOK
<1>1. CASE RunTask(j)
  <2>1. /\ Step(j, "probe") /\ UNCHANGED <<slot, cancelled, at, modelsRoot, disk, clients>>
        /\ state' = [state EXCEPT ![j] = "running"] /\ root' = [root EXCEPT ![j] = modelsRoot]
    BY <1>1 DEF RunTask
  <2> QED
    BY <2>1, TaskTyped DEF Downloading, Active, disk
<1>2. CASE Probe(j) \/ ProbeCancelled(j)
  <2>1. /\ task[j] \in Downloading /\ UNCHANGED <<slot, cancelled, root, modelsRoot, disk, clients>>
        /\ \/ Step(j, "next") /\ at' = [at EXCEPT ![j] = 1] /\ UNCHANGED state
           \/ Step(j, "settled") /\ UNCHANGED at /\ state' = [state EXCEPT ![j] = "failed"]
           \/ Step(j, "settled") /\ UNCHANGED at /\ state' = [state EXCEPT ![j] = "cancelled"]
    BY <1>2 DEF Probe, ProbeCancelled, Settle, Downloading
  <2>2. root[j] \in Roots /\ 1 \in 1..(FileCount + 1) /\ 1 \in 0..(FileCount + 1)
    BY <2>1 DEF ClientInv, WriterAt, InstallAssumption
  <2>3. CASE Step(j, "next") /\ at' = [at EXCEPT ![j] = 1] /\ UNCHANGED state
    BY <2>1, <2>2, <2>3, TaskTyped DEF Downloading, disk
  <2>4. CASE /\ Step(j, "settled") /\ UNCHANGED at
             /\ \E s \in Terminal : state' = [state EXCEPT ![j] = s]
    <3>1. state' \in [Jobs -> Active \cup Terminal \cup {"new"}]
      BY <2>4
    <3>2. "settled" \notin Downloading
      BY DEF Downloading
    <3> QED
      BY <2>1, <2>4, <3>1, <3>2, TaskTyped DEF disk
  <2> QED
    BY <2>1, <2>3, <2>4 DEF Terminal
<1>3. CASE NextFile(j)
  <2>1. /\ task[j] = "next" /\ at[j] \in 1..(FileCount + 1) /\ root[j] \in Roots
        /\ UNCHANGED <<slot, cancelled, root, modelsRoot, disk, clients>>
    BY <1>3 DEF NextFile, ClientInv, WriterAt, Downloading
  <2>2. \/ Step(j, "settled") /\ UNCHANGED at /\ state' = [state EXCEPT ![j] = "complete"]
        \/ /\ at[j] <= FileCount /\ at' = [at EXCEPT ![j] = at[j] + 1]
           /\ UNCHANGED <<state, task>>
        \/ at[j] <= FileCount /\ Step(j, "open") /\ UNCHANGED <<state, at>>
    BY <1>3 DEF NextFile, Settle
  <2>3. /\ UNCHANGED task => Step(j, "next")
        /\ at[j] <= FileCount => at[j] \in Files /\ at[j] + 1 \in 1..(FileCount + 1)
        /\ 1..(FileCount + 1) \subseteq 0..(FileCount + 1)
    BY <2>1 DEF Step, InstallAssumption, Files
  <2>4. CASE /\ Step(j, "settled") /\ UNCHANGED at
             /\ \E s \in Terminal : state' = [state EXCEPT ![j] = s]
    <3>1. state' \in [Jobs -> Active \cup Terminal \cup {"new"}]
      BY <2>4
    <3>2. "settled" \notin Downloading
      BY DEF Downloading
    <3> QED
      BY <2>1, <2>4, <3>1, <3>2, TaskTyped DEF disk
  <2>5. CASE at[j] <= FileCount /\ at' = [at EXCEPT ![j] = at[j] + 1] /\ UNCHANGED <<state, task>>
    <3>1. Step(j, "next") /\ at[j] + 1 \in 1..(FileCount + 1) /\ at'[j] = at[j] + 1
      BY <2>3, <2>5
    <3>2. at' \in [Jobs -> 0..(FileCount + 1)] /\ \A k \in Jobs \ {j} : at'[k] = at[k]
      BY <2>3, <2>5
    <3> QED
      BY <2>1, <2>5, <3>1, <3>2, TaskTyped DEF Downloading, disk
  <2>6. CASE at[j] <= FileCount /\ Step(j, "open") /\ UNCHANGED <<state, at>>
    BY <2>1, <2>3, <2>6, TaskTyped DEF Downloading, disk
  <2> QED
    BY <2>2, <2>4, <2>5, <2>6 DEF Terminal
<1>4. CASE CreatePart(j) \/ ReadToEnd(j) \/ Fail(j) \/ ObserveCancel(j)
  <2>1. /\ task[j] \in {"open", "write"} /\ at[j] \in Files /\ root[j] \in Roots
        /\ UNCHANGED <<slot, state, cancelled, root, at, modelsRoot, final, clients>>
    BY <1>4 DEF CreatePart, ReadToEnd, Fail, ObserveCancel, ClientInv, WriterAt, Downloading, jobs, disk
  <2>2. /\ \E label \in {"write", "move", "failing", "stopping"} : Step(j, label)
        /\ whole' = whole \/ whole' = whole \cup {<<j, at[j]>>}
        /\ part' = part \/ part' = [part EXCEPT ![Here(j)] = <<j, at[j]>>]
    BY <1>4 DEF CreatePart, ReadToEnd, Fail, ObserveCancel, disk
  <2>3. /\ whole' \in SUBSET (Jobs \X Files)
        /\ part' \in [Roots \X Files -> (Jobs \X Files) \cup {Nothing}]
    BY <2>1, <2>2 DEF Here
  <2> QED
    BY <2>1, <2>2, <2>3, TaskTyped DEF Downloading
<1>5. CASE Move(j)
  <2>1. /\ task[j] = "move" /\ at[j] \in Files /\ root[j] \in Roots /\ Here(j) \in Roots \X Files
        /\ UNCHANGED <<slot, state, cancelled, root, modelsRoot, whole, clients>>
    BY <1>5 DEF Move, ClientInv, WriterAt, Downloading, jobs, Here
  <2>2. \/ /\ part[Here(j)] # Nothing
           /\ final' = [final EXCEPT ![Here(j)] = part[Here(j)]]
           /\ part' = [part EXCEPT ![Here(j)] = Nothing]
           /\ at' = [at EXCEPT ![j] = at[j] + 1] /\ Step(j, "next")
        \/ UNCHANGED <<final, part, at>> /\ Step(j, "failing")
    BY <1>5 DEF Move
  <2>3. at[j] + 1 \in 1..(FileCount + 1) /\ 1..(FileCount + 1) \subseteq 0..(FileCount + 1)
    BY <2>1 DEF InstallAssumption, Files
  <2>4. CASE UNCHANGED <<final, part, at>> /\ Step(j, "failing")
    BY <2>1, <2>4, TaskTyped DEF Downloading
  <2>5. CASE ~(UNCHANGED <<final, part, at>> /\ Step(j, "failing"))
    <3>1. /\ final' \in [Roots \X Files -> (Jobs \X Files) \cup {Nothing}]
          /\ part' \in [Roots \X Files -> (Jobs \X Files) \cup {Nothing}]
      BY <2>1, <2>2, <2>5
    <3>2. /\ at' \in [Jobs -> 0..(FileCount + 1)] /\ at'[j] \in 1..(FileCount + 1)
          /\ Step(j, "next") /\ \A k \in Jobs \ {j} : at'[k] = at[k]
      BY <2>2, <2>3, <2>5
    <3> QED
      BY <2>1, <3>1, <3>2, TaskTyped DEF Downloading
  <2> QED
    BY <2>4, <2>5
<1>6. CASE Undo(j)
  <2>1. /\ UNCHANGED <<slot, cancelled, root, at, modelsRoot, final, whole, clients>>
        /\ Step(j, "settled") /\ part' = [part EXCEPT ![Here(j)] = Nothing]
        /\ state' \in [Jobs -> Active \cup Terminal \cup {"new"}]
    BY <1>6 DEF Undo, Settle, Terminal
  <2> QED
    BY <2>1, TaskTyped DEF Downloading
<1>7. CASE Dispose(j)
  <2>1. Step(j, "disposed") /\ UNCHANGED <<jobs, root, at, modelsRoot, disk, clients>>
    BY <1>7 DEF Dispose
  <2> QED
    BY <2>1, TaskTyped DEF Downloading, jobs, disk
<1> QED
  BY <1>1, <1>2, <1>3, <1>4, <1>5, <1>6, <1>7 DEF OwnStep, NetworkStep

(* A client's step goes to a label with what the label says.               *)
LEMMA ClientTyped ==
  ASSUME JobsInv, NEW c \in Clients, NEW label, NEW w, GotoClient(c, label, w),
         label \in {"idle", "start", "stop", "cancel", "remove", "forget", "root"},
         label \in {"start", "remove", "forget"} => w \in Spellings,
         label \in {"stop", "cancel"} => w \in Jobs,
         label = "root" => w \in Roots,
         label = "idle" => w = Nothing
  PROVE  /\ clientAt' \in [Clients -> {"idle", "start", "stop", "cancel", "remove", "forget", "root"}]
         /\ what' \in [Clients -> Jobs \cup Roots \cup Spellings \cup {Nothing}]
         /\ \A d \in Clients :
              /\ clientAt'[d] \in {"start", "remove", "forget"} => what'[d] \in Spellings
              /\ clientAt'[d] \in {"stop", "cancel"} => what'[d] \in Jobs
              /\ clientAt'[d] = "root" => what'[d] \in Roots
         /\ raced' \in BOOLEAN
<1>1. raced' \in BOOLEAN
  BY DEF GotoClient, JobsInv, InstallTypeOK
<1> QED
  BY <1>1 DEF GotoClient, JobsInv, InstallTypeOK, ClientInv

(* The steps of a request keep the types.                                  *)
LEMMA RouteTyped ==
  ASSUME InstallAssumption, JobsInv, NEW c \in Clients, Route(c)
  PROVE  JobsInv'
<1> USE DEF JobsInv, InstallTypeOK, ClientInv, WriterAt
<1>1. ASSUME NEW label, NEW w, GotoClient(c, label, w), UNCHANGED <<tasks, disk>>,
             label \in {"idle", "start", "stop", "cancel", "remove", "forget", "root"},
             label \in {"start", "remove", "forget"} => w \in Spellings,
             label \in {"stop", "cancel"} => w \in Jobs,
             label = "root" => w \in Roots,
             label = "idle" => w = Nothing,
             slot' \in [Spellings -> Jobs \cup {Nothing}],
             state' \in [Jobs -> Active \cup Terminal \cup {"new"}],
             cancelled' \in SUBSET Jobs, modelsRoot' \in Roots
      PROVE  JobsInv'
  BY <1>1, ClientTyped DEF tasks, disk
<1>2. ASSUME NEW s \in Spellings, StartCall(c, s) \/ StopCall(c, s) \/ RemoveCall(c, s)
      PROVE  JobsInv'
  BY <1>1, <1>2, SMTT(30) DEF StartCall, StopCall, RemoveCall, jobs
<1>3. ASSUME NEW overwrite \in BOOLEAN, AddJob(c, overwrite)
      PROVE  JobsInv'
  <2>1. /\ what[c] \in Spellings /\ GotoClient(c, "idle", Nothing)
        /\ UNCHANGED <<cancelled, root, at, modelsRoot, disk>>
    BY <1>3 DEF AddJob, ReturnClient
  <2>2. PICK j \in Jobs, label \in {"disposed", "queued"}, s \in {"complete", "queued"} :
          /\ slot' = [slot EXCEPT ![what[c]] = j]
          /\ task' = [task EXCEPT ![j] = label]
          /\ state' = [state EXCEPT ![j] = s]
    BY <1>3 DEF AddJob, Step
  <2>3. \A k \in Jobs : task'[k] \in Downloading => task'[k] = task[k]
    BY <2>2 DEF Downloading
  <2>4. InstallTypeOK'
    BY <2>1, <2>2, ClientTyped DEF Working, Active, Terminal, disk
  <2>5. ClientInv' /\ \A k \in Jobs : WriterAt(k)'
    BY <2>1, <2>3, ClientTyped DEF Downloading
  <2> QED
    BY <2>4, <2>5
<1>4. CASE SetCancelling(c) \/ CancelToken(c)
  <2>1. CASE SetCancelling(c)
    <3>1. /\ GotoClient(c, "cancel", what[c]) /\ what[c] \in Jobs
          /\ state' \in [Jobs -> Active \cup Terminal \cup {"new"}]
          /\ UNCHANGED <<slot, cancelled, tasks, modelsRoot, disk>>
      BY <2>1 DEF SetCancelling, Active
    <3> QED
      BY <1>1, <3>1
  <2>2. CASE CancelToken(c)
    <3>1. /\ GotoClient(c, "idle", Nothing) /\ cancelled' \in SUBSET Jobs
          /\ UNCHANGED <<slot, state, tasks, modelsRoot, disk>>
      BY <2>2 DEF CancelToken, ReturnClient
    <3> QED
      BY <1>1, <3>1
  <2> QED
    BY <1>4, <2>1, <2>2
<1>5. CASE ForgetJob(c) \/ SetRoot(c)
  BY <1>1, <1>5 DEF ForgetJob, SetRoot, ReturnClient, jobs
<1>6. CASE CleanPartial(c)
  BY <1>6 DEF CleanPartial, jobs, tasks, clients
<1>7. CASE DeletePackage(c)
  <2>1. /\ what[c] \in Spellings /\ GotoClient(c, "forget", what[c])
        /\ UNCHANGED <<jobs, tasks, modelsRoot, whole>>
        /\ final' \in [Roots \X Files -> (Jobs \X Files) \cup {Nothing}]
        /\ part' \in [Roots \X Files -> (Jobs \X Files) \cup {Nothing}]
    BY <1>7 DEF DeletePackage
  <2> QED
    BY <2>1, ClientTyped DEF jobs, tasks
<1>8. ASSUME NEW r \in Roots, RootCall(c, r)
      PROVE  JobsInv'
  BY <1>1, <1>8 DEF RootCall, jobs
<1> QED
  BY <1>2, <1>3, <1>4, <1>5, <1>6, <1>7, <1>8 DEF Route

(* A server starts with no job.                                            *)
LEMMA InstallInitInv == ASSUME InstallAssumption, InstallInit PROVE InstallInv
<1>1. JobsInv
  <2>1. raced \in BOOLEAN
    BY DEF InstallInit
  <2> QED
    BY <2>1 DEF InstallInit, InstallAssumption, JobsInv, InstallTypeOK, ClientInv, WriterAt, Working,
                Downloading
<1>2. /\ \A j \in Jobs : task[j] = "none" /\ task[j] \notin Working
      /\ \A c \in Clients : clientAt[c] = "idle"
      /\ \A n \in Roots \X Files : final[n] = Nothing
  BY DEF InstallInit, Working, Downloading
<1>3. UncrossedInv
  BY <1>2 DEF UncrossedInv, CheckHolds, OwnPart, WorkerIsListed, RootHoldsStill, InstalledIsWhole,
              RemovalIsComplete, Acting, Working
<1> QED
  BY <1>1, <1>3 DEF InstallInv

(* A crash leaves the types of what it leaves.                             *)
LEMMA CrashTyped == ASSUME InstallAssumption, JobsInv, Crash PROVE JobsInv'
<1>1. \A j \in Jobs : task'[j] \in {"none", "disposed"}
  BY DEF Crash
<1> QED
  BY <1>1 DEF Crash, InstallAssumption, JobsInv, InstallTypeOK, ClientInv, WriterAt, Terminal,
              Downloading, disk

LEMMA JobsStep == ASSUME JobsInv, [InstallNext]_installVars PROVE JobsInv'
<1>1. ASSUME NEW j \in Jobs, OwnStep(j) \/ NetworkStep(j)
      PROVE  JobsInv'
  BY <1>1, InstallAssumption, OwnTyped
<1>2. ASSUME NEW c \in Clients, Route(c)
      PROVE  JobsInv'
  BY <1>2, InstallAssumption, RouteTyped
<1>3. CASE UNCHANGED installVars
  BY <1>3 DEF installVars, JobsInv, InstallTypeOK, ClientInv, WriterAt
<1> QED
  BY <1>1, <1>2, <1>3, InstallAssumption, CrashTyped DEF InstallNext

-----------------------------------------------------------------------------
(* Requests that have not crossed.                                         *)

(* While a task is at work no other is, no check that found nothing        *)
(* downloading is pending, and the task's folder is the models folder.     *)
LEMMA OneWorker ==
  ASSUME UncrossedInv, ~raced, NEW j \in Jobs, task[j] \in Working
  PROVE  /\ \A k \in Jobs \ {j} : task[k] \notin Working
         /\ \A c \in Clients : clientAt[c] \notin Acting
         /\ state[j] \in Active /\ \E s \in Spellings : slot[s] = j
         /\ task[j] \in Downloading => root[j] = modelsRoot
BY DEF UncrossedInv, CheckHolds, WorkerIsListed, Listed, RootHoldsStill

(* What a step of the task at work must establish, the rest being kept.    *)
LEMMA WorkerStep ==
  ASSUME JobsInv, UncrossedInv, NEW j \in Jobs, task[j] \in Working,
         NEW label \in Downloading \cup {"settled"}, Step(j, label),
         UNCHANGED <<slot, modelsRoot, clients>>,
         label \in Downloading => state'[j] \in Active /\ root'[j] = root[j],
         task[j] \in Downloading,
         ~raced => OwnPart(j)' /\ InstalledIsWhole'
  PROVE  UncrossedInv'
<1> SUFFICES ASSUME ~raced PROVE UncrossedInv'
  BY DEF UncrossedInv, clients
<1>1. /\ \A k \in Jobs : task'[k] = IF k = j THEN label ELSE task[k]
      /\ clientAt' = clientAt /\ "settled" \notin Working
  BY DEF Step, JobsInv, InstallTypeOK, clients, Working, Downloading
<1>2. \A k \in Jobs \ {j} : task'[k] \notin Working
  BY <1>1, OneWorker
<1>3. CheckHolds'
  BY <1>1, OneWorker DEF CheckHolds
<1>4. \A k \in Jobs : OwnPart(k)'
  BY <1>2 DEF OwnPart, Working, Downloading
<1>5. WorkerIsListed'
  BY <1>1, <1>2, OneWorker DEF WorkerIsListed, Listed, Working
<1>6. RootHoldsStill'
  BY <1>1, <1>2, OneWorker DEF RootHoldsStill, Working
<1>7. RemovalIsComplete'
  BY <1>1, OneWorker DEF RemovalIsComplete, Acting
<1> QED
  BY <1>3, <1>4, <1>5, <1>6, <1>7 DEF UncrossedInv

(* A task takes up its folder.                                             *)
LEMMA RunTaskStep ==
  ASSUME JobsInv, UncrossedInv, NEW j \in Jobs, RunTask(j)
  PROVE  UncrossedInv'
<1> SUFFICES ASSUME ~raced PROVE UncrossedInv'
  BY DEF UncrossedInv, RunTask, clients
<1>1. /\ task[j] = "queued" /\ task[j] \in Working /\ UNCHANGED <<slot, at, modelsRoot, disk, clients>>
      /\ state'[j] \in Active /\ root'[j] = modelsRoot
      /\ \A k \in Jobs : task'[k] = IF k = j THEN "probe" ELSE task[k]
  BY DEF RunTask, Step, JobsInv, InstallTypeOK, Working, Active
<1>2. \A k \in Jobs \ {j} : task'[k] \notin Working
  BY <1>1, OneWorker
<1>3. CheckHolds' /\ RemovalIsComplete'
  BY <1>1, OneWorker DEF CheckHolds, RemovalIsComplete, clients, Acting
<1>4. (\A k \in Jobs : OwnPart(k)') /\ InstalledIsWhole'
  BY <1>1, <1>2 DEF OwnPart, Working, Downloading, InstalledIsWhole, UncrossedInv, disk
<1>5. WorkerIsListed' /\ RootHoldsStill'
  BY <1>1, <1>2, OneWorker DEF WorkerIsListed, Listed, RootHoldsStill, Working
<1> QED
  BY <1>3, <1>4, <1>5 DEF UncrossedInv

(* The steps that leave the disk alone.                                    *)
LEMMA TaskStep ==
  ASSUME JobsInv, UncrossedInv, NEW j \in Jobs,
         Probe(j) \/ ProbeCancelled(j) \/ NextFile(j) \/ Fail(j) \/ ObserveCancel(j)
  PROVE  UncrossedInv'
<1>1. /\ task[j] \in Downloading /\ task[j] \in Working
      /\ UNCHANGED <<slot, root, modelsRoot, clients, disk>>
  BY DEF Probe, ProbeCancelled, NextFile, Fail, ObserveCancel, Working, Downloading, jobs
<1>2. PICK label \in {"settled", "next", "open", "failing", "stopping"} :
        Step(j, label) /\ (label # "settled" => UNCHANGED state)
  <2>1. CASE NextFile(j)
    BY <2>1 DEF NextFile, Settle, Step, JobsInv, InstallTypeOK
  <2>2. CASE Probe(j) \/ ProbeCancelled(j)
    BY <2>2 DEF Probe, ProbeCancelled, Settle
  <2>3. CASE Fail(j) \/ ObserveCancel(j)
    BY <2>3 DEF Fail, ObserveCancel, jobs
  <2> QED
    BY <2>1, <2>2, <2>3
<1>3. ~raced => OwnPart(j)' /\ InstalledIsWhole'
  <2>1. task'[j] \notin {"write", "move"}
    BY <1>2 DEF Step, JobsInv, InstallTypeOK
  <2> QED
    BY <1>1, <2>1 DEF OwnPart, InstalledIsWhole, UncrossedInv, disk
<1>4. label # "settled" => label \in Downloading
  BY <1>2 DEF Downloading
<1>5. "settled" \notin Downloading
  BY DEF Downloading
<1>6. CASE ~raced
  BY <1>1, <1>2, <1>3, <1>4, <1>5, <1>6, OneWorker, WorkerStep
<1>7. CASE raced
  BY <1>1, <1>7 DEF UncrossedInv, clients
<1> QED
  BY <1>6, <1>7

(* The file a task writes is a name of the disk.                           *)
LEMMA HereIsName ==
  ASSUME JobsInv, NEW j \in Jobs,
         task[j] \in {"open", "write", "move", "failing", "stopping"}
  PROVE  at[j] \in Files /\ Here(j) \in Roots \X Files
BY DEF JobsInv, WriterAt, Downloading, Here

(* The steps that write: what is moved to a final name was read to its end. *)
LEMMA DiskStep ==
  ASSUME JobsInv, UncrossedInv, NEW j \in Jobs,
         CreatePart(j) \/ ReadToEnd(j) \/ Move(j) \/ Undo(j)
  PROVE  UncrossedInv'
<1> SUFFICES ASSUME ~raced PROVE UncrossedInv'
  BY DEF UncrossedInv, CreatePart, ReadToEnd, Move, Undo, clients
<1> USE DEF JobsInv
<1>1. /\ task[j] \in {"open", "write", "move", "failing", "stopping"}
      /\ task[j] \in Working /\ task[j] \in Downloading
      /\ UNCHANGED <<slot, root, modelsRoot, clients>>
      /\ OwnPart(j) /\ InstalledIsWhole
  BY DEF CreatePart, ReadToEnd, Move, Undo, Working, Downloading, jobs, UncrossedInv
<1>2. /\ at[j] \in Files /\ Here(j) \in Roots \X Files /\ state[j] \in Active
  BY <1>1, HereIsName, OneWorker
<1>3. CASE CreatePart(j)
  <2>1. UNCHANGED <<state, at, final, whole>>
    BY <1>3 DEF CreatePart, jobs
  <2>2. \/ Step(j, "failing") /\ UNCHANGED part
        \/ Step(j, "write") /\ part' = [part EXCEPT ![Here(j)] = <<j, at[j]>>]
    BY <1>3 DEF CreatePart
  <2>3. OwnPart(j)' /\ InstalledIsWhole'
    BY <1>1, <1>2, <2>1, <2>2 DEF InstallTypeOK, Step, OwnPart, Here, InstalledIsWhole
  <2> QED
    BY <1>1, <1>2, <2>1, <2>2, <2>3, WorkerStep DEF Downloading
<1>4. CASE ReadToEnd(j)
  <2>1. /\ UNCHANGED <<state, at, final, part>> /\ Step(j, "move") /\ task[j] = "write"
        /\ whole' = whole \cup {<<j, at[j]>>}
    BY <1>4 DEF ReadToEnd, jobs
  <2>2. OwnPart(j)' /\ InstalledIsWhole'
    BY <1>1, <1>2, <2>1 DEF InstallTypeOK, Step, OwnPart, Here, InstalledIsWhole, clients
  <2> QED
    BY <1>1, <1>2, <2>1, <2>2, WorkerStep DEF Downloading
<1>5. CASE Move(j)
  <2>1. /\ UNCHANGED <<state, whole>> /\ <<j, at[j]>> \in whole
        /\ part[Here(j)] \in {Nothing, <<j, at[j]>>}
    BY <1>1, <1>5 DEF Move, jobs, OwnPart
  <2>2. \/ /\ final' = [final EXCEPT ![Here(j)] = <<j, at[j]>>] /\ Step(j, "next")
        \/ UNCHANGED final /\ Step(j, "failing")
    BY <1>5, <2>1 DEF Move
  <2>3. InstalledIsWhole'
    BY <1>1, <1>2, <2>1, <2>2, SMTT(30) DEF InstallTypeOK, InstalledIsWhole, clients
  <2>4. OwnPart(j)'
    BY <2>2 DEF InstallTypeOK, Step, OwnPart
  <2> QED
    BY <1>1, <1>2, <2>1, <2>2, <2>3, <2>4, WorkerStep DEF Downloading
<1>6. CASE Undo(j)
  <2>1. UNCHANGED <<final, whole>> /\ Step(j, "settled")
    BY <1>6 DEF Undo, Settle
  <2>2. OwnPart(j)' /\ InstalledIsWhole'
    BY <1>1, <2>1 DEF InstallTypeOK, Step, OwnPart, InstalledIsWhole
  <2>3. "settled" \notin Downloading
    BY DEF Downloading
  <2> QED
    BY <1>1, <2>1, <2>2, <2>3, WorkerStep
<1> QED
  BY <1>3, <1>4, <1>5, <1>6

(* A task that has settled is not at work, before or after it is disposed. *)
LEMMA DisposeStep ==
  ASSUME JobsInv, UncrossedInv, NEW j \in Jobs, Dispose(j)
  PROVE  UncrossedInv'
<1>1. /\ UNCHANGED <<slot, state, root, at, modelsRoot, final, part, whole, clientAt, raced>>
      /\ task' = [task EXCEPT ![j] = "disposed"] /\ task[j] = "settled"
      /\ task \in [Jobs -> Working \cup {"none", "settled", "disposed"}]
  BY DEF Dispose, Step, jobs, disk, clients, JobsInv, InstallTypeOK
<1>2. /\ \A k \in Jobs : task'[k] # "disposed" => task'[k] = task[k]
      /\ "disposed" \notin Working
  BY <1>1 DEF Working, Downloading
<1>3. \A k \in Jobs : task'[k] \in Working => task'[k] = task[k]
  BY <1>2
<1>4. CheckHolds => CheckHolds'
  BY <1>1, <1>3 DEF CheckHolds
<1>5. \A k \in Jobs : OwnPart(k) => OwnPart(k)'
  BY <1>1, <1>2 DEF OwnPart, Here
<1>6. (WorkerIsListed => WorkerIsListed') /\ (RootHoldsStill => RootHoldsStill')
  BY <1>1, <1>3 DEF WorkerIsListed, Listed, RootHoldsStill, Working
<1>7. (InstalledIsWhole => InstalledIsWhole') /\ (RemovalIsComplete => RemovalIsComplete')
  BY <1>1 DEF InstalledIsWhole, RemovalIsComplete
<1> QED
  BY <1>1, <1>4, <1>5, <1>6, <1>7 DEF UncrossedInv

(* A client's step that leaves tasks and disk alone keeps it: a check it   *)
(* passes found nothing at work and nobody acting on one, or the two have  *)
(* crossed.                                                                *)
LEMMA ClientStep ==
  ASSUME JobsInv, UncrossedInv, ~raced, ~raced', NEW c \in Clients, NEW label, NEW w,
         GotoClient(c, label, w), UNCHANGED <<tasks, disk>>, label # "forget",
         label \in Acting => clientAt[c] = "idle" /\ \A j \in Jobs : task[j] \notin Working,
         \/ UNCHANGED <<slot, modelsRoot>> /\ \A j \in Jobs : state'[j] \in {state[j], "cancelling"}
         \/ clientAt[c] \in Acting
  PROVE  UncrossedInv'
<1>1. /\ UNCHANGED <<task, root, at, final, part, whole>>
      /\ \A d \in Clients : clientAt'[d] = IF d = c THEN label ELSE clientAt[d]
      /\ label \in Acting => \A d \in Clients \ {c} : clientAt[d] \notin Acting
  BY DEF GotoClient, tasks, disk, JobsInv, InstallTypeOK
<1>2. CheckHolds /\ (\A j \in Jobs : OwnPart(j)) /\ WorkerIsListed /\ RootHoldsStill
      /\ InstalledIsWhole /\ RemovalIsComplete
  BY DEF UncrossedInv
<1>3. clientAt[c] \in Acting =>
        /\ \A j \in Jobs : task[j] \notin Working
        /\ \A d \in Clients \ {c} : clientAt[d] \notin Acting
  BY <1>2 DEF CheckHolds
<1>4. CheckHolds'
  BY <1>1, <1>2 DEF CheckHolds
<1>5. (\A j \in Jobs : OwnPart(j)') /\ InstalledIsWhole'
  BY <1>1, <1>2 DEF OwnPart, Here, InstalledIsWhole
<1>6. WorkerIsListed' /\ RootHoldsStill'
  BY <1>1, <1>2, <1>3 DEF WorkerIsListed, Listed, RootHoldsStill, Working, Active
<1>7. RemovalIsComplete'
  BY <1>1, <1>2, <1>3 DEF RemovalIsComplete, Acting
<1> QED
  BY <1>4, <1>5, <1>6, <1>7 DEF UncrossedInv

(* A new job may be at work: it is listed, and no other is.                *)
LEMMA AddJobStep ==
  ASSUME JobsInv, UncrossedInv, NEW c \in Clients, NEW overwrite \in BOOLEAN, AddJob(c, overwrite)
  PROVE  UncrossedInv'
<1> SUFFICES ASSUME ~raced PROVE UncrossedInv'
  BY DEF UncrossedInv, AddJob, ReturnClient, GotoClient
<1>1. /\ clientAt[c] \in Acting /\ what[c] \in Spellings
      /\ UNCHANGED <<root, at, modelsRoot, final, part, whole>>
      /\ \A d \in Clients : clientAt'[d] = IF d = c THEN "idle" ELSE clientAt[d]
  BY DEF AddJob, ReturnClient, GotoClient, JobsInv, ClientInv, InstallTypeOK, disk, Acting
<1>2. /\ \A j \in Jobs : task[j] \notin Working
      /\ \A d \in Clients : clientAt'[d] \notin Acting
  BY <1>1 DEF UncrossedInv, CheckHolds, Acting
<1>3. PICK j \in Jobs, label \in {"disposed", "queued"}, s \in {"complete", "queued"} :
        /\ slot' = [slot EXCEPT ![what[c]] = j]
        /\ task' = [task EXCEPT ![j] = label]
        /\ state' = [state EXCEPT ![j] = s]
        /\ label = "queued" => s = "queued"
  BY DEF AddJob, Step
<1>4. /\ \A k \in Jobs : task'[k] \in Working => k = j /\ label = "queued"
      /\ \A k \in Jobs : task'[k] \notin Downloading
      /\ slot'[what[c]] = j /\ state'[j] = s
  BY <1>1, <1>2, <1>3 DEF JobsInv, InstallTypeOK, Working, Downloading
<1>5. CheckHolds' /\ RemovalIsComplete'
  BY <1>2 DEF CheckHolds, RemovalIsComplete, Acting
<1>6. \A k \in Jobs : OwnPart(k)'
  BY <1>4 DEF OwnPart, Downloading
<1>7. WorkerIsListed' /\ RootHoldsStill'
  BY <1>1, <1>3, <1>4 DEF WorkerIsListed, Listed, RootHoldsStill, Active
<1>8. InstalledIsWhole'
  BY <1>1 DEF InstalledIsWhole, UncrossedInv
<1> QED
  BY <1>5, <1>6, <1>7, <1>8 DEF UncrossedInv

(* What is deleted is gone, and stays so while the removal ends.           *)
LEMMA DeleteStep ==
  ASSUME JobsInv, UncrossedInv, NEW c \in Clients, CleanPartial(c) \/ DeletePackage(c)
  PROVE  UncrossedInv'
<1> SUFFICES ASSUME ~raced PROVE UncrossedInv'
  <2>1. raced => raced'
    BY DEF CleanPartial, DeletePackage, GotoClient, clients
  <2> QED
    BY <2>1 DEF UncrossedInv
<1>1. /\ UNCHANGED <<slot, state, task, root, at, modelsRoot, whole>>
      /\ \A n \in Roots \X Files : part'[n] \in {part[n], Nothing} /\ final'[n] \in {final[n], Nothing}
  BY DEF CleanPartial, DeletePackage, JobsInv, InstallTypeOK, jobs, tasks
<1>2. CheckHolds /\ (\A j \in Jobs : OwnPart(j)) /\ WorkerIsListed /\ RootHoldsStill
      /\ InstalledIsWhole /\ RemovalIsComplete
  BY DEF UncrossedInv
<1>3. \A j \in Jobs : OwnPart(j)'
  <2>1. \A j \in Jobs : task[j] \in {"write", "move"} => part'[Here(j)] \in {part[Here(j)], Nothing}
    BY <1>1, HereIsName
  <2> QED
    BY <1>1, <1>2, <2>1 DEF OwnPart, Here
<1>4. WorkerIsListed' /\ RootHoldsStill' /\ InstalledIsWhole'
  BY <1>1, <1>2 DEF WorkerIsListed, Listed, RootHoldsStill, InstalledIsWhole
<1>5. CASE CleanPartial(c)
  <2>1. UNCHANGED <<clientAt, what>>
    BY <1>5 DEF CleanPartial, clients
  <2>2. CheckHolds'
    BY <1>1, <1>2, <2>1 DEF CheckHolds
  <2>3. RemovalIsComplete'
    BY <1>1, <1>2, <2>1 DEF RemovalIsComplete, JobsInv, InstallTypeOK
  <2> QED
    BY <1>3, <1>4, <2>2, <2>3 DEF UncrossedInv
<1>6. CASE DeletePackage(c)
  <2>1. /\ clientAt[c] = "remove"
        /\ \A d \in Clients : clientAt'[d] = IF d = c THEN "forget" ELSE clientAt[d]
        /\ \A f \in Files : final'[<<modelsRoot, f>>] = Nothing /\ part'[<<modelsRoot, f>>] = Nothing
    BY <1>6 DEF DeletePackage, GotoClient, JobsInv, InstallTypeOK
  <2>2. CheckHolds'
    BY <1>1, <1>2, <2>1 DEF CheckHolds, Acting
  <2>3. RemovalIsComplete'
    BY <1>1, <2>1 DEF RemovalIsComplete
  <2> QED
    BY <1>3, <1>4, <2>2, <2>3 DEF UncrossedInv
<1> QED
  BY <1>5, <1>6

(* The steps of a request.                                                 *)
LEMMA RouteStep ==
  ASSUME OneSpelling, JobsInv, UncrossedInv, NEW c \in Clients, Route(c)
  PROVE  UncrossedInv'
<1> SUFFICES ASSUME ~raced, ~raced' PROVE UncrossedInv'
  <2>1. CASE CleanPartial(c)
    BY <2>1, DeleteStep
  <2>2. CASE ~CleanPartial(c)
    <3>1. \E label, w : GotoClient(c, label, w)
      BY <2>2 DEF Route, StartCall, StopCall, RemoveCall, AddJob, SetCancelling, CancelToken,
                  DeletePackage, ForgetJob, RootCall, SetRoot, ReturnClient
    <3>2. raced => raced'
      BY <3>1 DEF GotoClient
    <3> QED
      BY <3>2 DEF UncrossedInv
  <2> QED
    BY <2>1, <2>2
<1>1. ASSUME NEW s \in Spellings, ~IsActive(s)
      PROVE  \A j \in Jobs : task[j] \notin Working
  BY <1>1, InstallAssumption
  DEF IsActive, UncrossedInv, WorkerIsListed, Listed, OneSpelling, InstallAssumption
<1>2. ASSUME NEW s \in Spellings, StartCall(c, s) \/ RemoveCall(c, s)
      PROVE  UncrossedInv'
  <2>1. /\ GotoClient(c, "start", s) \/ GotoClient(c, "remove", s)
        /\ UNCHANGED <<slot, state, tasks, modelsRoot, disk>> /\ ~IsActive(s) /\ clientAt[c] = "idle"
    BY <1>2 DEF StartCall, RemoveCall, jobs
  <2> QED
    BY <1>1, <2>1, ClientStep
<1>3. ASSUME NEW s \in Spellings, StopCall(c, s)
      PROVE  UncrossedInv'
  <2>1. GotoClient(c, "stop", slot[s]) /\ UNCHANGED <<slot, state, tasks, modelsRoot, disk>>
    BY <1>3 DEF StopCall, jobs
  <2> QED
    BY <2>1, ClientStep DEF Acting
<1>4. CASE SetCancelling(c)
  <2>1. /\ GotoClient(c, "cancel", what[c]) /\ UNCHANGED <<slot, tasks, modelsRoot, disk>>
        /\ \A j \in Jobs : state'[j] \in {state[j], "cancelling"}
    BY <1>4 DEF SetCancelling, JobsInv, InstallTypeOK
  <2> QED
    BY <2>1, ClientStep DEF Acting
<1>5. CASE CancelToken(c)
  <2>1. GotoClient(c, "idle", Nothing) /\ UNCHANGED <<slot, state, tasks, modelsRoot, disk>>
    BY <1>5 DEF CancelToken, ReturnClient
  <2> QED
    BY <2>1, ClientStep DEF Acting
<1>6. CASE ForgetJob(c) \/ SetRoot(c)
  <2>1. /\ GotoClient(c, "idle", Nothing) /\ clientAt[c] \in Acting
        /\ UNCHANGED <<tasks, disk>>
    BY <1>6 DEF ForgetJob, SetRoot, ReturnClient, Acting
  <2> QED
    BY <2>1, ClientStep DEF Acting
<1>7. ASSUME NEW r \in Roots, RootCall(c, r)
      PROVE  UncrossedInv'
  <2>1. /\ GotoClient(c, "root", r) /\ ~Busy /\ clientAt[c] = "idle"
        /\ UNCHANGED <<slot, state, tasks, modelsRoot, disk>>
    BY <1>7 DEF RootCall, jobs
  <2>2. \A j \in Jobs : task[j] \notin Working
    BY <2>1, InstallAssumption
    DEF Busy, IsActive, UncrossedInv, WorkerIsListed, Listed, InstallAssumption
  <2> QED
    BY <2>1, <2>2, ClientStep
<1> QED
  BY <1>2, <1>3, <1>4, <1>5, <1>6, <1>7, AddJobStep, DeleteStep DEF Route

(* A crash leaves the disk, and nobody at work on it.                      *)
LEMMA CrashStep == ASSUME UncrossedInv, Crash PROVE UncrossedInv'
<1>1. /\ \A j \in Jobs : task'[j] \in {"none", "disposed"} /\ task'[j] \notin Working
      /\ \A c \in Clients : clientAt'[c] = "idle"
      /\ UNCHANGED <<final, part, whole, raced>>
  BY DEF Crash, disk, Working, Downloading
<1>2. CheckHolds' /\ WorkerIsListed' /\ RootHoldsStill' /\ RemovalIsComplete'
  BY <1>1 DEF CheckHolds, WorkerIsListed, RootHoldsStill, RemovalIsComplete, Working, Acting
<1>3. \A j \in Jobs : OwnPart(j)'
  BY <1>1 DEF OwnPart
<1>4. UncrossedInv => (raced \/ InstalledIsWhole')
  BY <1>1 DEF UncrossedInv, InstalledIsWhole
<1> QED
  BY <1>1, <1>2, <1>3, <1>4 DEF UncrossedInv

(* A step of any number of requests, which may cross at it.                *)
LEMMA InstallStep ==
  ASSUME OneSpelling, InstallInv, [InstallNext]_installVars
  PROVE  InstallInv'
<1>1. JobsInv'
  BY JobsStep DEF InstallInv
<1>2. ASSUME NEW j \in Jobs, OwnStep(j) \/ NetworkStep(j)
      PROVE  UncrossedInv'
  BY <1>2, RunTaskStep, TaskStep, DiskStep, DisposeStep DEF OwnStep, NetworkStep, InstallInv
<1>3. ASSUME NEW c \in Clients, Route(c)
      PROVE  UncrossedInv'
  BY <1>3, RouteStep DEF InstallInv
<1>4. ASSUME UNCHANGED installVars
      PROVE  UncrossedInv'
  BY <1>4 DEF installVars, InstallInv, UncrossedInv, CheckHolds, OwnPart, Here, WorkerIsListed, Listed,
              RootHoldsStill, InstalledIsWhole, RemovalIsComplete
<1>5. UncrossedInv'
  BY <1>2, <1>3, <1>4, CrashStep DEF InstallNext, InstallInv
<1> QED
  BY <1>1, <1>5 DEF InstallInv

-----------------------------------------------------------------------------
(* What the jobs promise to any number of requests at once.                *)

(* Every variable keeps its type on any server, however its requests       *)
(* interleave: no stop, clean, removal or change of folder takes a task to *)
(* a file, folder or job there is none of (InstallJobs.cs:77-250,          *)
(* PackageInstaller.cs:205-283).                                           *)
THEOREM InstallTypeCorrect == InstallSpec => []InstallTypeOK
<1>1. InstallInit => JobsInv
  BY InstallAssumption, InstallInitInv DEF InstallInv
<1>2. JobsInv /\ [InstallNext]_installVars => JobsInv'
  BY JobsStep
<1>3. JobsInv => InstallTypeOK
  BY DEF JobsInv
<1> QED
  BY <1>1, <1>2, <1>3, PTL DEF InstallSpec

(* Where every request spells the id one way, a check is acted on while it *)
(* still holds until two requests cross between theirs: one task is at     *)
(* work, and what it moves to a final name is its own, whole file          *)
(* (InstallJobs.cs:102-107, PackageInstaller.cs:247-259).                  *)
THEOREM InstallInvariant == ASSUME OneSpelling PROVE InstallSpec => []InstallInv
<1>1. InstallInit => InstallInv
  BY InstallAssumption, InstallInitInv
<1>2. InstallInv /\ [InstallNext]_installVars => InstallInv'
  BY OneSpelling, InstallStep
<1> QED
  BY <1>1, <1>2, PTL DEF InstallSpec

(* A final name holds a file that was read to its end, whatever any number *)
(* of requests stopped, cleaned or removed and wherever the process died,  *)
(* until two of them cross (PackageInstaller.cs:262-264).                  *)
THEOREM InstallsAreWhole == ASSUME OneSpelling PROVE InstallSpec => []InstalledIsWhole
<1>1. InstallInv => InstalledIsWhole
  BY DEF InstallInv, UncrossedInv, InstalledIsWhole
<1> QED
  BY <1>1, InstallInvariant, PTL

(* A job at work is listed and the only one, so that it can be polled and  *)
(* stopped, until two requests cross (InstallJobs.cs:16-20).               *)
THEOREM WorkersAreListed == ASSUME OneSpelling PROVE InstallSpec => []WorkerIsListed
<1>1. InstallInv => WorkerIsListed
  BY DEF InstallInv, UncrossedInv, WorkerIsListed
<1> QED
  BY <1>1, InstallInvariant, PTL
================================================================================
