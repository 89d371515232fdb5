------------------------------ MODULE InstallJobs ------------------------------
(***************************************************************************)
(* Package downloads in the background: the server's job table             *)
(* (src/AudioCpp.Server/InstallJobs.cs), the installer that each job runs  *)
(* (src/AudioCpp.Packages/PackageInstaller.cs) and the disk under it.      *)
(*                                                                         *)
(* One package, known under each of Spellings.  A file on disk is named by *)
(* the <<job, file>> that created it, so a name can come to hold a file    *)
(* another job wrote; whole says which of them were read to the end.  The  *)
(* disk is a POSIX one: an open file can be deleted or renamed, and        *)
(* File.Create refuses a file somebody has open.                           *)
(***************************************************************************)
EXTENDS Naturals, FiniteSets

CONSTANTS
  Spellings,   \* the ids Find resolves to the package: "id", "family/id"
  FileCount,   \* package.Files.Count
  Jobs,        \* Job objects
  Clients,     \* HTTP requests being handled
  Roots,       \* models folders
  DefaultRoot, \* config.ModelsRoot
  InstallCalls,       \* the routes that are called
  Crashes,     \* whether the server process may die
  Nothing         \* null

Files == 1..FileCount

InstallCallNames == {"start", "stop", "clean", "remove", "root"}

ASSUME InstallAssumption ==
  /\ FileCount \in Nat \ {0}
  /\ DefaultRoot \in Roots
  /\ InstallCalls \subseteq InstallCallNames
  /\ Crashes \in BOOLEAN
  /\ Nothing \notin Jobs \cup Roots \cup Spellings \cup (Jobs \X Files)

VARIABLES
  slot,       \* _jobs: the job listed under each spelling
  state,      \* Job.State
  cancelled,  \* Job.Cancel: the tokens that were cancelled
  task,       \* where each job's Task.Run body stands
  root,       \* the models folder its InstallAsync was given
  at,         \* the file it is working on
  modelsRoot, \* ModelsRoot
  final,      \* what each destination name holds
  part,       \* what each .part name holds
  whole,      \* the files whose download was read to the end
  clientAt,         \* where each client stands
  what,       \* the spelling, job or folder it is working on
  raced       \* history: a check passed while another was being acted on

jobs == <<slot, state, cancelled>>
tasks == <<task, root, at>>
disk == <<final, part, whole>>
clients == <<clientAt, what, raced>>
installVars == <<slot, state, cancelled, task, root, at, modelsRoot,
          final, part, whole, clientAt, what, raced>>

Active == {"queued", "running", "cancelling"}
Terminal == {"complete", "cancelled", "failed"}
Downloading == {"probe", "next", "open", "write", "move", "failing", "stopping"}
Working == {"queued"} \cup Downloading

(* Between a check that found nothing downloading and what it allows.      *)
Acting == {"start", "remove", "forget", "root"}

InstallTypeOK ==
  /\ slot \in [Spellings -> Jobs \cup {Nothing}]
  /\ state \in [Jobs -> Active \cup Terminal \cup {"new"}]
  /\ cancelled \in SUBSET Jobs
  /\ task \in [Jobs -> Working \cup {"none", "settled", "disposed"}]
  /\ root \in [Jobs -> Roots \cup {Nothing}]
  /\ at \in [Jobs -> 0..(FileCount + 1)]
  /\ modelsRoot \in Roots
  /\ final \in [Roots \X Files -> (Jobs \X Files) \cup {Nothing}]
  /\ part \in [Roots \X Files -> (Jobs \X Files) \cup {Nothing}]
  /\ whole \in SUBSET (Jobs \X Files)
  /\ clientAt \in [Clients -> {"idle", "start", "stop", "cancel", "remove", "forget", "root"}]
  /\ what \in [Clients -> Jobs \cup Roots \cup Spellings \cup {Nothing}]
  /\ raced \in BOOLEAN

InstallInit ==
  /\ slot = [s \in Spellings |-> Nothing]
  /\ state = [j \in Jobs |-> "new"]
  /\ cancelled = {}
  /\ task = [j \in Jobs |-> "none"]
  /\ root = [j \in Jobs |-> Nothing]
  /\ at = [j \in Jobs |-> 0]
  /\ modelsRoot = DefaultRoot
  /\ final = [n \in Roots \X Files |-> Nothing]
  /\ part = [n \in Roots \X Files |-> Nothing]
  /\ whole = {}
  /\ clientAt = [c \in Clients |-> "idle"]
  /\ what = [c \in Clients |-> Nothing]
  /\ raced = FALSE

IsActive(s) == slot[s] # Nothing /\ state[slot[s]] \in Active

(* The name a job's task is writing under.                                 *)
Here(j) == <<root[j], at[j]>>

(* Somebody has this file open.                                            *)
OpenPart(f) == f # Nothing /\ task[f[1]] = "write" /\ at[f[1]] = f[2]

(* Every file of the package is under its final name in r.                 *)
Installed(r) == \A f \in Files : final[<<r, f>>] # Nothing

-----------------------------------------------------------------------------
(* The task of a job: InstallAsync and what is around it.                  *)

Step(j, label) == task' = [task EXCEPT ![j] = label]

(* A catch of the task's body sets the state the client polls for.         *)
Settle(j, s) ==
  /\ state' = [state EXCEPT ![j] = s]
  /\ Step(j, "settled")

RunTask(j) ==
  /\ task[j] = "queued"
  /\ state' = [state EXCEPT ![j] = "running"]
  /\ root' = [root EXCEPT ![j] = modelsRoot]
  /\ Step(j, "probe")
  /\ UNCHANGED <<slot, cancelled, at, modelsRoot, disk, clients>>

(* ProbeAsync: every file is served, or the install is refused.            *)
Probe(j) ==
  /\ task[j] = "probe"
  /\ j \notin cancelled
  /\ \/ /\ Step(j, "next")
        /\ at' = [at EXCEPT ![j] = 1]
        /\ UNCHANGED state
     \/ /\ Settle(j, "failed")
        /\ UNCHANGED at
  /\ UNCHANGED <<slot, cancelled, root, modelsRoot, disk, clients>>

ProbeCancelled(j) ==
  /\ task[j] = "probe"
  /\ j \in cancelled
  /\ Settle(j, "cancelled")
  /\ UNCHANGED <<slot, cancelled, root, at, modelsRoot, disk, clients>>

(* The loop's head: done, a file that is there already, or one to fetch.   *)
NextFile(j) ==
  /\ task[j] = "next"
  /\ \/ /\ at[j] > FileCount
        /\ Settle(j, "complete")
        /\ UNCHANGED at
     \/ /\ at[j] <= FileCount
        /\ final[Here(j)] # Nothing
        /\ at' = [at EXCEPT ![j] = @ + 1]
        /\ UNCHANGED <<state, task>>
     \/ /\ at[j] <= FileCount
        /\ final[Here(j)] = Nothing
        /\ Step(j, "open")
        /\ UNCHANGED <<state, at>>
  /\ UNCHANGED <<slot, cancelled, root, modelsRoot, disk, clients>>

(* The response's headers arrived: File.Create(partial).                   *)
CreatePart(j) ==
  /\ task[j] = "open"
  /\ j \notin cancelled
  /\ \/ /\ OpenPart(part[Here(j)])
        /\ Step(j, "failing")
        /\ UNCHANGED part
     \/ /\ ~OpenPart(part[Here(j)])
        /\ part' = [part EXCEPT ![Here(j)] = <<j, at[j]>>]
        /\ Step(j, "write")
  /\ UNCHANGED <<jobs, root, at, modelsRoot, final, whole, clients>>

(* Mutant: the end of the body is not awaited before the move.             *)
ReadToEndShort(j) ==
  /\ task[j] = "write"
  /\ j \notin cancelled
  /\ Step(j, "move")
  /\ UNCHANGED <<jobs, root, at, modelsRoot, disk, clients>>

(* The last read returned 0 and the file is closed.                        *)
ReadToEnd(j) ==
  /\ task[j] = "write"
  /\ j \notin cancelled
  /\ whole' = whole \cup {<<j, at[j]>>}
  /\ Step(j, "move")
  /\ UNCHANGED <<jobs, root, at, modelsRoot, final, part, clients>>

(* The request or a read fails.                                            *)
Fail(j) ==
  /\ task[j] \in {"open", "write"}
  /\ j \notin cancelled
  /\ Step(j, "failing")
  /\ UNCHANGED <<jobs, root, at, modelsRoot, disk, clients>>

(* Mutant: the body is copied without the token.                           *)
ObserveCancelAtOpen(j) ==
  /\ task[j] = "open"
  /\ j \in cancelled
  /\ Step(j, "stopping")
  /\ UNCHANGED <<jobs, root, at, modelsRoot, disk, clients>>

(* Every await of the download is given the token.                         *)
ObserveCancel(j) ==
  /\ task[j] \in {"open", "write"}
  /\ j \in cancelled
  /\ Step(j, "stopping")
  /\ UNCHANGED <<jobs, root, at, modelsRoot, disk, clients>>

(* File.Move(partial, destination): whatever is under the name, if any.    *)
Move(j) ==
  /\ task[j] = "move"
  /\ \/ /\ part[Here(j)] # Nothing
        /\ final' = [final EXCEPT ![Here(j)] = part[Here(j)]]
        /\ part' = [part EXCEPT ![Here(j)] = Nothing]
        /\ at' = [at EXCEPT ![j] = @ + 1]
        /\ Step(j, "next")
     \/ /\ part[Here(j)] = Nothing
        /\ Step(j, "failing")
        /\ UNCHANGED <<final, part, at>>
  /\ UNCHANGED <<jobs, root, modelsRoot, whole, clients>>

(* catch: TryDelete(partial), rethrow, and the task's own catch.           *)
Undo(j) ==
  /\ task[j] \in {"failing", "stopping"}
  /\ part' = [part EXCEPT ![Here(j)] = Nothing]
  /\ Settle(j, IF task[j] = "stopping" THEN "cancelled" ELSE "failed")
  /\ UNCHANGED <<slot, cancelled, root, at, modelsRoot, final, whole, clients>>

(* finally: the token source is disposed.                                  *)
Dispose(j) ==
  /\ task[j] = "settled"
  /\ Step(j, "disposed")
  /\ UNCHANGED <<jobs, root, at, modelsRoot, disk, clients>>

-----------------------------------------------------------------------------
(* The routes.                                                             *)

(* Two requests have raced once one of them passes its check while the     *)
(* other has passed its own and not yet acted on it.                       *)
GotoClient(c, label, w) ==
  /\ clientAt' = [clientAt EXCEPT ![c] = label]
  /\ what' = [what EXCEPT ![c] = w]
  /\ raced' = (raced \/ /\ clientAt[c] = "idle" /\ label \in Acting
                        /\ \E d \in Clients \ {c} : clientAt[d] \in Acting)

ReturnClient(c) == GotoClient(c, "idle", Nothing)

(* The bound of the model: as many jobs are made as there are Jobs.        *)
JobLeft == \E j \in Jobs : task[j] = "none"

(* Mutant: a second start replaces a job that is stopping.                 *)
StartCallOverCancelling(c, s) ==
  /\ "start" \in InstallCalls
  /\ clientAt[c] = "idle"
  /\ JobLeft
  /\ slot[s] # Nothing => state[slot[s]] \notin {"queued", "running"}
  /\ GotoClient(c, "start", s)
  /\ UNCHANGED <<jobs, tasks, modelsRoot, disk>>

(* Start: an active job is returned as it stands.                          *)
StartCall(c, s) ==
  /\ "start" \in InstallCalls
  /\ clientAt[c] = "idle"
  /\ JobLeft
  /\ ~IsActive(s)
  /\ GotoClient(c, "start", s)
  /\ UNCHANGED <<jobs, tasks, modelsRoot, disk>>

(* A new job: nothing to do if everything is there, else a task for it.    *)
AddJob(c, overwrite) ==
  /\ clientAt[c] = "start"
  /\ \E j \in Jobs :
       /\ task[j] = "none"
       /\ slot' = [slot EXCEPT ![what[c]] = j]
       /\ \/ /\ ~overwrite /\ Installed(modelsRoot)
             /\ state' = [state EXCEPT ![j] = "complete"]
             /\ Step(j, "disposed")
          \/ /\ overwrite \/ ~Installed(modelsRoot)
             /\ state' = [state EXCEPT ![j] = "queued"]
             /\ Step(j, "queued")
  /\ ReturnClient(c)
  /\ UNCHANGED <<cancelled, root, at, modelsRoot, disk>>

(* Stop: the state is checked...                                           *)
StopCall(c, s) ==
  /\ "stop" \in InstallCalls
  /\ clientAt[c] = "idle"
  /\ slot[s] # Nothing
  /\ state[slot[s]] \in {"queued", "running"}
  /\ GotoClient(c, "stop", slot[s])
  /\ UNCHANGED <<jobs, tasks, modelsRoot, disk>>

(* ... and then set.                                                       *)
SetCancelling(c) ==
  /\ clientAt[c] = "stop"
  /\ state' = [state EXCEPT ![what[c]] = "cancelling"]
  /\ GotoClient(c, "cancel", what[c])
  /\ UNCHANGED <<slot, cancelled, tasks, modelsRoot, disk>>

(* Cancel.Cancel(), which throws once the source is disposed.              *)
CancelToken(c) ==
  /\ clientAt[c] = "cancel"
  /\ cancelled' = IF task[what[c]] = "disposed" THEN cancelled
                  ELSE cancelled \cup {what[c]}
  /\ ReturnClient(c)
  /\ UNCHANGED <<slot, state, tasks, modelsRoot, disk>>

(* CleanPartial, whoever is writing.                                       *)
CleanPartial(c) ==
  /\ "clean" \in InstallCalls
  /\ clientAt[c] = "idle"
  /\ part' = [n \in Roots \X Files |-> IF n[1] = modelsRoot THEN Nothing ELSE part[n]]
  /\ UNCHANGED <<jobs, tasks, modelsRoot, final, whole, clients>>

(* Mutant: a removal does not ask whether the id is being downloaded.      *)
RemoveCallAlways(c, s) ==
  /\ "remove" \in InstallCalls
  /\ clientAt[c] = "idle"
  /\ GotoClient(c, "remove", s)
  /\ UNCHANGED <<jobs, tasks, modelsRoot, disk>>

(* Remove: refused while the id is being downloaded.                       *)
RemoveCall(c, s) ==
  /\ "remove" \in InstallCalls
  /\ clientAt[c] = "idle"
  /\ ~IsActive(s)
  /\ GotoClient(c, "remove", s)
  /\ UNCHANGED <<jobs, tasks, modelsRoot, disk>>

DeletePackage(c) ==
  /\ clientAt[c] = "remove"
  /\ final' = [n \in Roots \X Files |-> IF n[1] = modelsRoot THEN Nothing ELSE final[n]]
  /\ part' = [n \in Roots \X Files |-> IF n[1] = modelsRoot THEN Nothing ELSE part[n]]
  /\ GotoClient(c, "forget", what[c])
  /\ UNCHANGED <<jobs, tasks, modelsRoot, whole>>

ForgetJob(c) ==
  /\ clientAt[c] = "forget"
  /\ slot' = [slot EXCEPT ![what[c]] = Nothing]
  /\ ReturnClient(c)
  /\ UNCHANGED <<state, cancelled, tasks, modelsRoot, disk>>

(* Mutant: a job that is stopping does not count as busy.                  *)
BusyUnlessCancelling ==
  \E s \in Spellings : slot[s] # Nothing /\ state[slot[s]] \in {"queued", "running"}

Busy == \E s \in Spellings : IsActive(s)

(* Mutant: an empty path is not replaced by the default folder.            *)
RootCallUnresolved(c, r) ==
  /\ "root" \in InstallCalls
  /\ clientAt[c] = "idle"
  /\ r # modelsRoot
  /\ ~Busy
  /\ GotoClient(c, "root", IF r = DefaultRoot THEN Nothing ELSE r)
  /\ UNCHANGED <<jobs, tasks, modelsRoot, disk>>

(* The models-root route: refused while anything is downloading.           *)
RootCall(c, r) ==
  /\ "root" \in InstallCalls
  /\ clientAt[c] = "idle"
  /\ r # modelsRoot
  /\ ~Busy
  /\ GotoClient(c, "root", r)
  /\ UNCHANGED <<jobs, tasks, modelsRoot, disk>>

SetRoot(c) ==
  /\ clientAt[c] = "root"
  /\ modelsRoot' = what[c]
  /\ ReturnClient(c)
  /\ UNCHANGED <<jobs, tasks, disk>>

(* The process dies; the server started after it finds the disk.           *)
Crash ==
  /\ Crashes
  /\ slot' = [s \in Spellings |-> Nothing]
  /\ task' = [j \in Jobs |-> IF task[j] = "none" THEN "none" ELSE "disposed"]
  /\ state' = [j \in Jobs |-> IF state[j] \in Active THEN "failed" ELSE state[j]]
  /\ modelsRoot' = DefaultRoot
  /\ clientAt' = [c \in Clients |-> "idle"]
  /\ what' = [c \in Clients |-> Nothing]
  /\ UNCHANGED <<cancelled, root, at, disk, raced>>

-----------------------------------------------------------------------------
(* What a task does of itself, and what it waits for the network to do.    *)
OwnStep(j) ==
  \/ RunTask(j) \/ ProbeCancelled(j) \/ NextFile(j) \/ ObserveCancel(j)
  \/ Move(j) \/ Undo(j) \/ Dispose(j)

NetworkStep(j) == Probe(j) \/ CreatePart(j) \/ ReadToEnd(j) \/ Fail(j)

Route(c) ==
  \/ \E s \in Spellings : StartCall(c, s) \/ StopCall(c, s) \/ RemoveCall(c, s)
  \/ \E overwrite \in BOOLEAN : AddJob(c, overwrite)
  \/ SetCancelling(c) \/ CancelToken(c)
  \/ CleanPartial(c)
  \/ DeletePackage(c) \/ ForgetJob(c)
  \/ \E r \in Roots : RootCall(c, r)
  \/ SetRoot(c)

InstallNext ==
  \/ \E j \in Jobs : OwnStep(j) \/ NetworkStep(j)
  \/ \E c \in Clients : Route(c)
  \/ Crash

InstallSpec == InstallInit /\ [][InstallNext]_installVars

(* The thread pool runs a task that can run; nothing is assumed of the     *)
(* network, which may leave a read waiting for ever.                       *)
InstallFairness == \A j \in Jobs : WF_installVars(OwnStep(j))

FairInstallSpec == InstallSpec /\ InstallFairness

-----------------------------------------------------------------------------
(* Properties.  The checks of Start, Remove and the models-root route are  *)
(* made on one thread and acted on later, with nothing held in between     *)
(* (InstallJobs.cs:103-130, 238-246, UiRoutes.cs:169-187), so two requests *)
(* that cross there can undo each other: BothStartsAreListed is what then  *)
(* fails.  The others say that nothing else can, whatever is stopped,      *)
(* cleaned up, killed or queued by any number of requests besides.         *)

(* A name that says a file is there holds all of it, whatever was stopped, *)
(* cleaned, failed or killed on the way (PackageInstaller.cs:262-264).     *)
InstalledIsWhole ==
  ~raced => \A n \in Roots \X Files : final[n] # Nothing => final[n] \in whole

(* A task at work is listed, and its state says so.                        *)
Listed(j) == state[j] \in Active /\ \E s \in Spellings : slot[s] = j

(* "One job per package id at a time" (InstallJobs.cs:16-20), of requests  *)
(* that do not cross: the task that is at work is listed, its state says   *)
(* so, and no other is at work, so that it can be polled and stopped.      *)
WorkerIsListed ==
  ~raced =>
    \A j \in Jobs : task[j] \in Working =>
      Listed(j) /\ \A k \in Jobs : task[k] \in Working => k = j

(* The same of requests that may cross, as InstallJobs.cs:16-20 has it:    *)
(* a job that is downloading is the job of its package id.                 *)
BothStartsAreListed == \A j \in Jobs : task[j] \in Working => Listed(j)

(* The models folder does not move under a download (UiRoutes.cs:169-177). *)
RootHoldsStill ==
  ~raced => \A j \in Jobs : task[j] \in Downloading => root[j] = modelsRoot

(* A stopped job ends, even if the network never answers                   *)
(* (PackageInstaller.cs:190-193).                                          *)
StopEndsJob ==
  \A j \in Jobs : j \in cancelled ~> task[j] \notin Working

(* A removal leaves nothing of a package behind (InstallJobs.cs:244-246):  *)
(* what it took away has not come back by the time the id is let go.       *)
RemovalIsComplete ==
  ~raced =>
    \A c \in Clients : clientAt[c] = "forget" =>
      \A f \in Files : final[<<modelsRoot, f>>] = Nothing /\ part[<<modelsRoot, f>>] = Nothing

(* Once a job's task has ended and no request is at work on it, the state  *)
(* a client polls says how it ended (InstallJobs.cs:149-151,213-216).      *)
EndedJobSaysSo ==
  \A j \in Jobs :
    task[j] = "disposed" /\ (\A c \in Clients : clientAt[c] = "idle")
      => state[j] \in Terminal

(* What a client's label says of what it is working on.                    *)
ClientInv ==
  \A c \in Clients :
    /\ clientAt[c] \in {"start", "remove", "forget"} => what[c] \in Spellings
    /\ clientAt[c] \in {"stop", "cancel"} => what[c] \in Jobs
    /\ clientAt[c] = "root" => what[c] \in Roots

(* A check which found nothing downloading still holds when it is acted on.*)
CheckHolds ==
  \A c \in Clients : clientAt[c] \in Acting =>
    /\ \A j \in Jobs : task[j] \notin Working
    /\ \A d \in Clients : clientAt[d] \in Acting => d = c

(* What a task at work says of its file: what is under the name it writes  *)
(* is its own, and is whole by the time it is moved.                       *)
OwnPart(j) ==
  /\ task[j] \in {"write", "move"} => part[Here(j)] \in {Nothing, <<j, at[j]>>}
  /\ task[j] = "move" => <<j, at[j]>> \in whole

WriterAt(j) ==
  /\ task[j] = "next" => at[j] \in 1..(FileCount + 1)
  /\ task[j] \in {"open", "write", "move", "failing", "stopping"} => at[j] \in Files
  /\ task[j] \in Downloading => root[j] \in Roots

(* Every request spells the id one way.                                    *)
OneSpelling == \A s, t \in Spellings : s = t

(* What holds of any requests...                                           *)
JobsInv == InstallTypeOK /\ ClientInv /\ \A j \in Jobs : WriterAt(j)

(* ... and of requests that have not crossed: a check is acted on while it *)
(* still holds, so there is one writer, and what it moves is its own       *)
(* (InstallJobs.cs:102-107, PackageInstaller.cs:247-259).                  *)
UncrossedInv ==
  ~raced =>
    /\ CheckHolds
    /\ \A j \in Jobs : OwnPart(j)
    /\ WorkerIsListed /\ RootHoldsStill /\ InstalledIsWhole /\ RemovalIsComplete

InstallInv == JobsInv /\ UncrossedInv
================================================================================
