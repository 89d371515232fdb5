------------------------------- MODULE DeviceList ------------------------------
(***************************************************************************)
(* The process's one audio context and its list of capture devices         *)
(* (native/audioio/audioio.c), shared by threads that enumerate and open   *)
(* (AudioCapture.Devices, AudioCapture.Open), while devices come and go.   *)
(*                                                                         *)
(* A call is a few steps because the lock is created lazily, with the      *)
(* context, and covers only part of each.                                  *)
(***************************************************************************)
EXTENDS Naturals, Sequences

CONSTANTS
  Users,     \* threads that call
  Hardware,  \* capture devices
  MaxCalls   \* bound: calls in all

ASSUME DeviceListAssumption ==
  /\ 0 \notin Users /\ 0 \notin Hardware
  /\ MaxCalls \in Nat

VARIABLES
  plugged,       \* the devices the system has, in its order
  contextReady,  \* g_context_ready
  contexts,      \* how many times ma_context_init was called on g_context
  lockReady,     \* g_lock_ready
  lockedBy,      \* who holds g_lock
  captureList,   \* g_capture_devices, g_capture_count long
  userAt,        \* where each thread stands
  calling,       \* the call it makes: "devices" or "open"
  count,         \* the count its refresh returned
  record,        \* the CaptureDeviceInfo it holds
  chosenId,      \* its copy of the device's id
  steady,        \* history: since its last Devices() began nothing was plugged or pulled,
                 \* and no other thread enumerated while it read its names
  calls          \* how many calls began

listVars == <<plugged, contextReady, contexts, lockReady, lockedBy, captureList, userAt, calling,
              count, record, chosenId, steady, calls>>
callVars == <<calling, calls>>
managed == <<count, record>>
contextVars == <<contextReady, contexts, lockReady>>

None == 0
NoRecord == [index |-> 0, device |-> None]

ListTypeOK ==
  /\ plugged \in Seq(Hardware) /\ captureList \in Seq(Hardware)
  /\ contextReady \in BOOLEAN /\ lockReady \in BOOLEAN
  /\ contexts \in Nat
  /\ lockedBy \in Users \cup {None}
  /\ userAt \in [Users -> {"idle", "ensure", "initContext", "initLock", "setReady", "lock",
                           "rewrite", "fill", "copy", "unlock", "names", "text", "initDevice"}]
  /\ calling \in [Users -> {"devices", "open", "default"}]
  /\ count \in [Users -> Nat]
  /\ record \in [Users -> [index : Nat, device : Hardware \cup {None}]]
  /\ chosenId \in [Users -> Hardware \cup {None}]
  /\ steady \in [Users -> BOOLEAN]
  /\ calls \in 0..MaxCalls

ListInit ==
  /\ plugged = << >>
  /\ contextReady = FALSE /\ contexts = 0 /\ lockReady = FALSE /\ lockedBy = None
  /\ captureList = << >>
  /\ userAt = [u \in Users |-> "idle"]
  /\ calling = [u \in Users |-> "devices"]
  /\ count = [u \in Users |-> 0]
  /\ record = [u \in Users |-> NoRecord]
  /\ chosenId = [u \in Users |-> None]
  /\ steady = [u \in Users |-> FALSE]
  /\ calls = 0

Goes(u, label) == userAt' = [userAt EXCEPT ![u] = label]

(* A device is plugged in, at the end, or pulled out.                      *)
Replug ==
  /\ \/ \E d \in Hardware :
          (\A i \in DOMAIN plugged : plugged[i] # d) /\ plugged' = Append(plugged, d)
     \/ \E i \in DOMAIN plugged :
          plugged' = SubSeq(plugged, 1, i - 1) \o SubSeq(plugged, i + 1, Len(plugged))
  /\ steady' = [u \in Users |-> FALSE]
  /\ UNCHANGED <<contextVars, lockedBy, captureList, userAt, callVars, managed, chosenId>>

-----------------------------------------------------------------------------
(* ensure_context, which no lock covers.                                   *)

(* Devices(), or Open of a record or of the default device (no record).    *)
Call(u, what) ==
  /\ userAt[u] = "idle"
  /\ calls < MaxCalls
  /\ calls' = calls + 1
  /\ calling' = [calling EXCEPT ![u] = what]
  /\ record' = IF what = "default" THEN [record EXCEPT ![u] = NoRecord] ELSE record
  /\ steady' = IF what = "devices" THEN [steady EXCEPT ![u] = TRUE] ELSE steady
  /\ Goes(u, "ensure")
  /\ UNCHANGED <<plugged, contextVars, lockedBy, captureList, count, chosenId>>

(* The default device is opened without a look at the list.                *)
AfterContext(u) == IF calling[u] = "default" THEN "initDevice" ELSE "lock"

EnsureContext(u) ==
  /\ userAt[u] = "ensure"
  /\ Goes(u, IF contextReady THEN AfterContext(u) ELSE "initContext")
  /\ UNCHANGED <<plugged, contextVars, lockedBy, captureList, callVars, managed, chosenId, steady>>

(* Mutant: the context counts as ready before its lock is there.           *)
InitContextReady(u) ==
  /\ userAt[u] = "initContext"
  /\ contexts' = contexts + 1
  /\ contextReady' = TRUE
  /\ Goes(u, "initLock")
  /\ UNCHANGED <<plugged, lockReady, lockedBy, captureList, callVars, managed, chosenId, steady>>

(* The context is written anew; a failure ends the call.                   *)
InitContext(u) ==
  /\ userAt[u] = "initContext"
  /\ \/ contexts' = contexts + 1 /\ Goes(u, "initLock")
     \/ Goes(u, "idle") /\ UNCHANGED contexts
  /\ UNCHANGED <<plugged, contextReady, lockReady, lockedBy, captureList, callVars, managed,
                 chosenId, steady>>

(* So is the lock, whoever holds it.                                       *)
InitLock(u) ==
  /\ userAt[u] = "initLock"
  /\ lockReady' = TRUE
  /\ lockedBy' = None
  /\ Goes(u, "setReady")
  /\ UNCHANGED <<plugged, contextReady, contexts, captureList, callVars, managed, chosenId, steady>>

SetReady(u) ==
  /\ userAt[u] = "setReady"
  /\ contextReady' = TRUE
  /\ Goes(u, AfterContext(u))
  /\ UNCHANGED <<plugged, contexts, lockReady, lockedBy, captureList, callVars, managed,
                 chosenId, steady>>

-----------------------------------------------------------------------------
(* audioio_refresh_devices and audioio_open under the lock.                *)

(* Without a lock to take, none is taken.                                  *)
LockDevices(u) ==
  /\ userAt[u] = "lock"
  /\ lockReady => lockedBy = None
  /\ lockedBy' = IF lockReady THEN u ELSE lockedBy
  /\ Goes(u, IF calling[u] = "devices" THEN "rewrite" ELSE "copy")
  /\ UNCHANGED <<plugged, contextVars, captureList, callVars, managed, chosenId, steady>>

(* ma_context_get_devices empties the list and its memory, enumerates, and *)
(* fills them; if it fails the list stays empty.  A name another thread is *)
(* reading becomes anything.                                               *)
EmptyList(u) ==
  /\ userAt[u] = "rewrite"
  /\ captureList' = << >>
  /\ \E garbage \in Hardware :
       record' = [v \in Users |->
         IF userAt[v] = "text" THEN [record[v] EXCEPT !.device = garbage] ELSE record[v]]
  /\ steady' = [v \in Users |-> steady[v] /\ userAt[v] \notin {"names", "text"}]
  /\ \E next \in {"fill", "unlock"} : Goes(u, next)
  /\ UNCHANGED <<plugged, contextVars, lockedBy, callVars, count, chosenId>>

FillList(u) ==
  /\ userAt[u] = "fill"
  /\ captureList' = plugged
  /\ Goes(u, "unlock")
  /\ UNCHANGED <<plugged, contextVars, lockedBy, callVars, managed, chosenId, steady>>

(* An index out of range ends the call.                                    *)
CopyId(u) ==
  /\ userAt[u] = "copy"
  /\ IF record[u].index \in DOMAIN captureList
     THEN /\ chosenId' = [chosenId EXCEPT ![u] = captureList[record[u].index]]
          /\ Goes(u, "initDevice")
     ELSE Goes(u, "idle") /\ UNCHANGED chosenId
  /\ lockedBy' = None
  /\ UNCHANGED <<plugged, contextVars, captureList, callVars, managed, steady>>

UnlockDevices(u) ==
  /\ userAt[u] = "unlock"
  /\ count' = [count EXCEPT ![u] = Len(captureList)]
  /\ lockedBy' = None
  /\ Goes(u, "names")
  /\ UNCHANGED <<plugged, contextVars, captureList, callVars, record, chosenId, steady>>

(* Devices() then asks for the names one by one, each under the lock; the  *)
(* caller keeps one of the records.  An index that is gone has no name.    *)
FindName(u) ==
  /\ userAt[u] = "names"
  /\ lockedBy = None
  /\ \/ /\ count[u] = 0
        /\ record' = [record EXCEPT ![u] = NoRecord]
        /\ Goes(u, "idle")
     \/ \E i \in 1..count[u] :
          IF i \in DOMAIN captureList
          THEN /\ record' = [record EXCEPT ![u] = [index |-> i, device |-> captureList[i]]]
               /\ Goes(u, "text")
          ELSE /\ record' = [record EXCEPT ![u] = [index |-> i, device |-> None]]
               /\ Goes(u, "idle")
  /\ count' = [count EXCEPT ![u] = 0]
  /\ UNCHANGED <<plugged, contextVars, lockedBy, captureList, callVars, chosenId, steady>>

(* What comes back is a pointer into the list, and its text is read after  *)
(* the lock was let go.                                                    *)
ReadName(u) ==
  /\ userAt[u] = "text"
  /\ Goes(u, "idle")
  /\ UNCHANGED <<plugged, contextVars, lockedBy, captureList, callVars, managed, chosenId, steady>>

(* ma_device_init of the id, which fails if the device is gone; or of the  *)
(* default device.                                                         *)
InitDevice(u) ==
  /\ userAt[u] = "initDevice"
  /\ chosenId' = [chosenId EXCEPT ![u] = None]
  /\ Goes(u, "idle")
  /\ UNCHANGED <<plugged, contextVars, lockedBy, captureList, callVars, managed, steady>>

-----------------------------------------------------------------------------
ListNext ==
  \/ Replug
  \/ \E u \in Users :
       \/ Call(u, "devices") \/ Call(u, "default")
       \/ record[u].index > 0 /\ Call(u, "open")
       \/ EnsureContext(u) \/ InitContext(u) \/ InitLock(u) \/ SetReady(u)
       \/ LockDevices(u) \/ EmptyList(u) \/ FillList(u) \/ CopyId(u) \/ UnlockDevices(u)
       \/ FindName(u) \/ ReadName(u) \/ InitDevice(u)

ListSpec == ListInit /\ [][ListNext]_listVars

-----------------------------------------------------------------------------
(* Properties.                                                             *)

UsesList(u) == userAt[u] \in {"rewrite", "fill", "copy", "unlock"}

(* As long as only one thread initialised the context, one thread at a time*)
(* reads the list or rewrites its memory, although the lock is created by  *)
(* the first call and skipped while there is none; and a record opens the  *)
(* device it names, whatever others open and enumerate, unless devices came*)
(* or went since it was made or another thread enumerated while its names  *)
(* were read, which they are without the lock (audioio.c:43-57,73-83,      *)
(* 92-100,163-175, AudioCapture.cs:36-56).                                 *)
ListIsSound ==
  contexts <= 1 =>
    /\ \A u, v \in Users : UsesList(u) /\ UsesList(v) => u = v
    /\ \A u \in Users :
         userAt[u] = "initDevice" /\ calling[u] = "open" /\ steady[u] =>
           chosenId[u] = record[u].device

(* The inductive invariant.  Nobody is past the context before somebody    *)
(* made it, whoever makes it is alone, and the lock is held exactly where  *)
(* the list is used (audioio.c:43-58).                                     *)
BeforeContext == {"idle", "ensure", "initContext"}
Making == {"initLock", "setReady"}

ContextInv ==
  /\ contexts = 0 => ~contextReady /\ ~lockReady /\ \A u \in Users : userAt[u] \in BeforeContext
  /\ ~contextReady => \A u \in Users : userAt[u] \in BeforeContext \cup Making
  /\ contextReady => lockReady /\ \A u \in Users : userAt[u] \notin Making
  /\ \A u \in Users : userAt[u] = "setReady" => lockReady
  /\ \A u, v \in Users : userAt[u] \in Making /\ userAt[v] \in Making => u = v
  /\ \A u \in Users : UsesList(u) <=> lockedBy = u
  /\ \A u \in Users : record[u].index # 0 => contextReady /\ userAt[u] \notin {"initContext"}

(* Where a thread that saw nothing change stands on what it has seen.      *)
HasRecord(u) ==
  record[u].index # 0 /\ (calling[u] # "devices" \/ userAt[u] \in {"idle", "text"})

RecordInv(u) ==
  /\ userAt[u] \in {"fill", "unlock", "names"} \/ HasRecord(u) =>
       captureList \in {<< >>, plugged}
  /\ userAt[u] = "names" =>
       /\ count[u] = Len(captureList)
       /\ \A v \in Users : userAt[v] # "fill"
  /\ HasRecord(u) =>
       record[u].index \in DOMAIN plugged /\ record[u].device = plugged[record[u].index]
  /\ userAt[u] = "initDevice" /\ calling[u] = "open" => chosenId[u] = record[u].device

CallingInv ==
  \A u \in Users :
    /\ userAt[u] \in {"rewrite", "fill", "unlock", "names", "text"} => calling[u] = "devices"
    /\ userAt[u] \in {"copy", "initDevice"} => calling[u] # "devices"
    /\ calling[u] = "open" => record[u].index # 0

ListInv ==
  /\ ListTypeOK
  /\ CallingInv
  /\ contexts <= 1 => ContextInv /\ \A u \in Users : steady[u] => RecordInv(u)
================================================================================
