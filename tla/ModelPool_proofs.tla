---------------------------- MODULE ModelPool_proofs ----------------------------
(***************************************************************************)
(* Proofs about the model pool, for any number of threads, ids,            *)
(* descriptions and entries.                                               *)
(***************************************************************************)
EXTENDS ModelPool, FiniteSetTheorems, TLAPS

(* An eviction order is a sequence of the entries it orders.               *)
LEMMA EvictionOrderIsSeq ==
  ASSUME NEW S, IsFiniteSet(S), NEW p \in EvictionOrders(S)
  PROVE  p \in Seq(S)
BY FS_CardinalityType DEF EvictionOrders

(* The residents are finitely many entries of the table.                   *)
LEMMA ResidentFinite ==
  ASSUME PoolAssumption, TypeOK, NEW i
  PROVE  IsFiniteSet(Resident(i)) /\ Resident(i) \subseteq Entries
<1> DEFINE T == {entries[j] : j \in Ids}
           f == [j \in Ids |-> entries[j]]
<1>1. f \in Surjection(Ids, T)
  BY DEF Surjection
<1>2. IsFiniteSet(T)
  BY <1>1, FS_Surjection DEF PoolAssumption
<1>3. Resident(i) \in SUBSET T
  BY DEF Resident
<1>4. QED
  BY <1>2, <1>3, FS_Subset DEF Resident, TypeOK

(* The pool starts with nothing held.                                      *)
LEMMA InitIndInv == ASSUME PoolAssumption, Init PROVE IndInv
BY DEF PoolAssumption, Init, IndInv, TypeOK, CallInv, HolderInv, NoGateLeaked,
       ServiceInv, SessionInv, PCs, Holding, Serving

(* Calls that begin.                                                       *)
LEMMA BeginStep ==
  ASSUME PoolAssumption, IndInv,
         NEW t \in Threads, NEW name \in {"use"} \cup CallNames,
         NEW label \in {"enter", "lookup", "next", "add", "swap"},
         NEW i \in Ids \cup {None}, NEW s \in Specs \cup {None}, NEW ids \in SUBSET Ids,
         Begin(t, name, label, i, s, ids),
         label # "next" => i \in Ids,
         name = "use" => s \in Specs
  PROVE  IndInv'
BY DEF PoolAssumption, Begin, Goto, IndInv, TypeOK, CallInv, HolderInv, NoGateLeaked,
       ServiceInv, SessionInv, PCs, Holding, Serving, table, weights

(* An entry just made comes before every entry that was used.              *)
LEMMA UnusedType ==
  ASSUME TypeOK, NEW e \in Entries
  PROVE  Unused(e) \in SUBSET (Entries \X Entries)
<1>1. \A p \in older : p[2] \in Entries /\ p \in Entries \X Entries
  BY DEF TypeOK
<1> QED
  BY <1>1 DEF Unused

(* GetOrAdd finds the id's entry or adds one nothing refers to.            *)
LEMMA EnterTableStep ==
  ASSUME PoolAssumption, IndInv, NEW t \in Threads, EnterTable(t)
  PROVE  IndInv'
<1> USE DEF IndInv
<1>1. PICK e \in Entries :
        /\ entry' = [entry EXCEPT ![t] = e]
        /\ entries' \in [Ids -> Entries \cup {None}]
        /\ older' = older \/ older' = Unused(e)
  <2>1. id[t] \in Ids
    BY DEF EnterTable, CallInv
  <2> QED
    BY <2>1 DEF EnterTable, TypeOK
<1>2. /\ pc[t] = "enter"
      /\ pc' = [pc EXCEPT ![t] = "wait"]
      /\ UNCHANGED <<specs, refuses, gate, model, session, call, id, spec, plan, todo>>
  BY DEF EnterTable, Goto
<1>3. older' \in SUBSET (Entries \X Entries)
  BY <1>1, UnusedType DEF TypeOK
<1>4. TypeOK'
  BY <1>1, <1>2, <1>3 DEF TypeOK, PCs
<1>5. CallInv' /\ HolderInv'
  BY <1>1, <1>2 DEF TypeOK, CallInv, HolderInv, Holding, Serving
<1>6. NoGateLeaked'
  BY <1>1, <1>2 DEF TypeOK, NoGateLeaked, Holding, Serving
<1>7. ServiceInv' /\ SessionInv'
  BY <1>1, <1>2 DEF TypeOK, ServiceInv, SessionInv
<1> QED
  BY <1>4, <1>5, <1>6, <1>7

(* The steps of a run.                                                      *)
LEMMA UseInv ==
  ASSUME PoolAssumption, IndInv, NEW t \in Threads, UseStep(t) \/ TakeGate(t) \/ Finish(t) \/ Cancel(t)
  PROVE  IndInv'
<1>1. CASE EnterTable(t)
  BY <1>1, EnterTableStep
<1>2. CASE TakeGate(t)
  BY <1>2 DEF TakeGate, PoolAssumption, Goto, Take, Release, Return, Touch,
            IndInv, TypeOK, CallInv, HolderInv, NoGateLeaked, ServiceInv, SessionInv,
            PCs, Holding, Serving, table, weights, local
<1>3. CASE GiveUp(t)
  BY <1>3 DEF GiveUp, PoolAssumption, Goto, Take, Release, Return, Touch,
            IndInv, TypeOK, CallInv, HolderInv, NoGateLeaked, ServiceInv, SessionInv,
            PCs, Holding, Serving, table, weights, local
<1>4. CASE Reuse(t)
  BY <1>4 DEF Reuse, PoolAssumption, Goto, Take, Release, Return, Touch,
            IndInv, TypeOK, CallInv, HolderInv, NoGateLeaked, ServiceInv, SessionInv,
            PCs, Holding, Serving, table, weights, local
<1>5. CASE Open(t)
  BY <1>5 DEF Open, PoolAssumption, Goto, Take, Release, Return, Touch,
            IndInv, TypeOK, CallInv, HolderInv, NoGateLeaked, ServiceInv, SessionInv,
            PCs, Holding, Serving, table, weights, local
<1>6. CASE LoadWeights(t)
  BY <1>6 DEF LoadWeights, PoolAssumption, Goto, Take, Release, Return, Touch,
            IndInv, TypeOK, CallInv, HolderInv, NoGateLeaked, ServiceInv, SessionInv,
            PCs, Holding, Serving, table, weights, local
<1>7. CASE LoadFails(t)
  BY <1>7 DEF LoadFails, PoolAssumption, Goto, Take, Release, Return, Touch,
            IndInv, TypeOK, CallInv, HolderInv, NoGateLeaked, ServiceInv, SessionInv,
            PCs, Holding, Serving, table, weights, local
<1>8. CASE CreateSession(t)
  BY <1>8 DEF CreateSession, PoolAssumption, Goto, Take, Release, Return, Touch,
            IndInv, TypeOK, CallInv, HolderInv, NoGateLeaked, ServiceInv, SessionInv,
            PCs, Holding, Serving, table, weights, local
<1>9. CASE CreateSessionFails(t)
  BY <1>9 DEF CreateSessionFails, PoolAssumption, Goto, Take, Release, Return, Touch,
            IndInv, TypeOK, CallInv, HolderInv, NoGateLeaked, ServiceInv, SessionInv,
            PCs, Holding, Serving, table, weights, local
<1>10. CASE Finish(t)
  BY <1>10 DEF Finish, PoolAssumption, Goto, Take, Release, Return, Touch,
            IndInv, TypeOK, CallInv, HolderInv, NoGateLeaked, ServiceInv, SessionInv,
            PCs, Holding, Serving, table, weights, local
<1>11. CASE CancelWait(t)
  BY <1>11 DEF CancelWait, PoolAssumption, Goto, Take, Release, Return, Touch,
            IndInv, TypeOK, CallInv, HolderInv, NoGateLeaked, ServiceInv, SessionInv,
            PCs, Holding, Serving, table, weights, local
<1>12. CASE CancelScan(t)
  BY <1>12 DEF CancelScan, PoolAssumption, Goto, Take, Release, Return, Touch,
            IndInv, TypeOK, CallInv, HolderInv, NoGateLeaked, ServiceInv, SessionInv,
            PCs, Holding, Serving, table, weights, local
<1> QED
  BY <1>1, <1>2, <1>3, <1>4, <1>5, <1>6, <1>7, <1>8, <1>9, <1>10, <1>11, <1>12 DEF UseStep, Cancel

(* Counting the residents changes only the thread's plan.                  *)
LEMMA SurveyStep ==
  ASSUME PoolAssumption, IndInv, NEW t \in Threads, Survey(t)
  PROVE  IndInv'
<1>1. /\ pc[t] = "room"
      /\ pc' = [pc EXCEPT ![t] = "load"] \/ pc' = [pc EXCEPT ![t] = "scan"]
      /\ UNCHANGED <<specs, entries, refuses, gate, model, session, older>>
      /\ UNCHANGED <<call, id, spec, entry, todo>>
  BY DEF Survey, Goto, table, weights
<1>2. \A p \in EvictionOrders(Resident(id[t])) : p \in Seq(Entries)
  <2>1. IsFiniteSet(Resident(id[t])) /\ Resident(id[t]) \subseteq Entries
    BY ResidentFinite DEF IndInv
  <2>2. \A p \in EvictionOrders(Resident(id[t])) : p \in Seq(Resident(id[t]))
    BY <2>1, EvictionOrderIsSeq
  <2> QED
    BY <2>1, <2>2
<1>3. \/ plan' = plan /\ pc' = [pc EXCEPT ![t] = "load"]
      \/ /\ \E p \in EvictionOrders(Resident(id[t])) : plan' = [plan EXCEPT ![t] = p]
         /\ pc' = [pc EXCEPT ![t] = "scan"]
  BY DEF Survey, Goto
<1>4. \/ plan' = plan
      \/ \E p \in Seq(Entries) : plan' = [plan EXCEPT ![t] = p]
  BY <1>2, <1>3
<1>5. plan' \in [Threads -> Seq(Entries)] /\ \A u \in Threads \ {t} : plan'[u] = plan[u]
  <2>1. plan \in [Threads -> Seq(Entries)]
    BY DEF IndInv, TypeOK
  <2> QED
    BY <1>4, <2>1
<1>6. TypeOK'
  BY <1>1, <1>5 DEF IndInv, TypeOK, PCs, Holding, Serving
<1>7. CallInv' /\ HolderInv'
  BY <1>1, <1>5 DEF IndInv, TypeOK, CallInv, HolderInv, Holding, Serving
<1>8. NoGateLeaked'
  BY <1>1, <1>5 DEF IndInv, TypeOK, NoGateLeaked, Holding, Serving
<1>9. ServiceInv' /\ SessionInv'
  BY <1>1 DEF IndInv, TypeOK, ServiceInv, SessionInv
<1> QED
  BY <1>6, <1>7, <1>8, <1>9 DEF IndInv

(* The steps of making room.                                                *)
LEMMA RoomInv ==
  ASSUME PoolAssumption, IndInv, NEW t \in Threads, RoomStep(t)
  PROVE  IndInv'
<1>1. CASE Survey(t)
  BY <1>1, SurveyStep
<1>2. CASE TryEvict(t)
  BY <1>2 DEF TryEvict, PoolAssumption, Goto, Take, Release, Return, Touch,
            IndInv, TypeOK, CallInv, HolderInv, NoGateLeaked, ServiceInv, SessionInv,
            PCs, Holding, Serving, table, weights, local
<1>3. CASE SkipBusy(t)
  BY <1>3 DEF SkipBusy, PoolAssumption, Goto, Take, Release, Return, Touch,
            IndInv, TypeOK, CallInv, HolderInv, NoGateLeaked, ServiceInv, SessionInv,
            PCs, Holding, Serving, table, weights, local
<1>4. CASE SkipEmpty(t)
  BY <1>4 DEF SkipEmpty, PoolAssumption, Goto, Take, Release, Return, Touch,
            IndInv, TypeOK, CallInv, HolderInv, NoGateLeaked, ServiceInv, SessionInv,
            PCs, Holding, Serving, table, weights, local
<1>5. CASE Evict(t)
  BY <1>5 DEF Evict, PoolAssumption, Goto, Take, Release, Return, Touch,
            IndInv, TypeOK, CallInv, HolderInv, NoGateLeaked, ServiceInv, SessionInv,
            PCs, Holding, Serving, table, weights, local
<1>6. CASE NothingToEvict(t)
  BY <1>6, SMTT(30) DEF NothingToEvict, PoolAssumption, Goto, Take, Release, Return, Touch,
            IndInv, TypeOK, CallInv, HolderInv, NoGateLeaked, ServiceInv, SessionInv,
            PCs, Holding, Serving, table, weights, local
<1> QED
  BY <1>1, <1>2, <1>3, <1>4, <1>5, <1>6 DEF RoomStep

(* What a step that only moves thread t and its locals leaves intact.      *)
Moved(t) ==
  /\ pc' \in [Threads -> PCs] /\ pc'[t] \in {"idle", "clear", "unlist", "next"}
  /\ call' \in [Threads -> {"none", "use"} \cup CallNames]
  /\ id' \in [Threads -> Ids \cup {None}]
  /\ spec' \in [Threads -> Specs \cup {None}]
  /\ entry' \in [Threads -> Entries \cup {None}]
  /\ plan' \in [Threads -> Seq(Entries)]
  /\ todo' \in [Threads -> SUBSET Ids]
  /\ pc'[t] \notin {"idle", "next"} => id'[t] \in Ids
  /\ call'[t] = "use" => spec'[t] \in Specs
  /\ \A u \in Threads \ {t} :
       /\ pc'[u] = pc[u] /\ call'[u] = call[u] /\ id'[u] = id[u]
       /\ spec'[u] = spec[u] /\ entry'[u] = entry[u] /\ plan'[u] = plan[u]

(* What follows an unload moves its thread, and no other.                  *)
LEMMA AfterUnloadMoves ==
  ASSUME PoolAssumption, IndInv, NEW t \in Threads, AfterUnload(t),
         pc[t] \in {"lookup", "free"}
  PROVE  Moved(t)
<1> DEFINE next == CASE call[t] = "register" -> "clear"
                  [] call[t] = "forget" -> "unlist"
                  [] OTHER -> "next"
<1>1. next \in {"clear", "unlist", "next"}
  OBVIOUS
<1>2. CASE call[t] = "unload"
  <2>1. Return(t)
    BY <1>2 DEF AfterUnload
  <2> QED
    BY <2>1 DEF Moved, Return, Goto, IndInv, TypeOK, PCs
<1>3. CASE call[t] # "unload"
  <2>. pc' = [pc EXCEPT ![t] = next] /\ entry' = [entry EXCEPT ![t] = None]
      /\ UNCHANGED <<call, id, spec, plan, todo>>
    BY <1>3 DEF AfterUnload, Goto
  <2>. HIDE DEF next
  <2> QED BY <1>1 DEF Moved, IndInv, TypeOK, CallInv, PCs
<1> QED BY <1>2, <1>3

(* One more id of an unload of everything.                                 *)
LEMMA UnloadNextStep ==
  ASSUME PoolAssumption, IndInv, NEW t \in Threads, UnloadNext(t)
  PROVE  IndInv'
<1> USE DEF IndInv
<1>1. CASE Return(t)
  BY <1>1 DEF UnloadNext, Return, Goto, TypeOK, CallInv, HolderInv, NoGateLeaked,
       ServiceInv, SessionInv, PCs, Holding, Serving, table, weights
<1>2. CASE ~Return(t)
  <2>1. PICK i \in todo[t] :
          /\ id' = [id EXCEPT ![t] = i]
          /\ todo' = [todo EXCEPT ![t] = @ \ {i}]
    BY <1>2 DEF UnloadNext
  <2>2. /\ pc[t] = "next" /\ pc' = [pc EXCEPT ![t] = "lookup"]
        /\ UNCHANGED <<specs, entries, refuses, gate, model, session, older>>
        /\ UNCHANGED <<call, spec, entry, plan>>
    BY <1>2 DEF UnloadNext, Goto, table, weights
  <2>3. TypeOK'
    BY <2>1, <2>2 DEF TypeOK, PCs
  <2>4. CallInv' /\ HolderInv'
    BY <2>1, <2>2 DEF TypeOK, CallInv, HolderInv, Holding, Serving
  <2>5. NoGateLeaked'
    BY <2>2 DEF TypeOK, NoGateLeaked, Holding, Serving
  <2>6. ServiceInv' /\ SessionInv'
    BY <2>2 DEF TypeOK, ServiceInv, SessionInv
  <2> QED
    BY <2>3, <2>4, <2>5, <2>6 DEF IndInv
<1> QED
  BY <1>1, <1>2

(* The entry to unload is found, or there is none.                         *)
LEMMA LookUpStep ==
  ASSUME PoolAssumption, IndInv, NEW t \in Threads, LookUp(t)
  PROVE  IndInv'
<1> USE DEF IndInv, table, weights
<1>1. CASE AfterUnload(t)
  <2>1. /\ Moved(t) /\ pc[t] = "lookup"
        /\ UNCHANGED <<specs, entries, refuses, gate, model, session, older>>
    BY <1>1, AfterUnloadMoves DEF LookUp
  <2>2. \A e \in Entries : gate[e] # None => gate[e] \in Threads \ {t}
    BY <2>1 DEF TypeOK, NoGateLeaked, Holding, Serving
  <2>3. \A u \in Threads : pc'[u] \in Holding =>
          pc'[u] = pc[u] /\ entry'[u] = entry[u] /\ plan'[u] = plan[u]
    BY <2>1 DEF Moved, Holding, Serving
  <2>4. TypeOK'
    BY <2>1 DEF Moved, TypeOK
  <2>5. CallInv'
    BY <2>1 DEF Moved, TypeOK, CallInv, Holding, Serving
  <2>6. HolderInv'
    BY <2>1, <2>3 DEF HolderInv, Holding, Serving
  <2>7. NoGateLeaked'
    <3> SUFFICES ASSUME NEW e \in Entries, gate[e] # None
                 PROVE  \/ pc'[gate[e]] \in Holding /\ entry'[gate[e]] = e
                        \/ /\ pc'[gate[e]] = "evict"
                           /\ plan'[gate[e]] # << >>
                           /\ Head(plan'[gate[e]]) = e
      BY <2>1 DEF NoGateLeaked
    <3> QED
      BY <2>1, <2>2, ZenonT(40) DEF Moved, NoGateLeaked
  <2>8. ServiceInv'
    BY <2>1, <2>3 DEF ServiceInv, Holding, Serving
  <2>9. SessionInv'
    BY <2>1 DEF SessionInv
  <2> QED
    BY <2>4, <2>5, <2>6, <2>7, <2>8, <2>9
<1>2. CASE ~AfterUnload(t)
  <2>1. /\ pc[t] = "lookup" /\ id[t] \in Ids
        /\ entry' = [entry EXCEPT ![t] = entries[id[t]]] /\ entries[id[t]] \in Entries
        /\ pc' = [pc EXCEPT ![t] = "wait"]
        /\ UNCHANGED <<specs, entries, refuses, gate, model, session, older>>
        /\ UNCHANGED <<call, id, spec, plan, todo>>
    BY <1>2, ZenonT(40) DEF LookUp, Goto, CallInv, TypeOK
  <2>2. TypeOK'
    BY <2>1 DEF TypeOK, PCs
  <2>3. CallInv' /\ HolderInv'
    BY <2>1 DEF TypeOK, CallInv, HolderInv, Holding, Serving
  <2>4. NoGateLeaked'
    BY <2>1 DEF TypeOK, NoGateLeaked, Holding, Serving
  <2>5. ServiceInv' /\ SessionInv'
    BY <2>1 DEF TypeOK, ServiceInv, SessionInv
  <2> QED
    BY <2>2, <2>3, <2>4, <2>5
<1> QED
  BY <1>1, <1>2

(* The holder of the gate frees what is in the entry.                      *)
LEMMA UnloadStep ==
  ASSUME PoolAssumption, IndInv, NEW t \in Threads, Unload(t)
  PROVE  IndInv'
<1> USE DEF IndInv, table, weights
<1>1. /\ pc[t] = "free" /\ AfterUnload(t) /\ entry[t] \in Entries /\ gate[entry[t]] = t
      /\ Release(entry[t]) /\ UNCHANGED <<table, older>>
  BY DEF Unload, CallInv, HolderInv, Holding
<1>2. \/ UNCHANGED <<session, model>>
      \/ /\ session' = [session EXCEPT ![entry[t]] = None]
         /\ model' = [model EXCEPT ![entry[t]] = None]
  BY DEF Unload
<1>0. Moved(t)
  BY <1>1, AfterUnloadMoves
<1> USE <1>0, <1>1 DEF Moved
<1>3. TypeOK'
  BY <1>2 DEF TypeOK, Release
<1>4. CallInv'
  BY DEF TypeOK, CallInv, Holding, Serving
<1>5. HolderInv'
  BY DEF TypeOK, CallInv, HolderInv, Holding, Serving, Release
<1>6. NoGateLeaked'
  <2> SUFFICES ASSUME NEW e \in Entries \ {entry[t]}, gate[e] # None
               PROVE  \/ pc'[gate[e]] \in Holding /\ entry'[gate[e]] = e
                      \/ /\ pc'[gate[e]] = "evict"
                         /\ plan'[gate[e]] # << >>
                         /\ Head(plan'[gate[e]]) = e
    BY DEF NoGateLeaked, TypeOK, Release
  <2> QED
    BY DEF TypeOK, NoGateLeaked, Holding, Serving
<1>7. ServiceInv'
  BY <1>2 DEF TypeOK, CallInv, HolderInv, ServiceInv, Holding, Serving
<1>8. SessionInv'
  BY <1>2, ZenonT(40) DEF TypeOK, SessionInv
<1> QED
  BY <1>3, <1>4, <1>5, <1>6, <1>7, <1>8

(* The new description takes the old one's place.                          *)
LEMMA SwapStep ==
  ASSUME PoolAssumption, IndInv, NEW t \in Threads, Swap(t)
  PROVE  IndInv'
<1> DEFINE label == IF pc[t] = "swap" THEN "lookup" ELSE "clear"
<1>1. label \in {"lookup", "clear"}
  OBVIOUS
<1>2. pc' = [pc EXCEPT ![t] = label]
  BY DEF Swap, Goto
<1> HIDE DEF label
<1>3. TypeOK'
  BY <1>1, <1>2 DEF Swap, weights, local, IndInv, TypeOK, PCs, CallInv
<1> QED
  BY <1>1, <1>2, <1>3
  DEF Swap, weights, local, IndInv, TypeOK, CallInv, HolderInv, NoGateLeaked,
       ServiceInv, SessionInv, PCs, Holding, Serving, table, weights, local

(* A forgotten id leaves the list, then the table.                         *)
LEMMA ForgetStep ==
  ASSUME PoolAssumption, IndInv, NEW t \in Threads, Unlist(t) \/ Drop(t)
  PROVE  IndInv'
<1>1. CASE Unlist(t)
  <2>1. TypeOK'
    BY <1>1 DEF Unlist, Goto, weights, local, IndInv, TypeOK, PCs, CallInv
  <2> QED
    BY <1>1, <2>1
    DEF Unlist, Goto, weights, local, IndInv, TypeOK, CallInv, HolderInv,
        NoGateLeaked, ServiceInv, SessionInv, PCs, Holding, Serving
<1>2. CASE Drop(t)
  <2>1. TypeOK'
    BY <1>2 DEF Drop, Goto, weights, local, IndInv, TypeOK, PCs, CallInv
  <2> QED
    BY <1>2, <2>1
    DEF Drop, Goto, weights, local, IndInv, TypeOK, CallInv, HolderInv,
        NoGateLeaked, ServiceInv, SessionInv, PCs, Holding, Serving
<1> QED
  BY <1>1, <1>2

(* The steps of the management methods.                                     *)
LEMMA ManageInv ==
  ASSUME PoolAssumption, IndInv, NEW t \in Threads, ManageStep(t)
  PROVE  IndInv'
<1>1. CASE UnloadNext(t)
  BY <1>1, UnloadNextStep
<1>2. CASE LookUp(t)
  BY <1>2, LookUpStep
<1>3. CASE Unload(t)
  BY <1>3, UnloadStep
<1>4. CASE Swap(t)
  BY <1>4, SwapStep
<1>5. CASE Clear(t)
  BY <1>5 DEF Clear, PoolAssumption, Goto, Take, Release, Return, Touch,
            IndInv, TypeOK, CallInv, HolderInv, NoGateLeaked, ServiceInv, SessionInv,
            PCs, Holding, Serving, table, weights, local
<1>6. CASE Unlist(t) \/ Drop(t)
  BY <1>6, ForgetStep
<1> QED
  BY <1>1, <1>2, <1>3, <1>4, <1>5, <1>6 DEF ManageStep

(* The calls that begin, and the one that completes at once.               *)
LEMMA StartInv ==
  ASSUME PoolAssumption, IndInv, NEW t \in Threads, NEW i \in Ids,
         StartUse(t, i) \/ StartManaging(t, i)
  PROVE  IndInv'
<1>1. CASE StartUse(t, i)
  <2>1. specs[i] \in Specs
    BY <1>1 DEF StartUse, IndInv, TypeOK
  <2> QED
    BY <1>1, <2>1, BeginStep DEF StartUse
<1>2. CASE StartUnload(t, i)
  BY <1>2, BeginStep DEF StartUnload, CallNames
<1>3. CASE StartUnloadAll(t)
  <2>1. {j \in Ids : specs[j] # None} \in SUBSET Ids
    OBVIOUS
  <2> QED
    BY <1>3, <2>1, BeginStep DEF StartUnloadAll, CallNames
<1>4. CASE StartForget(t, i)
  BY <1>4, BeginStep DEF StartForget, CallNames
<1>5. ASSUME NEW s \in Specs, StartRegister(t, i, s)
      PROVE  IndInv'
  <2> DEFINE label == IF specs[i] = None THEN "add" ELSE "swap"
  <2>1. label \in {"add", "swap"} /\ Begin(t, "register", label, i, s, {})
    BY <1>5 DEF StartRegister
  <2> HIDE DEF label
  <2> QED
    BY <2>1, BeginStep DEF CallNames
<1>6. CASE NoteLanguageRefused(t, i)
  BY <1>6 DEF NoteLanguageRefused, IndInv, TypeOK, CallInv, HolderInv, NoGateLeaked,
              ServiceInv, SessionInv, weights, local
<1> QED
  BY <1>1, <1>2, <1>3, <1>4, <1>5, <1>6 DEF StartManaging

(* A finalized entry is no thread's.                                       *)
LEMMA CollectInv ==
  ASSUME PoolAssumption, IndInv, NEW e \in Entries, Collect(e)
  PROVE  IndInv'
<1>1. \A t \in Threads : entry[t] # e
  BY DEF Collect, Reachable
<1> QED
  BY <1>1 DEF Collect, PoolAssumption, IndInv, TypeOK, CallInv, HolderInv, NoGateLeaked,
              ServiceInv, SessionInv, Holding, Serving, table, local

-----------------------------------------------------------------------------
(* IndInv holds in every state: whatever the calls, failures and           *)
(* cancellations, a gate is held exactly where the code is between its     *)
(* WaitAsync and its finally (ModelPool.cs:86-104,212-226,352-387).        *)
THEOREM PoolInvariant == Spec => []IndInv
<1>1. Init => IndInv
  BY PoolAssumption, InitIndInv
<1>2. IndInv /\ [Next]_vars => IndInv'
  <2> SUFFICES ASSUME IndInv, [Next]_vars
               PROVE  IndInv'
    OBVIOUS
  <2>1. ASSUME NEW t \in Requests, NEW i \in Ids, StartUse(t, i)
        PROVE  IndInv'
    BY <2>1, PoolAssumption, StartInv DEF Threads
  <2>2. ASSUME NEW t \in Managers, NEW i \in Ids, StartManaging(t, i)
        PROVE  IndInv'
    BY <2>2, PoolAssumption, StartInv DEF Threads
  <2>3. ASSUME NEW t \in Threads, Progress(t) \/ TakeGate(t) \/ Finish(t) \/ Cancel(t)
        PROVE  IndInv'
    BY <2>3, PoolAssumption, UseInv, RoomInv, ManageInv DEF Progress
  <2>4. ASSUME NEW e \in Entries, Collect(e)
        PROVE  IndInv'
    BY <2>4, PoolAssumption, CollectInv
  <2>5. CASE UNCHANGED vars
    BY <2>5 DEF vars, IndInv, TypeOK, CallInv, HolderInv, NoGateLeaked,
                ServiceInv, SessionInv
  <2> QED
    BY <2>1, <2>2, <2>3, <2>4, <2>5 DEF Next
<1> QED
  BY <1>1, <1>2, PTL DEF Spec

(* The labels, calls and locals keep their types whatever interleaves      *)
(* (the locals of ModelPool.cs:62-105,118-151,208-253,339-388).            *)
THEOREM PoolTypeCorrect == Spec => []TypeOK
<1>1. IndInv => TypeOK
  BY DEF IndInv
<1> QED
  BY <1>1, PoolInvariant, PTL

(* No unload, eviction, reconfiguration or finalizer disposes a session a  *)
(* run is using, and the run holds its gate (ModelPool.cs:16-19,199-207).  *)
THEOREM RunsOnLiveSessions == Spec => []SessionInUseIsLive
<1>1. IndInv => SessionInUseIsLive
  BY DEF IndInv, HolderInv, ServiceInv, Holding, Serving, SessionInUseIsLive
<1> QED
  BY <1>1, PoolInvariant, PTL

(* Whoever holds a gate stands where it will release it: no exception,     *)
(* cancellation or early return leaks one (ModelPool.cs:86-104,212-226,    *)
(* 352-387).                                                               *)
THEOREM GatesAreReleased == Spec => []NoGateLeaked
<1>1. IndInv => NoGateLeaked
  BY DEF IndInv
<1> QED
  BY <1>1, PoolInvariant, PTL

(* No session outlives its weights and no load overwrites weights already  *)
(* read (ModelPool.cs:96-97,220-221,371-381).                              *)
THEOREM WeightsAreKept == Spec => []WeightsOutliveSession
<1>1. IndInv => WeightsOutliveSession
  BY DEF IndInv, ServiceInv, SessionInv, WeightsOutliveSession
<1> QED
  BY <1>1, PoolInvariant, PTL

-----------------------------------------------------------------------------
(* The pool implements ExclusiveSessions.                                  *)

(* The abstract session's users, told apart by the gate they hold.         *)
LEMMA OneRunner ==
  ASSUME PoolAssumption, IndInv, NEW t \in Threads, pc[t] = "run"
  PROVE  entry[t] \in Entries /\ RunnersOn(entry[t]) = {t} /\ entry[t] \in Live
BY DEF IndInv, CallInv, HolderInv, ServiceInv, Holding, Serving, RunnersOn, Live

(* Nobody runs on an entry whose gate a thread holds that is not running.  *)
LEMMA NoRunner ==
  ASSUME PoolAssumption, IndInv, NEW e \in Entries, NEW t \in Threads,
         gate[e] = t, pc[t] # "run"
  PROVE  RunnersOn(e) = {}
BY DEF IndInv, HolderInv, Holding, Serving, RunnersOn

(* Who runs and what is open stay the same: a stutter of the abstraction.  *)
LEMMA Quiet ==
  ASSUME UNCHANGED session,
         \A t \in Threads : pc'[t] = "run" <=> pc[t] = "run",
         \A t \in Threads : pc[t] = "run" => entry'[t] = entry[t]
  PROVE  UNCHANGED Abstract!vars
<1>1. UNCHANGED Live
  BY DEF Live
<1>2. \A e \in Entries : RunnersOn(e)' = RunnersOn(e)
  BY DEF RunnersOn
<1> QED
  BY <1>1, <1>2 DEF Abstract!vars

(* An entry nobody runs on is emptied: a close, unless it was empty.       *)
LEMMA Emptied ==
  ASSUME TypeOK, NEW e \in Entries, RunnersOn(e) = {},
         session' = [session EXCEPT ![e] = None],
         \A t \in Threads : pc'[t] = "run" <=> pc[t] = "run",
         \A t \in Threads : pc[t] = "run" => entry'[t] = entry[t]
  PROVE  Abstract!Close(e) \/ UNCHANGED Abstract!vars
<1>1. \A f \in Entries : RunnersOn(f)' = RunnersOn(f)
  BY DEF RunnersOn
<1>2. CASE session[e] = None
  <2>1. UNCHANGED session
    BY <1>2 DEF TypeOK
  <2> QED
    BY <2>1, Quiet
<1>3. CASE session[e] # None
  <2>1. e \in Live /\ Live' = Live \ {e}
    BY <1>3 DEF TypeOK, Live
  <2> QED
    BY <1>1, <2>1 DEF Abstract!Close
<1> QED
  BY <1>2, <1>3

(* A run begins on the thread's entry, on a session kept or just created.  *)
LEMMA RunBegins ==
  ASSUME PoolAssumption, IndInv, NEW t \in Threads, Reuse(t) \/ CreateSession(t)
  PROVE  \E e \in Entries : Abstract!Begin(e, t) \/ Abstract!Open(e, t)
<1> DEFINE e == entry[t]
<1>1. /\ e \in Entries /\ gate[e] = t /\ pc[t] # "run"
      /\ pc' = [pc EXCEPT ![t] = "run"] /\ entry' = entry
  BY DEF Reuse, CreateSession, Goto, local, IndInv, CallInv, HolderInv, Holding, Serving
<1>2. RunnersOn(e) = {}
  BY <1>1, NoRunner
<1>3. \A f \in Entries : RunnersOn(f)' = IF f = e THEN {t} ELSE RunnersOn(f)
  BY <1>1, <1>2 DEF RunnersOn, IndInv, TypeOK
<1>4. CASE Reuse(t)
  <2>1. session' = session /\ session[e] # None
    BY <1>4 DEF Reuse
  <2>2. e \in Live /\ Live' = Live
    BY <1>1, <2>1 DEF Live
  <2> QED
    BY <1>1, <1>2, <1>3, <2>2 DEF Abstract!Begin
<1>5. CASE CreateSession(t)
  <2>1. /\ session' = [session EXCEPT ![e] = spec[t]]
        /\ session[e] = None /\ spec[t] # None
    BY <1>5 DEF CreateSession, PoolAssumption, IndInv, TypeOK, CallInv, ServiceInv, Serving
  <2>2. e \notin Live /\ Live' = Live \cup {e}
    BY <1>1, <2>1 DEF Live, IndInv, TypeOK
  <2> QED
    BY <1>1, <1>2, <1>3, <2>2 DEF Abstract!Open
<1> QED
  BY <1>4, <1>5

(* A run ends by letting its entry go.                                     *)
LEMMA RunEnds ==
  ASSUME PoolAssumption, IndInv, NEW t \in Threads, Finish(t)
  PROVE  \E e \in Entries : Abstract!End(e, t)
<1> DEFINE e == entry[t]
<1>1. /\ pc[t] = "run" /\ pc' = [pc EXCEPT ![t] = "idle"]
      /\ entry' = [entry EXCEPT ![t] = None] /\ session' = session
  BY DEF Finish, Return, Goto, weights
<1>2. e \in Entries /\ RunnersOn(e) = {t}
  BY <1>1, OneRunner
<1>3. \A f \in Entries : RunnersOn(f)' = IF f = e THEN {} ELSE RunnersOn(f)
  BY <1>1, <1>2 DEF RunnersOn, IndInv, TypeOK
<1>4. UNCHANGED Live
  BY <1>1 DEF Live
<1> QED
  BY <1>1, <1>2, <1>3, <1>4 DEF Abstract!End

(* A thread that is not running steps to a label that is not "run".        *)
QuietMove(t) ==
  /\ pc[t] # "run" /\ pc'[t] # "run"
  /\ \A u \in Threads \ {t} : pc'[u] = pc[u] /\ entry'[u] = entry[u]

(* Every step but reuse, creation, eviction and unload leaves the sessions *)
(* as they are.                                                            *)
LEMMA QuietSteps ==
  ASSUME PoolAssumption, IndInv, NEW t \in Threads,
         \/ UseStep(t) /\ ~Reuse(t) /\ ~CreateSession(t)
         \/ RoomStep(t) /\ ~Evict(t)
         \/ ManageStep(t) /\ ~Unload(t)
         \/ TakeGate(t)
         \/ Cancel(t)
  PROVE  UNCHANGED session /\ QuietMove(t)
<1>1. UNCHANGED session
  BY DEF UseStep, RoomStep, ManageStep, Cancel, EnterTable, GiveUp, Open, LoadWeights,
         LoadFails, CreateSessionFails, Survey, TryEvict, SkipBusy, SkipEmpty,
         NothingToEvict, UnloadNext, LookUp, Swap, Clear, Unlist, Drop, TakeGate,
         CancelWait, CancelScan, weights
<1>0. pc \in [Threads -> PCs] /\ entry \in [Threads -> Entries \cup {None}]
  BY DEF IndInv, TypeOK
<1> USE <1>1
<1>2. CASE GiveUp(t) \/ LoadFails(t) \/ CreateSessionFails(t) \/ Cancel(t) \/ Clear(t)
  <2>1. pc[t] # "run" /\ Return(t)
    BY <1>2 DEF GiveUp, LoadFails, CreateSessionFails, Cancel, CancelWait, CancelScan, Clear
  <2> QED
    BY <1>0, <2>1 DEF QuietMove, Return, Goto
<1>3. CASE Open(t) \/ LoadWeights(t) \/ TakeGate(t)
  <2>1. entry' = entry
    BY <1>3 DEF Open, LoadWeights, TakeGate, local
  <2>2. /\ pc[t] # "run"
        /\ \E label \in {"create", "room", "load", "serve", "free"} :
             pc' = [pc EXCEPT ![t] = label]
    BY <1>3 DEF Open, LoadWeights, TakeGate, Goto
  <2> QED
    BY <1>0, <2>1, <2>2 DEF QuietMove
<1>5. CASE EnterTable(t)
  <2>1. \E e : entry' = [entry EXCEPT ![t] = e]
    BY <1>5 DEF EnterTable
  <2>2. pc[t] # "run" /\ pc' = [pc EXCEPT ![t] = "wait"]
    BY <1>5 DEF EnterTable, Goto
  <2> QED
    BY <1>0, <2>1, <2>2 DEF QuietMove
<1>6. CASE RoomStep(t) /\ ~Evict(t)
  <2>1. entry' = entry
    BY <1>6 DEF RoomStep, Survey, TryEvict, SkipBusy, SkipEmpty, NothingToEvict, local
  <2>2. /\ pc[t] \in {"room", "scan", "evict"}
        /\ \/ \E label \in {"load", "scan", "evict"} : pc' = [pc EXCEPT ![t] = label]
           \/ pc' = pc
    BY <1>6 DEF RoomStep, Survey, TryEvict, SkipBusy, SkipEmpty, NothingToEvict, Goto
  <2> QED
    BY <1>0, <2>1, <2>2 DEF QuietMove
<1>7. CASE UnloadNext(t)
  <2>1. CASE Return(t)
    BY <1>0, <1>7, <2>1 DEF QuietMove, UnloadNext, Return, Goto
  <2>2. CASE ~Return(t)
    BY <1>0, <1>7, <2>2 DEF QuietMove, UnloadNext, Goto
  <2> QED
    BY <2>1, <2>2
<1>8. CASE LookUp(t)
  <2>1. CASE AfterUnload(t)
    <3>1. Moved(t) /\ pc[t] = "lookup"
      BY <1>8, <2>1, AfterUnloadMoves DEF LookUp
    <3> QED
      BY <3>1 DEF QuietMove, Moved
  <2>2. CASE ~AfterUnload(t)
    <3>1. /\ pc[t] = "lookup" /\ pc' = [pc EXCEPT ![t] = "wait"]
          /\ \E e : entry' = [entry EXCEPT ![t] = e]
      BY <1>8, <2>2 DEF LookUp, Goto
    <3> QED
      BY <1>0, <3>1 DEF QuietMove
  <2> QED
    BY <2>1, <2>2
<1>9. CASE Swap(t) \/ Unlist(t) \/ Drop(t)
  <2>1. entry' = entry
    BY <1>9 DEF Swap, Unlist, Drop, local
  <2>2. /\ pc[t] # "run"
        /\ \E label \in {"lookup", "clear", "drop"} : pc' = [pc EXCEPT ![t] = label]
    BY <1>9 DEF Swap, Unlist, Drop, Goto
  <2> QED
    BY <1>0, <2>1, <2>2 DEF QuietMove
<1> QED
  BY <1>2, <1>3, <1>5, <1>6, <1>7, <1>8, <1>9 DEF UseStep, ManageStep

(* Every step of the pool is one of ExclusiveSessions, or a stutter of it. *)
LEMMA StepRefines ==
  ASSUME PoolAssumption, IndInv, [Next]_vars
  PROVE  [Abstract!Next]_(Abstract!vars)
<1>1. ASSUME NEW t \in Threads, QuietMove(t), UNCHANGED session
      PROVE  UNCHANGED Abstract!vars
  BY <1>1, Quiet DEF QuietMove
<1>2. ASSUME NEW t \in Threads, NEW i \in Ids, StartUse(t, i) \/ StartManaging(t, i)
      PROVE  UNCHANGED Abstract!vars
  <2>1. UNCHANGED session /\ UNCHANGED entry
    BY <1>2 DEF StartUse, StartManaging, StartUnload, StartUnloadAll, StartForget,
           StartRegister, NoteLanguageRefused, Begin, weights, local
  <2>2. \/ UNCHANGED pc
        \/ /\ pc[t] = "idle"
           /\ \E label \in {"enter", "lookup", "next", "add", "swap"} :
                pc' = [pc EXCEPT ![t] = label]
    BY <1>2 DEF StartUse, StartManaging, StartUnload, StartUnloadAll, StartForget,
           StartRegister, NoteLanguageRefused, Begin, Goto
  <2>3. \A u \in Threads : pc'[u] = "run" <=> pc[u] = "run"
    BY <2>2 DEF IndInv, TypeOK
  <2> QED
    BY <2>1, <2>3, Quiet
<1>3. ASSUME NEW t \in Threads, Reuse(t) \/ CreateSession(t)
      PROVE  Abstract!Next
  BY <1>3, PoolAssumption, RunBegins DEF Abstract!Next
<1>4. ASSUME NEW t \in Threads, Finish(t)
      PROVE  Abstract!Next
  BY <1>4, PoolAssumption, RunEnds DEF Abstract!Next
<1>5. ASSUME NEW t \in Threads, Evict(t)
      PROVE  Abstract!Next \/ UNCHANGED Abstract!vars
  <2> DEFINE victim == Head(plan[t])
  <2>1. /\ pc[t] = "evict" /\ victim \in Entries /\ gate[victim] = t
        /\ pc' = [pc EXCEPT ![t] = "room"] /\ UNCHANGED entry
        /\ session' = [session EXCEPT ![victim] = None]
    BY <1>5 DEF Evict, Goto, IndInv, TypeOK, HolderInv
  <2>2. RunnersOn(victim) = {}
    BY <2>1, PoolAssumption, NoRunner
  <2>3. \A u \in Threads : pc'[u] = "run" <=> pc[u] = "run"
    BY <2>1 DEF IndInv, TypeOK
  <2> QED
    BY <2>1, <2>2, <2>3, Emptied DEF IndInv, Abstract!Next
<1>6. ASSUME NEW t \in Threads, Unload(t)
      PROVE  Abstract!Next \/ UNCHANGED Abstract!vars
  <2> DEFINE e == entry[t]
  <2>1. pc[t] = "free" /\ AfterUnload(t) /\ e \in Entries /\ gate[e] = t
    BY <1>6 DEF Unload, IndInv, CallInv, HolderInv, Holding
  <2>2. session' = [session EXCEPT ![e] = None]
    BY <1>6, <2>1 DEF Unload, IndInv, TypeOK
  <2>3. RunnersOn(e) = {}
    BY <2>1, PoolAssumption, NoRunner
  <2>4. Moved(t)
    BY <2>1, PoolAssumption, AfterUnloadMoves
  <2>5. /\ \A u \in Threads : pc'[u] = "run" <=> pc[u] = "run"
        /\ \A u \in Threads : pc[u] = "run" => entry'[u] = entry[u]
    BY <2>1, <2>4 DEF Moved
  <2> QED
    BY <2>1, <2>2, <2>3, <2>5, Emptied DEF IndInv, Abstract!Next
<1>7. ASSUME NEW e \in Entries, Collect(e)
      PROVE  Abstract!Next \/ UNCHANGED Abstract!vars
  <2>1. /\ session' = [session EXCEPT ![e] = None]
        /\ UNCHANGED pc /\ UNCHANGED entry /\ RunnersOn(e) = {}
    BY <1>7 DEF Collect, Reachable, RunnersOn, local
  <2> QED
    BY <2>1, Emptied DEF IndInv, Abstract!Next
<1>8. CASE UNCHANGED vars
  BY <1>8, Quiet DEF vars
<1>9. ASSUME NEW t \in Threads, Progress(t) \/ TakeGate(t) \/ Finish(t) \/ Cancel(t)
      PROVE  Abstract!Next \/ UNCHANGED Abstract!vars
  <2>1. \/ Reuse(t) \/ CreateSession(t) \/ Finish(t) \/ Evict(t) \/ Unload(t)
        \/ UNCHANGED session /\ QuietMove(t)
    BY <1>9, PoolAssumption, QuietSteps DEF Progress
  <2> QED
    BY <2>1, <1>1, <1>3, <1>4, <1>5, <1>6
<1> QED
  BY <1>2, <1>7, <1>8, <1>9 DEF Next, Threads

(* Each session of the pool is an exclusive session: used by one run at a  *)
(* time, and never closed under it (ModelPool.cs:10-19).                   *)
THEOREM PoolImplementsExclusiveSessions == Spec => ImplementsExclusiveSessions
<1>1. Init => Abstract!Init
  BY DEF Init, Abstract!Init, Live, RunnersOn
<1>2. IndInv /\ [Next]_vars => [Abstract!Next]_(Abstract!vars)
  BY PoolAssumption, StepRefines
<1> QED
  BY <1>1, <1>2, PoolInvariant, PTL DEF Spec, ImplementsExclusiveSessions, Abstract!Spec
================================================================================
