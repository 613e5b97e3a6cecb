------------------------ MODULE SyncAdmissionProofs -------------------------
(***************************************************************************)
(* Proofs about SyncAdmission, for any number of requests, syncs, stops    *)
(* and crashes: with a lock that outlives its request no live sync escapes *)
(* the table of its process, on any number of processes, and on one        *)
(* process the requests and tasks implement SyncLifecycle.                 *)
(***************************************************************************)
EXTENDS SyncAdmission, TLAPS

-----------------------------------------------------------------------------
(* The inductive invariant of the table, in named parts.                   *)

Serving(r) == req[r].pc \in InTry

(* The lock keeps the requests past SET NX apart.                          *)
OneServing ==
    /\ \A r \in Requests : Serving(r) => lock
    /\ \A q, r \in Requests : Serving(q) /\ Serving(r) => q = r

(* Between the look at the table and create_task the table stays empty.    *)
TableStaysEmpty ==
    \A r \in Requests : req[r].pc \in {"insert", "create"} =>
        running_syncs[req[r].proc] = NoSync

(* The row a request has inserted has no task, and carries its process.    *)
OwnRow ==
    \A r \in Requests : req[r].pc = "create" =>
        /\ req[r].sync \in SyncIds
        /\ status[req[r].sync] # "none" /\ task[req[r].sync].phase = "none"
        /\ task[req[r].sync].proc = req[r].proc

(* A task has a row, and ends with an outcome.                             *)
RowBeforeTask ==
    \A n \in SyncIds : /\ status[n] = "none" => task[n].phase = "none"
                       /\ task[n].phase = "finishing" => task[n].outcome # "none"

TableParts ==
    /\ OneServing
    /\ TableStaysEmpty
    /\ OwnRow
    /\ RowBeforeTask
    /\ LiveSyncIsRegistered

TableInv == TypeOK /\ TableParts

-----------------------------------------------------------------------------
(* Types.                                                                  *)

Pcs == {"idle", "lock"} \cup InTry
Phases == {"none", "syncing", "finishing", "over"}
Outcomes == {"none", "completed", "failed", "cancelled"}
Statuses == {"none", "running", "completed", "failed", "cancelled"}

Req == [pc : Pcs, proc : Procs, sync : SyncIds \cup {NoSync}]
Task == [phase : Phases, proc : Procs, outcome : Outcomes]

Types ==
    /\ lock \in BOOLEAN /\ expires \in BOOLEAN /\ cooldown \in BOOLEAN
    /\ req \in [Requests -> Req]
    /\ proc \in [Procs -> {"down", "booting", "up", "stopping"}]
    /\ running_syncs \in [Procs -> SyncIds \cup {NoSync}]
    /\ task \in [SyncIds -> Task]
    /\ status \in [SyncIds -> Statuses]
    /\ restarts \in Nat

LEMMA TypesAreTypeOK == (TypeOK <=> Types) /\ (TypeOK' <=> Types')
BY DEF TypeOK, Types, Req, Task, Pcs, Phases, Outcomes, Statuses

(* A request that moves on, or is replaced, keeps its type.                *)
LEMMA ReqUpdates ==
    ASSUME req \in [Requests -> Req], NEW r \in Requests, NEW pc \in Pcs, NEW q \in Req
    PROVE  /\ [req EXCEPT ![r].pc = pc] \in [Requests -> Req]
           /\ [req EXCEPT ![r] = q] \in [Requests -> Req]
BY DEF Req

(* Two fields of one request, or of one task, set in one step.             *)
LEMMA TwoReqFields ==
    ASSUME req \in [Requests -> Req], NEW r \in Requests, NEW pc \in Pcs,
           NEW n \in SyncIds \cup {NoSync}
    PROVE  [req EXCEPT ![r].pc = pc, ![r].sync = n] \in [Requests -> Req]
BY DEF Req

LEMMA TwoTaskFields ==
    ASSUME task \in [SyncIds -> Task], NEW n \in SyncIds, NEW phase \in Phases, NEW o \in Outcomes
    PROVE  [task EXCEPT ![n].phase = phase, ![n].outcome = o] \in [SyncIds -> Task]
BY DEF Task

LEMMA InitTypes == Init => TypeOK
<1> SUFFICES ASSUME Init PROVE TypeOK
  OBVIOUS
<1>1. (CHOOSE p \in Procs : TRUE) \in Procs
  BY ProcsAssumption
<1>2. task \in [SyncIds -> Task]
  BY <1>1 DEF Init, Task, Phases, Outcomes
<1>3. req \in [Requests -> Req]
  BY DEF Init, Req, Pcs
<1> QED
  BY <1>2, <1>3, TypesAreTypeOK DEF Init, Types, Statuses

LEMMA StepTypes == TypeOK /\ [Next]_vars => TypeOK'
<1> SUFFICES ASSUME Types, [Next]_vars PROVE Types'
  BY TypesAreTypeOK
<1> USE DEF valkey, service, syncs
<1>p. Pcs = {"idle", "lock", "start", "insert", "create", "cooldown", "release"}
  BY DEF Pcs, InTry
<1>1. ASSUME NEW r \in Requests, NEW p \in Procs, ReadCooldown(r, p) PROVE Types'
  <2>1. [pc |-> "lock", proc |-> p, sync |-> NoSync] \in Req
    BY <1>p DEF Req
  <2> QED
    BY <1>1, <2>1, ReqUpdates DEF Types, ReadCooldown
<1>2. ASSUME NEW r \in Requests, RequestStep(r) PROVE Types'
  <2>i. IdleReq(r) \in Req
    BY ReqUpdates, <1>p DEF Types, Req, IdleReq
  <2>g. \A pc \in Pcs : Goto(r, pc) => req' \in [Requests -> Req]
    BY ReqUpdates, <2>i DEF Types, Goto
  <2>l. Leave(r) => req' \in [Requests -> Req]
    BY <2>i DEF Types, Leave
  <2>1. CASE SetLock(r)
    BY <2>1, <2>g, <1>p DEF Types, SetLock
  <2>2. CASE LockRefused(r)
    BY <2>2, <2>l DEF Types, LockRefused
  <2>3. CASE CheckRunning(r)
    BY <2>3, <2>g, <1>p DEF Types, CheckRunning
  <2>4. CASE InsertRow(r)
    <3>1. PICK n \in Unused :
             /\ status' = [status EXCEPT ![n] = "running"]
             /\ task' = [task EXCEPT ![n].proc = req[r].proc]
             /\ req' = [req EXCEPT ![r].pc = "create", ![r].sync = n]
      BY <2>4 DEF InsertRow
    <3>2. n \in SyncIds /\ req[r].proc \in Procs /\ "create" \in Pcs
      BY <1>p DEF Unused, Types, Req
    <3>3. task' \in [SyncIds -> Task]
      BY <3>1, <3>2 DEF Types, Task
    <3>4. req' \in [Requests -> Req]
      <4>1. n \in SyncIds \cup {NoSync} /\ req \in [Requests -> Req]
        BY <3>2 DEF Types
      <4>2. [req EXCEPT ![r].pc = "create", ![r].sync = n] \in [Requests -> Req]
        BY <3>2, <4>1, TwoReqFields
      <4> QED
        BY <3>1, <4>2
    <3> QED
      BY <2>4, <3>1, <3>2, <3>3, <3>4 DEF Types, InsertRow, Statuses
  <2>5. CASE InsertFails(r)
    BY <2>5, <2>g, <1>p DEF Types, InsertFails
  <2>6. CASE CreateTask(r)
    <3>1. task' \in [SyncIds -> Task]
      BY <2>6 DEF Types, CreateTask, Task, Phases
    <3>2. running_syncs' \in [Procs -> SyncIds \cup {NoSync}]
      BY <2>6 DEF Types, CreateTask, Req
    <3> QED
      BY <2>6, <3>1, <3>2, <2>g, <1>p DEF Types, CreateTask
  <2>7. CASE SetCooldown(r)
    BY <2>7, <2>g, <1>p DEF Types, SetCooldown
  <2>8. CASE Release(r)
    BY <2>8, <2>l DEF Types, Release
  <2> QED
    BY <1>2, <2>1, <2>2, <2>3, <2>4, <2>5, <2>6, <2>7, <2>8 DEF RequestStep
<1>3. CASE LockExpires \/ CooldownExpires
  BY <1>3 DEF Types, LockExpires, CooldownExpires
<1>4. ASSUME NEW n \in SyncIds, TaskStep(n) PROVE Types'
  <2>1. CASE SyncEnds(n)
    <3>1. task' \in [SyncIds -> Task]
      <4>1. PICK o \in {"completed", "failed"} :
               task' = [task EXCEPT ![n].phase = "finishing", ![n].outcome = o]
        BY <2>1 DEF SyncEnds
      <4>2. o \in Outcomes /\ "finishing" \in Phases
        BY DEF Outcomes, Phases
      <4>3. task \in [SyncIds -> Task]
        BY DEF Types
      <4>4. [task EXCEPT ![n].phase = "finishing", ![n].outcome = o] \in [SyncIds -> Task]
        BY <4>2, <4>3, TwoTaskFields
      <4> QED
        BY <4>1, <4>4
    <3> QED
      BY <2>1, <3>1 DEF Types, SyncEnds
  <2>2. CASE RecordOutcome(n)
    <3>1. task' \in [SyncIds -> Task]
      BY <2>2 DEF Types, RecordOutcome, Task, Phases
    <3>2. status' \in [SyncIds -> Statuses]
      BY <2>2 DEF Types, RecordOutcome, Task, Statuses, Outcomes
    <3> QED
      BY <2>2, <3>1, <3>2 DEF Types, RecordOutcome, Popped
  <2> QED
    BY <1>4, <2>1, <2>2 DEF TaskStep
<1>5. ASSUME NEW p \in Procs, Stop(p) \/ Exit(p) \/ Crash(p) \/ Startup(p) PROVE Types'
  <2>1. CASE Stop(p)
    <3>1. task' \in [SyncIds -> Task]
      <4> DEFINE n == running_syncs[p]
      <4>1. /\ "cancelled" \in Outcomes /\ "finishing" \in Phases /\ "over" \in Phases
            /\ task \in [SyncIds -> Task]
            /\ n # NoSync => n \in SyncIds
        BY DEF Outcomes, Phases, Types
      <4>2. CASE n = NoSync
        BY <2>1, <4>1, <4>2 DEF Stop
      <4>3. CASE n # NoSync /\ task[n].phase = "syncing"
        <5>1. [task EXCEPT ![n].phase = "finishing", ![n].outcome = "cancelled"]
                 \in [SyncIds -> Task]
          BY <4>1, <4>3, TwoTaskFields
        <5> QED
          BY <2>1, <4>3, <5>1 DEF Stop
      <4>4. CASE n # NoSync /\ task[n].phase = "finishing"
        <5>1. [task EXCEPT ![n].phase = "over"] \in [SyncIds -> Task]
          BY <4>1, <4>4 DEF Task
        <5> QED
          BY <2>1, <4>4, <5>1 DEF Stop
      <4> QED
        BY <2>1, <4>2, <4>3, <4>4 DEF Stop
    <3>2. status' \in [SyncIds -> Statuses]
      BY <2>1 DEF Types, Stop, Task, Statuses, Outcomes
    <3>3. running_syncs' \in [Procs -> SyncIds \cup {NoSync}]
      BY <2>1 DEF Types, Stop, Popped
    <3>4. /\ proc' \in [Procs -> {"down", "booting", "up", "stopping"}]
          /\ restarts' \in Nat
      BY <2>1 DEF Types, Stop
    <3>5. UNCHANGED <<valkey, req>>
      BY <2>1 DEF Stop
    <3> QED
      BY <3>1, <3>2, <3>3, <3>4, <3>5 DEF Types
  <2>2. ASSUME Dies(p), restarts' \in Nat PROVE Types'
    <3>1. task' \in [SyncIds -> Task]
      BY <2>2 DEF Types, Dies, Task, Phases
    <3>2. req' \in [Requests -> Req]
      BY <2>2, <1>p DEF Types, Dies, IdleReq, Req
    <3> QED
      BY <2>2, <3>1, <3>2 DEF Types, Dies, Popped
  <2>3. CASE Exit(p) \/ Crash(p)
    BY <2>2, <2>3 DEF Exit, Crash, Types
  <2>4. CASE Startup(p)
    BY <2>4 DEF Types, Startup, Boot, ReconcileStaleSyncHistory, Statuses
  <2> QED
    BY <1>5, <2>1, <2>3, <2>4
<1>6. CASE UNCHANGED vars
  BY <1>6 DEF Types, vars
<1> QED
  BY <1>1, <1>2, <1>3, <1>4, <1>5, <1>6 DEF Next

(* The types of locks, requests, tasks and rows hold throughout.           *)
THEOREM AdmissionTypes == Spec => []TypeOK
BY InitTypes, StepTypes, PTL DEF Spec

-----------------------------------------------------------------------------
(* What a step of a request leaves of the requests.                        *)
LEMMA Moves ==
    ASSUME Types, NEW r \in Requests, NEW pc \in Pcs, Goto(r, pc)
    PROVE  /\ req'[r].pc = pc /\ req'[r].proc = req[r].proc /\ req'[r].sync = req[r].sync
           /\ \A q \in Requests : q # r => req'[q] = req[q]
BY DEF Types, Goto, Req

LEMMA Leaves ==
    ASSUME Types, NEW r \in Requests, Leave(r)
    PROVE  /\ req'[r].pc = "idle"
           /\ \A q \in Requests : q # r => req'[q] = req[q]
BY DEF Types, Leave, Req, IdleReq

(* A step that leaves the tasks, the table and the rows alone, and moves   *)
(* no request to insert or create, keeps all but the lock.                 *)
LEMMA TableFramed ==
    ASSUME TableInv, UNCHANGED <<running_syncs, task>>,
           \A n \in SyncIds : status'[n] = "none" => status[n] = "none",
           \A q \in Requests : req'[q].pc \in {"insert", "create"} => req'[q] = req[q]
    PROVE  TableStaysEmpty' /\ OwnRow' /\ RowBeforeTask' /\ LiveSyncIsRegistered'
BY DEF TableInv, TableParts, TableStaysEmpty, OwnRow, RowBeforeTask, LiveSyncIsRegistered, LiveOn, Live

LEMMA InitTable == Init => TableInv
<1> SUFFICES ASSUME Init PROVE TableInv
  OBVIOUS
<1>1. \A r \in Requests : req[r].pc = "idle"
  BY DEF Init
<1>2. \A n \in SyncIds : task[n].phase = "none"
  BY DEF Init
<1> QED
  BY <1>1, <1>2, InitTypes DEF TableInv, TableParts, OneServing, Serving, InTry, TableStaysEmpty, OwnRow,
     RowBeforeTask, LiveSyncIsRegistered, LiveOn, Live

LEMMA RequestKeepsTable ==
    ASSUME TableInv, TypeOK', NEW r \in Requests, RequestStep(r)
    PROVE  TableInv'
<1> USE DEF valkey, service, syncs
<1>t. Types /\ Types'
  BY TypesAreTypeOK DEF TableInv, TableParts
<1>p. Pcs = {"idle", "lock", "start", "insert", "create", "cooldown", "release"}
  BY DEF Pcs, InTry
<1>i. OneServing /\ TableStaysEmpty /\ OwnRow /\ RowBeforeTask /\ LiveSyncIsRegistered
  BY DEF TableInv, TableParts
<1>q. SUFFICES OneServing' /\ TableStaysEmpty' /\ OwnRow' /\ RowBeforeTask' /\ LiveSyncIsRegistered'
  BY DEF TableInv, TableParts
<1>1. CASE SetLock(r)
  <2>m. /\ req'[r].pc = "start"
        /\ \A q \in Requests : q # r => req'[q] = req[q]
    BY <1>1, <1>t, <1>p, Moves DEF SetLock
  <2>1. OneServing'
    BY <1>1, <2>m, <1>i DEF SetLock, OneServing, Serving, InTry
  <2>2. \A q \in Requests : req'[q].pc \in {"insert", "create"} => req'[q] = req[q]
    BY <2>m
  <2> QED
    BY <1>1, <2>1, <2>2, TableFramed DEF SetLock
<1>2. CASE LockRefused(r)
  <2>m. /\ req'[r].pc = "idle"
        /\ \A q \in Requests : q # r => req'[q] = req[q]
    BY <1>2, <1>t, <1>p, Leaves DEF LockRefused
  <2>1. OneServing'
    BY <1>2, <2>m, <1>i DEF LockRefused, OneServing, Serving, InTry
  <2>2. \A q \in Requests : req'[q].pc \in {"insert", "create"} => req'[q] = req[q]
    BY <2>m
  <2> QED
    BY <1>2, <2>1, <2>2, TableFramed DEF LockRefused
<1>3. CASE CheckRunning(r)
  <2>m. /\ req[r].pc = "start"
        /\ req'[r].pc = IF running_syncs[req[r].proc] # NoSync THEN "release" ELSE "insert"
        /\ req'[r].proc = req[r].proc
        /\ \A q \in Requests : q # r => req'[q] = req[q]
    BY <1>3, <1>t, <1>p, Moves DEF CheckRunning
  <2>u. UNCHANGED <<lock, running_syncs, task, status>>
    BY <1>3 DEF CheckRunning
  <2>1. OneServing'
    BY <2>m, <2>u, <1>i DEF OneServing, Serving, InTry
  <2>2. TableStaysEmpty'
    BY <2>m, <2>u, <1>i DEF TableStaysEmpty
  <2>3. OwnRow'
    BY <2>m, <2>u, <1>i DEF OwnRow
  <2>4. RowBeforeTask' /\ LiveSyncIsRegistered'
    BY <2>u, <1>i DEF RowBeforeTask, LiveSyncIsRegistered, LiveOn, Live
  <2> QED
    BY <2>1, <2>2, <2>3, <2>4
<1>4. CASE InsertRow(r)
  <2>1. PICK n \in Unused :
           /\ status' = [status EXCEPT ![n] = "running"]
           /\ task' = [task EXCEPT ![n].proc = req[r].proc]
           /\ req' = [req EXCEPT ![r].pc = "create", ![r].sync = n]
    BY <1>4 DEF InsertRow
  <2>2. n \in SyncIds /\ status[n] = "none" /\ task[n].phase = "none"
    BY <1>i DEF Unused, RowBeforeTask
  <2>3. /\ req[r].pc = "insert"
        /\ req'[r].pc = "create" /\ req'[r].proc = req[r].proc /\ req'[r].sync = n
        /\ \A q \in Requests : q # r => req'[q] = req[q]
    BY <1>4, <1>t, <2>1 DEF InsertRow, Types, Req
  <2>4. /\ task'[n].phase = "none" /\ task'[n].proc = req[r].proc
        /\ \A m \in SyncIds : m # n => task'[m] = task[m]
    BY <1>t, <2>1, <2>2 DEF Types, Task
  <2>u. UNCHANGED <<lock, running_syncs>>
    BY <1>4 DEF InsertRow
  <2>5. OneServing'
    BY <2>u, <2>3, <1>i DEF OneServing, Serving, InTry
  <2>6. TableStaysEmpty'
    BY <2>u, <2>3, <1>i DEF TableStaysEmpty
  <2>7. OwnRow'
    <3>1. \A q \in Requests : q # r => req[q].pc # "create"
      BY <2>3, <1>i DEF OneServing, Serving, InTry
    <3>2. status'[n] = "running"
      BY <1>t, <2>1, <2>2 DEF Types
    <3> QED
      BY <2>2, <2>3, <2>4, <3>1, <3>2 DEF OwnRow
  <2>8. RowBeforeTask'
    BY <1>t, <1>i, <2>1, <2>2, <2>4 DEF RowBeforeTask, Types
  <2>9. LiveSyncIsRegistered'
    BY <2>u, <1>i, <2>2, <2>4 DEF LiveSyncIsRegistered, LiveOn, Live
  <2> QED
    BY <2>5, <2>6, <2>7, <2>8, <2>9
<1>5. CASE InsertFails(r)
  <2>m. /\ req'[r].pc = "release"
        /\ \A q \in Requests : q # r => req'[q] = req[q]
    BY <1>5, <1>t, <1>p, Moves DEF InsertFails
  <2>1. OneServing'
    BY <1>5, <2>m, <1>i DEF InsertFails, OneServing, Serving, InTry
  <2>2. \A q \in Requests : req'[q].pc \in {"insert", "create"} => req'[q] = req[q]
    BY <2>m
  <2> QED
    BY <1>5, <2>1, <2>2, TableFramed DEF InsertFails
<1>6. CASE CreateTask(r)
  <2> DEFINE n == req[r].sync
             p == req[r].proc
  <2>1. /\ n \in SyncIds /\ p \in Procs /\ task[n].proc = p
        /\ running_syncs[p] = NoSync
    BY <1>6, <1>t, <1>i DEF CreateTask, OwnRow, TableStaysEmpty, Types, Req
  <2>2. /\ task'[n].phase = "syncing" /\ task'[n].proc = p
        /\ \A m \in SyncIds : m # n => task'[m] = task[m]
    BY <1>6, <1>t, <2>1 DEF CreateTask, Types, Task
  <2>3. /\ running_syncs'[p] = n
        /\ \A o \in Procs : o # p => running_syncs'[o] = running_syncs[o]
    BY <1>6, <1>t, <2>1 DEF CreateTask, Types
  <2>4. \A q \in Requests : q # r => ~Serving(q)
    BY <1>6, <1>i DEF CreateTask, OneServing, Serving, InTry
  <2>m. /\ req[r].pc = "create" /\ req'[r].pc = "cooldown"
        /\ \A q \in Requests : q # r => req'[q] = req[q]
    BY <1>6, <1>t, <1>p, Moves DEF CreateTask
  <2>u. UNCHANGED <<lock, status>>
    BY <1>6 DEF CreateTask
  <2>5. OneServing'
    BY <2>m, <2>u, <1>i DEF OneServing, Serving, InTry
  <2>6. TableStaysEmpty' /\ OwnRow'
    BY <2>m, <2>4 DEF TableStaysEmpty, OwnRow, Serving, InTry
  <2>7. RowBeforeTask'
    <3>1. status[n] # "none"
      BY <2>m, <1>i DEF OwnRow
    <3> QED
      BY <2>u, <1>i, <2>2, <3>1 DEF RowBeforeTask
  <2>8. LiveSyncIsRegistered'
    BY <1>i, <2>1, <2>2, <2>3, NoSyncAssumption DEF LiveSyncIsRegistered, LiveOn, Live
  <2> QED
    BY <2>5, <2>6, <2>7, <2>8
<1>7. CASE SetCooldown(r)
  <2>m. /\ req'[r].pc = "release"
        /\ \A q \in Requests : q # r => req'[q] = req[q]
    BY <1>7, <1>t, <1>p, Moves DEF SetCooldown
  <2>1. OneServing'
    BY <1>7, <2>m, <1>i DEF SetCooldown, OneServing, Serving, InTry
  <2>2. \A q \in Requests : req'[q].pc \in {"insert", "create"} => req'[q] = req[q]
    BY <2>m
  <2> QED
    BY <1>7, <2>1, <2>2, TableFramed DEF SetCooldown
<1>8. CASE Release(r)
  <2>m. /\ req'[r].pc = "idle"
        /\ \A q \in Requests : q # r => req'[q] = req[q]
    BY <1>8, <1>t, <1>p, Leaves DEF Release
  <2>1. OneServing'
    BY <1>8, <2>m, <1>i DEF Release, OneServing, Serving, InTry
  <2>2. \A q \in Requests : req'[q].pc \in {"insert", "create"} => req'[q] = req[q]
    BY <2>m
  <2> QED
    BY <1>8, <2>1, <2>2, TableFramed DEF Release
<1> QED
  BY <1>1, <1>2, <1>3, <1>4, <1>5, <1>6, <1>7, <1>8 DEF RequestStep

LEMMA StepTable ==
    ASSUME LockMayLapse = FALSE, TableInv, [Next]_vars
    PROVE  TableInv'
<1> USE DEF valkey, service, syncs
<1>t. TypeOK /\ TypeOK' /\ Types /\ Types'
  BY StepTypes, TypesAreTypeOK DEF TableInv, TableParts
<1>i. OneServing /\ TableStaysEmpty /\ OwnRow /\ RowBeforeTask /\ LiveSyncIsRegistered
  BY DEF TableInv, TableParts
<1>q. SUFFICES TableParts'
  BY <1>t DEF TableInv
<1>1. ASSUME NEW r \in Requests, NEW p \in Procs, ReadCooldown(r, p)
      PROVE  TableParts'
  <2>1. /\ req'[r].pc = "lock"
        /\ \A q \in Requests : q # r => req'[q] = req[q]
    BY <1>1, <1>t DEF ReadCooldown, Types
  <2>2. OneServing'
    BY <1>1, <2>1, <1>i DEF ReadCooldown, OneServing, Serving, InTry
  <2> QED
    BY <1>1, <2>1, <2>2, TableFramed DEF ReadCooldown, TableParts
<1>2. ASSUME NEW r \in Requests, RequestStep(r)
      PROVE  TableParts'
  BY <1>2, <1>t, RequestKeepsTable DEF TableInv, TableParts
<1>3. CASE LockExpires \/ CooldownExpires
  <2>1. OneServing'
    BY <1>3, <1>i DEF LockExpires, CooldownExpires, OneServing, Serving
  <2> QED
    BY <1>3, <2>1, TableFramed DEF LockExpires, CooldownExpires, TableParts
<1>4. ASSUME NEW n \in SyncIds, SyncEnds(n)
      PROVE  TableParts'
  <2>u. /\ UNCHANGED <<lock, req, running_syncs, status>>
        /\ task[n].phase = "syncing"
    BY <1>4 DEF SyncEnds
  <2>1. /\ task'[n].phase = "finishing" /\ task'[n].proc = task[n].proc
        /\ task'[n].outcome # "none"
        /\ \A m \in SyncIds : m # n => task'[m] = task[m]
    BY <1>4, <1>t DEF SyncEnds, Types, Task
  <2>2. OneServing' /\ TableStaysEmpty' /\ OwnRow'
    BY <2>u, <2>1, <1>i DEF OneServing, Serving, TableStaysEmpty, OwnRow
  <2>3. RowBeforeTask' /\ LiveSyncIsRegistered'
    BY <2>u, <2>1, <1>i DEF RowBeforeTask, LiveSyncIsRegistered, LiveOn, Live
  <2> QED
    BY <2>2, <2>3 DEF TableParts
<1>5. ASSUME NEW n \in SyncIds, RecordOutcome(n)
      PROVE  TableParts'
  <2> DEFINE p == task[n].proc
  <2>u. /\ UNCHANGED <<lock, req>>
        /\ task[n].phase = "finishing" /\ p \in Procs
    BY <1>5, <1>t DEF RecordOutcome, Types, Task
  <2>1. /\ task'[n].phase = "over" /\ task'[n].proc = p
        /\ \A m \in SyncIds : m # n => task'[m] = task[m]
    BY <1>5, <1>t DEF RecordOutcome, Types, Task
  <2>2. /\ running_syncs'[p] = NoSync
        /\ \A o \in Procs : o # p => running_syncs'[o] = running_syncs[o]
    BY <1>5, <1>t, <2>u DEF RecordOutcome, Popped, Types
  <2>3. running_syncs[p] = n
    BY <1>i, <2>u DEF LiveSyncIsRegistered, LiveOn, Live
  <2>4. \A m \in SyncIds : m # n => status'[m] = status[m]
    BY <1>5, <1>t DEF RecordOutcome, Types
  <2>5. status[n] # "none" /\ status'[n] # "none"
    BY <1>5, <1>t, <1>i, <2>u DEF RecordOutcome, RowBeforeTask, Types
  <2>6. OneServing' /\ TableStaysEmpty'
    BY <2>u, <2>2, <1>i, <1>t DEF OneServing, Serving, TableStaysEmpty, Types, Req
  <2>7. OwnRow'
    BY <2>u, <2>1, <2>4, <2>5, <1>i DEF OwnRow
  <2>8. RowBeforeTask'
    BY <2>1, <2>4, <2>5, <1>i DEF RowBeforeTask
  <2>9. LiveSyncIsRegistered'
    BY <2>1, <2>2, <2>3, <1>i DEF LiveSyncIsRegistered, LiveOn, Live
  <2> QED
    BY <2>6, <2>7, <2>8, <2>9 DEF TableParts
<1>6. ASSUME NEW p \in Procs, Stop(p)
      PROVE  TableParts'
  <2>d. PICK n : n = running_syncs[p]
    OBVIOUS
  <2>u. UNCHANGED <<lock, req>>
    BY <1>6 DEF Stop
  <2>n. \A r \in Requests : req[r].pc = "idle" \/ req[r].proc # p
    BY <1>6 DEF Stop, NoRequestOn
  <2>1. CASE n = NoSync
    BY <1>6, <2>d, <2>1, <2>u, <1>i DEF Stop, TableParts, OneServing, Serving, TableStaysEmpty, OwnRow,
       RowBeforeTask, LiveSyncIsRegistered, LiveOn, Live
  <2>2. CASE n # NoSync /\ task[n].phase = "syncing"
    <3>1. /\ UNCHANGED <<running_syncs, status>>
          /\ task' = [task EXCEPT ![n].phase = "finishing", ![n].outcome = "cancelled"]
      BY <1>6, <2>d, <2>2 DEF Stop
    <3>s. UNCHANGED <<running_syncs, status>>
      BY <3>1
    <3>2. n \in SyncIds
      BY <2>2, <2>d, <1>t DEF Types
    <3>3. /\ task'[n].phase = "finishing" /\ task'[n].proc = task[n].proc
          /\ task'[n].outcome # "none"
          /\ \A m \in SyncIds : m # n => task'[m] = task[m]
      BY <3>1, <3>2, <1>t DEF Types, Task
    <3>4. OneServing' /\ TableStaysEmpty'
      BY <2>u, <3>1, <1>i DEF OneServing, Serving, TableStaysEmpty
    <3>5. OwnRow' /\ RowBeforeTask'
      BY <2>u, <2>2, <3>s, <3>3, <1>i DEF OwnRow, RowBeforeTask
    <3>6. LiveSyncIsRegistered'
      BY <2>2, <2>d, <3>s, <3>3, <1>i DEF LiveSyncIsRegistered, LiveOn, Live
    <3> QED
      BY <3>4, <3>5, <3>6 DEF TableParts
  <2>3. CASE n # NoSync /\ task[n].phase = "finishing"
    <3>1. /\ status' \in {status, [status EXCEPT ![n] = task[n].outcome]}
          /\ task' = [task EXCEPT ![n].phase = "over"]
          /\ running_syncs' = [running_syncs EXCEPT ![p] = NoSync]
      BY <1>6, <2>d, <2>3 DEF Stop, Popped
    <3>2. n \in SyncIds
      BY <2>3, <2>d, <1>t DEF Types
    <3>3. /\ task'[n].phase = "over" /\ task'[n].proc = task[n].proc
          /\ \A m \in SyncIds : m # n => task'[m] = task[m] /\ status'[m] = status[m]
          /\ status'[n] # "none"
      BY <2>3, <3>1, <3>2, <1>t, <1>i DEF Types, Task, RowBeforeTask
    <3>4. OneServing' /\ TableStaysEmpty'
      BY <2>u, <2>n, <3>1, <1>i, <1>t DEF OneServing, Serving, TableStaysEmpty, Types, Req
    <3>5. OwnRow' /\ RowBeforeTask'
      BY <2>u, <2>3, <3>3, <1>i DEF OwnRow, RowBeforeTask
    <3>6. LiveSyncIsRegistered'
      BY <2>3, <2>d, <3>1, <3>3, <1>i, <1>t DEF LiveSyncIsRegistered, LiveOn, Live, Types
    <3> QED
      BY <3>4, <3>5, <3>6 DEF TableParts
  <2> QED
    BY <1>6, <2>d, <2>1, <2>2, <2>3 DEF Stop
<1>7. ASSUME NEW p \in Procs, Dies(p)
      PROVE  TableParts'
  <2>1. /\ UNCHANGED <<lock, status>>
        /\ running_syncs'[p] = NoSync
        /\ \A o \in Procs : o # p => running_syncs'[o] = running_syncs[o]
    BY <1>7, <1>t DEF Dies, Popped, Types
  <2>2. \A r \in Requests : IF req[r].proc = p THEN req'[r].pc = "idle" ELSE req'[r] = req[r]
    BY <1>7, <1>t DEF Dies, IdleReq, Types
  <2>3. \A n \in SyncIds :
           IF task[n].phase \in {"syncing", "finishing"} /\ task[n].proc = p
           THEN task'[n].phase = "over" /\ task'[n].proc = p
           ELSE task'[n] = task[n]
    BY <1>7, <1>t DEF Dies, LiveOn, Live, Types, Task
  <2>4. OneServing' /\ TableStaysEmpty'
    BY <2>1, <2>2, <1>i, <1>t DEF OneServing, Serving, InTry, TableStaysEmpty, Types, Req
  <2>5. OwnRow'
    BY <2>1, <2>2, <2>3, <1>i DEF OwnRow
  <2>6. RowBeforeTask'
    BY <2>1, <2>3, <1>i DEF RowBeforeTask
  <2>7. LiveSyncIsRegistered'
    BY <2>1, <2>3, <1>i DEF LiveSyncIsRegistered, LiveOn, Live
  <2> QED
    BY <2>4, <2>5, <2>6, <2>7 DEF TableParts
<1>8. ASSUME NEW p \in Procs, Boot(p)
      PROVE  TableParts'
  BY <1>8, <1>i DEF Boot, TableParts, OneServing, Serving, TableStaysEmpty, OwnRow,
     RowBeforeTask, LiveSyncIsRegistered, LiveOn, Live
<1>9. ASSUME NEW p \in Procs, ReconcileStaleSyncHistory(p)
      PROVE  TableParts'
  <2>1. \A n \in SyncIds : status'[n] = "none" <=> status[n] = "none"
    BY <1>9 DEF ReconcileStaleSyncHistory
  <2>2. UNCHANGED <<lock, req, running_syncs, task>>
    BY <1>9 DEF ReconcileStaleSyncHistory
  <2> QED
    BY <2>1, <2>2, <1>i DEF TableParts, OneServing, Serving, TableStaysEmpty, OwnRow,
       RowBeforeTask, LiveSyncIsRegistered, LiveOn, Live
<1>10. CASE UNCHANGED vars
  BY <1>10, <1>i DEF vars, TableParts, OneServing, Serving, TableStaysEmpty, OwnRow,
     RowBeforeTask, LiveSyncIsRegistered, LiveOn, Live
<1> QED
  BY <1>1, <1>2, <1>3, <1>4, <1>5, <1>6, <1>7, <1>8, <1>9, <1>10
     DEF Next, TaskStep, Exit, Crash, Startup

(* No live sync escapes the table that the duplicate guard and the         *)
(* shutdown of its process read (_running_syncs), on any number of         *)
(* processes, as long as no request outlives its lock.                     *)
THEOREM LiveIsRegistered ==
    ASSUME LockMayLapse = FALSE
    PROVE  Spec => []LiveSyncIsRegistered
<1>1. TableInv /\ [Next]_vars => TableInv'
  BY StepTable
<1>2. TableInv => LiveSyncIsRegistered
  BY DEF TableInv, TableParts
<1> QED
  BY <1>1, <1>2, InitTable, PTL DEF Spec

-----------------------------------------------------------------------------
(* One process: what its life says about the rows and the sync at work.    *)

OneProcess == \A p, q \in Procs : p = q

(* Requests are served, and syncs started, while the process is up.        *)
ServedWhileUp == \A r \in Requests : req[r].pc # "idle" => proc[req[r].proc] = "up"

QuietWhileDown == \A p \in Procs : proc[p] \in {"down", "booting"} => LiveOn(p) = {}

(* A row is open from its insertion to the end of its task.                *)
RowIsOpen ==
    /\ \A n \in SyncIds : Live(n) => status[n] = "running"
    /\ \A r \in Requests : req[r].pc = "create" => status[req[r].sync] = "running"

WorkInv == TableInv /\ ServedWhileUp /\ QuietWhileDown /\ RowIsOpen

(* AtWork names the one live sync.                                         *)
LEMMA OneAtWork ==
    ASSUME OneProcess, TableInv
    PROVE  /\ \A m, n \in SyncIds : Live(m) /\ Live(n) => m = n
           /\ \A n \in SyncIds : Live(n) => AtWork = n
           /\ (\A n \in SyncIds : ~Live(n)) => AtWork = NoSync
<1>1. \A m, n \in SyncIds : Live(m) /\ Live(n) => m = n
  <2>1. \A n \in SyncIds : task[n].proc \in Procs
    BY TypesAreTypeOK DEF TableInv, Types, Task
  <2> QED
    BY <2>1 DEF OneProcess, TableInv, TableParts, LiveSyncIsRegistered, LiveOn
<1> QED
  BY <1>1 DEF AtWork

LEMMA OneAtWorkNext ==
    ASSUME OneProcess, TableInv'
    PROVE  /\ \A n \in SyncIds : Live(n)' => AtWork' = n
           /\ (\A n \in SyncIds : ~Live(n)') => AtWork' = NoSync
<1>1. \A m, n \in SyncIds : Live(m)' /\ Live(n)' => m = n
  <2>1. \A n \in SyncIds : task'[n].proc \in Procs
    BY TypesAreTypeOK DEF TableInv, Types, Task
  <2> QED
    BY <2>1 DEF OneProcess, TableInv, TableParts, LiveSyncIsRegistered, LiveOn
<1> QED
  BY <1>1 DEF AtWork

(* A sync stays at work in a step that leaves its task live.               *)
LEMMA WorkStays ==
    ASSUME OneProcess, TableInv, TableInv', \A n \in SyncIds : Live(n)' <=> Live(n)
    PROVE  AtWork' = AtWork
<1>1. CASE \E n \in SyncIds : Live(n)
  BY <1>1, OneAtWork, OneAtWorkNext
<1>2. CASE \A n \in SyncIds : ~Live(n)
  BY <1>2, OneAtWork, OneAtWorkNext
<1> QED
  BY <1>1, <1>2

(* The steps of a request, as the other requests see them.                 *)
LEMMA RequestShape ==
    ASSUME Types, NEW r \in Requests, RequestStep(r)
    PROVE  /\ UNCHANGED proc
           /\ req[r].pc # "idle"
           /\ \A q \in Requests : q # r => req'[q] = req[q]
           /\ req'[r].pc = "idle" \/ req'[r].proc = req[r].proc
           /\ ~InsertRow(r) /\ ~CreateTask(r) =>
                 UNCHANGED <<task, status>> /\ req'[r].pc # "create"
<1> USE DEF valkey, service, syncs
<1>p. Pcs = {"idle", "lock", "start", "insert", "create", "cooldown", "release"}
  BY DEF Pcs, InTry
<1>1. CASE SetLock(r)
  BY <1>1, <1>p, Moves DEF SetLock
<1>2. CASE LockRefused(r)
  BY <1>2, Leaves DEF LockRefused
<1>3. CASE CheckRunning(r)
  BY <1>3, <1>p, Moves DEF CheckRunning
<1>4. CASE InsertRow(r)
  <2>1. PICK n \in Unused : req' = [req EXCEPT ![r].pc = "create", ![r].sync = n]
    BY <1>4 DEF InsertRow
  <2>2. req'[r].proc = req[r].proc /\ \A q \in Requests : q # r => req'[q] = req[q]
    BY <2>1 DEF Types, Req
  <2>3. UNCHANGED proc /\ req[r].pc # "idle"
    BY <1>4 DEF InsertRow
  <2> QED
    BY <1>4, <2>2, <2>3
<1>5. CASE InsertFails(r)
  BY <1>5, <1>p, Moves DEF InsertFails
<1>6. CASE CreateTask(r)
  BY <1>6, <1>p, Moves DEF CreateTask
<1>7. CASE SetCooldown(r)
  BY <1>7, <1>p, Moves DEF SetCooldown
<1>8. CASE Release(r)
  BY <1>8, Leaves DEF Release
<1> QED
  BY <1>1, <1>2, <1>3, <1>4, <1>5, <1>6, <1>7, <1>8 DEF RequestStep

LEMMA InitWork == Init => WorkInv
<1> SUFFICES ASSUME Init PROVE WorkInv
  OBVIOUS
<1>1. \A r \in Requests : req[r].pc = "idle"
  BY DEF Init
<1>2. \A n \in SyncIds : ~Live(n)
  BY DEF Init, Live
<1> QED
  BY <1>1, <1>2, InitTable DEF WorkInv, ServedWhileUp, QuietWhileDown, LiveOn, RowIsOpen


(* A row is inserted: what the other steps of the proof need of it.        *)
LEMMA InsertRowShape ==
    ASSUME TableInv, NEW r \in Requests, InsertRow(r)
    PROVE  \E n \in SyncIds :
              /\ status[n] = "none" /\ ~Live(n)
              /\ \A m \in SyncIds : m < n => status[m] # "none"
              /\ status' = [status EXCEPT ![n] = "running"] /\ status'[n] = "running"
              /\ req'[r].pc = "create" /\ req'[r].sync = n
              /\ \A m \in SyncIds : Live(m)' <=> Live(m)
<1>t. Types /\ RowBeforeTask
  BY TypesAreTypeOK DEF TableInv, TableParts
<1>1. PICK n \in Unused :
         /\ \A m \in Unused : n <= m
         /\ status' = [status EXCEPT ![n] = "running"]
         /\ task' = [task EXCEPT ![n].proc = req[r].proc]
         /\ req' = [req EXCEPT ![r].pc = "create", ![r].sync = n]
  BY DEF InsertRow
<1>2. n \in SyncIds /\ status[n] = "none" /\ task[n].phase = "none"
  BY <1>t DEF Unused, RowBeforeTask
<1>3. req'[r].pc = "create" /\ req'[r].sync = n
  BY <1>1, <1>t DEF Types, Req
<1>4. \A m \in SyncIds : Live(m)' <=> Live(m)
  BY <1>1, <1>2, <1>t DEF Live, Types, Task
<1>5. \A m \in SyncIds : m < n => status[m] # "none"
  <2>1. \A m \in SyncIds : m \in Nat
    BY BoundsAssumption DEF SyncIds
  <2> QED
    BY <1>1, <1>2, <2>1 DEF Unused
<1>6. status'[n] = "running" /\ ~Live(n)
  BY <1>1, <1>2, <1>t DEF Types, Live
<1> QED
  BY <1>1, <1>2, <1>3, <1>4, <1>5, <1>6

(* A task is created: no sync of the process, the only one, was live.      *)
LEMMA CreateTaskShape ==
    ASSUME OneProcess, TableInv, NEW r \in Requests, CreateTask(r)
    PROVE  \E n \in SyncIds :
              /\ n = req[r].sync /\ req[r].pc = "create"
              /\ \A m \in SyncIds : ~Live(m)
              /\ \A m \in SyncIds : Live(m)' <=> m = n
              /\ UNCHANGED <<status, proc>>
              /\ req'[r].pc = "cooldown" /\ req'[r].proc = req[r].proc
              /\ task'[n].proc = req[r].proc
<1>t. Types
  BY TypesAreTypeOK DEF TableInv, TableParts
<1>i. TableStaysEmpty /\ OwnRow /\ LiveSyncIsRegistered
  BY DEF TableInv, TableParts
<1>1. /\ req[r].pc = "create" /\ req[r].sync \in SyncIds /\ req[r].proc \in Procs
      /\ running_syncs[req[r].proc] = NoSync
      /\ task[req[r].sync].proc = req[r].proc
  BY <1>t, <1>i DEF CreateTask, TableStaysEmpty, OwnRow, Types, Req
<1>2. \A m \in SyncIds : ~Live(m)
  <2> SUFFICES ASSUME NEW m \in SyncIds, Live(m) PROVE FALSE
    OBVIOUS
  <2>1. task[m].proc \in Procs
    BY <1>t DEF Types, Task
  <2>2. task[m].proc = req[r].proc
    BY <1>1, <2>1 DEF OneProcess
  <2>3. m \in {running_syncs[req[r].proc]}
    BY <1>1, <1>i, <2>2 DEF LiveSyncIsRegistered, LiveOn
  <2> QED
    BY <1>1, <2>3, NoSyncAssumption
<1>3. /\ task'[req[r].sync].phase = "syncing"
      /\ task'[req[r].sync].proc = task[req[r].sync].proc
      /\ \A m \in SyncIds : m # req[r].sync => task'[m] = task[m]
  BY <1>1, <1>t DEF CreateTask, Types, Task
<1>4. \A m \in SyncIds : Live(m)' <=> m = req[r].sync
  BY <1>2, <1>3 DEF Live
<1>5. Goto(r, "cooldown") /\ "cooldown" \in Pcs
  BY DEF CreateTask, Pcs, InTry
<1>6. req'[r].pc = "cooldown" /\ req'[r].proc = req[r].proc
  BY <1>5, <1>t, Moves
<1>7. UNCHANGED <<status, proc>>
  BY DEF CreateTask, service
<1> QED
  BY <1>1, <1>2, <1>3, <1>4, <1>6, <1>7

LEMMA RequestKeepsWork ==
    ASSUME OneProcess, WorkInv, NEW r \in Requests, RequestStep(r)
    PROVE  ServedWhileUp' /\ QuietWhileDown' /\ RowIsOpen'
<1>t. /\ Types /\ TableInv
      /\ ServedWhileUp /\ QuietWhileDown /\ RowIsOpen
  BY TypesAreTypeOK DEF WorkInv, TableInv, TableParts
<1>s. /\ UNCHANGED proc
      /\ req[r].pc # "idle"
      /\ \A q \in Requests : q # r => req'[q] = req[q]
      /\ req'[r].pc = "idle" \/ req'[r].proc = req[r].proc
      /\ ~InsertRow(r) /\ ~CreateTask(r) => UNCHANGED <<task, status>> /\ req'[r].pc # "create"
  BY <1>t, RequestShape
<1>1. ServedWhileUp'
  BY <1>s, <1>t DEF ServedWhileUp
<1>2. CASE ~InsertRow(r) /\ ~CreateTask(r)
  BY <1>1, <1>2, <1>s, <1>t DEF QuietWhileDown, RowIsOpen, LiveOn, Live
<1>3. CASE InsertRow(r)
  <2>1. PICK n \in SyncIds :
              /\ status[n] = "none" /\ ~Live(n)
              /\ \A m \in SyncIds : m < n => status[m] # "none"
              /\ status' = [status EXCEPT ![n] = "running"] /\ status'[n] = "running"
              /\ req'[r].pc = "create" /\ req'[r].sync = n
              /\ \A m \in SyncIds : Live(m)' <=> Live(m)
    BY <1>3, <1>t, InsertRowShape
  <2>2. \A m \in SyncIds : m # n => status'[m] = status[m]
    BY <2>1, <1>t DEF Types
  <2>3. RowIsOpen'
    <3>1. \A q \in Requests : req[q].pc = "create" => req[q].sync \in SyncIds
      BY <1>t DEF TableInv, TableParts, OwnRow
    <3> QED
      BY <2>1, <2>2, <3>1, <1>s, <1>t DEF RowIsOpen
  <2>4. QuietWhileDown'
    <3>1. proc[req[r].proc] = "up" /\ req[r].proc \in Procs
      BY <1>s, <1>t DEF ServedWhileUp, Types, Req
    <3> QED
      BY <3>1, <1>s DEF OneProcess, QuietWhileDown
  <2> QED
    BY <1>1, <2>3, <2>4
<1>4. CASE CreateTask(r)
  <2>1. PICK n \in SyncIds :
              /\ n = req[r].sync /\ req[r].pc = "create"
              /\ \A m \in SyncIds : ~Live(m)
              /\ \A m \in SyncIds : Live(m)' <=> m = n
              /\ UNCHANGED <<status, proc>>
              /\ req'[r].pc = "cooldown" /\ req'[r].proc = req[r].proc
              /\ task'[n].proc = req[r].proc
    BY <1>4, <1>t, CreateTaskShape
  <2>2. status[n] = "running"
    BY <2>1, <1>t DEF RowIsOpen
  <2>3. RowIsOpen'
    BY <2>1, <2>2, <1>s, <1>t DEF RowIsOpen
  <2>4. QuietWhileDown'
    <3>1. proc[req[r].proc] = "up" /\ req[r].proc \in Procs
      BY <1>s, <1>t DEF ServedWhileUp, Types, Req
    <3> QED
      BY <3>1, <1>s DEF OneProcess, QuietWhileDown
  <2> QED
    BY <1>1, <2>3, <2>4
<1> QED
  BY <1>2, <1>3, <1>4


(* Sync n is over, its outcome recorded or not; every other is untouched.  *)
Finished(n) ==
    /\ Live(n)
    /\ task[n].outcome \in {"completed", "failed", "cancelled"}
    /\ status' \in {status, [status EXCEPT ![n] = task[n].outcome]}
    /\ \A m \in SyncIds : Live(m)' <=> Live(m) /\ m # n

LEMMA TaskShape ==
    ASSUME TableInv, NEW n \in SyncIds, TaskStep(n)
    PROVE  /\ UNCHANGED <<proc, req>>
           /\ \/ UNCHANGED status /\ \A m \in SyncIds : Live(m)' <=> Live(m)
              \/ Finished(n)
<1> USE DEF valkey, service, syncs
<1>t. Types /\ RowBeforeTask
  BY TypesAreTypeOK DEF TableInv, TableParts
<1>1. CASE SyncEnds(n)
  <2>1. PICK o \in {"completed", "failed"} :
           task' = [task EXCEPT ![n].phase = "finishing", ![n].outcome = o]
    BY <1>1 DEF SyncEnds
  <2>2. task'[n].phase = "finishing" /\ \A m \in SyncIds : m # n => task'[m] = task[m]
    BY <2>1, <1>t DEF Types, Task
  <2>3. UNCHANGED <<proc, req, status>> /\ task[n].phase = "syncing"
    BY <1>1 DEF SyncEnds
  <2> QED
    BY <2>2, <2>3 DEF Live
<1>2. CASE RecordOutcome(n)
  <2>1. task'[n].phase = "over" /\ \A m \in SyncIds : m # n => task'[m] = task[m]
    BY <1>2, <1>t DEF RecordOutcome, Types, Task
  <2>2. /\ UNCHANGED <<proc, req>> /\ task[n].phase = "finishing"
        /\ status' \in {status, [status EXCEPT ![n] = task[n].outcome]}
    BY <1>2 DEF RecordOutcome
  <2>3. task[n].outcome \in {"completed", "failed", "cancelled"}
    BY <2>2, <1>t DEF RowBeforeTask, Types, Task, Outcomes
  <2> QED
    BY <2>1, <2>2, <2>3 DEF Finished, Live
<1> QED
  BY <1>1, <1>2 DEF TaskStep

LEMMA StopShape ==
    ASSUME TableInv, NEW p \in Procs, Stop(p)
    PROVE  /\ proc' = [proc EXCEPT ![p] = "stopping"] /\ proc'[p] = "stopping"
           /\ UNCHANGED req /\ \A r \in Requests : req[r].pc = "idle" \/ req[r].proc # p
           /\ \/ UNCHANGED status /\ \A m \in SyncIds : Live(m)' <=> Live(m)
              \/ \E n \in SyncIds : Finished(n)
<1>t. Types /\ RowBeforeTask
  BY TypesAreTypeOK DEF TableInv, TableParts
<1> PICK n : n = running_syncs[p]
  OBVIOUS
<1>1. /\ proc' = [proc EXCEPT ![p] = "stopping"]
      /\ UNCHANGED req /\ NoRequestOn(p)
  BY DEF Stop
<1>2. proc'[p] = "stopping"
  BY <1>1, <1>t DEF Types
<1>n. n # NoSync => n \in SyncIds
  BY <1>t DEF Types
<1>3. CASE n = NoSync
  BY <1>1, <1>2, <1>3 DEF Stop, syncs, Live, NoRequestOn
<1>4. CASE n # NoSync /\ task[n].phase = "syncing"
  <2>1. /\ task' = [task EXCEPT ![n].phase = "finishing", ![n].outcome = "cancelled"]
        /\ UNCHANGED status
    BY <1>4 DEF Stop
  <2>2. task'[n].phase = "finishing" /\ \A m \in SyncIds : m # n => task'[m] = task[m]
    BY <2>1, <1>t, <1>n, <1>4 DEF Types, Task
  <2>3. \A m \in SyncIds : Live(m)' <=> Live(m)
    BY <1>4, <2>2 DEF Live
  <2>4. UNCHANGED status
    BY <1>4 DEF Stop
  <2> QED
    BY <1>1, <1>2, <2>3, <2>4 DEF NoRequestOn
<1>5. CASE n # NoSync /\ task[n].phase = "finishing"
  <2>1. /\ status' \in {status, [status EXCEPT ![n] = task[n].outcome]}
        /\ task' = [task EXCEPT ![n].phase = "over"]
    BY <1>5 DEF Stop
  <2>2. task'[n].phase = "over" /\ \A m \in SyncIds : m # n => task'[m] = task[m]
    BY <2>1, <1>t, <1>n, <1>5 DEF Types, Task
  <2>3. task[n].outcome \in {"completed", "failed", "cancelled"}
    BY <1>5, <1>n, <1>t DEF RowBeforeTask, Types, Task, Outcomes
  <2>4. Finished(n)
    BY <1>5, <2>1, <2>2, <2>3 DEF Finished, Live
  <2> QED
    BY <1>1, <1>2, <1>5, <1>n, <2>4 DEF NoRequestOn
<1> QED
  BY <1>3, <1>4, <1>5 DEF Stop

LEMMA DiesShape ==
    ASSUME TableInv, NEW p \in Procs, Dies(p)
    PROVE  /\ proc'[p] = "down" /\ UNCHANGED status
           /\ \A r \in Requests : req[r].proc = p => req'[r].pc = "idle"
           /\ \A n \in SyncIds : Live(n)' <=> Live(n) /\ task[n].proc # p
<1>t. Types
  BY TypesAreTypeOK DEF TableInv, TableParts
<1>1. proc'[p] = "down" /\ UNCHANGED status
  BY <1>t DEF Dies, Types
<1>2. \A r \in Requests : req[r].proc = p => req'[r].pc = "idle"
  BY <1>t DEF Dies, IdleReq, Types
<1>3. \A n \in SyncIds :
         IF n \in LiveOn(p) THEN task'[n].phase = "over" ELSE task'[n] = task[n]
  BY <1>t DEF Dies, Types, Task
<1>4. \A n \in SyncIds : Live(n)' <=> Live(n) /\ task[n].proc # p
  BY <1>3 DEF LiveOn, Live
<1> QED
  BY <1>1, <1>2, <1>4


(* The end of a sync keeps what is said of the others.                     *)
LEMMA FinishedKeepsRows ==
    ASSUME TableInv, RowIsOpen, NEW n \in SyncIds, Finished(n)
    PROVE  /\ \A m \in SyncIds : Live(m)' => status'[m] = "running"
           /\ \A r \in Requests : req[r].pc = "create" => status'[req[r].sync] = "running"
<1>t. Types /\ OwnRow
  BY TypesAreTypeOK DEF TableInv, TableParts
<1>1. \A m \in SyncIds : m # n => status'[m] = status[m]
  BY <1>t DEF Finished, Types
<1>2. \A r \in Requests : req[r].pc = "create" => req[r].sync \in SyncIds /\ req[r].sync # n
  BY <1>t DEF OwnRow, Finished, Live
<1> QED
  BY <1>1, <1>2 DEF RowIsOpen, Finished

LEMMA StepWork ==
    ASSUME LockMayLapse = FALSE, OneProcess, WorkInv, [Next]_vars
    PROVE  WorkInv'
<1> USE DEF valkey, service, syncs
<1>t. /\ Types /\ TableInv
      /\ ServedWhileUp /\ QuietWhileDown /\ RowIsOpen
  BY TypesAreTypeOK DEF WorkInv, TableInv, TableParts
<1>c. /\ \A r \in Requests : req[r].proc \in Procs
      /\ \A n \in SyncIds : task[n].proc \in Procs
  BY <1>t DEF Types, Req, Task
<1>q. SUFFICES ServedWhileUp' /\ QuietWhileDown' /\ RowIsOpen'
  BY <1>t, StepTable DEF WorkInv
<1>1. ASSUME NEW r \in Requests, NEW p \in Procs, ReadCooldown(r, p)
      PROVE  ServedWhileUp' /\ QuietWhileDown' /\ RowIsOpen'
  <2>1. /\ proc[p] = "up" /\ UNCHANGED <<proc, task, status>>
        /\ req'[r].pc = "lock" /\ req'[r].proc = p
        /\ \A q \in Requests : q # r => req'[q] = req[q]
    BY <1>1, <1>t DEF ReadCooldown, Accepting, Types
  <2> QED
    BY <2>1, <1>t DEF ServedWhileUp, QuietWhileDown, RowIsOpen, LiveOn, Live
<1>2. ASSUME NEW r \in Requests, RequestStep(r)
      PROVE  ServedWhileUp' /\ QuietWhileDown' /\ RowIsOpen'
  BY <1>2, RequestKeepsWork
<1>3. CASE LockExpires \/ CooldownExpires
  BY <1>3, <1>t DEF LockExpires, CooldownExpires, ServedWhileUp, QuietWhileDown, RowIsOpen, LiveOn, Live
<1>4. ASSUME NEW n \in SyncIds, TaskStep(n)
      PROVE  ServedWhileUp' /\ QuietWhileDown' /\ RowIsOpen'
  <2>1. /\ UNCHANGED <<proc, req>>
        /\ \/ UNCHANGED status /\ \A m \in SyncIds : Live(m)' <=> Live(m)
           \/ Finished(n)
    BY <1>4, <1>t, TaskShape
  <2>2. \A m \in SyncIds : Live(m)' => Live(m)
    BY <2>1 DEF Finished
  <2>3. ServedWhileUp' /\ QuietWhileDown'
    BY <2>1, <2>2, <1>t, <1>c DEF ServedWhileUp, QuietWhileDown, LiveOn, OneProcess
  <2>4. RowIsOpen'
    BY <2>1, <1>t, FinishedKeepsRows DEF RowIsOpen
  <2> QED
    BY <2>3, <2>4
<1>5. ASSUME NEW p \in Procs, Stop(p)
      PROVE  ServedWhileUp' /\ QuietWhileDown' /\ RowIsOpen'
  <2>1. /\ proc'[p] = "stopping"
        /\ UNCHANGED req /\ \A r \in Requests : req[r].pc = "idle" \/ req[r].proc # p
        /\ \/ UNCHANGED status /\ \A m \in SyncIds : Live(m)' <=> Live(m)
           \/ \E n \in SyncIds : Finished(n)
    BY <1>5, <1>t, StopShape
  <2>2. \A q \in Procs : proc'[q] = "stopping"
    BY <2>1 DEF OneProcess
  <2>3. \A r \in Requests : req'[r].pc = "idle"
    BY <2>1, <1>c DEF OneProcess
  <2>4. ServedWhileUp' /\ QuietWhileDown'
    BY <2>2, <2>3 DEF ServedWhileUp, QuietWhileDown
  <2>5. RowIsOpen'
    BY <2>1, <2>3, <1>t, FinishedKeepsRows DEF RowIsOpen
  <2> QED
    BY <2>4, <2>5
<1>6. ASSUME NEW p \in Procs, Dies(p)
      PROVE  ServedWhileUp' /\ QuietWhileDown' /\ RowIsOpen'
  <2>1. /\ \A r \in Requests : req[r].proc = p => req'[r].pc = "idle"
        /\ \A n \in SyncIds : Live(n)' <=> Live(n) /\ task[n].proc # p
    BY <1>6, <1>t, DiesShape
  <2>2. \A r \in Requests : req'[r].pc = "idle"
    BY <2>1, <1>c DEF OneProcess
  <2>3. \A n \in SyncIds : ~Live(n)'
    BY <2>1, <1>c DEF OneProcess
  <2> QED
    BY <2>2, <2>3 DEF ServedWhileUp, QuietWhileDown, RowIsOpen, LiveOn
<1>7. ASSUME NEW p \in Procs, Startup(p)
      PROVE  ServedWhileUp' /\ QuietWhileDown' /\ RowIsOpen'
  <2>1. proc[p] \in {"down", "booting"} /\ UNCHANGED <<req, task>>
    BY <1>7 DEF Startup, Boot, ReconcileStaleSyncHistory
  <2>2. \A r \in Requests : req[r].pc = "idle"
    BY <2>1, <1>t, <1>c DEF ServedWhileUp, OneProcess
  <2>3. \A n \in SyncIds : ~Live(n)
    BY <2>1, <1>t, <1>c DEF QuietWhileDown, LiveOn, OneProcess
  <2>4. \A n \in SyncIds : ~Live(n)'
    BY <2>1, <2>3 DEF Live
  <2> QED
    BY <2>1, <2>2, <2>4 DEF ServedWhileUp, QuietWhileDown, RowIsOpen, LiveOn
<1>8. CASE UNCHANGED vars
  BY <1>8, <1>t DEF vars, ServedWhileUp, QuietWhileDown, RowIsOpen, LiveOn, Live
<1> QED
  BY <1>1, <1>2, <1>3, <1>4, <1>5, <1>6, <1>7, <1>8 DEF Next, Exit, Crash

-----------------------------------------------------------------------------
(* The refinement, step by step.                                           *)

LEMMA InitRefines == Init => Lifecycle!Init
<1> SUFFICES ASSUME Init PROVE Lifecycle!Init
  OBVIOUS
<1>1. \A n \in SyncIds : ~Live(n)
  BY DEF Init, Live
<1>2. AtWork = NoSync
  BY <1>1 DEF AtWork
<1> QED
  BY <1>2 DEF Init, Lifecycle!Init

LEMMA FinishedRefines ==
    ASSUME OneProcess, TableInv, TableInv', NEW n \in SyncIds, Finished(n)
    PROVE  Lifecycle!Next
<1>1. AtWork = n /\ AtWork' = NoSync
  BY OneAtWork, OneAtWorkNext DEF Finished
<1>2. Lifecycle!End(n, task[n].outcome)
  BY <1>1 DEF Finished, Lifecycle!End
<1>3. task[n].outcome \in Lifecycle!Outcomes
  BY DEF Finished, Lifecycle!Outcomes
<1> QED
  BY <1>2, <1>3 DEF Lifecycle!Next

LEMMA StepRefines ==
    ASSUME LockMayLapse = FALSE, OneProcess, WorkInv, [Next]_vars
    PROVE  [Lifecycle!Next]_(Lifecycle!lifecycleVars)
<1> USE DEF valkey, service, syncs
<1>t. /\ Types /\ TableInv /\ TableInv'
      /\ ServedWhileUp /\ QuietWhileDown /\ RowIsOpen
  BY StepWork, TypesAreTypeOK DEF WorkInv, TableInv, TableParts
<1>c. /\ \A r \in Requests : req[r].proc \in Procs
      /\ \A n \in SyncIds : task[n].proc \in Procs
  BY <1>t DEF Types, Req, Task
<1>s. ASSUME UNCHANGED status, \A n \in SyncIds : Live(n)' <=> Live(n)
      PROVE  UNCHANGED Lifecycle!lifecycleVars
  BY <1>s, <1>t, WorkStays DEF Lifecycle!lifecycleVars
<1>1. ASSUME NEW r \in Requests, NEW p \in Procs, ReadCooldown(r, p)
      PROVE  UNCHANGED Lifecycle!lifecycleVars
  BY <1>1, <1>s DEF ReadCooldown, Live
<1>2. ASSUME NEW r \in Requests, RequestStep(r)
      PROVE  Lifecycle!Next \/ UNCHANGED Lifecycle!lifecycleVars
  <2>1. CASE InsertRow(r)
    <3>1. PICK n \in SyncIds :
              /\ status[n] = "none" /\ ~Live(n)
              /\ \A m \in SyncIds : m < n => status[m] # "none"
              /\ status' = [status EXCEPT ![n] = "running"] /\ status'[n] = "running"
              /\ req'[r].pc = "create" /\ req'[r].sync = n
              /\ \A m \in SyncIds : Live(m)' <=> Live(m)
      BY <2>1, <1>t, InsertRowShape
    <3>2. AtWork' = AtWork
      BY <3>1, <1>t, WorkStays
    <3>3. Lifecycle!Open(n)
      BY <3>1, <3>2 DEF Lifecycle!Open
    <3> QED
      BY <3>3 DEF Lifecycle!Next
  <2>2. CASE CreateTask(r)
    <3>1. PICK n \in SyncIds :
              /\ n = req[r].sync /\ req[r].pc = "create"
              /\ \A m \in SyncIds : ~Live(m)
              /\ \A m \in SyncIds : Live(m)' <=> m = n
              /\ UNCHANGED <<status, proc>>
              /\ req'[r].pc = "cooldown" /\ req'[r].proc = req[r].proc
              /\ task'[n].proc = req[r].proc
      BY <2>2, <1>t, CreateTaskShape
    <3>2. AtWork = NoSync /\ AtWork' = n
      BY <3>1, <1>t, OneAtWork, OneAtWorkNext
    <3>3. status[n] = "running"
      BY <3>1, <1>t DEF RowIsOpen
    <3>4. Lifecycle!Begin(n)
      BY <3>1, <3>2, <3>3 DEF Lifecycle!Begin
    <3> QED
      BY <3>4 DEF Lifecycle!Next
  <2>3. CASE ~InsertRow(r) /\ ~CreateTask(r)
    <3>1. UNCHANGED <<task, status>>
      BY <1>2, <2>3, <1>t, RequestShape
    <3> QED
      BY <3>1, <1>s DEF Live
  <2> QED
    BY <2>1, <2>2, <2>3
<1>3. CASE LockExpires \/ CooldownExpires
  BY <1>3, <1>s DEF LockExpires, CooldownExpires, Live
<1>4. ASSUME NEW n \in SyncIds, TaskStep(n)
      PROVE  Lifecycle!Next \/ UNCHANGED Lifecycle!lifecycleVars
  BY <1>4, <1>t, <1>s, TaskShape, FinishedRefines
<1>5. ASSUME NEW p \in Procs, Stop(p)
      PROVE  Lifecycle!Next \/ UNCHANGED Lifecycle!lifecycleVars
  BY <1>5, <1>t, <1>s, StopShape, FinishedRefines
<1>6. ASSUME NEW p \in Procs, Dies(p)
      PROVE  Lifecycle!Next \/ UNCHANGED Lifecycle!lifecycleVars
  <2>1. UNCHANGED status /\ \A n \in SyncIds : ~Live(n)'
    BY <1>6, <1>t, <1>c, DiesShape DEF OneProcess
  <2>2. AtWork' = NoSync
    BY <2>1, <1>t, OneAtWorkNext
  <2>3. CASE \A n \in SyncIds : ~Live(n)
    BY <2>1, <2>3, <1>s
  <2>4. ASSUME NEW n \in SyncIds, Live(n) PROVE Lifecycle!Next
    <3>1. AtWork = n
      BY <2>4, <1>t, OneAtWork
    <3>2. Lifecycle!End(n, "failed")
      BY <2>1, <2>2, <3>1 DEF Lifecycle!End
    <3> QED
      BY <3>2 DEF Lifecycle!Next, Lifecycle!Outcomes
  <2> QED
    BY <2>3, <2>4
<1>7. ASSUME NEW p \in Procs, Startup(p)
      PROVE  Lifecycle!Next \/ UNCHANGED Lifecycle!lifecycleVars
  <2>1. CASE Boot(p)
    BY <2>1, <1>s DEF Boot, Live
  <2>2. CASE ReconcileStaleSyncHistory(p)
    <3>1. proc[p] = "booting" /\ UNCHANGED task
      BY <2>2 DEF ReconcileStaleSyncHistory
    <3>2. \A n \in SyncIds : ~Live(n)
      BY <3>1, <1>t, <1>c DEF QuietWhileDown, LiveOn, OneProcess
    <3>3. AtWork = NoSync /\ AtWork' = AtWork
      BY <3>1, <3>2, <1>t, OneAtWork, WorkStays DEF Live
    <3>4. Lifecycle!GiveUp
      BY <2>2, <3>3 DEF ReconcileStaleSyncHistory, Lifecycle!GiveUp
    <3> QED
      BY <3>4 DEF Lifecycle!Next
  <2> QED
    BY <1>7, <2>1, <2>2 DEF Startup
<1>8. CASE UNCHANGED vars
  BY <1>8, <1>s DEF vars, Live
<1> QED
  BY <1>1, <1>2, <1>3, <1>4, <1>5, <1>6, <1>7, <1>8 DEF Next, Exit, Crash

(* On one process, with a lock that outlives its request, what the         *)
(* requests, tasks, stops, crashes and restarts do together is what the    *)
(* sync endpoints promise: one sync at a time, an outcome written once,    *)
(* and no row failed under the sync that is at work on it.                 *)
THEOREM AdmissionImplementsLifecycle ==
    ASSUME LockMayLapse = FALSE, OneProcess
    PROVE  Spec => ImplementsLifecycle
<1>1. WorkInv /\ [Next]_vars => WorkInv'
  BY StepWork
<1>2. WorkInv /\ [Next]_vars => [Lifecycle!Next]_(Lifecycle!lifecycleVars)
  BY StepRefines
<1> QED
  BY <1>1, <1>2, InitWork, InitRefines, PTL DEF Spec, ImplementsLifecycle, Lifecycle!Safety
=============================================================================
