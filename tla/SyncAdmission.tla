--------------------------- MODULE SyncAdmission ----------------------------
(***************************************************************************)
(* How a user's Discogs sync is admitted, recorded and ended               *)
(* (api/routers/sync.py, the shell of run_full_sync in api/syncer.py and   *)
(* the start and stop of the service in api/api.py).  Every key and row    *)
(* involved is per user, so one user is modelled.                          *)
(*                                                                         *)
(* A request awaits Valkey and PostgreSQL between its steps, and any other *)
(* request, task, shutdown or crash may run at each await.  What a request *)
(* does between two awaits is one step.  The done-callback of a task runs  *)
(* on the next turn of the event loop, sooner than any answer from the     *)
(* network, so it is part of the task's last step.                         *)
(***************************************************************************)
EXTENDS Naturals, FiniteSets

CONSTANTS
    Procs,        \* the API processes (replicas)
    Requests,     \* concurrent POST /api/sync requests of the user
    NoSync,       \* no entry in _running_syncs
    LockMayLapse, \* may the lock's 30 s pass while its request is served?
    MaxSyncs,     \* bound: sync_history rows
    MaxRestarts   \* bound: process stops and crashes

SyncIds == 1..MaxSyncs

ASSUME NoSyncAssumption == NoSync \notin SyncIds
ASSUME ProcsAssumption == Procs # {}
ASSUME LapseAssumption == LockMayLapse \in BOOLEAN
ASSUME BoundsAssumption == MaxSyncs \in Nat /\ MaxRestarts \in Nat

VARIABLES
    lock,           \* sync:lock:{user} is set
    expires,        \* ... and has a TTL
    cooldown,       \* sync:cooldown:{user} is set
    req,            \* req[r]: the step request r is at, its process and its sync
    proc,           \* proc[p]: down, booting, up or stopping
    running_syncs,  \* running_syncs[p]: the user's entry in p's _running_syncs
    task,           \* task[n]: the run_full_sync task of sync n
    status,         \* status[n]: sync_history.status
    restarts        \* how many times a process went down

vars == <<lock, expires, cooldown, req, proc, running_syncs, task, status, restarts>>

valkey == <<lock, expires, cooldown>>
service == <<proc, restarts>>
syncs == <<running_syncs, task, status>>

-----------------------------------------------------------------------------
IdleReq(r) == [pc |-> "idle", proc |-> req[r].proc, sync |-> NoSync]

Goto(r, pc) == req' = [req EXCEPT ![r].pc = pc]

Leave(r) == req' = [req EXCEPT ![r] = IdleReq(r)]

(* The steps of trigger_sync that run after its SET NX succeeded.          *)
InTry == {"start", "insert", "create", "cooldown", "release"}

Live(n) == task[n].phase \in {"syncing", "finishing"}

LiveOn(p) == {n \in SyncIds : Live(n) /\ task[n].proc = p}

Unused == {n \in SyncIds : status[n] = "none"}

(* Traffic reaches a process only once its start-up is complete.           *)
AcceptingWhileBooting(p) == proc[p] \in {"booting", "up"}  \* mutant

Accepting(p) == proc[p] = "up"

Init ==
    /\ lock = FALSE /\ expires = FALSE /\ cooldown = FALSE
    /\ req \in [Requests -> [pc : {"idle"}, proc : Procs, sync : {NoSync}]]
    /\ proc = [p \in Procs |-> "up"]
    /\ running_syncs = [p \in Procs |-> NoSync]
    /\ task = [n \in SyncIds |-> [phase |-> "none", proc |-> CHOOSE p \in Procs : TRUE,
                                  outcome |-> "none"]]
    /\ status = [n \in SyncIds |-> "none"]
    /\ restarts = 0

-----------------------------------------------------------------------------
(* trigger_sync.                                                           *)

(* The cooldown is read; while it is set the request is answered 429.      *)
ReadCooldown(r, p) ==
    /\ req[r].pc = "idle"
    /\ Accepting(p)
    /\ ~cooldown
    /\ req' = [req EXCEPT ![r] = [pc |-> "lock", proc |-> p, sync |-> NoSync]]
    /\ UNCHANGED <<valkey, service, syncs>>

SetLockForever(r) ==
    /\ req[r].pc = "lock"
    /\ ~lock
    /\ lock' = TRUE /\ expires' = FALSE
    /\ Goto(r, "start")
    /\ UNCHANGED <<cooldown, service, syncs>>

(* SET NX EX 30.                                                           *)
SetLock(r) ==
    /\ req[r].pc = "lock"
    /\ ~lock
    /\ lock' = TRUE /\ expires' = TRUE
    /\ Goto(r, "start")
    /\ UNCHANGED <<cooldown, service, syncs>>

(* The lock is held (already_running), or Valkey refuses the write or does *)
(* not answer (503); an unanswered SET may have taken effect.              *)
LockRefused(r) ==
    /\ req[r].pc = "lock"
    /\ Leave(r)
    /\ \/ UNCHANGED <<lock, expires>>
       \/ lock' = TRUE /\ expires' = TRUE
    /\ UNCHANGED <<cooldown, service, syncs>>

(* Mutant: the table is not consulted.                                     *)
CheckNothing(r) ==
    /\ req[r].pc = "start"
    /\ Goto(r, "insert")
    /\ UNCHANGED <<valkey, service, syncs>>

(* _start_sync: a task of this process that is not done answers for all.   *)
CheckRunning(r) ==
    /\ req[r].pc = "start"
    /\ Goto(r, IF running_syncs[req[r].proc] # NoSync THEN "release" ELSE "insert")
    /\ UNCHANGED <<valkey, service, syncs>>

InsertRow(r) ==
    /\ req[r].pc = "insert"
    /\ \E n \in Unused :
          /\ \A m \in Unused : n <= m
          /\ status' = [status EXCEPT ![n] = "running"]
          /\ task' = [task EXCEPT ![n].proc = req[r].proc]
          /\ req' = [req EXCEPT ![r].pc = "create", ![r].sync = n]
    /\ UNCHANGED <<valkey, service, running_syncs>>

(* The INSERT fails, or it commits and its answer is lost: in the second   *)
(* case the row stays 'running' with no task.                              *)
InsertFails(r) ==
    /\ req[r].pc \in {"insert", "create"}
    /\ Goto(r, "release")
    /\ UNCHANGED <<valkey, service, syncs>>

CreateTask(r) ==
    /\ req[r].pc = "create"
    /\ task' = [task EXCEPT ![req[r].sync].phase = "syncing"]
    /\ running_syncs' = [running_syncs EXCEPT ![req[r].proc] = req[r].sync]
    /\ Goto(r, "cooldown")
    /\ UNCHANGED <<valkey, service, status>>

(* _set_cooldown, best effort.                                             *)
SetCooldown(r) ==
    /\ req[r].pc = "cooldown"
    /\ cooldown' \in {TRUE, cooldown}
    /\ Goto(r, "release")
    /\ UNCHANGED <<lock, expires, service, syncs>>

(* The finally: DEL, whoever holds the lock now, errors suppressed.        *)
Release(r) ==
    /\ req[r].pc = "release"
    /\ \/ lock' = FALSE /\ expires' = FALSE
       \/ UNCHANGED <<lock, expires>>
    /\ Leave(r)
    /\ UNCHANGED <<cooldown, service, syncs>>

(* Valkey expiry (external).                                               *)
LockExpires ==
    /\ lock /\ expires
    /\ LockMayLapse \/ \A r \in Requests : req[r].pc \notin InTry
    /\ lock' = FALSE /\ expires' = FALSE
    /\ UNCHANGED <<cooldown, req, service, syncs>>

CooldownExpires ==
    /\ cooldown
    /\ cooldown' = FALSE
    /\ UNCHANGED <<lock, expires, req, service, syncs>>

-----------------------------------------------------------------------------
(* run_full_sync: the sync returns or raises, then the finally block.      *)
SyncEnds(n) ==
    /\ task[n].phase = "syncing"
    /\ \E o \in {"completed", "failed"} :
          task' = [task EXCEPT ![n].phase = "finishing", ![n].outcome = o]
    /\ UNCHANGED <<valkey, req, service, running_syncs, status>>

(* The done-callback pops the user's entry, whichever task it names.       *)
Popped(p) == [running_syncs EXCEPT ![p] = NoSync]

(* The terminal UPDATE, best effort; the task is over.                     *)
RecordOutcome(n) ==
    /\ task[n].phase = "finishing"
    /\ status' \in {status, [status EXCEPT ![n] = task[n].outcome]}
    /\ task' = [task EXCEPT ![n].phase = "over"]
    /\ running_syncs' = Popped(task[n].proc)
    /\ UNCHANGED <<valkey, req, service>>

-----------------------------------------------------------------------------
(* Going down and coming back.                                             *)
NoRequestOn(p) == \A r \in Requests : req[r].pc = "idle" \/ req[r].proc # p

(* _stop_service, after the server drained its requests: the registered    *)
(* sync is cancelled.  A sync cancelled while it runs records 'cancelled'; *)
(* one cancelled inside its finally block ends there, and its UPDATE may   *)
(* or may not have been made.                                              *)
Stop(p) ==
    LET n == running_syncs[p] IN
    /\ proc[p] = "up"
    /\ NoRequestOn(p)
    /\ restarts < MaxRestarts
    /\ restarts' = restarts + 1
    /\ proc' = [proc EXCEPT ![p] = "stopping"]
    /\ \/ /\ n = NoSync
          /\ UNCHANGED syncs
       \/ /\ n # NoSync
          /\ task[n].phase = "syncing"
          /\ task' = [task EXCEPT ![n].phase = "finishing", ![n].outcome = "cancelled"]
          /\ UNCHANGED <<running_syncs, status>>
       \/ /\ n # NoSync
          /\ task[n].phase = "finishing"
          /\ status' \in {status, [status EXCEPT ![n] = task[n].outcome]}
          /\ task' = [task EXCEPT ![n].phase = "over"]
          /\ running_syncs' = Popped(p)
    /\ UNCHANGED <<valkey, req>>

(* The process is gone with all it held in memory.                         *)
Dies(p) ==
    /\ proc' = [proc EXCEPT ![p] = "down"]
    /\ req' = [r \in Requests |-> IF req[r].proc = p THEN IdleReq(r) ELSE req[r]]
    /\ task' = [n \in SyncIds |-> IF n \in LiveOn(p) THEN [task[n] EXCEPT !.phase = "over"]
                                  ELSE task[n]]
    /\ running_syncs' = Popped(p)
    /\ UNCHANGED <<valkey, status>>

(* The shutdown waits for the cancelled sync before the pool closes.       *)
Exit(p) ==
    /\ proc[p] = "stopping"
    /\ running_syncs[p] = NoSync
    /\ Dies(p)
    /\ UNCHANGED restarts

Crash(p) ==
    /\ proc[p] # "down"
    /\ restarts < MaxRestarts
    /\ restarts' = restarts + 1
    /\ Dies(p)

Boot(p) ==
    /\ proc[p] = "down"
    /\ proc' = [proc EXCEPT ![p] = "booting"]
    /\ UNCHANGED <<valkey, req, syncs, restarts>>

ReconcileNothing(p) ==
    /\ proc[p] = "booting"
    /\ proc' = [proc EXCEPT ![p] = "up"]
    /\ UNCHANGED <<valkey, req, syncs, restarts>>

(* reconcile_stale_sync_history, once, before traffic is accepted.         *)
ReconcileStaleSyncHistory(p) ==
    /\ proc[p] = "booting"
    /\ status' = [n \in SyncIds |-> IF status[n] = "running" THEN "failed" ELSE status[n]]
    /\ proc' = [proc EXCEPT ![p] = "up"]
    /\ UNCHANGED <<valkey, req, running_syncs, task, restarts>>

-----------------------------------------------------------------------------
RequestStep(r) ==
    \/ SetLock(r) \/ LockRefused(r)
    \/ CheckRunning(r) \/ InsertRow(r) \/ InsertFails(r) \/ CreateTask(r)
    \/ SetCooldown(r) \/ Release(r)

TaskStep(n) == SyncEnds(n) \/ RecordOutcome(n)

Startup(p) == Boot(p) \/ ReconcileStaleSyncHistory(p)

Next ==
    \/ \E r \in Requests :
          \/ \E p \in Procs : ReadCooldown(r, p)
          \/ RequestStep(r)
    \/ LockExpires
    \/ CooldownExpires
    \/ \E n \in SyncIds : TaskStep(n)
    \/ \E p \in Procs : Stop(p) \/ Exit(p) \/ Crash(p) \/ Startup(p)

(* Admitted requests and started tasks are run by the event loop, a TTL    *)
(* runs out, and a process that is down is started again by its            *)
(* supervisor.  No client ever has to send a request.                      *)
Fairness ==
    /\ \A r \in Requests : WF_vars(RequestStep(r))
    /\ \A n \in SyncIds : WF_vars(TaskStep(n))
    /\ \A p \in Procs : WF_vars(Startup(p)) /\ WF_vars(Exit(p))
    /\ WF_vars(LockExpires)
    /\ WF_vars(CooldownExpires)

Spec == Init /\ [][Next]_vars /\ Fairness

-----------------------------------------------------------------------------
(* Properties.                                                             *)

TypeOK ==
    /\ lock \in BOOLEAN /\ expires \in BOOLEAN /\ cooldown \in BOOLEAN
    /\ req \in [Requests -> [pc : {"idle", "lock"} \cup InTry, proc : Procs,
                             sync : SyncIds \cup {NoSync}]]
    /\ proc \in [Procs -> {"down", "booting", "up", "stopping"}]
    /\ running_syncs \in [Procs -> SyncIds \cup {NoSync}]
    /\ task \in [SyncIds -> [phase : {"none", "syncing", "finishing", "over"}, proc : Procs,
                             outcome : {"none", "completed", "failed", "cancelled"}]]
    /\ status \in [SyncIds -> {"none", "running", "completed", "failed", "cancelled"}]
    /\ restarts \in Nat

(* "Atomic lock to prevent duplicate sync tasks from concurrent requests"  *)
(* (api/routers/sync.py): never two sync tasks of one user at once.  With  *)
(* one process LiveSyncIsRegistered implies it; with replicas whose lock   *)
(* may lapse it does not hold.                                             *)
AtMostOneSync == \A m, n \in SyncIds : Live(m) /\ Live(n) => m = n

(* The table the duplicate guard and the shutdown read names every live    *)
(* sync of its process: no sync escapes the guard or the cancellation.     *)
LiveSyncIsRegistered == \A p \in Procs : LiveOn(p) \subseteq {running_syncs[p]}

(* The requests, tasks, stops, crashes and restarts together do what the   *)
(* endpoints promise (SyncLifecycle): the sync at work is the one whose    *)
(* task is live, a second one never begins beside it, its row is never     *)
(* failed under it, and a recorded outcome is never replaced.              *)
AtWork == IF \E n \in SyncIds : Live(n) THEN CHOOSE n \in SyncIds : Live(n) ELSE NoSync

Lifecycle == INSTANCE SyncLifecycle WITH Ids <- SyncIds, None <- NoSync,
                                         rows <- status, active <- AtWork

ImplementsLifecycle == Lifecycle!Safety

(* "so the user is never locked out": the lock is never held for ever,     *)
(* whatever fails while it is held.                                        *)
LockIsReleased == lock ~> ~lock

(* "a restart after a crash mid-sync doesn't leave GET /api/sync/status    *)
(* reporting a phantom running sync forever".                              *)
AbandonedRowSettles ==
    \A n \in SyncIds : (status[n] = "running" /\ proc[task[n].proc] = "down")
                          ~> status[n] # "running"

(* Nothing a failure, a stop or a crash leaves behind stays: both of them, *)
(* and a sync that began comes to its end, as SyncLifecycle promises.      *)
NothingStaysStranded == LockIsReleased /\ AbandonedRowSettles /\ Lifecycle!Ends
=============================================================================
