--------------------------- MODULE ReattachTrigger ---------------------------
(***************************************************************************)
(* Automatic identity maintenance after a Discogs import                   *)
(* (api/reattach_trigger.py), composed with the ledger refreshes it makes  *)
(* inline.  Every replica polls for the newest complete extraction that    *)
(* has no handled marker; the one that gets the session-level advisory     *)
(* lock records a started entry, runs the re-attachment, refreshes the     *)
(* ledger, runs the projection and turns the entry into the marker.        *)
(*                                                                         *)
(* The lock lives as long as the connection it was taken on.  The jobs use *)
(* other connections of the pool, so a run can outlive its lock; the       *)
(* started entry and the marker are written on the lock's own connection.  *)
(***************************************************************************)
EXTENDS LedgerRefresh, Sequences

CONSTANTS
    MaxVersion    \* bound: Discogs extractions, numbered by created_at

Versions == 1..MaxVersion

ASSUME TriggerBounds == MaxVersion \in Nat

VARIABLES
    complete,     \* the extractions whose latch row has all four signals
    audit,        \* the rows of admin_audit_log written by automatic runs
    holder,       \* the replicas whose connection holds the advisory lock
    trig          \* trig[p]: the step of replica p's run_pending

vars == <<ledgerVars, complete, audit, holder, trig>>

-----------------------------------------------------------------------------
Init ==
    /\ LedgerInit
    /\ complete = {}
    /\ audit = <<>>
    /\ holder = {}
    /\ trig = [p \in Replicas |-> [pc |-> "idle", version |-> NULL, job |-> 0]]

Entry(version) == [version |-> version, action |-> "started", upto |-> NULL, fresh |-> FALSE]

Step(p, pc) == trig' = [trig EXCEPT ![p].pc = pc]

Finished(p) == [pc |-> "idle", version |-> NULL, job |-> 0]

Handled(v) == \E j \in DOMAIN audit : audit[j].version = v /\ audit[j].action = "handled"

IsNewest(v) == v \in complete /\ \A u \in complete : u <= v

(* Mutant: an entry of any kind counts as the marker.                      *)
PendingNoEntry(v) == IsNewest(v) /\ \A j \in DOMAIN audit : audit[j].version # v

(* pending_extraction                                                      *)
Pending(v) == IsNewest(v) /\ ~Handled(v)

(* The loader (external) adds the last of the four signals.                *)
ExtractionCompletes(v) ==
    /\ complete' = complete \cup {v}
    /\ UNCHANGED <<ledgerVars, audit, holder, trig>>

-----------------------------------------------------------------------------
(* run_pending.                                                            *)

(* Mutant: the statements run on any connection of the pool.               *)
AnyConnection(p) == TRUE

(* A statement on the lock's connection works while the session lives.     *)
LockSession(p) == p \in holder

PreCheck(p) ==
    /\ trig[p].pc = "idle"
    /\ \E v \in Versions : Pending(v)
    /\ Step(p, "lock")
    /\ UNCHANGED <<ledgerVars, complete, audit, holder>>

TryLock(p) ==
    /\ trig[p].pc = "lock"
    /\ IF holder = {}
       THEN holder' = {p} /\ Step(p, "recheck")
       ELSE UNCHANGED holder /\ Step(p, "idle")
    /\ UNCHANGED <<ledgerVars, complete, audit>>

ReadPending(p) ==
    /\ trig[p].pc = "recheck"
    /\ LockSession(p)
    /\ \/ \E v \in Versions : Pending(v) /\ trig' = [trig EXCEPT ![p].pc = "start", ![p].version = v]
       \/ (\A v \in Versions : ~Pending(v)) /\ Step(p, "unlock")
    /\ UNCHANGED <<ledgerVars, complete, audit, holder>>

InsertStarted(p) ==
    /\ trig[p].pc = "start"
    /\ LockSession(p)
    /\ audit' = Append(audit, Entry(trig[p].version))
    /\ trig' = [trig EXCEPT ![p].pc = "run", ![p].job = Len(audit) + 1]
    /\ UNCHANGED <<ledgerVars, complete, holder>>

(* run_reattachment: items commit one by one.                              *)
RunItem(p) ==
    /\ trig[p].pc = "run"
    /\ Write
    /\ UNCHANGED <<complete, audit, holder, trig>>

RunReturns(p) ==
    /\ trig[p].pc = "run"
    /\ audit' = [audit EXCEPT ![trig[p].job].upto = writes]
    /\ Step(p, "refresh")
    /\ InlineBegin(p)
    /\ UNCHANGED <<complete, holder>>

RunRaises(p) ==
    /\ trig[p].pc = "run"
    /\ Failure
    /\ Step(p, "finalize")
    /\ UNCHANGED <<ledger, complete, audit, holder>>

(* The entry is finalized as failed, best effort, then the ledger is       *)
(* refreshed for what was committed.                                       *)
FinalizeFailed(p) ==
    /\ trig[p].pc = "finalize"
    /\ audit' \in {audit, [audit EXCEPT ![trig[p].job].action = "failed"]}
    /\ Step(p, "refresh_failed")
    /\ InlineBegin(p)
    /\ UNCHANGED <<complete, holder>>

(* The caller goes on, whatever came of the refresh.                       *)
Refreshed(p) ==
    /\ trig[p].pc \in {"refresh", "refresh_failed"}
    /\ InlineReturn(p)
    /\ audit' = [audit EXCEPT ![trig[p].job].fresh = refresh[Inline(p)].pc = "done"]
    /\ Step(p, IF trig[p].pc = "refresh" THEN "project" ELSE "unlock")
    /\ UNCHANGED <<complete, holder>>

(* run_gm_id_projection (over Neo4j).                                      *)
Project(p) ==
    /\ trig[p].pc = "project"
    /\ Step(p, "mark")
    /\ UNCHANGED <<ledgerVars, complete, audit, holder>>

ProjectRaises(p) ==
    /\ trig[p].pc = "project"
    /\ Failure
    /\ audit' \in {audit, [audit EXCEPT ![trig[p].job].action = "failed"]}
    /\ Step(p, "unlock")
    /\ UNCHANGED <<ledger, complete, holder>>

WriteMarker(p) ==
    /\ trig[p].pc = "mark"
    /\ LockSession(p)
    /\ audit' = [audit EXCEPT ![trig[p].job].action = "handled"]
    /\ Step(p, "unlock")
    /\ UNCHANGED <<ledgerVars, complete, holder>>

(* The connection is gone: the statement raises, the finally runs.         *)
SessionIsGone(p) ==
    /\ trig[p].pc \in {"recheck", "start", "mark"}
    /\ ~LockSession(p)
    /\ Step(p, "unlock")
    /\ UNCHANGED <<ledgerVars, complete, audit, holder>>

(* A statement fails on a connection that lives, or the system actor's row *)
(* is not the one ensure_system_actor wants.                               *)
StatementRaises(p) ==
    /\ trig[p].pc \in {"recheck", "start", "mark"}
    /\ LockSession(p)
    /\ Failure
    /\ Step(p, "unlock")
    /\ UNCHANGED <<ledger, complete, audit, holder>>

Unlock(p) ==
    /\ trig[p].pc = "unlock"
    /\ holder' = holder \ {p}
    /\ trig' = [trig EXCEPT ![p] = Finished(p)]
    /\ UNCHANGED <<ledgerVars, complete, audit>>

-----------------------------------------------------------------------------
(* Failures.                                                               *)

(* The server drops the lock's connection, and the lock with it.           *)
LoseConnection(p) ==
    /\ p \in holder
    /\ Failure
    /\ holder' = holder \ {p}
    /\ UNCHANGED <<ledger, complete, audit, trig>>

(* The process dies and is started again: its sessions end, and with them  *)
(* its locks and open transactions.                                        *)
Crash(p) ==
    /\ LedgerCrash(p)
    /\ holder' = holder \ {p}
    /\ trig' = [trig EXCEPT ![p] = Finished(p)]
    /\ UNCHANGED <<complete, audit>>

-----------------------------------------------------------------------------
TriggerStep(p) ==
    \/ PreCheck(p) \/ TryLock(p) \/ ReadPending(p) \/ InsertStarted(p)
    \/ RunReturns(p) \/ FinalizeFailed(p) \/ Refreshed(p) \/ Project(p) \/ WriteMarker(p)
    \/ SessionIsGone(p) \/ Unlock(p)

Apart == UNCHANGED <<complete, audit, holder, trig>>

Next ==
    \/ RefreshStep /\ Apart
    \/ \E v \in Versions \ complete : ExtractionCompletes(v)
    \/ \E p \in Replicas :
          \/ TriggerStep(p)
          \/ RunItem(p) \/ RunRaises(p) \/ ProjectRaises(p) \/ StatementRaises(p)
          \/ LoseConnection(p) \/ Crash(p)

(* run_trigger_loop goes on for ever, and PostgreSQL grants a released     *)
(* advisory lock to a waiter.                                              *)
Fairness ==
    \A p \in Replicas :
        /\ WF_vars(TriggerStep(p))
        /\ WF_vars(PollStep(p) /\ Apart)
        /\ SF_vars(InlineStep(p) /\ Apart)

Spec == Init /\ [][Next]_vars /\ Fairness

-----------------------------------------------------------------------------
(* Properties.                                                             *)

TriggerSteps == {"idle", "lock", "recheck", "start", "run", "finalize", "refresh",
                 "refresh_failed",
                 "project", "mark", "unlock"}

TypeOK ==
    /\ LedgerTypeOK
    /\ complete \subseteq Versions
    /\ audit \in Seq([version : Versions, action : {"started", "failed", "handled"},
                      upto : Nat \cup {NULL}, fresh : BOOLEAN])
    /\ holder \in {{}} \cup {{p} : p \in Replicas}
    /\ trig \in [Replicas -> [pc : TriggerSteps, version : Versions \cup {NULL}, job : Nat]]

(* "Exactly once": exactly one completed run per extraction, although      *)
(* every replica polls, runs are retried, and a run can outlive the lock   *)
(* it was started under.                                                   *)
OneCompletedRun ==
    \A i, j \in DOMAIN audit :
        (/\ audit[i].action = "handled" /\ audit[j].action = "handled"
         /\ audit[i].version = audit[j].version) => i = j

(* "The run's supersessions are in the works list when the run reports     *)
(* done": a handled run whose inline refresh worked is in the views, and   *)
(* stays there.                                                            *)
HandledRunIsShown ==
    \A j \in DOMAIN audit :
        audit[j].action = "handled" /\ audit[j].fresh => shown >= audit[j].upto

(* "a run that failed, or died between its started row and its marker, is  *)
(* retried": the newest complete extraction is handled in the end, unless  *)
(* a newer one takes its place.                                            *)
NewestIsHandled ==
    \A v \in Versions : (IsNewest(v) /\ ~Handled(v)) ~> (Handled(v) \/ ~IsNewest(v))
=============================================================================
