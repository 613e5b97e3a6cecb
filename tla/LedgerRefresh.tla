---------------------------- MODULE LedgerRefresh ----------------------------
(***************************************************************************)
(* The refreshes of the precomputed Identity Ledger (api/ledger_refresh.py) *)
(* by several replicas: inline after a run that wrote identity rows, and   *)
(* by a background poll that compares the source watermark, a sum of table *)
(* statistics, with the one the last refresh stored.                       *)
(*                                                                         *)
(* A refresh is a READ COMMITTED transaction under an advisory lock that   *)
(* ends with it.  A state of the sources is the number of writes committed *)
(* so far, and so is what the views show.  Durations (still_for, the age   *)
(* of the last refresh) are choices: a watermark just seen to move has not *)
(* held still, one seen before may have; a refresh committed during a      *)
(* transaction is younger than any staleness, since now() is the start of  *)
(* the transaction.                                                        *)
(***************************************************************************)
EXTENDS Integers

CONSTANTS
    Replicas,
    Pollers,     \* the replicas whose poll is on (it is off by default)
    Runners,     \* the replicas where runs refresh inline
    MaxWrites,   \* bound: committed writes to the source tables
    MaxResets,   \* bound: resets of the cumulative statistics
    MaxFailures  \* bound: failed statements, lost connections and crashes

NULL == -1       \* no refresh yet, nothing seen or read

ASSUME RolesAreReplicas == Pollers \subseteq Replicas /\ Runners \subseteq Replicas

ASSUME LedgerBounds == MaxWrites \in Nat /\ MaxResets \in Nat /\ MaxFailures \in Nat

VARIABLES
    writes,      \* the writes committed to SOURCE_TABLES
    base,        \* the writes forgotten by the statistics
    counted,     \* the sum in pg_stat_user_tables, which may lag
    resets,      \* how often the statistics were reset
    stored,      \* identity_ledger_refresh_state.source_watermark
    shown,       \* the writes the views show, NULL while unpopulated
    ledger_lock, \* the transactions that hold the advisory lock
    seen,        \* seen[p]: ChangeTracker.seen
    refresh,     \* refresh[t]: the step of refresh transaction t
    failures     \* how many failures there were

sources == <<writes, base, counted, resets>>
views == <<stored, shown>>
ledger == <<sources, views, ledger_lock, seen, refresh>>
ledgerVars == <<ledger, failures>>

Poll(p) == <<p, "poll">>
Inline(p) == <<p, "inline">>
Transactions == Replicas \X {"poll", "inline"}

(* A transaction: the watermark it read, whether that held still and the   *)
(* last refresh was past max_staleness then, and what its refresh read.    *)
TxnAt(pc, watermark) ==
    [pc |-> pc, current |-> watermark, still |-> FALSE, old |-> FALSE, reads |-> NULL]

NoTxn == TxnAt("idle", NULL)

LedgerInit ==
    /\ writes = 0 /\ base = 0 /\ counted = 0 /\ resets = 0
    /\ stored = NULL /\ shown = NULL
    /\ ledger_lock = {}
    /\ seen = [p \in Replicas |-> NULL]
    /\ refresh = [t \in Transactions |-> NoTxn]
    /\ failures = 0

Failure == failures < MaxFailures /\ failures' = failures + 1

-----------------------------------------------------------------------------
(* The sources (external): any writer; a write is counted a moment after   *)
(* it commits; a crash of the server or pg_stat_reset starts from zero.    *)
Write ==
    /\ writes < MaxWrites
    /\ writes' = writes + 1
    /\ UNCHANGED <<base, counted, resets, views, ledger_lock, seen, refresh, failures>>

Count ==
    /\ counted # writes - base
    /\ counted' = writes - base
    /\ UNCHANGED <<writes, base, resets, views, ledger_lock, seen, refresh, failures>>

StatsReset ==
    /\ resets < MaxResets
    /\ resets' = resets + 1
    /\ base' = writes
    /\ counted' = 0
    /\ UNCHANGED <<writes, views, ledger_lock, seen, refresh, failures>>

-----------------------------------------------------------------------------
Goto(t, pc) == refresh' = [refresh EXCEPT ![t].pc = pc]

Ended(t) == refresh' = [refresh EXCEPT ![t] = NoTxn]

(* _refresh(cur, watermark) begins.                                        *)
RefreshWith(t, watermark) ==
    refresh' = [refresh EXCEPT ![t] = TxnAt("refresh", watermark)]

(* refresh_reason                                                          *)
Reason(t) ==
    \/ shown = NULL
    \/ stored # refresh[t].current /\ (refresh[t].still \/ refresh[t].old)

(* poll_once: the watermark is read and shown to the tracker.  Staleness   *)
(* is only asked about when the watermark has not held still.              *)
PollObserve(p, still, old) ==
    /\ p \in Pollers
    /\ refresh[Poll(p)].pc = "idle"
    /\ still => seen[p] = counted /\ ~old
    /\ seen' = [seen EXCEPT ![p] = counted]
    /\ refresh' = [refresh EXCEPT ![Poll(p)] = [pc |-> "decide", current |-> counted,
                                                still |-> still, old |-> old, reads |-> NULL]]
    /\ UNCHANGED <<sources, views, ledger_lock, failures>>

(* ... and the stored state, for the first decision.                       *)
PollDecide(p) ==
    LET t == Poll(p) IN
    /\ refresh[t].pc = "decide"
    /\ IF Reason(t) THEN Goto(t, "try") ELSE Ended(t)
    /\ UNCHANGED <<sources, views, ledger_lock, seen, failures>>

PollTryLock(p) ==
    LET t == Poll(p) IN
    /\ refresh[t].pc = "try"
    /\ IF ledger_lock = {}
       THEN ledger_lock' = {t} /\ Goto(t, "recheck")
       ELSE UNCHANGED ledger_lock /\ Ended(t)
    /\ UNCHANGED <<sources, views, seen, failures>>

(* The decision again under the lock, with the watermark read before it.   *)
PollRecheck(p) ==
    LET t == Poll(p) IN
    /\ refresh[t].pc = "recheck"
    /\ IF Reason(t)
       THEN RefreshWith(t, refresh[t].current) /\ UNCHANGED ledger_lock
       ELSE Ended(t) /\ ledger_lock' = ledger_lock \ {t}
    /\ UNCHANGED <<sources, views, seen, failures>>

(* refresh_ledger waits for the lock, then reads the watermark.            *)
InlineBegin(p) ==
    /\ refresh[Inline(p)].pc = "idle"
    /\ Goto(Inline(p), "wait")
    /\ UNCHANGED <<sources, views, ledger_lock, seen, failures>>

(* Mutant: the inline refresh does not wait.                               *)
InlineLockAnyway(p) ==
    /\ refresh[Inline(p)].pc = "wait"
    /\ ledger_lock' = ledger_lock \cup {Inline(p)}
    /\ Goto(Inline(p), "watermark")
    /\ UNCHANGED <<sources, views, seen, failures>>

InlineLock(p) ==
    /\ refresh[Inline(p)].pc = "wait"
    /\ ledger_lock = {}
    /\ ledger_lock' = {Inline(p)}
    /\ Goto(Inline(p), "watermark")
    /\ UNCHANGED <<sources, views, seen, failures>>

InlineWatermark(p) ==
    /\ refresh[Inline(p)].pc = "watermark"
    /\ RefreshWith(Inline(p), counted)
    /\ UNCHANGED <<sources, views, ledger_lock, seen, failures>>

(* public.identity_ledger_refresh (external) reads the sources ...         *)
ReadSources(t) ==
    /\ refresh[t].pc = "refresh"
    /\ refresh' = [refresh EXCEPT ![t].pc = "commit", ![t].reads = writes]
    /\ UNCHANGED <<sources, views, ledger_lock, seen, failures>>

(* Mutant: the watermark stored is the one at the end of the refresh.      *)
LateWatermark(t) == counted

StoredWatermark(t) == refresh[t].current

(* ... and the views and the watermark appear together.                    *)
Commit(t) ==
    /\ refresh[t].pc = "commit"
    /\ stored' = StoredWatermark(t)
    /\ shown' = refresh[t].reads
    /\ ledger_lock' = ledger_lock \ {t}
    /\ refresh' = [u \in Transactions |->
                      IF u = t THEN TxnAt(IF t[2] = "inline" THEN "done" ELSE "idle", NULL)
                      ELSE [refresh[u] EXCEPT !.old = FALSE]]
    /\ UNCHANGED <<sources, seen, failures>>

(* The transaction fails and rolls back; the error is logged, not raised.  *)
RefreshFails(t) ==
    /\ refresh[t].pc \notin {"idle", "done", "failed"}
    /\ Failure
    /\ ledger_lock' = ledger_lock \ {t}
    /\ refresh' = [refresh EXCEPT ![t] = TxnAt(IF t[2] = "inline" THEN "failed" ELSE "idle", NULL)]
    /\ UNCHANGED <<sources, views, seen>>

(* The caller of an inline refresh goes on, whatever came of it.           *)
InlineReturn(p) ==
    /\ refresh[Inline(p)].pc \in {"done", "failed"}
    /\ Ended(Inline(p))
    /\ UNCHANGED <<sources, views, ledger_lock, seen, failures>>

(* The process dies and is started again: its transactions roll back and   *)
(* a new tracker has seen nothing.                                         *)
LedgerCrash(p) ==
    /\ Failure
    /\ refresh' = [refresh EXCEPT ![Poll(p)] = NoTxn, ![Inline(p)] = NoTxn]
    /\ ledger_lock' = ledger_lock \ {Poll(p), Inline(p)}
    /\ seen' = [seen EXCEPT ![p] = NULL]
    /\ UNCHANGED <<sources, views>>

-----------------------------------------------------------------------------
(* run_refresh_loop                                                        *)
Observe(p) == \E still, old \in BOOLEAN : PollObserve(p, still, old)

PollStep(p) ==
    \/ PollDecide(p) \/ PollTryLock(p) \/ PollRecheck(p)
    \/ ReadSources(Poll(p)) \/ Commit(Poll(p))

InlineStep(p) ==
    \/ InlineLock(p) \/ InlineWatermark(p)
    \/ ReadSources(Inline(p)) \/ Commit(Inline(p))

(* Every step but the ones of a run that refreshes inline.                 *)
RefreshStep ==
    \/ Write \/ Count \/ StatsReset
    \/ \E p \in Replicas : Observe(p) \/ PollStep(p) \/ InlineStep(p)
    \/ \E t \in Transactions : RefreshFails(t)

LedgerNext ==
    \/ RefreshStep
    \/ \E p \in Runners : InlineBegin(p)
    \/ \E p \in Replicas : InlineReturn(p) \/ LedgerCrash(p)

(* The loop goes on for ever; PostgreSQL grants a released lock to a       *)
(* waiter; a watermark that holds still is seen to have done so once the   *)
(* quiet interval is over.                                                 *)
LedgerFairness ==
    /\ WF_ledgerVars(Count)
    /\ \A p \in Replicas :
          /\ WF_ledgerVars(Observe(p))
          /\ WF_ledgerVars(PollStep(p))
          /\ SF_ledgerVars(InlineStep(p))
          /\ SF_ledgerVars(PollObserve(p, TRUE, FALSE))

LedgerSpec == LedgerInit /\ [][LedgerNext]_ledgerVars /\ LedgerFairness

-----------------------------------------------------------------------------
(* Properties.                                                             *)

TxnSteps == {"idle", "decide", "try", "recheck", "wait", "watermark", "refresh", "commit",
             "done", "failed"}

LedgerTypeOK ==
    /\ writes \in Nat /\ base \in Nat /\ counted \in Nat /\ resets \in Nat
    /\ stored \in Nat \cup {NULL} /\ shown \in Nat \cup {NULL}
    /\ ledger_lock \in {{}} \cup {{t} : t \in Transactions}
    /\ seen \in [Replicas -> Nat \cup {NULL}]
    /\ refresh \in [Transactions -> [pc : TxnSteps, current : Nat \cup {NULL}, still : BOOLEAN,
                                     old : BOOLEAN, reads : Nat \cup {NULL}]]
    /\ failures \in 0..MaxFailures

(* "each refresh stores the one it read", before it reads the sources: the *)
(* views show at least as many writes as the stored watermark counts, so   *)
(* that, until a reset, a watermark that has not moved hides no write.     *)
StoredIsShown == stored <= shown

(* "One refresh at a time": what the views show never goes back to an      *)
(* earlier state of the sources, whichever refreshes overlap.              *)
ShownNeverGoesBack == [][shown' >= shown]_ledgerVars

(* "a refresh another replica has just committed is not repeated": no poll *)
(* commits a refresh for the watermark that is already stored.  (It may    *)
(* still store an older one, when the sum moved after it was read.)        *)
NoIdleRefresh ==
    [][\A p \in Replicas :
          Commit(Poll(p)) => stored # refresh[Poll(p)].current \/ shown = NULL]_ledgerVars

(* "Change detection on the sources covers every writer": while the        *)
(* statistics are not reset, whatever was written is shown in the end,     *)
(* with inline refreshes, failures and crashes in between.                 *)
LedgerCatchesUp == \A n \in 1..MaxWrites : (writes >= n) ~> (shown >= n \/ resets > 0)

(* "Cumulative statistics reset on a crash or pg_stat_reset ... Either way *)
(* the sum then differs from the stored one and the result is one extra    *)
(* refresh, the safe direction": a reset hides no write either.            *)
(* It does not hold: see "Observations" in the README.                     *)
ResetIsSafe == \A n \in 1..MaxWrites : (writes >= n) ~> (shown >= n)
=============================================================================
