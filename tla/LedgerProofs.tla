----------------------------- MODULE LedgerProofs -----------------------------
(***************************************************************************)
(* Proofs about LedgerRefresh, and about ReattachTrigger, which is         *)
(* composed with it, for any number of replicas, extractions and failures. *)
(*                                                                         *)
(* First the ledger: the invariant says who holds the advisory lock and    *)
(* how what a transaction has read relates to the sources and to the       *)
(* views.  Its steps may include inline refreshes of any replica.          *)
(*                                                                         *)
(* Then the trigger: at most one completed run per extraction, and what a  *)
(* handled run wrote is in the views.  A run that lost its lock goes on,   *)
(* so the argument is not that one run is active: it is that every run has *)
(* an entry of its own, which only its marker makes a handled one, and     *)
(* that while a run still has the lock nobody else can have written a      *)
(* marker for its extraction.                                              *)
(***************************************************************************)
EXTENDS ReattachTrigger, SequenceTheorems, TLAPS

Locked == {"recheck", "watermark", "refresh", "commit"}

Watermarked == {"decide", "try", "recheck", "refresh", "commit"}

(* A transaction past its lock statement holds the lock.                   *)
LockInv == \A t \in Transactions : refresh[t].pc \in Locked => t \in ledger_lock

(* A watermark never counts a write that is not committed.                 *)
SourceInv ==
    /\ base <= writes
    /\ counted <= writes
    /\ shown <= writes
    /\ \A t \in Transactions : refresh[t].pc \in Watermarked =>
          refresh[t].current \in Nat /\ refresh[t].current <= writes

(* What a refresh is about to publish is no older than its watermark and   *)
(* than what the views show.                                               *)
ReadInv ==
    \A t \in Transactions : refresh[t].pc = "commit" =>
        /\ refresh[t].reads \in Nat /\ refresh[t].reads <= writes
        /\ refresh[t].current <= refresh[t].reads
        /\ shown <= refresh[t].reads

LedgerInv == LedgerTypeOK /\ LockInv /\ SourceInv /\ ReadInv /\ StoredIsShown

(* The steps of LedgerRefresh, with inline refreshes on every replica and  *)
(* failures elsewhere in the process.                                      *)
AnyLedgerStep ==
    \/ RefreshStep
    \/ \E p \in Replicas : InlineBegin(p) \/ InlineReturn(p) \/ LedgerCrash(p)
    \/ Failure /\ UNCHANGED ledger

-----------------------------------------------------------------------------
(* The two transactions of a replica are different transactions.           *)
LEMMA TransactionKinds ==
    /\ \A p \in Replicas : Poll(p) \in Transactions /\ Inline(p) \in Transactions
    /\ \A t \in Transactions : t = Poll(t[1]) \/ t = Inline(t[1])
PROOF BY DEF Transactions, Poll, Inline

Txn == [pc : TxnSteps, current : Nat \cup {NULL}, still : BOOLEAN,
        old : BOOLEAN, reads : Nat \cup {NULL}]

(* A transaction between two statements has its type.                      *)
LEMMA TxnType ==
    \A pc \in TxnSteps, n \in Nat \cup {NULL} : TxnAt(pc, n) \in Txn
PROOF BY DEF TxnAt, Txn, NULL

(* The initial state of the views and the locks.                           *)
LEMMA InitLedgerInv == LedgerInit => LedgerInv
PROOF
<1>1. LedgerInit => LedgerTypeOK
  BY LedgerBounds DEF LedgerInit, LedgerTypeOK, NoTxn, TxnAt, TxnSteps, NULL
<1>2. LedgerInit => LockInv /\ SourceInv /\ ReadInv /\ StoredIsShown
  BY DEF LedgerInit, LockInv, SourceInv, ReadInv, StoredIsShown, NoTxn, TxnAt, Locked, Watermarked, NULL
<1> QED BY <1>1, <1>2 DEF LedgerInv

(* What a step owes the invariant when it only moves one transaction.      *)
LEMMA OneTxnMoves ==
    ASSUME LedgerInv, NEW t \in Transactions, NEW r \in Txn,
           refresh' = [refresh EXCEPT ![t] = r],
           UNCHANGED <<writes, base, counted, resets, stored, shown>>,
           seen' \in [Replicas -> Nat \cup {NULL}],
           failures' \in 0..MaxFailures,
           ledger_lock' \in {ledger_lock, ledger_lock \ {t}} \/ (ledger_lock = {} /\ ledger_lock' = {t}),
           r.pc \in Locked => t \in ledger_lock',
           r.pc \in Watermarked => r.current \in Nat /\ r.current <= writes,
           r.pc = "commit" => /\ r.reads \in Nat /\ r.reads <= writes
                              /\ r.current <= r.reads /\ shown <= r.reads
    PROVE  LedgerInv' /\ shown' >= shown
PROOF
<1> USE DEF NULL
<1>t. LedgerTypeOK /\ LockInv /\ SourceInv /\ ReadInv /\ StoredIsShown
  BY DEF LedgerInv
<1>1. LedgerTypeOK'
  <2>1. refresh' \in [Transactions -> Txn]
    BY <1>t DEF LedgerTypeOK, Txn
  <2>2. ledger_lock' \in {{}} \cup {{u} : u \in Transactions}
    BY <1>t DEF LedgerTypeOK
  <2> QED BY <2>1, <2>2, <1>t DEF LedgerTypeOK, Txn
<1>2. LockInv'
  BY <1>t DEF LedgerTypeOK, LockInv
<1>3. SourceInv' /\ ReadInv' /\ StoredIsShown'
  BY <1>t DEF LedgerTypeOK, SourceInv, ReadInv, StoredIsShown
<1>4. shown' >= shown
  BY <1>t DEF LedgerTypeOK
<1> QED BY <1>1, <1>2, <1>3, <1>4 DEF LedgerInv

(* The steps of a poll keep the invariant.                                 *)
LEMMA PollInv ==
    ASSUME LedgerInv, NEW p \in Replicas,
           Observe(p) \/ PollDecide(p) \/ PollTryLock(p) \/ PollRecheck(p)
    PROVE  LedgerInv' /\ shown' >= shown
PROOF
<1> USE DEF NULL
<1> DEFINE t == Poll(p)
<1>i. t \in Transactions  BY TransactionKinds
<1>t. LedgerTypeOK /\ LockInv /\ SourceInv  BY DEF LedgerInv
<1>y. /\ refresh \in [Transactions -> Txn] /\ refresh[t] \in Txn
      /\ seen \in [Replicas -> Nat \cup {NULL}] /\ failures \in 0..MaxFailures
  BY <1>t, <1>i DEF LedgerTypeOK, Txn
<1>n. NoTxn \in Txn /\ NoTxn.pc = "idle"  BY DEF NoTxn, TxnAt, Txn, TxnSteps
<1>1. CASE Observe(p)
  <2>1. PICK still \in BOOLEAN, old \in BOOLEAN : PollObserve(p, still, old)
    BY <1>1 DEF Observe
  <2> DEFINE r == [pc |-> "decide", current |-> counted, still |-> still, old |-> old, reads |-> NULL]
  <2>2. r \in Txn  BY <1>t DEF LedgerTypeOK, Txn, TxnSteps
  <2>3. refresh' = [refresh EXCEPT ![t] = r]  BY <2>1 DEF PollObserve
  <2>4. seen' \in [Replicas -> Nat \cup {NULL}]  BY <2>1, <1>t DEF PollObserve, LedgerTypeOK
  <2>5. UNCHANGED <<writes, base, counted, resets, stored, shown, ledger_lock, failures>>
    BY <2>1 DEF PollObserve, sources, views
  <2>6. r.pc = "decide" /\ r.current \in Nat /\ r.current <= writes
    BY <1>t DEF LedgerTypeOK, SourceInv
  <2> HIDE DEF r, t
  <2> QED BY <1>i, <1>y, <2>2, <2>3, <2>4, <2>5, <2>6, OneTxnMoves DEF Locked
<1>2. CASE PollDecide(p)
  <2>1. UNCHANGED <<writes, base, counted, resets, stored, shown, ledger_lock, seen, failures>>
    BY <1>2 DEF PollDecide, sources, views
  <2>2. refresh[t].pc = "decide"  BY <1>2 DEF PollDecide
  <2>3. CASE refresh' = [refresh EXCEPT ![t] = NoTxn]
    BY <1>i, <1>y, <1>n, <2>1, <2>3, OneTxnMoves DEF Locked, Watermarked
  <2>4. CASE refresh' = [refresh EXCEPT ![t].pc = "try"]
    <3> DEFINE r == [refresh[t] EXCEPT !.pc = "try"]
    <3>1. r \in Txn /\ r.pc = "try" /\ r.current = refresh[t].current
      BY <1>y DEF Txn, TxnSteps
    <3>2. refresh' = [refresh EXCEPT ![t] = r]  BY <2>4, <1>y
    <3>3. r.current \in Nat /\ r.current <= writes
      BY <3>1, <2>2, <1>i, <1>t DEF SourceInv, Watermarked
    <3> HIDE DEF r, t
    <3> QED BY <1>i, <1>y, <2>1, <3>1, <3>2, <3>3, OneTxnMoves DEF Locked
  <2> QED BY <1>2, <2>3, <2>4 DEF PollDecide, Goto, Ended
<1>3. CASE PollTryLock(p)
  <2>1. UNCHANGED <<writes, base, counted, resets, stored, shown, seen, failures>>
    BY <1>3 DEF PollTryLock, sources, views
  <2>2. refresh[t].pc = "try"  BY <1>3 DEF PollTryLock
  <2>3. CASE refresh' = [refresh EXCEPT ![t] = NoTxn] /\ UNCHANGED ledger_lock
    BY <1>i, <1>y, <1>n, <2>1, <2>3, OneTxnMoves DEF Locked, Watermarked
  <2>4. CASE /\ ledger_lock = {} /\ ledger_lock' = {t}
             /\ refresh' = [refresh EXCEPT ![t].pc = "recheck"]
    <3> DEFINE r == [refresh[t] EXCEPT !.pc = "recheck"]
    <3>1. r \in Txn /\ r.pc = "recheck" /\ r.current = refresh[t].current
      BY <1>y DEF Txn, TxnSteps
    <3>2. refresh' = [refresh EXCEPT ![t] = r]  BY <2>4, <1>y
    <3>3. r.current \in Nat /\ r.current <= writes
      BY <3>1, <2>2, <1>i, <1>t DEF SourceInv, Watermarked
    <3>4. ledger_lock = {} /\ ledger_lock' = {t} /\ t \in ledger_lock'  BY <2>4
    <3> HIDE DEF r, t
    <3> QED BY <1>i, <1>y, <2>1, <3>1, <3>2, <3>3, <3>4, OneTxnMoves
  <2> QED BY <1>3, <2>3, <2>4 DEF PollTryLock, Goto, Ended
<1>4. CASE PollRecheck(p)
  <2>1. UNCHANGED <<writes, base, counted, resets, stored, shown, seen, failures>>
    BY <1>4 DEF PollRecheck, sources, views
  <2>2. refresh[t].pc = "recheck"  BY <1>4 DEF PollRecheck
  <2>3. CASE refresh' = [refresh EXCEPT ![t] = NoTxn] /\ ledger_lock' = ledger_lock \ {t}
    BY <1>i, <1>y, <1>n, <2>1, <2>3, OneTxnMoves DEF Locked, Watermarked
  <2>4. CASE /\ UNCHANGED ledger_lock
             /\ refresh' = [refresh EXCEPT ![t] = TxnAt("refresh", refresh[t].current)]
    <3> DEFINE r == TxnAt("refresh", refresh[t].current)
    <3>1. refresh[t].current \in Nat /\ refresh[t].current <= writes
      BY <2>2, <1>i, <1>t DEF SourceInv, Watermarked
    <3>2. r \in Txn /\ r.pc = "refresh" /\ r.current = refresh[t].current
      BY <3>1 DEF TxnAt, Txn, TxnSteps
    <3>3. t \in ledger_lock'  BY <2>2, <2>4, <1>i, <1>t DEF LockInv, Locked
    <3>4. refresh' = [refresh EXCEPT ![t] = r]  BY <2>4
    <3> HIDE DEF r, t
    <3> QED BY <1>i, <1>y, <2>1, <2>4, <3>1, <3>2, <3>3, <3>4, OneTxnMoves
  <2> QED BY <1>4, <2>3, <2>4 DEF PollRecheck, RefreshWith, Ended
<1> QED BY <1>1, <1>2, <1>3, <1>4

(* The steps of an inline refresh up to its first read keep the invariant. *)
LEMMA InlineInv ==
    ASSUME LedgerInv, NEW p \in Replicas,
           InlineBegin(p) \/ InlineLock(p) \/ InlineWatermark(p) \/ InlineReturn(p)
    PROVE  LedgerInv' /\ shown' >= shown
PROOF
<1> USE DEF NULL
<1> DEFINE t == Inline(p)
<1>i. t \in Transactions  BY TransactionKinds
<1>t. LedgerTypeOK /\ LockInv /\ SourceInv  BY DEF LedgerInv
<1>y. /\ refresh \in [Transactions -> Txn] /\ refresh[t] \in Txn
      /\ seen \in [Replicas -> Nat \cup {NULL}] /\ failures \in 0..MaxFailures
  BY <1>t, <1>i DEF LedgerTypeOK, Txn
<1>n. NoTxn \in Txn /\ NoTxn.pc = "idle"  BY DEF NoTxn, TxnAt, Txn, TxnSteps
<1>u. UNCHANGED <<writes, base, counted, resets, stored, shown, seen, failures>>
  BY DEF InlineBegin, InlineLock, InlineWatermark, InlineReturn, sources, views
<1>1. CASE InlineBegin(p)
  <2> DEFINE r == [refresh[t] EXCEPT !.pc = "wait"]
  <2>1. r \in Txn /\ r.pc = "wait"  BY <1>y DEF Txn, TxnSteps
  <2>2. refresh' = [refresh EXCEPT ![t] = r] /\ ledger_lock' = ledger_lock
    BY <1>1, <1>y DEF InlineBegin, Goto
  <2> HIDE DEF r, t
  <2> QED BY <1>i, <1>y, <1>u, <2>1, <2>2, OneTxnMoves DEF Locked, Watermarked
<1>2. CASE InlineLock(p)
  <2> DEFINE r == [refresh[t] EXCEPT !.pc = "watermark"]
  <2>1. r \in Txn /\ r.pc = "watermark"  BY <1>y DEF Txn, TxnSteps
  <2>2. /\ refresh' = [refresh EXCEPT ![t] = r]
        /\ ledger_lock = {} /\ ledger_lock' = {t} /\ t \in ledger_lock'
    BY <1>2, <1>y DEF InlineLock, Goto
  <2> HIDE DEF r, t
  <2> QED BY <1>i, <1>y, <1>u, <2>1, <2>2, OneTxnMoves DEF Watermarked
<1>3. CASE InlineWatermark(p)
  <2> DEFINE r == TxnAt("refresh", counted)
  <2>1. counted \in Nat /\ counted <= writes  BY <1>t DEF LedgerTypeOK, SourceInv
  <2>2. r \in Txn /\ r.pc = "refresh" /\ r.current = counted
    BY <2>1 DEF TxnAt, Txn, TxnSteps
  <2>3. refresh' = [refresh EXCEPT ![t] = r] /\ ledger_lock' = ledger_lock
    BY <1>3 DEF InlineWatermark, RefreshWith
  <2>4. t \in ledger_lock'
    BY <1>3, <2>3, <1>i, <1>t DEF InlineWatermark, LockInv, Locked
  <2> HIDE DEF r, t
  <2> QED BY <1>i, <1>y, <1>u, <2>1, <2>2, <2>3, <2>4, OneTxnMoves
<1>4. CASE InlineReturn(p)
  <2>1. refresh' = [refresh EXCEPT ![t] = NoTxn] /\ ledger_lock' = ledger_lock
    BY <1>4 DEF InlineReturn, Ended
  <2> HIDE DEF t
  <2> QED BY <1>i, <1>y, <1>n, <1>u, <2>1, OneTxnMoves DEF Locked, Watermarked
<1> QED BY <1>1, <1>2, <1>3, <1>4

(* A refresh that reads the sources reads every committed write.           *)
LEMMA ReadInvStep ==
    ASSUME LedgerInv, NEW t \in Transactions, ReadSources(t)
    PROVE  LedgerInv' /\ shown' >= shown
PROOF
<1> USE DEF NULL
<1> DEFINE r == [refresh[t] EXCEPT !.pc = "commit", !.reads = writes]
<1>t. LedgerTypeOK /\ LockInv /\ SourceInv  BY DEF LedgerInv
<1>y. /\ refresh \in [Transactions -> Txn] /\ refresh[t] \in Txn /\ writes \in Nat
      /\ seen \in [Replicas -> Nat \cup {NULL}] /\ failures \in 0..MaxFailures
  BY <1>t DEF LedgerTypeOK, Txn
<1>1. /\ UNCHANGED <<writes, base, counted, resets, stored, shown, seen, failures, ledger_lock>>
      /\ refresh[t].pc = "refresh"
  BY DEF ReadSources, sources, views
<1>2. r \in Txn /\ r.pc = "commit" /\ r.reads = writes /\ r.current = refresh[t].current
  BY <1>y DEF Txn, TxnSteps
<1>3. refresh' = [refresh EXCEPT ![t] = r]  BY <1>y DEF ReadSources
<1>4. t \in ledger_lock'  BY <1>1, <1>t DEF LockInv, Locked
<1>5. r.current \in Nat /\ r.current <= writes
  BY <1>1, <1>2, <1>t DEF SourceInv, Watermarked
<1>6. shown <= r.reads /\ r.reads \in Nat /\ r.reads <= writes
  BY <1>2, <1>y, <1>t DEF SourceInv
<1>7. r.current <= r.reads
  BY <1>2, <1>5
<1> HIDE DEF r
<1> QED BY <1>y, <1>1, <1>2, <1>3, <1>4, <1>5, <1>6, <1>7, OneTxnMoves

(* A refresh publishes what no other refresh has overtaken.                *)
LEMMA CommitInv ==
    ASSUME LedgerInv, NEW t \in Transactions, Commit(t)
    PROVE  LedgerInv' /\ shown' >= shown
PROOF
<1> USE DEF NULL
<1>t. LedgerTypeOK /\ LockInv /\ SourceInv /\ ReadInv /\ StoredIsShown  BY DEF LedgerInv
<1>y. /\ refresh \in [Transactions -> Txn] /\ writes \in Nat
      /\ shown \in Nat \cup {NULL}
      /\ ledger_lock \in {{}} \cup {{u} : u \in Transactions}
  BY <1>t DEF LedgerTypeOK, Txn
<1>1. /\ UNCHANGED <<writes, base, counted, resets, seen, failures>>
      /\ refresh[t].pc = "commit"
      /\ stored' = refresh[t].current /\ shown' = refresh[t].reads
      /\ ledger_lock' = ledger_lock \ {t}
  BY DEF Commit, StoredWatermark, sources
<1> DEFINE end == TxnAt(IF t[2] = "inline" THEN "done" ELSE "idle", NULL)
<1>2. end \in Txn /\ end.pc \in {"done", "idle"}
  BY DEF TxnAt, Txn, TxnSteps
<1>3. refresh' = [u \in Transactions |-> IF u = t THEN end ELSE [refresh[u] EXCEPT !.old = FALSE]]
  BY DEF Commit
<1>4. \A u \in Transactions : refresh'[u] \in Txn
  BY <1>2, <1>3, <1>y DEF Txn
<1>5. \A u \in Transactions \ {t} :
         /\ refresh'[u].pc = refresh[u].pc
         /\ refresh'[u].current = refresh[u].current
         /\ refresh'[u].reads = refresh[u].reads
  BY <1>3, <1>y DEF Txn
<1>6. refresh'[t].pc \in {"done", "idle"}  BY <1>2, <1>3
<1>7. refresh' \in [Transactions -> Txn]
  <2>1. DOMAIN refresh' = Transactions /\ refresh' = [u \in DOMAIN refresh' |-> refresh'[u]]
    BY <1>3
  <2> QED BY <2>1, <1>4
<1> HIDE DEF end
<1>8. ledger_lock = {t}
  BY <1>1, <1>y, <1>t DEF LockInv, Locked
<1>9. \A u \in Transactions : refresh'[u].pc \notin Locked
  BY <1>1, <1>5, <1>6, <1>8, <1>t DEF LockInv, Locked
<1>10. /\ refresh[t].reads \in Nat /\ refresh[t].reads <= writes
       /\ refresh[t].current \in Nat /\ refresh[t].current <= writes
       /\ refresh[t].current <= refresh[t].reads /\ shown <= refresh[t].reads
  BY <1>1, <1>t DEF ReadInv, SourceInv, Watermarked
<1>11. LedgerTypeOK'
  <2>1. ledger_lock' = {}  BY <1>1, <1>8
  <2>2. stored' \in Nat \cup {NULL} /\ shown' \in Nat \cup {NULL}  BY <1>1, <1>10
  <2> QED BY <1>1, <1>7, <2>1, <2>2, <1>t DEF LedgerTypeOK, Txn
<1>12. LockInv'  BY <1>9 DEF LockInv
<1>13. SourceInv'
  <2>1. \A u \in Transactions : refresh'[u].pc \in Watermarked =>
           refresh'[u].current \in Nat /\ refresh'[u].current <= writes'
    BY <1>1, <1>5, <1>6, <1>t DEF SourceInv, Watermarked
  <2> QED BY <2>1, <1>1, <1>10, <1>t DEF SourceInv
<1>14. ReadInv'
  BY <1>9 DEF ReadInv, Locked
<1>15. StoredIsShown' /\ shown' >= shown
  BY <1>1, <1>10, <1>y DEF StoredIsShown
<1> QED BY <1>11, <1>12, <1>13, <1>14, <1>15 DEF LedgerInv

(* A rolled back transaction leaves no lock and nothing half done.         *)
LEMMA FailsInv ==
    ASSUME LedgerInv, NEW t \in Transactions, RefreshFails(t)
    PROVE  LedgerInv' /\ shown' >= shown
PROOF
<1> USE DEF NULL
<1> DEFINE r == TxnAt(IF t[2] = "inline" THEN "failed" ELSE "idle", NULL)
<1>1. r \in Txn /\ r.pc \in {"failed", "idle"}  BY DEF TxnAt, Txn, TxnSteps
<1>2. refresh' = [refresh EXCEPT ![t] = r]  BY DEF RefreshFails
<1>3. /\ UNCHANGED <<writes, base, counted, resets, stored, shown, seen>>
      /\ ledger_lock' = ledger_lock \ {t}
  BY DEF RefreshFails, sources, views
<1>4. seen \in [Replicas -> Nat \cup {NULL}] /\ failures' \in 0..MaxFailures
  BY LedgerBounds DEF LedgerInv, LedgerTypeOK, RefreshFails, Failure
<1> HIDE DEF r
<1> QED BY <1>1, <1>2, <1>3, <1>4, OneTxnMoves DEF Locked, Watermarked

(* A crash ends both transactions of a replica.                            *)
LEMMA CrashInv ==
    ASSUME LedgerInv, NEW p \in Replicas, LedgerCrash(p)
    PROVE  LedgerInv' /\ shown' >= shown
PROOF
<1> USE DEF NULL
<1>t. LedgerTypeOK /\ LockInv /\ SourceInv /\ ReadInv /\ StoredIsShown  BY DEF LedgerInv
<1>1. /\ UNCHANGED <<writes, base, counted, resets, stored, shown>>
      /\ ledger_lock' = ledger_lock \ {Poll(p), Inline(p)}
  BY DEF LedgerCrash, sources, views
<1>2. seen' \in [Replicas -> Nat \cup {NULL}] /\ failures' \in 0..MaxFailures
  BY <1>t, LedgerBounds DEF LedgerTypeOK, LedgerCrash, Failure
<1>3. refresh' = [refresh EXCEPT ![Poll(p)] = NoTxn, ![Inline(p)] = NoTxn]
  BY DEF LedgerCrash
<1>4. Poll(p) \in Transactions /\ Inline(p) \in Transactions  BY TransactionKinds
<1>5. NoTxn \in Txn /\ NoTxn.pc = "idle"  BY DEF NoTxn, TxnAt, Txn, TxnSteps
<1>6. refresh \in [Transactions -> Txn]  BY <1>t DEF LedgerTypeOK, Txn
<1>7. refresh' \in [Transactions -> Txn]  BY <1>3, <1>4, <1>5, <1>6
<1>8. \A u \in Transactions :
         \/ u \in {Poll(p), Inline(p)} /\ refresh'[u].pc = "idle"
         \/ u \notin {Poll(p), Inline(p)} /\ refresh'[u] = refresh[u]
  BY <1>3, <1>4, <1>5, <1>6
<1>9. LedgerTypeOK'
  <2>1. ledger_lock' \in {{}} \cup {{u} : u \in Transactions}
    BY <1>1, <1>t DEF LedgerTypeOK
  <2> QED BY <1>1, <1>2, <1>7, <2>1, <1>t DEF LedgerTypeOK, Txn
<1>10. LockInv'
  BY <1>1, <1>8, <1>t DEF LockInv, Locked
<1>11. SourceInv' /\ ReadInv' /\ StoredIsShown'
  BY <1>1, <1>8, <1>t DEF SourceInv, ReadInv, StoredIsShown, Watermarked
<1>12. shown' >= shown  BY <1>1, <1>t DEF LedgerTypeOK
<1> QED BY <1>9, <1>10, <1>11, <1>12 DEF LedgerInv

(* Every step keeps the invariant and never takes the views back.          *)
LEMMA LedgerStepInv ==
    ASSUME LedgerInv, AnyLedgerStep
    PROVE  LedgerInv' /\ shown' >= shown
PROOF
<1> USE DEF NULL
<1>t. LedgerTypeOK /\ LockInv /\ SourceInv /\ ReadInv /\ StoredIsShown
  BY DEF LedgerInv
<1>1. CASE Write
  BY <1>1, <1>t DEF LedgerInv, Write, LedgerTypeOK, LockInv, SourceInv, ReadInv, StoredIsShown, views
<1>2. CASE Count
  BY <1>2, <1>t DEF LedgerInv, Count, LedgerTypeOK, LockInv, SourceInv, ReadInv, StoredIsShown, views
<1>3. CASE StatsReset
  BY <1>3, <1>t DEF LedgerInv, StatsReset, LedgerTypeOK, LockInv, SourceInv, ReadInv, StoredIsShown, views
<1>4. ASSUME NEW p \in Replicas, Observe(p) \/ PollStep(p) PROVE LedgerInv' /\ shown' >= shown
  BY <1>4, PollInv, ReadInvStep, CommitInv, TransactionKinds DEF PollStep
<1>5. ASSUME NEW p \in Replicas, InlineBegin(p) \/ InlineStep(p) \/ InlineReturn(p)
      PROVE LedgerInv' /\ shown' >= shown
  BY <1>5, InlineInv, ReadInvStep, CommitInv, TransactionKinds DEF InlineStep
<1>6. CASE Failure /\ UNCHANGED ledger
  <2>1. UNCHANGED <<writes, base, counted, resets, stored, shown, ledger_lock, seen, refresh>>
    BY <1>6 DEF ledger, sources, views
  <2>2. failures' \in 0..MaxFailures
    BY <1>6, <1>t, LedgerBounds DEF Failure, LedgerTypeOK
  <2> QED BY <2>1, <2>2, <1>t
       DEF LedgerInv, LedgerTypeOK, LockInv, SourceInv, ReadInv, StoredIsShown
<1> QED BY <1>1, <1>2, <1>3, <1>4, <1>5, <1>6, FailsInv, CrashInv DEF AnyLedgerStep, RefreshStep

(* A step that leaves the ledger alone keeps the invariant.                *)
LEMMA LedgerStutterInv ==
    ASSUME LedgerInv, UNCHANGED ledgerVars
    PROVE  LedgerInv' /\ shown' >= shown
PROOF
<1>1. UNCHANGED <<writes, base, counted, resets, stored, shown, ledger_lock, seen, refresh, failures>>
  BY DEF ledgerVars, ledger, sources, views
<1> QED BY <1>1 DEF LedgerInv, LedgerTypeOK, LockInv, SourceInv, ReadInv, StoredIsShown, NULL

-----------------------------------------------------------------------------
(* The steps of the specification are among those of the lemmas.           *)
LEMMA NextIsLedgerStep == LedgerNext => AnyLedgerStep
PROOF BY RolesAreReplicas DEF LedgerNext, AnyLedgerStep

(* The invariant of the ledger refreshes.                                  *)
THEOREM LedgerInvHolds == LedgerSpec => []LedgerInv
PROOF
<1>1. LedgerInit => LedgerInv  BY InitLedgerInv
<1>2. LedgerInv /\ [LedgerNext]_ledgerVars => LedgerInv'
  BY LedgerStepInv, LedgerStutterInv, NextIsLedgerStep
<1> QED BY <1>1, <1>2, PTL DEF LedgerSpec

(* The types of the state, and that the advisory lock has one holder       *)
(* (refresh_ledger, poll_once).                                            *)
THEOREM LedgerTypes == LedgerSpec => []LedgerTypeOK
PROOF
<1>1. LedgerInv => LedgerTypeOK  BY DEF LedgerInv
<1> QED BY <1>1, LedgerInvHolds, PTL

(* The stored watermark never counts a write that the views do not show:   *)
(* both refreshes read it before the sources.                              *)
THEOREM WatermarkIsSafe == LedgerSpec => []StoredIsShown
PROOF
<1>1. LedgerInv => StoredIsShown  BY DEF LedgerInv
<1> QED BY <1>1, LedgerInvHolds, PTL

(* The lock keeps overlapping refreshes from publishing an older state of  *)
(* the sources over a newer one.                                           *)
THEOREM ViewsNeverGoBack == LedgerSpec => ShownNeverGoesBack
PROOF
<1>1. LedgerInv /\ [LedgerNext]_ledgerVars => [shown' >= shown]_ledgerVars
  BY LedgerStepInv, NextIsLedgerStep
<1> QED BY <1>1, LedgerInvHolds, PTL DEF LedgerSpec, ShownNeverGoesBack

-----------------------------------------------------------------------------
(* The trigger: an entry of its audit log, and a run.                      *)
Row == [version : Versions, action : {"started", "failed", "handled"},
        upto : Nat \cup {NULL}, fresh : BOOLEAN]

Run == [pc : TriggerSteps, version : Versions \cup {NULL}, job : Nat]

(* The steps of a run that has its audit entry.                            *)
Running == {"run", "finalize", "refresh", "refresh_failed", "project", "mark"}

TriggerTypeOK ==
    /\ complete \subseteq Versions
    /\ audit \in Seq(Row)
    /\ holder \in {{}} \cup {{p} : p \in Replicas}
    /\ trig \in [Replicas -> Run]

(* A run's entry is for its extraction and is not the marker yet.          *)
JobInv ==
    \A p \in Replicas : trig[p].pc \in Running =>
        /\ trig[p].job \in 1..Len(audit)
        /\ audit[trig[p].job].version = trig[p].version
        /\ audit[trig[p].job].action # "handled"

(* Two runs never share an entry.                                          *)
OwnJobInv ==
    \A p, q \in Replicas :
        trig[p].pc \in Running /\ trig[q].pc \in Running /\ p # q => trig[p].job # trig[q].job

(* Under the lock, the extraction of a run has no marker.                  *)
UnhandledInv ==
    \A p \in Replicas : p \in holder /\ trig[p].pc \in Running \cup {"start"} =>
        /\ trig[p].version \in Versions
        /\ \A j \in 1..Len(audit) :
              ~(audit[j].version = trig[p].version /\ audit[j].action = "handled")

TriggerInv == TriggerTypeOK /\ JobInv /\ OwnJobInv /\ UnhandledInv /\ OneCompletedRun

-----------------------------------------------------------------------------
(* No extraction is handled before the first run.                          *)
LEMMA InitTriggerInv == Init => TriggerInv
PROOF
<1> SUFFICES ASSUME Init PROVE TriggerInv  OBVIOUS
<1>0. audit = <<>> /\ holder = {} /\ complete = {} /\ \A p \in Replicas : trig[p].pc = "idle"
  BY DEF Init
<1>1. TriggerTypeOK
  BY <1>0 DEF Init, TriggerTypeOK, Run, TriggerSteps, NULL
<1> QED BY <1>0, <1>1 DEF TriggerInv, JobInv, OwnJobInv, UnhandledInv, OneCompletedRun, Running

(* What a step of one replica owes the invariant when it leaves the audit  *)
(* log alone.                                                              *)
LEMMA OneRunMoves ==
    ASSUME TriggerInv, NEW p \in Replicas, NEW r \in Run,
           trig' = [trig EXCEPT ![p] = r],
           audit' = audit, complete' = complete,
           holder' \in {holder, holder \ {p}} \/ (holder = {} /\ holder' = {p} /\ r.pc = "recheck"),
           r.pc \in Running => /\ trig[p].pc \in Running
                               /\ r.job = trig[p].job /\ r.version = trig[p].version,
           r.pc = "start" =>
              /\ r.version \in Versions
              /\ \A j \in 1..Len(audit) : ~(audit[j].version = r.version /\ audit[j].action = "handled")
    PROVE  TriggerInv'
PROOF
<1>t. TriggerTypeOK /\ JobInv /\ OwnJobInv /\ UnhandledInv /\ OneCompletedRun
  BY DEF TriggerInv
<1>1. TriggerTypeOK'
  BY <1>t DEF TriggerTypeOK
<1>2. \A q \in Replicas : trig'[q] = IF q = p THEN r ELSE trig[q]
  BY <1>t DEF TriggerTypeOK
<1>3. JobInv' /\ OwnJobInv'
  BY <1>2, <1>t DEF JobInv, OwnJobInv
<1>4. UnhandledInv'
  BY <1>2, <1>t DEF UnhandledInv, Running
<1>5. OneCompletedRun'
  BY <1>t DEF OneCompletedRun
<1> QED BY <1>1, <1>3, <1>4, <1>5 DEF TriggerInv

(* What a step owes it that rewrites the entry of its run.                 *)
LEMMA OneEntryMoves ==
    ASSUME TriggerInv, NEW p \in Replicas, NEW r \in Run, NEW e \in Row,
           trig[p].pc \in Running,
           trig' = [trig EXCEPT ![p] = r],
           audit' = [audit EXCEPT ![trig[p].job] = e],
           complete' = complete, holder' = holder,
           e.version = trig[p].version,
           \/ e.action # "handled"
           \/ e.action = "handled" /\ p \in holder /\ r.pc = "unlock",
           r.pc \in Running => r.job = trig[p].job /\ r.version = trig[p].version,
           r.pc # "start"
    PROVE  TriggerInv'
PROOF
<1>t. TriggerTypeOK /\ JobInv /\ OwnJobInv /\ UnhandledInv /\ OneCompletedRun
  BY DEF TriggerInv
<1> DEFINE job == trig[p].job
<1>a. job \in 1..Len(audit) /\ audit \in Seq(Row)
  BY <1>t DEF JobInv, TriggerTypeOK
<1>1. /\ audit' \in Seq(Row) /\ Len(audit') = Len(audit)
      /\ \A j \in 1..Len(audit) : audit'[j] = IF j = job THEN e ELSE audit[j]
  BY <1>a, ExceptSeq
<1>2. TriggerTypeOK'
  BY <1>1, <1>t DEF TriggerTypeOK
<1>3. \A q \in Replicas : trig'[q] = IF q = p THEN r ELSE trig[q]
  BY <1>t DEF TriggerTypeOK
<1> HIDE DEF job
<1>4. OwnJobInv'
  BY <1>3, <1>t DEF OwnJobInv
<1>5. JobInv'
  <2> SUFFICES ASSUME NEW q \in Replicas, trig'[q].pc \in Running
               PROVE  /\ trig'[q].job \in 1..Len(audit')
                      /\ audit'[trig'[q].job].version = trig'[q].version
                      /\ audit'[trig'[q].job].action # "handled"
    BY DEF JobInv
  <2>1. CASE q = p
    BY <2>1, <1>1, <1>3, <1>a DEF job, Running
  <2>2. CASE q # p
    BY <2>2, <1>1, <1>3, <1>t DEF job, JobInv, OwnJobInv
  <2> QED BY <2>1, <2>2
<1>6. UnhandledInv'
  <2> SUFFICES ASSUME NEW q \in Replicas, q \in holder, trig'[q].pc \in Running \cup {"start"}
               PROVE  /\ trig'[q].version \in Versions
                      /\ \A j \in 1..Len(audit') :
                            ~(audit'[j].version = trig'[q].version /\ audit'[j].action = "handled")
    BY DEF UnhandledInv
  <2>1. e.action # "handled"
    BY <1>3, <1>t DEF TriggerTypeOK, Running
  <2>2. trig[q].pc \in Running \cup {"start"} /\ trig'[q].version = trig[q].version
    BY <1>3
  <2> QED BY <2>1, <2>2, <1>1, <1>t DEF UnhandledInv
<1>7. OneCompletedRun'
  <2>0. DOMAIN audit = 1..Len(audit) /\ DOMAIN audit' = 1..Len(audit)
    BY <1>1, <1>a
  <2>1. CASE e.action # "handled"
    BY <2>0, <2>1, <1>1, <1>t DEF OneCompletedRun
  <2>2. CASE e.action = "handled" /\ p \in holder
    <3>1. \A j \in 1..Len(audit) : ~(audit[j].version = trig[p].version /\ audit[j].action = "handled")
      BY <2>2, <1>t DEF UnhandledInv
    <3> QED BY <3>1, <2>0, <1>1, <1>t DEF OneCompletedRun
  <2> QED BY <2>1, <2>2
<1> QED BY <1>2, <1>4, <1>5, <1>6, <1>7 DEF TriggerInv

(* A new entry is nobody else's and is not the marker.                     *)
LEMMA InsertStartedInv ==
    ASSUME TriggerInv, NEW p \in Replicas, InsertStarted(p)
    PROVE  TriggerInv'
PROOF
<1>t. TriggerTypeOK /\ JobInv /\ OwnJobInv /\ UnhandledInv /\ OneCompletedRun
  BY DEF TriggerInv
<1> DEFINE e == Entry(trig[p].version)
           n == Len(audit)
<1>0. /\ trig[p].pc = "start" /\ p \in holder
      /\ holder' = holder /\ complete' = complete
      /\ audit' = Append(audit, e)
  BY DEF InsertStarted, LockSession
<1>a. audit \in Seq(Row) /\ n \in Nat /\ DOMAIN audit = 1..n
  BY <1>t DEF TriggerTypeOK
<1>b. e \in Row /\ e.version = trig[p].version /\ e.action = "started"
  BY <1>0, <1>t DEF UnhandledInv, Entry, Row, NULL
<1>1. /\ audit' \in Seq(Row) /\ Len(audit') = n + 1 /\ DOMAIN audit' = 1..(n + 1)
      /\ audit'[n + 1] = e
      /\ \A j \in 1..n : audit'[j] = audit[j]
  BY <1>0, <1>a, <1>b
<1>2. \A q \in Replicas : q # p => trig'[q] = trig[q]
  BY <1>t DEF TriggerTypeOK, InsertStarted
<1> DEFINE r == [trig[p] EXCEPT !.pc = "run", !.job = n + 1]
<1>r. trig \in [Replicas -> Run] /\ trig[p] \in Run  BY <1>t DEF TriggerTypeOK
<1>c. r \in Run /\ r.pc = "run" /\ r.job = n + 1 /\ r.version = trig[p].version
  <2> HIDE DEF n
  <2>1. n + 1 \in Nat /\ "run" \in TriggerSteps  BY <1>a DEF TriggerSteps
  <2> QED BY <2>1, <1>r DEF Run
<1>d. trig' = [trig EXCEPT ![p] = r]  BY <1>r DEF InsertStarted
<1> HIDE DEF r
<1>3. trig'[p] \in Run /\ trig'[p].pc = "run" /\ trig'[p].job = n + 1
      /\ trig'[p].version = trig[p].version
  BY <1>c, <1>d, <1>r
<1>4. trig' \in [Replicas -> Run]
  BY <1>c, <1>d, <1>r
<1> HIDE DEF e, n
<1>5. TriggerTypeOK'
  BY <1>0, <1>1, <1>4, <1>t DEF TriggerTypeOK
<1>6. JobInv'
  <2> SUFFICES ASSUME NEW q \in Replicas, trig'[q].pc \in Running
               PROVE  /\ trig'[q].job \in 1..Len(audit')
                      /\ audit'[trig'[q].job].version = trig'[q].version
                      /\ audit'[trig'[q].job].action # "handled"
    BY DEF JobInv
  <2>1. CASE q = p
    BY <2>1, <1>1, <1>3, <1>a, <1>b
  <2>2. CASE q # p
    BY <2>2, <1>1, <1>2, <1>a, <1>t DEF JobInv, n
  <2> QED BY <2>1, <2>2
<1>7. OwnJobInv'
  <2>1. \A q \in Replicas : q # p /\ trig[q].pc \in Running => trig[q].job # n + 1
    BY <1>a, <1>t DEF JobInv, n
  <2> QED BY <2>1, <1>2, <1>3, <1>t DEF OwnJobInv
<1>8. UnhandledInv'
  <2>1. \A q \in Replicas : q \in holder' => q = p
    BY <1>0, <1>t DEF TriggerTypeOK
  <2>2. /\ trig[p].version \in Versions
        /\ \A j \in 1..n : ~(audit[j].version = trig[p].version /\ audit[j].action = "handled")
    BY <1>0, <1>t DEF UnhandledInv, n
  <2>3. \A j \in 1..Len(audit') :
           ~(audit'[j].version = trig'[p].version /\ audit'[j].action = "handled")
    BY <2>2, <1>1, <1>3, <1>a, <1>b
  <2> QED BY <2>1, <2>2, <2>3, <1>3 DEF UnhandledInv
<1>9. OneCompletedRun'
  BY <1>1, <1>a, <1>b, <1>t DEF OneCompletedRun
<1> QED BY <1>5, <1>6, <1>7, <1>8, <1>9 DEF TriggerInv

(* The steps up to the start of a run, and the ones that end it.           *)
LEMMA AroundRunInv ==
    ASSUME TriggerInv, NEW p \in Replicas,
           \/ PreCheck(p) \/ TryLock(p) \/ ReadPending(p) \/ SessionIsGone(p)
           \/ StatementRaises(p) \/ Unlock(p) \/ Crash(p)
    PROVE  TriggerInv'
PROOF
<1>t. trig \in [Replicas -> Run] /\ trig[p] \in Run /\ audit \in Seq(Row)
  BY DEF TriggerInv, TriggerTypeOK
<1>f. Finished(p) \in Run /\ Finished(p).pc = "idle"
  BY DEF Finished, Run, TriggerSteps, NULL
<1>1. CASE PreCheck(p)
  <2> DEFINE r == [trig[p] EXCEPT !.pc = "lock"]
  <2>1. r \in Run /\ r.pc = "lock"  BY <1>t DEF Run, TriggerSteps
  <2>2. trig' = [trig EXCEPT ![p] = r] /\ UNCHANGED <<complete, audit, holder>>
    BY <1>1, <1>t DEF PreCheck, Step
  <2> HIDE DEF r
  <2> QED BY <2>1, <2>2, OneRunMoves DEF Running
<1>2. CASE TryLock(p)
  <2>1. CASE holder = {}
    <3> DEFINE r == [trig[p] EXCEPT !.pc = "recheck"]
    <3>1. r \in Run /\ r.pc = "recheck"  BY <1>t DEF Run, TriggerSteps
    <3>2. trig' = [trig EXCEPT ![p] = r] /\ holder' = {p} /\ UNCHANGED <<complete, audit>>
      BY <1>2, <2>1, <1>t DEF TryLock, Step
    <3> HIDE DEF r
    <3> QED BY <2>1, <3>1, <3>2, OneRunMoves DEF Running
  <2>2. CASE holder # {}
    <3> DEFINE r == [trig[p] EXCEPT !.pc = "idle"]
    <3>1. r \in Run /\ r.pc = "idle"  BY <1>t DEF Run, TriggerSteps
    <3>2. trig' = [trig EXCEPT ![p] = r] /\ UNCHANGED <<complete, audit, holder>>
      BY <1>2, <2>2, <1>t DEF TryLock, Step
    <3> HIDE DEF r
    <3> QED BY <3>1, <3>2, OneRunMoves DEF Running
  <2> QED BY <2>1, <2>2
<1>3. CASE ReadPending(p)
  <2>1. ASSUME NEW v \in Versions, Pending(v),
               trig' = [trig EXCEPT ![p].pc = "start", ![p].version = v],
               UNCHANGED <<complete, audit, holder>>
        PROVE TriggerInv'
    <3> DEFINE r == [trig[p] EXCEPT !.pc = "start", !.version = v]
    <3>1. r \in Run /\ r.pc = "start" /\ r.version = v  BY <1>t DEF Run, TriggerSteps
    <3>2. trig' = [trig EXCEPT ![p] = r]  BY <2>1, <1>t
    <3>3. \A j \in 1..Len(audit) : ~(audit[j].version = v /\ audit[j].action = "handled")
      BY <2>1, <1>t DEF Pending, Handled
    <3> HIDE DEF r
    <3> QED BY <2>1, <3>1, <3>2, <3>3, OneRunMoves DEF Running
  <2>2. ASSUME trig' = [trig EXCEPT ![p].pc = "unlock"], UNCHANGED <<complete, audit, holder>>
        PROVE TriggerInv'
    <3> DEFINE r == [trig[p] EXCEPT !.pc = "unlock"]
    <3>1. r \in Run /\ r.pc = "unlock"  BY <1>t DEF Run, TriggerSteps
    <3>2. trig' = [trig EXCEPT ![p] = r]  BY <2>2, <1>t
    <3> HIDE DEF r
    <3> QED BY <2>2, <3>1, <3>2, OneRunMoves DEF Running
  <2> QED BY <1>3, <2>1, <2>2 DEF ReadPending, Step
<1>4. CASE SessionIsGone(p) \/ StatementRaises(p)
  <2> DEFINE r == [trig[p] EXCEPT !.pc = "unlock"]
  <2>1. r \in Run /\ r.pc = "unlock"  BY <1>t DEF Run, TriggerSteps
  <2>2. trig' = [trig EXCEPT ![p] = r] /\ UNCHANGED <<complete, audit, holder>>
    BY <1>4, <1>t DEF SessionIsGone, StatementRaises, Step
  <2> HIDE DEF r
  <2> QED BY <2>1, <2>2, OneRunMoves DEF Running
<1>5. CASE Unlock(p) \/ Crash(p)
  <2>1. /\ trig' = [trig EXCEPT ![p] = Finished(p)]
        /\ holder' = holder \ {p} /\ UNCHANGED <<complete, audit>>
    BY <1>5 DEF Unlock, Crash
  <2> HIDE DEF Finished
  <2> QED BY <1>f, <2>1, OneRunMoves DEF Running
<1> QED BY <1>1, <1>2, <1>3, <1>4, <1>5

(* The steps of a run, with or without its lock.                           *)
LEMMA RunInv ==
    ASSUME TriggerInv, writes \in Nat, NEW p \in Replicas,
           \/ RunReturns(p) \/ RunRaises(p) \/ FinalizeFailed(p) \/ Refreshed(p)
           \/ Project(p) \/ ProjectRaises(p) \/ WriteMarker(p)
    PROVE  TriggerInv'
PROOF
<1>t. /\ trig \in [Replicas -> Run] /\ trig[p] \in Run /\ audit \in Seq(Row)
      /\ holder \in {{}} \cup {{q} : q \in Replicas}
  BY DEF TriggerInv, TriggerTypeOK
<1> DEFINE job == trig[p].job
<1>r. trig[p].pc \in Running
  BY DEF RunReturns, RunRaises, FinalizeFailed, Refreshed, Project, ProjectRaises, WriteMarker, Running
<1>j. /\ job \in 1..Len(audit) /\ job \in DOMAIN audit /\ audit[job] \in Row
      /\ audit[job].version = trig[p].version /\ audit[job].action # "handled"
  BY <1>r, <1>t DEF TriggerInv, JobInv
<1>m. \A pc \in TriggerSteps : LET r == [trig[p] EXCEPT !.pc = pc] IN
         r \in Run /\ r.pc = pc /\ r.job = trig[p].job /\ r.version = trig[p].version
  BY <1>t DEF Run
<1>h. UNCHANGED <<complete, holder>>
  BY DEF RunReturns, RunRaises, FinalizeFailed, Refreshed, Project, ProjectRaises, WriteMarker
<1>p. PICK pc \in TriggerSteps : /\ trig' = [trig EXCEPT ![p].pc = pc]
                                 /\ pc \notin {"start", "recheck"}
                                 /\ WriteMarker(p) => pc = "unlock"
  BY DEF RunReturns, RunRaises, FinalizeFailed, Refreshed, Project, ProjectRaises, WriteMarker,
         Step, TriggerSteps
<1> DEFINE r == [trig[p] EXCEPT !.pc = pc]
<1>q. /\ r \in Run /\ r.pc = pc /\ r.job = trig[p].job /\ r.version = trig[p].version
      /\ trig' = [trig EXCEPT ![p] = r]
  BY <1>m, <1>p, <1>t
<1>1. CASE audit' = audit
  <2> HIDE DEF r, job
  <2> QED BY <1>1, <1>h, <1>p, <1>q, <1>r, OneRunMoves
<1>2. ASSUME NEW e \in Row, audit' = [audit EXCEPT ![job] = e], e.version = trig[p].version,
             e.action # "handled" \/ (e.action = "handled" /\ p \in holder /\ pc = "unlock")
      PROVE  TriggerInv'
  <2> HIDE DEF r
  <2> QED BY <1>2, <1>h, <1>p, <1>q, <1>r, OneEntryMoves
<1>3. CASE RunReturns(p)
  <2> DEFINE e == [audit[job] EXCEPT !.upto = writes]
  <2>1. e \in Row /\ e.version = trig[p].version /\ e.action # "handled"
    BY <1>j DEF Row
  <2>2. audit' = [audit EXCEPT ![job] = e]  BY <1>3, <1>j, <1>t DEF RunReturns
  <2> QED BY <1>2, <2>1, <2>2
<1>4. CASE Refreshed(p)
  <2> DEFINE e == [audit[job] EXCEPT !.fresh = (refresh[Inline(p)].pc = "done")]
  <2>1. e \in Row /\ e.version = trig[p].version /\ e.action # "handled"
    BY <1>j DEF Row
  <2>2. audit' = [audit EXCEPT ![job] = e]  BY <1>4, <1>j, <1>t DEF Refreshed
  <2> QED BY <1>2, <2>1, <2>2
<1>5. CASE FinalizeFailed(p) \/ ProjectRaises(p)
  <2> DEFINE e == [audit[job] EXCEPT !.action = "failed"]
  <2>1. e \in Row /\ e.version = trig[p].version /\ e.action # "handled"
    BY <1>j DEF Row
  <2>2. audit' = audit \/ audit' = [audit EXCEPT ![job] = e]
    BY <1>5, <1>j, <1>t DEF FinalizeFailed, ProjectRaises
  <2> QED BY <1>1, <1>2, <2>1, <2>2
<1>6. CASE WriteMarker(p)
  <2> DEFINE e == [audit[job] EXCEPT !.action = "handled"]
  <2>1. e \in Row /\ e.version = trig[p].version /\ e.action = "handled"
    BY <1>j DEF Row
  <2>2. audit' = [audit EXCEPT ![job] = e] /\ p \in holder
    BY <1>6, <1>j, <1>t DEF WriteMarker, LockSession
  <2> QED BY <1>2, <1>p, <1>6, <2>1, <2>2
<1>7. CASE RunRaises(p) \/ Project(p)
  BY <1>1, <1>7 DEF RunRaises, Project
<1> QED BY <1>3, <1>4, <1>5, <1>6, <1>7

(* A step that only frees the lock, or leaves the trigger alone.           *)
LEMMA QuietInv ==
    ASSUME TriggerInv, UNCHANGED <<audit, trig>>, complete' \subseteq Versions,
           holder' = holder \/ \E p \in Replicas : holder' = holder \ {p}
    PROVE  TriggerInv'
PROOF BY DEF TriggerInv, TriggerTypeOK, JobInv, OwnJobInv, UnhandledInv, OneCompletedRun

-----------------------------------------------------------------------------
(* Both invariants, the ledger's and the trigger's.                        *)
Inv == LedgerInv /\ TriggerInv

(* Every step of the composition is a ledger step or leaves the ledger be. *)
LEMMA LedgerPart ==
    ASSUME [Next]_vars
    PROVE  AnyLedgerStep \/ UNCHANGED ledgerVars
PROOF
<1>1. CASE RefreshStep  BY <1>1 DEF AnyLedgerStep
<1>2. ASSUME NEW p \in Replicas, RunItem(p) PROVE AnyLedgerStep
  BY <1>2 DEF RunItem, AnyLedgerStep, RefreshStep
<1>3. ASSUME NEW p \in Replicas, TriggerStep(p) PROVE AnyLedgerStep \/ UNCHANGED ledgerVars
  BY <1>3 DEF TriggerStep, PreCheck, TryLock, ReadPending, InsertStarted, RunReturns, FinalizeFailed,
     Refreshed, Project, WriteMarker, SessionIsGone, Unlock, AnyLedgerStep, ledgerVars
<1>4. ASSUME NEW p \in Replicas,
             RunRaises(p) \/ ProjectRaises(p) \/ StatementRaises(p) \/ LoseConnection(p) \/ Crash(p)
      PROVE  AnyLedgerStep
  BY <1>4 DEF RunRaises, ProjectRaises, StatementRaises, LoseConnection, Crash, AnyLedgerStep, ledger
<1>5. CASE UNCHANGED vars \/ \E v \in Versions \ complete : ExtractionCompletes(v)
  BY <1>5 DEF vars, ExtractionCompletes, ledgerVars
<1> QED BY <1>1, <1>2, <1>3, <1>4, <1>5 DEF Next

(* One step of the composition keeps both.                                 *)
LEMMA StepInv == Inv /\ [Next]_vars => Inv' /\ shown' >= shown
PROOF
<1> SUFFICES ASSUME Inv, [Next]_vars PROVE Inv' /\ shown' >= shown  OBVIOUS
<1>0. LedgerInv /\ TriggerInv /\ writes \in Nat /\ complete \subseteq Versions
  BY DEF Inv, LedgerInv, LedgerTypeOK, TriggerInv, TriggerTypeOK
<1>1. LedgerInv' /\ shown' >= shown
  BY <1>0, LedgerPart, LedgerStepInv, LedgerStutterInv
<1>2. TriggerInv'
  <2>1. CASE (RefreshStep /\ Apart) \/ UNCHANGED vars
    BY <2>1, <1>0, QuietInv DEF Apart, vars
  <2>2. ASSUME NEW v \in Versions \ complete, ExtractionCompletes(v) PROVE TriggerInv'
    BY <2>2, <1>0, QuietInv DEF ExtractionCompletes
  <2>3. ASSUME NEW p \in Replicas, TriggerStep(p) PROVE TriggerInv'
    BY <2>3, <1>0, AroundRunInv, RunInv, InsertStartedInv DEF TriggerStep
  <2>4. ASSUME NEW p \in Replicas, RunRaises(p) \/ ProjectRaises(p) \/ StatementRaises(p) \/ Crash(p)
        PROVE TriggerInv'
    BY <2>4, <1>0, AroundRunInv, RunInv
  <2>5. ASSUME NEW p \in Replicas, RunItem(p) \/ LoseConnection(p) PROVE TriggerInv'
    BY <2>5, <1>0, QuietInv DEF RunItem, LoseConnection
  <2> QED BY <2>1, <2>2, <2>3, <2>4, <2>5 DEF Next
<1> QED BY <1>1, <1>2 DEF Inv

(* The invariant of the composition.                                       *)
THEOREM InvHolds == Spec => []Inv
PROOF
<1>1. Init => Inv  BY InitLedgerInv, InitTriggerInv DEF Init, Inv
<1>2. Inv /\ [Next]_vars => Inv'  BY StepInv
<1> QED BY <1>1, <1>2, PTL DEF Spec

(* The types of the state, and that each advisory lock has one holder.     *)
THEOREM TypeCorrect == Spec => []TypeOK
PROOF
<1>1. Inv => TypeOK
  BY DEF Inv, LedgerInv, TriggerInv, TriggerTypeOK, TypeOK, Row, Run
<1> QED BY <1>1, InvHolds, PTL

(* run_pending completes at most one run per extraction, on any number of  *)
(* replicas, with any crashes and lost connections.                        *)
THEOREM ExactlyOnce == Spec => []OneCompletedRun
PROOF
<1>1. Inv => OneCompletedRun  BY DEF Inv, TriggerInv
<1> QED BY <1>1, InvHolds, PTL

-----------------------------------------------------------------------------
(* What a handled run shows.                                               *)

(* The steps of a run before its inline refresh has returned.              *)
Unrefreshed == {"run", "finalize", "refresh", "refresh_failed"}

(* The position in the writes that replica p's run reported, if any.       *)
Upto(p) == audit[trig[p].job].upto

(* An inline refresh belongs to the run that began it: it reads the        *)
(* sources after the run returned, so that what it commits shows the run.  *)
InlineShows(p) ==
    /\ trig[p].pc \notin {"refresh", "refresh_failed"} => refresh[Inline(p)].pc = "idle"
    /\ trig[p].pc \in Unrefreshed => ~audit[trig[p].job].fresh
    /\ trig[p].pc \in {"run", "finalize", "refresh_failed"} => Upto(p) = NULL
    /\ trig[p].pc \in {"refresh", "refresh_failed"} =>
          /\ Upto(p) <= writes
          /\ refresh[Inline(p)].pc = "commit" => Upto(p) <= refresh[Inline(p)].reads
          /\ refresh[Inline(p)].pc = "done" => Upto(p) <= shown

(* An entry marked fresh is shown, whatever became of its run.             *)
FreshIsShown == \A j \in 1..Len(audit) : audit[j].fresh => audit[j].upto <= shown

ShownInv == FreshIsShown /\ \A p \in Replicas : InlineShows(p)

(* Nothing is in the log before the first run.                             *)
LEMMA InitShownInv == Init => ShownInv
<1> SUFFICES ASSUME Init
             PROVE  ShownInv
    OBVIOUS
<1>1. \A p \in Replicas : refresh[Inline(p)].pc = "idle"
    BY TransactionKinds DEF Init, LedgerInit, NoTxn, TxnAt
<1>2. \A p \in Replicas : trig[p].pc = "idle"
    BY DEF Init
<1>3. FreshIsShown
    BY DEF Init, FreshIsShown
<1> QED
    BY <1>1, <1>2, <1>3 DEF ShownInv, InlineShows, Unrefreshed

(* The run's entry has its type, and the numbers compared are integers.    *)
LEMMA RunNumbers ==
    ASSUME Inv
    PROVE  /\ writes \in Nat /\ shown \in Int
           /\ \A p \in Replicas : refresh[Inline(p)].reads \in Int
           /\ \A j \in 1..Len(audit) : audit[j] \in Row /\ audit[j].upto \in Int
           /\ \A p \in Replicas : trig[p].pc \in Running =>
                 trig[p].job \in 1..Len(audit) /\ Upto(p) \in Int
<1>1. /\ writes \in Nat /\ shown \in Int
      /\ \A p \in Replicas : refresh[Inline(p)].reads \in Int
    BY TransactionKinds DEF Inv, LedgerInv, LedgerTypeOK, NULL
<1>2. \A j \in 1..Len(audit) : audit[j] \in Row
    BY ElementOfSeq DEF Inv, TriggerInv, TriggerTypeOK
<1>3. \A j \in 1..Len(audit) : audit[j].upto \in Int
    BY <1>2 DEF Row, NULL
<1>4. \A p \in Replicas : trig[p].pc \in Running => trig[p].job \in 1..Len(audit)
    BY DEF Inv, TriggerInv, JobInv
<1> QED
    BY <1>1, <1>2, <1>3, <1>4 DEF Upto

(* A step of the refreshes moves an inline refresh along: it reads what is *)
(* written by then, and it is done once the views show what it read.       *)
LEMMA InlineMoves ==
    ASSUME LedgerInv, RefreshStep, NEW p \in Replicas
    PROVE  LET t == Inline(p) IN
           /\ writes' >= writes
           /\ refresh[t].pc = "idle" => refresh'[t].pc = "idle"
           /\ refresh'[t].pc = "commit" =>
                 \/ refresh'[t].reads = writes
                 \/ refresh[t].pc = "commit" /\ refresh'[t].reads = refresh[t].reads
           /\ refresh'[t].pc = "done" =>
                 \/ refresh[t].pc = "done"
                 \/ refresh[t].pc = "commit" /\ shown' = refresh[t].reads
<1> PICK t : t = Inline(p)
    OBVIOUS
<1> PICK moved : moved = (/\ writes' >= writes
                          /\ refresh[t].pc = "idle" => refresh'[t].pc = "idle"
                          /\ refresh'[t].pc = "commit" =>
                                \/ refresh'[t].reads = writes
                                \/ refresh[t].pc = "commit" /\ refresh'[t].reads = refresh[t].reads
                          /\ refresh'[t].pc = "done" =>
                                \/ refresh[t].pc = "done"
                                \/ refresh[t].pc = "commit" /\ shown' = refresh[t].reads)
    OBVIOUS
<1> SUFFICES moved
    OBVIOUS
<1>t. t \in Transactions /\ writes \in Nat /\ refresh \in [Transactions -> Txn] /\ refresh[t] \in Txn
    BY TransactionKinds DEF LedgerInv, LedgerTypeOK, Txn
<1>1. ASSUME writes' >= writes, refresh'[t] = refresh[t]
      PROVE  moved
    BY <1>1
<1>2. CASE Write \/ Count \/ StatsReset
    BY <1>1, <1>2, <1>t DEF Write, Count, StatsReset
<1>3. ASSUME NEW q \in Replicas, Observe(q) \/ PollDecide(q) \/ PollTryLock(q) \/ PollRecheck(q)
      PROVE  moved
  <2>1. Poll(q) # t
      BY DEF Poll, Inline
  <2>2. writes' = writes /\ refresh'[t] = refresh[t]
      BY <1>3, <1>t, <2>1 DEF Observe, PollObserve, PollDecide, PollTryLock, PollRecheck,
         Goto, Ended, RefreshWith, sources
  <2> QED
      BY <1>1, <1>t, <2>2
<1>4. ASSUME NEW q \in Replicas, InlineLock(q) \/ InlineWatermark(q)
      PROVE  moved
  <2>1. CASE Inline(q) # t
    <3>1. writes' = writes /\ refresh'[t] = refresh[t]
        BY <1>4, <1>t, <2>1 DEF InlineLock, InlineWatermark, Goto, RefreshWith, sources
    <3> QED
        BY <1>1, <1>t, <3>1
  <2>2. CASE Inline(q) = t
    <3>1. writes' = writes /\ refresh'[t].pc \in {"watermark", "refresh"} /\ refresh[t].pc # "idle"
        BY <1>4, <1>t, <2>2 DEF InlineLock, InlineWatermark, Goto, RefreshWith, sources, TxnAt, Txn
    <3> QED
        BY <1>t, <3>1
  <2> QED
      BY <2>1, <2>2
<1>5. ASSUME NEW u \in Transactions, ReadSources(u)
      PROVE  moved
  <2>1. CASE u # t
    <3>1. writes' = writes /\ refresh'[t] = refresh[t]
        BY <1>5, <1>t, <2>1 DEF ReadSources, sources
    <3> QED
        BY <1>1, <1>t, <3>1
  <2>2. CASE u = t
    <3>1. refresh' = [refresh EXCEPT ![t] = [refresh[t] EXCEPT !.pc = "commit", !.reads = writes]]
        BY <1>5, <1>t, <2>2 DEF ReadSources
    <3>2. /\ writes' = writes /\ refresh[t].pc = "refresh" /\ refresh'[t].pc = "commit"
          /\ refresh'[t].reads = writes
        BY <1>5, <1>t, <2>2, <3>1 DEF ReadSources, sources, Txn
    <3> QED
        BY <1>t, <3>2
  <2> QED
      BY <2>1, <2>2
<1>6. ASSUME NEW u \in Transactions, Commit(u)
      PROVE  moved
  <2>0. writes' = writes
      BY <1>6 DEF Commit, sources
  <2>1. CASE u # t
    <3>1. refresh'[t] = [refresh[t] EXCEPT !.old = FALSE]
        BY <1>6, <1>t, <2>1 DEF Commit
    <3>2. refresh'[t].pc = refresh[t].pc /\ refresh'[t].reads = refresh[t].reads
        BY <1>t, <3>1 DEF Txn
    <3> QED
        BY <1>t, <2>0, <3>2
  <2>2. CASE u = t
    <3>1. /\ refresh[t].pc = "commit" /\ shown' = refresh[t].reads
          /\ refresh'[t].pc \in {"done", "idle"}
        BY <1>6, <1>t, <2>2 DEF Commit, TxnAt
    <3> QED
        BY <1>t, <2>0, <3>1
  <2> QED
      BY <2>1, <2>2
<1>7. ASSUME NEW u \in Transactions, RefreshFails(u)
      PROVE  moved
  <2>1. CASE u # t
    <3>1. writes' = writes /\ refresh'[t] = refresh[t]
        BY <1>7, <1>t, <2>1 DEF RefreshFails, sources
    <3> QED
        BY <1>1, <1>t, <3>1
  <2>2. CASE u = t
    <3>1. writes' = writes /\ refresh[t].pc # "idle" /\ refresh'[t].pc \in {"failed", "idle"}
        BY <1>7, <1>t, <2>2 DEF RefreshFails, sources, TxnAt
    <3> QED
        BY <1>t, <3>1
  <2> QED
      BY <2>1, <2>2
<1> QED
    BY <1>2, <1>3, <1>4, <1>5, <1>6, <1>7, TransactionKinds DEF RefreshStep, PollStep, InlineStep

(* A step that leaves the runs alone.                                      *)
LEMMA ShownApart ==
    ASSUME Inv, ShownInv, UNCHANGED <<audit, trig>>, shown' \in Int, shown' >= shown,
           RefreshStep \/ UNCHANGED ledgerVars \/ UNCHANGED <<sources, views, refresh>>
    PROVE  ShownInv'
<1>0. /\ writes \in Nat /\ shown \in Int
      /\ \A j \in 1..Len(audit) : audit[j].upto \in Int
      /\ \A p \in Replicas : trig[p].pc \in Running =>
            trig[p].job \in 1..Len(audit) /\ Upto(p) \in Int
    BY RunNumbers
<1>1. FreshIsShown'
    BY <1>0 DEF ShownInv, FreshIsShown
<1>2. ASSUME NEW p \in Replicas
      PROVE  InlineShows(p)'
  <2>1. InlineShows(p)
      BY DEF ShownInv
  <2>2. Upto(p)' = Upto(p) /\ trig'[p] = trig[p] /\ audit' = audit
      BY DEF Upto
  <2>3. CASE RefreshStep
    <3> PICK t : t = Inline(p)
        OBVIOUS
    <3>0. Inline(p)' = Inline(p)
        BY DEF Inline
    <3>1. /\ writes' >= writes
          /\ refresh[t].pc = "idle" => refresh'[t].pc = "idle"
          /\ refresh'[t].pc = "commit" =>
                \/ refresh'[t].reads = writes
                \/ refresh[t].pc = "commit" /\ refresh'[t].reads = refresh[t].reads
          /\ refresh'[t].pc = "done" =>
                \/ refresh[t].pc = "done"
                \/ refresh[t].pc = "commit" /\ shown' = refresh[t].reads
        BY <2>3, InlineMoves DEF Inv
    <3>2. writes' \in Int
        BY <2>3, <1>0, LedgerStepInv DEF AnyLedgerStep, Inv, LedgerInv, LedgerTypeOK
    <3>3. CASE trig[p].pc \in {"refresh", "refresh_failed"}
      <4>1. Upto(p) \in Int
          BY <1>0, <3>3 DEF Running
      <4> QED
          BY <1>0, <2>1, <2>2, <3>0, <3>1, <3>2, <3>3, <4>1 DEF InlineShows
    <3>4. CASE trig[p].pc \notin {"refresh", "refresh_failed"}
        BY <2>1, <2>2, <3>0, <3>1, <3>4 DEF InlineShows
    <3> QED
        BY <3>3, <3>4
  <2>4. CASE UNCHANGED ledgerVars \/ UNCHANGED <<sources, views, refresh>>
    <3>1. writes' = writes /\ shown' = shown /\ refresh' = refresh
        BY <2>4 DEF ledgerVars, ledger, sources, views
    <3>2. Inline(p)' = Inline(p)
        BY DEF Inline
    <3> QED
        BY <2>1, <2>2, <3>1, <3>2 DEF InlineShows
  <2> QED
      BY <2>3, <2>4
<1> QED
    BY <1>1, <1>2 DEF ShownInv

(* What a step of p's run owes the others.                                 *)
LEMMA ShownOthers ==
    ASSUME Inv, ShownInv, NEW p \in Replicas, NEW q \in Replicas, q # p,
           writes' = writes, shown' = shown,
           trig'[q] = trig[q],
           refresh'[Inline(q)] = refresh[Inline(q)],
           trig[q].pc \in Unrefreshed => audit'[trig[q].job] = audit[trig[q].job]
    PROVE  InlineShows(q)'
<1>1. InlineShows(q)
    BY DEF ShownInv
<1>2. Inline(q)' = Inline(q)
    BY DEF Inline
<1> QED
    BY <1>1, <1>2 DEF InlineShows, Upto, Unrefreshed

(* A step of p's run that does not touch the log or the refreshes.         *)
LEMMA ShownMoves ==
    ASSUME Inv, ShownInv, NEW p \in Replicas, NEW r,
           trig' = [trig EXCEPT ![p] = r], audit' = audit,
           writes' = writes, shown' = shown,
           \A q \in Replicas : q # p => refresh'[Inline(q)] = refresh[Inline(q)],
           r.pc \notin {"run", "refresh", "refresh_failed"},
           r.pc = "finalize" => trig[p].pc = "run" /\ r.job = trig[p].job,
           refresh'[Inline(p)].pc = "idle"
    PROVE  ShownInv'
<1>0. trig \in [Replicas -> Run]
    BY DEF Inv, TriggerInv, TriggerTypeOK
<1>1. \A q \in Replicas : trig'[q] = IF q = p THEN r ELSE trig[q]
    BY <1>0
<1>2. FreshIsShown'
    BY DEF ShownInv, FreshIsShown
<1>3. ASSUME NEW q \in Replicas
      PROVE  InlineShows(q)'
  <2>1. CASE q # p
      BY <1>1, <2>1, ShownOthers
  <2>2. CASE q = p
    <3>1. InlineShows(p)
        BY DEF ShownInv
    <3>2. Inline(p)' = Inline(p)
        BY DEF Inline
    <3> QED
        BY <1>1, <2>2, <3>1, <3>2 DEF InlineShows, Upto, Unrefreshed
  <2> QED
      BY <2>1, <2>2
<1> QED
    BY <1>2, <1>3 DEF ShownInv

(* A step of p's run that rewrites its entry.                              *)
LEMMA ShownEntry ==
    ASSUME Inv, ShownInv, NEW p \in Replicas, NEW r \in Run, NEW e \in Row,
           trig[p].pc \in Running,
           trig' = [trig EXCEPT ![p] = r],
           audit' = [audit EXCEPT ![trig[p].job] = e],
           writes' = writes, shown' = shown,
           \A q \in Replicas : q # p => refresh'[Inline(q)] = refresh[Inline(q)],
           e.fresh => e.upto <= shown,
           r.job = trig[p].job,
           r.pc \notin {"refresh", "refresh_failed"} => refresh'[Inline(p)].pc = "idle",
           r.pc \in Unrefreshed => ~e.fresh,
           r.pc \in {"run", "finalize", "refresh_failed"} => e.upto = NULL,
           r.pc \in {"refresh", "refresh_failed"} =>
              e.upto <= writes /\ refresh'[Inline(p)].pc = "wait"
    PROVE  ShownInv'
<1>0. /\ trig \in [Replicas -> Run] /\ audit \in Seq(Row) /\ JobInv /\ OwnJobInv
    BY DEF Inv, TriggerInv, TriggerTypeOK
<1> PICK job : job = trig[p].job
    OBVIOUS
<1>1. job \in 1..Len(audit) /\ job \in DOMAIN audit /\ DOMAIN audit = 1..Len(audit)
    BY <1>0 DEF JobInv
<1>2. \A q \in Replicas : trig'[q] = IF q = p THEN r ELSE trig[q]
    BY <1>0
<1>3. /\ Len(audit') = Len(audit)
      /\ \A j \in 1..Len(audit) : audit'[j] = IF j = job THEN e ELSE audit[j]
    BY <1>0, <1>1
<1>4. FreshIsShown'
    BY <1>3 DEF ShownInv, FreshIsShown
<1>5. ASSUME NEW q \in Replicas
      PROVE  InlineShows(q)'
  <2>1. CASE q # p
    <3>1. trig[q].pc \in Unrefreshed => trig[q].job \in 1..Len(audit) /\ trig[q].job # job
        BY <1>0, <2>1 DEF JobInv, OwnJobInv, Unrefreshed, Running
    <3>2. trig[q].pc \in Unrefreshed => audit'[trig[q].job] = audit[trig[q].job]
        BY <1>3, <3>1
    <3> QED
        BY <1>2, <2>1, <3>2, ShownOthers
  <2>2. CASE q = p
    <3>1. trig'[p] = r /\ audit'[r.job] = e
        BY <1>1, <1>2, <1>3
    <3>2. Inline(p)' = Inline(p)
        BY DEF Inline
    <3> QED
        BY <2>2, <3>1, <3>2 DEF InlineShows, Upto
  <2> QED
      BY <2>1, <2>2
<1> QED
    BY <1>4, <1>5 DEF ShownInv

(* A new entry shows nothing yet.                                          *)
LEMMA ShownInsert ==
    ASSUME Inv, ShownInv, NEW p \in Replicas, InsertStarted(p)
    PROVE  ShownInv'
<1>0. /\ trig \in [Replicas -> Run] /\ audit \in Seq(Row) /\ JobInv /\ UnhandledInv
      /\ trig[p].pc = "start" /\ p \in holder
    BY DEF Inv, TriggerInv, TriggerTypeOK, InsertStarted, LockSession
<1> PICK n : n = Len(audit)
    OBVIOUS
<1> PICK e : e = Entry(trig[p].version)
    OBVIOUS
<1>a. n \in Nat /\ e \in Row /\ ~e.fresh /\ e.upto = NULL
    BY <1>0 DEF Entry, UnhandledInv, Row, NULL, Running
<1>1. /\ Len(audit') = n + 1 /\ audit'[n + 1] = e
      /\ \A j \in 1..n : audit'[j] = audit[j]
    BY <1>0, <1>a DEF InsertStarted
<1>2. writes' = writes /\ shown' = shown /\ refresh' = refresh
    BY DEF InsertStarted, ledgerVars, ledger, sources, views
<1>3. \A q \in Replicas : q # p => trig'[q] = trig[q]
    BY <1>0 DEF InsertStarted
<1>4. trig'[p].pc = "run" /\ trig'[p].job = n + 1
  <2>1. trig[p] \in Run
      BY <1>0
  <2>2. trig' = [trig EXCEPT ![p] = [trig[p] EXCEPT !.pc = "run", !.job = n + 1]]
      BY <1>0 DEF InsertStarted
  <2>3. trig'[p] = [trig[p] EXCEPT !.pc = "run", !.job = n + 1]
      BY <1>0, <2>2
  <2> QED
      BY <2>1, <2>3 DEF Run
<1>5. FreshIsShown'
    BY <1>1, <1>2, <1>a DEF ShownInv, FreshIsShown
<1>6. ASSUME NEW q \in Replicas
      PROVE  InlineShows(q)'
  <2>1. CASE q # p
    <3>1. trig[q].pc \in Unrefreshed => trig[q].job \in 1..n
        BY <1>0 DEF JobInv, Unrefreshed, Running
    <3> QED
        BY <1>1, <1>2, <1>3, <2>1, <3>1, ShownOthers
  <2>2. CASE q = p
    <3>1. refresh[Inline(p)].pc = "idle"
        BY <1>0 DEF ShownInv, InlineShows
    <3>2. Inline(p)' = Inline(p)
        BY DEF Inline
    <3> QED
        BY <1>1, <1>2, <1>4, <1>a, <2>2, <3>1, <3>2 DEF InlineShows, Upto
  <2> QED
      BY <2>1, <2>2
<1> QED
    BY <1>5, <1>6 DEF ShownInv

(* The steps of a run around its entry, and the crash that ends it.        *)
LEMMA ShownAround ==
    ASSUME Inv, ShownInv, NEW p \in Replicas,
           \/ PreCheck(p) \/ TryLock(p) \/ ReadPending(p) \/ SessionIsGone(p)
           \/ StatementRaises(p) \/ Unlock(p) \/ RunRaises(p) \/ Project(p) \/ Crash(p)
    PROVE  ShownInv'
<1>0. trig \in [Replicas -> Run] /\ trig[p] \in Run
    BY DEF Inv, TriggerInv, TriggerTypeOK
<1>1. PICK r : /\ trig' = [trig EXCEPT ![p] = r]
               /\ r.pc \notin {"run", "refresh", "refresh_failed"}
               /\ r.pc = "finalize" => trig[p].pc = "run" /\ r.job = trig[p].job
  <2>1. ASSUME NEW pc, pc \notin {"run", "refresh", "refresh_failed"},
               pc = "finalize" => trig[p].pc = "run",
               trig' = [trig EXCEPT ![p].pc = pc]
        PROVE  \E r : /\ trig' = [trig EXCEPT ![p] = r]
                      /\ r.pc \notin {"run", "refresh", "refresh_failed"}
                      /\ r.pc = "finalize" => trig[p].pc = "run" /\ r.job = trig[p].job
    <3>1. PICK r : r = [trig[p] EXCEPT !.pc = pc]
        OBVIOUS
    <3>2. r.pc = pc /\ r.job = trig[p].job
        BY <1>0, <3>1 DEF Run
    <3>3. trig' = [trig EXCEPT ![p] = r]
        BY <1>0, <2>1, <3>1
    <3> QED
        BY <2>1, <3>2, <3>3
  <2>2. ASSUME NEW v, trig' = [trig EXCEPT ![p].pc = "start", ![p].version = v]
        PROVE  \E r : /\ trig' = [trig EXCEPT ![p] = r]
                      /\ r.pc \notin {"run", "refresh", "refresh_failed"}
                      /\ r.pc = "finalize" => trig[p].pc = "run" /\ r.job = trig[p].job
    <3>1. PICK r : r = [trig[p] EXCEPT !.pc = "start", !.version = v]
        OBVIOUS
    <3>2. r.pc = "start"
        BY <1>0, <3>1 DEF Run
    <3>3. trig' = [trig EXCEPT ![p] = r]
        BY <1>0, <2>2, <3>1
    <3> QED
        BY <3>2, <3>3
  <2>3. CASE Unlock(p) \/ Crash(p)
    <3>1. trig' = [trig EXCEPT ![p] = Finished(p)] /\ Finished(p).pc = "idle"
        BY <2>3 DEF Unlock, Crash, Finished
    <3> QED
        BY <3>1
  <2>4. CASE PreCheck(p)
    <3>1. trig' = [trig EXCEPT ![p].pc = "lock"]
        BY <2>4 DEF PreCheck, Step
    <3>2. "lock" \notin {"run", "refresh", "refresh_failed", "finalize"}
        OBVIOUS
    <3> QED
        BY <2>1, <3>1, <3>2, Zenon
  <2>5. CASE TryLock(p)
      BY <2>1, <2>5 DEF TryLock, Step
  <2>6. CASE ReadPending(p)
      BY <2>1, <2>2, <2>6 DEF ReadPending, Step
  <2>7. CASE SessionIsGone(p) \/ StatementRaises(p)
      BY <2>1, <2>7 DEF SessionIsGone, StatementRaises, Step
  <2>8. CASE RunRaises(p)
      BY <2>1, <2>8 DEF RunRaises, Step
  <2>9. CASE Project(p)
    <3>1. trig' = [trig EXCEPT ![p].pc = "mark"]
        BY <2>9 DEF Project, Step
    <3>2. "mark" \notin {"run", "refresh", "refresh_failed", "finalize"}
        OBVIOUS
    <3> QED
        BY <2>1, <3>1, <3>2, Zenon
  <2> QED
      BY <2>3, <2>4, <2>5, <2>6, <2>7, <2>8, <2>9
<1>2. audit' = audit /\ writes' = writes /\ shown' = shown
    BY DEF PreCheck, TryLock, ReadPending, SessionIsGone, StatementRaises, Unlock, RunRaises,
       Project, Crash, LedgerCrash, ledgerVars, ledger, sources, views
<1>3. CASE Crash(p)
  <2>0. refresh \in [Transactions -> Txn] /\ Inline(p) \in Transactions /\ Poll(p) \in Transactions
      BY TransactionKinds DEF Inv, LedgerInv, LedgerTypeOK, Txn
  <2>1. refresh' = [refresh EXCEPT ![Poll(p)] = NoTxn, ![Inline(p)] = NoTxn]
      BY <1>3 DEF Crash, LedgerCrash
  <2>2. refresh'[Inline(p)].pc = "idle"
      BY <2>0, <2>1 DEF NoTxn, TxnAt
  <2>3. ASSUME NEW q \in Replicas, q # p
        PROVE  refresh'[Inline(q)] = refresh[Inline(q)]
    <3>1. Inline(q) # Inline(p) /\ Inline(q) # Poll(p) /\ Inline(q) \in Transactions
        BY <2>3, TransactionKinds DEF Inline, Poll
    <3> QED
        BY <2>0, <2>1, <3>1
  <2> QED
      BY <1>1, <1>2, <2>2, <2>3, ShownMoves
<1>4. CASE ~Crash(p)
  <2>1. refresh' = refresh /\ trig[p].pc \notin {"refresh", "refresh_failed"}
      BY <1>4 DEF PreCheck, TryLock, ReadPending, SessionIsGone, StatementRaises, Unlock,
         RunRaises, Project, ledgerVars, ledger
  <2>2. refresh'[Inline(p)].pc = "idle"
      BY <2>1 DEF ShownInv, InlineShows
  <2> QED
      BY <1>1, <1>2, <2>1, <2>2, ShownMoves
<1> QED
    BY <1>3, <1>4

(* The steps of a run that rewrite its entry.  The entry is fresh only     *)
(* when the inline refresh is done, and then the views show the run.       *)
LEMMA ShownRun ==
    ASSUME Inv, ShownInv, NEW p \in Replicas,
           \/ RunReturns(p) \/ FinalizeFailed(p) \/ Refreshed(p) \/ ProjectRaises(p)
           \/ WriteMarker(p)
    PROVE  ShownInv'
<1> PICK job : job = trig[p].job
    OBVIOUS
<1>0. /\ trig \in [Replicas -> Run] /\ trig[p] \in Run /\ audit \in Seq(Row)
      /\ trig[p].pc \in Running
      /\ refresh \in [Transactions -> Txn] /\ Inline(p) \in Transactions
    BY TransactionKinds DEF Inv, TriggerInv, TriggerTypeOK, LedgerInv, LedgerTypeOK, Txn, Running,
       RunReturns, FinalizeFailed, Refreshed, ProjectRaises, WriteMarker
<1>1. /\ job \in 1..Len(audit) /\ job \in DOMAIN audit /\ audit[job] \in Row
      /\ writes \in Nat /\ shown \in Int /\ audit[job].upto \in Int
    BY <1>0, RunNumbers DEF Inv, TriggerInv, JobInv
<1>2. InlineShows(p) /\ FreshIsShown
    BY DEF ShownInv
<1>3. writes' = writes /\ shown' = shown
    BY DEF RunReturns, FinalizeFailed, Refreshed, ProjectRaises, WriteMarker, InlineBegin,
       InlineReturn, ledgerVars, ledger, sources, views
<1>4. ASSUME NEW pc \in TriggerSteps
      PROVE  LET r == [trig[p] EXCEPT !.pc = pc] IN
             r \in Run /\ r.pc = pc /\ r.job = trig[p].job
    BY <1>0 DEF Run
<1>5. ASSUME NEW pc \in TriggerSteps, trig' = [trig EXCEPT ![p].pc = pc]
      PROVE  trig' = [trig EXCEPT ![p] = [trig[p] EXCEPT !.pc = pc]]
    BY <1>0, <1>5
<1>6. \A q \in Replicas : q # p => refresh'[Inline(q)] = refresh[Inline(q)]
  <2>1. \A q \in Replicas : q # p => Inline(q) # Inline(p) /\ Inline(q) \in Transactions
      BY TransactionKinds DEF Inline
  <2>2. refresh' = refresh \/ \E x : refresh' = [refresh EXCEPT ![Inline(p)] = x]
    <3>1. CASE InlineBegin(p)
      <4>1. refresh' = [refresh EXCEPT ![Inline(p)] = [refresh[Inline(p)] EXCEPT !.pc = "wait"]]
          BY <1>0, <3>1 DEF InlineBegin, Goto
      <4> QED
          BY <4>1
    <3>2. CASE InlineReturn(p)
      <4>1. refresh' = [refresh EXCEPT ![Inline(p)] = NoTxn]
          BY <3>2 DEF InlineReturn, Ended
      <4> QED
          BY <4>1
    <3>3. CASE UNCHANGED refresh
        BY <3>3
    <3> QED
        BY <3>1, <3>2, <3>3 DEF RunReturns, FinalizeFailed, Refreshed, ProjectRaises, WriteMarker,
           ledgerVars, ledger
  <2> QED
      BY <1>0, <2>1, <2>2
<1>7. InlineBegin(p) => refresh'[Inline(p)].pc = "wait"
    BY <1>0 DEF InlineBegin, Goto, Txn
<1>8. ASSUME NEW pc \in TriggerSteps, NEW e \in Row,
             trig' = [trig EXCEPT ![p].pc = pc],
             audit' = [audit EXCEPT ![job] = e],
             e.fresh => e.upto <= shown,
             pc \notin {"refresh", "refresh_failed"} => refresh'[Inline(p)].pc = "idle",
             pc \in Unrefreshed => ~e.fresh,
             pc \in {"run", "finalize", "refresh_failed"} => e.upto = NULL,
             pc \in {"refresh", "refresh_failed"} =>
                e.upto <= writes /\ refresh'[Inline(p)].pc = "wait"
      PROVE  ShownInv'
  <2>1. PICK r : r = [trig[p] EXCEPT !.pc = pc]
      OBVIOUS
  <2>2. r \in Run /\ r.pc = pc /\ r.job = trig[p].job /\ trig' = [trig EXCEPT ![p] = r]
      BY <1>4, <1>5, <1>8, <2>1
  <2> QED
      BY <1>0, <1>3, <1>6, <1>8, <2>2, ShownEntry
<1>9. CASE RunReturns(p)
  <2>1. PICK e : e = [audit[job] EXCEPT !.upto = writes]
      OBVIOUS
  <2>2. e \in Row /\ e.upto = writes /\ e.fresh = audit[job].fresh
      BY <1>1, <2>1 DEF Row
  <2>3. audit' = [audit EXCEPT ![job] = e]
      BY <1>0, <1>1, <1>9, <2>1 DEF RunReturns
  <2>4. ~audit[job].fresh
      BY <1>2, <1>9 DEF RunReturns, InlineShows, Unrefreshed
  <2>5. trig' = [trig EXCEPT ![p].pc = "refresh"] /\ refresh'[Inline(p)].pc = "wait"
      BY <1>7, <1>9 DEF RunReturns, Step
  <2>6. "refresh" \in TriggerSteps /\ e.upto <= writes /\ ~e.fresh
      BY <1>1, <2>2, <2>4 DEF TriggerSteps
  <2> QED
      BY <1>8, <2>2, <2>3, <2>5, <2>6
<1>10. CASE FinalizeFailed(p)
  <2>1. PICK e \in Row : /\ audit' = [audit EXCEPT ![job] = e]
                         /\ e.upto = audit[job].upto /\ e.fresh = audit[job].fresh
    <3>1. CASE audit' = audit
      <4>1. audit' = [audit EXCEPT ![job] = audit[job]]
          BY <1>0, <1>1, <3>1
      <4> QED
          BY <1>1, <4>1
    <3>2. CASE audit' = [audit EXCEPT ![job].action = "failed"]
      <4>1. PICK e : e = [audit[job] EXCEPT !.action = "failed"]
          OBVIOUS
      <4>2. e \in Row /\ e.upto = audit[job].upto /\ e.fresh = audit[job].fresh
          BY <1>1, <4>1 DEF Row
      <4>3. audit' = [audit EXCEPT ![job] = e]
          BY <1>0, <1>1, <3>2, <4>1
      <4> QED
          BY <4>2, <4>3
    <3> QED
        BY <1>10, <3>1, <3>2 DEF FinalizeFailed
  <2>2. ~audit[job].fresh /\ audit[job].upto = NULL
      BY <1>2, <1>10 DEF FinalizeFailed, InlineShows, Unrefreshed, Upto
  <2>3. trig' = [trig EXCEPT ![p].pc = "refresh_failed"] /\ refresh'[Inline(p)].pc = "wait"
      BY <1>7, <1>10 DEF FinalizeFailed, Step
  <2>4. "refresh_failed" \in TriggerSteps /\ e.upto <= writes /\ e.upto = NULL /\ ~e.fresh
      BY <1>1, <2>1, <2>2 DEF TriggerSteps, NULL
  <2> QED
      BY <1>8, <2>1, <2>3, <2>4
<1>11. CASE Refreshed(p)
  <2>1. PICK e : e = [audit[job] EXCEPT !.fresh = (refresh[Inline(p)].pc = "done")]
      OBVIOUS
  <2>2. e \in Row /\ e.upto = audit[job].upto /\ e.fresh = (refresh[Inline(p)].pc = "done")
      BY <1>1, <2>1 DEF Row
  <2>3. audit' = [audit EXCEPT ![job] = e]
      BY <1>0, <1>1, <1>11, <2>1 DEF Refreshed
  <2>4. e.fresh => e.upto <= shown
      BY <1>2, <1>11, <2>2 DEF Refreshed, InlineShows, Upto
  <2>5. refresh'[Inline(p)].pc = "idle"
      BY <1>0, <1>11 DEF Refreshed, InlineReturn, Ended, NoTxn, TxnAt
  <2>6. PICK pc \in {"project", "unlock"} : trig' = [trig EXCEPT ![p].pc = pc]
      BY <1>11 DEF Refreshed, Step
  <2>7. pc \in TriggerSteps /\ pc \notin Unrefreshed
      BY <2>6 DEF TriggerSteps, Unrefreshed
  <2> QED
      BY <1>8, <2>2, <2>3, <2>4, <2>5, <2>6, <2>7 DEF Unrefreshed
<1>12. CASE ProjectRaises(p) \/ WriteMarker(p)
  <2>1. PICK e \in Row : /\ audit' = [audit EXCEPT ![job] = e]
                         /\ e.upto = audit[job].upto /\ e.fresh = audit[job].fresh
    <3>1. CASE audit' = audit
      <4>1. audit' = [audit EXCEPT ![job] = audit[job]]
          BY <1>0, <1>1, <3>1
      <4> QED
          BY <1>1, <4>1
    <3>2. ASSUME NEW action \in {"failed", "handled"},
                 audit' = [audit EXCEPT ![job].action = action]
          PROVE  \E e \in Row : /\ audit' = [audit EXCEPT ![job] = e]
                                /\ e.upto = audit[job].upto /\ e.fresh = audit[job].fresh
      <4>1. PICK e : e = [audit[job] EXCEPT !.action = action]
          OBVIOUS
      <4>2. e \in Row /\ e.upto = audit[job].upto /\ e.fresh = audit[job].fresh
          BY <1>1, <4>1 DEF Row
      <4>3. audit' = [audit EXCEPT ![job] = e]
          BY <1>0, <1>1, <3>2, <4>1
      <4> QED
          BY <4>2, <4>3
    <3>3. \/ audit' = audit
          \/ \E action \in {"failed", "handled"} : audit' = [audit EXCEPT ![job].action = action]
        BY <1>12 DEF ProjectRaises, WriteMarker
    <3> QED
        BY <3>1, <3>2, <3>3
  <2>2. e.fresh => e.upto <= shown
      BY <1>1, <1>2, <2>1 DEF FreshIsShown
  <2>3. trig' = [trig EXCEPT ![p].pc = "unlock"]
      BY <1>12 DEF ProjectRaises, WriteMarker, Step
  <2>4. refresh'[Inline(p)].pc = "idle"
      BY <1>2, <1>12 DEF ProjectRaises, WriteMarker, InlineShows, ledgerVars, ledger
  <2>5. "unlock" \in TriggerSteps
      BY DEF TriggerSteps
  <2> QED
      BY <1>8, <2>1, <2>2, <2>3, <2>4, <2>5 DEF Unrefreshed
<1> QED
    BY <1>9, <1>10, <1>11, <1>12

(* "The run's supersessions are in the works list when the run reports     *)
(* done": a handled run whose inline refresh worked is in the views and    *)
(* stays there, on any number of replicas and whichever refreshes, crashes *)
(* and lost connections come in between.                                   *)
THEOREM HandledRunsAreShown == Spec => []HandledRunIsShown
<1>1. Init => ShownInv
    BY InitShownInv
<1>2. Inv /\ Inv' /\ ShownInv /\ [Next]_vars => ShownInv'
  <2> SUFFICES ASSUME Inv, Inv', ShownInv, [Next]_vars
               PROVE  ShownInv'
      OBVIOUS
  <2>0. shown' \in Int /\ shown' >= shown
      BY StepInv DEF Inv, LedgerInv, LedgerTypeOK, NULL
  <2>1. CASE UNCHANGED vars
      BY <2>0, <2>1, ShownApart DEF vars
  <2>2. CASE RefreshStep /\ Apart
      BY <2>0, <2>2, ShownApart DEF Apart
  <2>3. ASSUME NEW v \in Versions \ complete, ExtractionCompletes(v)
        PROVE  ShownInv'
      BY <2>0, <2>3, ShownApart DEF ExtractionCompletes
  <2>4. ASSUME NEW p \in Replicas, TriggerStep(p)
        PROVE  ShownInv'
      BY <2>4, ShownAround, ShownInsert, ShownRun DEF TriggerStep
  <2>5. ASSUME NEW p \in Replicas, RunItem(p)
        PROVE  ShownInv'
      BY <2>0, <2>5, ShownApart DEF RunItem, RefreshStep
  <2>6. ASSUME NEW p \in Replicas, LoseConnection(p)
        PROVE  ShownInv'
      BY <2>0, <2>6, ShownApart DEF LoseConnection, ledger
  <2>7. ASSUME NEW p \in Replicas, RunRaises(p) \/ ProjectRaises(p) \/ StatementRaises(p) \/ Crash(p)
        PROVE  ShownInv'
      BY <2>7, ShownAround, ShownRun
  <2> QED
      BY <2>1, <2>2, <2>3, <2>4, <2>5, <2>6, <2>7 DEF Next
<1>3. Inv /\ ShownInv => HandledRunIsShown
  <2> SUFFICES ASSUME Inv, ShownInv, NEW j \in DOMAIN audit, audit[j].fresh
               PROVE  shown >= audit[j].upto
      BY DEF HandledRunIsShown
  <2>1. j \in 1..Len(audit)
      BY DEF Inv, TriggerInv, TriggerTypeOK
  <2>2. shown \in Int /\ audit[j].upto \in Int
      BY <2>1, RunNumbers
  <2> QED
      BY <2>1, <2>2 DEF ShownInv, FreshIsShown
<1> QED
    BY <1>1, <1>2, <1>3, InvHolds, PTL DEF Spec
=============================================================================
