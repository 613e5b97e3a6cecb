------------------------------- MODULE SyncRun -------------------------------
(***************************************************************************)
(* One user's Discogs list copied into PostgreSQL and Neo4j, page by page  *)
(* (sync_collection and sync_wantlist of api/syncer.py).  A run stamps     *)
(* what it touches with the time it started and, once it has read the last *)
(* page, sweeps away what still carries an older stamp.  The user may      *)
(* change the list on Discogs at any time, also between two page requests, *)
(* and a run may be interrupted between any two steps by an error, a       *)
(* cancellation or a crash; every page is durable on its own.              *)
(*                                                                         *)
(* The collection and the wantlist follow one pattern.  A collection entry *)
(* is an instance, whose id is never used again; a wantlist entry is a     *)
(* release, which may be removed and wanted again.                         *)
(***************************************************************************)
EXTENDS Naturals, Sequences, FiniteSets, SequencesExt

CONSTANTS
    Entries,     \* collection instances, or wanted releases
    InGraph,     \* those whose Release node exists in Neo4j
    PageSize,    \* per_page
    MaxRetries,  \* MAX_RATE_LIMIT_RETRIES
    MaxRuns      \* bound: sync runs

Absent == 0      \* no row, no edge

ASSUME GraphAssumption == InGraph \subseteq Entries
ASSUME PageAssumption == PageSize \in Nat \ {0}
ASSUME RunBounds == MaxRetries \in Nat /\ MaxRuns \in Nat

VARIABLES
    list,       \* "collection" or "wantlist"
    remote,     \* the list on Discogs, in the order its pages show it
    used,       \* the entries that were ever on it
    rows,       \* rows[e]: updated_at of e's PostgreSQL row
    edges,      \* edges[e]: synced_at of e's Neo4j edge
    snapshot,   \* the copies in the last collection_snapshots row
    run,        \* the run in progress
    known,      \* the entries that are in the list according to the events
    lost,       \* the entries for which an event was lost
    runs,       \* how many runs have started: the clock of the stamps
    steady,     \* the entries on Discogs at every moment since the run started
    changed,    \* has the list changed since the run started?
    shrunk      \* ... by a removal?

runVars == <<list, remote, used, rows, edges, snapshot, run, known, lost, runs,
            steady, changed, shrunk>>

discogs == <<remote, used, steady, changed, shrunk>>
stored == <<rows, edges, snapshot>>
events == <<known, lost>>

-----------------------------------------------------------------------------
Held == ToSet(remote)

(* GET ...?page=p (external): the entries of the page and the page count.  *)
PageEntries(p) ==
    {remote[k] : k \in {k \in DOMAIN remote : (p - 1) * PageSize < k /\ k <= p * PageSize}}

Pages == (Len(remote) + PageSize - 1) \div PageSize

(* A run: its step, the page it is at, its sync_started stamp, the page's  *)
(* entries, whether it was the last page, and the events not yet recorded. *)
Run(pc, page, started, batch, last, pending) ==
    [pc |-> pc, page |-> page, started |-> started, batch |-> batch, last |-> last,
     pending |-> pending, retries |-> 0]

Ended(pc) == Run(pc, 0, run.started, {}, FALSE, {})

NotStarted == Run("idle", 0, 0, {}, FALSE, {})

Present == {e \in Entries : rows[e] # Absent}

Linked == {e \in Entries : edges[e] # Absent}

RunInit ==
    /\ list \in {"collection", "wantlist"}
    /\ remote = <<>>
    /\ used = {}
    /\ rows = [e \in Entries |-> Absent]
    /\ edges = [e \in Entries |-> Absent]
    /\ snapshot = {}
    /\ run = NotStarted
    /\ known = {}
    /\ lost = {}
    /\ runs = 0
    /\ steady = {}
    /\ changed = FALSE
    /\ shrunk = FALSE

-----------------------------------------------------------------------------
(* The user's edits on Discogs (external).  The collection is asked for    *)
(* newest first (sort=added, sort_order=desc); the order of the wantlist   *)
(* is not asked for, so a new entry may appear anywhere.                   *)
AddRemote(e, k) ==
    /\ e \notin Held
    /\ list = "collection" => k = 1 /\ e \notin used
    /\ remote' = InsertAt(remote, k, e)
    /\ used' = used \cup {e}
    /\ changed' = TRUE
    /\ UNCHANGED <<list, stored, run, events, runs, steady, shrunk>>

RemoveRemote(k) ==
    /\ remote' = RemoveAt(remote, k)
    /\ steady' = steady \ {remote[k]}
    /\ changed' = TRUE
    /\ shrunk' = TRUE
    /\ UNCHANGED <<list, used, stored, run, events, runs>>

-----------------------------------------------------------------------------
(* sync_collection, sync_wantlist.                                         *)
StartSync ==
    /\ run.pc \in {"idle", "done"}
    /\ runs < MaxRuns
    /\ runs' = runs + 1
    /\ run' = Run("fetch", 1, runs + 1, {}, FALSE, {})
    /\ steady' = Held
    /\ changed' = FALSE
    /\ shrunk' = FALSE
    /\ UNCHANGED <<list, remote, used, stored, events>>

(* A 429: wait and ask again, a bounded number of times.                   *)
RateLimited ==
    /\ run.pc = "fetch"
    /\ run' = IF run.retries < MaxRetries THEN [run EXCEPT !.retries = @ + 1] ELSE Ended("idle")
    /\ UNCHANGED <<list, discogs, stored, events, runs>>

(* Mutant: the page before the last is taken for the last.                 *)
IsLastEarly(p) == p + 1 >= Pages

IsLast(p) == p >= Pages

(* A 200: an empty page ends the list.                                     *)
FetchPage ==
    LET batch == PageEntries(run.page) IN
    /\ run.pc = "fetch"
    /\ run' = IF batch = {}
              THEN Run("sweep", run.page, run.started, {}, TRUE, {})
              ELSE Run("persist", run.page, run.started, batch, IsLast(run.page), {})
    /\ UNCHANGED <<list, discogs, stored, events, runs>>

(* Mutant: the row keeps the stamp it was created with.                    *)
StampedOnce(stamps, touched) ==
    [e \in Entries |-> IF e \in touched /\ stamps[e] = Absent THEN run.started ELSE stamps[e]]

(* Upsert: every touched row or edge carries the run's stamp.              *)
Stamped(stamps, touched) ==
    [e \in Entries |-> IF e \in touched THEN run.started ELSE stamps[e]]

(* The diff of the page: the keys the before-state does not have.          *)
Added == run.batch \ Present

(* _persist_collection_page / _persist_wantlist_page, one transaction.     *)
PersistPage ==
    /\ run.pc = "persist"
    /\ rows' = Stamped(rows, run.batch)
    /\ run' = [run EXCEPT !.pc = "emit", !.pending = Added]
    /\ UNCHANGED <<list, discogs, edges, snapshot, events, runs>>

(* _emit_events: each event is recorded, or lost with a warning.           *)
EmitAdded ==
    /\ run.pc = "emit"
    /\ \E recorded \in SUBSET run.pending :
          /\ known' = known \cup recorded
          /\ lost' = lost \cup (run.pending \ recorded)
    /\ run' = [run EXCEPT !.pc = "graph", !.pending = {}]
    /\ UNCHANGED <<list, discogs, stored, runs>>

(* The page's edges; an entry without a Release node gets none.            *)
GraphPage ==
    /\ run.pc = "graph"
    /\ edges' = Stamped(edges, run.batch \cap InGraph)
    /\ run' = IF run.last
              THEN Run("sweep", run.page, run.started, {}, TRUE, {})
              ELSE Run("fetch", run.page + 1, run.started, {}, FALSE, {})
    /\ UNCHANGED <<list, discogs, rows, snapshot, events, runs>>

(* updated_at < sync_started                                               *)
Stale(stamps) == {e \in Entries : stamps[e] # Absent /\ stamps[e] < run.started}

Without(stamps, gone) == [e \in Entries |-> IF e \in gone THEN Absent ELSE stamps[e]]

(* Mutant: the removed rows are looked for after they were deleted.        *)
SweepRowsReread ==
    /\ run.pc = "sweep"
    /\ rows' = Without(rows, Stale(rows))
    /\ run' = [run EXCEPT !.pc = "sweep_graph", !.pending = {}]
    /\ UNCHANGED <<list, discogs, edges, snapshot, events, runs>>

(* _reconcile_stale_collection / _reconcile_stale_wantlist: PostgreSQL,    *)
(* then Neo4j; the removals are reported only after both.                  *)
SweepRows ==
    /\ run.pc = "sweep"
    /\ rows' = Without(rows, Stale(rows))
    /\ run' = [run EXCEPT !.pc = "sweep_graph", !.pending = Stale(rows)]
    /\ UNCHANGED <<list, discogs, edges, snapshot, events, runs>>

SweepGraph ==
    /\ run.pc = "sweep_graph"
    /\ edges' = Without(edges, Stale(edges))
    /\ run' = [run EXCEPT !.pc = "emit_removed"]
    /\ UNCHANGED <<list, discogs, rows, snapshot, events, runs>>

EmitRemoved ==
    /\ run.pc = "emit_removed"
    /\ \E recorded \in SUBSET run.pending :
          /\ known' = known \ recorded
          /\ lost' = lost \cup (run.pending \ recorded)
    /\ run' = IF list = "collection" THEN [run EXCEPT !.pc = "snapshot", !.pending = {}]
              ELSE Ended("done")
    /\ UNCHANGED <<list, discogs, stored, runs>>

(* _write_collection_snapshot: the copies linked to a collection row, one  *)
(* per row.                                                                *)
WriteSnapshot ==
    /\ run.pc = "snapshot"
    /\ snapshot' = Present
    /\ run' = Ended("done")
    /\ UNCHANGED <<list, discogs, rows, edges, events, runs>>

(* An API error, a failed statement, a cancellation, a crash: nothing is   *)
(* undone, and the events not yet recorded never will be.                  *)
Interrupted ==
    /\ run.pc \notin {"idle", "done"}
    /\ lost' = lost \cup run.pending
    /\ run' = Ended("idle")
    /\ UNCHANGED <<list, discogs, stored, known, runs>>

-----------------------------------------------------------------------------
RunNext ==
    \/ \E e \in Entries, k \in 1..(Len(remote) + 1) : AddRemote(e, k)
    \/ \E k \in DOMAIN remote : RemoveRemote(k)
    \/ StartSync
    \/ RateLimited
    \/ FetchPage
    \/ PersistPage
    \/ EmitAdded
    \/ GraphPage
    \/ SweepRows
    \/ SweepGraph
    \/ EmitRemoved
    \/ WriteSnapshot
    \/ Interrupted

RunSpec == RunInit /\ [][RunNext]_runVars

-----------------------------------------------------------------------------
(* Properties.                                                             *)

RunSteps == {"idle", "fetch", "persist", "emit", "graph", "sweep", "sweep_graph",
             "emit_removed", "snapshot", "done"}

RunTypeOK ==
    /\ list \in {"collection", "wantlist"}
    /\ remote \in Seq(Entries)
    /\ used \subseteq Entries
    /\ rows \in [Entries -> 0..MaxRuns]
    /\ edges \in [Entries -> 0..MaxRuns]
    /\ snapshot \subseteq Entries
    /\ run \in [pc : RunSteps, page : Nat, started : 0..MaxRuns, batch : SUBSET Entries,
                last : BOOLEAN, pending : SUBSET Entries, retries : 0..MaxRetries]
    /\ known \subseteq Entries
    /\ lost \subseteq Entries
    /\ runs \in 0..MaxRuns
    /\ steady \subseteq Held
    /\ changed \in BOOLEAN /\ shrunk \in BOOLEAN

(* A run that completes over a list that did not change meanwhile leaves   *)
(* exactly that list in PostgreSQL, in Neo4j (as far as the releases are   *)
(* there) and in the snapshot, whatever earlier runs left half done.       *)
CompletedRunMirrors ==
    (run.pc = "done" /\ ~changed) =>
        /\ Present = Held
        /\ Linked = Held \cap InGraph
        /\ list = "collection" => snapshot = Held

(* Entries added between two page requests shift the pages, but no entry   *)
(* that was on Discogs all along is swept away because of it.              *)
AdditionsAreSafe ==
    [][\A e \in Present \ Present' : e \in steady => shrunk]_runVars

(* The sweep removes "items removed from Discogs since the last sync": it  *)
(* spares every entry that was on Discogs all along.                       *)
SweepSparesHeld == [][\A e \in Present \ Present' : e \notin steady]_runVars

(* The added and removed events add up to the rows: an entry whose events  *)
(* all were recorded is in the list the events describe exactly when it    *)
(* has a row, at every moment a run is not about to report it.             *)
EventsFollowRows ==
    \A e \in Entries \ (lost \cup run.pending) : e \in known <=> e \in Present
=============================================================================
