--------------------------- MODULE LedgerBackfill ---------------------------
(***************************************************************************)
(* The one-time backfill of the ledger's link history from a MusicBrainz   *)
(* full export (api/ledger_backfill.py): how a release's Discogs link is   *)
(* dated (proxy 2), and the jobs that write the dated events in batches    *)
(* under an audit entry.  Fetching, decompressing and hashing the export   *)
(* is external: an export that does not verify is never planned from.      *)
(***************************************************************************)
EXTENDS Integers, FiniteSets, FiniteSetsExt

CONSTANTS
    RowIds,     \* ids of l_release_url rows, numbers
    Releases,   \* release ids
    Updates,    \* last_updated values, 0 for NULL
    Jobs,       \* applying runs of the tool
    BatchRows   \* batch_size

ASSUME ExportAssumption == RowIds \subseteq Nat /\ Updates \subseteq Nat

VARIABLES
    table,      \* table[k]: l_release_url row k of the export
    known,      \* releases with a row in the release table
    events,     \* identity_link_events of the export
    entry,      \* entry[j]: the admin_audit_log entry of job j
    job,        \* job[j]: the step of job j
    batch       \* batch[j]: the events job j has yet to write

backfillVars == <<table, known, events, entry, job, batch>>

-----------------------------------------------------------------------------
NoDate == 1000

(* A row links its release to the Discogs id that its URL names; `discogs` *)
(* is false when its link type or its URL is another (read_member).        *)
ExportRow == [discogs : BOOLEAN, release : Releases, updated : Updates]

Candidates == {k \in RowIds : table[k].discogs}

AtOrBelow(c, k) == c <= k

(* creation_bounds: each dated row is folded into the bucket of the last   *)
(* candidate at or below its id, then a suffix minimum over the buckets.   *)
Bucket(k) == {c \in Candidates : AtOrBelow(c, k) /\ \A o \in Candidates : AtOrBelow(o, k) => o <= c}

FoldedLinks(c) == {table[k].updated : k \in {k \in RowIds : table[k].updated > 0 /\ c \in Bucket(k)}}

CreationBound(c) == Min({NoDate} \cup UNION {FoldedLinks(o) : o \in {o \in Candidates : o >= c}})

(* finalize: a release is dated by its lowest-id link, if that has a       *)
(* bound and the release has a row.                                        *)
LinksOf(r) == {c \in Candidates : table[c].release = r}

EventOf(r) == LET best == Min(LinksOf(r)) IN <<r, best, CreationBound(best)>>

Plan == {EventOf(r) : r \in {r \in known : LinksOf(r) # {} /\ CreationBound(Min(LinksOf(r))) # NoDate}}

-----------------------------------------------------------------------------
BackfillInit ==
    /\ table \in [RowIds -> ExportRow]
    /\ known \in SUBSET Releases
    /\ events = {}
    /\ entry = [j \in Jobs |-> "none"]
    /\ job = [j \in Jobs |-> "idle"]
    /\ batch = [j \in Jobs |-> {}]

(* A finished entry for the export is the handled marker.                  *)
IsBackfilled == \E j \in Jobs : entry[j] = "apply"

(* main: the marker is looked for before the download.                     *)
PlanExport(j) ==
    /\ job[j] = "idle"
    /\ job' = [job EXCEPT ![j] = IF IsBackfilled THEN "done" ELSE "planned"]
    /\ UNCHANGED <<table, known, events, entry, batch>>

(* apply_backfill: the marker again, then the started entry.               *)
StartEntry(j) ==
    /\ job[j] = "planned"
    /\ IF IsBackfilled
       THEN /\ job' = [job EXCEPT ![j] = "done"]
            /\ UNCHANGED <<entry, batch>>
       ELSE /\ job' = [job EXCEPT ![j] = "write"]
            /\ entry' = [entry EXCEPT ![j] = "started"]
            /\ batch' = [batch EXCEPT ![j] = Plan]
    /\ UNCHANGED <<table, known, events>>

(* write_events: one batch in release order, each event at most once       *)
(* (identity_link_events_idempotence_key).                                 *)
WriteBatch(j) ==
    LET now == {e \in batch[j] : Cardinality({o \in batch[j] : o[1] < e[1]}) < BatchRows}
    IN  /\ job[j] = "write"
        /\ batch[j] # {}
        /\ events' = events \cup now
        /\ batch' = [batch EXCEPT ![j] = @ \ now]
        /\ UNCHANGED <<table, known, entry, job>>

FinishEntry(j) ==
    /\ job[j] = "write"
    /\ batch[j] = {}
    /\ entry' = [entry EXCEPT ![j] = "apply"]
    /\ job' = [job EXCEPT ![j] = "done"]
    /\ UNCHANGED <<table, known, events, batch>>

(* A statement fails, or the process dies: the entry becomes failed, or    *)
(* stays as started when that update fails too.                            *)
JobFails(j) ==
    /\ job[j] = "write"
    /\ \E e \in {"failed", "started"} : entry' = [entry EXCEPT ![j] = e]
    /\ job' = [job EXCEPT ![j] = "done"]
    /\ batch' = [batch EXCEPT ![j] = {}]
    /\ UNCHANGED <<table, known, events>>

BackfillNext ==
    \E j \in Jobs : PlanExport(j) \/ StartEntry(j) \/ WriteBatch(j) \/ FinishEntry(j) \/ JobFails(j)

-----------------------------------------------------------------------------
(* c(k) as documented: the least last_updated, NULLs apart, over all rows  *)
(* with an id of k or more.                                                *)
LeastSince(k) == Min({NoDate} \cup {table[o].updated : o \in {o \in RowIds : o >= k /\ table[o].updated > 0}})

(* A handled export has all its history: every known release with a dated  *)
(* Discogs link has one event, at the earliest bound over its links and    *)
(* naming a link that attains it, whichever jobs failed or overlapped.     *)
HandledExportIsDated ==
    IsBackfilled =>
      \A r \in Releases :
        LET times == {LeastSince(c) : c \in LinksOf(r)} \ {NoDate}
            own == {e \in events : e[1] = r}
        IN  IF r \in known /\ times # {}
            THEN /\ Cardinality(own) = 1
                 /\ \A e \in own : e[3] = Min(times) /\ e[2] \in LinksOf(r) /\ LeastSince(e[2]) = e[3]
            ELSE own = {}
=============================================================================
