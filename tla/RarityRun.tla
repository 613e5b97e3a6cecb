----------------------------- MODULE RarityRun ------------------------------
(***************************************************************************)
(* The rarity scores: the two paged walks that compute them                *)
(* (api/queries/rarity_queries.py behind /rarity-scores of                 *)
(* api/routers/insights_compute.py), driven by a client that keeps the     *)
(* cursor and the summed quality counts, and the reads of what the client  *)
(* stored (api/routers/rarity.py): a tier walked by cursor, and a label's  *)
(* releases by a membership column that is only trusted when no row lacks  *)
(* it, a verdict remembered per completed run.                             *)
(*                                                                         *)
(* One quality signal stands for the three, one label for the labels and   *)
(* artists of the graph, one tier for the tiers.  A percentile is kept as  *)
(* the pair it is the quotient of.  The composite score is a constant of   *)
(* the release; only its order matters here.                               *)
(***************************************************************************)
EXTENDS Integers, Sequences, FiniteSets, FiniteSetsExt, SequencesExt

CONSTANTS
    Quality,        \* Quality[r]: the quality signal of release r, 0 when it has none
    Score,          \* Score[r]: the composite rarity score of release r
    OnLabel,        \* the releases of the label that is asked for
    FirstReleases,  \* the releases there are at first
    PassSize,       \* limit of the two rarity passes
    TierPage,       \* page_size of the leaderboard
    MaxRarityRuns,  \* bound: runs
    MaxTierWalks,   \* bound: walks through the tier
    MaxPageFailures \* bound: failed page requests

ASSUME RarityAssumption == PassSize > 0 /\ TierPage > 0

VARIABLES
    graphIds,   \* the Release ids of the graph
    run,        \* the client's run: its pass, cursor, summed counts and rows
    rarity,     \* insights.release_rarity
    runLog,     \* the last completed run of insights.computation_log
    verdict,    \* _membership_checked
    tierWalk,   \* a client's walk through the tier
    walked,     \* walks begun
    byLabel,    \* a GET /label request
    pageFaults  \* failed page requests so far

rarityVars == <<graphIds, run, rarity, runLog, verdict, tierWalk, walked, byLabel, pageFaults>>

-----------------------------------------------------------------------------
Ids == DOMAIN Quality
RunOpen == 0           \* the cursor "" of a first page
RunDone == -1          \* next_after is null
Null == "null"      \* label_ids of a row an older stream wrote
NoRunYet == 0
NoWalk == [pc |-> "idle", seen |-> <<>>, calm |-> FALSE]
NoRequest == [pc |-> "idle", run |-> NoRunYet, complete |-> FALSE, late |-> FALSE]
IdleRun == [pc |-> "idle", n |-> NoRunYet, after |-> RunOpen, counts |-> [q \in {} |-> 0],
            rows |-> <<>>, old |-> FALSE, ids |-> {}, grew |-> FALSE]

RarityInit ==
    /\ graphIds = FirstReleases
    /\ run = IdleRun
    /\ rarity = {}
    /\ runLog = NoRunYet
    /\ verdict = [run |-> NoRunYet, complete |-> FALSE]
    /\ tierWalk = NoWalk
    /\ walked = 0
    /\ byLabel = NoRequest
    /\ pageFaults = 0

(* External: a loader adds a release, anywhere in id order.                *)
LoadRelease(r) ==
    /\ r \notin graphIds
    /\ graphIds' = graphIds \cup {r}
    /\ run' = [run EXCEPT !.grew = TRUE]
    /\ UNCHANGED <<rarity, runLog, verdict, tierWalk, walked, byLabel, pageFaults>>

-----------------------------------------------------------------------------
(* _fetch_release_id_page: the next PassSize ids after the cursor.         *)
IdPage(after) ==
    LET beyond == SetToSortSeq({r \in graphIds : r > after}, <)
    IN  SubSeq(beyond, 1, IF Len(beyond) < PassSize THEN Len(beyond) ELSE PassSize)

(* _next_after.                                                            *)
NextAfter(ids) == IF Len(ids) = PassSize THEN Last(ids) ELSE RunDone

(* _Distribution.add over a page, and the client's sum over pages.         *)
CountOf(counts, q) == IF q \in DOMAIN counts THEN counts[q] ELSE 0

Added(counts, ids) ==
    LET values == {Quality[r] : r \in Range(ids)} \ {0}
    IN  [q \in DOMAIN counts \cup values |->
            CountOf(counts, q) + Cardinality({r \in Range(ids) : Quality[r] = q})]

(* _Distribution.freeze and percentile_rank: the counts below the value,   *)
(* over all of them.                                                       *)
PercentileRank(counts, value) ==
    LET total == MapThenSumSet(LAMBDA q : counts[q], DOMAIN counts)
    IN  IF total = 0 \/ value <= 0 THEN <<0, 1>>
        ELSE <<MapThenSumSet(LAMBDA q : counts[q], {q \in DOMAIN counts : q < value}), total>>

(* _score_page.                                                            *)
ScoredRow(r, counts) == [id |-> r, score |-> Score[r], rank |-> PercentileRank(counts, Quality[r])]

StartRarityRun(old) ==
    /\ run.pc = "idle"
    /\ run.n < MaxRarityRuns
    /\ run' = [IdleRun EXCEPT !.pc = "count", !.n = run.n + 1, !.old = old, !.ids = graphIds]
    /\ UNCHANGED <<graphIds, rarity, runLog, verdict, tierWalk, walked, byLabel, pageFaults>>

(* fetch_rarity_quality_counts, one page.                                  *)
QualityCounts ==
    LET ids == IdPage(run.after) IN
    /\ run.pc = "count"
    /\ run' = [run EXCEPT !.counts = Added(@, ids),
                          !.after = IF NextAfter(ids) = RunDone THEN RunOpen ELSE NextAfter(ids),
                          !.pc = IF NextAfter(ids) = RunDone THEN "score" ELSE "count"]
    /\ UNCHANGED <<graphIds, rarity, runLog, verdict, tierWalk, walked, byLabel, pageFaults>>

(* fetch_rarity_page: nothing is kept between calls, the counts come with  *)
(* the request.                                                            *)
RarityPage ==
    LET ids == IdPage(run.after) IN
    /\ run.pc = "score"
    /\ run' = [run EXCEPT !.rows = @ \o [i \in DOMAIN ids |-> ScoredRow(ids[i], run.counts)],
                          !.after = NextAfter(ids),
                          !.pc = IF NextAfter(ids) = RunDone THEN "store" ELSE "score"]
    /\ UNCHANGED <<graphIds, rarity, runLog, verdict, tierWalk, walked, byLabel, pageFaults>>

(* _rarity_page_response: a timeout, a retryable database error or a       *)
(* client that left; the client asks for the same page again, or gives up. *)
PageFails ==
    /\ run.pc \in {"count", "score"}
    /\ pageFaults < MaxPageFailures
    /\ pageFaults' = pageFaults + 1
    /\ \/ UNCHANGED run
       \/ run' = [IdleRun EXCEPT !.n = run.n]
    /\ UNCHANGED <<graphIds, rarity, runLog, verdict, tierWalk, walked, byLabel>>

(* External: the client replaces the rows, then logs the run as completed. *)
(* An older stream leaves the membership columns NULL.                     *)
StoreRows ==
    /\ run.pc = "store"
    /\ rarity' = {[id |-> row.id, score |-> row.score,
                   labels |-> IF run.old THEN Null ELSE IF row.id \in OnLabel THEN "on" ELSE "off"] :
                      row \in Range(run.rows)}
    /\ run' = [run EXCEPT !.pc = "log"]
    /\ tierWalk' = [tierWalk EXCEPT !.calm = FALSE]
    /\ byLabel' = [byLabel EXCEPT !.late = TRUE]
    /\ UNCHANGED <<graphIds, runLog, verdict, walked, pageFaults>>

CompleteRun ==
    /\ run.pc = "log"
    /\ runLog' = run.n
    /\ run' = [IdleRun EXCEPT !.n = run.n]
    /\ UNCHANGED <<graphIds, rarity, verdict, tierWalk, walked, byLabel, pageFaults>>

-----------------------------------------------------------------------------
(* ORDER BY rarity_score DESC, release_id.                                 *)
RanksBefore(a, b) == a.score > b.score \/ (a.score = b.score /\ a.id < b.id)

TierOrder == SetToSortSeq(rarity, RanksBefore)

(* _TIER_KEYSET_PAGE.                                                      *)
TierAfter(row) ==
    SelectSeq(TierOrder, LAMBDA x : x.score <= row.score /\ (x.score < row.score \/ x.id > row.id))

FirstPage(s) == SubSeq(s, 1, IF Len(s) < TierPage THEN Len(s) ELSE TierPage)

(* The first page is an offset page, which says where to go on; the others *)
(* are read with its cursor, one row more than asked to see if any follow. *)
WalkTier ==
    /\ tierWalk.pc = "idle"
    /\ walked < MaxTierWalks
    /\ walked' = walked + 1
    /\ tierWalk' = [pc |-> IF rarity # {} /\ TierPage < Cardinality(rarity) THEN "more" ELSE "end",
                    seen |-> FirstPage(TierOrder), calm |-> TRUE]
    /\ UNCHANGED <<graphIds, run, rarity, runLog, verdict, byLabel, pageFaults>>

NextTierPage ==
    LET rows == TierAfter(Last(tierWalk.seen)) IN
    /\ tierWalk.pc = "more"
    /\ tierWalk' = [tierWalk EXCEPT !.seen = @ \o FirstPage(rows),
                                    !.pc = IF Len(rows) > TierPage THEN "more" ELSE "end"]
    /\ UNCHANGED <<graphIds, run, rarity, runLog, verdict, walked, byLabel, pageFaults>>

EndTierWalk ==
    /\ tierWalk.pc = "end"
    /\ tierWalk' = NoWalk
    /\ UNCHANGED <<graphIds, run, rarity, runLog, verdict, walked, byLabel, pageFaults>>

-----------------------------------------------------------------------------
(* _membership_columns_complete: the latest completed run is read first,   *)
(* the verdict then taken or renewed under the lock.  A tick of            *)
(* run_rarity_membership_refresh does the same and asks for no page.       *)
AskByLabel ==
    /\ byLabel.pc = "idle"
    /\ rarity # {}
    /\ byLabel' = [NoRequest EXCEPT !.pc = IF runLog = NoRunYet THEN "page" ELSE "check", !.run = runLog,
                                    !.late = run.pc = "log"]
    /\ UNCHANGED <<graphIds, run, rarity, runLog, verdict, tierWalk, walked, pageFaults>>

VerdictIsFor(n) == verdict.run = n

CheckColumns ==
    LET checked == [run |-> byLabel.run, complete |-> \A row \in rarity : row.labels # Null]
        now == IF VerdictIsFor(byLabel.run) THEN verdict ELSE checked
    IN  /\ byLabel.pc = "check"
        /\ verdict' = now
        /\ byLabel' = [byLabel EXCEPT !.pc = "page", !.complete = now.complete]
        /\ UNCHANGED <<graphIds, run, rarity, runLog, tierWalk, walked, pageFaults>>

(* _rarity_by_graph_members: the membership column, or the ids the graph   *)
(* lists.                                                                  *)
LabelRows(complete) ==
    IF complete THEN {row \in rarity : row.labels = "on"}
    ELSE {row \in rarity : row.id \in graphIds \cap OnLabel}

AnswerByLabel ==
    /\ byLabel.pc = "page"
    /\ byLabel' = NoRequest
    /\ UNCHANGED <<graphIds, run, rarity, runLog, verdict, tierWalk, walked, pageFaults>>

RarityNext ==
    \/ \E r \in Ids : LoadRelease(r)
    \/ \E old \in BOOLEAN : StartRarityRun(old)
    \/ QualityCounts \/ RarityPage \/ PageFails \/ StoreRows \/ CompleteRun
    \/ WalkTier \/ NextTierPage \/ EndTierWalk
    \/ AskByLabel \/ CheckColumns \/ AnswerByLabel

-----------------------------------------------------------------------------
(* The reference: the share of the positive signals of the catalog that    *)
(* are strictly below this one (_percentile_rank over the whole list).     *)
TrueRank(r) ==
    LET positive == {s \in graphIds : Quality[s] > 0}
    IN  IF Quality[r] = 0 THEN <<0, 1>>
        ELSE <<Cardinality({s \in positive : Quality[s] < Quality[r]}), Cardinality(positive)>>

(* A finished pass has scored no release twice and none of those that were *)
(* there from the start is missing, however the pages were cut, failed and *)
(* were asked for again; and if nothing was loaded meanwhile, each row is  *)
(* ranked as a single read of the whole catalog would have ranked it.      *)
RunCoversCatalog ==
    run.pc = "store" =>
        LET scored == [i \in DOMAIN run.rows |-> run.rows[i].id] IN
        /\ IsInjective(scored)
        /\ run.ids \subseteq Range(scored)
        /\ ~run.grew => \A i \in DOMAIN scored : run.rows[i].rank = TrueRank(scored[i])

(* A walk of the tier that no run overtook has seen every row once, in     *)
(* order; and a label request that no run overtook answers every stored    *)
(* row of the label, whichever stream wrote the rows.                      *)
RarityReadsAreComplete ==
    /\ (tierWalk.pc = "end" /\ tierWalk.calm) => tierWalk.seen = TierOrder
    /\ (byLabel.pc = "page" /\ ~byLabel.late) =>
           LabelRows(byLabel.complete) = {row \in rarity : row.id \in OnLabel}
=============================================================================
