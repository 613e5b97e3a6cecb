--------------------------- MODULE CommunityCounts --------------------------
(***************************************************************************)
(* The community enrichment (_enrich_community_counts of                   *)
(* api/routers/insights_compute.py): a scheduled request that fetches the  *)
(* have and want counts of the listed releases from Discogs, stores each   *)
(* in PostgreSQL as it comes and all of them in Neo4j at the end.  A       *)
(* stored count keeps its release out of the backlog until it is stale.    *)
(* Nothing keeps two requests apart.  The pair of counts of a release is   *)
(* a version number.                                                       *)
(***************************************************************************)
EXTENDS Integers, FiniteSets

CONSTANTS
    Enrichments,    \* requests that may run at once
    Listed,         \* releases in some collection or wantlist
    BatchMax,       \* MAX_ENRICHMENT_RELEASES
    StaleAfter,     \* _STALENESS_DAYS
    MaxRetries,     \* MAX_RATE_LIMIT_RETRIES
    MaxDays,        \* bound: days
    MaxCountFaults  \* bound: failed calls and crashes

ASSUME ListedAssumption == IsFiniteSet(Listed)

VARIABLES
    remote,     \* remote[r]: the counts Discogs has
    rows,       \* rows[r]: insights.community_counts, or NoRow
    nodes,      \* nodes[r]: community_have and community_want of the node
    cycles,     \* cycles[e]: a request
    adrift,     \* history: releases whose node write was lost, or crossed another's
    day,        \* days passed
    countFaults \* faults so far

countVars == <<remote, rows, nodes, cycles, adrift, day, countFaults>>

-----------------------------------------------------------------------------
NoRow == [v |-> 0, age |-> 0]

(* release_ids, those still to do, the one in hand and what Discogs said   *)
(* of it, and the batch, 0 where it has no entry.  alone is history: the   *)
(* releases no other request was given meanwhile.                          *)
NoCycle == [pc |-> "idle", ids |-> {}, todo |-> {}, now |-> 0, read |-> 0,
            batch |-> [r \in Listed |-> 0], alone |-> {}, retries |-> 0, errors |-> 0]

Enriched(c) == {r \in Listed : c.batch[r] # 0}

CountInit ==
    /\ remote = [r \in Listed |-> 1]
    /\ rows = [r \in Listed |-> NoRow]
    /\ nodes = [r \in Listed |-> 0]
    /\ cycles = [e \in Enrichments |-> NoCycle]
    /\ adrift = {}
    /\ day = 0
    /\ countFaults = 0

CountFault == countFaults < MaxCountFaults /\ countFaults' = countFaults + 1

(* External: a day passes, Discogs' counts move.                           *)
DayPasses ==
    /\ day < MaxDays
    /\ day' = day + 1
    /\ rows' = [r \in Listed |-> [rows[r] EXCEPT !.age = IF @ < StaleAfter THEN @ + 1 ELSE @]]
    /\ \E r \in Listed : remote' = [remote EXCEPT ![r] = @ + 1]
    /\ UNCHANGED <<nodes, cycles, adrift, countFaults>>

(* The releases that have no count fetched within StaleAfter days.         *)
Backlog == {r \in Listed : rows[r].v = 0 \/ rows[r].age >= StaleAfter}

(* At most BatchMax of the backlog, in the order the database gives them,  *)
(* those another request has not come to yet included.                     *)
StartCycle(e) ==
    /\ cycles[e].pc = "idle"
    /\ Backlog # {}
    /\ \E S \in SUBSET Backlog :
          /\ Cardinality(S) = IF Cardinality(Backlog) < BatchMax THEN Cardinality(Backlog) ELSE BatchMax
          /\ cycles' = [d \in Enrichments |->
                 IF d = e
                 THEN [NoCycle EXCEPT !.pc = "next", !.ids = S, !.todo = S,
                           !.alone = {r \in S : \A o \in Enrichments : r \notin cycles[o].ids}]
                 ELSE [cycles[d] EXCEPT !.alone = @ \ S]]
    /\ UNCHANGED <<remote, rows, nodes, adrift, day, countFaults>>

NextRelease(e) ==
    /\ cycles[e].pc = "next"
    /\ \/ \E r \in cycles[e].todo :
             cycles' = [cycles EXCEPT ![e].pc = "get", ![e].now = r, ![e].todo = @ \ {r}]
       \/ cycles[e].todo = {} /\ cycles' = [cycles EXCEPT ![e].pc = "graph"]
    /\ UNCHANGED <<remote, rows, nodes, adrift, day, countFaults>>

(* A 429 is retried for the same release, up to MaxRetries in a row; one   *)
(* more ends the loop, and what was fetched is still written to the graph. *)
CountRateLimited(e) ==
    /\ cycles[e].pc = "get"
    /\ cycles' = IF cycles[e].retries < MaxRetries THEN [cycles EXCEPT ![e].retries = @ + 1]
                 ELSE [cycles EXCEPT ![e].pc = "graph"]
    /\ UNCHANGED <<remote, rows, nodes, adrift, day, countFaults>>

(* A transport error, or an answer with another status or a body that is   *)
(* not JSON, counts against this release, and the run goes on; an answer   *)
(* also ends the row of 429s.                                              *)
FetchFails(e) ==
    /\ cycles[e].pc = "get"
    /\ CountFault
    /\ \E n \in {0, cycles[e].retries} :
          cycles' = [cycles EXCEPT ![e].pc = "next", ![e].now = 0, ![e].errors = @ + 1, ![e].retries = n]
    /\ UNCHANGED <<remote, rows, nodes, adrift, day>>

FetchCounts(e) ==
    /\ cycles[e].pc = "get"
    /\ cycles' = [cycles EXCEPT ![e].pc = "store", ![e].read = remote[cycles[e].now], ![e].retries = 0]
    /\ UNCHANGED <<remote, rows, nodes, adrift, day, countFaults>>

(* The upsert, and the entry in the batch for Neo4j.                       *)
StoreCounts(e) ==
    LET c == cycles[e] IN
    /\ c.pc = "store"
    /\ rows' = [rows EXCEPT ![c.now] = [v |-> c.read, age |-> 0]]
    /\ cycles' = [cycles EXCEPT ![e].pc = "next", ![e].now = 0, ![e].read = 0, ![e].batch[c.now] = c.read]
    /\ UNCHANGED <<remote, nodes, adrift, day, countFaults>>

UpdateNodes(e) ==
    LET c == cycles[e] IN
    /\ c.pc = "graph"
    /\ nodes' = [r \in Listed |-> IF c.batch[r] # 0 THEN c.batch[r] ELSE nodes[r]]
    /\ adrift' = (adrift \ (Enriched(c) \cap c.alone)) \cup (Enriched(c) \ c.alone)
    /\ cycles' = [cycles EXCEPT ![e] = NoCycle]
    /\ UNCHANGED <<remote, rows, day, countFaults>>

(* The graph write fails and is only logged; or PostgreSQL fails, the      *)
(* caller leaves or the process dies, and the batch is gone with it.       *)
BatchLost(e) ==
    /\ cycles[e].pc # "idle"
    /\ CountFault
    /\ adrift' = adrift \cup Enriched(cycles[e])
    /\ cycles' = [cycles EXCEPT ![e] = NoCycle]
    /\ UNCHANGED <<remote, rows, nodes, day>>

CountNext ==
    \/ DayPasses
    \/ \E e \in Enrichments :
          \/ StartCycle(e) \/ NextRelease(e) \/ CountRateLimited(e) \/ FetchFails(e)
          \/ FetchCounts(e) \/ StoreCounts(e) \/ UpdateNodes(e) \/ BatchLost(e)

-----------------------------------------------------------------------------
(* A release no running request was given has in the graph the counts      *)
(* PostgreSQL has, unless the last batch with it was lost, or crossed that *)
(* of another request, whose older counts may have come last: such a node  *)
(* waits until the stored count is stale and one request alone renews it.  *)
(* And the three numbers a request answers add up: none of its releases is *)
(* both fetched and failed.                                                *)
GraphHasStoredCounts ==
    /\ \A r \in Listed \ adrift :
          (\A e \in Enrichments : r \notin cycles[e].ids) => nodes[r] = rows[r].v
    /\ \A e \in Enrichments :
          Cardinality(Enriched(cycles[e])) + cycles[e].errors <= Cardinality(cycles[e].ids)
=============================================================================
