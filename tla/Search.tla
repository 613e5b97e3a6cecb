------------------------------- MODULE Search -------------------------------
(***************************************************************************)
(* Full-text search (api/queries/search_queries.py, api/routers/search.py, *)
(* api/identity.py): clients page through the matches of one query with    *)
(* LIMIT and OFFSET.  An uncached page runs its statements concurrently,   *)
(* each inside a slot of a bounded set and on a connection of the pool,    *)
(* then looks up native ids on one more connection, and stores the body.   *)
(*                                                                         *)
(* The rows are those the query text matches.  The four facet statements   *)
(* run alike and are one statement here; what they count is defined below. *)
(***************************************************************************)
EXTENDS Integers, Sequences, FiniteSets, SequencesExt, FiniteSetsExt

CONSTANTS
    Clients,        \* concurrent searches
    Tables,         \* the catalogs a search may meet: sets of rows, see NullSet
    Filters,        \* requests: [types, genres, media, countries, from, to]
    SearchLimit,    \* limit
    CountCap,       \* _TOTAL_COUNT_CAP
    PoolSize,       \* connections of the pool
    Reserve,        \* SEARCH_POOL_RESERVE
    MaxPages,       \* bound: pages requested, by all clients
    MaxSearchFaults \* bound: timeouts and failures of Valkey

VARIABLES
    searchTable,          \* the rows, [type, id, rank, year, genres, media, country]
    searchCache,    \* bodies in Valkey by cache_key
    client,         \* what each client is doing
    freeSlots, freeConns, pagesAsked, searchFaults

searchVars == <<searchTable, searchCache, client, freeSlots, freeConns, pagesAsked, searchFaults>>

ASSUME SearchAssumption == SearchLimit > 0 /\ PoolSize \in Nat /\ Reserve \in Nat /\ PoolSize > Reserve

-----------------------------------------------------------------------------
(* SQL NULL, which every filter lets pass: a year, a country, or an array. *)
NullYear == 0
NullText == "null"
NullSet == {"null"}

Statements == {"results", "total", "facets"}

(* _search_slots.                                                          *)
Slots == IF PoolSize - Reserve > 1 THEN PoolSize - Reserve ELSE 1

NoSearch == [pc |-> "idle", f |-> [types |-> {}], seen |-> <<>>, more |-> FALSE,
             run |-> [s \in Statements |-> "none"], rows |-> <<>>, total |-> 0, calm |-> FALSE]

SearchInit ==
    /\ searchTable \in Tables
    /\ searchCache = {}
    /\ client = [c \in Clients |-> NoSearch]
    /\ freeSlots = Slots
    /\ freeConns = PoolSize
    /\ pagesAsked = 0 /\ searchFaults = 0

SearchFault == searchFaults < MaxSearchFaults /\ searchFaults' = searchFaults + 1
SetClient(c, r) == client' = [client EXCEPT ![c] = r]

(* _year_filter_clause, _genre_filter_clause, _media_filter_clause and     *)
(* _country_filter_clause.                                                 *)
YearFilterPasses(r, f) == r.year = NullYear \/ ((f.from = 0 \/ r.year >= f.from) /\ (f.to = 0 \/ r.year <= f.to))
GenrePasses(r, f) == f.genres = {} \/ r.genres = NullSet \/ r.genres \cap f.genres # {}
MediaPasses(r, f) == f.media = {} \/ r.media = NullSet \/ r.media \cap f.media # {}
CountryPasses(r, f) == f.countries = {} \/ r.country = NullText \/ r.country \in f.countries

(* The branch of the UNION ALL for one entity type.                        *)
Branch(t, f) ==
    {r \in searchTable : /\ r.type = t
                   /\ YearFilterPasses(r, f) /\ GenrePasses(r, f)
                   /\ MediaPasses(r, f) /\ CountryPasses(r, f)}

(* _entity_select: the branch under its rank cap, ties broken by data_id.  *)
BranchBefore(r, s) == r.rank > s.rank \/ (r.rank = s.rank /\ r.id < s.id)

RankCapped(t, f, cap) ==
    {r \in Branch(t, f) : Cardinality({s \in Branch(t, f) : BranchBefore(s, r)}) < cap}

(* _run_results: ORDER BY rank DESC, id, and rows of different types with  *)
(* one rank and one id in an order each execution chooses.                 *)
PerTableLimit(offset) == (SearchLimit + offset) * 2

SearchCandidates(f, offset) == UNION {RankCapped(t, f, PerTableLimit(offset)) : t \in f.types}

ResultOrders(f, offset) ==
    {s \in SetToSeqs(SearchCandidates(f, offset)) :
        \A i, j \in DOMAIN s : i < j => ~BranchBefore(s[j], s[i])}

PageAt(s, offset) ==
    SubSeq(s, offset + 1, IF offset + SearchLimit < Len(s) THEN offset + SearchLimit ELSE Len(s))

(* _build_count_union and _run_total: each branch counted up to the cap.   *)
Capped(n) == IF n < CountCap THEN n ELSE CountCap
Total(f) == MapThenSumSet(LAMBDA t : Capped(Cardinality(Branch(t, f))), f.types)

(* _run_type_counts, _run_genre_facets, _run_decade_facets and             *)
(* _run_media_facets: of the query text, whatever the filters.             *)
TypeCount(t) == Capped(Cardinality({r \in searchTable : r.type = t}))
GenreFacet(g) == Cardinality({r \in searchTable : r.type = "release" /\ g \in r.genres})
DecadeFacet(d) ==
    Cardinality({r \in searchTable : r.type \in {"master", "release"} /\ r.year # NullYear /\ r.year \div 10 = d})
MediaFacet(m) == Cardinality({r \in searchTable : r.type = "release" /\ m \in r.media})

-----------------------------------------------------------------------------
(* cache_key.                                                              *)
SearchKey(f, offset) == <<f, offset>>

Has(key) == \E e \in searchCache : e.key = key
Get(key) == (CHOOSE e \in searchCache : e.key = key).body

(* A client begins with the first page of a query.                         *)
Search(c, f) ==
    /\ client[c].pc = "idle" /\ pagesAsked < MaxPages
    /\ pagesAsked' = pagesAsked + 1
    /\ SetClient(c, [NoSearch EXCEPT !.f = f, !.pc = "ask", !.calm = TRUE])
    /\ UNCHANGED <<searchTable, searchCache, freeSlots, freeConns, searchFaults>>

NextResults(c) ==
    /\ client[c].pc = "read" /\ client[c].more /\ pagesAsked < MaxPages
    /\ pagesAsked' = pagesAsked + 1
    /\ SetClient(c, [client[c] EXCEPT !.pc = "ask"])
    /\ UNCHANGED <<searchTable, searchCache, freeSlots, freeConns, searchFaults>>

(* The client has the page: has_more compares the offset with the total,   *)
(* and an empty page ends the walk as well.                                *)
Delivered(r, body) ==
    [r EXCEPT !.pc = "read", !.seen = @ \o body.rows, !.run = NoSearch.run, !.rows = <<>>, !.total = 0,
              !.more = body.rows # <<>> /\ Len(r.seen) + Len(body.rows) < body.total]

(* execute_search: the cache, or the statements when it misses or fails.   *)
AskCache(c) ==
    LET r == client[c]  key == SearchKey(r.f, Len(r.seen)) IN
    /\ r.pc = "ask"
    /\ \/ Has(key) /\ SetClient(c, Delivered(r, Get(key))) /\ UNCHANGED searchFaults
       \/ /\ ~Has(key) /\ UNCHANGED searchFaults
          /\ SetClient(c, [r EXCEPT !.pc = "gather", !.run = [s \in Statements |-> "queued"]])
       \/ /\ Has(key) /\ SearchFault
          /\ SetClient(c, [r EXCEPT !.pc = "gather", !.run = [s \in Statements |-> "queued"]])
    /\ UNCHANGED <<searchTable, searchCache, freeSlots, freeConns, pagesAsked>>

(* _search_cursor: a slot within the queue timeout, then a connection.     *)
TakeSlot(c, s) ==
    /\ client[c].run[s] = "queued" /\ freeSlots > 0
    /\ freeSlots' = freeSlots - 1
    /\ SetClient(c, [client[c] EXCEPT !.run[s] = "slot"])
    /\ UNCHANGED <<searchTable, searchCache, freeConns, pagesAsked, searchFaults>>

Busy(c, s) ==
    /\ client[c].run[s] = "queued" /\ freeSlots = 0
    /\ SetClient(c, [client[c] EXCEPT !.run[s] = "busy"])
    /\ UNCHANGED <<searchTable, searchCache, freeSlots, freeConns, pagesAsked, searchFaults>>

Connect(c, s) ==
    /\ client[c].run[s] = "slot" /\ freeConns > 0
    /\ freeConns' = freeConns - 1
    /\ SetClient(c, [client[c] EXCEPT !.run[s] = "running"])
    /\ UNCHANGED <<searchTable, searchCache, freeSlots, pagesAsked, searchFaults>>

(* The statement ends, or is cancelled at its timeout; either way the      *)
(* connection and the slot go back.                                        *)
StatementEnds(c, s) ==
    LET r == client[c]  offset == Len(r.seen) IN
    /\ r.run[s] = "running"
    /\ freeConns' = freeConns + 1
    /\ freeSlots' = freeSlots + 1
    /\ \/ /\ s = "results"
          /\ \E order \in ResultOrders(r.f, offset) :
                SetClient(c, [r EXCEPT !.run[s] = "done", !.rows = PageAt(order, offset)])
          /\ UNCHANGED searchFaults
       \/ /\ s = "total"
          /\ SetClient(c, [r EXCEPT !.run[s] = "done", !.total = Total(r.f)])
          /\ UNCHANGED searchFaults
       \/ /\ s = "facets"
          /\ SetClient(c, [r EXCEPT !.run[s] = "done"])
          /\ UNCHANGED searchFaults
       \/ SearchFault /\ SetClient(c, [r EXCEPT !.run[s] = "timed out"])
    /\ UNCHANGED <<searchTable, searchCache, pagesAsked>>

(* Mutant: the first failure is raised while its siblings run.             *)
SettledOnFailure(r) ==
    \/ \A s \in Statements : r.run[s] \in {"done", "busy", "timed out"}
    \/ \E s \in Statements : r.run[s] \in {"busy", "timed out"}

(* asyncio.gather with return_exceptions.                                  *)
Settled(r) == \A s \in Statements : r.run[s] \in {"done", "busy", "timed out"}

(* A failure is a 503 or a 504, never cached; the client gives up.         *)
Fails(c) ==
    LET r == client[c] IN
    /\ r.pc = "gather" /\ Settled(r)
    /\ \E s \in Statements : r.run[s] \in {"busy", "timed out"}
    /\ SetClient(c, [r EXCEPT !.pc = "idle", !.more = FALSE, !.calm = FALSE])
    /\ UNCHANGED <<searchTable, searchCache, freeSlots, freeConns, pagesAsked, searchFaults>>

(* native_ids_for_pairs: on a connection of the pool, outside the slots.   *)
LookUpIds(c) ==
    LET r == client[c] IN
    /\ r.pc = "gather" /\ \A s \in Statements : r.run[s] = "done"
    /\ \/ r.rows # <<>> /\ freeConns > 0 /\ freeConns' = freeConns - 1 /\ SetClient(c, [r EXCEPT !.pc = "ids"])
       \/ r.rows = <<>> /\ SetClient(c, [r EXCEPT !.pc = "respond"]) /\ UNCHANGED freeConns
    /\ UNCHANGED <<searchTable, searchCache, freeSlots, pagesAsked, searchFaults>>

IdsFound(c) ==
    /\ client[c].pc = "ids"
    /\ freeConns' = freeConns + 1
    /\ SetClient(c, [client[c] EXCEPT !.pc = "respond"])
    /\ UNCHANGED <<searchTable, searchCache, freeSlots, pagesAsked, searchFaults>>

RespondSearch(c) ==
    LET r == client[c]
        body == [rows |-> r.rows, total |-> r.total]
        key == SearchKey(r.f, Len(r.seen))
    IN  /\ r.pc = "respond"
        /\ SetClient(c, Delivered(r, body))
        /\ \/ /\ searchCache' = {e \in searchCache : e.key # key} \cup {[key |-> key, body |-> body]}
              /\ UNCHANGED searchFaults
           \/ SearchFault /\ UNCHANGED searchCache
        /\ UNCHANGED <<searchTable, freeSlots, freeConns, pagesAsked>>

SearchNext ==
    \/ \E c \in Clients, f \in Filters : Search(c, f)
    \/ \E c \in Clients : \/ NextResults(c) \/ AskCache(c) \/ Fails(c)
                          \/ LookUpIds(c) \/ IdsFound(c) \/ RespondSearch(c)
    \/ \E c \in Clients, s \in Statements : \/ TakeSlot(c, s) \/ Busy(c, s)
                                            \/ Connect(c, s) \/ StatementEnds(c, s)

-----------------------------------------------------------------------------
(* What a search matches, and the matches that its final order cannot tell *)
(* from one: an id is unique within a type only.                           *)
Matches(f) == UNION {Branch(t, f) : t \in f.types}
Tied(m, f) == {s \in Matches(f) : s.rank = m.rank /\ s.id = m.id}

(* The client has paged to the end of its results, no page failed, and no  *)
(* type was counted up to the cap only.                                    *)
WalkedToTheEnd(r) ==
    r.pc = "read" /\ ~r.more /\ r.calm /\ \A t \in r.f.types : Cardinality(Branch(t, r.f)) <= CountCap

(* A client that has paged to the end of its results, in a catalog that    *)
(* does not change, has seen matches only, as many as the total beside     *)
(* them, and each match once (_run_results); matches of different types    *)
(* with one rank and one id, which the final order leaves to each          *)
(* execution, share the places they take among themselves, so a match that *)
(* ties with no other is always shown.  Without filters the type facet     *)
(* adds up to the total.                                                   *)
SearchWalkIsExact ==
    \A c \in Clients : LET r == client[c] IN WalkedToTheEnd(r) =>
        /\ ToSet(r.seen) \subseteq Matches(r.f)
        /\ Len(r.seen) = Total(r.f)
        /\ \A m \in Matches(r.f) :
              Cardinality({i \in DOMAIN r.seen : r.seen[i] \in Tied(m, r.f)}) = Cardinality(Tied(m, r.f))
        /\ (r.f.genres \cup r.f.media \cup r.f.countries = {} /\ r.f.from = 0 /\ r.f.to = 0) =>
              MapThenSumSet(TypeCount, r.f.types) = Total(r.f)

(* The claim of tests/test_search.py:1074 and :1084: the final order has a *)
(* unique tiebreaker, so that the pages are consistent across executions   *)
(* and a walk shows every match.  It does not hold for a search over       *)
(* several types, whose ids may coincide (_run_results, _build_union).     *)
PagesAreConsistent ==
    \A c \in Clients : WalkedToTheEnd(client[c]) => ToSet(client[c].seen) = Matches(client[c].f)

(* No search that has answered, failed or gone on to its native ids leaves *)
(* a statement behind that holds a slot or a connection.                   *)
SearchLeavesNothingRunning ==
    /\ \A c \in Clients, s \in Statements :
          client[c].run[s] \in {"slot", "running"} => client[c].pc = "gather"
    /\ freeSlots + Cardinality({x \in Clients \X Statements : client[x[1]].run[x[2]] \in {"slot", "running"}}) = Slots

(* The reserve that searches never take: what a search holds, for its      *)
(* statements and for its native ids, leaves Reserve connections free.     *)
(* It does not hold: see "Observations" in the README.                     *)
ReserveIsKept == freeConns >= Reserve
=============================================================================
