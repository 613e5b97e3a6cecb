--------------------------- MODULE Recommendations ---------------------------
(***************************************************************************)
(* The personal surfaces: similar artists and explore-from-here            *)
(* (api/routers/recommend.py) and the CrateFit profile (api/routers/       *)
(* fit.py). Each reads a body from Valkey or computes it, caches it, and   *)
(* only then records the showing (api/activity.py), while syncs change the *)
(* shelves the bodies are computed from (api/syncer.py, api/cache.py) and  *)
(* releases of the embedding batch change what is precomputed.             *)
(***************************************************************************)
EXTENDS Integers, Sequences, FiniteSets

CONSTANTS
    Callers,        \* one request each at a time
    Collectors,     \* accounts
    Genres,         \* genres of the graph; a shelf is the set of genres it holds
    Similar,        \* Similar[v]: ranked artists, v Heuristic or a model version
    Found,          \* discoveries of the traversal: a sequence of [name, type, dist]
    Identified,     \* artists, names and releases that have a native id
    Limits,         \* the limit parameter of a request
    FitTtl, ExploreTtl, SimilarTtl,
    MaxCalls, MaxClock, MaxShelfChanges, MaxRecFaults      \* bounds

ASSUME RankedLists ==
    /\ "heuristic" \in DOMAIN Similar
    /\ \A v \in DOMAIN Similar : v \notin {"explore", "fit"} /\ Similar[v] \in Seq(STRING)
ASSUME FoundThings == Found \in Seq([name : STRING, type : STRING, dist : Nat])
ASSUME RecBounds ==
    /\ Limits \subseteq Nat
    /\ {FitTtl, ExploreTtl, SimilarTtl} \subseteq Nat \ {0}
    /\ {MaxCalls, MaxClock, MaxShelfChanges, MaxRecFaults} \subseteq Nat

VARIABLES
    recClock,          \* in steps far longer than a request
    shelves,        \* shelves[u]: the graph's COLLECTED edges of u
    bodies,         \* Valkey: bodies[k], NoBody when absent or expired
    current,        \* model version of the release that is_current, or Heuristic
    call,           \* call[c]: the request of caller c
    showings,       \* the impressions table
    sweeping,       \* collectors whose sync has written and not yet invalidated
    calls, changes, recFaults

recVars == <<recClock, shelves, bodies, current, call, showings, sweeping, calls, changes, recFaults>>

Heuristic == "heuristic"

Versions == DOMAIN Similar

NoBody == [at |-> 0 - 1]

(* The keys: the model version names the path that ranked a similar list,  *)
(* and a session's fit body has a key of its own.                          *)
FitKeyShared(u, entries) == <<"fit", u, TRUE>>

FitKey(u, entries) == <<"fit", u, entries>>

SimilarKey(v) == <<"similar", v>>

ExploreKey(u) == <<"explore", u>>

CollectionKey(u) == <<"collection", u>>

BodyKeys ==
    {SimilarKey(v) : v \in Versions} \cup {ExploreKey(u) : u \in Collectors}
        \cup {CollectionKey(u) : u \in Collectors}
        \cup {<<"fit", u, e>> : u \in Collectors, e \in BOOLEAN}

TtlOf(key) ==
    CASE key[1] = "similar" -> SimilarTtl [] key[1] = "explore" -> ExploreTtl [] OTHER -> FitTtl

NoCall == [pc |-> "idle"]

RecInit ==
    /\ recClock = 0
    /\ shelves \in [Collectors -> SUBSET Genres]
    /\ bodies = [k \in BodyKeys |-> NoBody]
    /\ current \in Versions
    /\ call = [c \in Callers |-> NoCall]
    /\ showings = {}
    /\ sweeping = {}
    /\ calls = 0 /\ changes = 0 /\ recFaults = 0

RecFault == recFaults < MaxRecFaults /\ recFaults' = recFaults + 1

(* The record r with these fields written.                                 *)
Written(r, fields) ==
    [f \in DOMAIN fields \cup DOMAIN r |-> IF f \in DOMAIN fields THEN fields[f] ELSE r[f]]

Move(c, fields) == call' = [call EXCEPT ![c] = Written(call[c], fields)]

(* RecommendCache.get: a Valkey error is a miss.                           *)
Fresh(k) == bodies[k] # NoBody

(* RecommendCache.set, best effort.                                        *)
SetBody(k, body) ==
    \/ bodies' = [bodies EXCEPT ![k] = [at |-> recClock, body |-> body]] /\ UNCHANGED recFaults
    \/ RecFault /\ UNCHANGED bodies

-----------------------------------------------------------------------------
(* A request: similar artists are open to anonymous callers, explore takes *)
(* a session, fit a session or an app token that carries fit:read.         *)
AskPersonal(c) ==
    /\ call[c].pc \in {"idle", "shown"}
    /\ calls < MaxCalls
    /\ calls' = calls + 1
    /\ \E who \in Collectors \cup {"anonymous"}, via \in {"jwt", "app"},
          surface \in {"similar", "explore", "fit"}, limit \in Limits :
          /\ who = "anonymous" => surface = "similar"
          /\ via = "app" => surface = "fit"
          /\ call' = [call EXCEPT ![c] =
                 [pc |-> IF surface = "similar" THEN "list" ELSE "cached", who |-> who, via |-> via,
                  surface |-> surface, limit |-> limit,
                  list |-> IF surface = "similar" THEN Heuristic ELSE surface,
                  key |-> CASE surface = "explore" -> ExploreKey(who)
                            [] surface = "fit" -> FitKey(who, via = "jwt")
                            [] OTHER -> SimilarKey(Heuristic)]]
    /\ UNCHANGED <<recClock, shelves, bodies, current, showings, sweeping, changes, recFaults>>

(* get_current_list: no current release, an artist absent from it and an   *)
(* unreadable table all answer None: Heuristic.                           *)
GetCurrentList(c) ==
    /\ call[c].pc = "list"
    /\ \/ Move(c, [pc |-> "cached", list |-> current, key |-> SimilarKey(current)]) /\ UNCHANGED recFaults
       \/ RecFault /\ Move(c, [pc |-> "cached"])
    /\ UNCHANGED <<recClock, shelves, bodies, current, showings, sweeping, calls, changes>>

GetBody(c) ==
    LET k == call[c].key
        computing == CASE k[1] = "similar" -> "rank" [] k[1] = "explore" -> "traverse"
                       [] OTHER -> "context"
    IN  /\ call[c].pc = "cached"
        /\ \/ /\ Fresh(k)
              /\ Move(c, [pc |-> "stamp", body |-> bodies[k].body])
              /\ UNCHANGED recFaults
           \/ ~Fresh(k) /\ Move(c, [pc |-> computing]) /\ UNCHANGED recFaults
           \/ Fresh(k) /\ RecFault /\ Move(c, [pc |-> computing])
        /\ UNCHANGED <<recClock, shelves, bodies, current, showings, sweeping, calls, changes>>

-----------------------------------------------------------------------------
(* similar_artists: the precomputed ranking, or the heuristic one when     *)
(* there is no list or the stored vectors cannot be read. The fallback     *)
(* changes the key along with the ranking.                                 *)
FallbackKeyKept(k) == k

FallbackKey(k) == SimilarKey(Heuristic)

RankSimilar(c) ==
    /\ call[c].pc = "rank"
    /\ \/ /\ Move(c, [pc |-> "set", body |-> [items |-> Similar[call[c].list], by |-> call[c].list]])
          /\ UNCHANGED recFaults
       \/ /\ call[c].key # SimilarKey(Heuristic)
          /\ RecFault
          /\ Move(c, [pc |-> "set", list |-> Heuristic, key |-> FallbackKey(call[c].key),
                      body |-> [items |-> Similar[Heuristic], by |-> Heuristic]])
    /\ UNCHANGED <<recClock, shelves, bodies, current, showings, sweeping, calls, changes>>

(* score_discoveries, in sixtieths: a blind spot (a genre the shelf lacks) *)
(* 1.0 * 1.5, a held genre its share of the shelf, an artist or a label    *)
(* one over its distance; the best first, ties in traversal order.         *)
ScoreOf(d, shelf) ==
    CASE d.type = "genre" -> IF d.name \in shelf THEN 60 \div Cardinality(shelf) ELSE 90
      [] d.type = "style" -> IF d.name \in shelf THEN 0 ELSE 90
      [] OTHER -> IF d.dist > 0 THEN 60 \div d.dist ELSE 30

ScoreDiscoveries(shelf) ==
    LET before(i, j) == \/ ScoreOf(Found[i], shelf) > ScoreOf(Found[j], shelf)
                        \/ ScoreOf(Found[i], shelf) = ScoreOf(Found[j], shelf) /\ i <= j
        place(j) == Cardinality({i \in 1..Len(Found) : before(i, j)})
    IN  [n \in 1..Len(Found) |-> Found[CHOOSE j \in 1..Len(Found) : place(j) = n].name]

(* explore_from_here: traversal, heat map and blind spots are gathered; a  *)
(* hub that is still being computed answers 503.                           *)
Traverse(c) ==
    /\ call[c].pc = "traverse"
    /\ \/ /\ Move(c, [pc |-> "set",
                      body |-> [items |-> ScoreDiscoveries(shelves[call[c].who]), by |-> "explore",
                                of |-> call[c].who, read |-> recClock]])
          /\ UNCHANGED recFaults
       \/ RecFault /\ call' = [call EXCEPT ![c] = NoCall]
    /\ UNCHANGED <<recClock, shelves, bodies, current, showings, sweeping, calls, changes>>

(* release_fit: the candidate's context (a 404 ends the request), then the *)
(* folded collection from its own cache entry or from the graph.           *)
GetReleaseContext(c) ==
    /\ call[c].pc = "context"
    /\ Move(c, [pc |-> "collection"]) \/ call' = [call EXCEPT ![c] = NoCall]
    /\ UNCHANGED <<recClock, shelves, bodies, current, showings, sweeping, calls, changes, recFaults>>

GetCollectionIds(c) ==
    LET k == CollectionKey(call[c].who)
    IN  /\ call[c].pc = "collection"
        /\ \/ /\ Fresh(k)
              /\ Move(c, [pc |-> "fit", folded |-> bodies[k].body])
              /\ UNCHANGED recFaults
           \/ ~Fresh(k) /\ Move(c, [pc |-> "read"]) /\ UNCHANGED recFaults
           \/ Fresh(k) /\ RecFault /\ Move(c, [pc |-> "read"])
        /\ UNCHANGED <<recClock, shelves, bodies, current, showings, sweeping, calls, changes>>

FoldCollection(c) ==
    /\ call[c].pc = "read"
    /\ Move(c, [pc |-> "keep", folded |-> [of |-> call[c].who, shelf |-> shelves[call[c].who],
                                           read |-> recClock]])
    /\ UNCHANGED <<recClock, shelves, bodies, current, showings, sweeping, calls, changes, recFaults>>

SetCollection(c) ==
    /\ call[c].pc = "keep"
    /\ SetBody(CollectionKey(call[c].who), call[c].folded)
    /\ Move(c, [pc |-> "fit"])
    /\ UNCHANGED <<recClock, shelves, current, showings, sweeping, calls, changes>>

(* compute_fit over the folded collection; evidence_entries for a session. *)
ComputeFit(c) ==
    /\ call[c].pc = "fit"
    /\ Move(c, [pc |-> "set",
                body |-> [items |-> <<"release">>, by |-> "fit", of |-> call[c].folded.of,
                          read |-> call[c].folded.read, entries |-> call[c].via = "jwt"]])
    /\ UNCHANGED <<recClock, shelves, bodies, current, showings, sweeping, calls, changes, recFaults>>

(* The whole body is cached, before it is stamped and cut to the limit.    *)
CacheBody(c) ==
    /\ call[c].pc = "set"
    /\ SetBody(call[c].key, call[c].body)
    /\ Move(c, [pc |-> "stamp"])
    /\ UNCHANGED <<recClock, shelves, current, showings, sweeping, calls, changes>>

-----------------------------------------------------------------------------
(* stamp_recommendation_impressions and _stamp_impression: the page shown, *)
(* its identified items recorded with their position on that page; without *)
(* an account, or when the write fails, every item shows no id.            *)
Shown(c) ==
    SubSeq(call[c].body.items, 1,
           CHOOSE n \in {call[c].limit, Len(call[c].body.items)} :
              n <= call[c].limit /\ n <= Len(call[c].body.items))

Entries(c) == {n \in 1..Len(Shown(c)) : Shown(c)[n] \in Identified /\ call[c].who # "anonymous"}

PositionAmongIdentified(c, n) == Cardinality(Entries(c) \cap 1..n)

PositionOf(c, n) == n

PolicyOf(list) == IF list \in Versions \ {Heuristic} THEN "precomputed" ELSE list

StampImpressions(c) ==
    LET id(n) == Cardinality(showings) + Cardinality(Entries(c) \cap 1..n)
        answer(page) == [pc |-> "shown", who |-> call[c].who, via |-> call[c].via, body |-> call[c].body,
                         items |-> Shown(c), page |-> page, at |-> recClock]
    IN  /\ call[c].pc = "stamp"
        /\ \/ /\ showings' = showings \cup
                     {[id |-> id(n), who |-> call[c].who, policy |-> PolicyOf(call[c].list),
                       item |-> Shown(c)[n], position |-> PositionOf(c, n)] : n \in Entries(c)}
              /\ call' = [call EXCEPT ![c] =
                     answer([n \in 1..Len(Shown(c)) |-> IF n \in Entries(c) THEN id(n) ELSE 0])]
              /\ UNCHANGED recFaults
           \/ /\ RecFault
              /\ Entries(c) # {}
              /\ call' = [call EXCEPT ![c] = answer([n \in 1..Len(Shown(c)) |-> 0])]
              /\ UNCHANGED showings
        /\ UNCHANGED <<recClock, shelves, bodies, current, sweeping, calls, changes>>

-----------------------------------------------------------------------------
(* run_full_sync: pages commit as they go; whatever became of the run, its *)
(* finally block then sweeps the collector's keys, swallowing failures.    *)
SyncPage(u) ==
    /\ changes < MaxShelfChanges
    /\ changes' = changes + 1
    /\ \E g \in SUBSET Genres : g # shelves[u] /\ shelves' = [shelves EXCEPT ![u] = g]
    /\ sweeping' = sweeping \cup {u}
    /\ UNCHANGED <<recClock, bodies, current, call, showings, calls, recFaults>>

SweptBy(u) == {ExploreKey(u), CollectionKey(u), <<"fit", u, TRUE>>, <<"fit", u, FALSE>>}

SweepUser(u) ==
    /\ u \in sweeping
    /\ sweeping' = sweeping \ {u}
    /\ \/ /\ bodies' = [k \in BodyKeys |-> IF k \in SweptBy(u) THEN NoBody ELSE bodies[k]]
          /\ UNCHANGED recFaults
       \/ RecFault /\ UNCHANGED bodies
    /\ UNCHANGED <<recClock, shelves, current, call, showings, calls, changes>>

(* The monthly batch publishes a release, or withdraws the current one.    *)
PublishRelease ==
    /\ changes < MaxShelfChanges
    /\ changes' = changes + 1
    /\ current' \in Versions \ {current}
    /\ UNCHANGED <<recClock, shelves, bodies, call, showings, sweeping, calls, recFaults>>

(* Time passes between requests: a tick is minutes, a request far less.    *)
RecTick ==
    /\ recClock < MaxClock /\ calls < MaxCalls
    /\ \A c \in Callers : call[c].pc \in {"idle", "shown"}
    /\ recClock' = recClock + 1
    /\ bodies' = [k \in BodyKeys |-> IF bodies[k] # NoBody /\ recClock' < bodies[k].at + TtlOf(k)
                                     THEN bodies[k] ELSE NoBody]
    /\ UNCHANGED <<shelves, current, call, showings, sweeping, calls, changes, recFaults>>

RecNext ==
    \/ \E c \in Callers :
          \/ AskPersonal(c) \/ GetCurrentList(c) \/ GetBody(c) \/ RankSimilar(c) \/ Traverse(c)
          \/ GetReleaseContext(c) \/ GetCollectionIds(c) \/ FoldCollection(c) \/ SetCollection(c)
          \/ ComputeFit(c) \/ CacheBody(c) \/ StampImpressions(c)
    \/ \E u \in Collectors : SyncPage(u) \/ SweepUser(u)
    \/ PublishRelease \/ RecTick

-----------------------------------------------------------------------------
Answered == {c \in Callers : call[c].pc = "shown"}

(* An impression id a client is shown has its row, and the row tells the   *)
(* truth: this viewer, this item at this place of the page, and the policy *)
(* that really ranked the body, whichever request computed and cached it.  *)
(* No two answers share an id.                                             *)
ImpressionsTellTheTruth ==
    \A c \in Answered :
        /\ \A n \in DOMAIN call[c].page :
              call[c].page[n] # 0 =>
                  \E r \in showings :
                      /\ r.id = call[c].page[n] /\ r.who = call[c].who
                      /\ r.item = call[c].items[n] /\ r.position = n
                      /\ r.policy = PolicyOf(call[c].body.by)
        /\ \A d \in Answered \ {c} :
              \A n \in DOMAIN call[c].page, m \in DOMAIN call[d].page :
                  call[c].page[n] = call[d].page[m] => call[c].page[n] = 0

Personal(c) == call[c].body.by \in {"explore", "fit"}

(* A personal answer is computed from the viewer's own shelf, and the      *)
(* uncapped evidence reaches sessions only, never an app token, although   *)
(* both read and fill the same cache.                                      *)
PersonalAnswersAreOwn ==
    \A c \in Answered : Personal(c) =>
        /\ call[c].body.of = call[c].who
        /\ call[c].body.by = "fit" /\ call[c].body.entries => call[c].via = "jwt"

(* However syncs, failed sweeps and late cache fills interleave, the shelf *)
(* behind an explore answer was read within its TTL, and the one behind a  *)
(* fit answer within two: the body's and its input's.                      *)
PersonalAnswersAreRecent ==
    \A c \in Answered : Personal(c) =>
        call[c].at - call[c].body.read < (IF call[c].body.by = "fit" THEN 2 * FitTtl ELSE ExploreTtl)

(* routers/fit.py of the body's TTL: "caching the body for longer than its *)
(* inputs would serve a profile whose evidence the collector could already *)
(* see was stale".                                                         *)
(* It does not hold: see "Observations" in the README.                     *)
FitIsNoOlderThanItsInput ==
    \A c \in Answered : call[c].body.by = "fit" => call[c].at - call[c].body.read < FitTtl
=============================================================================
