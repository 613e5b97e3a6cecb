---------------------------- MODULE ImportCaches ----------------------------
(***************************************************************************)
(* The import watch (api/import_cache.py), which empties the Explore,      *)
(* trends, strata and expand caches while requests fill them.  An import   *)
(* passes through three states of the graph, numbered in order: loading,   *)
(* maintained, swept (stats_version set); a cached value is the state its  *)
(* counts were read in.  CacheBudget has the write path of an entry.       *)
(***************************************************************************)
EXTENDS Integers, FiniteSets

CONSTANTS
    Keys,           \* cache keys requests may ask for
    Fillers,        \* requests that fill the cache
    Watchers,       \* replicas that run the watch
    Imports,        \* bound: imports after the first
    MaxFills,       \* bound: fills begun
    MaxWatchFaults  \* bound: failed or interrupted polls

VARIABLES
    graph,     \* the state of the graph, 3 * import + {0, 1, 2}
    latched,   \* the newest import complete in SQL
    cache,     \* cache[k]: the state the entry's value was read in, None when absent
    filler,    \* filler[w]: a fill in progress
    watch,     \* watch[v]: a poll in progress
    importMarker,    \* _MARKER_KEY: the state last acted on, None before the first
    wait,      \* _WAIT_KEY: the import whose maintenance is awaited, None when cleared
    crossed,   \* history: entries stored by a fill that an invalidation overtook
    unmarked,  \* history: entries whose fill began before the first mark
    fills, watchFaults

cached == <<cache, crossed, unmarked>>
importVars == <<graph, latched, cached, filler, watch, importMarker, wait, fills, watchFaults>>

-----------------------------------------------------------------------------
None == -1

ASSUME KeysAreKeys == None \notin Keys

NoFill == [key |-> None, read |-> None, crossed |-> FALSE, early |-> FALSE]
NoPoll == [pc |-> "idle", state |-> None, todo |-> {}]

ImportInit ==
    /\ graph = 0
    /\ latched = None
    /\ cache = [k \in Keys |-> None]
    /\ filler = [w \in Fillers |-> NoFill]
    /\ watch = [v \in Watchers |-> NoPoll]
    /\ importMarker = None /\ wait = None
    /\ crossed = {} /\ unmarked = {}
    /\ fills = 0 /\ watchFaults = 0

(* The loader, graphinator and the enricher.  Import 0 is loading at the   *)
(* start; an import is latched in SQL before or after its graph is done.   *)
Import == graph \div 3

GraphMoves ==
    /\ graph < 3 * Imports + 2
    /\ graph % 3 = 2 => latched = Import
    /\ graph' = graph + 1
    /\ UNCHANGED <<latched, cached, filler, watch, importMarker, wait, fills, watchFaults>>

SqlLatches ==
    /\ latched < Import
    /\ latched' = Import
    /\ UNCHANGED <<graph, cached, filler, watch, importMarker, wait, fills, watchFaults>>

(* An entry leaves the cache: expired, evicted or deleted.                 *)
Drop(k) ==
    /\ cache' = [cache EXCEPT ![k] = None]
    /\ crossed' = crossed \ {k}
    /\ unmarked' = unmarked \ {k}

EntryGoes(k) ==
    /\ cache[k] # None
    /\ Drop(k)
    /\ UNCHANGED <<graph, latched, filler, watch, importMarker, wait, fills, watchFaults>>

-----------------------------------------------------------------------------
(* A request misses the cache and reads the graph; its write comes later,  *)
(* or not at all.                                                          *)
Fill(w, k) ==
    /\ filler[w].key = None
    /\ cache[k] = None
    /\ fills < MaxFills
    /\ fills' = fills + 1
    /\ filler' = [filler EXCEPT ![w] = [key |-> k, read |-> graph, crossed |-> FALSE,
                                        early |-> importMarker = None]]
    /\ UNCHANGED <<graph, latched, cached, watch, importMarker, wait, watchFaults>>

With(s, k, in) == IF in THEN s \cup {k} ELSE s \ {k}

StoreFill(w) ==
    LET f == filler[w]
    IN  /\ f.key # None
        /\ cache' = [cache EXCEPT ![f.key] = f.read]
        /\ crossed' = With(crossed, f.key, f.crossed)
        /\ unmarked' = With(unmarked, f.key, f.early)
        /\ filler' = [filler EXCEPT ![w] = NoFill]
        /\ UNCHANGED <<graph, latched, watch, importMarker, wait, fills, watchFaults>>

FillNotStored(w) ==
    /\ filler[w].key # None
    /\ filler' = [filler EXCEPT ![w] = NoFill]
    /\ UNCHANGED <<graph, latched, cached, watch, importMarker, wait, fills, watchFaults>>

-----------------------------------------------------------------------------
(* check_import_cache: the newest import latched in SQL must be whole in   *)
(* the graph (its four signals) and maintained (maintained_at).  A poll    *)
(* between the two only notes the wait, as one before both.                *)
MaintainedOnceLatched(n) == graph >= 3 * n

Maintained(n) == graph > 3 * n

(* The marker's state: the version, with stats_version once it is set.     *)
StateOf(n) == IF graph < 3 * n + 2 THEN 3 * n + 1 ELSE 3 * n + 2

Poll(v) ==
    /\ watch[v].pc = "idle"
    /\ latched # None
    /\ IF ~Maintained(latched)
       THEN /\ wait' = latched
            /\ UNCHANGED watch
       ELSE /\ wait' = None
            /\ watch' = [watch EXCEPT ![v] = [NoPoll EXCEPT !.pc = "compare", !.state = StateOf(latched)]]
    /\ UNCHANGED <<graph, latched, cached, filler, importMarker, fills, watchFaults>>

Compare(v) ==
    /\ watch[v].pc = "compare"
    /\ watch' = [watch EXCEPT ![v] =
                   CASE importMarker = @.state -> NoPoll
                     [] importMarker = None -> [@ EXCEPT !.pc = "mark"]
                     [] OTHER -> [@ EXCEPT !.pc = "scan", !.todo = Keys]]
    /\ UNCHANGED <<graph, latched, cached, filler, importMarker, wait, fills, watchFaults>>

(* invalidate_explore_and_trends: every key a SCAN finds, in any order,    *)
(* one instance or the other; a failure ends the poll (PollEnds).          *)
DeleteKey(v, k) ==
    /\ watch[v].pc = "scan"
    /\ k \in watch[v].todo
    /\ watch' = [watch EXCEPT ![v].todo = @ \ {k}]
    /\ Drop(k)
    /\ filler' = [w \in Fillers |-> IF filler[w].key = k THEN [filler[w] EXCEPT !.crossed = TRUE]
                                    ELSE filler[w]]
    /\ UNCHANGED <<graph, latched, importMarker, wait, fills, watchFaults>>

Mark(v) ==
    /\ watch[v].pc = "mark" \/ (watch[v].pc = "scan" /\ watch[v].todo = {})
    /\ importMarker' = watch[v].state
    /\ watch' = [watch EXCEPT ![v] = NoPoll]
    /\ UNCHANGED <<graph, latched, cached, filler, wait, fills, watchFaults>>

(* A strict cache failure, a lost connection or a crash ends the poll.     *)
PollEnds(v) ==
    /\ watch[v].pc # "idle"
    /\ watchFaults < MaxWatchFaults
    /\ watchFaults' = watchFaults + 1
    /\ watch' = [watch EXCEPT ![v] = NoPoll]
    /\ UNCHANGED <<graph, latched, cached, filler, importMarker, wait, fills>>

ImportNext ==
    \/ GraphMoves \/ SqlLatches
    \/ \E k \in Keys : EntryGoes(k)
    \/ \E w \in Fillers : StoreFill(w) \/ FillNotStored(w) \/ \E k \in Keys : Fill(w, k)
    \/ \E v \in Watchers :
          Poll(v) \/ Compare(v) \/ Mark(v) \/ PollEnds(v) \/ \E k \in Keys : DeleteKey(v, k)

-----------------------------------------------------------------------------
(* Once the marker names the state the graph is in, every entry was read   *)
(* in that state, but for the fills an invalidation overtook between their *)
(* read and their write, and for what was cached before the first mark.    *)
CachesFollowImports ==
    importMarker = graph => \A k \in Keys : cache[k] \in {None, graph} \/ k \in crossed \cup unmarked

(* "On the first run, with no marker, it records the version and deletes   *)
(* nothing, since an empty cache has nothing stale in it."                 *)
(* It does not hold: see "Observations" in the README.                     *)
FirstMarkIsClean == importMarker = graph => \A k \in unmarked : cache[k] = graph
=============================================================================
