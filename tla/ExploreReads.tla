---------------------------- MODULE ExploreReads ----------------------------
(***************************************************************************)
(* The explore, expand, details and trends reads                           *)
(* (api/queries/neo4j_queries.py, api/routers/explore.py) over a graph     *)
(* that imports extend and post-import maintenance summarises: a client    *)
(* pages through one listing with SKIP and LIMIT, every page and its total *)
(* being two statements of their own, answered from the page cache when    *)
(* an earlier request left one there.                                      *)
(*                                                                         *)
(* Each release links to artists (BY), labels (ON), genres and styles      *)
(* (IS), once each; the four kinds of query are one query over the kind.   *)
(* A name stands for one node.  A request is one step: that a fill of a    *)
(* cache can be overtaken by an invalidation is ImportCaches' subject.     *)
(***************************************************************************)
EXTENDS Integers, Sequences, FiniteSets, SequencesExt

CONSTANTS
    Shapes,         \* what an import may add: [links, year], see Matching
    Listings,       \* the listings the client opens: <<kind, node, category>>
    Related,        \* Related[a]: the artists ALIAS_OF or MEMBER_OF ties to artist a
    MaxGraph,       \* bound: releases imported
    MaxWalks,       \* bound: listings a client opens
    LastYear,       \* years are 1..LastYear; 0 is a missing or zero year
    Limit,          \* the page size of the client
    MinCachedTotal  \* _EXPAND_CACHE_MIN_TOTAL

VARIABLES
    releases,   \* releases[i]: a shape
    stats,      \* stats[kind][n][category]: the counts maintenance wrote, or NoCount
    pages,      \* cached bodies of /api/expand by request
    browse,     \* the client's walk through one listing
    walks,      \* walks begun
    calm        \* maintained, invalidated, and nothing imported since

exploreVars == <<releases, stats, pages, browse, walks, calm>>

-----------------------------------------------------------------------------
NoCount == -1
NoYear == 0

Kinds == {"artist", "label", "genre", "style"}
Nodes(kind) == UNION {shape.links[kind] : shape \in Shapes}

(* EXPAND_DISPATCH and COUNT_DISPATCH: the categories of each kind, those  *)
(* other than releases and aliases being kinds themselves.                 *)
Categories(kind) ==
    {"release"} \cup CASE kind = "artist" -> {"label", "alias"}
                       [] kind = "genre" -> {"artist", "label", "style"}
                       [] kind = "label" -> {"artist", "genre"}
                       [] kind = "style" -> {"artist", "label", "genre"}

(* _year_filter.                                                           *)
InYear(r, before) == before = NoYear \/ (0 < releases[r].year /\ releases[r].year <= before)

(* The MATCH clauses: the releases of node n, and the nodes of another     *)
(* kind that those link to.                                                *)
Matching(kind, n, before) ==
    {r \in DOMAIN releases : n \in releases[r].links[kind] /\ InYear(r, before)}

Rows(kind, n, cat, before) ==
    CASE cat = "release" -> Matching(kind, n, before)
      [] cat = "alias" -> Related[n]
      [] OTHER -> UNION {releases[r].links[cat] : r \in Matching(kind, n, before)}

ReleaseCount(kind, n, cat, x, before) ==
    Cardinality({r \in Matching(kind, n, before) : x \in releases[r].links[cat]})

(* The ORDER BY clauses.  With a year filter no year is null, and without  *)
(* one the releases that have none come last.                              *)
ReleaseBefore(r, s) ==
    LET y == releases[r].year  z == releases[s].year IN
    \/ z = 0 /\ y # 0
    \/ (y = 0) = (z = 0) /\ (y > z \/ (y = z /\ r < s))

(* Mutant: without the id as a tie-break.                                  *)
CountBeforeUntied(kind, n, cat, before, x, y) ==
    ReleaseCount(kind, n, cat, x, before) > ReleaseCount(kind, n, cat, y, before)

CountBefore(kind, n, cat, before, x, y) ==
    LET cx == ReleaseCount(kind, n, cat, x, before)
        cy == ReleaseCount(kind, n, cat, y, before)
    IN  cx > cy \/ (cx = cy /\ x < y)

Before(kind, n, cat, before, x, y) ==
    CASE cat = "release" -> ReleaseBefore(x, y)
      [] cat = "alias" -> x < y
      [] OTHER -> CountBefore(kind, n, cat, before, x, y)

(* What Neo4j may return for an ORDER BY: any order that the clause does   *)
(* not contradict, chosen anew by each execution.                          *)
Orderings(kind, n, cat, before) ==
    {s \in SetToSeqs(Rows(kind, n, cat, before)) :
        \A i, j \in DOMAIN s : i < j => ~Before(kind, n, cat, before, s[j], s[i])}

(* _count: the stored count when no year is asked and one was written.     *)
CountLive(kind, n, cat, before) == Cardinality(Rows(kind, n, cat, before))

HasStored(kind, cat) == kind # "artist" /\ cat # "alias"

Count(kind, n, cat, before) ==
    IF before = NoYear /\ HasStored(kind, cat) /\ stats[kind][n][cat] # NoCount
    THEN stats[kind][n][cat]
    ELSE CountLive(kind, n, cat, before)

-----------------------------------------------------------------------------
(* explore_artist, explore_label, explore_genre, explore_style and         *)
(* _build_categories: an artist needs both stored counts, a label its      *)
(* release count, before they replace the traversal; a genre or style      *)
(* without counts shows 0.                                                 *)
Shown(kind, n, cat) ==
    LET live == CountLive(kind, n, cat, NoYear)
        stored == IF cat = "alias" THEN live ELSE stats[kind][n][cat]
        orZero == IF stored = NoCount THEN 0 ELSE stored
    IN  CASE kind = "artist" /\ (stats[kind][n]["release"] = NoCount \/ stats[kind][n]["label"] = NoCount) -> live
          [] kind = "label" /\ stats[kind][n]["release"] = NoCount -> live
          [] OTHER -> orZero

(* get_artist_details, get_label_details, get_genre_details and            *)
(* get_style_details: their one count.                                     *)
DetailCategory(kind) == IF kind \in {"genre", "style"} THEN "artist" ELSE "release"

Detail(kind, n) ==
    LET cat == DetailCategory(kind) IN
    IF kind = "artist" \/ stats[kind][n][cat] = NoCount THEN CountLive(kind, n, cat, NoYear)
    ELSE stats[kind][n][cat]

(* trends_artist, trends_label, trends_genre, trends_style.                *)
Trend(kind, n, y) == Cardinality({r \in Matching(kind, n, NoYear) : releases[r].year = y})

-----------------------------------------------------------------------------
NoBrowse == [kind |-> "none", n |-> 0, cat |-> "release", before |-> NoYear,
             seen |-> <<>>, total |-> NoCount, more |-> FALSE, calm |-> FALSE]

ExploreInit ==
    /\ releases = <<>>
    /\ stats = [kind \in Kinds |-> [n \in Nodes(kind) |-> [cat \in Categories(kind) |-> NoCount]]]
    /\ pages = {}
    /\ browse = NoBrowse
    /\ walks = 0
    /\ calm = FALSE

(* External: the loaders, the graph enricher's maintenance, and the watch  *)
(* that drops the cached pages once it is done.                            *)
ImportRelease(shape) ==
    /\ Len(releases) < MaxGraph
    /\ releases' = Append(releases, shape)
    /\ calm' = FALSE
    /\ browse' = [browse EXCEPT !.calm = FALSE]
    /\ UNCHANGED <<stats, pages, walks>>

MaintainAndInvalidate ==
    /\ ~calm
    /\ stats' = [kind \in Kinds |-> [n \in Nodes(kind) |-> [cat \in Categories(kind) |->
                   CountLive(kind, n, cat, NoYear)]]]
    /\ pages' = {}
    /\ calm' = TRUE
    /\ UNCHANGED <<releases, browse, walks>>

(* A client opens a category, at offset 0.                                 *)
Open(kind, n, cat, before) ==
    /\ walks < MaxWalks
    /\ walks' = walks + 1
    /\ browse' = [NoBrowse EXCEPT !.kind = kind, !.n = n, !.cat = cat, !.before = before,
                                  !.more = TRUE, !.calm = calm]
    /\ UNCHANGED <<releases, stats, pages, calm>>

(* _expand_page_is_cacheable: the default page size, whole pages, and a    *)
(* year only for the first one.                                            *)
Cacheable(before, offset) == before = NoYear \/ offset = 0

(* _expand_cache_key.                                                      *)
PageKey(b, offset) == <<b.kind, b.n, b.cat, offset, b.before>>

(* GET /api/expand: the cached body, or a page and its total, stored when  *)
(* the listing is large enough and the page is not empty.                  *)
Body(s, offset, total) ==
    LET children == SubSeq(s, offset + 1, IF offset + Limit < Len(s) THEN offset + Limit ELSE Len(s))
    IN  [children |-> children, total |-> total, more |-> offset + Len(children) < total]

Receive(b, body) ==
    [b EXCEPT !.seen = @ \o body.children, !.total = body.total, !.more = body.more]

Expand ==
    LET b == browse  offset == Len(b.seen)
        cached == {page \in pages : page.key = PageKey(b, offset)}
    IN  /\ b.more
        /\ \/ /\ cached # {}
              /\ \E page \in cached : browse' = Receive(b, page.body)
              /\ UNCHANGED pages
           \/ /\ cached = {}
              /\ \E s \in Orderings(b.kind, b.n, b.cat, b.before) :
                    LET body == Body(s, offset, Count(b.kind, b.n, b.cat, b.before)) IN
                    /\ browse' = Receive(b, body)
                    /\ pages' = IF /\ Cacheable(b.before, offset)
                                   /\ body.children # <<>>
                                   /\ body.total >= MinCachedTotal
                                THEN pages \cup {[key |-> PageKey(b, offset), body |-> body]}
                                ELSE pages
        /\ UNCHANGED <<releases, stats, walks, calm>>

ExploreNext ==
    \/ \E shape \in Shapes : ImportRelease(shape)
    \/ MaintainAndInvalidate
    \/ \E l \in Listings, before \in 0..LastYear : Open(l[1], l[2], l[3], before)
    \/ Expand

-----------------------------------------------------------------------------
(* A client that has paged a listing to its end, with nothing imported     *)
(* since the caches were last dropped, has seen every row once, the best   *)
(* first, and as many as the total it was told.                            *)
WalkIsExact ==
    LET b == browse IN
    (b.calm /\ ~b.more) =>
        /\ b.seen \in Orderings(b.kind, b.n, b.cat, b.before)
        /\ b.total = Len(b.seen)

(* Once maintenance has run, the counts on a node's panel (GET             *)
(* /api/explore) and in its details (GET /api/node) are the totals that    *)
(* expanding it reports, and the yearly trend (GET /api/trends) is what    *)
(* the totals under two successive year filters differ by.                 *)
CountsAgree ==
    calm => \A kind \in Kinds : \A n \in Nodes(kind) :
        /\ \A cat \in Categories(kind) : Shown(kind, n, cat) = Count(kind, n, cat, NoYear)
        /\ Detail(kind, n) = Count(kind, n, DetailCategory(kind), NoYear)
        /\ \A y \in 1..LastYear :
              Trend(kind, n, y) = Count(kind, n, "release", y)
                                  - (IF y = 1 THEN 0 ELSE Count(kind, n, "release", y - 1))
=============================================================================
