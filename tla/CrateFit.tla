------------------------------ MODULE CrateFit ------------------------------
(***************************************************************************)
(* CrateFit v0 (api/fit.py): the fold of a collector's shelf, row by row   *)
(* in whatever order the graph returns the rows (fold_collection in        *)
(* api/queries/fit_queries.py), and the five component scores computed     *)
(* from the fold for any candidate. Scores are in ten-thousandths, the     *)
(* precision the code rounds to.                                           *)
(***************************************************************************)
EXTENDS Integers, FiniteSets, FiniteSetsExt

CONSTANTS
    Catalogue   \* Catalogue[r]: [artists, labels, genres, styles, families, master, title, folded]
                \* of release r; folded is the title case-folded, master 0 when there is none;
                \* releases and genres are numbers, in the order of their ids and names

VARIABLES
    shelf,      \* releases the collector holds
    unread,     \* rows of the shelf not yet folded
    fold        \* the folded collection so far

fitVars == <<shelf, unread, fold>>

ShelfReleases == DOMAIN Catalogue

Facets(r, d) == CASE d = "artist" -> Catalogue[r].artists [] d = "label" -> Catalogue[r].labels
                  [] d = "genre" -> Catalogue[r].genres [] d = "style" -> Catalogue[r].styles

Dimensions == {"artist", "label", "genre", "style"}

AllFacets(d) == UNION {Facets(r, d) : r \in ShelfReleases}

(* held_title_key, over every artist of the release.                       *)
TitleKeys(r) == {<<a, Catalogue[r].folded>> : a \in Catalogue[r].artists}

NoTitle == "none"

EmptyCollection ==
    [releases |-> {},
     counts   |-> [d \in Dimensions |-> [x \in AllFacets(d) |-> 0]],
     near     |-> [g \in AllFacets("genre") |-> {}],
     kin      |-> [g \in AllFacets("genre") |-> {}],
     titles   |-> [k \in UNION {TitleKeys(r) : r \in ShelfReleases} |-> NoTitle],
     named    |-> [k \in UNION {TitleKeys(r) : r \in ShelfReleases} |-> 0]]

FitInit ==
    /\ shelf = {}
    /\ unread = {}
    /\ fold = EmptyCollection

-----------------------------------------------------------------------------
(* The collector's shelf changes and is read again from the start.         *)
ChangeShelf ==
    /\ unread = {}
    /\ shelf' \in SUBSET ShelfReleases
    /\ unread' = shelf'
    /\ fold' = EmptyCollection

Earlier(r, named) == IF named = 0 \/ r < named THEN r ELSE named

(* Mutant: a facet counts once, however many releases carry it.            *)
CountOnce(n) == 1

CountOneMore(n) == n + 1

(* One row of fold_collection: every facet of the release counted once,    *)
(* its neighbours added to its genres, and its titles entered; the last    *)
(* row's spelling and the lowest release id stay under a key.              *)
Folded(f, r) ==
    [releases |-> f.releases \cup {r},
     counts   |-> [d \in Dimensions |-> [x \in AllFacets(d) |->
                      IF x \in Facets(r, d) THEN CountOneMore(f.counts[d][x]) ELSE f.counts[d][x]]],
     near     |-> [g \in AllFacets("genre") |-> IF g \in Facets(r, "genre")
                      THEN f.near[g] \cup Facets(r, "artist") \cup Facets(r, "label") ELSE f.near[g]],
     kin      |-> [g \in AllFacets("genre") |-> IF g \in Facets(r, "genre")
                      THEN f.kin[g] \cup Facets(r, "style") ELSE f.kin[g]],
     titles   |-> [k \in DOMAIN f.titles |->
                      IF k \in TitleKeys(r) THEN Catalogue[r].title ELSE f.titles[k]],
     named    |-> [k \in DOMAIN f.named |->
                      IF k \in TitleKeys(r) THEN Earlier(r, f.named[k]) ELSE f.named[k]]]

FoldRow(r) ==
    /\ r \in unread
    /\ unread' = unread \ {r}
    /\ fold' = Folded(fold, r)
    /\ UNCHANGED shelf

FitNext == ChangeShelf \/ \E r \in ShelfReleases : FoldRow(r)

-----------------------------------------------------------------------------
(* The components, each from the fold alone.                               *)
Round(n, d) == (20000 * n + d) \div (2 * d)

Held(d) == {x \in AllFacets(d) : fold.counts[d][x] > 0}

Weight == [d \in Dimensions |-> CASE d = "artist" -> 35 [] d = "style" -> 15 [] OTHER -> 25]

(* score_affinity: the share of the candidate's facets held, weighted over *)
(* the dimensions it has. Shares are put over one common denominator.      *)
ScoreAffinity(r) ==
    LET has == {d \in Dimensions : Facets(r, d) # {}}
        size(d) == Cardinality(Facets(r, d))
        common == ProductSet({size(d) : d \in has})
        share(d) == Weight[d] * Cardinality(Facets(r, d) \cap Held(d)) * (common \div size(d))
    IN  IF has = {} THEN 0
        ELSE Round(MapThenSumSet(share, has), common * MapThenSumSet(LAMBDA d : Weight[d], has))

(* score_novelty: the share of all its facets that is not held.            *)
ScoreNovelty(r) ==
    LET total == MapThenSumSet(LAMBDA d : Cardinality(Facets(r, d)), Dimensions)
        new == MapThenSumSet(LAMBDA d : Cardinality(Facets(r, d) \ Held(d)), Dimensions)
    IN  IF total = 0 THEN 0 ELSE Round(new, total)

(* score_depth: the thickest thread it continues, full at five.            *)
ScoreDepth(r) ==
    LET held == {0} \cup {fold.counts["label"][x] : x \in Facets(r, "label")}
                    \cup {fold.counts["artist"][x] : x \in Facets(r, "artist")}
    IN  IF Max(held) >= 5 THEN 10000 ELSE Round(Max(held), 5)

(* score_bridge: of the held genres the candidate touches, in order, each  *)
(* that shares no artist and no label with one already picked.             *)
Touches(r, g) == g \in Facets(r, "genre") \/ Facets(r, "style") \cap fold.kin[g] # {}

Picked(r) ==
    LET last == Max({0} \cup Held("genre"))
        pick[n \in 0..last] ==
            IF n = 0 THEN {}
            ELSE IF /\ n \in Held("genre") /\ Touches(r, n)
                    /\ \A g \in pick[n - 1] : fold.near[n] \cap fold.near[g] = {}
                 THEN pick[n - 1] \cup {n} ELSE pick[n - 1]
    IN  pick[last]

ScoreBridge(r) == IF Cardinality(Picked(r)) > 1 THEN 10000 ELSE 0

(* score_redundancy: this release, a sibling on a shared media family, any *)
(* sibling, or a held title of the same artist; the strongest wins.        *)
Siblings(r) == {s \in ShelfReleases \ {r} : Catalogue[s].master = Catalogue[r].master /\ Catalogue[r].master # 0}

SharesFamily(r, s) == Catalogue[s].families \cap Catalogue[r].families # {}

ScoreRedundancy(r) ==
    LET held == Siblings(r) \cap fold.releases
    IN  CASE r \in fold.releases -> 10000
          [] r \notin fold.releases /\ (\E s \in held : SharesFamily(r, s)) -> 10000
          [] r \notin fold.releases /\ held # {} /\ (\A s \in held : ~SharesFamily(r, s)) -> 6000
          [] OTHER -> IF \E k \in TitleKeys(r) : fold.titles[k] # NoTitle THEN 3000 ELSE 0

(* compute_fit: the sum, clipped.                                          *)
ComputedFit(r) ==
    LET raw == ScoreAffinity(r) + ScoreNovelty(r) + ScoreBridge(r) + ScoreDepth(r) - ScoreRedundancy(r)
    IN  Min({10000, Max({0, raw})})

-----------------------------------------------------------------------------
HeldWith(d, x) == {h \in shelf : x \in Facets(h, d)}

Apart(g, k) == \A h \in HeldWith("genre", g), i \in HeldWith("genre", k) :
                   /\ Facets(h, "artist") \cap Facets(i, "artist") = {}
                   /\ Facets(h, "label") \cap Facets(i, "label") = {}

SameRecord(r, h) ==
    \/ h = r
    \/ h \in Siblings(r) /\ Catalogue[h].families \cap Catalogue[r].families # {}

(* Whatever order the rows came in, the scores say what the shelf itself   *)
(* says, read without the fold: nothing is new exactly when everything is  *)
(* shared, the depth is the number of releases on the thickest thread, a   *)
(* bridge joins two genres of the shelf that really lie apart, a full      *)
(* redundancy is the same record in the same form and a lesser one is not, *)
(* and a record already held only fits by what it deepens.                 *)
FitSpeaksForTheShelf ==
    unread = {} =>
        \A r \in ShelfReleases :
            LET faceted == \E d \in Dimensions : Facets(r, d) # {}
                threads == UNION {{Cardinality(HeldWith(d, x)) : x \in Facets(r, d)} :
                                     d \in {"artist", "label"}}
            IN  /\ faceted => (ScoreNovelty(r) = 0 <=> ScoreAffinity(r) = 10000)
                /\ faceted => (ScoreNovelty(r) = 10000 <=> ScoreAffinity(r) = 0)
                /\ ScoreDepth(r) = 2000 * Min({5, Max({0} \cup threads)})
                /\ ScoreBridge(r) > 0 => \E g, k \in AllFacets("genre") : g # k /\ Apart(g, k)
                                             /\ {g, k} \subseteq UNION {Facets(h, "genre") : h \in shelf}
                /\ (ScoreRedundancy(r) = 10000) = (\E h \in shelf : SameRecord(r, h))
                /\ ScoreRedundancy(r) = 6000 => \E h \in shelf : Catalogue[h].master = Catalogue[r].master
                /\ ScoreRedundancy(r) = 3000 => \A h \in shelf : h \notin Siblings(r)
                /\ r \in shelf /\ faceted => ComputedFit(r) = Min({10000, ScoreBridge(r) + ScoreDepth(r)})

(* fold_collection: "Lists are sorted so two folds of the same collection  *)
(* are byte-identical": folding a row earlier or later changes nothing.    *)
(* It does not hold: see "Observations" in the README.                     *)
FoldIsDeterministic ==
    \A r, s \in unread : Folded(Folded(fold, r), s) = Folded(Folded(fold, s), r)
=============================================================================
