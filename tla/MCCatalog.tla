------------------------------ MODULE MCCatalog ------------------------------
(* Instances of the components that read and derive from the catalog:      *)
(* pages, counts, scores, the ledger's reads, and the jobs that precompute *)
(* them. They share no state with each other, so a behaviour runs one of   *)
(* them, chosen initially, and their products are left out.                *)
EXTENDS TLC, Strata, ExploreReads, RarityRun, Search, CrateFit, RarityScore, IdentityReads, ExploreHubs,
        LedgerBackfill, CommunityCounts

CONSTANT Parts      \* the components this instance runs

VARIABLE part       \* the one this behaviour runs

(* The enrichment requests are interchangeable, and so are the replicas.   *)
Symmetry == Permutations(Enrichments) \cup Permutations(HubReplicas)

catalogVars == <<part, strataVars, exploreVars, rarityVars, searchVars, fitVars, scoreVars,
                 identityVars, hubVars, backfillVars, countVars>>

-----------------------------------------------------------------------------
(* Strata: two ladders deep enough to overrun every budget, each with two  *)
(* releases that vary, and a ladder of one.                                *)
Rel(c, m, y, s, d) == [credit |-> c, master |-> m, year |-> y, stateful |-> s, discogs |-> d]
Varied ==
    {Rel(c, m, y, s, TRUE) : c \in {1, 2}, m \in {0, 2}, y \in {0, 1990}, s \in BOOLEAN}
        \cup {Rel(1, 1, 1995, FALSE, FALSE)}
ManyCredits == <<Rel(1, 1, 1980, FALSE, TRUE), Rel(2, 2, 0, TRUE, TRUE), Rel(3, 3, 1991, FALSE, TRUE),
                 Rel(4, 0, 1992, FALSE, TRUE), Rel(3, 0, 0, FALSE, TRUE)>>
ManyMasters == <<Rel(1, 1, 1980, FALSE, TRUE), Rel(1, 2, 0, TRUE, TRUE), Rel(1, 3, 1991, FALSE, TRUE),
                 Rel(2, 4, 1992, FALSE, TRUE), Rel(2, 5, 1985, FALSE, TRUE), Rel(2, 6, 0, FALSE, TRUE),
                 Rel(1, 0, 0, FALSE, TRUE), Rel(3, 0, 1970, FALSE, TRUE)>>
Extra == {Rel(1, 1, 1995, FALSE, FALSE), Rel(1, 0, 1990, FALSE, TRUE), Rel(2, 2, 0, TRUE, TRUE), Rel(2, 0, 0, FALSE, TRUE)}
OneRelease == <<Rel(1, 0, 0, FALSE, TRUE)>>
MCCatalogs == {OneRelease} \cup {b \o <<r, s>> : b \in {ManyCredits, ManyMasters}, r \in Varied, s \in Extra}
MCMasterYear == <<1985, 0, 1990, 0, 0, 0>>
MCBudget == [credits |-> 3, masters |-> 6, releases |-> 4]

(* Explore: releases that tie by year and by name, or have no year.        *)
Shape(a, l, g, s, y) == [links |-> [artist |-> a, label |-> l, genre |-> g, style |-> s], year |-> y]
MCShapes == {Shape({1, 2}, {1}, {1}, {1}, 0), Shape({1}, {1, 2}, {1}, {}, 1), Shape({2, 3}, {2}, {1}, {1}, 2)}
MCRelated == [a \in 1..3 |-> (1..3) \ {a}]
MCListings == {<<"artist", 1, "label">>, <<"genre", 1, "artist">>, <<"label", 2, "release">>,
               <<"artist", 1, "alias">>}

(* Rarity: scores that tie, a release without a quality signal.            *)
MCQuality == <<2, 0, 1, 2>>
MCScore == <<5, 7, 5, 5>>

(* Search: rows of every type, one of them without media, one too old; an  *)
(* artist and a label with one id and one rank, and a release with their   *)
(* id and another rank.                                                    *)
Row(t, i, k, y, g, m, c) ==
    [type |-> t, id |-> i, rank |-> k, year |-> y, genres |-> g, media |-> m, country |-> c]
MCTables == {{Row("artist", 1, 1, 0, NullSet, NullSet, "null"),
              Row("master", 2, 2, 85, NullSet, NullSet, "null"),
              Row("label", 1, 1, 0, NullSet, NullSet, "null"),
              Row("release", 4, 1, 91, {"jazz"}, {"vinyl"}, "UK"),
              Row("release", 2, 2, 85, {"rock"}, NullSet, "null"),
              Row("release", 1, 3, 91, {"jazz"}, {"tape"}, "UK"),
              Row("release", 7, 3, 70, {"jazz"}, {"tape"}, "UK")}}
Asked(ts, g, m, c, from, to) ==
    [types |-> ts, genres |-> g, media |-> m, countries |-> c, from |-> from, to |-> to]
MCFilters == {Asked({"artist", "label", "master"}, {}, {}, {}, 0, 0),
              Asked({"release"}, {"jazz", "rock"}, {"vinyl", "tape"}, {"UK"}, 80, 95)}

(* Fit: the same album under one master, without a master, and in another  *)
(* medium; a release with no facts.                                        *)
Album(a, l, g, s, f, m, t, k) ==
    [artists |-> a, labels |-> l, genres |-> g, styles |-> s, families |-> f, master |-> m,
     title |-> t, folded |-> k]
MCCatalogue == <<
    Album({"a"}, {"x"}, {1}, {"s"}, {"vinyl"}, 1, "Loveless", "loveless"),
    Album({"a"}, {"x"}, {1}, {"s"}, {"optical"}, 1, "Loveless", "loveless"),
    Album({"a"}, {"y"}, {1, 2}, {}, {"vinyl"}, 0, "LOVELESS", "loveless"),
    Album({"b"}, {"x"}, {2}, {"t"}, {"tape"}, 2, "Other", "other"),
    Album({"b", "c"}, {"z"}, {2, 3}, {"t", "s"}, {"vinyl"}, 2, "Other", "other"),
    Album({}, {}, {}, {}, {}, 0, "Blank", "blank") >>

MCMediumScores == ("vinyl_12" :> 40) @@ ("optical_cd" :> 10)
MCFamilyDefaults == "vinyl" :> 40
MCMedia == {<<"vinyl_12", "vinyl">>, <<"optical_cd", "optical">>}
MCRecoveredFrom == ("Vinyl" :> {<<"vinyl_12", "vinyl">>}) @@ ("Odd" :> {})

MCMasterOf == [d \in DgIds |-> 1]
MCGroupOf == [m \in MbIds |-> 1]

(* Hubs: the third version has the count of the first again.               *)
MCHubCount == <<1, 2, 1>>

-----------------------------------------------------------------------------
(* A component that does not run starts in one of its initial states.      *)
Parked ==
    /\ IF part = "strata" THEN TRUE ELSE catalog = OneRelease
    /\ IF part = "score" THEN TRUE
       ELSE facts = [mediums |-> {}, declared |-> {}, formats |-> {}, pressings |-> 0, catalog |-> 0,
                     degree |-> 0, have |-> 0, want |-> 0, released |-> 1960, reissued |-> Unknown]
    /\ IF part = "backfill" THEN TRUE
       ELSE known = {} /\ table = [i \in RowIds |-> CHOOSE e \in ExportRow : TRUE]

Init ==
    /\ part \in Parts
    /\ Parked
    /\ StrataInit /\ ExploreInit /\ RarityInit /\ SearchInit /\ FitInit /\ ScoreInit /\ IdentityInit
    /\ HubInit /\ BackfillInit /\ CountInit

RestOf(p) ==
    /\ UNCHANGED part
    /\ IF p = "strata" THEN TRUE ELSE UNCHANGED strataVars
    /\ IF p = "explore" THEN TRUE ELSE UNCHANGED exploreVars
    /\ IF p = "rarity" THEN TRUE ELSE UNCHANGED rarityVars
    /\ IF p = "search" THEN TRUE ELSE UNCHANGED searchVars
    /\ IF p = "fit" THEN TRUE ELSE UNCHANGED fitVars
    /\ IF p = "score" THEN TRUE ELSE UNCHANGED scoreVars
    /\ IF p \in {"ledger", "projection"} THEN TRUE ELSE UNCHANGED identityVars
    /\ IF p = "hubs" THEN TRUE ELSE UNCHANGED hubVars
    /\ IF p = "backfill" THEN TRUE ELSE UNCHANGED backfillVars
    /\ IF p = "counts" THEN TRUE ELSE UNCHANGED countVars

Next ==
    \/ part = "strata" /\ StrataNext /\ RestOf("strata")
    \/ part = "explore" /\ ExploreNext /\ RestOf("explore")
    \/ part = "rarity" /\ RarityNext /\ RestOf("rarity")
    \/ part = "search" /\ SearchNext /\ RestOf("search")
    \/ part = "fit" /\ FitNext /\ RestOf("fit")
    \/ part = "score" /\ ScoreNext /\ RestOf("score")
    \/ part = "ledger" /\ LedgerNext /\ RestOf("ledger")
    \/ part = "projection" /\ ProjectionNext /\ RestOf("projection")
    \/ part = "hubs" /\ HubNext /\ RestOf("hubs")
    \/ part = "backfill" /\ BackfillNext /\ RestOf("backfill")
    \/ part = "counts" /\ CountNext /\ RestOf("counts")

Spec == Init /\ [][Next]_catalogVars

-----------------------------------------------------------------------------
(* Following a listing to its end shows each row once, and the counts      *)
(* beside it are those of the rows: in explore and in the strata ladder,   *)
(* whatever ties, missing years or budgets there are, and in search but    *)
(* for matches of different types that share their rank and their id, as   *)
(* long as nothing is imported meanwhile.  A rarity run scores every       *)
(* release there was, page by page, and what a reader is shown of it is    *)
(* the whole of one run (rarity_queries.py).                               *)
PagedReadsAreExact ==
    CASE part = "strata" -> StrataAreSound
      [] part = "explore" -> WalkIsExact /\ CountsAgree
      [] part = "search" -> SearchWalkIsExact
      [] part = "rarity" -> RunCoversCatalog /\ RarityReadsAreComplete
      [] OTHER -> TRUE

(* A score means what it says: the fit evidence counts the shelf's own     *)
(* releases, and every rarity score is on the one scale although factors   *)
(* may be missing.                                                         *)
ScoresSpeakForTheirInputs ==
    CASE part = "fit" -> FitSpeaksForTheShelf
      [] part = "score" -> OneScale
      [] OTHER -> TRUE

(* What the identity ledger tells of a work is what happened to it: every  *)
(* change appears, the editions agree with the work they are listed under, *)
(* a past state reads back as it was shown then, a split stays visible     *)
(* after the re-attachment that ended it, and the projection misses no     *)
(* item (identity_ledger.py: _Ledger.state, projection.py).                *)
LedgerReadsAreTrue ==
    CASE part = "ledger" -> StoryIsComplete /\ EditionsAgree /\ StatesReadBack
      [] part = "projection" -> ProjectionIsComplete
      [] OTHER -> TRUE

(* The jobs that precompute publish what the catalog holds: hub rows of    *)
(* the build that owns the lock and of the current releases, stored        *)
(* community counts in the graph, and every row of a handled export dated. *)
BuildsAreCurrent ==
    CASE part = "hubs" -> HubLockIsOwned /\ HubRowsAreCurrent
      [] part = "backfill" -> HandledExportIsDated
      [] part = "counts" -> GraphHasStoredCounts
      [] OTHER -> TRUE
=============================================================================
