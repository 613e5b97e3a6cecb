----------------------------- MODULE RarityScore -----------------------------
(***************************************************************************)
(* The rarity score of one release (api/rarity): the media-neutral core,   *)
(* the grooved family extension that joins it for some media only, and     *)
(* their composition, as imports and collectors change the facts behind    *)
(* it. A score is kept as the pair of its weighted sum and total weight,   *)
(* so that nothing is rounded.                                             *)
(***************************************************************************)
EXTENDS Integers, FiniteSets, FiniteSetsExt, TLC

CONSTANTS
    MediumScores,       \* MEDIUM_RARITY_SCORES, on the media of interest
    FamilyDefaults,     \* FAMILY_DEFAULT_MEDIUM_RARITY, on the families of interest
    Media,              \* <<medium, family>> pairs the graph may link, family "" when unset
    RecoveredFrom,      \* legacy_format_names_to_media: the media of a format name
    Counts,             \* values a count takes: the thresholds and their neighbours
    Years,              \* release years
    FirstYear, LatestYear \* bound: years that pass

ASSUME ScoreAssumption ==   \* the tables of core.py score on the scale of 100
    /\ \A m \in DOMAIN MediumScores : MediumScores[m] \in 0..100
    /\ \A f \in DOMAIN FamilyDefaults : FamilyDefaults[f] \in 0..100
    /\ Counts \subseteq Nat /\ Years \subseteq Int /\ FirstYear \in Nat /\ LatestYear \in Nat

VARIABLES
    facts,              \* what the signal queries return for the release
    year                \* the current year

scoreVars == <<facts, year>>

Unknown == 0 - 1

ScoreInit ==
    /\ facts \in [mediums : SUBSET Media, declared : SUBSET DOMAIN FamilyDefaults,
                  formats : SUBSET DOMAIN RecoveredFrom, pressings : {0}, catalog : {0}, degree : {0},
                  have : {0, Unknown}, want : {0}, released : Years, reissued : {Unknown}]
    /\ (facts.mediums # {} => facts.declared = {} /\ facts.formats = {})
    /\ (facts.declared # {} => facts.formats = {})
    /\ year = FirstYear

-----------------------------------------------------------------------------
(* resolve_media: Medium edges, else declared families, else the raw       *)
(* format names. A medium of no family leaves the release without it.      *)
ResolveMedia(f) ==
    LET recovered == UNION {RecoveredFrom[n] : n \in f.formats}
        pairs == IF f.mediums # {} THEN f.mediums
                 ELSE IF f.declared # {} THEN {} ELSE recovered
    IN  [mediums |-> pairs,
         families |-> IF pairs = {} THEN f.declared ELSE {p[2] : p \in pairs} \ {""}]

DefaultMediumRarity == 50

FamilyScore(f) == IF f \in DOMAIN FamilyDefaults THEN FamilyDefaults[f] ELSE DefaultMediumRarity

(* medium_rarity_score, falling back through the family.                   *)
MediumRarityScore(p) ==
    IF p[1] \in DOMAIN MediumScores THEN MediumScores[p[1]] ELSE FamilyScore(p[2])

(* compute_medium_rarity_score: the rarest carrier.                        *)
ComputeMediumRarityScore(media) ==
    IF media.mediums # {} THEN Max({MediumRarityScore(p) : p \in media.mediums})
    ELSE IF media.families # {} THEN Max({FamilyScore(f) : f \in media.families})
    ELSE DefaultMediumRarity

(* The first step of an ascending table whose limit the value does not     *)
(* exceed, and the value beyond the table.                                 *)
Step(v, limits, scores) ==
    LET fits == {n \in DOMAIN limits : v <= limits[n]}
    IN  scores[IF fits = {} THEN Cardinality(DOMAIN scores) ELSE Min(fits)]

ComputeLabelCatalogScore(n) == Step(n, <<9, 50, 200, 1000>>, <<100, 75, 50, 25, 10>>)

ComputeGraphIsolationScore(n) == Step(n, <<2, 4, 7, 12>>, <<90, 70, 50, 30, 10>>)

ComputePressingScarcityScore(n) == Step(n, <<0, 1, 2, 5, 10>>, <<90, 100, 85, 60, 35, 10>>)

(* Mutant: the bonus is given for the wrong side of the comparison.         *)
PrevalenceScoreSwapped(have, want) ==
    Step(have, <<0, 10, 100, 1000, 10000>>, <<95, 85, 70, 50, 25, 10>>) + (IF have > want THEN 5 ELSE 0)

ComputeCollectionPrevalenceScore(have, want) ==
    LET base == Step(have, <<0, 10, 100, 1000, 10000>>, <<95, 85, 70, 50, 25, 10>>)
    IN  IF want > have THEN Min({100, base + 5}) ELSE base

(* compute_temporal_scarcity_score, in halves: 1.5 a year of age, less     *)
(* forty when a sibling came out in the last ten years.                    *)
ComputeTemporalScarcityHalves(f, now) ==
    LET base == Max({0, Min({200, 3 * (now - f.released)})})
    IN  IF f.released = Unknown THEN 100
        ELSE IF f.reissued # Unknown /\ f.reissued >= now - 10 THEN Max({0, base - 80}) ELSE base

CoreSignals(f, now) ==
    [label_catalog |-> 2 * ComputeLabelCatalogScore(f.catalog),
     medium_rarity |-> 2 * ComputeMediumRarityScore(ResolveMedia(f)),
     temporal_scarcity |-> ComputeTemporalScarcityHalves(f, now),
     graph_isolation |-> 2 * ComputeGraphIsolationScore(f.degree),
     collection_prevalence |-> IF f.have = Unknown THEN 100
                               ELSE 2 * ComputeCollectionPrevalenceScore(f.have, f.want)]

CoreSignalWeights ==
    [label_catalog |-> 10, medium_rarity |-> 10, temporal_scarcity |-> 20, graph_isolation |-> 15,
     collection_prevalence |-> 20]

(* modules_for and GroovedSignals: the extension of the grooved families.  *)
GroovedFamilies == {"vinyl", "shellac", "grooved_other"}

AppliesTo(families) == families \cap GroovedFamilies # {}

(* score_release: an extension that does not apply brings neither a signal *)
(* nor a weight.                                                           *)
Joined(core, pressing) ==
    [s \in DOMAIN core \cup {"pressing_scarcity"} |-> IF s = "pressing_scarcity" THEN pressing ELSE core[s]]

Signals(f, now) ==
    IF AppliesTo(ResolveMedia(f).families)
    THEN Joined(CoreSignals(f, now), 2 * ComputePressingScarcityScore(f.pressings))
    ELSE CoreSignals(f, now)

Weights(f) == IF AppliesTo(ResolveMedia(f).families) THEN Joined(CoreSignalWeights, 25) ELSE CoreSignalWeights

(* effective_weights: renormalised over the signals that are present.      *)
Summed(w) == MapThenSumSet(LAMBDA s : w[s], DOMAIN w)

TotalWeight(weights) == Summed(weights)

(* compose, in halves: n / d.                                              *)
Compose(signals, weights) ==
    [n |-> Summed([s \in DOMAIN weights |-> weights[s] * signals[s]]), d |-> TotalWeight(weights)]

CompositeScore(f, now) == Compose(Signals(f, now), Weights(f))

(* compute_rarity_tier: the number of thresholds reached.                  *)
Tier(score) == Cardinality({t \in {20, 40, 60, 80} : score.n >= 2 * t * score.d})

-----------------------------------------------------------------------------
(* Facts change by one import, one count or one year at a time.            *)
NextCount(v) == Min({n \in Counts : n > v})

Grows(field) ==
    /\ facts[field] # Unknown
    /\ \E n \in Counts : n > facts[field]
    /\ facts' = [facts EXCEPT ![field] = NextCount(facts[field])]
    /\ UNCHANGED year

PressingImported == facts.pressings > 0 /\ Grows("pressings")

MasterLinked == facts.pressings = 0 /\ facts' = [facts EXCEPT !.pressings = 1] /\ UNCHANGED year

LabelGrows == Grows("catalog")

Connected == Grows("degree")

CollectorAdds == Grows("have")

CollectorWants == Grows("want")

Reissued == facts' = [facts EXCEPT !.reissued = year] /\ facts.reissued # year /\ UNCHANGED year

YearPasses == year < LatestYear /\ year' = year + 1 /\ UNCHANGED facts

ScoreNext ==
    \/ PressingImported \/ MasterLinked \/ LabelGrows \/ Connected \/ CollectorAdds \/ CollectorWants
    \/ Reissued \/ YearPasses

-----------------------------------------------------------------------------
(* Every release is on one scale: whichever extension joined, the score    *)
(* lies between its lowest and its highest signal, so that a tier means    *)
(* the same for a CD as for an LP.                                         *)
OneScale ==
    LET s == CompositeScore(facts, year)
        values == {Signals(facts, year)[k] : k \in DOMAIN Signals(facts, year)}
    IN  Min(values) * s.d <= s.n /\ s.n <= Max(values) * s.d

AtMost(s, t) == s.n * t.d <= t.n * s.d

(* More of a thing never makes it rarer: another pressing, a larger label, *)
(* another link, another owner and a reissue never raise the score or the  *)
(* tier, and demand and age never lower them, whatever the media of the    *)
(* release and whichever signals count for it.                             *)
AbundanceNeverRaises ==
    [][LET before == CompositeScore(facts, year)
           after == CompositeScore(facts', year')
       IN  scoreVars' # scoreVars =>
           /\ PressingImported \/ LabelGrows \/ Connected \/ CollectorAdds \/ Reissued =>
                 AtMost(after, before) /\ Tier(after) <= Tier(before)
           /\ CollectorWants \/ YearPasses \/ MasterLinked =>
                 AtMost(before, after) /\ Tier(before) <= Tier(after)]_scoreVars
=============================================================================
