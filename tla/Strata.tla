------------------------------- MODULE Strata -------------------------------
(***************************************************************************)
(* The strata view of one artist (api/strata.py): credits, masters and     *)
(* releases folded into a budget of entries per plane, and the cursors a   *)
(* reader follows through it.  Titles, names, counts and the payload's     *)
(* layout are left out: an aggregate is its id, its parent and what it     *)
(* holds.                                                                  *)
(*                                                                         *)
(* A year is a number, 0 when unknown, a decade year \div 10 (0, the       *)
(* undated lane) and Whole the label of an undivided bucket or lane.       *)
(* Credits, masters and releases are numbers, in the order of their ids;   *)
(* credit Root is the artist alone.                                        *)
(***************************************************************************)
EXTENDS Integers, FiniteSets, FiniteSetsExt, Sequences

CONSTANTS
    Catalogs,     \* catalogs to draw: functions from release ids to releases
    MasterYear,   \* MasterYear[m]: the master's own year, 0 when unknown
    Budget,       \* [credits, masters, releases]
    PageSize      \* PAGE_SIZE

ASSUME BudgetAssumption ==   \* Budget.validate
    /\ Budget.credits >= 3
    /\ Budget.masters >= 2 * Budget.credits
    /\ Budget.releases >= Budget.credits + 1

VARIABLES
    catalog,   \* catalog[r]: [credit, master, year, stateful, discogs]
    ladder,    \* the catalog indexed for folding (_Ladder)
    cursor,    \* the focus asked for, NoFocus when there is none
    page,      \* the page asked for
    response   \* the planes that answer the request

strataVars == <<catalog, ladder, cursor, page, response>>

-----------------------------------------------------------------------------
Root == 1
NoMaster == 0
Whole == -1
NoFocus == <<"none">>

Sorted(S, Key(_)) ==
    [i \in 1..Cardinality(S) |-> CHOOSE x \in S : Cardinality({y \in S : Key(y) < Key(x)}) = i - 1]

SeqRange(s) == {s[i] : i \in DOMAIN s}

Least(S, Key(_)) == CHOOSE x \in S : \A y \in S : Key(x) <= Key(y)

(* The ladder.  A master hangs under the credit of its original, its       *)
(* earliest dated Discogs release; a MusicBrainz-only release is placed    *)
(* through such a master or not at all.                                    *)
Discogs(cat, m) == {r \in DOMAIN cat : cat[r].discogs /\ cat[r].master = m}

Original(cat, m) ==
    Least(Discogs(cat, m), LAMBDA r : (IF cat[r].year = 0 THEN 10000 ELSE cat[r].year) * 100 + r)

EffectiveYear(rel) ==
    IF rel.year # 0 \/ rel.master = NoMaster THEN rel.year ELSE MasterYear[rel.master]

(* The root first, then the credits with most releases under them.         *)
OrderOfCredits(placed) ==
    Sorted({Root} \cup {c \in DOMAIN placed : placed[c] > 0},
           LAMBDA c : IF c = Root THEN 0 ELSE 1000 * (100 - placed[c]) + c)

Ladder(cat) ==
    LET masters == {m \in {cat[r].master : r \in DOMAIN cat} \ {NoMaster} : Discogs(cat, m) # {}}
        items == {r \in DOMAIN cat : cat[r].discogs \/ cat[r].master \in masters}
        anchor == [m \in masters |-> Original(cat, m)]
        under == [r \in items |-> IF cat[r].master = NoMaster THEN cat[r].credit
                                  ELSE cat[anchor[cat[r].master]].credit]
        credits == {Root} \cup {under[r] : r \in items}
        years == [r \in items |-> EffectiveYear(cat[r])]
        own(m) == {r \in items : cat[r].master = m}
        known(m) == {years[r] : r \in own(m)} \ {0}
    IN  [items |-> items, year |-> years, anchor |-> anchor, under |-> under,
         itemsOf |-> [m \in masters |-> own(m)],
         yearOf |-> [m \in masters |-> IF MasterYear[m] # 0 THEN MasterYear[m]
                                       ELSE IF known(m) = {} THEN 0 ELSE Min(known(m))],
         creditOf |-> [m \in masters |-> cat[anchor[m]].credit],
         stateful |-> {m \in masters : \E r \in own(m) : cat[r].stateful},
         mastersOf |-> [c \in credits |-> {m \in masters : cat[anchor[m]].credit = c}],
         masterless |-> [c \in credits |-> {r \in items : cat[r].master = NoMaster /\ under[r] = c}],
         order |-> OrderOfCredits([c \in credits |-> Cardinality({r \in items : under[r] = c})])]

Credits == DOMAIN ladder.masterless
Masters == DOMAIN ladder.itemsOf
ItemsOf(m) == ladder.itemsOf[m]
Masterless(c) == ladder.masterless[c]
MastersOf(c) == ladder.mastersOf[c]
MasterCredit(m) == ladder.creditOf[m]
YearOf(m) == ladder.yearOf[m]
Year(r) == ladder.year[r]
ItemKey(r) == (Year(r) * 2 + (IF catalog[r].discogs THEN 0 ELSE 1)) * 100 + r

-----------------------------------------------------------------------------
(* Focus cursors: _parse_focus, _pressing, resolve_focus.                  *)
Focus(id, level, members, c, m, lane, label) ==
    [id |-> id, level |-> level, members |-> members, credit |-> c, master |-> m, lane |-> lane,
     label |-> label]

Decade(y) == y \div 10

Named(id) ==
    CASE id[1] = "c:other" -> Focus(id, 0, Tail(ladder.order), 0, NoMaster, 0, Whole)
      [] id[1] = "ra:m" -> Focus(id, 2, Sorted(ItemsOf(id[2]), ItemKey), MasterCredit(id[2]), id[2], 0, Whole)
      [] id[1] = "ra:nm" ->
           Focus(id, 2, Sorted({r \in Masterless(id[2]) : id[3] \in {Whole, Decade(Year(r))}}, ItemKey),
                 id[2], NoMaster, id[2], id[3])
      [] id[1] = "ma" ->
           Focus(id, 1, Sorted({m \in MastersOf(id[2]) : id[3] \in {Whole, Decade(YearOf(m))}},
                               LAMBDA m : YearOf(m) * 100 + m),
                 id[2], NoMaster, 0, id[3])

PressingCursor(r) ==
    IF catalog[r].master # NoMaster THEN <<"ra:m", catalog[r].master>>
    ELSE <<"ra:nm", catalog[r].credit, Whole>>

Bit(b) == IF b THEN 1 ELSE 0

PageOf(n, whole, rest) == IF n <= Min({PageSize, whole}) THEN n ELSE Max({1, Min({PageSize, rest})})

LaneOf(c) == Bit(Masterless(c) # {})

FocusPage(f) ==
    LET n == Len(f.members)
        lanes == LaneOf(Root) + (IF f.credit # Root THEN LaneOf(f.credit) ELSE 0)
        own == LaneOf(f.credit) + Bit(MastersOf(f.credit) \ SeqRange(f.members) # {})
        others == own + IF f.credit # Root THEN LaneOf(Root) + Bit(MastersOf(Root) # {}) ELSE 0
        open == IF f.lane = 0 THEN lanes
                ELSE lanes - 1 + Bit(Cardinality(Masterless(f.lane)) > n)
    IN  CASE f.level = 0 -> PageOf(n, Budget.credits - 1, Budget.credits - 2)
          [] f.level = 1 -> PageOf(n, Min({Budget.masters - others, Budget.releases - lanes}),
                                      Min({Budget.masters - others - 1, Budget.releases - lanes}))
          [] f.level = 2 -> PageOf(n, Budget.releases - open, Budget.releases - open - 1)

IndexOf(s, x) == CHOOSE i \in DOMAIN s : s[i] = x

(* The focus of a request: its page of members and the rest.  The page of  *)
(* a pressing is the one that holds it; other pages wrap.                  *)
Resolve(id, asked) ==
    LET f == IF id[1] = "r" THEN Named(PressingCursor(id[2])) ELSE Named(id)
        size == FocusPage(f)
        pages == (Len(f.members) + size - 1) \div size
        at == IF id[1] = "r" THEN (IndexOf(f.members, id[2]) - 1) \div size ELSE asked % pages
        drawn == {i \in DOMAIN f.members : (i - 1) \div size = at}
    IN  [focus |-> f, pages |-> pages, page |-> at,
         drawn |-> {f.members[i] : i \in drawn},
         rest |-> {f.members[i] : i \in DOMAIN f.members \ drawn}]

Unfocused == [focus |-> Focus(NoFocus, -1, <<>>, 0, NoMaster, 0, Whole), pages |-> 0, page |-> 0,
              drawn |-> {}, rest |-> {}]

-----------------------------------------------------------------------------
(* _credit_levels: the credit planes from the finest to the coarsest.      *)
CreditLevels(v) ==
    LET base == {Root} \cup (IF v.focus.credit # 0 THEN {v.focus.credit} ELSE {})
        rest == SelectSeq(ladder.order, LAMBDA c : c \notin base)
        most == IF Cardinality(base) + Len(rest) <= Budget.credits THEN Len(rest)
                ELSE Budget.credits - Cardinality(base) - 1
    IN  IF v.focus.level = 0 THEN <<{Root} \cup v.drawn>>
        ELSE [i \in 1..(most + 1) |-> base \cup {rest[j] : j \in 1..(most + 1 - i)}]

(* _plan_masters and _release_floor.  The masters kept are the longest     *)
(* prefix, by priority, that fits with the others in buckets.              *)
FocusEntries(v) == Cardinality(v.drawn) + Bit(v.rest # {})

ReleaseFloor(pinned, lanes, v) ==
    Cardinality(pinned) + Cardinality(lanes)
      + IF v.focus.level = 2
        THEN FocusEntries(v) - 1
               + IF v.focus.lane = 0 THEN 0
                 ELSE Bit(Cardinality(Masterless(v.focus.lane)) > Len(v.focus.members))
        ELSE 0

Priority(m) ==
    (Bit(m \notin ladder.stateful) * 100 + 99 - Cardinality(ItemsOf(m))) * 100 + m

PlanMasters(shown, v, byDecade) ==
    LET pinned == IF v.focus.level = 1 THEN v.drawn ELSE {v.focus.master} \ {NoMaster}
        remainder == IF v.focus.level = 1 THEN v.rest ELSE {}
        cands == Sorted({m \in Masters \ (pinned \cup remainder) : MasterCredit(m) \in shown}, Priority)
        lanes == {c \in shown : Masterless(c) # {}}
        bucket(m) == <<MasterCredit(m), IF byDecade THEN Decade(YearOf(m)) ELSE Whole>>
        buckets(k) == {bucket(cands[i]) : i \in (k + 1)..Len(cands)}
        fits(k) == /\ Cardinality(pinned) + Bit(remainder # {}) + Cardinality(lanes) + k
                        + Cardinality(buckets(k)) <= Budget.masters
                   /\ ReleaseFloor(pinned, lanes, v) + k <= Budget.releases
        keep == Max({k \in 0..Len(cands) : fits(k)} \cup {0})
    IN  [ok |-> fits(keep), shown |-> shown, folded |-> Credits \ shown,
         masters |-> pinned \cup {cands[i] : i \in 1..keep},
         buckets |-> {[id |-> <<"ma", b[1], b[2]>>, parent |-> b[1],
                       held |-> {cands[i] : i \in {i \in (keep + 1)..Len(cands) : bucket(cands[i]) = b}}]
                        : b \in buckets(keep)},
         remainder |-> IF remainder = {} THEN {}
                       ELSE {[id |-> v.focus.id, parent |-> v.focus.credit, held |-> remainder]},
         lanes |-> lanes]

(* fit: the first credit level and mode that fit.                          *)
Fit(v) ==
    LET levels == CreditLevels(v)
        plans == [i \in 1..(2 * Len(levels)) |-> PlanMasters(levels[(i + 1) \div 2], v, i % 2 = 1)]
    IN  plans[Min({i \in DOMAIN plans : plans[i].ok})]

-----------------------------------------------------------------------------
(* plan_releases and _fold_releases.                                       *)
Agg(id, parent, held) == [id |-> id, parent |-> parent, held |-> held]

MasterParent(m) == <<"m", m>>
LaneParent(c) == <<"nm", c>>

FoldMaster(m, original, stateful) ==
    {r \in ItemsOf(m) : ~((original /\ r = ladder.anchor[m]) \/ (stateful /\ catalog[r].stateful))}

LaneAggs(c, items, byDecade) ==
    IF byDecade
    THEN {Agg(<<"ra:nm", c, d>>, LaneParent(c), {r \in items : Decade(Year(r)) = d})
            : d \in {Decade(Year(r)) : r \in items}}
    ELSE {Agg(<<"ra:nm", c, Whole>>, LaneParent(c), items)} \ {Agg(<<"ra:nm", c, Whole>>, LaneParent(c), {})}

PlanReleases(p, v) ==
    LET focused == v.focus.level = 2
        onMaster == IF focused THEN {v.focus.master} ELSE {}
        parent == IF v.focus.lane # 0 THEN LaneParent(v.focus.lane) ELSE MasterParent(v.focus.master)
        fixed == IF focused THEN {<<r, parent>> : r \in v.drawn} ELSE {}
        fixedAggs == IF focused /\ v.rest # {} THEN {Agg(v.focus.id, parent, v.rest)} ELSE {}
        open == p.masters \ onMaster
        laneItems(c) == Masterless(c) \ (IF focused THEN SeqRange(v.focus.members) ELSE {})
        room == Budget.releases - Cardinality(fixed) - Cardinality(fixedAggs)
        placed == {e \in ladder.items \X open : catalog[e[1]].master = e[2]}
        all == {<<e[1], MasterParent(e[2])>> : e \in placed}
                 \cup UNION {{<<r, LaneParent(c)>> : r \in laneItems(c)} : c \in p.lanes}
        folded(s) == UNION {FoldMaster(m, s[1], s[2]) : m \in open}
                       \cup UNION {{r \in laneItems(c) : ~(s[2] /\ catalog[r].stateful)} : c \in p.lanes}
        aggs(s) == {Agg(<<"ra:m", m>>, MasterParent(m), FoldMaster(m, s[1], s[2]))
                      : m \in {m \in open : FoldMaster(m, s[1], s[2]) # {}}}
                   \cup UNION {LaneAggs(c, laneItems(c) \cap folded(s), s[3]) : c \in p.lanes}
        nodes(s) == {e \in all : e[1] \notin folded(s)}
        strategies == << <<TRUE, TRUE, TRUE>>, <<TRUE, TRUE, FALSE>>, <<FALSE, TRUE, FALSE>>,
                         <<FALSE, FALSE, FALSE>> >>
        first == Min({i \in 1..4 : i = 4 \/ Cardinality(nodes(strategies[i]))
                                             + Cardinality(aggs(strategies[i])) <= room})
    IN  IF Cardinality(all) <= room THEN [nodes |-> fixed \cup all, aggs |-> fixedAggs]
        ELSE [nodes |-> fixed \cup nodes(strategies[first]), aggs |-> fixedAggs \cup aggs(strategies[first])]

(* build_strata: the planes that answer a request.                         *)
Respond(id, asked) ==
    LET v == IF id = NoFocus THEN Unfocused ELSE Resolve(id, asked)
        p == Fit(v)
        q == PlanReleases(p, v)
    IN  [view |-> v, plan |-> p, nodes |-> q.nodes, aggs |-> q.aggs]

-----------------------------------------------------------------------------
NoResponse == <<>>

StrataInit ==
    /\ catalog \in Catalogs
    /\ ladder = Ladder(catalog)
    /\ cursor = NoFocus
    /\ page = 0
    /\ response = NoResponse

(* The cursors some view of this catalog has: each aggregate's id, and a   *)
(* pressing's.                                                             *)
Decades(S, of(_)) == {Whole} \cup {Decade(of(x)) : x \in S}

Cursors ==
    {NoFocus} \cup (IF Credits = {Root} THEN {} ELSE {<<"c:other">>})
      \cup {<<"ra:m", m>> : m \in Masters} \cup {<<"r", r>> : r \in ladder.items}
      \cup UNION {{<<"ra:nm", c, d>> : d \in Decades(Masterless(c), Year)}
                     : c \in {c \in Credits : Masterless(c) # {}}}
      \cup UNION {{<<"ma", c, d>> : d \in Decades(MastersOf(c), YearOf)}
                     : c \in {c \in Credits : MastersOf(c) # {}}}

Ask ==
    /\ response = NoResponse
    /\ \E id \in Cursors : cursor' = id /\ response' = Respond(id, 0)
    /\ UNCHANGED <<catalog, ladder, page>>

(* Pages wrap: the page after the last is the first again.                 *)
NextPage ==
    /\ response # NoResponse
    /\ cursor[1] # "r"
    /\ page < response.view.pages
    /\ page' = page + 1
    /\ response' = Respond(cursor, page + 1)
    /\ UNCHANGED <<catalog, ladder, cursor>>

StrataNext == Ask \/ NextPage

-----------------------------------------------------------------------------
(* Every plane holds at most its budget, nodes and aggregates together.    *)
WithinBudget(s) ==
    /\ Cardinality(s.plan.shown) + Bit(s.plan.folded # {}) <= Budget.credits
    /\ Cardinality(s.plan.masters) + Cardinality(s.plan.buckets) + Cardinality(s.plan.remainder)
         + Cardinality(s.plan.lanes) <= Budget.masters
    /\ Cardinality(s.nodes) + Cardinality(s.aggs) <= Budget.releases

(* Every entry below the credit plane has a parent that is drawn.          *)
ParentsAreDrawn(s) ==
    /\ {MasterCredit(m) : m \in s.plan.masters} \cup {b.parent : b \in s.plan.buckets \cup s.plan.remainder}
         \cup s.plan.lanes \subseteq s.plan.shown
    /\ {n[2] : n \in s.nodes} \cup {a.parent : a \in s.aggs}
         \subseteq {MasterParent(m) : m \in s.plan.masters} \cup {LaneParent(c) : c \in s.plan.lanes}

(* Every release is drawn once, or held by exactly one aggregate.          *)
HeldOnce(s) ==
    \A r \in ladder.items :
        LET m == catalog[r].master
        IN  Cardinality({n \in s.nodes : n[1] = r}) + Cardinality({a \in s.aggs : r \in a.held})
              + Cardinality({b \in s.plan.buckets \cup s.plan.remainder : m \in b.held})
              + Bit(ladder.under[r] \in s.plan.folded) = 1

(* The members of the page, or the pressing, that was asked for are drawn. *)
FocusIsDrawn(s) ==
    /\ s.view.focus.level = 0 => s.view.drawn \subseteq s.plan.shown
    /\ s.view.focus.level = 1 => s.view.drawn \subseteq s.plan.masters
    /\ s.view.focus.level = 2 => s.view.drawn \subseteq {n[1] : n \in s.nodes}
    /\ cursor[1] = "r" => cursor[2] \in {n[1] : n \in s.nodes}

(* The four promises of the module, for every catalog, cursor and page.    *)
StrataAreSound ==
    response # NoResponse =>
        /\ WithinBudget(response) /\ ParentsAreDrawn(response)
        /\ HeldOnce(response) /\ FocusIsDrawn(response)
=============================================================================
