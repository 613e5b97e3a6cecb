---------------------------- MODULE IdentityReads ----------------------------
(***************************************************************************)
(* The two readers of provider_aliases: the Identity Ledger's read of one  *)
(* work at a transaction time (api/identity_ledger.py and its queries) and *)
(* the projection of native ids onto the graph (api/projection.py), while  *)
(* the loaders (external) and the re-attachment of split items write.      *)
(* Every write is one transaction with a time of its own; the merge itself *)
(* is in module CatalogMerge, its guards and its paging in Reattach.       *)
(***************************************************************************)
EXTENDS Integers, Sequences, FiniteSets

CONSTANTS
    DgIds, MbIds,   \* ids of Discogs and MusicBrainz rows, numbers, per kind
    Barcodes,       \* identifier values
    MasterOf,       \* MasterOf[d]: graph.derived_from, NoId without a master
    GroupOf,        \* GroupOf[m]: release_group_mbid
    EditionLimit,   \* edition_limit
    ProjectionPage, \* batch_size
    MaxTx           \* bound: transactions written

ASSUME IdentityAssumption == DgIds \subseteq Nat \ {0} /\ ProjectionPage \in Nat \ {0}

VARIABLES
    aliases,        \* provider_aliases
    merged,         \* catalog_item_supersessions
    named,          \* named[r]: the Discogs id MusicBrainz row r names
    link_events,    \* identity_link_events
    tx,             \* the time of the last transaction
    graph,          \* graph[k]: gm_id of the Discogs node k, Absent without a node
    projection,     \* the projection job: its kind, its cursor and what it found
    recorded,       \* history: what a read showed after each transaction
    happened        \* history: what the writers did

identityVars == <<aliases, merged, named, link_events, tx, graph, projection, recorded, happened>>

-----------------------------------------------------------------------------
NoTime == 0         \* an open valid_to; as_of omitted
NoId == 0
Absent == -1

EntityKinds == {"master", "release"}
MbKeys == EntityKinds \X MbIds
DgKeys == EntityKinds \X DgIds

Native == {a.item : a \in aliases}
OpenAliases == {a \in aliases : a.to = NoTime}
ItemKind(i) == (CHOOSE a \in aliases : a.item = i).kind
HolderNow(provider, kind, id) ==
    LET held == {a \in OpenAliases : a.provider = provider /\ a.kind = kind /\ a.id = id}
    IN  IF held = {} THEN NoId ELSE (CHOOSE a \in held : TRUE).item

OpenMerge(i) == {s \in merged : s.superseded = i}
Survives(i) == IF OpenMerge(i) = {} THEN i ELSE (CHOOSE s \in OpenMerge(i) : TRUE).survivor
CurrentItems == {i \in Native : OpenMerge(i) = {}}

NoProjection == [pc |-> "idle", kind |-> "artist", cursor |-> 0, page |-> {}, due |-> {}]

IdentityInit ==
    /\ aliases = {} /\ merged = {} /\ link_events = {} /\ tx = 0
    /\ named = [r \in MbKeys |-> NoId]
    /\ graph = [k \in DgKeys |-> Absent]
    /\ projection = NoProjection
    /\ recorded = <<>> /\ happened = {}

-----------------------------------------------------------------------------
(* _Ledger, over the alias rows A the request fetched.                     *)

Valid(a, t) ==
    IF t = NoTime THEN a.to = NoTime ELSE a.from <= t /\ (a.to = NoTime \/ a.to > t)

Visible(at, t) == t = NoTime \/ at <= t

Group(i) == {i} \cup {s.superseded : s \in {x \in merged : x.survivor = i}}

HoldersAt(A, provider, kind, id, t) ==
    {a.item : a \in {b \in A : b.provider = provider /\ b.kind = kind /\ b.id = id /\ Valid(b, t)}}

(* musicbrainz_rows, discogs_rows: today's row of each alias that resolves *)
(* to the edition.                                                         *)
RowsOf(A, provider, e) ==
    {a.id : a \in {b \in A : b.provider = provider /\ b.kind = "release" /\ b.to = NoTime
                                                   /\ Survives(b.item) = e}}

(* What one MusicBrainz row says of the edition, "agrees" when nothing.    *)
RowSays(A, m, t) ==
    LET d == named[<<"release", m>>]
        dg == HoldersAt(A, "discogs", "release", d, t)
        mb == HoldersAt(A, "musicbrainz", "release", m, t)
    IN  IF d = NoId \/ mb = {} THEN "agrees"
        ELSE IF dg = {} THEN "unresolved"
        ELSE IF dg # mb THEN "split" ELSE "agrees"

(* state: the first row with something to say decides, and the rows come   *)
(* in no order, so the answer is one of a set.                             *)
States(A, i, t, kind) ==
    LET held == {a.provider : a \in {b \in A : b.item = i /\ b.kind = kind /\ Valid(b, t)}}
        said == IF kind = "release" THEN {RowSays(A, m, t) : m \in RowsOf(A, "musicbrainz", i)} \ {"agrees"}
                ELSE {}
        group == IF kind = "release" THEN Group(i) ELSE {i}
    IN  IF {"discogs", "musicbrainz"} \subseteq held THEN {"linked"}
        ELSE IF said # {} THEN said
        ELSE IF "discogs" \in held THEN {"discogs_only"}
        ELSE IF \E a \in A : a.provider = "musicbrainz" /\ a.item \in group /\ Valid(a, t)
        THEN {"musicbrainz_only"} ELSE {"not_recorded"}

(* works: the Discogs master's work and the release group's.               *)
WorksOf(A, e) ==
    LET resolved(provider, id) ==
            LET i == HolderNow(provider, "master", id) IN IF i = NoId THEN {} ELSE {Survives(i)}
    IN  (UNION {resolved("discogs", MasterOf[d]) : d \in RowsOf(A, "discogs", e)})
            \cup (UNION {resolved("musicbrainz", GroupOf[m]) : m \in RowsOf(A, "musicbrainz", e)})

MintOf(A, i) == CHOOSE t \in {a.from : a \in {b \in A : b.item = i}} :
                    \A a \in A : a.item = i => t <= a.from

(* opened_by_supersession, closed_by_supersession: by the instant.         *)
OpenedByMerge(a) == \E s \in merged : s.survivor = a.item /\ s.from = a.from
ClosedByMerge(a) == \E s \in merged : s.superseded = a.item /\ s.from = a.to

Item(i) == <<"item", i>>
Event(type, at, of) == [type |-> type, at |-> at, of |-> of]

(* events: the mint of every item of the group, the aliases attached later *)
(* (linked_at_ingest and evidence_attached are told apart by provider      *)
(* only), closed aliases, supersessions and the dated links of the rows.   *)
Events(A, e, t) ==
    LET own == {a \in A : a.item \in Group(e)}
        keys == {<<a.kind, a.id>> : a \in {b \in own : b.provider = "musicbrainz"}}
        all == {Event("minted", MintOf(A, i), Item(i)) : i \in {a.item : a \in own}}
                \cup {Event("attached", a.from, Item(a.item)) :
                          a \in {b \in own : b.from > MintOf(A, b.item) /\ ~OpenedByMerge(b)}}
                \cup {Event("alias_closed", a.to, Item(a.item)) :
                          a \in {b \in own : b.to # NoTime /\ ~ClosedByMerge(b)}}
                \cup {Event("reattached", s.from, Item(s.superseded)) :
                          s \in {x \in merged : {x.superseded, x.survivor} \cap Group(e) # {}}}
                \cup {Event(l.type, l.at, l.row) : l \in {x \in link_events : x.row \in keys}}
    IN  {v \in all : Visible(v.at, t)}

-----------------------------------------------------------------------------
(* get_ledger_work: the rows one request reads.                            *)

(* _EDITIONS: by the work's current master and release group aliases.      *)
EditionsOf(w) ==
    LET ids(provider) == {a.id : a \in {b \in OpenAliases : b.kind = "master" /\ b.provider = provider
                                                            /\ b.item \in Group(w)}}
    IN  {Survives(a.item) : a \in {b \in OpenAliases :
            /\ b.kind = "release"
            /\ \/ b.provider = "discogs" /\ MasterOf[b.id] \in ids("discogs")
               \/ b.provider = "musicbrainz" /\ GroupOf[b.id] \in ids("musicbrainz")}}

FirstAt(e) == LET at == {a.from : a \in {b \in aliases : b.item \in Group(e)}}
              IN CHOOSE t \in at : \A u \in at : t <= u

ShownEditions(w, t) ==
    LET seen == {e \in EditionsOf(w) : Visible(FirstAt(e), t)}
        before(e, f) == FirstAt(e) < FirstAt(f) \/ (FirstAt(e) = FirstAt(f) /\ e < f)
    IN  {e \in seen : Cardinality({f \in seen : before(f, e)}) < EditionLimit}

Fetched(w, t) ==
    LET items == UNION {Group(i) : i \in {w} \cup ShownEditions(w, t)}
        rows == {a.id : a \in {b \in OpenAliases : b.item \in items /\ b.kind = "release"
                                                   /\ b.provider = "musicbrainz"}}
        holders == {HolderNow("discogs", "release", named[<<"release", m>>]) : m \in rows}
    IN  {a \in aliases : a.item \in items \cup holders}

-----------------------------------------------------------------------------
(* The writers.  A transaction also leaves, for the properties, what a     *)
(* read of the tables as they were before it would have shown.             *)
Snapshot ==
    [named |-> named,
     shown |-> [i \in CurrentItems |->
                  [states |-> States(aliases, i, NoTime, ItemKind(i)), group |-> Group(i)]]]

Write(what) ==
    /\ tx < MaxTx
    /\ tx' = tx + 1
    /\ recorded' = Append(recorded, Snapshot)
    /\ happened' = happened \cup what
    /\ UNCHANGED projection

NextItem == Cardinality(Native) + 1

AliasOn(provider, kind, id, i) ==
    [provider |-> provider, kind |-> kind, id |-> id, item |-> i, from |-> tx + 1, to |-> NoTime]

(* The Discogs loaders mint an item per row and write its node; a node may *)
(* also come first, from the graph's own loader.                           *)
LoadDiscogs(kind, d) ==
    /\ HolderNow("discogs", kind, d) = NoId
    /\ aliases' = aliases \cup {AliasOn("discogs", kind, d, NextItem)}
    /\ Write({Event("minted", tx + 1, Item(NextItem))})
    /\ UNCHANGED <<merged, named, link_events, graph>>

LoadNode(k) ==
    /\ graph[k] = Absent
    /\ graph' = [graph EXCEPT ![k] = NoId]
    /\ UNCHANGED <<aliases, merged, named, link_events, tx, projection, recorded, happened>>

LinkChange(r, d) ==
    IF named[r] = d THEN {}
    ELSE {[type |-> IF named[r] = NoId THEN "link_added" ELSE IF d = NoId THEN "link_removed"
                    ELSE "link_changed", at |-> tx + 1, row |-> r]}

LoadMusicBrainz(r, d) ==
    LET own == HolderNow("musicbrainz", r[1], r[2])
        dg == IF d = NoId THEN NoId ELSE HolderNow("discogs", r[1], d)
        i == IF own # NoId THEN own ELSE IF dg # NoId THEN dg ELSE NextItem
    IN  /\ own = NoId \/ named[r] # d
        /\ named' = [named EXCEPT ![r] = d]
        /\ aliases' = IF own # NoId THEN aliases
                      ELSE aliases \cup {AliasOn("musicbrainz", r[1], r[2], i)}
        /\ link_events' = link_events \cup LinkChange(r, d)
        /\ Write({Event(l.type, l.at, l.row) : l \in LinkChange(r, d)}
                 \cup (IF own # NoId THEN {}
                       ELSE {Event(IF i = dg THEN "attached" ELSE "minted", tx + 1, Item(i))}))
        /\ UNCHANGED <<merged, graph>>

(* attach_aliases; a loader that resolved its item before a re-attachment  *)
(* attaches to the item that was superseded meanwhile.                     *)
AttachBarcode(b, i) ==
    /\ i \in Native /\ ItemKind(i) = "release"
    /\ HolderNow("barcode", "release", b) = NoId
    /\ aliases' = aliases \cup {AliasOn("barcode", "release", b, i)}
    /\ Write({Event("attached", tx + 1, Item(i))})
    /\ UNCHANGED <<merged, named, link_events, graph>>

(* reattach_item: the aliases of x are closed and opened again on d, in    *)
(* the transaction that opens the supersession.  A second run over the     *)
(* same pair adds to the open row.                                         *)
MoveAliasesTo(x, d) ==
    {IF a \in OpenAliases /\ a.item = x THEN [a EXCEPT !.to = tx + 1] ELSE a : a \in aliases}
        \cup {[a EXCEPT !.item = d, !.from = tx + 1] : a \in {b \in OpenAliases : b.item = x}}

ReattachRow(r) ==
    LET d == HolderNow("discogs", r[1], named[r])
        x == HolderNow("musicbrainz", r[1], r[2])
    IN  /\ named[r] # NoId /\ d # NoId /\ x # NoId /\ x # d
        /\ \A a \in OpenAliases : a.item = x => \/ a.provider = "barcode"
                                                \/ a.provider = "musicbrainz" /\ <<a.kind, a.id>> = r
        /\ OpenMerge(x) = {} /\ OpenMerge(d) = {}
        /\ merged' = merged \cup {[superseded |-> x, survivor |-> d, from |-> tx + 1]}
        /\ aliases' = MoveAliasesTo(x, d)
        /\ Write({Event("reattached", tx + 1, Item(x))})
        /\ UNCHANGED <<named, link_events, graph>>

ReattachAgain(x) ==
    /\ x \in Native /\ OpenMerge(x) # {}
    /\ \E a \in OpenAliases : a.item = x
    /\ aliases' = MoveAliasesTo(x, Survives(x))
    /\ Write({})
    /\ UNCHANGED <<merged, named, link_events, graph>>

-----------------------------------------------------------------------------
(* run_gm_id_projection: per kind, pages of current Discogs aliases by     *)
(* external id; MATCH sets gm_id on the nodes that exist.                  *)
NodesToSet ==
    {k \in DgKeys : graph[k] # Absent /\ HolderNow("discogs", k[1], k[2]) # NoId}

StartProjection ==
    /\ projection.pc = "idle"
    /\ projection' = [NoProjection EXCEPT !.pc = "page", !.kind = "master", !.due = NodesToSet]
    /\ UNCHANGED <<aliases, merged, named, link_events, tx, graph, recorded, happened>>

(* Mutant: the cursor is set past the page, as an offset would be.         *)
NextCursorByCount(page, cursor) == cursor + ProjectionPage + 1

NextCursor(page, cursor) == CHOOSE n \in page : \A k \in page : k <= n

SelectPage ==
    LET p == projection
        rest == {a.id : a \in {b \in OpenAliases : b.provider = "discogs" /\ b.kind = p.kind
                                                   /\ b.id > p.cursor}}
        page == {n \in rest : Cardinality({k \in rest : k < n}) < ProjectionPage}
    IN  /\ p.pc = "page"
        /\ projection' =
             IF page # {} THEN [p EXCEPT !.pc = "write",
                                  !.page = {<<n, HolderNow("discogs", p.kind, n)>> : n \in page}]
             ELSE IF p.kind = "master" THEN [p EXCEPT !.kind = "release", !.cursor = 0]
             ELSE [p EXCEPT !.pc = "done"]
        /\ UNCHANGED <<aliases, merged, named, link_events, tx, graph, recorded, happened>>

WritePage ==
    LET p == projection
    IN  /\ p.pc = "write"
        /\ graph' = [k \in DgKeys |->
               IF graph[k] # Absent /\ \E q \in p.page : k = <<p.kind, q[1]>>
               THEN (CHOOSE q \in p.page : k = <<p.kind, q[1]>>)[2] ELSE graph[k]]
        /\ projection' = [p EXCEPT !.pc = "page", !.page = {},
                                   !.cursor = NextCursor({q[1] : q \in p.page}, p.cursor)]
        /\ UNCHANGED <<aliases, merged, named, link_events, tx, recorded, happened>>

(* _run_projection_job: a failure is logged, what was written stays.       *)
ProjectionEnds ==
    /\ projection.pc \in {"page", "write", "done"}
    /\ projection' = NoProjection
    /\ UNCHANGED <<aliases, merged, named, link_events, tx, graph, recorded, happened>>

Loads == \E k \in DgKeys : LoadDiscogs(k[1], k[2])

Relinks ==
    \/ \E r \in MbKeys, d \in DgIds \cup {NoId} : LoadMusicBrainz(r, d)
    \/ \E r \in MbKeys : ReattachRow(r)
    \/ \E b \in Barcodes, i \in Native : AttachBarcode(b, i)
    \/ \E x \in Native : ReattachAgain(x)

(* No writer reads the graph, and a re-attachment moves no Discogs alias,  *)
(* so the projection meets the Discogs loads alone.                        *)
LedgerNext == Loads \/ Relinks

ProjectionNext ==
    \/ Loads
    \/ \E k \in DgKeys : LoadNode(k)
    \/ StartProjection \/ SelectPage \/ WritePage \/ ProjectionEnds

-----------------------------------------------------------------------------
Works == {i \in CurrentItems : ItemKind(i) = "master"}

(* Whatever was written about an edition, or about an item superseded into *)
(* it, up to the time a ledger page is read at is among the edition's      *)
(* events, and nothing later is: a supersession never takes an item's      *)
(* story off the page.                                                     *)
StoryIsComplete ==
    \A w \in Works : \A t \in 1..tx : \A e \in ShownEditions(w, t) :
        LET rows == {<<"release", m>> : m \in RowsOf(aliases, "musicbrainz", e)}
            story == {v \in happened : v.at <= t /\
                        v.of \in rows \cup {Item(i) : i \in Group(e)}}
            told == Events(Fetched(w, t), e, t)
        IN  story \subseteq told /\ \A v \in told : v.at <= t

(* A ledger page read at an earlier time shows the states that were shown  *)
(* then, from the few rows it fetches, when neither the edition's items    *)
(* nor the links of the rows changed since; and an item superseded since   *)
(* keeps its split or unresolved past visible on the item it went to.      *)
StatesReadBack ==
    \A w \in Works : \A t \in 1..(tx - 1) :
        LET then == recorded[t + 1]
            A == Fetched(w, t)
        IN  then.named = named =>
              \A e \in ShownEditions(w, t) :
                /\ (e \in DOMAIN then.shown /\ then.shown[e].group = Group(e))
                     => States(A, e, t, "release") = then.shown[e].states
                /\ \A x \in Group(e) \ {e} :
                     (x \in DOMAIN then.shown /\ "split" \in then.shown[x].states)
                        => States(A, e, t, "release") \cap {"split", "linked"} # {}

(* The editions SQL lists under a work are exactly those whose provider    *)
(* rows the payload resolves to that work, after editions and works have   *)
(* both been superseded.                                                   *)
EditionsAgree ==
    \A w \in Works : \A e \in CurrentItems :
        ItemKind(e) = "release" => (e \in EditionsOf(w) <=> w \in WorksOf(aliases, e))

(* A projection that ran to its end gave every node that had an alias when *)
(* it started the native id that alias had, whatever was loaded meanwhile. *)
ProjectionIsComplete ==
    projection.pc = "done" =>
        \A k \in projection.due : graph[k] = HolderNow("discogs", k[1], k[2])

(* What the ledger's comment says of closed aliases: no writer closes one  *)
(* outside a supersession, so a moved alias is neither a closed alias nor  *)
(* new evidence.                                                           *)
(* It does not hold: see "Observations" in the README.                     *)
MovesAreNotEvidence ==
    \A w \in Works : \A e \in ShownEditions(w, tx) :
        \A v \in Events(Fetched(w, tx), e, tx) : v.type \in {"attached", "alias_closed"} => v \in happened
=============================================================================
