------------------------------ MODULE Reattach ------------------------------
(***************************************************************************)
(* Re-attachment of MusicBrainz rows whose item was split from that of     *)
(* their Discogs link by the load order (api/reattach.py): runs that page  *)
(* over candidates and repair each in a transaction of its own, while the  *)
(* loaders (external) resolve a row's item in one transaction and write it *)
(* to the row in a later one.  One catalog kind is modelled; the kinds do  *)
(* not share aliases.  The merge itself, its ledger of moved dependents    *)
(* and its locks are in module CatalogMerge: here a merge is the one-hop   *)
(* resolution it leaves and the caches it recomputes.                      *)
(***************************************************************************)
EXTENDS Integers, FiniteSets

CONSTANTS
    MbRows,         \* rows of musicbrainz.releases, a set of numbers (mbid order)
    DiscogsIds,     \* Discogs ids
    Identifiers,    \* values of identifier providers (a barcode)
    Curated,        \* aliases whose source is not 'catalog'
    MaxItems,       \* bound: catalog items minted
    MaxMessages,    \* bound: MusicBrainz messages loaded
    Runs,           \* applying runs that may be in progress at once
    BatchSize,      \* batch_size
    MaxRunFaults    \* bound: runs ended by a database error

ASSUME RowsAssumption == MbRows \subseteq Nat

VARIABLES
    holder,     \* holder[k]: native_id of the current alias k, NoItem when there is none
    link,       \* link[m]: the Discogs id column, NoLink when it is NULL
    gm,         \* gm[m]: gm_item_id
    survivor,   \* survivor[i]: the item i is superseded into, NoItem when it is current
    message,    \* the loader's message between its two transactions
    run,        \* run[r]: an applying run
    minted, messages, runFaults

reattachVars == <<holder, link, gm, survivor, message, run, minted, messages, runFaults>>

-----------------------------------------------------------------------------
NoItem == 0
NoLink == 0

Mb(m) == <<"musicbrainz", m>>
Dg(d) == <<"discogs", d>>
Ident(b) == <<"identifier", b>>

IdentifierKeys == {Ident(b) : b \in Identifiers}
AliasKeys == {Mb(m) : m \in MbRows} \cup {Dg(d) : d \in DiscogsIds} \cup IdentifierKeys
MintedItems == 1..MaxItems

NoMessage == [row |-> 0, link |-> NoLink, item |-> NoItem]
NoRun == [pc |-> "idle", page |-> {}, cursor |-> 0, row |-> 0, link |-> NoLink, gm |-> NoItem,
          mb |-> NoItem, dg |-> NoItem]

ReattachInit ==
    /\ holder = [k \in AliasKeys |-> NoItem]
    /\ link = [m \in MbRows |-> NoLink]
    /\ gm = [m \in MbRows |-> NoItem]
    /\ survivor = [i \in MintedItems |-> NoItem]
    /\ message = NoMessage
    /\ run = [r \in Runs |-> NoRun]
    /\ minted = 0 /\ messages = 0 /\ runFaults = 0

-----------------------------------------------------------------------------
(* The loaders.  An alias is attached where none is current; the item of a *)
(* new record is the one an alias of it already names, or a minted one.    *)
Attach(keys, i) == [k \in AliasKeys |-> IF k \in keys /\ holder[k] = NoItem THEN i ELSE holder[k]]

RowLocked(m) == \E r \in Runs : run[r].pc \in {"aliases", "repair"} /\ run[r].row = m

DiscogsLoads(d) ==
    /\ holder[Dg(d)] = NoItem
    /\ minted < MaxItems
    /\ minted' = minted + 1
    /\ \E own \in SUBSET IdentifierKeys : holder' = Attach({Dg(d)} \cup own, minted + 1)
    /\ UNCHANGED <<link, gm, survivor, message, run, messages, runFaults>>

MusicBrainzResolves(m, d) ==
    LET known == {holder[k] : k \in {Mb(m)} \cup (IF d = NoLink THEN {} ELSE {Dg(d)})} \ {NoItem}
        item == IF holder[Mb(m)] # NoItem THEN holder[Mb(m)]
                ELSE IF known # {} THEN CHOOSE i \in known : TRUE
                ELSE minted + 1
    IN  /\ message = NoMessage
        /\ messages < MaxMessages
        /\ item <= MaxItems
        /\ minted' = IF known = {} THEN item ELSE minted
        /\ messages' = messages + 1
        /\ holder' = Attach({Mb(m)}, item)
        /\ message' = [row |-> m, link |-> d, item |-> item]
        /\ UNCHANGED <<link, gm, survivor, run, runFaults>>

MusicBrainzUpserts ==
    /\ message # NoMessage
    /\ ~RowLocked(message.row)
    /\ link' = [link EXCEPT ![message.row] = message.link]
    /\ gm' = [gm EXCEPT ![message.row] = message.item]
    /\ \E own \in SUBSET IdentifierKeys : holder' = Attach(own, message.item)
    /\ message' = NoMessage
    /\ UNCHANGED <<survivor, run, minted, messages, runFaults>>

-----------------------------------------------------------------------------
(* _LINKED and _CANDIDATE: both aliases resolve, and the row is split from *)
(* its Discogs item or its gm_item_id is stale.                            *)
Candidate(m) ==
    /\ link[m] # NoLink
    /\ holder[Mb(m)] # NoItem /\ holder[Dg(link[m])] # NoItem
    /\ \/ holder[Mb(m)] # holder[Dg(link[m])]
       \/ gm[m] # NoItem /\ gm[m] # holder[Dg(link[m])]

(* The item a repair would merge away.                                     *)
SplitId(m) == IF holder[Mb(m)] # holder[Dg(link[m])] THEN holder[Mb(m)] ELSE gm[m]

HeldBy(i) == {k \in AliasKeys : holder[k] = i}

(* Mutant: only the source of the aliases is looked at.                    *)
GuardedBySource(i, m) == HeldBy(i) \cap Curated # {}

(* _GUARDS: shared_native_id, non_catalog_alias.                           *)
Guarded(i, m) ==
    \/ HeldBy(i) \ (IdentifierKeys \cup {Mb(m)}) # {}
    \/ HeldBy(i) \cap Curated # {}

(* current_supersession: MergeConflictError.                               *)
Conflict(i, d) == survivor[d] # NoItem \/ survivor[i] \notin {NoItem, d}

-----------------------------------------------------------------------------
(* apply_with_audit, run_reattachment: the started entry and the census,   *)
(* which writes nothing, then pages in mbid order.                         *)
StartRun(r) ==
    /\ run[r].pc = "idle"
    /\ run' = [run EXCEPT ![r].pc = "page"]
    /\ UNCHANGED <<holder, link, gm, survivor, message, minted, messages, runFaults>>

FirstOf(S, n) == {m \in S : Cardinality({j \in S : j < m}) < n}

(* An empty page ends the run; its entry is finalized and the ledger       *)
(* refreshed (module ReattachTrigger).                                     *)
ReadPage(r) ==
    LET page == FirstOf({m \in MbRows : Candidate(m) /\ m > run[r].cursor}, BatchSize)
    IN  /\ run[r].pc = "page"
        /\ run' = [run EXCEPT ![r] = IF page = {} THEN NoRun
                                     ELSE [@ EXCEPT !.pc = "item", !.page = page]]
        /\ UNCHANGED <<holder, link, gm, survivor, message, minted, messages, runFaults>>

NextRow(r) == CHOOSE m \in run[r].page : \A j \in run[r].page : m <= j

(* The item's transaction is over, whatever it came to; the run goes on    *)
(* with the page, or reads the next one.                                   *)
AfterItem(r) ==
    LET rest == run[r].page \ {run[r].row}
    IN  [NoRun EXCEPT !.pc = IF rest = {} THEN "page" ELSE "item", !.page = rest,
                      !.cursor = run[r].row]

(* _LOCK_ROW: the row as it is now, FOR UPDATE.                            *)
LockRow(r) ==
    /\ run[r].pc = "item"
    /\ ~RowLocked(NextRow(r))
    /\ run' = [run EXCEPT ![r].pc = "aliases", ![r].row = NextRow(r),
                          ![r].link = link[NextRow(r)], ![r].gm = gm[NextRow(r)]]
    /\ UNCHANGED <<holder, link, gm, survivor, message, minted, messages, runFaults>>

(* _LOCK_ALIASES waits for a transaction that holds the alias of the same  *)
(* link (the row's own alias is locked with the row).  A row whose link is *)
(* gone, or whose aliases agree with each other and with gm_item_id, is    *)
(* left unchanged.                                                         *)
LockAliases(r) ==
    LET q == run[r]
        mb == holder[Mb(q.row)]
        dg == IF q.link = NoLink THEN NoItem ELSE holder[Dg(q.link)]
        split == mb # dg \/ (q.gm # NoItem /\ q.gm # dg)
    IN  /\ q.pc = "aliases"
        /\ \A o \in Runs \ {r} : ~(run[o].pc = "repair" /\ run[o].link = q.link)
        /\ run' = [run EXCEPT ![r] = IF mb = NoItem \/ dg = NoItem \/ ~split THEN AfterItem(r)
                                     ELSE [@ EXCEPT !.pc = "repair", !.mb = mb, !.dg = dg]]
        /\ UNCHANGED <<holder, link, gm, survivor, message, minted, messages, runFaults>>

(* _CLOSE_ALIASES, _REINSERT_ALIASES: every current alias of x goes to d.  *)
(* x held each of them, so none collides.                                  *)
MoveAll(x, d) == [k \in AliasKeys |-> IF holder[k] = x THEN d ELSE holder[k]]

(* merge_items: what resolved to x now resolves to d, and the caches of    *)
(* both take what the rows' own aliases resolve to.                        *)
Supersede(x, d) == [i \in MintedItems |-> IF i = x \/ survivor[i] = x THEN d ELSE survivor[i]]

Recomputed(x, d, moved, m) ==
    [j \in MbRows |-> IF j = m THEN d
                      ELSE IF gm[j] \in {x, d} /\ moved[Mb(j)] # NoItem THEN moved[Mb(j)] ELSE gm[j]]

(* reattach_item under its locks: guarded, failed or reattached.           *)
Repair(r) ==
    LET q == run[r]
        x == IF q.mb # q.dg THEN q.mb ELSE q.gm
    IN  /\ q.pc = "repair"
        /\ run' = [run EXCEPT ![r] = AfterItem(r)]
        /\ IF Guarded(x, q.row) \/ Conflict(x, q.dg)
           THEN UNCHANGED <<holder, gm, survivor>>
           ELSE /\ holder' = MoveAll(x, q.dg)
                /\ survivor' = Supersede(x, q.dg)
                /\ gm' = Recomputed(x, q.dg, MoveAll(x, q.dg), q.row)
        /\ UNCHANGED <<link, message, minted, messages, runFaults>>

(* Any other database error ends the run; what it committed stays.         *)
RunFails(r) ==
    /\ run[r].pc # "idle"
    /\ runFaults < MaxRunFaults
    /\ runFaults' = runFaults + 1
    /\ run' = [run EXCEPT ![r] = NoRun]
    /\ UNCHANGED <<holder, link, gm, survivor, message, minted, messages>>

RunStep(r) == StartRun(r) \/ ReadPage(r) \/ LockRow(r) \/ LockAliases(r) \/ Repair(r)

ReattachNext ==
    \/ \E d \in DiscogsIds : DiscogsLoads(d)
    \/ \E m \in MbRows, d \in DiscogsIds \cup {NoLink} : MusicBrainzResolves(m, d)
    \/ MusicBrainzUpserts
    \/ \E r \in Runs : RunStep(r) \/ RunFails(r)

-----------------------------------------------------------------------------
(* A run moves the identity of a MusicBrainz row only onto the item of     *)
(* that row's own Discogs link, and never that of a Discogs record,        *)
(* whatever page, loader or second run it crossed: neither another row nor *)
(* a Discogs id that shares the item is carried along.                     *)
MovesFollowOwnLink ==
    [][/\ \A m \in MbRows : (holder[Mb(m)] # NoItem /\ holder'[Mb(m)] # holder[Mb(m)])
             => link[m] # NoLink /\ holder'[Mb(m)] = holder[Dg(link[m])]
       /\ \A d \in DiscogsIds : holder[Dg(d)] \in {NoItem, holder'[Dg(d)]}]_reattachVars

(* Once the loaders are quiet, the runs repair every split or stale row    *)
(* for good, but for those a guard or a merge conflict keeps as they are.  *)
NoSplitLeft ==
    \A m \in MbRows : Candidate(m) =>
        Guarded(SplitId(m), m) \/ Conflict(SplitId(m), holder[Dg(link[m])])
SplitsHeal == <>[]NoSplitLeft
=============================================================================
