---------------------------- MODULE CatalogMerge ----------------------------
(***************************************************************************)
(* The native-id merge of two catalog items and its reversal               *)
(* (api/catalog_merge.py).  A superseded item is never deleted: a row of   *)
(* catalog_item_supersessions says which item it resolves to now, the      *)
(* copies and artifacts that named it are re-pointed to the survivor and   *)
(* each re-pointed row is ledgered, so that a revert can move exactly      *)
(* those back.                                                             *)
(*                                                                         *)
(* Concurrency.  A merge, a revert and the creation of a copy are          *)
(* PostgreSQL transactions.  A transaction takes its now() when it begins, *)
(* then its row locks one by one, and everything it writes becomes visible *)
(* when it commits; the checks of current_supersession and of              *)
(* revert_supersession are made after the locks are held, so they are the  *)
(* guards of the commit.  A transaction may be rolled back at any point    *)
(* (a MergeConflictError, a failed statement, a dead process).             *)
(***************************************************************************)
EXTENDS Naturals, FiniteSets

CONSTANTS
    Items,      \* catalog_items ids; ids are ordered, and locked in that order
    Kind,       \* Kind[i]: the kind column of item i
    Rows,       \* artifacts and owned_copies rows
    Keys,       \* provider alias keys
    Caches,     \* rows with a gm_item_id cache: entity, collection and wantlist rows
    AliasOf,    \* AliasOf[c]: the alias key cache row c is resolved through
    Txns,       \* database sessions that run the transactions
    MaxStamp    \* bound: how many merges and reverts may begin

NULL == 0       \* SQL NULL: an open valid_to, an unset via_id, no alias

ASSUME ItemsAssumption == Items \subseteq Nat \ {NULL}
ASSUME KindAssumption == Kind \in [Items -> STRING]
ASSUME StampAssumption == MaxStamp \in Nat
ASSUME CachesAssumption == AliasOf \in [Caches -> Keys]

VARIABLES
    supersessions,  \* the rows of catalog_item_supersessions
    item_id,        \* item_id[r]: the item row r names, NULL until r is committed
    moves,          \* catalog_item_moves: <<supersession key, row>>
    alias,          \* alias[k]: native_id of the current provider alias of k
    gm_item_id,     \* gm_item_id[c]: the native id cached in row c
    pending,        \* pending[c]: what a writer of row c resolved and has yet to write
    txn,            \* txn[w]: what session w is doing
    now,            \* the last transaction start time handed out
    origin,         \* history: the item each row was created against
    classes,        \* history: who resolved to the superseded item at each merge
    reverted        \* history: a supersession has been reverted

cacheVars == <<alias, gm_item_id, pending>>

vars == <<supersessions, item_id, moves, cacheVars, txn, now, origin, classes, reverted>>

-----------------------------------------------------------------------------
(* One supersession row.  Transaction start times are distinct, and one    *)
(* transaction opens at most one row per superseded item, so a row is      *)
(* identified by <<superseded, valid_from>> and via_id, which names a row  *)
(* opened in the same transaction, by the item that row supersedes.        *)

Stamps == Nat \ {NULL}

Supersession ==
    [superseded : Items, survivor : Items, valid_from : Stamps,
     valid_to : Nat, via : Items \cup {NULL}]

KeyOf(s) == <<s.superseded, s.valid_from>>

IsOpen(s) == s.valid_to = NULL

OpenRows == {s \in supersessions : IsOpen(s)}

(* public.resolve_catalog_item: one hop along the open row, if there is one. *)
Resolve(i) ==
    IF \E s \in OpenRows : s.superseded = i
    THEN (CHOOSE s \in OpenRows : s.superseded = i).survivor
    ELSE i

-----------------------------------------------------------------------------
(* Transactions and their locks.                                           *)

Session(op, s, x, target, row, stamp) ==
    [op |-> op, superseded |-> s, survivor |-> x, target |-> target,
     row |-> row, stamp |-> stamp, locked |-> {}]

Idle == Session("idle", NULL, NULL, NULL, NULL, NULL)

Needs(w) == {txn[w].superseded, txn[w].survivor} \ {NULL}

Waiting(w) == Needs(w) \ txn[w].locked

(* Mutant: the superseded item is locked first, whatever the id order.      *)
NextLockUnsorted(w) ==
    IF txn[w].superseded \in Waiting(w) THEN txn[w].superseded ELSE txn[w].survivor

(* lock_items: sorted((superseded_id, survivor_id)).                       *)
NextLock(w) == CHOOSE i \in Waiting(w) : \A j \in Waiting(w) : i <= j

(* Mutant: a merge locks the superseded item FOR NO KEY UPDATE as well.     *)
LockStrengthWeak(w, i) ==
    CASE txn[w].op = "insert" -> "KEY SHARE"
      [] txn[w].op = "revert" -> "UPDATE"
      [] OTHER -> "NO KEY UPDATE"

(* The strength lock_items asks for; a foreign-key insert takes KEY SHARE. *)
LockStrength(w, i) ==
    CASE txn[w].op = "insert" -> "KEY SHARE"
      [] txn[w].op = "revert" -> "UPDATE"
      [] OTHER -> IF i = txn[w].superseded THEN "UPDATE" ELSE "NO KEY UPDATE"

LockConflict(a, b) ==
    \/ "UPDATE" \in {a, b}
    \/ a = "NO KEY UPDATE" /\ b = "NO KEY UPDATE"

Blocks(v, w, i) ==
    /\ v # w
    /\ i \in txn[v].locked
    /\ LockConflict(LockStrength(v, i), LockStrength(w, i))

WaitsFor(w, v) == Waiting(w) # {} /\ Blocks(v, w, NextLock(w))

HoldsAll(w, op) == txn[w].op = op /\ Waiting(w) = {}

-----------------------------------------------------------------------------
Init ==
    /\ supersessions = {}
    /\ item_id = [r \in Rows |-> NULL]
    /\ moves = {}
    /\ alias = [k \in Keys |-> NULL]
    /\ gm_item_id = [c \in Caches |-> NULL]
    /\ pending = [c \in Caches |-> NULL]
    /\ txn = [w \in Txns |-> Idle]
    /\ now = 0
    /\ origin = [r \in Rows |-> NULL]
    /\ classes = {}
    /\ reverted = FALSE

(* A writer of a cache row, the catalog loader (external) or a page of the *)
(* sync, resolves the row's alias (resolve_aliases), which mints the alias *)
(* when there is none: on a current item, or on the one another alias of   *)
(* the record names.                                                       *)
ReadAlias(c) ==
    LET k == AliasOf[c]
    IN  /\ pending[c] = NULL
        /\ \E i \in Items :
              /\ IF alias[k] = NULL
                 THEN Resolve(i) = i \/ \E j \in Keys : alias[j] = i
                 ELSE alias[k] = i
              /\ alias' = [alias EXCEPT ![k] = i]
              /\ pending' = [pending EXCEPT ![c] = i]
        /\ UNCHANGED <<supersessions, item_id, moves, gm_item_id, txn, now, origin, classes, reverted>>

(* It upserts the row later, with what it resolved then, and a loader      *)
(* attaches the record's identifiers that nobody holds (barcodes, which no *)
(* cache is resolved through) to the same item.                            *)
Identifiers == {k \in Keys : \A c \in Caches : AliasOf[c] # k}

WriteCache(c) ==
    /\ pending[c] # NULL
    /\ gm_item_id' = [gm_item_id EXCEPT ![c] = pending[c]]
    /\ \E own \in SUBSET {k \in Identifiers : alias[k] = NULL} :
          alias' = [k \in Keys |-> IF k \in own THEN pending[c] ELSE alias[k]]
    /\ pending' = [pending EXCEPT ![c] = NULL]
    /\ UNCHANGED <<supersessions, item_id, moves, txn, now, origin, classes, reverted>>

(* The writer fails between the two.                                       *)
LoseWrite(c) ==
    /\ pending[c] # NULL
    /\ pending' = [pending EXCEPT ![c] = NULL]
    /\ UNCHANGED <<supersessions, item_id, moves, alias, gm_item_id, txn, now, origin, classes,
                   reverted>>

(* A merge of s into x begins: lock_items refuses equal ids at once.       *)
BeginMerge(w, s, x) ==
    /\ txn[w].op = "idle"
    /\ s # x
    /\ now < MaxStamp
    /\ now' = now + 1
    /\ txn' = [txn EXCEPT ![w] = Session("merge", s, x, NULL, NULL, now + 1)]
    /\ UNCHANGED <<supersessions, item_id, moves, cacheVars, origin, classes, reverted>>

(* A revert begins with an unlocked read of the row, which may be closed   *)
(* or compressed before the locks are held.                                *)
BeginRevert(w, s) ==
    /\ txn[w].op = "idle"
    /\ now < MaxStamp
    /\ now' = now + 1
    /\ txn' = [txn EXCEPT ![w] = Session("revert", s.superseded, s.survivor,
                                         s.valid_from, NULL, now + 1)]
    /\ UNCHANGED <<supersessions, item_id, moves, cacheVars, origin, classes, reverted>>

(* A copy or artifact is created against item i (the sync, the activity    *)
(* API): an insert whose foreign key locks i, visible when it commits.     *)
BeginInsert(w, r, i) ==
    /\ txn[w].op = "idle"
    /\ item_id[r] = NULL
    /\ \A v \in Txns : ~(txn[v].op = "insert" /\ txn[v].row = r)
    /\ txn' = [txn EXCEPT ![w] = Session("insert", i, NULL, NULL, r, NULL)]
    /\ UNCHANGED <<supersessions, item_id, moves, cacheVars, now, origin, classes, reverted>>

Lock(w) ==
    /\ Waiting(w) # {}
    /\ \A v \in Txns : ~Blocks(v, w, NextLock(w))
    /\ txn' = [txn EXCEPT ![w].locked = @ \cup {NextLock(w)}]
    /\ UNCHANGED <<supersessions, item_id, moves, cacheVars, now, origin, classes, reverted>>

-----------------------------------------------------------------------------
(* Mutant: the survivor's own open row is not looked up.                    *)
SurvivorUnchecked(x) == TRUE

(* current_supersession: the open row of the pair, when it may merge.      *)
SurvivorIsCurrent(x) == \A o \in OpenRows : o.superseded # x

CanMerge(s, x) ==
    /\ Kind[s] = Kind[x]
    /\ SurvivorIsCurrent(x)
    /\ \A o \in OpenRows : o.superseded = s => o.survivor = x

Existing(s) == {o \in OpenRows : o.superseded = s}

CloseAtClock(rows, closing, t) ==
    (rows \ closing) \cup {[o EXCEPT !.valid_to = t + 1] : o \in closing}

(* _OPEN, _CLOSE_SURVIVED, _OPEN_COMPRESSED: chain compression.            *)
Opened(s, x, t, via) ==
    [superseded |-> s, survivor |-> x, valid_from |-> t, valid_to |-> NULL, via |-> via]

CloseAt(rows, closing, t) ==
    (rows \ closing) \cup {[o EXCEPT !.valid_to = t] : o \in closing}

Survived(s) == {o \in OpenRows : o.survivor = s}

Compress(s, x, t) ==
    CloseAt(supersessions, Survived(s), t)
      \cup {Opened(s, x, t, NULL)}
      \cup {Opened(o.superseded, x, t, s) : o \in Survived(s)}

(* Mutant: the caches are recomputed before the aliases have moved.         *)
RecomputeCachesEarly(items, current) ==
    [c \in Caches |-> IF gm_item_id[c] \in items /\ alias[AliasOf[c]] # NULL
                      THEN alias[AliasOf[c]] ELSE gm_item_id[c]]

(* recompute_caches: a cached row on one of the items takes what its own   *)
(* alias resolves to now; a row with no current alias is left alone.       *)
RecomputeCaches(items, current) ==
    [c \in Caches |-> IF gm_item_id[c] \in items /\ current[AliasOf[c]] # NULL
                      THEN current[AliasOf[c]] ELSE gm_item_id[c]]

MoveAliases(keys, to) == [k \in Keys |-> IF k \in keys THEN to ELSE alias[k]]

EndTxn(w) == txn' = [txn EXCEPT ![w] = Idle]

(* merge_items, with the caller's alias steps (external: any of s's        *)
(* aliases) before it in the same transaction.                             *)
MergeItems(w) ==
    LET s == txn[w].superseded
        x == txn[w].survivor
        t == txn[w].stamp
        sup == IF Existing(s) = {} THEN <<s, t>> ELSE KeyOf(CHOOSE o \in Existing(s) : TRUE)
        moved == {r \in Rows : item_id[r] = s}
    IN  /\ HoldsAll(w, "merge")
        /\ CanMerge(s, x)
        /\ \E keys \in SUBSET {k \in Keys : alias[k] = s} :
              /\ alias' = MoveAliases(keys, x)
              /\ gm_item_id' = RecomputeCaches({s, x}, MoveAliases(keys, x))
        /\ IF Existing(s) = {}
           THEN /\ supersessions' = Compress(s, x, t)
                /\ classes' = classes \cup {<<<<s, t>>, {i \in Items : Resolve(i) = s}>>}
           ELSE UNCHANGED <<supersessions, classes>>
        /\ item_id' = [r \in Rows |-> IF r \in moved THEN x ELSE item_id[r]]
        /\ moves' = moves \cup {<<sup, r>> : r \in moved}
        /\ EndTxn(w)
        /\ UNCHANGED <<pending, now, origin, reverted>>

-----------------------------------------------------------------------------
(* revert_supersession, re-read FOR UPDATE under the item locks.           *)
Target(w) == CHOOSE o \in supersessions : KeyOf(o) = <<txn[w].superseded, txn[w].target>>

(* _CLOSE_COMPRESSED: the open rows whose via_id is row v.                 *)
CompressedBy(v) ==
    {o \in OpenRows : o.via = v.superseded /\ o.valid_from = v.valid_from}

(* _REOPEN_PREDECESSORS: closed in the transaction that opened the row.    *)
Predecessors(v, rows) ==
    {p \in rows : /\ p.survivor = v.superseded
                  /\ \E c \in CompressedBy(v) : /\ p.superseded = c.superseded
                                                /\ p.valid_to = c.valid_from}

(* Mutant: a compressed row may be reverted directly.                       *)
CanRevertCompressed(v) == IsOpen(v)

CanRevert(v) ==
    /\ IsOpen(v)
    /\ v.via = NULL

PredecessorsMatch(v) == Cardinality(Predecessors(v, supersessions)) = Cardinality(CompressedBy(v))

(* Mutant: the rows the merge closed by compression are not re-opened.      *)
ReopenNothing(v, t) == CloseAt(supersessions, {v} \cup CompressedBy(v), t)

Reopen(v, t) ==
    LET closed == CloseAt(supersessions, {v} \cup CompressedBy(v), t)
        back == Predecessors(v, supersessions)
    IN  (closed \ back) \cup {[p EXCEPT !.valid_to = NULL] : p \in back}

(* The caller (external) has moved aliases of the survivor back first.     *)
RevertSupersession(w) ==
    LET v == Target(w)
        s == v.superseded
        x == v.survivor
        ledgered == {r \in Rows : <<KeyOf(v), r>> \in moves /\ item_id[r] = x}
    IN  /\ HoldsAll(w, "revert")
        /\ CanRevert(v)
        /\ PredecessorsMatch(v)
        /\ \E keys \in SUBSET {k \in Keys : alias[k] = x} :
              /\ alias' = MoveAliases(keys, s)
              /\ gm_item_id' = RecomputeCaches({s, x}, MoveAliases(keys, s))
        /\ supersessions' = Reopen(v, txn[w].stamp)
        /\ item_id' = [r \in Rows |-> IF r \in ledgered THEN s ELSE item_id[r]]
        /\ EndTxn(w)
        /\ reverted' = TRUE
        /\ UNCHANGED <<moves, pending, now, origin, classes>>

CommitInsert(w) ==
    /\ HoldsAll(w, "insert")
    /\ item_id' = [item_id EXCEPT ![txn[w].row] = txn[w].superseded]
    /\ origin' = [origin EXCEPT ![txn[w].row] = txn[w].superseded]
    /\ EndTxn(w)
    /\ UNCHANGED <<supersessions, moves, cacheVars, now, classes, reverted>>

(* MergeConflictError, a failed statement or a lost connection: the whole  *)
(* transaction rolls back and its locks are released.                      *)
Rollback(w) ==
    /\ txn[w].op # "idle"
    /\ EndTxn(w)
    /\ UNCHANGED <<supersessions, item_id, moves, cacheVars, now, origin, classes, reverted>>

Next ==
    \/ \E c \in Caches : ReadAlias(c) \/ WriteCache(c) \/ LoseWrite(c)
    \/ \E w \in Txns :
          \/ \E s, x \in Items : BeginMerge(w, s, x)
          \/ \E s \in supersessions : BeginRevert(w, s)
          \/ \E r \in Rows, i \in Items : BeginInsert(w, r, i)
          \/ Lock(w)
          \/ MergeItems(w)
          \/ RevertSupersession(w)
          \/ CommitInsert(w)
          \/ Rollback(w)

Spec == Init /\ [][Next]_vars

-----------------------------------------------------------------------------
(* Properties.                                                             *)

Txn ==
    [op : {"idle", "merge", "revert", "insert"}, superseded : Items \cup {NULL},
     survivor : Items \cup {NULL}, target : Nat, row : Rows \cup {NULL},
     stamp : Nat, locked : SUBSET Items]

TypeOK ==
    /\ supersessions \subseteq Supersession
    /\ item_id \in [Rows -> Items \cup {NULL}]
    /\ moves \subseteq ((Items \X Stamps) \X Rows)
    /\ alias \in [Keys -> Items \cup {NULL}]
    /\ gm_item_id \in [Caches -> Items \cup {NULL}]
    /\ pending \in [Caches -> Items \cup {NULL}]
    /\ txn \in [Txns -> Txn]
    /\ now \in Nat
    /\ origin \in [Rows -> Items \cup {NULL}]
    /\ classes \subseteq ((Items \X Stamps) \X SUBSET Items)
    /\ reverted \in BOOLEAN

(* "Resolution is always one hop: a current survivor is never itself       *)
(* currently superseded", and an item has at most one current survivor, so *)
(* resolve_catalog_item needs no loop and no tie-break.                    *)
OneHop ==
    \A p, q \in OpenRows :
        /\ p.survivor # q.superseded
        /\ p.superseded = q.superseded => p = q

(* A revert of a current, uncompressed row never fails on its predecessor  *)
(* count: every row its compression closed can still be found by the       *)
(* valid_to = valid_from match of _REOPEN_PREDECESSORS.                    *)
RevertNeverStuck ==
    \A v \in OpenRows : v.via = NULL => PredecessorsMatch(v)

(* The reversal is exact for resolution: whatever merges and reverts came  *)
(* in between, reverting the merge of s gives s back exactly the items     *)
(* that resolved to it when the merge ran.                                 *)
RevertRestoresClass ==
    [][\A c \in classes :
          LET s == c[1][1] IN
          (/\ \E v \in supersessions : KeyOf(v) = c[1] /\ IsOpen(v) /\ v.via = NULL
           /\ \E v \in supersessions' : KeyOf(v) = c[1] /\ ~IsOpen(v)
           /\ ~\E v \in supersessions' : v.superseded = s /\ IsOpen(v))
          => {i \in Items : Resolve(i)' = s} = c[2]]_vars

(* The FOR UPDATE lock on the superseded item: when its supersession       *)
(* opens, no copy of it is left behind and none is being created.          *)
NoDependentLeftBehind ==
    [][\A v \in supersessions' :
          KeyOf(v) \notin {KeyOf(u) : u \in supersessions} /\ v.via = NULL
          => /\ \A r \in Rows : item_id'[r] # v.superseded
             /\ \A w \in Txns : ~(/\ txn'[w].op = "insert"
                                  /\ v.superseded \in txn'[w].locked)]_vars

(* A row ledgered under a compressed row: see DependentsFollow.            *)
MovedUnderCompressed(r) ==
    \E s \in supersessions : s.via # NULL /\ <<KeyOf(s), r>> \in moves

OnPath(r) == item_id[r] \in {NULL, origin[r], Resolve(origin[r])}

(* A copy is always found on the item it was created against or on the one *)
(* that item resolves to, through any history of merges, re-runs, chain    *)
(* compressions and reverts, unless a re-run moved it under a compressed   *)
(* row.                                                                    *)
DependentsFollow == \A r \in Rows : MovedUnderCompressed(r) \/ OnPath(r)

(* The same without the exception: "revert_supersession is the exact       *)
(* reversal" of a merge.                                                   *)
ExactReversal == \A r \in Rows : OnPath(r)

(* A cache row agrees with the alias that reproduces it.                   *)
Agrees(c) == gm_item_id[c] \in {NULL, alias[AliasOf[c]]}

Overwritten(c) == pending'[c] = NULL /\ gm_item_id'[c] = pending[c] /\ pending[c] # NULL

(* No merge and no revert makes a cached native id disagree with its alias *)
(* (recompute_caches): what does is "a loader whose attach resolved X      *)
(* before" the merge and whose upsert lands after it.  And until something *)
(* is reverted even that stale id resolves to the alias's item.            *)
CachesFollowAliases ==
    /\ [][\A c \in Caches : Agrees(c) => Agrees(c)' \/ Overwritten(c)]_vars
    /\ [](\A c \in Caches : gm_item_id[c] # NULL /\ ~reverted
             => Resolve(gm_item_id[c]) = Resolve(alias[AliasOf[c]]))

(* "Both items are locked in id order so two merges or reverts over        *)
(* overlapping pairs cannot deadlock": no set of transactions in which     *)
(* every member waits for a member.                                        *)
NoWaitCycle ==
    \A S \in SUBSET Txns : S # {} => \E w \in S : \A v \in S : ~WaitsFor(w, v)
=============================================================================
