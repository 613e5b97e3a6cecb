------------------------- MODULE CatalogMergeProofs -------------------------
(***************************************************************************)
(* Proofs about CatalogMerge, for every set of items, rows, keys and       *)
(* sessions.  ChainInv is about the supersession rows (resolution is one   *)
(* hop, a revert finds the rows its merge compressed), LocksInv about the  *)
(* row locks (no deadlock, no copy left behind) and HistoryInv about what  *)
(* the ledger remembers (copies follow their item, a revert is exact).     *)
(***************************************************************************)
EXTENDS CatalogMerge, FiniteSetTheorems, TLAPS

-----------------------------------------------------------------------------
(* The inductive invariant, in named parts.                                *)

(* A transaction in flight has a start time nobody else has used.          *)
StampsFresh ==
    /\ \A s \in supersessions : s.valid_from <= now /\ s.valid_to <= now
    /\ \A w \in Txns : txn[w].stamp <= now
    /\ \A w \in Txns : txn[w].op \in {"merge", "revert"} =>
          /\ txn[w].stamp # NULL
          /\ \A s \in supersessions : s.valid_from # txn[w].stamp /\ s.valid_to # txn[w].stamp
          /\ \A v \in Txns : v # w => txn[v].stamp # txn[w].stamp

(* What a session remembers of its arguments.                              *)
TxnShape ==
    \A w \in Txns :
        /\ txn[w].op = "merge" => /\ txn[w].superseded \in Items
                                  /\ txn[w].survivor \in Items
                                  /\ txn[w].superseded # txn[w].survivor
        /\ txn[w].op = "revert" =>
              \E o \in supersessions : KeyOf(o) = <<txn[w].superseded, txn[w].target>>
        /\ txn[w].op = "insert" => txn[w].superseded \in Items /\ txn[w].row \in Rows

UniqueKey == \A p, q \in supersessions : KeyOf(p) = KeyOf(q) => p = q

NoSelf == \A s \in supersessions : s.superseded # s.survivor

(* One transaction closes at most one row of an item.                      *)
UniqueClose ==
    \A p, q \in supersessions :
        p.superseded = q.superseded /\ p.valid_to = q.valid_to => p = q \/ IsOpen(p)

(* A compressed row and the row of the merge that compressed it have the   *)
(* same survivor and are open or closed together.                          *)
ViaTogether ==
    \A c \in supersessions : c.via # NULL =>
        \E v \in supersessions :
            /\ KeyOf(v) = <<c.via, c.valid_from>>
            /\ v.survivor = c.survivor
            /\ v.valid_to = c.valid_to
            /\ v.via = NULL

(* Every row a merge closed has its compressed successor.                  *)
HasSuccessor ==
    \A v, e \in supersessions :
        v.via = NULL /\ e.survivor = v.superseded /\ e.valid_to = v.valid_from =>
            \E c \in supersessions : /\ KeyOf(c) = <<e.superseded, v.valid_from>>
                                     /\ c.via = v.superseded

(* A row that is current, or would be after reverting the compressions     *)
(* above it.                                                               *)
Alive(d) ==
    \/ IsOpen(d)
    \/ \E e \in supersessions : KeyOf(e) = <<d.superseded, d.valid_to>>

(* ... and if it is compressed, the row it replaced is still there, closed *)
(* when it opened.                                                         *)
HasPredecessor ==
    \A d \in supersessions : d.via # NULL /\ Alive(d) =>
        \E p \in supersessions : /\ p.superseded = d.superseded
                                 /\ p.survivor = d.via
                                 /\ p.valid_to = d.valid_from

ChainInv ==
    /\ TypeOK
    /\ IsFiniteSet(supersessions)
    /\ StampsFresh
    /\ TxnShape
    /\ UniqueKey
    /\ NoSelf
    /\ OneHop
    /\ UniqueClose
    /\ ViaTogether
    /\ HasSuccessor
    /\ HasPredecessor

(* The parts that only speak of the supersession rows.                     *)
RowsInv ==
    /\ supersessions \subseteq Supersession
    /\ IsFiniteSet(supersessions)
    /\ UniqueKey
    /\ NoSelf
    /\ OneHop
    /\ UniqueClose
    /\ ViaTogether
    /\ HasSuccessor
    /\ HasPredecessor

Fresh(t) ==
    /\ t \in Stamps
    /\ \A s \in supersessions : s.valid_from # t /\ s.valid_to # t

-----------------------------------------------------------------------------
(* A merge that opens a row preserves the row invariant: what it closes    *)
(* are the rows its superseded item survived, and each gets a successor.   *)
LEMMA MergeRows ==
    ASSUME RowsInv,
           NEW s \in Items, NEW x \in Items, s # x,
           NEW t, Fresh(t),
           SurvivorIsCurrent(x), Existing(s) = {},
           supersessions' = Compress(s, x, t)
    PROVE  RowsInv'
<1> DEFINE Closing == Survived(s)
           Shut(o) == [o EXCEPT !.valid_to = t]
           Root == Opened(s, x, t, NULL)
           Chain(o) == Opened(o.superseded, x, t, s)
<1>1. /\ s \in Nat \ {NULL} /\ x \in Nat \ {NULL} /\ t \in Nat \ {NULL}
      /\ NULL = 0
  BY ItemsAssumption DEF Fresh, Stamps, NULL
<1>2. supersessions' = (supersessions \ Closing) \cup {Shut(o) : o \in Closing}
                         \cup {Root} \cup {Chain(o) : o \in Closing}
  BY DEF Compress, CloseAt
<1>3. /\ Closing \subseteq supersessions
      /\ \A o \in Closing : o \in Supersession /\ o.valid_to = NULL /\ o.survivor = s
      /\ \A o \in supersessions : o.valid_to = NULL /\ o.survivor = s => o \in Closing
  BY DEF Survived, OpenRows, IsOpen, RowsInv
<1>4. \A o \in Closing :
         /\ Shut(o).superseded = o.superseded /\ Shut(o).survivor = s
         /\ Shut(o).valid_from = o.valid_from /\ Shut(o).valid_to = t
         /\ Shut(o).via = o.via
         /\ Shut(o) \in Supersession
  BY <1>1, <1>3 DEF Supersession, Stamps
<1>5. \A o \in Closing :
         /\ Chain(o).superseded = o.superseded /\ Chain(o).survivor = x
         /\ Chain(o).valid_from = t /\ Chain(o).valid_to = NULL
         /\ Chain(o).via = s
         /\ Chain(o) \in Supersession
  BY <1>1, <1>3 DEF Supersession, Stamps, Opened
<1>6. /\ Root.superseded = s /\ Root.survivor = x /\ Root.valid_from = t
      /\ Root.valid_to = NULL /\ Root.via = NULL /\ Root \in Supersession
  BY <1>1 DEF Supersession, Stamps, Opened
<1>7. \A o \in supersessions : o.valid_from # t /\ o.valid_to # t
  BY DEF Fresh
<1>8. \A o \in supersessions : o.valid_to = NULL => o.superseded # s /\ o.superseded # x
  BY DEF SurvivorIsCurrent, Existing, OpenRows, IsOpen
<1>9. \A n \in supersessions' :
         \/ n \in supersessions /\ n \notin Closing
         \/ \E o \in Closing : n = Shut(o)
         \/ n = Root
         \/ \E o \in Closing : n = Chain(o)
  BY <1>2
<1>10. \A o \in supersessions : o \in Supersession
  BY DEF RowsInv
<1>11. \A p, q \in supersessions :
          /\ (p.superseded = q.superseded /\ p.valid_from = q.valid_from => p = q)
          /\ (p.superseded = q.superseded /\ p.valid_to = q.valid_to /\ p.valid_to # NULL => p = q)
          /\ (p.valid_to = NULL /\ q.valid_to = NULL => p.survivor # q.superseded)
          /\ (p.valid_to = NULL /\ q.valid_to = NULL /\ p.superseded = q.superseded => p = q)
  BY DEF RowsInv, UniqueKey, UniqueClose, OneHop, OpenRows, IsOpen, KeyOf
<1> HIDE DEF Closing, Shut, Root, Chain
<1>20. (supersessions \subseteq Supersession)'
  BY <1>9, <1>4, <1>5, <1>6, <1>10
<1>21. IsFiniteSet(supersessions)'
  <2>1. IsFiniteSet(Closing)
    BY <1>3, FS_Subset DEF RowsInv
  <2>2. IsFiniteSet({Shut(o) : o \in Closing}) /\ IsFiniteSet({Chain(o) : o \in Closing})
    <3>1. [o \in Closing |-> Shut(o)] \in Surjection(Closing, {Shut(o) : o \in Closing})
      BY DEF Surjection
    <3>2. [o \in Closing |-> Chain(o)] \in Surjection(Closing, {Chain(o) : o \in Closing})
      BY DEF Surjection
    <3> QED BY <2>1, <3>1, <3>2, FS_Surjection
  <2>3. IsFiniteSet(supersessions \ Closing)
    BY FS_Difference DEF RowsInv
  <2>4. IsFiniteSet({Root})
    BY FS_Singleton
  <2>5. IsFiniteSet((supersessions \ Closing) \cup {Shut(o) : o \in Closing})
    BY <2>2, <2>3, FS_Union
  <2>6. IsFiniteSet((supersessions \ Closing) \cup {Shut(o) : o \in Closing} \cup {Root})
    BY <2>4, <2>5, FS_Union
  <2>7. IsFiniteSet((supersessions \ Closing) \cup {Shut(o) : o \in Closing}
                     \cup {Root} \cup {Chain(o) : o \in Closing})
    BY <2>2, <2>6, FS_Union
  <2> QED BY <1>2, <2>7
<1>22. UniqueKey'
  <2> SUFFICES ASSUME NEW p \in supersessions', NEW q \in supersessions',
                      p.superseded = q.superseded, p.valid_from = q.valid_from
               PROVE  p = q
    BY DEF UniqueKey, KeyOf
  <2> QED BY <1>3, <1>4, <1>5, <1>6, <1>7, <1>8, <1>9, <1>11
<1>23. NoSelf'
  <2> SUFFICES ASSUME NEW p \in supersessions' PROVE p.superseded # p.survivor
    BY DEF NoSelf
  <2> QED BY <1>3, <1>4, <1>5, <1>6, <1>8, <1>9 DEF RowsInv, NoSelf
<1>24. OneHop'
  <2> SUFFICES ASSUME NEW p \in supersessions', NEW q \in supersessions',
                      p.valid_to = NULL, q.valid_to = NULL
               PROVE  p.survivor # q.superseded /\ (p.superseded = q.superseded => p = q)
    BY DEF OneHop, OpenRows, IsOpen
  <2>1. \/ p \in supersessions /\ p \notin Closing
        \/ p = Root
        \/ \E o \in Closing : p = Chain(o)
    BY <1>9, <1>4, <1>1
  <2>2. \/ q \in supersessions /\ q \notin Closing
        \/ q = Root
        \/ \E o \in Closing : q = Chain(o)
    BY <1>9, <1>4, <1>1
  <2>3. p.survivor # q.superseded
    BY <2>1, <2>2, <1>3, <1>5, <1>6, <1>8, <1>11
  <2>4. p.superseded = q.superseded => p = q
    BY <2>1, <2>2, <1>3, <1>5, <1>6, <1>8, <1>11
  <2> QED BY <2>3, <2>4
<1>25. UniqueClose'
  <2> SUFFICES ASSUME NEW p \in supersessions', NEW q \in supersessions',
                      p.superseded = q.superseded, p.valid_to = q.valid_to,
                      p.valid_to # NULL
               PROVE  p = q
    BY DEF UniqueClose, IsOpen
  <2> QED BY <1>3, <1>4, <1>5, <1>6, <1>7, <1>9, <1>11
<1>26. ViaTogether'
  <2> SUFFICES ASSUME NEW c \in supersessions', c.via # NULL
               PROVE  \E v \in supersessions' :
                        /\ v.superseded = c.via /\ v.valid_from = c.valid_from
                        /\ v.survivor = c.survivor /\ v.valid_to = c.valid_to /\ v.via = NULL
    BY DEF ViaTogether, KeyOf
  <2>1. \A d \in supersessions : d.via # NULL => \E v \in supersessions :
                        /\ v.superseded = d.via /\ v.valid_from = d.valid_from
                        /\ v.survivor = d.survivor /\ v.valid_to = d.valid_to /\ v.via = NULL
    BY DEF RowsInv, ViaTogether, KeyOf
  <2>2. CASE c \in supersessions /\ c \notin Closing
    <3>1. PICK v \in supersessions :
                        /\ v.superseded = c.via /\ v.valid_from = c.valid_from
                        /\ v.survivor = c.survivor /\ v.valid_to = c.valid_to /\ v.via = NULL
      BY <2>1, <2>2
    <3>2. v \notin Closing
      BY <3>1, <1>3, <2>2
    <3> QED BY <3>1, <3>2, <1>2
  <2>3. CASE \E o \in Closing : c = Shut(o)
    <3>1. PICK o \in Closing : c = Shut(o)
      BY <2>3
    <3>2. PICK v \in supersessions :
                        /\ v.superseded = o.via /\ v.valid_from = o.valid_from
                        /\ v.survivor = o.survivor /\ v.valid_to = o.valid_to /\ v.via = NULL
      BY <2>1, <3>1, <1>3, <1>4
    <3>3. v \in Closing
      BY <3>2, <1>3
    <3>4. Shut(v) \in supersessions'
      BY <3>3, <1>2
    <3> QED BY <3>1, <3>2, <3>3, <3>4, <1>4, <1>3
  <2>4. CASE c = Root
    BY <2>4, <1>6
  <2>5. CASE \E o \in Closing : c = Chain(o)
    <3>1. Root \in supersessions'
      BY <1>2
    <3> QED BY <3>1, <2>5, <1>5, <1>6
  <2> QED BY <2>2, <2>3, <2>4, <2>5, <1>9
<1>27. HasSuccessor'
  <2> SUFFICES ASSUME NEW v \in supersessions', NEW e \in supersessions',
                      v.via = NULL, e.survivor = v.superseded, e.valid_to = v.valid_from
               PROVE  \E c \in supersessions' : /\ c.superseded = e.superseded
                                                 /\ c.valid_from = v.valid_from
                                                 /\ c.via = v.superseded
    BY DEF HasSuccessor, KeyOf
  <2>1. v.valid_from # NULL
    BY <1>20 DEF Supersession, Stamps
  <2>2. CASE \E o \in Closing : e = Shut(o)
    <3>1. PICK o \in Closing : e = Shut(o)
      BY <2>2
    <3>2. Chain(o) \in supersessions'
      BY <1>2
    <3>3. v = Root
      BY <3>1, <1>3, <1>4, <1>5, <1>6, <1>7, <1>9, <1>1
    <3> QED BY <3>1, <3>2, <3>3, <1>4, <1>5, <1>6
  <2>3. CASE e \in supersessions /\ e \notin Closing
    <3>1. PICK u \in supersessions : /\ u.superseded = v.superseded
                                      /\ u.valid_from = v.valid_from
                                      /\ u.via = NULL
      BY <2>3, <1>3, <1>4, <1>5, <1>6, <1>7, <1>9
    <3>2. PICK c \in supersessions : /\ c.superseded = e.superseded
                                      /\ c.valid_from = v.valid_from
                                      /\ c.via = v.superseded
      BY <3>1, <2>3 DEF RowsInv, HasSuccessor, KeyOf
    <3>3. c \in supersessions' \/ (Shut(c) \in supersessions' /\ c \in Closing)
      BY <1>2
    <3> QED BY <3>2, <3>3, <1>4
  <2> QED BY <2>1, <2>2, <2>3, <1>9, <1>5, <1>6
<1>28. HasPredecessor'
  <2> SUFFICES ASSUME NEW d \in supersessions', d.via # NULL,
                      \/ d.valid_to = NULL
                      \/ \E e \in supersessions' : /\ e.superseded = d.superseded
                                                    /\ e.valid_from = d.valid_to
               PROVE  \E p \in supersessions' : /\ p.superseded = d.superseded
                                                 /\ p.survivor = d.via
                                                 /\ p.valid_to = d.valid_from
    BY DEF HasPredecessor, Alive, IsOpen, KeyOf
  <2>1. ASSUME NEW o \in supersessions, o.via # NULL,
               \/ o.valid_to = NULL
               \/ \E e \in supersessions : /\ e.superseded = o.superseded
                                            /\ e.valid_from = o.valid_to
        PROVE  \E p \in supersessions' : /\ p.superseded = o.superseded
                                          /\ p.survivor = o.via
                                          /\ p.valid_to = o.valid_from
    <3>1. PICK p \in supersessions : /\ p.superseded = o.superseded
                                      /\ p.survivor = o.via
                                      /\ p.valid_to = o.valid_from
      BY <2>1 DEF RowsInv, HasPredecessor, Alive, IsOpen, KeyOf
    <3>2. p.valid_to # NULL
      BY <3>1, <1>10 DEF Supersession, Stamps
    <3> QED BY <3>1, <3>2, <1>2, <1>3
  <2>2. CASE d \in supersessions /\ d \notin Closing
    <3>1. d.valid_to # NULL => \E e \in supersessions : /\ e.superseded = d.superseded
                                                         /\ e.valid_from = d.valid_to
      BY <2>2, <1>4, <1>5, <1>6, <1>7, <1>9, <1>3
    <3> QED BY <3>1, <2>1, <2>2
  <2>3. CASE \E o \in Closing : d = Shut(o)
    BY <2>1, <2>3, <1>3, <1>4
  <2>4. CASE \E o \in Closing : d = Chain(o)
    <3>1. PICK o \in Closing : d = Chain(o)
      BY <2>4
    <3>2. Shut(o) \in supersessions'
      BY <1>2
    <3> QED BY <3>1, <3>2, <1>4, <1>5
  <2> QED BY <2>2, <2>3, <2>4, <1>9, <1>6
<1> QED
  BY <1>20, <1>21, <1>22, <1>23, <1>24, <1>25, <1>26, <1>27, <1>28 DEF RowsInv

(* A revert preserves the row invariant: the rows its merge opened are     *)
(* closed together, and exactly the rows that merge closed are re-opened.  *)
LEMMA RevertRows ==
    ASSUME RowsInv,
           NEW v \in supersessions, CanRevert(v),
           NEW t, Fresh(t),
           supersessions' = Reopen(v, t)
    PROVE  RowsInv'
<1> DEFINE Shutting == {v} \cup CompressedBy(v)
           Back == Predecessors(v, supersessions)
           Shut(o) == [o EXCEPT !.valid_to = t]
           Opening(o) == [o EXCEPT !.valid_to = NULL]
<1>1. t \in Nat \ {NULL} /\ NULL = 0
  BY DEF Fresh, Stamps, NULL
<1>2. \A o \in supersessions : o \in Supersession /\ o.valid_from # NULL
  BY DEF RowsInv, Supersession, Stamps
<1>3. \A p, q \in supersessions :
          /\ (p.superseded = q.superseded /\ p.valid_from = q.valid_from => p = q)
          /\ (p.superseded = q.superseded /\ p.valid_to = q.valid_to /\ p.valid_to # NULL => p = q)
          /\ (p.valid_to = NULL /\ q.valid_to = NULL => p.survivor # q.superseded)
          /\ (p.valid_to = NULL /\ q.valid_to = NULL /\ p.superseded = q.superseded => p = q)
  BY DEF RowsInv, UniqueKey, UniqueClose, OneHop, OpenRows, IsOpen, KeyOf
<1>4. v.valid_to = NULL /\ v.via = NULL /\ v.superseded \in Items /\ v.superseded # NULL
  BY <1>2, ItemsAssumption DEF CanRevert, IsOpen, Supersession
<1>5. /\ Shutting \subseteq supersessions
      /\ \A o \in Shutting : /\ o.valid_to = NULL
                             /\ o = v \/ (o.via = v.superseded /\ o.valid_from = v.valid_from)
      /\ \A o \in supersessions :
            o.valid_to = NULL /\ o.via = v.superseded /\ o.valid_from = v.valid_from => o \in Shutting
  BY <1>4 DEF CompressedBy, OpenRows, IsOpen
<1>6. /\ Back \subseteq supersessions
      /\ \A p \in Back : /\ p.survivor = v.superseded /\ p.valid_to = v.valid_from
                         /\ p.valid_to # NULL
                         /\ \E c \in Shutting : c # v /\ c.superseded = p.superseded
                                               /\ c.valid_from = v.valid_from
      /\ \A p \in supersessions, c \in Shutting :
            c # v /\ p.survivor = v.superseded /\ p.superseded = c.superseded
              /\ p.valid_to = v.valid_from => p \in Back
  BY <1>2, <1>4, <1>5 DEF Predecessors, CompressedBy, OpenRows, IsOpen
<1>7. \A o \in supersessions :
         /\ Shut(o).superseded = o.superseded /\ Shut(o).survivor = o.survivor
         /\ Shut(o).valid_from = o.valid_from /\ Shut(o).valid_to = t /\ Shut(o).via = o.via
         /\ Shut(o) \in Supersession
         /\ Opening(o).superseded = o.superseded /\ Opening(o).survivor = o.survivor
         /\ Opening(o).valid_from = o.valid_from /\ Opening(o).valid_to = NULL
         /\ Opening(o).via = o.via
         /\ Opening(o) \in Supersession
  BY <1>1, <1>2 DEF Supersession
<1>8. \A o \in supersessions : o.valid_from # t /\ o.valid_to # t
  BY DEF Fresh
<1>9. supersessions' = (((supersessions \ Shutting) \cup {Shut(o) : o \in Shutting}) \ Back)
                          \cup {Opening(p) : p \in Back}
  BY DEF Reopen, CloseAt
<1> HIDE DEF Shutting, Back, Shut, Opening
<1>10. \A n \in supersessions' :
          \/ n \in supersessions /\ n \notin Shutting /\ n \notin Back
          \/ \E o \in Shutting : n = Shut(o)
          \/ \E p \in Back : n = Opening(p)
  BY <1>9
<1>11. /\ \A o \in supersessions : o \notin Shutting /\ o \notin Back => o \in supersessions'
       /\ \A o \in Shutting : Shut(o) \in supersessions'
       /\ \A p \in Back : Opening(p) \in supersessions'
  <2>1. \A o \in Shutting : Shut(o) \notin Back
    BY <1>5, <1>6, <1>7, <1>8
  <2> QED BY <1>9, <2>1
<1>14. /\ \A o \in Shutting : o.valid_to = NULL
       /\ \A p \in Back : p.valid_to # NULL
       /\ Shutting \cap Back = {}
  <2>1. \A o \in Shutting : o.valid_to = NULL
    BY <1>5
  <2>2. \A p \in Back : p.valid_to # NULL
    BY <1>6
  <2> QED BY <2>1, <2>2
<1>15. \A p \in Back : \E c \in Shutting : /\ c # v /\ c.superseded = p.superseded
                                           /\ c.valid_to = NULL
  BY <1>6, <1>14
(* Every old row is still there under its key, and conversely.             *)
<1>12. \A n \in supersessions' : \E o \in supersessions :
          /\ n.superseded = o.superseded /\ n.survivor = o.survivor
          /\ n.valid_from = o.valid_from /\ n.via = o.via
          /\ \/ n = o /\ o \notin Shutting /\ o \notin Back
             \/ n = Shut(o) /\ o \in Shutting
             \/ n = Opening(o) /\ o \in Back
  BY <1>10, <1>7, <1>5, <1>6
<1>13. \A o \in supersessions : \E n \in supersessions' :
          /\ n.superseded = o.superseded /\ n.survivor = o.survivor
          /\ n.valid_from = o.valid_from /\ n.via = o.via
          /\ o \notin Shutting /\ o \notin Back => n = o
          /\ o \in Shutting => n.valid_to = t
          /\ o \in Back => n.valid_to = NULL
  <2> SUFFICES ASSUME NEW o \in supersessions
               PROVE  \E n \in supersessions' :
          /\ n.superseded = o.superseded /\ n.survivor = o.survivor
          /\ n.valid_from = o.valid_from /\ n.via = o.via
          /\ o \notin Shutting /\ o \notin Back => n = o
          /\ o \in Shutting => n.valid_to = t
          /\ o \in Back => n.valid_to = NULL
    OBVIOUS
  <2>1. CASE o \notin Shutting /\ o \notin Back
    BY <2>1, <1>11
  <2>2. CASE o \in Shutting
    <3>1. o \notin Back
      BY <2>2, <1>14
    <3> QED BY <2>2, <3>1, <1>11, <1>7
  <2>3. CASE o \in Back
    <3>1. o \notin Shutting
      BY <2>3, <1>14
    <3> QED BY <2>3, <3>1, <1>11, <1>7
  <2> QED BY <2>1, <2>2, <2>3
<1>20. (supersessions \subseteq Supersession)'
  BY <1>10, <1>7, <1>2, <1>5, <1>6
<1>21. IsFiniteSet(supersessions)'
  <2>1. IsFiniteSet(Shutting) /\ IsFiniteSet(Back)
    BY <1>5, <1>6, FS_Subset DEF RowsInv
  <2>2. IsFiniteSet({Shut(o) : o \in Shutting}) /\ IsFiniteSet({Opening(o) : o \in Back})
    <3>1. [o \in Shutting |-> Shut(o)] \in Surjection(Shutting, {Shut(o) : o \in Shutting})
      BY DEF Surjection
    <3>2. [o \in Back |-> Opening(o)] \in Surjection(Back, {Opening(o) : o \in Back})
      BY DEF Surjection
    <3> QED BY <2>1, <3>1, <3>2, FS_Surjection
  <2>3. IsFiniteSet(supersessions \ Shutting)
    BY FS_Difference DEF RowsInv
  <2>4. IsFiniteSet((supersessions \ Shutting) \cup {Shut(o) : o \in Shutting})
    BY <2>2, <2>3, FS_Union
  <2>5. IsFiniteSet(((supersessions \ Shutting) \cup {Shut(o) : o \in Shutting}) \ Back)
    BY <2>4, FS_Difference
  <2>6. IsFiniteSet((((supersessions \ Shutting) \cup {Shut(o) : o \in Shutting}) \ Back)
                       \cup {Opening(p) : p \in Back})
    BY <2>2, <2>5, FS_Union
  <2> QED BY <2>6, <1>9
<1>22. UniqueKey'
  <2> SUFFICES ASSUME NEW p \in supersessions', NEW q \in supersessions',
                      p.superseded = q.superseded, p.valid_from = q.valid_from
               PROVE  p = q
    BY DEF UniqueKey, KeyOf
  <2>1. PICK o \in supersessions :
          /\ p.superseded = o.superseded /\ p.valid_from = o.valid_from
          /\ \/ p = o /\ o \notin Shutting /\ o \notin Back
             \/ p = Shut(o) /\ o \in Shutting
             \/ p = Opening(o) /\ o \in Back
    BY <1>12
  <2>2. PICK u \in supersessions :
          /\ q.superseded = u.superseded /\ q.valid_from = u.valid_from
          /\ \/ q = u /\ u \notin Shutting /\ u \notin Back
             \/ q = Shut(u) /\ u \in Shutting
             \/ q = Opening(u) /\ u \in Back
    BY <1>12
  <2>3. o = u
    BY <2>1, <2>2, <1>3
  <2> QED BY <2>1, <2>2, <2>3, <1>14
<1>23. NoSelf'
  BY <1>12 DEF RowsInv, NoSelf
(* After the revert, v.superseded is current again.                        *)
<1>24. \A n \in supersessions' : n.valid_to = NULL => n.superseded # v.superseded
  <2> SUFFICES ASSUME NEW n \in supersessions', n.valid_to = NULL, n.superseded = v.superseded
               PROVE  FALSE
    OBVIOUS
  <2>1. CASE n \in supersessions /\ n \notin Shutting
    BY <2>1, <1>3, <1>4, <1>5 DEF Shutting
  <2>2. CASE \E p \in Back : n = Opening(p)
    <3>1. PICK c \in Shutting : c # v /\ c.superseded = n.superseded
      BY <2>2, <1>6, <1>7
    <3> QED BY <3>1, <1>3, <1>4, <1>5
  <2> QED BY <2>1, <2>2, <1>10, <1>7, <1>5, <1>1
<1>25. OneHop'
  <2> SUFFICES ASSUME NEW p \in supersessions', NEW q \in supersessions',
                      p.valid_to = NULL, q.valid_to = NULL
               PROVE  p.survivor # q.superseded /\ (p.superseded = q.superseded => p = q)
    BY DEF OneHop, OpenRows, IsOpen
  <2>1. /\ \/ p \in supersessions /\ p \notin Shutting /\ p \notin Back
           \/ \E o \in Back : p = Opening(o)
        /\ \/ q \in supersessions /\ q \notin Shutting /\ q \notin Back
           \/ \E o \in Back : q = Opening(o)
    BY <1>10, <1>7, <1>1, <1>5
  <2>2. CASE \E o \in Back : p = Opening(o)
    <3>1. p.survivor = v.superseded
      BY <2>2, <1>6, <1>7
    <3>2. p.survivor # q.superseded
      BY <3>1, <1>24
    <3>3. PICK c \in Shutting : c.superseded = p.superseded /\ c.valid_to = NULL
      BY <2>2, <1>15, <1>6, <1>7
    <3>4. q \in supersessions /\ q \notin Shutting => q.superseded # p.superseded
      BY <3>3, <1>3, <1>5
    <3>5. p.superseded = q.superseded => p = q
      BY <2>1, <2>2, <3>4, <1>3, <1>6, <1>7
    <3> QED BY <3>2, <3>5
  <2>3. CASE p \in supersessions /\ p \notin Shutting /\ p \notin Back
    <3>1. CASE q \in supersessions /\ q \notin Shutting
      BY <2>3, <3>1, <1>3
    <3>2. CASE \E o \in Back : q = Opening(o)
      <4>1. PICK c \in Shutting : c.superseded = q.superseded /\ c.valid_to = NULL
        BY <3>2, <1>15, <1>6, <1>7
      <4> QED BY <4>1, <2>3, <1>3, <1>5
    <3> QED BY <2>1, <3>1, <3>2
  <2> QED BY <2>1, <2>2, <2>3
<1>26. UniqueClose'
  <2> SUFFICES ASSUME NEW p \in supersessions', NEW q \in supersessions',
                      p.superseded = q.superseded, p.valid_to = q.valid_to,
                      p.valid_to # NULL
               PROVE  p = q
    BY DEF UniqueClose, IsOpen
  <2>1. CASE p.valid_to = t
    <3>1. PICK o \in Shutting : p = Shut(o)
      BY <2>1, <1>1, <1>6, <1>7, <1>8, <1>10
    <3>2. PICK u \in Shutting : q = Shut(u)
      <4>1. q.valid_to = t
        BY <2>1
      <4> QED BY <4>1, <1>1, <1>6, <1>7, <1>8, <1>10
    <3>3. o \in supersessions /\ u \in supersessions /\ o.valid_to = NULL /\ u.valid_to = NULL
      BY <1>5, <1>14
    <3>4. o.superseded = u.superseded
      BY <3>1, <3>2, <3>3, <1>7
    <3> QED BY <3>1, <3>2, <3>3, <3>4, <1>3
  <2>2. CASE p.valid_to # t
    <3>1. p \in supersessions /\ q \in supersessions
      BY <2>2, <1>5, <1>6, <1>7, <1>10
    <3> QED BY <3>1, <1>3
  <2> QED BY <2>1, <2>2
(* What the merge closed is exactly what the revert re-opens.              *)
<1>27. \A e \in supersessions :
          e.survivor = v.superseded /\ e.valid_to = v.valid_from => e \in Back
  <2> SUFFICES ASSUME NEW e \in supersessions,
                      e.survivor = v.superseded, e.valid_to = v.valid_from
               PROVE  e \in Back
    OBVIOUS
  <2>1. PICK c \in supersessions : /\ c.superseded = e.superseded
                                    /\ c.valid_from = v.valid_from
                                    /\ c.via = v.superseded
    BY <1>4 DEF RowsInv, HasSuccessor, KeyOf
  <2>2. PICK u \in supersessions : /\ u.superseded = c.via
                                    /\ u.valid_from = c.valid_from
                                    /\ u.valid_to = c.valid_to
    BY <2>1, <1>4 DEF RowsInv, ViaTogether, KeyOf
  <2>3. u = v
    BY <2>1, <2>2, <1>3
  <2>4. c \in Shutting /\ c # v
    BY <2>1, <2>2, <2>3, <1>4, <1>5
  <2> QED BY <2>1, <2>4, <1>6
<1>28. ViaTogether'
  <2> SUFFICES ASSUME NEW n \in supersessions', n.via # NULL
               PROVE  \E u \in supersessions' :
                        /\ u.superseded = n.via /\ u.valid_from = n.valid_from
                        /\ u.survivor = n.survivor /\ u.valid_to = n.valid_to /\ u.via = NULL
    BY DEF ViaTogether, KeyOf
  <2>1. PICK o \in supersessions :
          /\ n.superseded = o.superseded /\ n.survivor = o.survivor
          /\ n.valid_from = o.valid_from /\ n.via = o.via
          /\ \/ n = o /\ o \notin Shutting /\ o \notin Back
             \/ n = Shut(o) /\ o \in Shutting
             \/ n = Opening(o) /\ o \in Back
    BY <1>12
  <2>2. PICK u \in supersessions :
          /\ u.superseded = o.via /\ u.valid_from = o.valid_from
          /\ u.survivor = o.survivor /\ u.valid_to = o.valid_to /\ u.via = NULL
    BY <2>1 DEF RowsInv, ViaTogether, KeyOf
  <2>3. CASE n = o /\ o \notin Shutting /\ o \notin Back
    <3>1. u \notin Back
      BY <2>2, <2>3, <1>6, <1>27
    <3>2. u \notin Shutting
      BY <2>2, <2>3, <1>4, <1>5
    <3> QED BY <2>2, <2>3, <3>1, <3>2, <1>11
  <2>4. CASE n = Shut(o) /\ o \in Shutting
    <3>1. u = v
      BY <2>1, <2>2, <2>4, <1>3, <1>4, <1>5
    <3>2. v \in Shutting
      BY DEF Shutting
    <3> QED BY <2>1, <2>2, <2>4, <3>1, <3>2, <1>7, <1>11
  <2>5. CASE n = Opening(o) /\ o \in Back
    <3>1. u \in Back
      BY <2>2, <2>5, <1>6, <1>27
    <3> QED BY <2>1, <2>2, <2>5, <3>1, <1>7, <1>11
  <2> QED BY <2>1, <2>3, <2>4, <2>5
<1>29. HasSuccessor'
  <2> SUFFICES ASSUME NEW m \in supersessions', NEW e \in supersessions',
                      m.via = NULL, e.survivor = m.superseded, e.valid_to = m.valid_from
               PROVE  \E c \in supersessions' : /\ c.superseded = e.superseded
                                                 /\ c.valid_from = m.valid_from
                                                 /\ c.via = m.superseded
    BY DEF HasSuccessor, KeyOf
  <2>1. PICK u \in supersessions : /\ m.superseded = u.superseded
                                    /\ m.valid_from = u.valid_from /\ m.via = u.via
    BY <1>12
  <2>2. e \in supersessions
    BY <2>1, <1>2, <1>5, <1>6, <1>7, <1>8, <1>10
  <2>3. PICK c \in supersessions : /\ c.superseded = e.superseded
                                    /\ c.valid_from = u.valid_from
                                    /\ c.via = u.superseded
    BY <2>1, <2>2 DEF RowsInv, HasSuccessor, KeyOf
  <2> QED BY <2>1, <2>3, <1>13
<1>30. HasPredecessor'
  <2> SUFFICES ASSUME NEW d \in supersessions', d.via # NULL,
                      \/ d.valid_to = NULL
                      \/ \E e \in supersessions' : /\ e.superseded = d.superseded
                                                    /\ e.valid_from = d.valid_to
               PROVE  \E p \in supersessions' : /\ p.superseded = d.superseded
                                                 /\ p.survivor = d.via
                                                 /\ p.valid_to = d.valid_from
    BY DEF HasPredecessor, Alive, IsOpen, KeyOf
  <2>1. PICK o \in supersessions :
          /\ d.superseded = o.superseded /\ d.survivor = o.survivor
          /\ d.valid_from = o.valid_from /\ d.via = o.via
          /\ \/ d = o /\ o \notin Shutting /\ o \notin Back
             \/ d = Shut(o) /\ o \in Shutting
             \/ d = Opening(o) /\ o \in Back
    BY <1>12
  <2>2. o \notin Shutting
    <3>1. d.valid_to = t => FALSE
      BY <1>1, <1>8, <1>12
    <3>2. o \in Shutting => d.valid_to = t
      BY <2>1, <1>7, <1>14
    <3> QED BY <3>1, <3>2
  <2>3. \/ o.valid_to = NULL
        \/ \E e \in supersessions : /\ e.superseded = o.superseded
                                     /\ e.valid_from = o.valid_to
    <3>1. CASE d = o
      BY <2>1, <3>1, <1>12
    <3>2. CASE o \in Back
      BY <3>2, <1>5, <1>6
    <3> QED BY <2>1, <2>2, <3>1, <3>2
  <2>4. PICK p \in supersessions : /\ p.superseded = o.superseded
                                    /\ p.survivor = o.via
                                    /\ p.valid_to = o.valid_from
    BY <2>1, <2>3 DEF RowsInv, HasPredecessor, Alive, IsOpen, KeyOf
  <2>5. p \notin Shutting
    BY <2>4, <1>2, <1>14
  <2>6. p \notin Back
    <3> SUFFICES ASSUME p \in Back PROVE FALSE
      OBVIOUS
    <3>1. PICK c \in Shutting : c.superseded = p.superseded /\ c.valid_from = v.valid_from
      BY <1>6
    <3>2. o.valid_from = v.valid_from /\ o.superseded = c.superseded
      BY <3>1, <2>4, <1>6
    <3>3. o = c
      BY <3>1, <3>2, <1>3, <1>5
    <3> QED BY <3>1, <3>3, <2>2
  <2> QED BY <2>1, <2>4, <2>5, <2>6, <1>11
<1> QED
  BY <1>20, <1>21, <1>22, <1>23, <1>25, <1>26, <1>28, <1>29, <1>30 DEF RowsInv

-----------------------------------------------------------------------------
LEMMA IdleTyped == Idle \in Txn /\ Idle.op = "idle" /\ Idle.stamp = NULL
BY DEF Idle, Session, Txn, NULL

(* lock_items always has a smallest item left to lock.                     *)
LEMMA NextLockTyped ==
    ASSUME TypeOK, NEW w \in Txns, Waiting(w) # {}
    PROVE  NextLock(w) \in Items
<1> DEFINE W == Waiting(w)
           a == txn[w].superseded
           b == txn[w].survivor
<1>1. a \in Items \cup {NULL} /\ b \in Items \cup {NULL}
  BY DEF TypeOK, Txn
<1>2. W \subseteq {a, b} /\ W \subseteq Items /\ W \subseteq Nat /\ W # {}
  BY <1>1, ItemsAssumption DEF Waiting, Needs
<1> HIDE DEF W, a, b
<1>3. \E i \in W : \A j \in W : i <= j
  <2>1. CASE \A i, j \in W : i = j
    <3>1. PICK i \in W : i \in Nat
      BY <1>2
    <3>2. \A j \in W : i <= j
      <4> TAKE j \in W
      <4>1. j = i
        BY <2>1, <3>1
      <4> QED BY <4>1, <3>1
    <3> QED BY <3>2
  <2>2. CASE \E i, j \in W : i # j
    <3>1. a \in W /\ b \in W
      BY <2>2, <1>2
    <3>2. a \in Nat /\ b \in Nat
      BY <3>1, <1>2
    <3>3. CASE a <= b
      BY <3>1, <3>2, <3>3, <1>2
    <3>4. CASE b <= a
      BY <3>1, <3>2, <3>4, <1>2
    <3> QED BY <3>2, <3>3, <3>4
  <2> QED BY <2>1, <2>2
<1> QED BY <1>2, <1>3 DEF NextLock, W

LEMMA RowsInvOfChainInv == ChainInv => RowsInv
BY DEF ChainInv, RowsInv, TypeOK

LEMMA InitChainInv == Init => ChainInv
<1> SUFFICES ASSUME Init PROVE ChainInv
  OBVIOUS
<1>1. TypeOK
  BY IdleTyped DEF Init, TypeOK
<1>2. IsFiniteSet(supersessions)
  BY FS_EmptySet DEF Init
<1>3. \A w \in Txns : txn[w].op = "idle" /\ txn[w].stamp = NULL
  BY IdleTyped DEF Init
<1>4. StampsFresh /\ TxnShape
  BY <1>3 DEF Init, StampsFresh, TxnShape, NULL
<1>5. UniqueKey /\ NoSelf /\ OneHop /\ UniqueClose
  BY DEF Init, UniqueKey, NoSelf, OneHop, UniqueClose, OpenRows
<1>6. ViaTogether /\ HasSuccessor /\ HasPredecessor
  BY DEF Init, ViaTogether, HasSuccessor, HasPredecessor
<1> QED BY <1>1, <1>2, <1>4, <1>5, <1>6 DEF ChainInv

(* A step that writes no supersession row.                                 *)
LEMMA RowsUnchanged ==
    ASSUME RowsInv, UNCHANGED supersessions
    PROVE  RowsInv'
BY DEF RowsInv, UniqueKey, NoSelf, OneHop, OpenRows, IsOpen, UniqueClose,
       ViaTogether, HasSuccessor, HasPredecessor, Alive, KeyOf

LEMMA Assemble ==
    ASSUME RowsInv', TypeOK', StampsFresh', TxnShape'
    PROVE  ChainInv'
BY DEF ChainInv, RowsInv

(* A session goes idle and leaves every row's key where it was.            *)
LEMMA EndTxnFresh ==
    ASSUME TypeOK, StampsFresh, TxnShape, NEW w \in Txns, EndTxn(w), UNCHANGED now,
           \A o \in supersessions : \E n \in supersessions' : KeyOf(n) = KeyOf(o),
           \A n \in supersessions' :
              /\ \/ n.valid_from = txn[w].stamp
                 \/ \E o \in supersessions : n.valid_from = o.valid_from
              /\ \/ n.valid_to \in {NULL, txn[w].stamp}
                 \/ \E o \in supersessions : n.valid_to = o.valid_to
    PROVE  StampsFresh' /\ TxnShape'
<1>1. /\ txn'[w] = Idle
      /\ \A v \in Txns : v # w => txn'[v] = txn[v]
  BY DEF EndTxn, TypeOK
<1>2. TxnShape'
  <2> SUFFICES ASSUME NEW v \in Txns
               PROVE  /\ txn'[v].op = "merge" => /\ txn'[v].superseded \in Items
                                                 /\ txn'[v].survivor \in Items
                                                 /\ txn'[v].superseded # txn'[v].survivor
                      /\ txn'[v].op = "revert" =>
                            \E o \in supersessions' : KeyOf(o) = <<txn'[v].superseded, txn'[v].target>>
                      /\ txn'[v].op = "insert" => txn'[v].superseded \in Items /\ txn'[v].row \in Rows
    BY DEF TxnShape
  <2>1. CASE v = w
    BY <2>1, <1>1, IdleTyped
  <2>2. CASE v # w
    <3>1. txn'[v] = txn[v]
      BY <2>2, <1>1
    <3>2. txn[v].op = "revert" =>
             \E o \in supersessions' : KeyOf(o) = <<txn[v].superseded, txn[v].target>>
      <4> SUFFICES ASSUME txn[v].op = "revert"
                   PROVE  \E o \in supersessions' : KeyOf(o) = <<txn[v].superseded, txn[v].target>>
        OBVIOUS
      <4>1. PICK o \in supersessions : KeyOf(o) = <<txn[v].superseded, txn[v].target>>
        BY DEF TxnShape
      <4>2. PICK n \in supersessions' : KeyOf(n) = KeyOf(o)
        OBVIOUS
      <4> QED BY <4>1, <4>2
    <3> QED BY <3>1, <3>2 DEF TxnShape
  <2> QED BY <2>1, <2>2
<1>3. /\ \A v \in Txns : txn'[v].stamp <= now'
      /\ \A v \in Txns : txn'[v].op \in {"merge", "revert"} => v # w
  BY <1>1, IdleTyped DEF StampsFresh, TypeOK, NULL
<1>4. \A n \in supersessions' : n.valid_from <= now' /\ n.valid_to <= now'
  BY DEF StampsFresh, TypeOK, NULL
<1>5. \A v \in Txns : txn'[v].op \in {"merge", "revert"} =>
        /\ txn'[v].stamp # NULL
        /\ \A n \in supersessions' : n.valid_from # txn'[v].stamp /\ n.valid_to # txn'[v].stamp
        /\ \A u \in Txns : u # v => txn'[u].stamp # txn'[v].stamp
  <2> SUFFICES ASSUME NEW v \in Txns, txn'[v].op \in {"merge", "revert"}
               PROVE  /\ txn'[v].stamp # NULL
                      /\ \A n \in supersessions' : n.valid_from # txn'[v].stamp /\ n.valid_to # txn'[v].stamp
                      /\ \A u \in Txns : u # v => txn'[u].stamp # txn'[v].stamp
    OBVIOUS
  <2>1. v # w /\ txn'[v] = txn[v]
    BY <1>1, <1>3
  <2>2. /\ txn[v].stamp # NULL /\ txn[v].stamp # txn[w].stamp
        /\ \A s \in supersessions : s.valid_from # txn[v].stamp /\ s.valid_to # txn[v].stamp
        /\ \A u \in Txns : u # v => txn[u].stamp # txn[v].stamp
    BY <2>1 DEF StampsFresh
  <2>3. \A n \in supersessions' : n.valid_from # txn[v].stamp /\ n.valid_to # txn[v].stamp
    BY <2>2
  <2>4. \A u \in Txns : u # v => txn'[u].stamp # txn[v].stamp
    BY <2>2, <1>1, IdleTyped
  <2> QED BY <2>1, <2>2, <2>3, <2>4
<1> QED BY <1>2, <1>3, <1>4, <1>5 DEF StampsFresh

-----------------------------------------------------------------------------
CacheTypes ==
    /\ alias \in [Keys -> Items \cup {NULL}]
    /\ gm_item_id \in [Caches -> Items \cup {NULL}]
    /\ pending \in [Caches -> Items \cup {NULL}]
    /\ reverted \in BOOLEAN

CacheStep(c) == ReadAlias(c) \/ WriteCache(c) \/ LoseWrite(c)

LEMMA CacheStepTyped ==
    ASSUME TypeOK, NEW c \in Caches, CacheStep(c)
    PROVE  /\ TypeOK'
           /\ UNCHANGED <<supersessions, item_id, moves, txn, now, origin, classes, reverted>>
<1>1. UNCHANGED <<supersessions, item_id, moves, txn, now, origin, classes, reverted>>
  BY DEF CacheStep, ReadAlias, WriteCache, LoseWrite
<1>2. CASE ReadAlias(c)
  <2>1. AliasOf[c] \in Keys
    BY CachesAssumption
  <2>2. PICK i \in Items : /\ alias' = [alias EXCEPT ![AliasOf[c]] = i]
                            /\ pending' = [pending EXCEPT ![c] = i] /\ gm_item_id' = gm_item_id
    BY <1>2 DEF ReadAlias
  <2> QED
    BY <1>1, <2>1, <2>2 DEF TypeOK
<1>3. CASE WriteCache(c)
  <2>1. pending[c] \in Items
    BY <1>3 DEF WriteCache, TypeOK
  <2>2. CacheTypes'
    BY <1>1, <1>3, <2>1 DEF WriteCache, TypeOK, CacheTypes
  <2> QED
    BY <1>1, <2>2 DEF TypeOK, CacheTypes
<1>4. CASE LoseWrite(c)
  BY <1>1, <1>4 DEF LoseWrite, TypeOK
<1> QED
  BY <1>1, <1>2, <1>3, <1>4 DEF CacheStep

(* One lemma per transaction step that commits.                            *)
LEMMA MergeStep ==
    ASSUME ChainInv, NEW w \in Txns, MergeItems(w)
    PROVE  ChainInv'
<1> DEFINE s == txn[w].superseded
           x == txn[w].survivor
           t == txn[w].stamp
<1>1. RowsInv /\ TypeOK /\ StampsFresh /\ TxnShape
  BY RowsInvOfChainInv DEF ChainInv
<1>2. /\ txn[w].op = "merge" /\ s \in Items /\ x \in Items /\ s # x
      /\ t \in Stamps /\ Fresh(t)
  BY <1>1 DEF MergeItems, HoldsAll, TxnShape, StampsFresh, TypeOK, Txn, Fresh, Stamps
<1>3. SurvivorIsCurrent(x)
  BY DEF MergeItems, CanMerge
<1>4. CASE Existing(s) = {}
  <2>1. supersessions' = Compress(s, x, t)
    BY <1>4 DEF MergeItems
  <2>2. RowsInv'
    BY <1>1, <1>2, <1>3, <1>4, <2>1, MergeRows
  <2>3. TypeOK'
    <3>1. item_id' \in [Rows -> Items \cup {NULL}]
      BY <1>1, <1>2 DEF MergeItems, TypeOK
    <3>2. moves' \subseteq ((Items \X Stamps) \X Rows)
      BY <1>1, <1>2, <1>4 DEF MergeItems, TypeOK
    <3>3. CacheTypes'
      BY <1>1, <1>2, CachesAssumption DEF MergeItems, TypeOK, CacheTypes, MoveAliases, RecomputeCaches
    <3>4. txn' \in [Txns -> Txn] /\ now' \in Nat /\ origin' \in [Rows -> Items \cup {NULL}]
      BY <1>1, IdleTyped DEF MergeItems, TypeOK, EndTxn
    <3>5. classes' \subseteq ((Items \X Stamps) \X SUBSET Items)
      BY <1>1, <1>2, <1>4 DEF MergeItems, TypeOK
    <3> QED BY <3>1, <3>2, <3>3, <3>4, <3>5, <2>2 DEF TypeOK, CacheTypes, RowsInv
  <2>4. \A o \in supersessions : \E n \in supersessions' : KeyOf(n) = KeyOf(o)
    <3> SUFFICES ASSUME NEW o \in supersessions
                 PROVE  \E n \in supersessions' : KeyOf(n) = KeyOf(o)
      OBVIOUS
    <3>1. CASE o \notin Survived(s)
      BY <3>1, <2>1 DEF Compress, CloseAt
    <3>2. CASE o \in Survived(s)
      <4>1. [o EXCEPT !.valid_to = t] \in supersessions'
        BY <3>2, <2>1 DEF Compress, CloseAt
      <4>2. KeyOf([o EXCEPT !.valid_to = t]) = KeyOf(o)
        BY <1>1 DEF RowsInv, Supersession, KeyOf
      <4> QED BY <4>1, <4>2
    <3> QED BY <3>1, <3>2
  <2>5. \A n \in supersessions' :
           /\ \/ n.valid_from = t
              \/ \E o \in supersessions : n.valid_from = o.valid_from
           /\ \/ n.valid_to \in {NULL, t}
              \/ \E o \in supersessions : n.valid_to = o.valid_to
    BY <2>1, <1>1 DEF Compress, CloseAt, Opened, Survived, OpenRows, RowsInv, Supersession
  <2>6. EndTxn(w) /\ UNCHANGED now
    BY DEF MergeItems
  <2>7. StampsFresh' /\ TxnShape'
    BY <1>1, <2>4, <2>5, <2>6, EndTxnFresh
  <2> QED BY <2>2, <2>3, <2>7, Assemble
<1>5. CASE Existing(s) # {}
  <2>1. UNCHANGED <<supersessions, classes>>
    BY <1>5 DEF MergeItems
  <2>2. RowsInv'
    BY <1>1, <2>1, RowsUnchanged
  <2>3. TypeOK'
    <3>1. item_id' \in [Rows -> Items \cup {NULL}]
      BY <1>1, <1>2 DEF MergeItems, TypeOK
    <3>2. KeyOf(CHOOSE o \in Existing(s) : TRUE) \in Items \X Stamps
      BY <1>1, <1>5 DEF Existing, OpenRows, RowsInv, Supersession, KeyOf
    <3>3. moves' \subseteq ((Items \X Stamps) \X Rows)
      BY <1>1, <1>2, <1>5, <3>2 DEF MergeItems, TypeOK
    <3>4. CacheTypes'
      BY <1>1, <1>2, CachesAssumption DEF MergeItems, TypeOK, CacheTypes, MoveAliases, RecomputeCaches
    <3>5. txn' \in [Txns -> Txn] /\ now' \in Nat /\ origin' \in [Rows -> Items \cup {NULL}]
      BY <1>1, IdleTyped DEF MergeItems, TypeOK, EndTxn
    <3> QED BY <3>1, <3>3, <3>4, <3>5, <2>1, <1>1 DEF TypeOK, CacheTypes
  <2>4. EndTxn(w) /\ UNCHANGED now
    BY DEF MergeItems
  <2>5. StampsFresh' /\ TxnShape'
    BY <1>1, <2>1, <2>4, EndTxnFresh
  <2> QED BY <2>2, <2>3, <2>5, Assemble
<1> QED BY <1>4, <1>5

LEMMA RevertStep ==
    ASSUME ChainInv, NEW w \in Txns, RevertSupersession(w)
    PROVE  ChainInv'
<1> DEFINE v == Target(w)
           t == txn[w].stamp
<1>1. RowsInv /\ TypeOK /\ StampsFresh /\ TxnShape
  BY RowsInvOfChainInv DEF ChainInv
<1>2. txn[w].op = "revert" /\ t \in Stamps /\ Fresh(t)
  BY <1>1 DEF RevertSupersession, HoldsAll, StampsFresh, TypeOK, Txn, Fresh, Stamps
<1>3. v \in supersessions
  BY <1>1, <1>2 DEF TxnShape, Target
<1>4. v.superseded \in Items /\ v.survivor \in Items
  BY <1>1, <1>3 DEF RowsInv, Supersession
<1>5. CanRevert(v) /\ supersessions' = Reopen(v, t)
  BY DEF RevertSupersession
<1>6. RowsInv'
  BY <1>1, <1>2, <1>3, <1>5, RevertRows
<1>7. TypeOK'
  <2>1. item_id' \in [Rows -> Items \cup {NULL}]
    BY <1>1, <1>4 DEF RevertSupersession, TypeOK
  <2>2. CacheTypes'
    BY <1>1, <1>4, CachesAssumption DEF RevertSupersession, TypeOK, CacheTypes, MoveAliases, RecomputeCaches
  <2>3. txn' \in [Txns -> Txn] /\ UNCHANGED <<moves, now, origin, classes>>
    BY <1>1, IdleTyped DEF RevertSupersession, TypeOK, EndTxn
  <2> QED BY <2>1, <2>2, <2>3, <1>6, <1>1 DEF TypeOK, CacheTypes, RowsInv
<1>8. \A o \in supersessions : \E n \in supersessions' : KeyOf(n) = KeyOf(o)
  <2> SUFFICES ASSUME NEW o \in supersessions
               PROVE  \E n \in supersessions' : KeyOf(n) = KeyOf(o)
    OBVIOUS
  <2> DEFINE B == Predecessors(v, supersessions)
             C == {v} \cup CompressedBy(v)
             shut == [o EXCEPT !.valid_to = t]
             opening == [o EXCEPT !.valid_to = NULL]
  <2>1. KeyOf(shut) = KeyOf(o) /\ KeyOf(opening) = KeyOf(o) /\ shut.valid_to = t
    BY <1>1 DEF RowsInv, Supersession, KeyOf
  <2>2. CASE o \in B
    BY <2>1, <2>2, <1>5 DEF Reopen
  <2>3. CASE o \in C
    <3>1. \A p \in B : p.valid_to # t
      BY <1>2 DEF Predecessors, Fresh
    <3>2. shut \notin B
      BY <3>1, <2>1
    <3> QED BY <2>1, <2>3, <3>2, <1>5 DEF Reopen, CloseAt
  <2>4. CASE o \notin B /\ o \notin C
    BY <2>4, <1>5 DEF Reopen, CloseAt
  <2> QED BY <2>2, <2>3, <2>4
<1>9. \A n \in supersessions' :
         /\ \/ n.valid_from = t
            \/ \E o \in supersessions : n.valid_from = o.valid_from
         /\ \/ n.valid_to \in {NULL, t}
            \/ \E o \in supersessions : n.valid_to = o.valid_to
  <2>1. CompressedBy(v) \subseteq supersessions /\ Predecessors(v, supersessions) \subseteq supersessions
    BY DEF CompressedBy, OpenRows, Predecessors
  <2> QED BY <1>5, <1>3, <1>1, <2>1 DEF Reopen, CloseAt, RowsInv, Supersession
<1>10. EndTxn(w) /\ UNCHANGED now
  BY DEF RevertSupersession
<1>11. StampsFresh' /\ TxnShape'
  BY <1>1, <1>8, <1>9, <1>10, EndTxnFresh
<1> QED BY <1>6, <1>7, <1>11, Assemble

(* The steps that write no supersession row.                               *)
LEMMA OtherSteps ==
    ASSUME ChainInv, UNCHANGED supersessions,
           NEW w \in Txns,
           \/ \E s, x \in Items : BeginMerge(w, s, x)
           \/ \E s \in supersessions : BeginRevert(w, s)
           \/ \E r \in Rows, i \in Items : BeginInsert(w, r, i)
           \/ Lock(w)
           \/ CommitInsert(w)
           \/ Rollback(w)
    PROVE  ChainInv'
<1>1. RowsInv /\ TypeOK /\ StampsFresh /\ TxnShape /\ RowsInv'
  BY RowsInvOfChainInv, RowsUnchanged DEF ChainInv
<1>2. \A o \in supersessions : /\ o \in supersessions' /\ o.superseded \in Items
                               /\ o.survivor \in Items /\ o.valid_from \in Nat
                               /\ o.valid_to \in Nat
  BY <1>1 DEF RowsInv, Supersession, Stamps
<1>3. ASSUME NEW s \in Items, NEW x \in Items, BeginMerge(w, s, x)
      PROVE  ChainInv'
  <2>1. /\ txn' = [txn EXCEPT ![w] = txn'[w]] /\ txn'[w] \in Txn /\ txn'[w].op = "merge"
        /\ txn'[w].superseded = s /\ txn'[w].survivor = x /\ txn'[w].stamp = now + 1
        /\ now' = now + 1 /\ s # x
    <3> DEFINE new == Session("merge", s, x, NULL, NULL, now + 1)
    <3>1. txn' = [txn EXCEPT ![w] = new] /\ now' = now + 1 /\ s # x
      BY <1>3 DEF BeginMerge
    <3>2. now + 1 \in Nat
      BY <1>1 DEF TypeOK
    <3>3. new \in Txn
      BY <3>2 DEF Txn, Session, NULL
    <3>4. txn'[w] = new
      BY <1>1, <3>1 DEF TypeOK
    <3>5. /\ new.op = "merge" /\ new.superseded = s /\ new.survivor = x /\ new.stamp = now + 1
      BY DEF Session
    <3>6. txn' = [txn EXCEPT ![w] = txn'[w]]
      BY <3>1, <3>4
    <3> HIDE DEF new
    <3> QED BY <3>1, <3>3, <3>4, <3>5, <3>6
  <2>2. TypeOK'
    <3>1. now' \in Nat
      BY <1>1, <2>1 DEF TypeOK
    <3> QED BY <1>1, <1>3, <2>1, <3>1 DEF BeginMerge, TypeOK, cacheVars
  <2>3. StampsFresh'
    BY <1>1, <1>2, <2>1 DEF StampsFresh, TypeOK, Txn, NULL
  <2>4. TxnShape'
    BY <1>1, <2>1 DEF TxnShape, TypeOK
  <2> QED BY <1>1, <2>2, <2>3, <2>4, Assemble
<1>4. ASSUME NEW s \in supersessions, BeginRevert(w, s)
      PROVE  ChainInv'
  <2>1. /\ txn' = [txn EXCEPT ![w] = txn'[w]] /\ txn'[w] \in Txn /\ txn'[w].op = "revert"
        /\ txn'[w].superseded = s.superseded /\ txn'[w].target = s.valid_from
        /\ txn'[w].stamp = now + 1 /\ now' = now + 1
    <3> DEFINE new == Session("revert", s.superseded, s.survivor, s.valid_from, NULL, now + 1)
    <3>1. txn' = [txn EXCEPT ![w] = new] /\ now' = now + 1
      BY <1>4 DEF BeginRevert
    <3>2. now + 1 \in Nat
      BY <1>1 DEF TypeOK
    <3>3. new \in Txn
      BY <3>2, <1>2 DEF Txn, Session, NULL
    <3>4. txn'[w] = new
      BY <1>1, <3>1 DEF TypeOK
    <3>5. /\ new.op = "revert" /\ new.superseded = s.superseded
          /\ new.target = s.valid_from /\ new.stamp = now + 1
      BY DEF Session
    <3>6. txn' = [txn EXCEPT ![w] = txn'[w]]
      BY <3>1, <3>4
    <3> HIDE DEF new
    <3> QED BY <3>1, <3>3, <3>4, <3>5, <3>6
  <2>2. TypeOK'
    <3>1. now' \in Nat
      BY <1>1, <2>1 DEF TypeOK
    <3> QED BY <1>1, <1>4, <2>1, <3>1 DEF BeginRevert, TypeOK, cacheVars
  <2>3. StampsFresh'
    BY <1>1, <1>2, <2>1 DEF StampsFresh, TypeOK, Txn, NULL
  <2>4. KeyOf(s) = <<txn'[w].superseded, txn'[w].target>>
    BY <2>1 DEF KeyOf
  <2>5. TxnShape'
    BY <1>1, <1>2, <2>1, <2>4 DEF TxnShape, TypeOK
  <2> QED BY <1>1, <2>2, <2>3, <2>5, Assemble
<1>5. ASSUME NEW r \in Rows, NEW i \in Items, BeginInsert(w, r, i)
      PROVE  ChainInv'
  <2>1. /\ txn' = [txn EXCEPT ![w] = txn'[w]] /\ txn'[w] \in Txn /\ txn'[w].op = "insert"
        /\ txn'[w].superseded = i /\ txn'[w].row = r /\ txn'[w].stamp = NULL
    BY <1>1, <1>5 DEF BeginInsert, TypeOK, Txn, Session, NULL
  <2>2. TypeOK' /\ UNCHANGED now
    BY <1>1, <1>5, <2>1 DEF BeginInsert, TypeOK, cacheVars
  <2>3. StampsFresh'
    BY <1>1, <2>1, <2>2 DEF StampsFresh, TypeOK, Txn, NULL
  <2>4. TxnShape'
    BY <1>1, <2>1 DEF TxnShape, TypeOK
  <2> QED BY <1>1, <2>2, <2>3, <2>4, Assemble
<1>6. CASE Lock(w)
  <2>1. NextLock(w) \in Items
    BY <1>1, <1>6, NextLockTyped DEF Lock
  <2>2. txn' = [txn EXCEPT ![w] = [txn[w] EXCEPT !.locked = txn[w].locked \cup {NextLock(w)}]]
    BY <1>6 DEF Lock
  <2>3. /\ txn' = [txn EXCEPT ![w] = txn'[w]] /\ txn'[w] \in Txn
        /\ txn'[w].op = txn[w].op /\ txn'[w].superseded = txn[w].superseded
        /\ txn'[w].survivor = txn[w].survivor /\ txn'[w].target = txn[w].target
        /\ txn'[w].row = txn[w].row /\ txn'[w].stamp = txn[w].stamp
    BY <1>1, <2>1, <2>2 DEF TypeOK, Txn
  <2>4. TypeOK' /\ UNCHANGED now
    BY <1>1, <1>6, <2>3 DEF Lock, TypeOK, cacheVars
  <2>5. StampsFresh'
    BY <1>1, <2>3, <2>4 DEF StampsFresh, TypeOK
  <2>6. TxnShape'
    BY <1>1, <2>3 DEF TxnShape, TypeOK
  <2> QED BY <1>1, <2>4, <2>5, <2>6, Assemble
<1>7. CASE CommitInsert(w) \/ Rollback(w)
  <2>1. EndTxn(w) /\ UNCHANGED now
    BY <1>7 DEF CommitInsert, Rollback
  <2>2. StampsFresh' /\ TxnShape'
    BY <1>1, <2>1, EndTxnFresh
  <2>3. txn' \in [Txns -> Txn]
    BY <1>1, <2>1, IdleTyped DEF EndTxn, TypeOK
  <2>4. CASE CommitInsert(w)
    <3>1. txn[w].superseded \in Items
      BY <1>1, <2>4 DEF CommitInsert, HoldsAll, TxnShape
    <3>2. TypeOK'
      BY <1>1, <2>3, <2>4, <3>1 DEF CommitInsert, TypeOK, cacheVars
    <3> QED BY <1>1, <2>2, <3>2, Assemble
  <2>5. CASE Rollback(w)
    <3>1. TypeOK'
      BY <1>1, <2>3, <2>5 DEF Rollback, TypeOK, cacheVars
    <3> QED BY <1>1, <2>2, <3>1, Assemble
  <2> QED BY <1>7, <2>4, <2>5
<1> QED BY <1>3, <1>4, <1>5, <1>6, <1>7

(* The inductive invariant holds in every reachable state.                 *)
THEOREM ChainInvariant == Spec => []ChainInv
<1>1. Init => ChainInv
  BY InitChainInv
<1>2. ChainInv /\ [Next]_vars => ChainInv'
  <2> SUFFICES ASSUME ChainInv, [Next]_vars PROVE ChainInv'
    OBVIOUS
  <2>1. RowsInv /\ TypeOK /\ StampsFresh /\ TxnShape
    BY RowsInvOfChainInv DEF ChainInv
  <2>2. CASE UNCHANGED vars
    <3>1. RowsInv'
      BY <2>1, <2>2, RowsUnchanged DEF vars
    <3>2. TypeOK' /\ StampsFresh' /\ TxnShape'
      BY <2>1, <2>2 DEF vars, cacheVars, TypeOK, StampsFresh, TxnShape
    <3> QED BY <3>1, <3>2, Assemble
  <2>3. ASSUME NEW c \in Caches, CacheStep(c) PROVE ChainInv'
    <3>1. TypeOK' /\ UNCHANGED <<supersessions, txn, now>>
      BY <2>1, <2>3, CacheStepTyped
    <3>2. RowsInv'
      BY <2>1, <3>1, RowsUnchanged
    <3>3. StampsFresh' /\ TxnShape'
      BY <2>1, <3>1 DEF StampsFresh, TxnShape
    <3> QED BY <3>1, <3>2, <3>3, Assemble
  <2>4. ASSUME NEW w \in Txns, MergeItems(w) PROVE ChainInv'
    BY <2>4, MergeStep
  <2>5. ASSUME NEW w \in Txns, RevertSupersession(w) PROVE ChainInv'
    BY <2>5, RevertStep
  <2>6. ASSUME NEW w \in Txns,
               \/ \E s, x \in Items : BeginMerge(w, s, x)
               \/ \E s \in supersessions : BeginRevert(w, s)
               \/ \E r \in Rows, i \in Items : BeginInsert(w, r, i)
               \/ Lock(w)
               \/ CommitInsert(w)
               \/ Rollback(w)
        PROVE  ChainInv'
    <3>1. UNCHANGED supersessions
      BY <2>6 DEF BeginMerge, BeginRevert, BeginInsert, Lock, CommitInsert, Rollback
    <3> QED BY <2>6, <3>1, OtherSteps
  <2> QED BY <2>2, <2>3, <2>4, <2>5, <2>6 DEF Next, CacheStep
<1> QED BY <1>1, <1>2, PTL DEF Spec

(* Every variable keeps its type.                                          *)
THEOREM TypeCorrect == Spec => []TypeOK
<1>1. ChainInv => TypeOK
  BY DEF ChainInv
<1> QED BY <1>1, ChainInvariant, PTL

(* Resolution is one hop and unambiguous, for any number of items and any  *)
(* interleaving of merges and reverts: resolve_catalog_item is right to    *)
(* follow a single row.                                                    *)
THEOREM ResolutionIsOneHop == Spec => []OneHop
<1>1. ChainInv => OneHop
  BY DEF ChainInv
<1> QED BY <1>1, ChainInvariant, PTL

(* A revert of a current, uncompressed row finds one predecessor for each  *)
(* row its merge compressed: the count check of revert_supersession never  *)
(* refuses it, however many merges and reverts ran in between.             *)
THEOREM RevertFindsPredecessors == Spec => []RevertNeverStuck
<1>1. ChainInv => RevertNeverStuck
  <2> SUFFICES ASSUME ChainInv, NEW v \in OpenRows, v.via = NULL
               PROVE  PredecessorsMatch(v)
    BY DEF RevertNeverStuck
  <2> DEFINE C == CompressedBy(v)
             P == Predecessors(v, supersessions)
             f == [p \in P |-> CHOOSE c \in C : c.superseded = p.superseded]
  <2>1. RowsInv
    BY RowsInvOfChainInv
  <2>2. \A p, q \in supersessions :
          /\ (p.superseded = q.superseded /\ p.valid_from = q.valid_from => p = q)
          /\ (p.superseded = q.superseded /\ p.valid_to = q.valid_to /\ p.valid_to # NULL => p = q)
    BY <2>1 DEF RowsInv, UniqueKey, UniqueClose, IsOpen, KeyOf
  <2>3. v \in supersessions /\ v.superseded # NULL /\ v.valid_from # NULL
    BY <2>1, ItemsAssumption DEF OpenRows, RowsInv, Supersession, Stamps
  <2>4. /\ C \subseteq supersessions /\ P \subseteq supersessions
        /\ \A c \in C : c.valid_to = NULL /\ c.via = v.superseded /\ c.valid_from = v.valid_from
        /\ \A p \in P : p.survivor = v.superseded /\ p.valid_to = v.valid_from
                        /\ \E c \in C : c.superseded = p.superseded
        /\ \A p \in supersessions, c \in C :
              p.survivor = v.superseded /\ p.superseded = c.superseded
                /\ p.valid_to = v.valid_from => p \in P
    BY DEF CompressedBy, Predecessors, OpenRows, IsOpen
  <2>5. \A c \in C : \E p \in P : p.superseded = c.superseded
    <3> SUFFICES ASSUME NEW c \in C PROVE \E p \in P : p.superseded = c.superseded
      OBVIOUS
    <3>1. PICK p \in supersessions : /\ p.superseded = c.superseded
                                      /\ p.survivor = c.via
                                      /\ p.valid_to = c.valid_from
      BY <2>1, <2>3, <2>4 DEF RowsInv, HasPredecessor, Alive, IsOpen
    <3> QED BY <3>1, <2>4
  <2> HIDE DEF C, P
  <2>6. \A p \in P : f[p] \in C /\ f[p].superseded = p.superseded
    BY <2>4
  <2>7. f \in [P -> C]
    BY <2>6
  <2>8. \A p, q \in P : f[p] = f[q] => p = q
    BY <2>2, <2>3, <2>4, <2>6
  <2>9. \A c \in C : \E p \in P : f[p] = c
    <3> SUFFICES ASSUME NEW c \in C PROVE \E p \in P : f[p] = c
      OBVIOUS
    <3>1. PICK p \in P : p.superseded = c.superseded
      BY <2>5
    <3>2. f[p] = c
      BY <3>1, <2>2, <2>4, <2>6
    <3> QED BY <3>2
  <2> HIDE DEF f
  <2>10. f \in Bijection(P, C)
    BY <2>7, <2>8, <2>9 DEF Bijection, Injection, Surjection, IsInjective
  <2>11. IsFiniteSet(P)
    BY <2>1, <2>4, FS_Subset DEF RowsInv
  <2>12. Cardinality(C) = Cardinality(P)
    BY <2>10, <2>11, FS_Bijection DEF ExistsBijection
  <2> QED BY <2>12 DEF PredecessorsMatch, C, P
<1> QED BY <1>1, ChainInvariant, PTL

-----------------------------------------------------------------------------
(* Locks.                                                                  *)

(* A transaction holds some of the items it needs, the smaller ones first. *)
LocksInOrder ==
    \A w \in Txns :
        /\ txn[w].locked \subseteq Needs(w)
        /\ \A i \in txn[w].locked, j \in Waiting(w) : i < j

(* Two transactions hold an item together only in strengths that agree.    *)
LocksAgree ==
    \A v, w \in Txns :
        \A i \in txn[v].locked \cap txn[w].locked :
            v # w => ~LockConflict(LockStrength(v, i), LockStrength(w, i))

LocksInv == LocksInOrder /\ LocksAgree

LEMMA InitLocks == Init => LocksInv
BY DEF Init, Idle, Session, LocksInv, LocksInOrder, LocksAgree

(* A session begins or ends a transaction: it holds nothing.               *)
LEMMA NothingHeld ==
    ASSUME TypeOK, LocksInv, NEW w \in Txns,
           \A v \in Txns : v # w => txn'[v] = txn[v],
           txn'[w].locked = {}
    PROVE  LocksInv'
<1>1. LocksInOrder'
  BY DEF LocksInv, LocksInOrder, Needs, Waiting
<1>2. LocksAgree'
  BY DEF LocksInv, LocksAgree, LockStrength, LockConflict
<1> QED
  BY <1>1, <1>2 DEF LocksInv

(* The next lock of a transaction is the smallest it waits for.            *)
LEMMA NextLockIsSmallest ==
    ASSUME TypeOK, NEW w \in Txns, Waiting(w) # {}
    PROVE  /\ NextLock(w) \in Waiting(w) /\ NextLock(w) \in Nat
           /\ \A j \in Waiting(w) : NextLock(w) <= j
<1> DEFINE W == Waiting(w)
           a == txn[w].superseded
           b == txn[w].survivor
<1>1. a \in Items \cup {NULL} /\ b \in Items \cup {NULL}
  BY DEF TypeOK, Txn
<1>2. W \subseteq {a, b} /\ W \subseteq Nat /\ W # {}
  BY <1>1, ItemsAssumption DEF Waiting, Needs
<1> HIDE DEF W, a, b
<1>3. \E i \in W : \A j \in W : i <= j
  <2>1. CASE a \in W /\ b \in W
    <3>1. a \in Nat /\ b \in Nat /\ (a <= b \/ b <= a)
      BY <2>1, <1>2
    <3> QED
      BY <2>1, <3>1, <1>2
  <2>2. CASE ~(a \in W /\ b \in W)
    <3>1. PICK i \in W : TRUE
      BY <1>2
    <3>2. \A j \in W : j = i /\ i \in Nat
      BY <2>2, <3>1, <1>2
    <3> QED
      BY <3>1, <3>2
  <2> QED
    BY <2>1, <2>2
<1> QED
  BY <1>2, <1>3 DEF NextLock, W

LEMMA LockKeepsLocks ==
    ASSUME TypeOK, LocksInv, NEW w \in Txns, Lock(w)
    PROVE  LocksInv'
<1> PICK l : l = NextLock(w)
  OBVIOUS
<1>1. /\ l \in Waiting(w) /\ l \in Nat
      /\ \A j \in Waiting(w) : l <= j
  BY NextLockIsSmallest DEF Lock
<1>2. txn' = [txn EXCEPT ![w] = [txn[w] EXCEPT !.locked = txn[w].locked \cup {l}]]
  BY DEF Lock
<1>3. /\ txn'[w].locked = txn[w].locked \cup {l}
      /\ txn'[w].op = txn[w].op /\ txn'[w].superseded = txn[w].superseded
      /\ txn'[w].survivor = txn[w].survivor
      /\ \A v \in Txns : v # w => txn'[v] = txn[v]
  BY <1>2 DEF TypeOK, Txn
<1>4. \A v \in Txns : Needs(v)' = Needs(v)
  BY <1>3 DEF Needs
<1>5. \A v \in Txns, i \in Items : LockStrength(v, i)' = LockStrength(v, i)
  BY <1>3 DEF LockStrength
<1>6. LocksInOrder'
  <2>1. \A v \in Txns : v # w => Waiting(v)' = Waiting(v)
    BY <1>3, <1>4 DEF Waiting
  <2>2. Waiting(w)' = Waiting(w) \ {l}
    BY <1>3, <1>4 DEF Waiting
  <2>3. Waiting(w) \subseteq Nat
    <3>1. txn[w] \in Txn
      BY DEF TypeOK
    <3> QED
      BY <3>1, ItemsAssumption DEF Waiting, Needs, Txn
  <2>4. \A j \in Waiting(w) \ {l} : l < j
    BY <1>1, <2>3
  <2>5. /\ txn'[w].locked \subseteq Needs(w)'
        /\ \A i \in txn'[w].locked, j \in Waiting(w)' : i < j
    <3>1. l \in Needs(w)
      BY <1>1 DEF Waiting
    <3> QED
      BY <1>3, <1>4, <2>2, <2>4, <3>1 DEF LocksInv, LocksInOrder
  <2>6. \A v \in Txns : v # w =>
           /\ txn'[v].locked \subseteq Needs(v)'
           /\ \A i \in txn'[v].locked, j \in Waiting(v)' : i < j
    BY <1>3, <1>4, <2>1 DEF LocksInv, LocksInOrder
  <2> QED
    BY <2>5, <2>6 DEF LocksInOrder
<1>7. LocksAgree'
  <2>1. \A v \in Txns : v # w /\ l \in txn[v].locked =>
           ~LockConflict(LockStrength(v, l), LockStrength(w, l))
    BY DEF Lock, Blocks
  <2>2. \A v \in Txns : v # w /\ l \in txn[v].locked =>
           ~LockConflict(LockStrength(w, l), LockStrength(v, l))
    BY <2>1 DEF LockConflict
  <2>3. \A v \in Txns : txn[v].locked \subseteq Items /\ l \in Items
    BY <1>1, ItemsAssumption DEF Waiting, Needs, TypeOK, Txn
  <2> SUFFICES ASSUME NEW u \in Txns, NEW v \in Txns, u # v,
                      NEW i \in txn'[u].locked \cap txn'[v].locked
               PROVE  ~LockConflict(LockStrength(u, i)', LockStrength(v, i)')
    BY DEF LocksAgree, LockConflict
  <2>4. i \in Items
    BY <2>3, <1>3
  <2>5. ~LockConflict(LockStrength(u, i), LockStrength(v, i))
    BY <1>3, <2>1, <2>2 DEF LocksInv, LocksAgree
  <2> QED
    BY <1>5, <2>4, <2>5
<1> QED
  BY <1>6, <1>7 DEF LocksInv

LEMMA StepLocks ==
    ASSUME TypeOK, LocksInv, [Next]_vars
    PROVE  LocksInv'
<1>e. ASSUME NEW w \in Txns, EndTxn(w) PROVE LocksInv'
  <2>1. txn'[w].locked = {} /\ \A v \in Txns : v # w => txn'[v] = txn[v]
    BY <1>e DEF EndTxn, Idle, Session, TypeOK
  <2> QED
    BY <2>1, NothingHeld
<1>1. ASSUME NEW w \in Txns, NEW s \in Items, NEW x \in Items, BeginMerge(w, s, x)
      PROVE  LocksInv'
  <2>1. txn'[w].locked = {} /\ \A v \in Txns : v # w => txn'[v] = txn[v]
    BY <1>1 DEF BeginMerge, Session, TypeOK
  <2> QED
    BY <2>1, NothingHeld
<1>2. ASSUME NEW w \in Txns, NEW s \in supersessions, BeginRevert(w, s)
      PROVE  LocksInv'
  <2>1. txn'[w].locked = {} /\ \A v \in Txns : v # w => txn'[v] = txn[v]
    BY <1>2 DEF BeginRevert, Session, TypeOK
  <2> QED
    BY <2>1, NothingHeld
<1>3. ASSUME NEW w \in Txns, NEW r \in Rows, NEW i \in Items, BeginInsert(w, r, i)
      PROVE  LocksInv'
  <2>1. txn'[w].locked = {} /\ \A v \in Txns : v # w => txn'[v] = txn[v]
    BY <1>3 DEF BeginInsert, Session, TypeOK
  <2> QED
    BY <2>1, NothingHeld
<1>4. ASSUME NEW w \in Txns, Lock(w) PROVE LocksInv'
  BY <1>4, LockKeepsLocks
<1>5. ASSUME NEW w \in Txns,
             MergeItems(w) \/ RevertSupersession(w) \/ CommitInsert(w) \/ Rollback(w)
      PROVE  LocksInv'
  <2>1. EndTxn(w)
    BY <1>5 DEF MergeItems, RevertSupersession, CommitInsert, Rollback
  <2> QED
    BY <2>1, <1>e
<1>6. CASE UNCHANGED txn
  BY <1>6 DEF LocksInv, LocksInOrder, LocksAgree, Needs, Waiting, LockStrength, LockConflict
<1>7. ASSUME NEW c \in Caches, CacheStep(c) PROVE LocksInv'
  BY <1>7, <1>6, CacheStepTyped
<1> QED
  BY <1>1, <1>2, <1>3, <1>4, <1>5, <1>6, <1>7 DEF Next, vars, CacheStep

(* "Both items are locked in id order so two merges or reverts over        *)
(* overlapping pairs cannot deadlock": among any finite number of sessions *)
(* no set waits for itself.  A member that waits waits for one whose next  *)
(* lock is larger, so the members ahead of it get strictly fewer.          *)
LEMMA OrderedLocksHaveNoCycle ==
    ASSUME IsFiniteSet(Txns), TypeOK, LocksInOrder
    PROVE  NoWaitCycle
<1> SUFFICES ASSUME NEW S \in SUBSET Txns, S # {},
                    \A w \in S : \E v \in S : WaitsFor(w, v)
             PROVE  FALSE
  BY DEF NoWaitCycle
<1> DEFINE Ahead(w) == {v \in S : NextLock(v) > NextLock(w)}
           T == {Ahead(w) : w \in S}
<1>1. \A w \in S : NextLock(w) \in Nat /\ Waiting(w) # {}
  BY NextLockIsSmallest DEF WaitsFor
<1>2. ASSUME NEW w \in S
      PROVE  \E v \in S : Ahead(v) \subseteq Ahead(w) /\ Ahead(v) # Ahead(w)
  <2>1. PICK v \in S : WaitsFor(w, v)
    OBVIOUS
  <2>2. NextLock(w) \in txn[v].locked
    BY <2>1 DEF WaitsFor, Blocks
  <2>3. NextLock(v) \in Waiting(v)
    BY <1>1, NextLockIsSmallest
  <2>4. NextLock(w) < NextLock(v)
    BY <2>2, <2>3 DEF LocksInOrder
  <2>5. Ahead(v) \subseteq Ahead(w)
    BY <2>4, <1>1
  <2>6. v \in Ahead(w) /\ v \notin Ahead(v)
    BY <2>4, <1>1
  <2> QED
    BY <2>5, <2>6
<1>3. T \subseteq FiniteSubsetsOf(S) /\ T # {}
  <2>1. IsFiniteSet(S)
    BY FS_Subset
  <2>2. FiniteSubsetsOf(S) = SUBSET S
    BY <2>1, FS_FiniteSubsetsOfFinite
  <2>3. \A w \in S : Ahead(w) \in SUBSET S
    OBVIOUS
  <2> HIDE DEF Ahead
  <2>4. T \subseteq SUBSET S /\ T # {}
    BY <2>3
  <2> QED
    BY <2>2, <2>4
<1>4. PICK A \in T : \A B \in T : <<B, A>> \notin StrictSubsetOrdering(S)
  BY <1>3, WFMin, FS_StrictSubsetOrderingWellFounded
<1>5. PICK w \in S : A = Ahead(w)
  BY <1>4
<1>6. PICK v \in S : Ahead(v) \subseteq Ahead(w) /\ Ahead(v) # Ahead(w)
  BY <1>2
<1>7. <<Ahead(v), A>> \in StrictSubsetOrdering(S)
  BY <1>5, <1>6 DEF StrictSubsetOrdering
<1> QED
  BY <1>4, <1>7

(* "Both items are locked in id order": whatever merges, reverts and       *)
(* inserts run, some transaction of any set waits for none of it           *)
(* (lock_items).                                                           *)
THEOREM MergesDoNotDeadlock ==
    ASSUME IsFiniteSet(Txns)
    PROVE  Spec => []NoWaitCycle
<1>1. TypeOK /\ LocksInv /\ [Next]_vars => LocksInv'
  BY StepLocks
<1>2. TypeOK /\ LocksInv => NoWaitCycle
  BY OrderedLocksHaveNoCycle DEF LocksInv
<1> QED
  BY <1>1, <1>2, InitLocks, TypeCorrect, PTL DEF Spec

-----------------------------------------------------------------------------
(* No copy is left behind.                                                 *)

LEMMA MergeLeavesNothing ==
    ASSUME ChainInv, LocksInv, NEW w \in Txns, MergeItems(w),
           NEW v \in supersessions',
           KeyOf(v) \notin {KeyOf(u) : u \in supersessions}, v.via = NULL
    PROVE  /\ \A r \in Rows : item_id'[r] # v.superseded
           /\ \A u \in Txns : ~(txn'[u].op = "insert" /\ v.superseded \in txn'[u].locked)
<1> DEFINE s == txn[w].superseded
           x == txn[w].survivor
           t == txn[w].stamp
<1>1. /\ txn[w].op = "merge" /\ s \in Items /\ x \in Items /\ s # x /\ s # NULL
      /\ TypeOK /\ \A o \in supersessions : o \in Supersession
  BY ItemsAssumption DEF MergeItems, HoldsAll, ChainInv, TxnShape, TypeOK
<1>2. Existing(s) = {} /\ supersessions' = Compress(s, x, t)
  BY DEF MergeItems
<1>3. v = Opened(s, x, t, NULL)
  <2>1. \A o \in Survived(s) : KeyOf([o EXCEPT !.valid_to = t]) = KeyOf(o) /\ o \in supersessions
    BY <1>1 DEF Survived, OpenRows, Supersession, KeyOf
  <2>2. \A o : Opened(o, x, t, s).via # NULL
    BY <1>1 DEF Opened
  <2> QED
    BY <1>2, <2>1, <2>2 DEF Compress, CloseAt
<1>4. v.superseded = s
  BY <1>3 DEF Opened
<1>5. \A r \in Rows : item_id'[r] # s
  BY <1>1 DEF MergeItems
<1>6. \A u \in Txns : ~(txn'[u].op = "insert" /\ s \in txn'[u].locked)
  <2>1. s \in txn[w].locked
    BY <1>1 DEF MergeItems, HoldsAll, Waiting, Needs
  <2>2. LockStrength(w, s) = "UPDATE"
    BY <1>1 DEF LockStrength
  <2>3. /\ txn'[w].op = "idle"
        /\ \A u \in Txns : u # w => txn'[u] = txn[u]
    BY <1>1 DEF MergeItems, EndTxn, Idle, Session, TypeOK
  <2>4. \A u \in Txns : u # w => s \notin txn[u].locked
    BY <2>1, <2>2 DEF LocksInv, LocksAgree, LockConflict
  <2> QED
    BY <2>3, <2>4
<1> QED
  BY <1>4, <1>5, <1>6

-----------------------------------------------------------------------------
(* What the ledger and the supersession rows remember of each copy.        *)

(* The row of the merge an open row came with.                             *)
RootKey(o) == IF o.via = NULL THEN KeyOf(o) ELSE <<o.via, o.valid_from>>

(* A copy that sits on the survivor of its item was ledgered by the merge. *)
LedgeredNow(r) ==
    \A o \in supersessions :
        o.valid_to = NULL /\ o.superseded = origin[r] /\ o.survivor = item_id[r] =>
            <<RootKey(o), r>> \in moves

(* A copy of another item was moved by a merge because its own item was    *)
(* compressed in it, and had been ledgered under the row this closed.      *)
LedgeredBefore(r) ==
    \A v \in supersessions : v.via = NULL /\ <<KeyOf(v), r>> \in moves /\ v.superseded # origin[r] =>
        /\ \E c \in supersessions : /\ c.superseded = origin[r] /\ c.valid_from = v.valid_from
                                    /\ c.via = v.superseded
        /\ \A p \in supersessions :
              p.superseded = origin[r] /\ p.valid_to = v.valid_from => <<RootKey(p), r>> \in moves

Traced ==
    \A r \in Rows : MovedUnderCompressed(r) \/ (OnPath(r) /\ LedgeredNow(r) /\ LedgeredBefore(r))

(* A row nobody has committed yet was never moved, and is inserted once.   *)
Uncreated ==
    /\ \A r \in Rows : item_id[r] = NULL => origin[r] = NULL /\ \A m \in moves : m[2] # r
    /\ \A w \in Txns : txn[w].op = "insert" =>
          /\ item_id[txn[w].row] = NULL
          /\ \A v \in Txns : v # w /\ txn[v].op = "insert" => txn[v].row # txn[w].row

MovesLedgered == \A m \in moves : \E s \in supersessions : KeyOf(s) = m[1]

(* Who resolved to s when s was merged: s and the items compressed then.   *)
ClassesRecorded ==
    \A c \in classes :
        /\ \E v \in supersessions : KeyOf(v) = c[1]
        /\ \A i \in Items :
              i \in c[2] <=> \/ i = c[1][1]
                             \/ \E d \in supersessions : /\ d.superseded = i
                                                         /\ d.valid_from = c[1][2]
                                                         /\ d.via = c[1][1]

HistoryInv == Traced /\ Uncreated /\ MovesLedgered /\ ClassesRecorded

-----------------------------------------------------------------------------
SameRow(n, o) ==
    /\ n.superseded = o.superseded /\ n.survivor = o.survivor
    /\ n.valid_from = o.valid_from /\ n.via = o.via

(* What a merge that opens a row makes of the rows.                        *)
LEMMA MergeShape ==
    ASSUME RowsInv,
           NEW s \in Items, NEW x \in Items, NEW t, Fresh(t),
           supersessions' = Compress(s, x, t)
    PROVE  /\ \A o \in supersessions : \E n \in supersessions' :
                 /\ SameRow(n, o)
                 /\ n.valid_to = IF o.valid_to = NULL /\ o.survivor = s THEN t ELSE o.valid_to
           /\ \A n \in supersessions' :
                 \/ \E o \in supersessions :
                       /\ SameRow(n, o)
                       /\ n.valid_to = IF o.valid_to = NULL /\ o.survivor = s THEN t ELSE o.valid_to
                 \/ /\ n.superseded = s /\ n.survivor = x /\ n.valid_from = t
                    /\ n.valid_to = NULL /\ n.via = NULL
                 \/ /\ n.survivor = x /\ n.valid_from = t /\ n.valid_to = NULL /\ n.via = s
                    /\ \E o \in supersessions : /\ o.valid_to = NULL /\ o.survivor = s
                                                /\ o.superseded = n.superseded
           /\ \E n \in supersessions' : /\ n.superseded = s /\ n.survivor = x /\ n.valid_from = t
                                        /\ n.valid_to = NULL /\ n.via = NULL
           /\ \A o \in supersessions : o.valid_to = NULL /\ o.survivor = s =>
                 \E n \in supersessions' :
                    /\ n.superseded = o.superseded /\ n.survivor = x /\ n.valid_from = t
                    /\ n.valid_to = NULL /\ n.via = s
<1> DEFINE Closing == Survived(s)
           Shut(o) == [o EXCEPT !.valid_to = t]
           Root == Opened(s, x, t, NULL)
           Chain(o) == Opened(o.superseded, x, t, s)
<1>2. supersessions' = (supersessions \ Closing) \cup {Shut(o) : o \in Closing}
                         \cup {Root} \cup {Chain(o) : o \in Closing}
  BY DEF Compress, CloseAt
<1>3. \A o \in supersessions : o \in Closing <=> o.valid_to = NULL /\ o.survivor = s
  BY DEF Survived, OpenRows, IsOpen
<1>4. Closing \subseteq supersessions
  BY DEF Survived, OpenRows
<1>5. \A o \in Closing : SameRow(Shut(o), o) /\ Shut(o).valid_to = t
  BY <1>4 DEF RowsInv, Supersession, SameRow
<1>6. \A o \in Closing :
         /\ Chain(o).superseded = o.superseded /\ Chain(o).survivor = x
         /\ Chain(o).valid_from = t /\ Chain(o).valid_to = NULL /\ Chain(o).via = s
  BY DEF Opened
<1>7. /\ Root.superseded = s /\ Root.survivor = x /\ Root.valid_from = t
      /\ Root.valid_to = NULL /\ Root.via = NULL
  BY DEF Opened
<1> HIDE DEF Closing, Shut, Root, Chain
<1>8. \A o : SameRow(o, o)
  BY DEF SameRow
<1>9. \A o \in supersessions : \E n \in supersessions' :
                 /\ SameRow(n, o)
                 /\ n.valid_to = IF o.valid_to = NULL /\ o.survivor = s THEN t ELSE o.valid_to
  BY <1>2, <1>3, <1>5, <1>8
<1>10. \A n \in supersessions' :
                 \/ \E o \in supersessions :
                       /\ SameRow(n, o)
                       /\ n.valid_to = IF o.valid_to = NULL /\ o.survivor = s THEN t ELSE o.valid_to
                 \/ n = Root
                 \/ \E o \in Closing : n = Chain(o)
  <2> TAKE n \in supersessions'
  <2>1. CASE n \in supersessions \ Closing
    BY <2>1, <1>3, <1>8
  <2>2. CASE \E o \in Closing : n = Shut(o)
    BY <2>2, <1>3, <1>4, <1>5
  <2> QED
    BY <2>1, <2>2, <1>2
<1>11. Root \in supersessions' /\ \A o \in Closing : Chain(o) \in supersessions'
  BY <1>2
<1> QED
  BY <1>3, <1>4, <1>6, <1>7, <1>9, <1>10, <1>11

(* What a revert of row v makes of the rows: v and what was compressed     *)
(* with it close, and what that merge closed is open again.                *)
Shuts(o, v) == o = v \/ (o.via = v.superseded /\ o.valid_from = v.valid_from)
Backs(o, v) == o.survivor = v.superseded /\ o.valid_to = v.valid_from

LEMMA RevertShape ==
    ASSUME RowsInv, NEW v \in supersessions, CanRevert(v), NEW t, Fresh(t),
           supersessions' = Reopen(v, t)
    PROVE  /\ \A o \in supersessions : Shuts(o, v) => o.valid_to = NULL /\ o.survivor = v.survivor
           /\ \A c \in supersessions : c.via = v.superseded /\ c.valid_from = v.valid_from =>
                 \E p \in supersessions : p.superseded = c.superseded /\ Backs(p, v)
           /\ \A p \in supersessions : Backs(p, v) =>
                 \E c \in supersessions : /\ c.superseded = p.superseded
                                          /\ c.valid_from = v.valid_from /\ c.via = v.superseded
           /\ \A o \in supersessions : \E n \in supersessions' :
                 /\ SameRow(n, o)
                 /\ Shuts(o, v) => n.valid_to = t
                 /\ Backs(o, v) => n.valid_to = NULL
                 /\ ~Shuts(o, v) /\ ~Backs(o, v) => n.valid_to = o.valid_to
           /\ \A n \in supersessions' : \E o \in supersessions :
                 /\ SameRow(n, o)
                 /\ Shuts(o, v) => n.valid_to = t
                 /\ Backs(o, v) => n.valid_to = NULL
                 /\ ~Shuts(o, v) /\ ~Backs(o, v) => n.valid_to = o.valid_to
<1> DEFINE Shutting == {v} \cup CompressedBy(v)
           Back == Predecessors(v, supersessions)
           Shut(o) == [o EXCEPT !.valid_to = t]
           Opening(o) == [o EXCEPT !.valid_to = NULL]
<1>1. /\ v.valid_to = NULL /\ v.via = NULL /\ v.superseded # NULL
      /\ \A o \in supersessions : o \in Supersession /\ o.valid_from # NULL
      /\ \A o \in supersessions : o.valid_from # t /\ o.valid_to # t
  BY ItemsAssumption DEF CanRevert, IsOpen, RowsInv, Supersession, Stamps, Fresh, NULL
<1>2. \A p, q \in supersessions :
          /\ (p.superseded = q.superseded /\ p.valid_from = q.valid_from => p = q)
          /\ (p.valid_to = NULL /\ q.valid_to = NULL /\ p.superseded = q.superseded => p = q)
  BY DEF RowsInv, UniqueKey, OneHop, OpenRows, IsOpen, KeyOf
<1>3. \A o \in supersessions : Shuts(o, v) => o.valid_to = NULL /\ o.survivor = v.survivor
  <2> SUFFICES ASSUME NEW o \in supersessions, o.via = v.superseded, o.valid_from = v.valid_from
               PROVE  o.valid_to = NULL /\ o.survivor = v.survivor
    BY <1>1 DEF Shuts
  <2>1. PICK u \in supersessions : /\ u.superseded = o.via /\ u.valid_from = o.valid_from
                                   /\ u.survivor = o.survivor /\ u.valid_to = o.valid_to
    BY <1>1 DEF RowsInv, ViaTogether, KeyOf
  <2> QED
    BY <2>1, <1>1, <1>2
<1>4. \A c \in supersessions : c.via = v.superseded /\ c.valid_from = v.valid_from =>
                 \E p \in supersessions : p.superseded = c.superseded /\ Backs(p, v)
  <2> SUFFICES ASSUME NEW c \in supersessions, c.via = v.superseded, c.valid_from = v.valid_from
               PROVE  \E p \in supersessions : p.superseded = c.superseded /\ Backs(p, v)
    OBVIOUS
  <2>1. c.valid_to = NULL
    BY <1>3 DEF Shuts
  <2> QED
    BY <2>1, <1>1 DEF RowsInv, HasPredecessor, Alive, IsOpen, Backs
<1>5. \A p \in supersessions : Backs(p, v) =>
                 \E c \in supersessions : /\ c.superseded = p.superseded
                                          /\ c.valid_from = v.valid_from /\ c.via = v.superseded
  BY <1>1 DEF RowsInv, HasSuccessor, KeyOf, Backs
<1>6. \A o \in supersessions : o \in Shutting <=> Shuts(o, v)
  BY <1>3 DEF CompressedBy, OpenRows, IsOpen, Shuts
<1>7. \A o \in supersessions : o \in Back <=> Backs(o, v)
  <2>1. \A o \in supersessions : o \in Back => Backs(o, v)
    BY DEF Predecessors, CompressedBy, Backs
  <2>2. ASSUME NEW o \in supersessions, Backs(o, v) PROVE o \in Back
    <3>1. PICK c \in supersessions : /\ c.superseded = o.superseded
                                     /\ c.valid_from = v.valid_from /\ c.via = v.superseded
      BY <2>2, <1>5
    <3>2. c \in CompressedBy(v)
      BY <3>1, <1>3 DEF CompressedBy, OpenRows, IsOpen, Shuts
    <3> QED
      BY <2>2, <3>1, <3>2 DEF Predecessors, Backs
  <2> QED
    BY <2>1, <2>2
<1>8. supersessions' = (((supersessions \ Shutting) \cup {Shut(o) : o \in Shutting}) \ Back)
                          \cup {Opening(p) : p \in Back}
  BY DEF Reopen, CloseAt
<1>9. \A o \in supersessions : /\ SameRow(Shut(o), o) /\ Shut(o).valid_to = t
                               /\ SameRow(Opening(o), o) /\ Opening(o).valid_to = NULL
  BY <1>1 DEF Supersession, SameRow
<1>10. Shutting \subseteq supersessions /\ Back \subseteq supersessions
  BY DEF CompressedBy, OpenRows, Predecessors
<1> HIDE DEF Shutting, Back, Shut, Opening
<1>11. \A o \in supersessions : ~(Shuts(o, v) /\ Backs(o, v))
  BY <1>1, <1>3 DEF Backs
<1>12. \A o \in Shutting : Shut(o) \notin Back
  BY <1>1, <1>9, <1>10
<1>13. \A o : SameRow(o, o)
  BY DEF SameRow
<1>14. \A o \in supersessions : \E n \in supersessions' :
                 /\ SameRow(n, o)
                 /\ Shuts(o, v) => n.valid_to = t
                 /\ Backs(o, v) => n.valid_to = NULL
                 /\ ~Shuts(o, v) /\ ~Backs(o, v) => n.valid_to = o.valid_to
  <2> TAKE o \in supersessions
  <2>1. CASE Shuts(o, v)
    <3>1. Shut(o) \in supersessions'
      BY <2>1, <1>6, <1>8, <1>12
    <3> QED
      BY <2>1, <3>1, <1>9, <1>11
  <2>2. CASE Backs(o, v)
    <3>1. Opening(o) \in supersessions'
      BY <2>2, <1>7, <1>8
    <3> QED
      BY <2>2, <3>1, <1>9, <1>11
  <2>3. CASE ~Shuts(o, v) /\ ~Backs(o, v)
    BY <2>3, <1>6, <1>7, <1>8, <1>13
  <2> QED
    BY <2>1, <2>2, <2>3
<1>15. \A n \in supersessions' : \E o \in supersessions :
                 /\ SameRow(n, o)
                 /\ Shuts(o, v) => n.valid_to = t
                 /\ Backs(o, v) => n.valid_to = NULL
                 /\ ~Shuts(o, v) /\ ~Backs(o, v) => n.valid_to = o.valid_to
  <2> TAKE n \in supersessions'
  <2>1. CASE \E o \in Shutting : n = Shut(o)
    BY <2>1, <1>6, <1>9, <1>10, <1>11
  <2>2. CASE \E o \in Back : n = Opening(o)
    BY <2>2, <1>7, <1>9, <1>10, <1>11
  <2>3. CASE n \in supersessions /\ n \notin Shutting /\ n \notin Back
    BY <2>3, <1>6, <1>7, <1>13
  <2> QED
    BY <2>1, <2>2, <2>3, <1>8
<1> QED
  BY <1>3, <1>4, <1>5, <1>14, <1>15

(* Where a copy is, without Resolve.                                       *)
LEMMA OnPathByRows ==
    ASSUME OneHop, NEW r \in Rows
    PROVE  OnPath(r) <=>
             \/ item_id[r] \in {NULL, origin[r]}
             \/ \E o \in supersessions : /\ o.valid_to = NULL
                                         /\ o.superseded = origin[r] /\ o.survivor = item_id[r]
BY DEF OnPath, Resolve, OneHop, OpenRows, IsOpen

LEMMA OnPathByRowsNext ==
    ASSUME OneHop', NEW r \in Rows
    PROVE  OnPath(r)' <=>
             \/ item_id'[r] \in {NULL, origin'[r]}
             \/ \E o \in supersessions' : /\ o.valid_to = NULL
                                          /\ o.superseded = origin'[r] /\ o.survivor = item_id'[r]
BY DEF OnPath, Resolve, OneHop, OpenRows, IsOpen

-----------------------------------------------------------------------------
(* A step that keeps every row's key and via, and only adds moves, keeps   *)
(* the copies moved under a compressed row.                                *)
LEMMA MovedStays ==
    ASSUME \A o \in supersessions : \E n \in supersessions' : SameRow(n, o),
           moves \subseteq moves', NEW r, MovedUnderCompressed(r)
    PROVE  MovedUnderCompressed(r)'
BY DEF MovedUnderCompressed, SameRow, KeyOf

(* The merge that opens a row.                                             *)
LEMMA MergeTraced ==
    ASSUME RowsInv, OneHop', Traced, MovesLedgered,
           NEW s \in Items, NEW x \in Items, s # x, NEW t, Fresh(t),
           SurvivorIsCurrent(x), Existing(s) = {},
           supersessions' = Compress(s, x, t),
           UNCHANGED origin,
           \A r \in Rows : item_id'[r] = IF item_id[r] = s THEN x ELSE item_id[r],
           moves' = moves \cup {<<<<s, t>>, r>> : r \in {q \in Rows : item_id[q] = s}}
    PROVE  Traced'
<1>1. /\ s # NULL /\ x # NULL /\ t # NULL
      /\ \A o \in supersessions : /\ o.valid_from # t /\ o.valid_to # t
                                  /\ o.valid_from # NULL /\ o.superseded # o.survivor
      /\ \A o \in supersessions : o.valid_to = NULL => o.superseded # s /\ o.superseded # x
  BY ItemsAssumption DEF Fresh, Stamps, NULL, RowsInv, Supersession, NoSelf, SurvivorIsCurrent,
     Existing, OpenRows, IsOpen
<1>2. \A p, q \in supersessions :
          p.valid_to = NULL /\ q.valid_to = NULL /\ p.superseded = q.superseded => p = q
  BY DEF RowsInv, OneHop, OpenRows, IsOpen
<1>o. \A o \in supersessions : \E n \in supersessions' :
         /\ SameRow(n, o)
         /\ n.valid_to = IF o.valid_to = NULL /\ o.survivor = s THEN t ELSE o.valid_to
  BY MergeShape
<1>n. \A n \in supersessions' :
                 \/ \E o \in supersessions :
                       /\ SameRow(n, o)
                       /\ n.valid_to = IF o.valid_to = NULL /\ o.survivor = s THEN t ELSE o.valid_to
                 \/ /\ n.superseded = s /\ n.survivor = x /\ n.valid_from = t
                    /\ n.valid_to = NULL /\ n.via = NULL
                 \/ /\ n.survivor = x /\ n.valid_from = t /\ n.valid_to = NULL /\ n.via = s
                    /\ \E o \in supersessions : /\ o.valid_to = NULL /\ o.survivor = s
                                                /\ o.superseded = n.superseded
  BY MergeShape
<1>r. \E n \in supersessions' : /\ n.superseded = s /\ n.survivor = x /\ n.valid_from = t
                                /\ n.valid_to = NULL /\ n.via = NULL
  BY MergeShape
<1>c. \A o \in supersessions : o.valid_to = NULL /\ o.survivor = s =>
                 \E n \in supersessions' :
                    /\ n.superseded = o.superseded /\ n.survivor = x /\ n.valid_from = t
                    /\ n.valid_to = NULL /\ n.via = s
  BY MergeShape
<1> SUFFICES ASSUME NEW r \in Rows, ~MovedUnderCompressed(r)'
             PROVE  OnPath(r)' /\ LedgeredNow(r)' /\ LedgeredBefore(r)'
  BY DEF Traced
<1>3. ~MovedUnderCompressed(r)
  BY <1>o, MovedStays
<1>4. OnPath(r) /\ LedgeredNow(r) /\ LedgeredBefore(r)
  BY <1>3 DEF Traced
<1>5. \/ item_id[r] \in {NULL, origin[r]}
      \/ \E o \in supersessions : /\ o.valid_to = NULL
                                  /\ o.superseded = origin[r] /\ o.survivor = item_id[r]
  BY <1>4, OnPathByRows DEF RowsInv
<1>i. /\ item_id'[r] = IF item_id[r] = s THEN x ELSE item_id[r]
      /\ origin'[r] = origin[r]
      /\ item_id[r] = s => <<<<s, t>>, r>> \in moves'
  OBVIOUS
<1>m. /\ \A k : <<k, r>> \in moves => <<k, r>> \in moves'
      /\ \A k : <<k, r>> \in moves' => <<k, r>> \in moves \/ (k = <<s, t>> /\ item_id[r] = s)
  OBVIOUS
<1>6. OnPath(r)'
  <2>1. CASE item_id[r] = s /\ origin[r] = s
    BY <2>1, <1>i, <1>r, OnPathByRowsNext
  <2>2. CASE item_id[r] = s /\ origin[r] # s
    BY <2>2, <1>1, <1>5, <1>i, <1>c, OnPathByRowsNext
  <2>3. CASE item_id[r] # s
    <3>1. CASE item_id[r] \in {NULL, origin[r]}
      BY <2>3, <3>1, <1>i, OnPathByRowsNext
    <3>2. CASE \E o \in supersessions : /\ o.valid_to = NULL
                                        /\ o.superseded = origin[r] /\ o.survivor = item_id[r]
      <4>1. PICK o \in supersessions : /\ o.valid_to = NULL
                                       /\ o.superseded = origin[r] /\ o.survivor = item_id[r]
        BY <3>2
      <4>2. PICK n \in supersessions' : SameRow(n, o) /\ n.valid_to = NULL
        BY <2>3, <4>1, <1>o
      <4> QED
        BY <2>3, <4>1, <4>2, <1>i, OnPathByRowsNext DEF SameRow
    <3> QED
      BY <3>1, <3>2, <1>5
  <2> QED
    BY <2>1, <2>2, <2>3
<1>7. LedgeredNow(r)'
  <2> SUFFICES ASSUME NEW n \in supersessions', n.valid_to = NULL,
                      n.superseded = origin[r], n.survivor = item_id'[r]
               PROVE  <<RootKey(n), r>> \in moves'
    BY <1>i DEF LedgeredNow
  <2>1. ASSUME NEW o \in supersessions, SameRow(n, o), o.valid_to = NULL, o.survivor # s
        PROVE  <<RootKey(n), r>> \in moves'
    <3>1. item_id[r] # s
      BY <2>1, <1>1, <1>2, <1>5, <1>i DEF SameRow
    <3>2. <<RootKey(o), r>> \in moves
      BY <2>1, <3>1, <1>4, <1>i DEF LedgeredNow, SameRow
    <3>3. RootKey(n) = RootKey(o)
      BY <2>1 DEF RootKey, KeyOf, SameRow
    <3> QED
      BY <3>2, <3>3, <1>m
  <2>2. ASSUME n.superseded = s, n.survivor = x, n.valid_from = t, n.via = NULL
        PROVE  <<RootKey(n), r>> \in moves'
    <3>1. item_id[r] = s
      BY <2>2, <1>1, <1>5, <1>i
    <3>2. RootKey(n) = <<s, t>>
      BY <2>2 DEF RootKey, KeyOf
    <3> QED
      BY <3>1, <3>2, <1>i
  <2>3. ASSUME n.survivor = x, n.valid_from = t, n.via = s,
               NEW o \in supersessions, o.valid_to = NULL, o.survivor = s,
               o.superseded = n.superseded
        PROVE  <<RootKey(n), r>> \in moves'
    <3>1. item_id[r] = s
      <4>1. origin[r] # x
        BY <2>3, <1>1
      <4>2. ASSUME NEW q \in supersessions, q.valid_to = NULL, q.superseded = origin[r]
            PROVE  q.survivor = s
        BY <2>3, <4>2, <1>2
      <4> QED
        BY <2>3, <4>1, <4>2, <1>1, <1>5, <1>i
    <3>2. RootKey(n) = <<s, t>>
      BY <2>3, <1>1 DEF RootKey
    <3> QED
      BY <3>1, <3>2, <1>i
  <2> QED
    BY <2>1, <2>2, <2>3, <1>1, <1>n
<1>8. LedgeredBefore(r)'
  <2> SUFFICES ASSUME NEW v \in supersessions', v.via = NULL, <<KeyOf(v), r>> \in moves',
                      v.superseded # origin[r]
               PROVE  /\ \E c \in supersessions' : /\ c.superseded = origin[r]
                                                   /\ c.valid_from = v.valid_from
                                                   /\ c.via = v.superseded
                      /\ \A p \in supersessions' :
                            p.superseded = origin[r] /\ p.valid_to = v.valid_from =>
                                <<RootKey(p), r>> \in moves'
    BY <1>i DEF LedgeredBefore
  <2>1. ASSUME NEW u \in supersessions, SameRow(v, u)
        PROVE  /\ \E c \in supersessions' : /\ c.superseded = origin[r]
                                            /\ c.valid_from = v.valid_from
                                            /\ c.via = v.superseded
               /\ \A p \in supersessions' :
                     p.superseded = origin[r] /\ p.valid_to = v.valid_from =>
                         <<RootKey(p), r>> \in moves'
    <3>1. <<KeyOf(u), r>> \in moves
      BY <2>1, <1>1, <1>m DEF SameRow, KeyOf
    <3>2. /\ \E c \in supersessions : /\ c.superseded = origin[r] /\ c.valid_from = u.valid_from
                                      /\ c.via = u.superseded
          /\ \A p \in supersessions :
                p.superseded = origin[r] /\ p.valid_to = u.valid_from => <<RootKey(p), r>> \in moves
      BY <2>1, <3>1, <1>4 DEF LedgeredBefore, SameRow
    <3>3. \E c \in supersessions' : /\ c.superseded = origin[r] /\ c.valid_from = v.valid_from
                                    /\ c.via = v.superseded
      BY <2>1, <3>2, <1>o DEF SameRow
    <3>4. ASSUME NEW p \in supersessions', p.superseded = origin[r], p.valid_to = v.valid_from
          PROVE  <<RootKey(p), r>> \in moves'
      <4>1. v.valid_from # t /\ v.valid_from # NULL
        BY <2>1, <1>1 DEF SameRow
      <4>2. PICK o \in supersessions : SameRow(p, o) /\ o.valid_to = p.valid_to
        BY <3>4, <4>1, <1>1, <1>n
      <4>3. <<RootKey(o), r>> \in moves
        BY <2>1, <3>2, <3>4, <4>2 DEF SameRow
      <4>4. RootKey(p) = RootKey(o)
        BY <4>2 DEF RootKey, KeyOf, SameRow
      <4> QED
        BY <4>3, <4>4, <1>m
    <3> QED
      BY <3>3, <3>4
  <2>2. ASSUME v.superseded = s, v.valid_from = t
        PROVE  /\ \E c \in supersessions' : /\ c.superseded = origin[r]
                                            /\ c.valid_from = v.valid_from
                                            /\ c.via = v.superseded
               /\ \A p \in supersessions' :
                     p.superseded = origin[r] /\ p.valid_to = v.valid_from =>
                         <<RootKey(p), r>> \in moves'
    <3>1. item_id[r] = s
      <4>1. \A m \in moves : m[1] # <<s, t>>
        BY <1>1 DEF MovesLedgered, KeyOf
      <4>2. <<<<s, t>>, r>> \notin moves
        BY <4>1
      <4> QED
        BY <2>2, <4>2, <1>m DEF KeyOf
    <3>2. PICK o \in supersessions : /\ o.valid_to = NULL
                                     /\ o.superseded = origin[r] /\ o.survivor = s
      BY <2>2, <3>1, <1>1, <1>5
    <3>3. <<RootKey(o), r>> \in moves
      BY <3>1, <3>2, <1>4 DEF LedgeredNow
    <3>4. ASSUME NEW p \in supersessions', p.superseded = origin[r], p.valid_to = t
          PROVE  <<RootKey(p), r>> \in moves'
      <4>1. PICK q \in supersessions : SameRow(p, q) /\ q.valid_to = NULL
        BY <3>4, <1>1, <1>n
      <4>2. q = o
        BY <3>2, <3>4, <4>1, <1>2 DEF SameRow
      <4>3. RootKey(p) = RootKey(o)
        BY <4>1, <4>2 DEF RootKey, KeyOf, SameRow
      <4> QED
        BY <3>3, <4>3, <1>m
    <3> QED
      BY <2>2, <3>2, <3>4, <1>c
  <2> QED
    BY <2>1, <2>2, <1>1, <1>n
<1> QED
  BY <1>6, <1>7, <1>8

(* A merge of a pair that is merged already only moves the copies created  *)
(* since.                                                                  *)
LEMMA RerunTraced ==
    ASSUME RowsInv, Traced, UNCHANGED <<supersessions, origin>>,
           NEW s \in Items, NEW x \in Items, s # x,
           NEW e \in supersessions, e.valid_to = NULL, e.superseded = s, e.survivor = x,
           \A r \in Rows : item_id'[r] = IF item_id[r] = s THEN x ELSE item_id[r],
           moves' = moves \cup {<<KeyOf(e), r>> : r \in {q \in Rows : item_id[q] = s}}
    PROVE  Traced'
<1>1. s # NULL
  BY ItemsAssumption
<1>2. \A p, q \in supersessions : p.valid_to = NULL /\ q.valid_to = NULL =>
          /\ p.survivor # q.superseded
          /\ p.superseded = q.superseded => p = q
  BY DEF RowsInv, OneHop, OpenRows, IsOpen
<1>k. \A p, q \in supersessions : KeyOf(p) = KeyOf(q) => p = q
  BY DEF RowsInv, UniqueKey
<1>h. OneHop /\ OneHop'
  BY DEF RowsInv, OneHop, OpenRows, IsOpen
<1> SUFFICES ASSUME NEW r \in Rows, ~MovedUnderCompressed(r)'
             PROVE  OnPath(r)' /\ LedgeredNow(r)' /\ LedgeredBefore(r)'
  BY DEF Traced
<1>3. ~MovedUnderCompressed(r)
  BY DEF MovedUnderCompressed
<1>4. OnPath(r) /\ LedgeredNow(r) /\ LedgeredBefore(r)
  BY <1>3 DEF Traced
<1>5. \/ item_id[r] \in {NULL, origin[r]}
      \/ \E o \in supersessions : /\ o.valid_to = NULL
                                  /\ o.superseded = origin[r] /\ o.survivor = item_id[r]
  BY <1>4, <1>h, OnPathByRows
<1>m. /\ \A k : <<k, r>> \in moves => <<k, r>> \in moves'
      /\ \A k : <<k, r>> \in moves' => <<k, r>> \in moves \/ (k = KeyOf(e) /\ item_id[r] = s)
  OBVIOUS
<1>6. CASE item_id[r] # s
  <2>1. item_id'[r] = item_id[r]
    BY <1>6
  <2>2. OnPath(r)'
    BY <2>1, <1>5, <1>h, OnPathByRowsNext
  <2>3. LedgeredNow(r)' /\ LedgeredBefore(r)'
    BY <1>6, <2>1, <1>4, <1>m DEF LedgeredNow, LedgeredBefore
  <2> QED
    BY <2>2, <2>3
<1>7. CASE item_id[r] = s
  <2>1. item_id'[r] = x /\ <<KeyOf(e), r>> \in moves'
    BY <1>7
  <2>2. origin[r] = s
    BY <1>7, <1>1, <1>2, <1>5
  <2>3. e.via = NULL
    BY <2>1 DEF MovedUnderCompressed
  <2>4. OnPath(r)'
    BY <2>1, <2>2, <1>h, OnPathByRowsNext
  <2>5. LedgeredNow(r)'
    <3>1. RootKey(e) = KeyOf(e)
      BY <2>3 DEF RootKey
    <3> QED
      BY <2>1, <2>2, <3>1, <1>2 DEF LedgeredNow
  <2>6. LedgeredBefore(r)'
    <3>1. \A v \in supersessions : v.superseded # s => KeyOf(v) # KeyOf(e)
      BY <1>k
    <3> QED
      BY <2>2, <3>1, <1>4, <1>m DEF LedgeredBefore
  <2> QED
    BY <2>4, <2>5, <2>6
<1> QED
  BY <1>6, <1>7

(* A revert takes back exactly the copies its merge ledgered.              *)
LEMMA RevertTraced ==
    ASSUME RowsInv, OneHop', Traced, UNCHANGED <<moves, origin>>,
           NEW v \in supersessions, CanRevert(v), NEW t, Fresh(t),
           supersessions' = Reopen(v, t),
           \A r \in Rows : item_id'[r] = IF <<KeyOf(v), r>> \in moves /\ item_id[r] = v.survivor
                                         THEN v.superseded ELSE item_id[r]
    PROVE  Traced'
<1>1. /\ v.valid_to = NULL /\ v.via = NULL /\ v.superseded # NULL
      /\ \A o \in supersessions : /\ o.valid_from # t /\ o.valid_to # t
                                  /\ o.valid_from # NULL /\ o.superseded # o.survivor
  BY ItemsAssumption DEF CanRevert, IsOpen, Fresh, Stamps, NULL, RowsInv, Supersession, NoSelf
<1>2. \A p, q \in supersessions : p.valid_to = NULL /\ q.valid_to = NULL =>
          /\ p.survivor # q.superseded
          /\ p.superseded = q.superseded => p = q
  BY DEF RowsInv, OneHop, OpenRows, IsOpen
<1>s. \A o \in supersessions : Shuts(o, v) => o.valid_to = NULL /\ o.survivor = v.survivor
  BY RevertShape
<1>d. \A c \in supersessions : c.via = v.superseded /\ c.valid_from = v.valid_from =>
                 \E p \in supersessions : p.superseded = c.superseded /\ Backs(p, v)
  BY RevertShape
<1>o. \A o \in supersessions : \E n \in supersessions' :
                 /\ SameRow(n, o)
                 /\ Shuts(o, v) => n.valid_to = t
                 /\ Backs(o, v) => n.valid_to = NULL
                 /\ ~Shuts(o, v) /\ ~Backs(o, v) => n.valid_to = o.valid_to
  BY RevertShape
<1>n. \A n \in supersessions' : \E o \in supersessions :
                 /\ SameRow(n, o)
                 /\ Shuts(o, v) => n.valid_to = t
                 /\ Backs(o, v) => n.valid_to = NULL
                 /\ ~Shuts(o, v) /\ ~Backs(o, v) => n.valid_to = o.valid_to
  BY RevertShape
<1>t. t # NULL
  BY DEF Fresh, Stamps
<1> SUFFICES ASSUME NEW r \in Rows, ~MovedUnderCompressed(r)'
             PROVE  OnPath(r)' /\ LedgeredNow(r)' /\ LedgeredBefore(r)'
  BY DEF Traced
<1>3. ~MovedUnderCompressed(r)
  BY <1>o, MovedStays
<1>4. OnPath(r) /\ LedgeredNow(r) /\ LedgeredBefore(r)
  BY <1>3 DEF Traced
<1>5. \/ item_id[r] \in {NULL, origin[r]}
      \/ \E o \in supersessions : /\ o.valid_to = NULL
                                  /\ o.superseded = origin[r] /\ o.survivor = item_id[r]
  BY <1>4, OnPathByRows DEF RowsInv
<1> DEFINE Taken == <<KeyOf(v), r>> \in moves /\ item_id[r] = v.survivor
<1>i. /\ Taken => item_id'[r] = v.superseded
      /\ ~Taken => item_id'[r] = item_id[r]
      /\ origin'[r] = origin[r]
  OBVIOUS
<1>l. Taken => <<KeyOf(v), r>> \in moves
  OBVIOUS
(* A copy that came to v's survivor with v's merge is taken back.          *)
<1>6. ASSUME NEW o \in supersessions, Shuts(o, v), o.superseded = origin[r], o.survivor = item_id[r]
      PROVE  Taken
  <2>1. o.valid_to = NULL /\ item_id[r] = v.survivor
    BY <1>6, <1>s
  <2>2. RootKey(o) = KeyOf(v)
    BY <1>6, <1>1 DEF Shuts, RootKey, KeyOf
  <2> QED
    BY <1>6, <2>1, <2>2, <1>4 DEF LedgeredNow
<1> HIDE DEF Taken
<1>7. OnPath(r)'
  <2>1. CASE Taken
    <3>1. CASE origin[r] = v.superseded
      BY <2>1, <3>1, <1>i, OnPathByRowsNext
    <3>2. CASE origin[r] # v.superseded
      <4>1. PICK c \in supersessions : /\ c.superseded = origin[r] /\ c.valid_from = v.valid_from
                                       /\ c.via = v.superseded
        BY <2>1, <3>2, <1>1, <1>4, <1>l DEF LedgeredBefore
      <4>2. PICK p \in supersessions : p.superseded = origin[r] /\ Backs(p, v)
        BY <4>1, <1>d
      <4>3. PICK n \in supersessions' : SameRow(n, p) /\ n.valid_to = NULL
        BY <4>2, <1>o
      <4>4. n.superseded = origin'[r] /\ n.survivor = item_id'[r]
        BY <2>1, <4>2, <4>3, <1>i DEF SameRow, Backs
      <4> QED
        BY <4>3, <4>4, OnPathByRowsNext
    <3> QED
      BY <3>1, <3>2
  <2>2. CASE ~Taken
    <3>1. CASE item_id[r] \in {NULL, origin[r]}
      BY <2>2, <3>1, <1>i, OnPathByRowsNext
    <3>2. ASSUME NEW o \in supersessions, o.valid_to = NULL,
                 o.superseded = origin[r], o.survivor = item_id[r]
          PROVE  OnPath(r)'
      <4>1. ~Shuts(o, v) /\ ~Backs(o, v)
        BY <2>2, <3>2, <1>1, <1>6 DEF Backs
      <4>2. PICK n \in supersessions' : SameRow(n, o) /\ n.valid_to = NULL
        BY <3>2, <4>1, <1>o
      <4> QED
        BY <2>2, <3>2, <4>2, <1>i, OnPathByRowsNext DEF SameRow
    <3> QED
      BY <3>1, <3>2, <1>5
  <2> QED
    BY <2>1, <2>2
<1>8. LedgeredNow(r)'
  <2> SUFFICES ASSUME NEW n \in supersessions', n.valid_to = NULL,
                      n.superseded = origin[r], n.survivor = item_id'[r]
               PROVE  <<RootKey(n), r>> \in moves
    BY <1>i DEF LedgeredNow
  <2>1. PICK o \in supersessions :
                 /\ SameRow(n, o)
                 /\ Shuts(o, v) => n.valid_to = t
                 /\ Backs(o, v) => n.valid_to = NULL
                 /\ ~Shuts(o, v) /\ ~Backs(o, v) => n.valid_to = o.valid_to
    BY <1>n
  <2>2. RootKey(n) = RootKey(o) /\ o.superseded = origin[r] /\ o.survivor = item_id'[r]
    BY <2>1 DEF RootKey, KeyOf, SameRow
  <2>3. ~Shuts(o, v)
    BY <2>1, <1>t
  <2>4. CASE Backs(o, v) /\ Taken
    <3>1. v.superseded # origin[r]
      BY <2>2, <2>4, <1>1 DEF Backs
    <3> QED
      BY <2>2, <2>4, <3>1, <1>1, <1>4, <1>l DEF LedgeredBefore, Backs
  <2>5. CASE Backs(o, v) /\ ~Taken
    <3>1. item_id[r] = v.superseded
      BY <2>2, <2>5, <1>i DEF Backs
    <3>2. origin[r] # v.superseded
      BY <2>2, <2>5, <1>1 DEF Backs
    <3> QED
      BY <3>1, <3>2, <1>1, <1>2, <1>5
  <2>6. CASE ~Backs(o, v)
    <3>1. o.valid_to = NULL
      BY <2>1, <2>3, <2>6
    <3>2. ~Taken
      BY <2>2, <3>1, <1>1, <1>2, <1>i
    <3> QED
      BY <2>2, <3>1, <3>2, <1>4, <1>i DEF LedgeredNow
  <2> QED
    BY <2>4, <2>5, <2>6
<1>9. LedgeredBefore(r)'
  <2> SUFFICES ASSUME NEW w \in supersessions', w.via = NULL, <<KeyOf(w), r>> \in moves,
                      w.superseded # origin[r]
               PROVE  /\ \E c \in supersessions' : /\ c.superseded = origin[r]
                                                   /\ c.valid_from = w.valid_from
                                                   /\ c.via = w.superseded
                      /\ \A p \in supersessions' :
                            p.superseded = origin[r] /\ p.valid_to = w.valid_from =>
                                <<RootKey(p), r>> \in moves
    BY <1>i DEF LedgeredBefore
  <2>1. PICK u \in supersessions : SameRow(w, u)
    BY <1>n
  <2>2. /\ \E c \in supersessions : /\ c.superseded = origin[r] /\ c.valid_from = u.valid_from
                                    /\ c.via = u.superseded
        /\ \A p \in supersessions :
              p.superseded = origin[r] /\ p.valid_to = u.valid_from => <<RootKey(p), r>> \in moves
    BY <2>1, <1>4 DEF LedgeredBefore, SameRow, KeyOf
  <2>3. \E c \in supersessions' : /\ c.superseded = origin[r] /\ c.valid_from = w.valid_from
                                  /\ c.via = w.superseded
    BY <2>1, <2>2, <1>o DEF SameRow
  <2>4. ASSUME NEW p \in supersessions', p.superseded = origin[r], p.valid_to = w.valid_from
        PROVE  <<RootKey(p), r>> \in moves
    <3>1. w.valid_from # t /\ w.valid_from # NULL
      BY <2>1, <1>1 DEF SameRow
    <3>2. PICK o \in supersessions : SameRow(p, o) /\ o.valid_to = p.valid_to
      BY <2>4, <3>1, <1>n
    <3>3. RootKey(p) = RootKey(o)
      BY <3>2 DEF RootKey, KeyOf, SameRow
    <3> QED
      BY <2>1, <2>2, <2>4, <3>2, <3>3 DEF SameRow
  <2> QED
    BY <2>3, <2>4
<1> QED
  BY <1>7, <1>8, <1>9

-----------------------------------------------------------------------------
(* A merge records who resolves to the superseded item, and no later merge *)
(* adds to what it compressed.                                             *)
LEMMA MergeRecordsClass ==
    ASSUME RowsInv, ClassesRecorded,
           NEW s \in Items, NEW x \in Items, NEW t, Fresh(t), Existing(s) = {},
           supersessions' = Compress(s, x, t),
           classes' = classes \cup {<<<<s, t>>, {i \in Items : Resolve(i) = s}>>}
    PROVE  ClassesRecorded'
<1>1. /\ s # NULL
      /\ \A o \in supersessions : /\ o.valid_from # t
                                  /\ o.valid_to = NULL => o.superseded # s
  BY ItemsAssumption DEF Fresh, Existing, OpenRows, IsOpen
<1>o. \A o \in supersessions : \E n \in supersessions' : SameRow(n, o)
  BY MergeShape
<1>n. \A n \in supersessions' :
                 \/ \E o \in supersessions : SameRow(n, o)
                 \/ n.superseded = s /\ n.valid_from = t /\ n.via = NULL
                 \/ /\ n.valid_from = t /\ n.via = s
                    /\ \E o \in supersessions : /\ o.valid_to = NULL /\ o.survivor = s
                                                /\ o.superseded = n.superseded
  BY MergeShape
<1>r. \E n \in supersessions' : n.superseded = s /\ n.valid_from = t
  BY MergeShape
<1>c. \A o \in supersessions : o.valid_to = NULL /\ o.survivor = s =>
                 \E n \in supersessions' :
                    n.superseded = o.superseded /\ n.valid_from = t /\ n.via = s
  BY MergeShape
<1> SUFFICES ASSUME NEW c \in classes'
             PROVE  /\ \E v \in supersessions' : KeyOf(v) = c[1]
                    /\ \A i \in Items :
                          i \in c[2] <=> \/ i = c[1][1]
                                         \/ \E d \in supersessions' : /\ d.superseded = i
                                                                      /\ d.valid_from = c[1][2]
                                                                      /\ d.via = c[1][1]
  BY DEF ClassesRecorded
<1>2. CASE c \in classes
  <2>1. PICK v \in supersessions : KeyOf(v) = c[1]
    BY <1>2 DEF ClassesRecorded
  <2>2. c[1][2] # t
    BY <2>1, <1>1 DEF KeyOf
  <2>3. \A i \in Items :
           (\E d \in supersessions' : /\ d.superseded = i /\ d.valid_from = c[1][2]
                                      /\ d.via = c[1][1])
           <=> (\E d \in supersessions : /\ d.superseded = i /\ d.valid_from = c[1][2]
                                         /\ d.via = c[1][1])
    BY <2>2, <1>o, <1>n DEF SameRow
  <2>4. \E n \in supersessions' : KeyOf(n) = c[1]
    BY <2>1, <1>o DEF SameRow, KeyOf
  <2>5. \A i \in Items :
           i \in c[2] <=> \/ i = c[1][1]
                          \/ \E d \in supersessions : /\ d.superseded = i
                                                      /\ d.valid_from = c[1][2]
                                                      /\ d.via = c[1][1]
    BY <1>2 DEF ClassesRecorded
  <2> QED
    BY <2>3, <2>4, <2>5
<1>3. CASE c = <<<<s, t>>, {i \in Items : Resolve(i) = s}>>
  <2>1. /\ \A i \in Items : i \in c[2] <=> Resolve(i) = s
        /\ c[1][1] = s /\ c[1][2] = t /\ c[1] = <<s, t>>
    BY <1>3
  <2>2. \E n \in supersessions' : KeyOf(n) = c[1]
    BY <2>1, <1>r DEF KeyOf
  <2>3. \A i \in Items : Resolve(i) = s <=>
           \/ i = s
           \/ \E o \in supersessions : o.valid_to = NULL /\ o.superseded = i /\ o.survivor = s
    <3>1. OneHop
      BY DEF RowsInv
    <3> QED
      BY <3>1, <1>1 DEF Resolve, OneHop, OpenRows, IsOpen
  <2>4. \A i \in Items :
           (\E o \in supersessions : o.valid_to = NULL /\ o.superseded = i /\ o.survivor = s)
           <=> (\E d \in supersessions' : d.superseded = i /\ d.valid_from = t /\ d.via = s)
    BY <1>1, <1>n, <1>c DEF SameRow
  <2> QED
    BY <2>1, <2>2, <2>3, <2>4
<1> QED
  BY <1>2, <1>3

(* The rows a step keeps, and the classes it leaves alone.                 *)
LEMMA ClassesStay ==
    ASSUME ClassesRecorded, UNCHANGED classes,
           \A o \in supersessions : \E n \in supersessions' : SameRow(n, o),
           \A n \in supersessions' : \E o \in supersessions : SameRow(n, o)
    PROVE  ClassesRecorded'
<1> SUFFICES ASSUME NEW c \in classes
             PROVE  /\ \E v \in supersessions' : KeyOf(v) = c[1]
                    /\ \A i \in Items :
                          i \in c[2] <=> \/ i = c[1][1]
                                         \/ \E d \in supersessions' : /\ d.superseded = i
                                                                      /\ d.valid_from = c[1][2]
                                                                      /\ d.via = c[1][1]
  BY DEF ClassesRecorded
<1>1. /\ \E v \in supersessions : KeyOf(v) = c[1]
      /\ \A i \in Items :
            i \in c[2] <=> \/ i = c[1][1]
                           \/ \E d \in supersessions : /\ d.superseded = i
                                                       /\ d.valid_from = c[1][2]
                                                       /\ d.via = c[1][1]
  BY DEF ClassesRecorded
<1>2. \E v \in supersessions' : KeyOf(v) = c[1]
  BY <1>1 DEF SameRow, KeyOf
<1>3. \A i \in Items :
           (\E d \in supersessions' : /\ d.superseded = i /\ d.valid_from = c[1][2]
                                      /\ d.via = c[1][1])
           <=> (\E d \in supersessions : /\ d.superseded = i /\ d.valid_from = c[1][2]
                                         /\ d.via = c[1][1])
  BY DEF SameRow
<1> QED
  BY <1>1, <1>2, <1>3

(* A step that only moves copies off items, and ledgers each one it moves. *)
LEMMA UncreatedStays ==
    ASSUME TypeOK, TxnShape, Uncreated, UNCHANGED origin,
           \A r \in Rows : item_id'[r] = NULL <=> item_id[r] = NULL,
           \A m \in moves' : m \in moves \/ item_id[m[2]] # NULL,
           \A w \in Txns : txn'[w].op = "insert" => txn'[w] = txn[w]
    PROVE  Uncreated'
BY DEF Uncreated, TxnShape

LEMMA InitHistory == Init => HistoryInv
<1> SUFFICES ASSUME Init PROVE HistoryInv
  OBVIOUS
<1>1. Traced
  BY DEF Init, Traced, OnPath, LedgeredNow, LedgeredBefore
<1>2. Uncreated
  BY IdleTyped DEF Init, Uncreated
<1> QED
  BY <1>1, <1>2 DEF Init, HistoryInv, MovesLedgered, ClassesRecorded

LEMMA MergeHistory ==
    ASSUME ChainInv, HistoryInv, ChainInv', NEW w \in Txns, MergeItems(w)
    PROVE  HistoryInv'
<1> DEFINE s == txn[w].superseded
           x == txn[w].survivor
           t == txn[w].stamp
           sup == IF Existing(s) = {} THEN <<s, t>> ELSE KeyOf(CHOOSE o \in Existing(s) : TRUE)
           moved == {r \in Rows : item_id[r] = s}
<1>1. RowsInv /\ RowsInv' /\ TypeOK /\ StampsFresh /\ TxnShape
  BY RowsInvOfChainInv, PTL DEF ChainInv
<1>2. /\ s \in Items /\ x \in Items /\ s # x /\ s # NULL /\ x # NULL
      /\ Fresh(t)
  BY <1>1, ItemsAssumption DEF MergeItems, HoldsAll, TxnShape, StampsFresh, TypeOK, Txn, Fresh, Stamps
<1>3. /\ CanMerge(s, x)
      /\ item_id' = [r \in Rows |-> IF r \in moved THEN x ELSE item_id[r]]
      /\ moves' = moves \cup {<<sup, r>> : r \in moved}
      /\ EndTxn(w)
      /\ UNCHANGED origin
  BY DEF MergeItems
<1>4. \A r \in Rows : item_id'[r] = IF item_id[r] = s THEN x ELSE item_id[r]
  BY <1>3
<1>5. Uncreated'
  <2>1. \A v \in Txns : txn'[v].op = "insert" => txn'[v] = txn[v]
    BY <1>1, <1>3, IdleTyped DEF EndTxn, TypeOK
  <2>2. \A m \in moves' : m \in moves \/ item_id[m[2]] # NULL
    BY <1>2, <1>3
  <2> QED
    BY <1>1, <1>2, <1>3, <1>4, <2>1, <2>2, UncreatedStays DEF HistoryInv
<1>6. CASE Existing(s) = {}
  <2>1. /\ supersessions' = Compress(s, x, t)
        /\ classes' = classes \cup {<<<<s, t>>, {i \in Items : Resolve(i) = s}>>}
        /\ sup = <<s, t>> /\ SurvivorIsCurrent(x)
    BY <1>3, <1>6 DEF MergeItems, CanMerge
  <2>2. moves' = moves \cup {<<<<s, t>>, r>> : r \in {q \in Rows : item_id[q] = s}}
    BY <1>3, <2>1
  <2>3. OneHop'
    BY <1>1 DEF RowsInv
  <2> HIDE DEF s, x, t, sup, moved
  <2>4. Traced'
    BY <1>1, <1>2, <1>3, <1>4, <1>6, <2>1, <2>2, <2>3, MergeTraced DEF HistoryInv
  <2>5. ClassesRecorded'
    BY <1>1, <1>2, <1>6, <2>1, MergeRecordsClass DEF HistoryInv
  <2>6. MovesLedgered'
    <3>1. \A o \in supersessions : \E n \in supersessions' : SameRow(n, o)
      BY <1>1, <1>2, <2>1, MergeShape
    <3>2. \E n \in supersessions' : n.superseded = s /\ n.valid_from = t
      BY <1>1, <1>2, <2>1, MergeShape
    <3> QED
      BY <2>2, <3>1, <3>2 DEF HistoryInv, MovesLedgered, SameRow, KeyOf
  <2> QED
    BY <1>5, <2>4, <2>5, <2>6 DEF HistoryInv
<1>7. CASE Existing(s) # {}
  <2>1. UNCHANGED <<supersessions, classes>>
    BY <1>7 DEF MergeItems
  <2>2. PICK e \in Existing(s) : sup = KeyOf(e)
    BY <1>7
  <2>3. /\ e \in supersessions /\ e.valid_to = NULL /\ e.superseded = s /\ e.survivor = x
    BY <1>3, <2>2 DEF Existing, OpenRows, IsOpen, CanMerge
  <2>4. moves' = moves \cup {<<KeyOf(e), r>> : r \in {q \in Rows : item_id[q] = s}}
    BY <1>3, <2>2
  <2> HIDE DEF s, x, t, sup, moved
  <2>5. Traced'
    BY <1>1, <1>2, <1>3, <1>4, <2>1, <2>3, <2>4, RerunTraced DEF HistoryInv
  <2>6. ClassesRecorded' /\ MovesLedgered'
    BY <2>1, <2>3, <2>4 DEF HistoryInv, ClassesRecorded, MovesLedgered
  <2> QED
    BY <1>5, <2>5, <2>6 DEF HistoryInv
<1> QED
  BY <1>6, <1>7

LEMMA RevertHistory ==
    ASSUME ChainInv, HistoryInv, ChainInv', NEW w \in Txns, RevertSupersession(w)
    PROVE  HistoryInv'
<1> DEFINE v == Target(w)
           t == txn[w].stamp
           ledgered == {r \in Rows : <<KeyOf(v), r>> \in moves /\ item_id[r] = v.survivor}
<1>1. RowsInv /\ RowsInv' /\ TypeOK /\ StampsFresh /\ TxnShape
  BY RowsInvOfChainInv, PTL DEF ChainInv
<1>2. /\ v \in supersessions /\ Fresh(t)
      /\ v.superseded # NULL /\ v.survivor # NULL
  <2>1. txn[w].op = "revert"
    BY DEF RevertSupersession, HoldsAll
  <2>2. v \in supersessions
    BY <2>1, <1>1 DEF TxnShape, Target
  <2>3. Fresh(t)
    BY <2>1, <1>1 DEF StampsFresh, TypeOK, Txn, Fresh, Stamps
  <2> QED
    BY <2>2, <2>3, <1>1, ItemsAssumption DEF RowsInv, Supersession
<1>3. /\ CanRevert(v)
      /\ supersessions' = Reopen(v, t)
      /\ item_id' = [r \in Rows |-> IF r \in ledgered THEN v.superseded ELSE item_id[r]]
      /\ EndTxn(w)
      /\ UNCHANGED <<moves, origin, classes>>
  BY DEF RevertSupersession
<1>4. \A r \in Rows : item_id'[r] = IF <<KeyOf(v), r>> \in moves /\ item_id[r] = v.survivor
                                     THEN v.superseded ELSE item_id[r]
  BY <1>3
<1>5. \A a \in Txns : txn'[a].op = "insert" => txn'[a] = txn[a]
  BY <1>1, <1>3, IdleTyped DEF EndTxn, TypeOK
<1>6. OneHop'
  BY <1>1 DEF RowsInv
<1> HIDE DEF v, t, ledgered
<1>7. Uncreated'
  BY <1>1, <1>2, <1>3, <1>4, <1>5, UncreatedStays DEF HistoryInv
<1>8. Traced'
  BY <1>1, <1>2, <1>3, <1>4, <1>6, RevertTraced DEF HistoryInv
<1>9. /\ \A o \in supersessions : \E n \in supersessions' : SameRow(n, o)
      /\ \A n \in supersessions' : \E o \in supersessions : SameRow(n, o)
  BY <1>1, <1>2, <1>3, RevertShape
<1>10. ClassesRecorded'
  BY <1>3, <1>9, ClassesStay DEF HistoryInv
<1>11. MovesLedgered'
  BY <1>3, <1>9 DEF HistoryInv, MovesLedgered, SameRow, KeyOf
<1> QED
  BY <1>7, <1>8, <1>10, <1>11 DEF HistoryInv

LEMMA InsertHistory ==
    ASSUME ChainInv, HistoryInv, ChainInv', NEW w \in Txns, CommitInsert(w)
    PROVE  HistoryInv'
<1> DEFINE q == txn[w].row
           i == txn[w].superseded
<1>1. RowsInv /\ RowsInv' /\ TypeOK /\ TxnShape
  BY RowsInvOfChainInv, PTL DEF ChainInv
<1>2. /\ txn[w].op = "insert" /\ q \in Rows /\ i \in Items /\ i # NULL
      /\ item_id' = [item_id EXCEPT ![q] = i] /\ origin' = [origin EXCEPT ![q] = i]
      /\ EndTxn(w) /\ UNCHANGED <<supersessions, moves, classes>>
  BY <1>1, ItemsAssumption DEF CommitInsert, HoldsAll, TxnShape
<1>3. item_id[q] = NULL /\ (\A m \in moves : m[2] # q)
  BY <1>2 DEF HistoryInv, Uncreated
<1>4. /\ item_id'[q] = i /\ origin'[q] = i
      /\ \A r \in Rows : r # q => item_id'[r] = item_id[r] /\ origin'[r] = origin[r]
  BY <1>1, <1>2 DEF TypeOK
<1>5. OneHop /\ OneHop'
  BY <1>1 DEF RowsInv
<1>6. Traced'
  <2> SUFFICES ASSUME NEW r \in Rows, ~MovedUnderCompressed(r)'
               PROVE  OnPath(r)' /\ LedgeredNow(r)' /\ LedgeredBefore(r)'
    BY DEF Traced
  <2>1. CASE r = q
    <3>1. OnPath(r)'
      BY <2>1, <1>4, <1>5, OnPathByRowsNext
    <3>2. LedgeredNow(r)'
      BY <2>1, <1>1, <1>2, <1>4 DEF LedgeredNow, RowsInv, NoSelf
    <3>3. \A k : <<k, r>> \notin moves
      BY <2>1, <1>3
    <3>4. LedgeredBefore(r)'
      BY <1>2, <3>3 DEF LedgeredBefore
    <3> QED
      BY <3>1, <3>2, <3>4
  <2>2. CASE r # q
    <3>1. ~MovedUnderCompressed(r)
      BY <1>2 DEF MovedUnderCompressed
    <3>2. OnPath(r) /\ LedgeredNow(r) /\ LedgeredBefore(r)
      BY <3>1 DEF HistoryInv, Traced
    <3>3. OnPath(r)'
      BY <2>2, <3>2, <1>2, <1>4, <1>5, OnPathByRows, OnPathByRowsNext
    <3> QED
      BY <2>2, <3>2, <3>3, <1>2, <1>4 DEF LedgeredNow, LedgeredBefore
  <2> QED
    BY <2>1, <2>2
<1>7. Uncreated'
  <2>1. \A v \in Txns : txn'[v].op = "insert" => v # w /\ txn'[v] = txn[v]
    BY <1>1, <1>2, IdleTyped DEF EndTxn, TypeOK
  <2>2. \A v \in Txns : v # w /\ txn[v].op = "insert" => txn[v].row # q /\ txn[v].row \in Rows
    BY <1>1, <1>2 DEF HistoryInv, Uncreated, TxnShape
  <2>3. \A r \in Rows : item_id'[r] = NULL => origin'[r] = NULL /\ \A m \in moves : m[2] # r
    BY <1>2, <1>4 DEF HistoryInv, Uncreated
  <2>4. \A v \in Txns : txn'[v].op = "insert" => item_id'[txn'[v].row] = NULL
    BY <2>1, <2>2, <1>4 DEF HistoryInv, Uncreated
  <2>5. \A u, v \in Txns : txn'[u].op = "insert" /\ v # u /\ txn'[v].op = "insert" =>
           txn'[v].row # txn'[u].row
    BY <2>1 DEF HistoryInv, Uncreated
  <2> QED
    BY <2>3, <2>4, <2>5, <1>2 DEF Uncreated
<1>8. ClassesRecorded' /\ MovesLedgered'
  BY <1>2 DEF HistoryInv, ClassesRecorded, MovesLedgered
<1> QED
  BY <1>6, <1>7, <1>8 DEF HistoryInv

(* The other steps write neither rows, nor copies, nor moves.              *)
LEMMA QuietHistory ==
    ASSUME HistoryInv, Uncreated', UNCHANGED <<supersessions, item_id, moves, origin, classes>>
    PROVE  HistoryInv'
<1>3. Traced'
  <2> SUFFICES ASSUME NEW r \in Rows, ~MovedUnderCompressed(r)'
               PROVE  OnPath(r)' /\ LedgeredNow(r)' /\ LedgeredBefore(r)'
    BY DEF Traced
  <2>1. ~MovedUnderCompressed(r)
    BY DEF MovedUnderCompressed, KeyOf
  <2>2. OnPath(r) /\ LedgeredNow(r) /\ LedgeredBefore(r)
    BY <2>1 DEF HistoryInv, Traced
  <2>3. OnPath(r)'
    BY <2>2 DEF OnPath, Resolve, OpenRows, IsOpen
  <2>4. LedgeredNow(r)'
    BY <2>2 DEF LedgeredNow, RootKey, KeyOf
  <2>5. LedgeredBefore(r)'
    BY <2>2 DEF LedgeredBefore, RootKey, KeyOf
  <2> QED
    BY <2>3, <2>4, <2>5
<1>4. MovesLedgered' /\ ClassesRecorded'
  BY DEF HistoryInv, MovesLedgered, ClassesRecorded, KeyOf
<1> QED
  BY <1>3, <1>4 DEF HistoryInv

LEMMA StepHistory ==
    ASSUME ChainInv, ChainInv', HistoryInv, [Next]_vars
    PROVE  HistoryInv'
<1>t. TypeOK /\ TxnShape /\ Uncreated
  BY DEF ChainInv, HistoryInv
<1>1. ASSUME NEW w \in Txns, MergeItems(w) PROVE HistoryInv'
  BY <1>1, MergeHistory
<1>2. ASSUME NEW w \in Txns, RevertSupersession(w) PROVE HistoryInv'
  BY <1>2, RevertHistory
<1>3. ASSUME NEW w \in Txns, CommitInsert(w) PROVE HistoryInv'
  BY <1>3, InsertHistory
<1>4. ASSUME NEW w \in Txns, NEW r \in Rows, NEW i \in Items, BeginInsert(w, r, i)
      PROVE  HistoryInv'
  <2>1. /\ txn'[w].op = "insert" /\ txn'[w].row = r
        /\ \A v \in Txns : v # w => txn'[v] = txn[v]
    BY <1>4, <1>t DEF BeginInsert, Session, TypeOK
  <2>2. /\ item_id[r] = NULL
        /\ \A v \in Txns : ~(txn[v].op = "insert" /\ txn[v].row = r)
        /\ UNCHANGED <<supersessions, item_id, moves, origin, classes>>
    BY <1>4 DEF BeginInsert
  <2>3. Uncreated'
    BY <2>1, <2>2, <1>t DEF Uncreated
  <2> QED
    BY <2>2, <2>3, QuietHistory
<1>5. ASSUME NEW w \in Txns,
             \/ \E s, x \in Items : BeginMerge(w, s, x)
             \/ \E s \in supersessions : BeginRevert(w, s)
             \/ Lock(w)
             \/ Rollback(w)
      PROVE  HistoryInv'
  <2>1. UNCHANGED <<supersessions, item_id, moves, origin, classes>>
    BY <1>5 DEF BeginMerge, BeginRevert, Lock, Rollback
  <2>2. /\ \A v \in Txns : v # w => txn'[v] = txn[v]
        /\ txn'[w].op = "insert" => txn[w].op = "insert" /\ txn'[w].row = txn[w].row
    BY <1>5, <1>t, IdleTyped DEF BeginMerge, BeginRevert, Lock, Rollback, EndTxn, Session, TypeOK, Txn
  <2>3. Uncreated'
    BY <2>1, <2>2, <1>t DEF Uncreated
  <2> QED
    BY <2>1, <2>3, QuietHistory
<1>6. CASE UNCHANGED <<supersessions, item_id, moves, origin, classes, txn>>
  BY <1>6, <1>t, QuietHistory DEF Uncreated
<1>7. ASSUME NEW c \in Caches, CacheStep(c) PROVE HistoryInv'
  BY <1>7, <1>6, CacheStepTyped DEF ChainInv
<1> QED
  BY <1>1, <1>2, <1>3, <1>4, <1>5, <1>6, <1>7 DEF Next, vars, CacheStep

(* A copy is always found where its history says, for any merges, re-runs, *)
(* chain compressions and reverts, in any interleaving: on the item it was *)
(* created against or on the one that item resolves to, unless a re-run    *)
(* moved it under a compressed row (move_dependents, the ledger of         *)
(* catalog_item_moves and revert_supersession).                            *)
THEOREM HistoryInvariant == Spec => []HistoryInv
<1>1. ChainInv /\ ChainInv' /\ HistoryInv /\ [Next]_vars => HistoryInv'
  BY StepHistory
<1> QED
  BY <1>1, InitHistory, ChainInvariant, PTL DEF Spec

(* A copy is on the item it was created against or on the one that item    *)
(* resolves to, whatever merged and was reverted meanwhile, unless a re-run*)
(* ledgered its move under a compressed row (merge_items).                 *)
THEOREM CopiesFollow == Spec => []DependentsFollow
<1>1. HistoryInv => DependentsFollow
  BY DEF HistoryInv, Traced, DependentsFollow
<1> QED
  BY <1>1, HistoryInvariant, PTL

-----------------------------------------------------------------------------
(* Only a merge and a revert write supersession rows.                      *)
LEMMA RowsWrittenBy ==
    ASSUME [Next]_vars
    PROVE  \/ UNCHANGED supersessions
           \/ \E w \in Txns : MergeItems(w) \/ RevertSupersession(w)
BY DEF Next, vars, ReadAlias, WriteCache, LoseWrite, BeginMerge, BeginRevert, BeginInsert, Lock, CommitInsert, Rollback

LEMMA RevertKeys ==
    ASSUME ChainInv, NEW w \in Txns, RevertSupersession(w)
    PROVE  /\ Target(w) \in supersessions /\ CanRevert(Target(w)) /\ Fresh(txn[w].stamp)
           /\ supersessions' = Reopen(Target(w), txn[w].stamp)
<1>1. txn[w].op = "revert" /\ TxnShape /\ StampsFresh /\ TypeOK
  BY DEF RevertSupersession, HoldsAll, ChainInv
<1>2. Target(w) \in supersessions
  BY <1>1 DEF TxnShape, Target
<1>3. Fresh(txn[w].stamp)
  BY <1>1 DEF StampsFresh, TypeOK, Txn, Fresh, Stamps
<1> QED
  BY <1>2, <1>3 DEF RevertSupersession

(* "the target's row is locked FOR UPDATE": when a supersession opens, no  *)
(* copy of the superseded item is left behind and none is being created.   *)
THEOREM NothingLeftBehind == Spec => NoDependentLeftBehind
<1>1. TypeOK /\ LocksInv /\ [Next]_vars => LocksInv'
  BY StepLocks
<1>2. ASSUME ChainInv, LocksInv, [Next]_vars
      PROVE  [\A v \in supersessions' :
                KeyOf(v) \notin {KeyOf(u) : u \in supersessions} /\ v.via = NULL
                => /\ \A r \in Rows : item_id'[r] # v.superseded
                   /\ \A w \in Txns : ~(/\ txn'[w].op = "insert"
                                        /\ v.superseded \in txn'[w].locked)]_vars
  <2>1. ASSUME NEW v \in supersessions',
               KeyOf(v) \notin {KeyOf(u) : u \in supersessions}, v.via = NULL
        PROVE  /\ \A r \in Rows : item_id'[r] # v.superseded
               /\ \A w \in Txns : ~(/\ txn'[w].op = "insert"
                                    /\ v.superseded \in txn'[w].locked)
    <3>1. supersessions' # supersessions
      BY <2>1
    <3>2. ASSUME NEW w \in Txns, RevertSupersession(w) PROVE FALSE
      <4>1. \A n \in supersessions' : \E o \in supersessions : SameRow(n, o)
        BY <1>2, <3>2, RowsInvOfChainInv, RevertKeys, RevertShape
      <4> QED
        BY <2>1, <4>1 DEF SameRow, KeyOf
    <3>3. PICK w \in Txns : MergeItems(w)
      BY <1>2, <3>1, <3>2, RowsWrittenBy
    <3> QED
      BY <1>2, <2>1, <3>3, MergeLeavesNothing
  <2> QED
    BY <2>1
<1> QED
  BY <1>1, <1>2, InitLocks, TypeCorrect, ChainInvariant, PTL DEF Spec, NoDependentLeftBehind

-----------------------------------------------------------------------------
(* A class is given back.                                                  *)

(* The row of a merge closes for good, and the item is current again, only *)
(* in a revert of that row.                                                *)
LEMMA ClosedByItsRevert ==
    ASSUME ChainInv, [Next]_vars,
           NEW v \in supersessions, v.valid_to = NULL, v.via = NULL,
           NEW n \in supersessions', KeyOf(n) = KeyOf(v), n.valid_to # NULL,
           \A m \in supersessions' : m.superseded = v.superseded => m.valid_to # NULL
    PROVE  \E t : /\ Fresh(t) /\ CanRevert(v)
                  /\ supersessions' = Reopen(v, t)
<1>1. RowsInv /\ TypeOK /\ StampsFresh /\ TxnShape
  BY RowsInvOfChainInv DEF ChainInv
<1>2. \A p, q \in supersessions : KeyOf(p) = KeyOf(q) => p = q
  BY <1>1 DEF RowsInv, UniqueKey
<1>3. supersessions' # supersessions
  BY <1>2
<1>4. ASSUME NEW w \in Txns, MergeItems(w) PROVE FALSE
  <2> DEFINE s == txn[w].superseded
             x == txn[w].survivor
             t == txn[w].stamp
  <2>1. s \in Items /\ x \in Items /\ Fresh(t)
    BY <1>1, <1>4 DEF MergeItems, HoldsAll, TxnShape, StampsFresh, TypeOK, Txn, Fresh, Stamps
  <2>2. supersessions' = Compress(s, x, t)
    BY <1>3, <1>4 DEF MergeItems
  <2> HIDE DEF s, x, t
  <2>3. PICK o \in supersessions :
          /\ SameRow(n, o)
          /\ n.valid_to = IF o.valid_to = NULL /\ o.survivor = s THEN t ELSE o.valid_to
    BY <1>1, <2>1, <2>2, MergeShape
  <2>4. o = v
    BY <1>2, <2>3 DEF SameRow, KeyOf
  <2>5. v.survivor = s
    BY <2>3, <2>4
  <2>6. \E m \in supersessions' : m.superseded = v.superseded /\ m.valid_to = NULL
    BY <1>1, <2>1, <2>2, <2>5, MergeShape
  <2> QED
    BY <2>6
<1>5. PICK w \in Txns : RevertSupersession(w)
  BY <1>3, <1>4, RowsWrittenBy
<1>6. PICK u, t : /\ u = Target(w) /\ t = txn[w].stamp
                  /\ u \in supersessions /\ CanRevert(u) /\ Fresh(t)
                  /\ supersessions' = Reopen(u, t)
  BY <1>5, RevertKeys
<1>7. PICK o \in supersessions :
        /\ SameRow(n, o)
        /\ Shuts(o, u) => n.valid_to = t
        /\ Backs(o, u) => n.valid_to = NULL
        /\ ~Shuts(o, u) /\ ~Backs(o, u) => n.valid_to = o.valid_to
  BY <1>1, <1>6, RevertShape
<1>8. o = v
  BY <1>2, <1>7 DEF SameRow, KeyOf
<1>9. Shuts(v, u)
  BY <1>7, <1>8
<1>10. u.superseded # NULL
  BY <1>1, <1>6, ItemsAssumption DEF RowsInv, Supersession
<1>11. v = u
  BY <1>9, <1>10 DEF Shuts
<1> QED
  BY <1>6, <1>11

LEMMA RevertGivesBack ==
    ASSUME RowsInv, OneHop', ClassesRecorded,
           NEW c \in classes, c[2] \subseteq Items,
           NEW v \in supersessions, KeyOf(v) = c[1], CanRevert(v), NEW t, Fresh(t),
           supersessions' = Reopen(v, t),
           \A m \in supersessions' : m.superseded = v.superseded => m.valid_to # NULL
    PROVE  {i \in Items : Resolve(i)' = c[1][1]} = c[2]
<1>1. c[1][1] = v.superseded /\ c[1][2] = v.valid_from
  BY DEF KeyOf
<1>2. \A i \in Items :
         i \in c[2] <=> \/ i = v.superseded
                        \/ \E d \in supersessions : /\ d.superseded = i
                                                    /\ d.valid_from = v.valid_from
                                                    /\ d.via = v.superseded
  BY <1>1 DEF ClassesRecorded
<1>3. \A i \in Items : Resolve(i)' = v.superseded <=>
         \/ i = v.superseded
         \/ \E m \in supersessions' : /\ m.valid_to = NULL /\ m.superseded = i
                                      /\ m.survivor = v.superseded
  BY DEF Resolve, OneHop, OpenRows, IsOpen
<1>4. v.valid_to = NULL /\ \A p, q \in supersessions :
          p.valid_to = NULL /\ q.valid_to = NULL => p.survivor # q.superseded
  BY DEF CanRevert, IsOpen, RowsInv, OneHop, OpenRows
<1>5. t # NULL
  BY DEF Fresh, Stamps
<1>6. ASSUME NEW i \in Items, NEW m \in supersessions',
             m.valid_to = NULL, m.superseded = i, m.survivor = v.superseded
      PROVE  \E d \in supersessions : /\ d.superseded = i /\ d.valid_from = v.valid_from
                                      /\ d.via = v.superseded
  <2>1. PICK o \in supersessions :
          /\ SameRow(m, o)
          /\ Shuts(o, v) => m.valid_to = t
          /\ ~Shuts(o, v) /\ ~Backs(o, v) => m.valid_to = o.valid_to
    BY RevertShape
  <2>2. Backs(o, v)
    BY <1>4, <1>5, <1>6, <2>1 DEF SameRow
  <2>3. \E d \in supersessions : /\ d.superseded = o.superseded
                                 /\ d.valid_from = v.valid_from /\ d.via = v.superseded
    BY <2>2, RevertShape
  <2>4. o.superseded = i
    BY <1>6, <2>1 DEF SameRow
  <2> QED
    BY <2>3, <2>4
<1>7. ASSUME NEW i \in Items, NEW d \in supersessions,
             d.superseded = i, d.valid_from = v.valid_from, d.via = v.superseded
      PROVE  \E m \in supersessions' : /\ m.valid_to = NULL /\ m.superseded = i
                                       /\ m.survivor = v.superseded
  <2>1. PICK p \in supersessions : p.superseded = i /\ Backs(p, v)
    BY <1>7, RevertShape
  <2>2. PICK m \in supersessions' : SameRow(m, p) /\ m.valid_to = NULL
    BY <2>1, RevertShape
  <2> QED
    BY <2>1, <2>2 DEF SameRow, Backs
<1>8. \A i \in Items : Resolve(i)' = v.superseded <=> i \in c[2]
  BY <1>2, <1>3, <1>6, <1>7
<1> QED
  BY <1>1, <1>8

(* The reversal is exact for resolution: whatever merges and reverts came  *)
(* in between, reverting the merge of s gives s back exactly the items     *)
(* that resolved to it when the merge ran (_CLOSE_COMPRESSED and           *)
(* _REOPEN_PREDECESSORS).                                                  *)
THEOREM ReversalIsExact == Spec => RevertRestoresClass
<1>1. ASSUME ChainInv, ChainInv', HistoryInv, [Next]_vars
      PROVE  [\A c \in classes :
                LET s == c[1][1] IN
                (/\ \E v \in supersessions : KeyOf(v) = c[1] /\ IsOpen(v) /\ v.via = NULL
                 /\ \E v \in supersessions' : KeyOf(v) = c[1] /\ ~IsOpen(v)
                 /\ ~\E v \in supersessions' : v.superseded = s /\ IsOpen(v))
                => {i \in Items : Resolve(i)' = s} = c[2]]_vars
  <2>1. ASSUME NEW c \in classes,
               \E v \in supersessions : KeyOf(v) = c[1] /\ IsOpen(v) /\ v.via = NULL,
               \E v \in supersessions' : KeyOf(v) = c[1] /\ ~IsOpen(v),
               ~\E v \in supersessions' : v.superseded = c[1][1] /\ IsOpen(v)
        PROVE  {i \in Items : Resolve(i)' = c[1][1]} = c[2]
    <3>1. PICK v \in supersessions : KeyOf(v) = c[1] /\ v.valid_to = NULL /\ v.via = NULL
      BY <2>1 DEF IsOpen
    <3>2. PICK n \in supersessions' : KeyOf(n) = c[1] /\ n.valid_to # NULL
      BY <2>1 DEF IsOpen
    <3>3. v.superseded = c[1][1]
      BY <3>1 DEF KeyOf
    <3>4. \A m \in supersessions' : m.superseded = v.superseded => m.valid_to # NULL
      BY <2>1, <3>3 DEF IsOpen
    <3>5. PICK t : Fresh(t) /\ CanRevert(v) /\ supersessions' = Reopen(v, t)
      BY <1>1, <3>1, <3>2, <3>4, ClosedByItsRevert
    <3>6. RowsInv /\ OneHop' /\ ClassesRecorded /\ c[2] \subseteq Items
      BY <1>1, RowsInvOfChainInv DEF ChainInv, HistoryInv, TypeOK
    <3> QED
      BY <3>1, <3>4, <3>5, <3>6, RevertGivesBack
  <2> QED
    BY <2>1
<1> QED
  BY <1>1, ChainInvariant, HistoryInvariant, PTL DEF Spec, RevertRestoresClass
-----------------------------------------------------------------------------
(* Caches.                                                                 *)

(* Resolution follows an open row, or stays where it is.                   *)
LEMMA ResolveByRows ==
    ASSUME OneHop, NEW i
    PROVE  /\ \A o \in supersessions : o.valid_to = NULL /\ o.superseded = i => Resolve(i) = o.survivor
           /\ (\A o \in supersessions : ~(o.valid_to = NULL /\ o.superseded = i)) => Resolve(i) = i
BY DEF Resolve, OneHop, OpenRows, IsOpen

LEMMA ResolveByRowsNext ==
    ASSUME OneHop', NEW i
    PROVE  /\ \A o \in supersessions' : o.valid_to = NULL /\ o.superseded = i => Resolve(i)' = o.survivor
           /\ (\A o \in supersessions' : ~(o.valid_to = NULL /\ o.superseded = i)) => Resolve(i)' = i
BY DEF Resolve, OneHop, OpenRows, IsOpen

(* Items that resolve alike still do after a merge, and so do its two.     *)
LEMMA MergeKeepsClasses ==
    ASSUME ChainInv, ChainInv', NEW w \in Txns, MergeItems(w),
           NEW s \in Items, s = txn[w].superseded, NEW x \in Items, x = txn[w].survivor
    PROVE  /\ \A i, j \in Items : Resolve(i) = Resolve(j) => Resolve(i)' = Resolve(j)'
           /\ Resolve(s)' = Resolve(x)'
<1> DEFINE t == txn[w].stamp
<1>1. /\ RowsInv /\ OneHop /\ OneHop' /\ s \in Items /\ x \in Items /\ s # x /\ Fresh(t)
  BY RowsInvOfChainInv DEF ChainInv, MergeItems, HoldsAll, TxnShape, StampsFresh, TypeOK, Txn, Fresh,
     Stamps
<1>2. \A o \in supersessions : o.valid_to = NULL => o.superseded # x
  BY DEF MergeItems, CanMerge, SurvivorIsCurrent, OpenRows, IsOpen
<1>3. CASE Existing(s) = {}
  <2>1. supersessions' = Compress(s, x, t)
    BY <1>3 DEF MergeItems
  <2>2. \A o \in supersessions : o.valid_to = NULL => o.superseded # s
    BY <1>3 DEF Existing, OpenRows, IsOpen
  <2> DEFINE Closes(o) == o.valid_to = NULL /\ o.survivor = s
             Kept(n, o) == /\ SameRow(n, o)
                           /\ n.valid_to = IF Closes(o) THEN t ELSE o.valid_to
  <2>3. /\ \A o \in supersessions : \E n \in supersessions' : Kept(n, o)
        /\ \A n \in supersessions' :
              \/ \E o \in supersessions : Kept(n, o)
              \/ n.superseded = s /\ n.survivor = x /\ n.valid_to = NULL
              \/ /\ n.survivor = x /\ n.valid_to = NULL
                 /\ \E o \in supersessions : Closes(o) /\ o.superseded = n.superseded
        /\ \E n \in supersessions' : n.superseded = s /\ n.survivor = x /\ n.valid_to = NULL
        /\ \A o \in supersessions : Closes(o) =>
              \E n \in supersessions' : n.superseded = o.superseded /\ n.survivor = x /\ n.valid_to = NULL
    BY <1>1, <2>1, MergeShape
  <2>4. t # NULL
    BY <1>1 DEF ChainInv, MergeItems, HoldsAll, TxnShape, StampsFresh
  <2>5. ASSUME NEW i \in Items
        PROVE  Resolve(i)' = IF Resolve(i) = s THEN x ELSE Resolve(i)
    <3>1. CASE \E o \in supersessions : Closes(o) /\ o.superseded = i
      <4>1. Resolve(i) = s
        BY <1>1, <3>1, ResolveByRows
      <4>2. Resolve(i)' = x
        BY <1>1, <2>3, <3>1, ResolveByRowsNext
      <4> QED
        BY <4>1, <4>2
    <3>2. ASSUME NEW o \in supersessions, o.valid_to = NULL, o.superseded = i, ~Closes(o)
          PROVE  Resolve(i)' = IF Resolve(i) = s THEN x ELSE Resolve(i)
      <4>1. Resolve(i) = o.survivor /\ o.survivor # s
        BY <1>1, <3>2, ResolveByRows
      <4>2. PICK n \in supersessions' : Kept(n, o)
        BY <2>3
      <4>3. Resolve(i)' = o.survivor
        BY <1>1, <3>2, <4>2, ResolveByRowsNext DEF SameRow
      <4> QED
        BY <4>1, <4>3
    <3>3. CASE \A o \in supersessions : ~(o.valid_to = NULL /\ o.superseded = i)
      <4>1. Resolve(i) = i
        BY <1>1, <3>3, ResolveByRows
      <4>2. CASE i = s
        BY <1>1, <2>3, <4>1, <4>2, ResolveByRowsNext
      <4>3. CASE i # s
        <5>1. \A n \in supersessions' : ~(n.valid_to = NULL /\ n.superseded = i)
          BY <2>3, <2>4, <3>3, <4>3 DEF SameRow
        <5> QED
          BY <1>1, <4>1, <4>3, <5>1, ResolveByRowsNext
      <4> QED
        BY <4>2, <4>3
    <3> QED
      BY <3>1, <3>2, <3>3
  <2>6. Resolve(s) = s /\ Resolve(x) = x
    BY <1>1, <1>2, <2>2, ResolveByRows
  <2> QED
    BY <1>1, <2>5, <2>6
<1>4. CASE Existing(s) # {}
  <2>1. UNCHANGED supersessions
    BY <1>4 DEF MergeItems
  <2>2. \A i : Resolve(i)' = Resolve(i)
    BY <2>1 DEF Resolve, OpenRows, IsOpen
  <2>3. PICK o \in supersessions : o.valid_to = NULL /\ o.superseded = s
    BY <1>4 DEF Existing, OpenRows, IsOpen
  <2>4. o.survivor = x
    BY <2>3 DEF MergeItems, CanMerge, OpenRows, IsOpen
  <2>5. Resolve(s) = x /\ Resolve(x) = x
    BY <1>1, <1>2, <2>3, <2>4, ResolveByRows
  <2> QED
    BY <2>2, <2>5
<1> QED
  BY <1>3, <1>4

(* What a row caches, or a writer of it holds, was resolved from its alias *)
(* and resolves to the same item until something is reverted.              *)
Known(c, i) ==
    i # NULL => /\ alias[AliasOf[c]] # NULL
                /\ ~reverted => Resolve(i) = Resolve(alias[AliasOf[c]])

CacheInv == \A c \in Caches : Known(c, gm_item_id[c]) /\ Known(c, pending[c])

(* The aliases of one of two items move to the other, and the caches are   *)
(* recomputed from them: a row that agrees still does.                     *)
LEMMA RecomputedCachesAgree ==
    ASSUME TypeOK, NEW from \in Items, NEW to \in Items, NEW pair, from \in pair,
           NEW keys \in SUBSET {k \in Keys : alias[k] = from},
           alias' = MoveAliases(keys, to),
           gm_item_id' = RecomputeCaches(pair, MoveAliases(keys, to)),
           NEW c \in Caches
    PROVE  /\ alias'[AliasOf[c]] = IF AliasOf[c] \in keys THEN to ELSE alias[AliasOf[c]]
           /\ gm_item_id'[c] \in {gm_item_id[c], alias'[AliasOf[c]]}
           /\ alias[AliasOf[c]] # NULL => alias'[AliasOf[c]] # NULL
           /\ Agrees(c) => Agrees(c)'
<1>1. AliasOf[c] \in Keys /\ from # NULL /\ to # NULL
  BY CachesAssumption, ItemsAssumption
<1>2. /\ alias'[AliasOf[c]] = IF AliasOf[c] \in keys THEN to ELSE alias[AliasOf[c]]
      /\ gm_item_id'[c] = IF gm_item_id[c] \in pair /\ alias'[AliasOf[c]] # NULL
                          THEN alias'[AliasOf[c]] ELSE gm_item_id[c]
  BY <1>1 DEF MoveAliases, RecomputeCaches
<1>3. CASE AliasOf[c] \in keys
  <2>1. alias[AliasOf[c]] = from
    BY <1>3
  <2> QED
    BY <1>1, <1>2, <1>3, <2>1 DEF Agrees
<1>4. CASE AliasOf[c] \notin keys
  BY <1>2, <1>4 DEF Agrees
<1> QED
  BY <1>2, <1>3, <1>4

(* A writer's step: its alias is attached where there was none.            *)
LEMMA CacheStepKnown ==
    ASSUME TypeOK, CacheInv, NEW c \in Caches, CacheStep(c)
    PROVE  /\ CacheInv'
           /\ \A d \in Caches : Agrees(d) => Agrees(d)' \/ Overwritten(d)
<1>0. UNCHANGED <<supersessions, reverted>> /\ AliasOf[c] \in Keys
  BY CacheStepTyped, CachesAssumption
<1>1. \A i : Resolve(i)' = Resolve(i)
  BY <1>0 DEF Resolve, OpenRows, IsOpen
<1>2. ASSUME NEW d \in Caches, NEW i, Known(d, i), alias'[AliasOf[d]] = alias[AliasOf[d]]
      PROVE  Known(d, i)'
  BY <1>0, <1>1, <1>2 DEF Known
<1>3. CASE ReadAlias(c)
  <2>1. PICK i \in Items : /\ alias[AliasOf[c]] # NULL => alias[AliasOf[c]] = i
                           /\ alias' = [alias EXCEPT ![AliasOf[c]] = i]
                           /\ pending' = [pending EXCEPT ![c] = i] /\ UNCHANGED gm_item_id
    BY <1>3 DEF ReadAlias
  <2>2. i # NULL /\ alias'[AliasOf[c]] = i /\ pending'[c] = i
    BY <1>0, <2>1, ItemsAssumption DEF TypeOK
  <2>3. ASSUME NEW d \in Caches PROVE Known(d, gm_item_id[d])' /\ Known(d, pending[d])'
    <3>1. CASE alias'[AliasOf[d]] = alias[AliasOf[d]]
      <4>1. Known(d, gm_item_id[d])'
        BY <1>0, <1>1, <2>1, <3>1 DEF CacheInv, Known
      <4>2. CASE d = c
        BY <2>2, <4>1, <4>2 DEF Known
      <4>3. CASE d # c
        <5>1. pending'[d] = pending[d]
          BY <2>1, <4>3 DEF TypeOK
        <5> QED
          BY <1>0, <1>1, <3>1, <4>1, <5>1 DEF CacheInv, Known
      <4> QED
        BY <4>2, <4>3
    <3>2. CASE alias'[AliasOf[d]] # alias[AliasOf[d]]
      <4>1. AliasOf[d] = AliasOf[c] /\ alias[AliasOf[d]] = NULL /\ AliasOf[d] \in Keys
        BY <1>0, <2>1, <2>2, <3>2, CachesAssumption DEF TypeOK
      <4>2. gm_item_id[d] = NULL /\ pending[d] = NULL
        BY <4>1 DEF CacheInv, Known
      <4>3. pending'[d] \in {NULL, i} /\ gm_item_id'[d] = NULL /\ alias'[AliasOf[d]] = i
        BY <2>1, <2>2, <4>1, <4>2 DEF TypeOK
      <4> QED
        BY <2>2, <4>3 DEF Known
    <3> QED
      BY <3>1, <3>2
  <2>4. ASSUME NEW d \in Caches, Agrees(d) PROVE Agrees(d)'
    <3>1. alias'[AliasOf[d]] = alias[AliasOf[d]] \/ alias[AliasOf[d]] = NULL
      BY <1>0, <2>1, CachesAssumption DEF TypeOK
    <3> QED
      BY <2>1, <2>4, <3>1 DEF Agrees, CacheInv, Known
  <2> QED
    BY <2>3, <2>4 DEF CacheInv
<1>4. CASE WriteCache(c)
  <2>1. \A d \in Caches : alias'[AliasOf[d]] = alias[AliasOf[d]]
    BY <1>4, CachesAssumption DEF WriteCache, Identifiers
  <2>2. /\ gm_item_id' = [gm_item_id EXCEPT ![c] = pending[c]]
        /\ pending' = [pending EXCEPT ![c] = NULL] /\ pending[c] # NULL
    BY <1>4 DEF WriteCache
  <2>3. ASSUME NEW d \in Caches PROVE Known(d, gm_item_id[d])' /\ Known(d, pending[d])'
    <3>1. gm_item_id'[d] \in {gm_item_id[d], pending[d]} /\ pending'[d] \in {NULL, pending[d]}
      BY <2>2 DEF TypeOK
    <3> QED
      BY <1>0, <1>1, <2>1, <3>1 DEF CacheInv, Known
  <2>4. ASSUME NEW d \in Caches, Agrees(d) PROVE Agrees(d)' \/ Overwritten(d)
    <3>1. CASE d = c
      BY <2>2, <3>1 DEF Overwritten, TypeOK
    <3>2. CASE d # c
      BY <2>1, <2>2, <2>4, <3>2 DEF Agrees, TypeOK
    <3> QED
      BY <3>1, <3>2
  <2> QED
    BY <2>3, <2>4 DEF CacheInv
<1>5. CASE LoseWrite(c)
  <2>1. pending' = [pending EXCEPT ![c] = NULL] /\ UNCHANGED <<alias, gm_item_id>>
    BY <1>5 DEF LoseWrite
  <2>2. ASSUME NEW d \in Caches PROVE Known(d, gm_item_id[d])' /\ Known(d, pending[d])'
    <3>1. pending'[d] \in {NULL, pending[d]}
      BY <2>1 DEF TypeOK
    <3> QED
      BY <1>0, <1>1, <2>1, <3>1 DEF CacheInv, Known
  <2> QED
    BY <2>1, <2>2 DEF CacheInv, Agrees
<1> QED
  BY <1>3, <1>4, <1>5 DEF CacheStep

LEMMA MergeKnown ==
    ASSUME ChainInv, ChainInv', CacheInv, NEW w \in Txns, MergeItems(w)
    PROVE  /\ CacheInv'
           /\ \A d \in Caches : Agrees(d) => Agrees(d)'
<1>0. TypeOK /\ txn[w].superseded \in Items /\ txn[w].survivor \in Items
  BY DEF MergeItems, HoldsAll, ChainInv, TxnShape
<1>1. PICK s \in Items, x \in Items : s = txn[w].superseded /\ x = txn[w].survivor
  BY <1>0
<1>2. PICK keys \in SUBSET {k \in Keys : alias[k] = s} :
          /\ alias' = MoveAliases(keys, x)
          /\ gm_item_id' = RecomputeCaches({s, x}, MoveAliases(keys, x))
  BY <1>1 DEF MergeItems
<1>3. UNCHANGED <<pending, reverted>>
  BY DEF MergeItems
<1>4. /\ \A i, j \in Items : Resolve(i) = Resolve(j) => Resolve(i)' = Resolve(j)'
      /\ Resolve(s)' = Resolve(x)'
  BY <1>1, MergeKeepsClasses
<1>5. ASSUME NEW d \in Caches
      PROVE  /\ alias'[AliasOf[d]] = IF AliasOf[d] \in keys THEN x ELSE alias[AliasOf[d]]
             /\ gm_item_id'[d] \in {gm_item_id[d], alias'[AliasOf[d]]}
             /\ alias[AliasOf[d]] # NULL => alias'[AliasOf[d]] # NULL
             /\ Agrees(d) => Agrees(d)'
  BY <1>0, <1>2, RecomputedCachesAgree
<1>6. ASSUME NEW d \in Caches, NEW i \in Items \cup {NULL}, Known(d, i) PROVE Known(d, i)'
  <2> SUFFICES ASSUME i # NULL PROVE Known(d, i)'
    BY DEF Known
  <2>1. PICK j \in Items : /\ alias[AliasOf[d]] = j /\ j # NULL
                           /\ ~reverted => Resolve(i) = Resolve(j)
    BY <1>0, <1>6, CachesAssumption DEF Known, TypeOK
  <2>2. ~reverted => Resolve(i)' = Resolve(j)'
    BY <1>4, <2>1
  <2>3. \/ alias'[AliasOf[d]] = j
        \/ j = s /\ alias'[AliasOf[d]] = x
    BY <1>2, <1>5, <2>1
  <2>4. alias'[AliasOf[d]] # NULL
    BY <1>5, <2>1
  <2>5. CASE alias'[AliasOf[d]] = j
    BY <1>3, <2>2, <2>4, <2>5 DEF Known
  <2>6. CASE j = s /\ alias'[AliasOf[d]] = x
    BY <1>3, <1>4, <2>2, <2>4, <2>6 DEF Known
  <2> QED
    BY <2>3, <2>5, <2>6
<1>7. ASSUME NEW d \in Caches PROVE Known(d, gm_item_id[d])' /\ Known(d, pending[d])'
  <2>1. gm_item_id[d] \in Items \cup {NULL} /\ pending[d] \in Items \cup {NULL}
    BY <1>0 DEF TypeOK
  <2>2. Known(d, pending[d])'
    BY <1>3, <1>6, <2>1 DEF CacheInv
  <2>3. CASE gm_item_id'[d] = gm_item_id[d]
    BY <1>6, <2>1, <2>2, <2>3 DEF CacheInv
  <2>4. CASE gm_item_id'[d] = alias'[AliasOf[d]]
    BY <2>2, <2>4 DEF Known
  <2> QED
    BY <1>5, <2>3, <2>4
<1> QED
  BY <1>5, <1>7 DEF CacheInv

LEMMA RevertKnown ==
    ASSUME ChainInv, CacheInv, NEW w \in Txns, RevertSupersession(w)
    PROVE  /\ CacheInv'
           /\ \A d \in Caches : Agrees(d) => Agrees(d)'
<1> DEFINE s == Target(w).superseded
           x == Target(w).survivor
<1>1. Target(w) \in supersessions /\ TypeOK
  BY DEF RevertSupersession, HoldsAll, ChainInv, TxnShape, Target
<1>2. s \in Items /\ x \in Items
  BY <1>1 DEF TypeOK, Supersession
<1>3. PICK keys \in SUBSET {k \in Keys : alias[k] = x} :
          /\ alias' = MoveAliases(keys, s)
          /\ gm_item_id' = RecomputeCaches({s, x}, MoveAliases(keys, s))
  BY DEF RevertSupersession
<1>4. pending' = pending /\ reverted'
  BY DEF RevertSupersession
<1> HIDE DEF s, x
<1>5. ASSUME NEW d \in Caches
      PROVE  /\ gm_item_id'[d] \in {gm_item_id[d], alias'[AliasOf[d]]}
             /\ alias[AliasOf[d]] # NULL => alias'[AliasOf[d]] # NULL
             /\ Agrees(d) => Agrees(d)'
  BY <1>1, <1>2, <1>3, RecomputedCachesAgree
<1>6. ASSUME NEW d \in Caches PROVE Known(d, gm_item_id[d])' /\ Known(d, pending[d])'
  BY <1>4, <1>5 DEF CacheInv, Known
<1> QED
  BY <1>5, <1>6 DEF CacheInv

LEMMA CachesQuiet ==
    ASSUME CacheInv, UNCHANGED <<cacheVars, supersessions, reverted>>
    PROVE  /\ CacheInv'
           /\ \A d \in Caches : Agrees(d) => Agrees(d)'
<1>1. \A i : Resolve(i)' = Resolve(i)
  BY DEF Resolve, OpenRows, IsOpen
<1>2. UNCHANGED <<alias, gm_item_id, pending, reverted>>
  BY DEF cacheVars
<1> QED
  BY <1>1, <1>2 DEF CacheInv, Known, Agrees

LEMMA StepCaches ==
    ASSUME ChainInv, ChainInv', CacheInv, [Next]_vars
    PROVE  /\ CacheInv'
           /\ [\A c \in Caches : Agrees(c) => Agrees(c)' \/ Overwritten(c)]_vars
<1>1. ASSUME NEW c \in Caches, CacheStep(c)
      PROVE  CacheInv' /\ \A d \in Caches : Agrees(d) => Agrees(d)' \/ Overwritten(d)
  BY <1>1, CacheStepKnown DEF ChainInv
<1>2. ASSUME NEW w \in Txns, MergeItems(w) \/ RevertSupersession(w)
      PROVE  CacheInv' /\ \A d \in Caches : Agrees(d) => Agrees(d)'
  BY <1>2, MergeKnown, RevertKnown
<1>3. CASE UNCHANGED <<cacheVars, supersessions, reverted>>
  BY <1>3, CachesQuiet
<1> QED
  BY <1>1, <1>2, <1>3 DEF Next, vars, CacheStep, BeginMerge, BeginRevert, BeginInsert, Lock,
     CommitInsert, Rollback

(* No merge and no revert makes a cache disagree with its alias, only the  *)
(* late upsert of a writer that resolved before, and until a revert what   *)
(* it left still resolves to the alias's item (recompute_caches, attach and*)
(* upsert of the loaders): for any items, caches and sessions.             *)
THEOREM CachesAgree == Spec => CachesFollowAliases
<1>1. Init => CacheInv
  BY DEF Init, CacheInv, Known
<1>2. ChainInv /\ ChainInv' /\ CacheInv /\ [Next]_vars
      => CacheInv' /\ [\A c \in Caches : Agrees(c) => Agrees(c)' \/ Overwritten(c)]_vars
  BY StepCaches
<1>3. CacheInv => \A c \in Caches : gm_item_id[c] # NULL /\ ~reverted
                     => Resolve(gm_item_id[c]) = Resolve(alias[AliasOf[c]])
  BY DEF CacheInv, Known
<1> QED
  BY <1>1, <1>2, <1>3, ChainInvariant, PTL DEF Spec, CachesFollowAliases
=============================================================================
