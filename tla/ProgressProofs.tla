---------------------------- MODULE ProgressProofs ---------------------------
(***************************************************************************)
(* Proofs about the background work of MCProgress, for every value of its  *)
(* constants.  A behaviour runs one component while the others stand       *)
(* still, so a behaviour of the composition is one of every component.     *)
(***************************************************************************)
EXTENDS MCProgress, SequenceTheorems, FiniteSetTheorems, NaturalsInduction, WellFoundedInduction, TLAPS

(* A set of numbers that is not empty has a least one.                     *)
LEMMA LeastNumber ==
    ASSUME NEW S \in SUBSET Nat, S # {}
    PROVE  \E x \in S : \A y \in S : x <= y
<1>1. PICK x \in S : \A y \in S : <<y, x>> \notin OpToRel(<, Nat)
    BY NatLessThanWellFounded, WFMin, Zenon
<1>2. \A y \in S : y \in Nat /\ x \in Nat
    OBVIOUS
<1>3. \A y \in S : ~(y < x)
    BY <1>1, <1>2, Zenon DEF OpToRel
<1> QED
    BY <1>2, <1>3

-----------------------------------------------------------------------------
(* GenreTree: a tree is scanned no earlier than its signature was read.    *)

Trees == [at : Nat, sig : Nat, tree : Nat]

Passes == [pc : {"idle", "sign", "lock", "build", "publish", "release"}, sig : Nat, tree : Nat,
           todo : SUBSET Genres, locked : BOOLEAN]

(* Types of the builds, as far as the argument needs them.                 *)
TreeTypeOK ==
    /\ counts \in Nat /\ builds \in Nat
    /\ mem \in [TreeReplicas -> Trees]
    /\ treeReader \in [TreeReplicas -> Trees]
    /\ treeStored \in Trees
    /\ loop \in [TreeReplicas -> Passes]

(* A build has scanned no version older than the one it signed, which is   *)
(* no newer than the graph's; a tree on its way from Valkey to memory, and *)
(* so one that a late reader puts over a newer one, is as good.            *)
TreeInv ==
    /\ TreeTypeOK
    /\ SignatureIsNotNewer
    /\ \A r \in TreeReplicas :
          /\ treeReader[r].tree >= treeReader[r].sig
          /\ loop[r].pc \in {"lock", "build"} => loop[r].sig <= counts
          /\ loop[r].pc = "build" => loop[r].sig <= loop[r].tree

LEMMA TreeInitInv == TreeInit => TreeInv
<1>1. NoTree \in Trees /\ Idle \in Passes
    BY DEF NoTree, Idle, Trees, Passes
<1> QED
    BY <1>1 DEF TreeInit, TreeInv, TreeTypeOK, SignatureIsNotNewer, NoTree, Idle

(* The snapshots in memory and in Valkey, one by one.                      *)
LEMMA SnapshotsSigned ==
    SignatureIsNotNewer <=>
        /\ treeStored.tree >= treeStored.sig
        /\ \A r \in TreeReplicas : mem[r].tree >= mem[r].sig
    BY DEF SignatureIsNotNewer

(* The graph, the lock and the readers.                                    *)
LEMMA TreeAround ==
    ASSUME TreeInv,
           \/ CountsChange \/ TreeLockLapses \/ TreeLockOverrun
           \/ \E r \in TreeReplicas : ReaderLoads(r) \/ ReaderAssigns(r) \/ TreeCrash(r)
    PROVE  TreeInv'
<1> USE SnapshotsSigned DEF TreeInv, TreeTypeOK
<1>1. CASE CountsChange
    BY <1>1 DEF CountsChange, SignatureIsNotNewer, Passes
<1>2. CASE TreeLockLapses \/ TreeLockOverrun
    BY <1>2 DEF TreeLockLapses, TreeLockOverrun, SignatureIsNotNewer
<1>3. ASSUME NEW r \in TreeReplicas, ReaderLoads(r)
      PROVE  TreeInv'
    BY <1>3 DEF ReaderLoads, SignatureIsNotNewer
<1>4. ASSUME NEW r \in TreeReplicas, ReaderAssigns(r)
      PROVE  TreeInv'
  <2>1. NoTree \in Trees /\ NoTree.tree >= NoTree.sig
      BY DEF NoTree, Trees
  <2> QED
      BY <1>4, <2>1 DEF ReaderAssigns, SignatureIsNotNewer
<1>5. ASSUME NEW r \in TreeReplicas, TreeCrash(r)
      PROVE  TreeInv'
  <2>1. NoTree \in Trees /\ NoTree.tree >= NoTree.sig /\ Idle \in Passes /\ Idle.pc = "idle"
      BY DEF NoTree, Trees, Idle, Passes
  <2> QED
      BY <1>5, <2>1 DEF TreeCrash, SignatureIsNotNewer
<1> QED
    BY <1>1, <1>2, <1>3, <1>4, <1>5

(* The refresh loop: adopt, sign, lock, scan, store, publish, release.     *)
LEMMA TreeLoop ==
    ASSUME TreeInv, NEW r \in TreeReplicas,
           \/ LoadTree(r) \/ Sign(r) \/ SignTooOld(r) \/ TakeTreeLock(r) \/ ScanGenre(r)
           \/ StoreTree(r) \/ PublishTree(r) \/ BuildFails(r) \/ ReleaseTreeLock(r)
    PROVE  TreeInv'
<1> USE SnapshotsSigned DEF TreeInv, TreeTypeOK
<1>0. Idle \in Passes /\ Idle.pc = "idle"
    BY DEF Idle, Passes
<1>1. CASE LoadTree(r)
  <2>1. [Idle EXCEPT !.pc = "sign"] \in Passes /\ [Idle EXCEPT !.pc = "sign"].pc = "sign"
      BY DEF Idle, Passes
  <2>2. mem' = mem \/ mem' = [mem EXCEPT ![r] = treeStored]
      BY <1>1 DEF LoadTree, Adopt
  <2> QED
      BY <1>1, <2>1, <2>2 DEF LoadTree, SignatureIsNotNewer
<1>2. CASE Sign(r) \/ SignTooOld(r)
  <2> DEFINE signed == [Idle EXCEPT !.pc = "lock", !.sig = counts]
  <2>1. signed \in Passes /\ signed.pc = "lock" /\ signed.sig = counts
      BY DEF Idle, Passes
  <2> HIDE DEF signed
  <2>2. loop' = [loop EXCEPT ![r] = Idle] \/ loop' = [loop EXCEPT ![r] = signed]
      BY <1>2 DEF Sign, SignTooOld, signed
  <2>3. UNCHANGED <<counts, mem, treeStored, treeReader, builds>>
      BY <1>2 DEF Sign, SignTooOld
  <2> QED
      BY <1>0, <2>1, <2>2, <2>3 DEF SignatureIsNotNewer
<1>p. loop[r] \in Passes /\ mem[r] \in Trees /\ treeStored \in Trees
    OBVIOUS
<1>3. CASE TakeTreeLock(r)
  <2>1. PICK q \in Passes :
            /\ loop' = [loop EXCEPT ![r] = q]
            /\ q = Idle \/ (q.pc = "build" /\ q.sig = loop[r].sig /\ q.tree = counts)
    <3> DEFINE begun(l) == [loop[r] EXCEPT !.pc = "build", !.todo = Genres, !.tree = counts, !.locked = l]
    <3>1. \A l \in BOOLEAN : /\ begun(l) \in Passes /\ begun(l).pc = "build"
                              /\ begun(l).sig = loop[r].sig /\ begun(l).tree = counts
        BY <1>p DEF Passes
    <3>2. loop' = [loop EXCEPT ![r] = Idle] \/ \E l \in BOOLEAN : loop' = [loop EXCEPT ![r] = begun(l)]
      <4>1. \/ loop' = [loop EXCEPT ![r].pc = "build", ![r].todo = Genres, ![r].tree = counts,
                                    ![r].locked = TRUE]
            \/ loop' = [loop EXCEPT ![r] = Idle]
            \/ loop' = [loop EXCEPT ![r].pc = "build", ![r].todo = Genres, ![r].tree = counts]
          BY <1>3 DEF TakeTreeLock
      <4>2. begun(loop[r].locked) = [loop[r] EXCEPT !.pc = "build", !.todo = Genres, !.tree = counts]
          BY <1>p DEF Passes
      <4>3. loop[r].locked \in BOOLEAN
          BY <1>p DEF Passes
      <4> QED
          BY <4>1, <4>2, <4>3
    <3> QED
        BY <1>0, <3>1, <3>2
  <2>2. UNCHANGED <<counts, mem, treeStored, treeReader, builds>>
      BY <1>3 DEF TakeTreeLock
  <2>3. loop[r].pc = "lock"
      BY <1>3 DEF TakeTreeLock
  <2> QED
      BY <1>0, <2>1, <2>2, <2>3 DEF SignatureIsNotNewer
<1>4. CASE ScanGenre(r)
  <2>1. PICK q \in Passes :
            /\ loop' = [loop EXCEPT ![r] = q]
            /\ q.pc = "build" /\ q.sig = loop[r].sig /\ q.tree \in {counts, loop[r].tree}
    <3>1. PICK g \in loop[r].todo :
              loop' = [loop EXCEPT ![r].todo = @ \ {g}, ![r].tree = IF counts < @ THEN counts ELSE @]
        BY <1>4 DEF ScanGenre
    <3> DEFINE q == [loop[r] EXCEPT !.todo = @ \ {g}, !.tree = IF counts < @ THEN counts ELSE @]
    <3>2. loop' = [loop EXCEPT ![r] = q]
        BY <3>1
    <3>3. /\ q \in Passes /\ q.pc = "build" /\ q.sig = loop[r].sig
          /\ q.tree \in {counts, loop[r].tree}
        BY <1>4, <1>p DEF Passes, ScanGenre
    <3> QED
        BY <3>2, <3>3
  <2>2. UNCHANGED <<counts, mem, treeStored, treeReader, builds>> /\ loop[r].pc = "build"
      BY <1>4 DEF ScanGenre
  <2> QED
      BY <2>1, <2>2 DEF SignatureIsNotNewer
<1>5. CASE StoreTree(r)
  <2> DEFINE s == [at |-> builds + 1, sig |-> SignedAs(r), tree |-> loop[r].tree]
             q == [loop[r] EXCEPT !.pc = "publish"]
  <2>1. s \in Trees /\ s.tree >= s.sig
      BY <1>5, <1>p DEF StoreTree, SignedAs, Passes, Trees
  <2>2. q \in Passes /\ q.pc = "publish"
      BY <1>p DEF Passes
  <2>3. mem' = [mem EXCEPT ![r] = s] /\ loop' = [loop EXCEPT ![r] = q]
      BY <1>5 DEF StoreTree
  <2>4. UNCHANGED <<counts, treeStored, treeReader>> /\ builds' \in Nat
      BY <1>5 DEF StoreTree
  <2> HIDE DEF s, q
  <2> QED
      BY <2>1, <2>2, <2>3, <2>4 DEF SignatureIsNotNewer
<1>6. CASE PublishTree(r)
  <2> DEFINE q == [loop[r] EXCEPT !.pc = "release"]
  <2>1. q \in Passes /\ q.pc = "release"
      BY <1>p DEF Passes
  <2>2. loop' = [loop EXCEPT ![r] = q] /\ treeStored' \in {treeStored, mem[r]}
      BY <1>6 DEF PublishTree
  <2>3. UNCHANGED <<counts, mem, treeReader, builds>>
      BY <1>6 DEF PublishTree
  <2> HIDE DEF q
  <2> QED
      BY <1>p, <2>1, <2>2, <2>3 DEF SignatureIsNotNewer
<1>7. CASE BuildFails(r)
    BY <1>7 DEF BuildFails, SignatureIsNotNewer, Passes
<1>8. CASE ReleaseTreeLock(r)
    BY <1>0, <1>8 DEF ReleaseTreeLock, SignatureIsNotNewer
<1> QED
    BY <1>1, <1>2, <1>3, <1>4, <1>5, <1>6, <1>7, <1>8

(* The invariant of the builds, of every step of the composition.          *)
THEOREM TreeInvariant == Spec => []TreeInv
<1>1. Init => TreeInv
    BY TreeInitInv DEF Init
<1>2. TreeInv /\ [Next]_progressVars => TreeInv'
  <2> SUFFICES ASSUME TreeInv, [Next]_progressVars
               PROVE  TreeInv'
      OBVIOUS
  <2>1. [TreeNext]_treeVars
      BY DEF Next, Tree, Tracking, Reattachment, Analysis, RestOf, progressVars
  <2>2. CASE UNCHANGED treeVars
      BY <2>2 DEF treeVars, TreeInv, TreeTypeOK, SignatureIsNotNewer
  <2>3. CASE TreeNext
      BY <2>3, TreeAround, TreeLoop DEF TreeNext, TreeStep
  <2> QED
      BY <2>1, <2>2, <2>3
<1> QED
    BY <1>1, <1>2, PTL DEF Spec


-----------------------------------------------------------------------------
(* ExtractionTracking: a row is completed only by a run since its trigger. *)

Extractors == [status : {"waiting", "running", "completed", "failed"}, pending : BOOLEAN,
               run : 0..MaxRuns, counts : 0..MaxRuns]

Trackers == [pc : {"off", "sleep", "got"}, seen : BOOLEAN, startup : 0..MaxStartup,
             failures : 0..MaxPollFailures, polls : 0..MaxIterations, health : Health]

RowRecords == [status : {"none", "pending", "running", "completed", "failed", "deleted"},
               counts : 0..MaxRuns]

(* Types of what the state's type invariant leaves out.                    *)
RequestTypes ==
    /\ trigger \in [Extractions -> {"none", "post", "accepted", "done"}]
    /\ since \in [Extractions -> 0..MaxRuns]
    /\ fresh \in [Extractions -> BOOLEAN]
    /\ ambiguous \in [Extractions -> BOOLEAN]
    /\ lost \in [Extractions -> BOOLEAN]

(* A row has a tracker only while it is running, and none before its       *)
(* trigger was answered.                                                   *)
Followed ==
    \A x \in Extractions :
        /\ trigger[x] \in {"post", "accepted"} => row[x].status = "pending"
        /\ trigger[x] # "done" => tracker[x].pc = "off"
        /\ tracker[x].pc # "off" => row[x].status = "running"

(* What the extractor shows belongs to its latest run or was cleared by    *)
(* it; and whichever sign a tracker takes for its run's, a cleared         *)
(* counter, recent activity or a run at work, a run has begun since the    *)
(* trigger, unless the counters were ambiguous when it was accepted.       *)
SignsOfRun ==
    /\ extractor.counts \in {0, extractor.run} /\ extractor.run > 0
    /\ \A x \in Extractions :
          /\ since[x] <= extractor.run
          /\ extractor.status = "running" => extractor.run > since[x]
          /\ ~ambiguous[x] =>
                /\ extractor.counts = 0 \/ fresh[x] => extractor.run > since[x]
                /\ tracker[x].pc # "off" /\ tracker[x].seen => extractor.run > since[x]

(* What a poll has read, although a run may have begun before it is        *)
(* applied.                                                                *)
ReadSigns ==
    \A x \in Extractions : LET t == tracker[x] IN
        t.pc = "got" /\ ~ambiguous[x] /\ (t.seen \/ t.health.status = "running" \/ RunHasStarted(t.health))
            => extractor.run > since[x] /\ (t.health.counts # 0 => t.health.counts > since[x])

TrackingInv == TrackingTypeOK /\ RequestTypes /\ Followed /\ SignsOfRun /\ ReadSigns /\ NoPhantomSuccess

(* A tracker that is off, or has just been started.                        *)
LEMMA OffType ==
    /\ NoHealth \in Health /\ Off \in Trackers /\ Off.pc = "off" /\ ~Off.seen
    /\ [Off EXCEPT !.pc = "sleep"] \in Trackers
<1> USE LimitsAssumption
<1>1. NoHealth \in Health
    BY DEF NoHealth, Health
<1>2. /\ 0 \in 0..MaxStartup /\ 0 \in 0..MaxPollFailures /\ 0 \in 0..MaxIterations
    OBVIOUS
<1> HIDE DEF NoHealth
<1> QED
    BY <1>1, <1>2 DEF Off, Trackers

LEMMA TrackingInitInv == TrackingInit => TrackingInv
<1> SUFFICES ASSUME TrackingInit
             PROVE  TrackingInv
    OBVIOUS
<1> USE LimitsAssumption
<1>1. NoHealth \in Health
    BY DEF NoHealth, Health
<1>2. Off \in Trackers /\ Off.pc = "off"
    BY OffType
<1>3. NoRow \in RowRecords /\ NoRow.status = "none"
    BY DEF NoRow, RowRecords
<1>4. TrackingTypeOK
  <2>1. extractor \in Extractors
    <3>1. 0 \in 0..MaxRuns /\ 1 \in 0..MaxRuns
        OBVIOUS
    <3>2. {0, 1} \subseteq 0..MaxRuns /\ {1} \subseteq 0..MaxRuns
        BY <3>1
    <3> QED
        BY <3>2 DEF TrackingInit, Extractors
  <2> QED
    BY <1>2, <1>3, <2>1 DEF Extractors, TrackingInit, TrackingTypeOK, Trackers, RowRecords
<1>5. RequestTypes /\ Followed /\ SignsOfRun /\ ReadSigns /\ NoPhantomSuccess
    BY <1>2, <1>3 DEF TrackingInit, RequestTypes, Followed, SignsOfRun, ReadSigns, NoPhantomSuccess
<1> QED
    BY <1>4, <1>5 DEF TrackingInv

(* The fields a tracker's step sets, once their values are in range.       *)
LEMMA TrackerSets ==
    \A t \in Trackers, f \in 0..MaxPollFailures, h \in Health :
        /\ [t EXCEPT !.pc = "sleep", !.failures = f, !.health = h] \in Trackers
        /\ \A k \in 0..MaxIterations : [t EXCEPT !.pc = "got", !.polls = k, !.health = h] \in Trackers
        /\ \A n \in 0..MaxStartup :
              [t EXCEPT !.pc = "sleep", !.startup = n, !.failures = f, !.health = h] \in Trackers
        /\ \A s \in BOOLEAN :
              [t EXCEPT !.pc = "sleep", !.seen = s, !.failures = f, !.health = h] \in Trackers
    BY DEF Trackers

(* Steps that touch no extraction's row, tracker or request.               *)
LEMMA TrackingAround ==
    ASSUME TrackingInv,
           \/ AddAdmin \/ AdminLogin \/ AdminLogout
           \/ ExtractorStarts \/ ExtractorCounts \/ ExtractorEnds \/ ExtractorWaits \/ TriggerIgnored
    PROVE  TrackingInv'
<1> USE LimitsAssumption
<1>0. TrackingTypeOK /\ RequestTypes /\ Followed /\ SignsOfRun /\ ReadSigns /\ NoPhantomSuccess
    BY DEF TrackingInv
<1>1. /\ UNCHANGED <<row, tracker, trigger, since, ambiguous, lost>>
      /\ extractor' \in Extractors /\ fresh' \in [Extractions -> BOOLEAN]
      /\ extractor'.run >= extractor.run
  <2> USE <1>0 DEF TrackingTypeOK, RequestTypes, tracking, history, Extractors
  <2>1. CASE AddAdmin \/ AdminLogin \/ AdminLogout
      BY <2>1 DEF AddAdmin, AdminLogin, AdminLogout
  <2>2. CASE ExtractorStarts
      BY <2>2 DEF ExtractorStarts
  <2>3. CASE ExtractorCounts
      BY <2>3 DEF ExtractorCounts
  <2>4. CASE ExtractorEnds
      BY <2>4 DEF ExtractorEnds
  <2>5. CASE ExtractorWaits
      BY <2>5 DEF ExtractorWaits
  <2>6. CASE TriggerIgnored
    <3>1. extractor' = [extractor EXCEPT !.pending = FALSE]
          /\ UNCHANGED <<row, tracker, trigger, since, ambiguous, lost, fresh>>
        BY <2>6 DEF TriggerIgnored
    <3>2. extractor' \in Extractors /\ extractor'.run = extractor.run
        BY <3>1
    <3>3. extractor.run \in Nat
        OBVIOUS
    <3> QED
        BY <3>1, <3>2, <3>3
  <2> QED
      BY <2>1, <2>2, <2>3, <2>4, <2>5, <2>6
<1>2. TrackingTypeOK' /\ RequestTypes' /\ Followed'
    BY <1>0, <1>1 DEF TrackingTypeOK, RequestTypes, Followed, Extractors
<1>i. /\ \A x \in Extractions : since[x] \in Nat
      /\ extractor \in Extractors /\ extractor.run \in Nat /\ extractor'.run \in Nat
    BY <1>0, <1>1 DEF TrackingTypeOK, RequestTypes, Extractors
<1>3. SignsOfRun'
  <2> USE <1>0, <1>1, <1>i DEF SignsOfRun, Extractors
  <2>1. CASE AddAdmin \/ AdminLogin \/ AdminLogout
      BY <2>1 DEF AddAdmin, AdminLogin, AdminLogout
  <2>2. CASE ExtractorStarts
      BY <2>2 DEF ExtractorStarts
  <2>3. CASE ExtractorCounts
      BY <2>3 DEF ExtractorCounts
  <2>4. CASE ExtractorEnds \/ ExtractorWaits \/ TriggerIgnored
      BY <2>4 DEF ExtractorEnds, ExtractorWaits, TriggerIgnored
  <2> QED
      BY <2>1, <2>2, <2>3, <2>4
<1>4. ReadSigns'
    BY <1>0, <1>1, <1>i DEF ReadSigns
<1>5. NoPhantomSuccess'
    BY <1>0, <1>1, <1>i DEF NoPhantomSuccess
<1> QED
    BY <1>2, <1>3, <1>4, <1>5 DEF TrackingInv

(* The trigger's request, which ends before a tracker exists.              *)
LEMMA TrackingRequest ==
    ASSUME TrackingInv, NEW x \in Extractions,
           \/ InsertPending(x) \/ PostConflict(x) \/ StartTracking(x)
           \/ \E b \in BOOLEAN : PostAccepted(x, b) \/ PostFails(x, b)
    PROVE  TrackingInv'
<1> USE LimitsAssumption
<1>0. TrackingTypeOK /\ RequestTypes /\ Followed /\ SignsOfRun /\ ReadSigns /\ NoPhantomSuccess
    BY DEF TrackingInv
<1>t. /\ extractor \in Extractors /\ row \in [Extractions -> RowRecords]
      /\ tracker \in [Extractions -> Trackers] /\ row[x] \in RowRecords
    BY <1>0 DEF TrackingTypeOK, Extractors, RowRecords, Trackers
<1>i. \A y \in Extractions : since[y] \in Nat
    BY <1>0 DEF RequestTypes
<1>1. CASE InsertPending(x)
  <2>1. PICK q \in RowRecords : q.status = "pending" /\ row' = [row EXCEPT ![x] = q]
    <3>1. [row[x] EXCEPT !.status = "pending"] \in RowRecords
        BY <1>t DEF RowRecords
    <3> QED
        BY <1>1, <1>t, <3>1 DEF InsertPending, RowRecords
  <2>2. /\ UNCHANGED <<extractor, tracker, since, fresh, ambiguous, lost>>
        /\ trigger[x] = "none" /\ trigger' = [trigger EXCEPT ![x] = "post"]
      BY <1>1 DEF InsertPending, history
  <2>3. TrackingTypeOK' /\ RequestTypes'
      BY <1>0, <2>1, <2>2 DEF TrackingTypeOK, RequestTypes, RowRecords
  <2>4. Followed'
      BY <1>0, <1>t, <2>1, <2>2 DEF Followed, RequestTypes
  <2>5. SignsOfRun' /\ ReadSigns'
      BY <1>0, <2>1, <2>2 DEF SignsOfRun, ReadSigns
  <2>6. NoPhantomSuccess'
      BY <1>0, <1>t, <2>1, <2>2 DEF NoPhantomSuccess
  <2> QED
      BY <2>3, <2>4, <2>5, <2>6 DEF TrackingInv
<1>2. CASE PostConflict(x) \/ \E b \in BOOLEAN : PostFails(x, b)
  <2>1. PICK q \in RowRecords : q.status \in {"deleted", "failed"} /\ row' = [row EXCEPT ![x] = q]
    <3>1. \A s \in {"deleted", "failed"} : [row[x] EXCEPT !.status = s] \in RowRecords
        BY <1>t DEF RowRecords
    <3>2. \E s \in {"deleted", "failed"} : row' = [row EXCEPT ![x].status = s]
        BY <1>2 DEF PostConflict, PostFails
    <3> QED
        BY <1>t, <3>1, <3>2 DEF RowRecords
  <2>2. /\ UNCHANGED <<tracker, since, fresh, ambiguous, lost>>
        /\ trigger[x] = "post" /\ trigger' = [trigger EXCEPT ![x] = "done"]
      BY <1>2 DEF PostConflict, PostFails, history
  <2>3. extractor' = extractor \/ \E b \in BOOLEAN : extractor' = [extractor EXCEPT !.pending = b]
    <3>1. \A b \in BOOLEAN : (extractor.pending \/ (b /\ extractor.status # "running")) \in BOOLEAN
        BY <1>t DEF Extractors
    <3> QED
        BY <1>2, <1>t, <3>1 DEF PostConflict, PostFails, Extractors
  <2>4. /\ extractor' \in Extractors /\ extractor'.run = extractor.run
        /\ extractor'.counts = extractor.counts /\ extractor'.status = extractor.status
      BY <1>t, <2>3 DEF Extractors
  <2>5. TrackingTypeOK' /\ RequestTypes'
      BY <1>0, <2>1, <2>2, <2>4 DEF TrackingTypeOK, RequestTypes, RowRecords, Extractors
  <2>6. Followed'
      BY <1>0, <1>t, <2>1, <2>2 DEF Followed, RequestTypes
  <2>7. SignsOfRun' /\ ReadSigns'
      BY <1>0, <2>1, <2>2, <2>4 DEF SignsOfRun, ReadSigns
  <2>8. NoPhantomSuccess'
      BY <1>0, <1>t, <2>1, <2>2, <2>4 DEF NoPhantomSuccess
  <2> QED
      BY <2>5, <2>6, <2>7, <2>8 DEF TrackingInv
<1>3. ASSUME NEW b \in BOOLEAN, PostAccepted(x, b)
      PROVE  TrackingInv'
  <2>1. /\ UNCHANGED <<row, tracker, lost>>
        /\ trigger[x] = "post" /\ trigger' = [trigger EXCEPT ![x] = "accepted"]
        /\ extractor.status # "running"
        /\ extractor' = [extractor EXCEPT !.pending = TRUE]
        /\ since' = [since EXCEPT ![x] = extractor.run]
        /\ fresh' = [fresh EXCEPT ![x] = b /\ extractor.counts # 0]
        /\ ambiguous' = [ambiguous EXCEPT ![x] = extractor.counts = 0 \/ b]
      BY <1>3 DEF PostAccepted
  <2>2. /\ extractor' \in Extractors /\ extractor'.run = extractor.run
        /\ extractor'.counts = extractor.counts /\ extractor'.status = extractor.status
      BY <1>t, <2>1 DEF Extractors
  <2>3. TrackingTypeOK' /\ RequestTypes'
      BY <1>0, <1>t, <2>1, <2>2 DEF TrackingTypeOK, RequestTypes, Extractors
  <2>4. Followed' /\ tracker[x].pc = "off" /\ row[x].status = "pending"
      BY <1>0, <2>1 DEF Followed, RequestTypes
  <2>5. SignsOfRun'
      BY <1>0, <1>i, <1>t, <2>1, <2>2, <2>4 DEF SignsOfRun, RequestTypes, Extractors
  <2>6. ReadSigns'
      BY <1>0, <2>1, <2>2, <2>4 DEF ReadSigns, RequestTypes
  <2>7. NoPhantomSuccess'
      BY <1>0, <2>1, <2>2, <2>4 DEF NoPhantomSuccess, RequestTypes
  <2> QED
      BY <2>3, <2>4, <2>5, <2>6, <2>7 DEF TrackingInv
<1>4. CASE StartTracking(x)
  <2>1. PICK q \in RowRecords : q.status = "running" /\ row' = [row EXCEPT ![x] = q]
    <3>1. [row[x] EXCEPT !.status = "running"] \in RowRecords
        BY <1>t DEF RowRecords
    <3> QED
        BY <1>4, <1>t, <3>1 DEF StartTracking, RowRecords
  <2>2. PICK t \in Trackers : t.pc = "sleep" /\ ~t.seen /\ tracker' = [tracker EXCEPT ![x] = t]
    <3>1. [Off EXCEPT !.pc = "sleep"] \in Trackers
        BY OffType
    <3> QED
        BY <1>4, <3>1 DEF StartTracking, Off
  <2>3. /\ UNCHANGED <<extractor, since, fresh, ambiguous, lost>>
        /\ trigger[x] = "accepted" /\ trigger' = [trigger EXCEPT ![x] = "done"]
      BY <1>4 DEF StartTracking, history
  <2>4. TrackingTypeOK' /\ RequestTypes'
      BY <1>0, <2>1, <2>2, <2>3 DEF TrackingTypeOK, RequestTypes, RowRecords, Trackers
  <2>5. Followed'
      BY <1>0, <1>t, <2>1, <2>2, <2>3 DEF Followed, RequestTypes
  <2>6. SignsOfRun' /\ ReadSigns'
      BY <1>0, <1>t, <2>2, <2>3 DEF SignsOfRun, ReadSigns
  <2>7. NoPhantomSuccess'
      BY <1>0, <1>t, <2>1, <2>3 DEF NoPhantomSuccess
  <2> QED
      BY <2>4, <2>5, <2>6, <2>7 DEF TrackingInv
<1> QED
    BY <1>1, <1>2, <1>3, <1>4

(* What a tracker may do to its row and to itself.                         *)
LEMMA TrackerStep ==
    ASSUME TrackingInv, NEW x \in Extractions, tracker[x].pc # "off",
           UNCHANGED <<extractor, trigger, since, fresh, ambiguous>>,
           lost' \in [Extractions -> BOOLEAN],
           NEW t \in Trackers, tracker' = [tracker EXCEPT ![x] = t],
           NEW q \in RowRecords, row' = [row EXCEPT ![x] = q],
           t.pc # "off" => q.status = "running",
           t.pc # "off" /\ t.seen /\ ~ambiguous[x] => extractor.run > since[x],
           t.pc = "got" /\ ~ambiguous[x]
               /\ (t.seen \/ t.health.status = "running" \/ RunHasStarted(t.health))
               => extractor.run > since[x] /\ (t.health.counts # 0 => t.health.counts > since[x]),
           q.status = "completed" /\ ~ambiguous[x]
               => extractor.run > since[x] /\ (q.counts # 0 => q.counts > since[x])
    PROVE  TrackingInv'
<1>0. TrackingTypeOK /\ RequestTypes /\ Followed /\ SignsOfRun /\ ReadSigns /\ NoPhantomSuccess
    BY DEF TrackingInv
<1>t. /\ row \in [Extractions -> RowRecords] /\ tracker \in [Extractions -> Trackers]
    BY <1>0 DEF TrackingTypeOK, RowRecords, Trackers
<1>1. TrackingTypeOK'
    BY <1>0, <1>t DEF TrackingTypeOK, RowRecords, Trackers
<1>2. RequestTypes'
    BY <1>0 DEF RequestTypes
<1>3. Followed'
  <2>1. trigger[x] = "done"
      BY <1>0 DEF Followed
  <2> QED
      BY <1>0, <1>t, <2>1 DEF Followed
<1>4. SignsOfRun'
    BY <1>0, <1>t DEF SignsOfRun
<1>5. ReadSigns'
    BY <1>0, <1>t DEF ReadSigns
<1>6. NoPhantomSuccess'
    BY <1>0, <1>t DEF NoPhantomSuccess
<1> QED
    BY <1>1, <1>2, <1>3, <1>4, <1>5, <1>6 DEF TrackingInv

(* A tracker that ends: the row is failed, or stays, or is completed with  *)
(* what a poll has read.                                                   *)
LEMMA TrackerEnds ==
    ASSUME TrackingInv, NEW x \in Extractions, tracker[x].pc # "off",
           UNCHANGED <<extractor, trigger, since, fresh, ambiguous>>,
           \/ \E n \in 0..MaxRuns : Settle(x, "failed", n)
           \/ GiveUp(x)
    PROVE  TrackingInv'
<1>0. /\ TrackingTypeOK /\ RequestTypes /\ row[x] \in RowRecords /\ row[x].status = "running"
      /\ row \in [Extractions -> RowRecords]
    BY DEF TrackingInv, TrackingTypeOK, RowRecords, Followed
<1>1. tracker' = [tracker EXCEPT ![x] = Off] /\ lost' \in [Extractions -> BOOLEAN]
    BY <1>0 DEF Settle, GiveUp, RequestTypes
<1>2. PICK q \in RowRecords : q.status # "completed" /\ row' = [row EXCEPT ![x] = q]
  <2>1. ASSUME NEW n \in 0..MaxRuns, Settle(x, "failed", n)
        PROVE  \E q \in RowRecords : q.status # "completed" /\ row' = [row EXCEPT ![x] = q]
    <3>1. [status |-> "failed", counts |-> n] \in RowRecords
        BY DEF RowRecords
    <3> QED
        BY <2>1, <3>1 DEF Settle
  <2>2. CASE GiveUp(x)
    <3>1. [row[x] EXCEPT !.status = "failed"] \in RowRecords
        BY <1>0 DEF RowRecords
    <3>2. row' = [row EXCEPT ![x] = [row[x] EXCEPT !.status = "failed"]] \/ row' = [row EXCEPT ![x] = row[x]]
        BY <1>0, <2>2 DEF GiveUp
    <3>3. [row[x] EXCEPT !.status = "failed"].status = "failed"
        BY <1>0 DEF RowRecords
    <3> QED
        BY <1>0, <3>1, <3>2, <3>3
  <2> QED
      BY <2>1, <2>2
<1> QED
    BY <1>1, <1>2, OffType, TrackerStep

(* A failed iteration: the tracker sleeps on, or ends.                     *)
LEMMA FailureCounted ==
    ASSUME TrackingInv, NEW x \in Extractions, tracker[x].pc # "off",
           UNCHANGED <<extractor, trigger, since, fresh, ambiguous>>,
           NEW t \in Trackers, CountFailure(x, t),
           t.seen /\ ~ambiguous[x] => extractor.run > since[x]
    PROVE  TrackingInv'
<1>0. /\ TrackingTypeOK /\ RequestTypes /\ row[x] \in RowRecords /\ row[x].status = "running"
      /\ row \in [Extractions -> RowRecords]
    BY DEF TrackingInv, TrackingTypeOK, RowRecords, Followed
<1>1. CASE t.failures + 1 < MaxPollFailures
  <2> DEFINE u == [t EXCEPT !.pc = "sleep", !.failures = @ + 1, !.health = NoHealth]
  <2>1. u \in Trackers
    <3>1. t.failures + 1 \in 0..MaxPollFailures
        BY <1>1, LimitsAssumption DEF Trackers
    <3>2. [t EXCEPT !.pc = "sleep", !.failures = t.failures + 1, !.health = NoHealth] \in Trackers
        BY <3>1, OffType, TrackerSets
    <3> QED
        BY <3>2
  <2>t. u.pc = "sleep" /\ u.seen = t.seen
      BY DEF Trackers
  <2>2. tracker' = [tracker EXCEPT ![x] = u] /\ row' = row /\ lost' = lost
      BY <1>1 DEF CountFailure
  <2>3. row' = [row EXCEPT ![x] = row[x]]
      BY <1>0, <2>2
  <2> HIDE DEF u
  <2> QED
    <3>1. lost' \in [Extractions -> BOOLEAN]
        BY <1>0, <2>2 DEF RequestTypes
    <3>2. u.seen /\ ~ambiguous[x] => extractor.run > since[x]
        BY <2>t
    <3>3. PICK q \in RowRecords : row' = [row EXCEPT ![x] = q] /\ q.status = "running"
        BY <1>0, <2>3
    <3> QED
        BY <2>1, <2>t, <2>2, <3>1, <3>2, <3>3, TrackerStep
<1>2. CASE ~(t.failures + 1 < MaxPollFailures)
  <2>1. Settle(x, "failed", row[x].counts) \/ GiveUp(x)
      BY <1>2 DEF CountFailure
  <2>2. row[x].counts \in 0..MaxRuns
      BY <1>0 DEF RowRecords
  <2> QED
      BY <2>1, <2>2, TrackerEnds
<1> QED
    BY <1>1, <1>2

(* A poll that is answered: what it read was true then.                    *)
LEMMA Polled ==
    ASSUME TrackingInv, NEW x \in Extractions, PollHealth(x)
    PROVE  TrackingInv'
<1>0. TrackingTypeOK /\ RequestTypes /\ Followed /\ SignsOfRun /\ ReadSigns
    BY DEF TrackingInv
<1>t. /\ row \in [Extractions -> RowRecords] /\ row[x] \in RowRecords
      /\ tracker[x] \in Trackers /\ extractor \in Extractors
      /\ fresh[x] \in BOOLEAN /\ since[x] \in Nat
    BY <1>0 DEF TrackingTypeOK, RequestTypes, Extractors, RowRecords, Trackers
<1> DEFINE h == [status |-> extractor.status, counts |-> extractor.counts, fresh |-> fresh[x]]
           t == [tracker[x] EXCEPT !.pc = "got", !.polls = @ + 1, !.health = h]
<1>1. /\ UNCHANGED <<extractor, row, trigger, since, fresh, ambiguous, lost>>
      /\ tracker[x].pc = "sleep" /\ tracker[x].polls < MaxIterations
      /\ tracker' = [tracker EXCEPT ![x] = t]
    BY DEF PollHealth, history
<1>2. h \in Health
    BY <1>t DEF Health, Extractors
<1>3. t \in Trackers /\ t.pc = "got" /\ t.seen = tracker[x].seen /\ t.health = h
  <2>1. tracker[x].polls + 1 \in 0..MaxIterations
      BY <1>1, <1>t, LimitsAssumption DEF Trackers
  <2>2. t \in Trackers
    <3>1. 0 \in 0..MaxPollFailures
        BY LimitsAssumption
    <3>2. [tracker[x] EXCEPT !.pc = "got", !.polls = tracker[x].polls + 1, !.health = h] \in Trackers
      <4> HIDE DEF h
      <4> QED
        BY <1>2, <1>t, <2>1, <3>1, TrackerSets
    <3> QED
        BY <3>2
  <2> QED
      BY <1>t, <2>2 DEF Trackers
<1>4. /\ h.status = extractor.status /\ h.counts = extractor.counts /\ h.fresh = fresh[x]
    OBVIOUS
<1>5. ~ambiguous[x] /\ (t.seen \/ h.status = "running" \/ RunHasStarted(h))
        => extractor.run > since[x] /\ (h.counts # 0 => h.counts > since[x])
  <2> HIDE DEF h, t
  <2> QED
    BY <1>0, <1>1, <1>3, <1>4, <1>t DEF SignsOfRun, RunHasStarted, Extractors
<1>6. row' = [row EXCEPT ![x] = row[x]] /\ row[x].status = "running"
    BY <1>0, <1>1, <1>t DEF Followed
<1>7. lost' \in [Extractions -> BOOLEAN]
    BY <1>0, <1>1 DEF RequestTypes
<1>8. t.seen /\ ~ambiguous[x] => extractor.run > since[x]
    BY <1>5
<1> HIDE DEF t, h
<1> QED
    BY <1>1, <1>3, <1>5, <1>6, <1>7, <1>8, <1>t, TrackerStep

(* A poll that is not answered, and an update that raises.                 *)
LEMMA PollFailed ==
    ASSUME TrackingInv, NEW x \in Extractions, PollFails(x) \/ ApplyFails(x)
    PROVE  TrackingInv'
<1>0. TrackingTypeOK /\ RequestTypes /\ Followed /\ SignsOfRun /\ ReadSigns
    BY DEF TrackingInv
<1>t. tracker[x] \in Trackers
    BY <1>0 DEF TrackingTypeOK, Trackers
<1>1. CASE PollFails(x)
  <2> DEFINE t == [tracker[x] EXCEPT !.polls = @ + 1]
  <2>1. t \in Trackers /\ t.seen = tracker[x].seen
      BY <1>1, <1>t, LimitsAssumption DEF PollFails, Trackers
  <2>2. CountFailure(x, t) /\ tracker[x].pc = "sleep"
        /\ UNCHANGED <<extractor, trigger, since, fresh, ambiguous>>
      BY <1>1 DEF PollFails
  <2>3. t.seen /\ ~ambiguous[x] => extractor.run > since[x]
      BY <1>0, <2>1, <2>2 DEF SignsOfRun
  <2> HIDE DEF t
  <2> QED
      BY <2>1, <2>2, <2>3, FailureCounted
<1>2. CASE ApplyFails(x)
  <2>1. PICK s \in {tracker[x].seen, Seen(x)} :
            CountFailure(x, [tracker[x] EXCEPT !.failures = 0, !.seen = s])
      BY <1>2 DEF ApplyFails
  <2> DEFINE t == [tracker[x] EXCEPT !.failures = 0, !.seen = s]
  <2>2. s \in BOOLEAN
      BY <1>t DEF Seen, Trackers
  <2>3. t \in Trackers /\ t.seen = s
    <3>1. 0 \in 0..MaxPollFailures
        BY LimitsAssumption
    <3> QED
        BY <1>t, <2>2, <3>1 DEF Trackers
  <2>4. tracker[x].pc = "got" /\ UNCHANGED <<extractor, trigger, since, fresh, ambiguous>>
      BY <1>2 DEF ApplyFails
  <2>5. s /\ ~ambiguous[x] => extractor.run > since[x]
      BY <1>0, <2>4 DEF ReadSigns, Seen
  <2> HIDE DEF t
  <2> QED
      BY <2>1, <2>3, <2>4, <2>5, FailureCounted DEF t
<1> QED
    BY <1>1, <1>2

(* The progress UPDATE and what the status says.                           *)
LEMMA Applied ==
    ASSUME TrackingInv, NEW x \in Extractions, Apply(x)
    PROVE  TrackingInv'
<1>0. TrackingTypeOK /\ RequestTypes /\ Followed /\ SignsOfRun /\ ReadSigns
    BY DEF TrackingInv
<1>t. /\ row \in [Extractions -> RowRecords] /\ row[x] \in RowRecords
      /\ tracker[x] \in Trackers /\ tracker[x].health \in Health
    BY <1>0 DEF TrackingTypeOK, RowRecords, Trackers
<1> DEFINE h == tracker[x].health
           n == tracker[x].startup + 1
           read == [row[x] EXCEPT !.counts = h.counts]
           waits == [tracker[x] EXCEPT !.pc = "sleep", !.startup = n, !.failures = 0, !.health = NoHealth]
           sees == [tracker[x] EXCEPT !.pc = "sleep", !.seen = TRUE, !.failures = 0, !.health = NoHealth]
<1>1. /\ tracker[x].pc = "got" /\ UNCHANGED <<extractor, trigger, since, fresh, ambiguous>>
      /\ row[x].status = "running"
    BY <1>0 DEF Apply, Followed
<1>2. h.counts \in 0..MaxRuns /\ h.status \in {"waiting", "running", "completed", "failed"}
    BY <1>t DEF Health
<1>3. read \in RowRecords /\ read.status = "running"
    BY <1>1, <1>2, <1>t DEF RowRecords
<1>4. \/ Settle(x, "failed", h.counts)
      \/ /\ n <= MaxStartup /\ tracker' = [tracker EXCEPT ![x] = waits]
         /\ row' = [row EXCEPT ![x] = read] /\ lost' = lost
      \/ Terminal(h, Seen(x)) /\ h.status \in {"completed", "waiting"} /\ Settle(x, "completed", h.counts)
      \/ /\ h.status = "running" /\ tracker' = [tracker EXCEPT ![x] = sees]
         /\ row' = [row EXCEPT ![x] = read] /\ lost' = lost
  <2>1. n \in Nat /\ (n > MaxStartup \/ n <= MaxStartup)
      BY <1>t, LimitsAssumption DEF Trackers
  <2>r. row' = [row EXCEPT ![x].counts = h.counts] => row' = [row EXCEPT ![x] = read]
      OBVIOUS
  <2>2. CASE ~Terminal(h, Seen(x))
    <3> HIDE DEF n, h
    <3> QED
        BY <2>1, <2>2, <2>r DEF Apply, h, n
  <2>3. CASE Terminal(h, Seen(x))
    <3>1. CASE h.status \in {"completed", "waiting"}
        BY <2>3, <3>1 DEF Apply
    <3>2. CASE h.status = "failed"
        BY <2>3, <3>2 DEF Apply
    <3>3. CASE h.status = "running"
        BY <2>3, <2>r, <3>3 DEF Apply
    <3> QED
        BY <1>2, <3>1, <3>2, <3>3
  <2> QED
      BY <2>2, <2>3
<1>5. CASE Settle(x, "failed", h.counts)
    BY <1>1, <1>2, <1>5, TrackerEnds
<1>6. CASE /\ n <= MaxStartup /\ tracker' = [tracker EXCEPT ![x] = waits]
           /\ row' = [row EXCEPT ![x] = read] /\ lost' = lost
  <2>1. waits \in Trackers /\ waits.pc = "sleep" /\ waits.seen = tracker[x].seen
    <3>1. n \in 0..MaxStartup /\ 0 \in 0..MaxPollFailures
        BY <1>6, <1>t, LimitsAssumption DEF Trackers
    <3>2. waits \in Trackers
      <4>1. [tracker[x] EXCEPT !.pc = "sleep", !.startup = n, !.failures = 0, !.health = NoHealth] \in Trackers
        <5> HIDE DEF n
        <5> QED
            BY <1>t, <3>1, OffType, TrackerSets
      <4> QED
          BY <4>1
    <3> QED
        BY <1>t, <3>2 DEF Trackers
  <2>2. waits.seen /\ ~ambiguous[x] => extractor.run > since[x]
      BY <1>0, <1>1, <2>1 DEF SignsOfRun
  <2>3. lost' \in [Extractions -> BOOLEAN]
      BY <1>0, <1>6 DEF RequestTypes
  <2> HIDE DEF waits, read
  <2> QED
      BY <1>1, <1>3, <1>6, <2>1, <2>2, <2>3, TrackerStep
<1>7. CASE Terminal(h, Seen(x)) /\ h.status \in {"completed", "waiting"} /\ Settle(x, "completed", h.counts)
  <2> DEFINE q == [status |-> "completed", counts |-> h.counts]
  <2>1. q \in RowRecords /\ q.counts = h.counts
      BY <1>2 DEF RowRecords
  <2>2. ~ambiguous[x] => extractor.run > since[x] /\ (h.counts # 0 => h.counts > since[x])
      BY <1>0, <1>1, <1>7 DEF ReadSigns, Terminal, Seen
  <2>3. /\ tracker' = [tracker EXCEPT ![x] = Off] /\ row' = [row EXCEPT ![x] = q]
        /\ lost' \in [Extractions -> BOOLEAN]
      BY <1>0, <1>7 DEF Settle, RequestTypes
  <2> HIDE DEF q, h
  <2> QED
      BY <1>1, <2>1, <2>2, <2>3, OffType, TrackerStep
<1>8. CASE /\ h.status = "running" /\ tracker' = [tracker EXCEPT ![x] = sees]
           /\ row' = [row EXCEPT ![x] = read] /\ lost' = lost
  <2>1. sees \in Trackers /\ sees.pc = "sleep"
    <3>1. 0 \in 0..MaxPollFailures
        BY LimitsAssumption
    <3>2. sees \in Trackers
      <4>1. [tracker[x] EXCEPT !.pc = "sleep", !.seen = TRUE, !.failures = 0, !.health = NoHealth] \in Trackers
        <5> HIDE DEF n
        <5> QED
            BY <1>t, <3>1, OffType, TrackerSets
      <4> QED
          BY <4>1
    <3> QED
        BY <1>t, <3>2 DEF Trackers
  <2>2. ~ambiguous[x] => extractor.run > since[x]
      BY <1>0, <1>1, <1>8 DEF ReadSigns
  <2>3. lost' \in [Extractions -> BOOLEAN]
      BY <1>0, <1>8 DEF RequestTypes
  <2> HIDE DEF sees, read
  <2> QED
      BY <1>1, <1>3, <1>8, <2>1, <2>2, <2>3, TrackerStep
<1> QED
    BY <1>4, <1>5, <1>6, <1>7, <1>8

(* A crash takes every tracker with it.                                    *)
LEMMA ProcessDies ==
    ASSUME TrackingInv, Crash
    PROVE  TrackingInv'
<1>0. TrackingTypeOK /\ RequestTypes /\ Followed /\ SignsOfRun /\ NoPhantomSuccess
    BY DEF TrackingInv
<1>1. /\ tracker' = [x \in Extractions |-> Off]
      /\ trigger' = [x \in Extractions |-> IF trigger[x] = "none" THEN "none" ELSE "done"]
      /\ UNCHANGED <<extractor, row, fresh, since, ambiguous>>
      /\ lost' \in [Extractions -> BOOLEAN]
    BY <1>0 DEF Crash, RequestTypes
<1>2. TrackingTypeOK'
    BY <1>0, <1>1, OffType DEF TrackingTypeOK, Trackers
<1>3. RequestTypes'
    BY <1>0, <1>1 DEF RequestTypes
<1>4. Followed' /\ SignsOfRun' /\ ReadSigns'
    BY <1>0, <1>1, OffType DEF Followed, SignsOfRun, ReadSigns, RequestTypes
<1>5. NoPhantomSuccess'
    BY <1>0, <1>1 DEF NoPhantomSuccess
<1> QED
    BY <1>2, <1>3, <1>4, <1>5 DEF TrackingInv

(* No sign a tracker goes by is older than its trigger, in any             *)
(* interleaving of triggers, polls, crashes and runs of the extractor.     *)
THEOREM TrackingInvariant == Spec => []TrackingInv
<1>1. Init => TrackingInv
    BY TrackingInitInv DEF Init
<1>2. TrackingInv /\ [Next]_progressVars => TrackingInv'
  <2> SUFFICES ASSUME TrackingInv, [Next]_progressVars
               PROVE  TrackingInv'
      OBVIOUS
  <2>1. [TrackingNext]_trackingVars
      BY DEF Next, Tree, Tracking, Reattachment, Analysis, RestOf, progressVars
  <2>2. CASE UNCHANGED trackingVars
      BY <2>2 DEF trackingVars, tracking, history, TrackingInv, TrackingTypeOK, RequestTypes, Followed,
                  SignsOfRun, ReadSigns, NoPhantomSuccess
  <2>3. CASE TrackingNext
    <3>1. ASSUME NEW x \in Extractions, TimeOut(x) \/ Cancel(x)
          PROVE  TrackingInv'
      <4>1. row[x].counts \in 0..MaxRuns
          BY DEF TrackingInv, TrackingTypeOK
      <4>2. /\ tracker[x].pc # "off" /\ UNCHANGED <<extractor, trigger, since, fresh, ambiguous>>
            /\ Settle(x, "failed", row[x].counts) \/ GiveUp(x)
          BY <3>1 DEF TimeOut, Cancel
      <4> QED
          BY <4>1, <4>2, TrackerEnds
    <3> QED
        BY <2>3, <3>1, TrackingAround, TrackingRequest, ProcessDies, Polled, PollFailed, Applied
        DEF TrackingNext, Track
  <2> QED
      BY <2>1, <2>2, <2>3
<1> QED
    BY <1>1, <1>2, PTL DEF Spec

-----------------------------------------------------------------------------
(* ExtractionAnalysis: the files are scanned once per window.              *)

Readers == Admins \cup Tasks
Awaited(p) == Head(reader[p].todo)

(* Types of the memos, the registry and the readers; what a scan returns   *)
(* is left open.                                                           *)
RegistryTypes ==
    /\ analysisTime \in Nat
    /\ DOMAIN memo = Entry /\ \A k \in Entry : memo[k].until \in Nat
    /\ DOMAIN flight = Entry /\ DOMAIN scans = Entry
    /\ \A k \in Entry :
          /\ DOMAIN flight[k] = {"pc", "data"}
          /\ flight[k].pc \in {"none", "running", "done", "failed"}

ReaderTypes ==
    /\ DOMAIN reader = Readers
    /\ \A p \in Readers :
          /\ DOMAIN reader[p] = {"todo", "pc", "owns", "data"}
          /\ reader[p].todo \in Seq(Entry)
          /\ reader[p].pc \in {"idle", "ask", "wait", "done", "failed", "classify"}
          /\ reader[p].owns \in BOOLEAN
          /\ reader[p].pc \in {"ask", "wait", "done", "failed"} => reader[p].todo # <<>>

(* A scan runs for the task in flight and for nothing else, and a task is  *)
(* in flight only while its memo is stale.                                 *)
ScansAreTasks ==
    \A k \in Entry :
        /\ scans[k] = (IF flight[k].pc = "running" THEN 1 ELSE 0)
        /\ flight[k].pc # "none" => ~Fresh(k)

(* An owner awaits a task that is in flight, as it is, and is its only     *)
(* owner: so its memo is written when the task has left the registry.      *)
OwnersAwait ==
    /\ \A p \in Readers : reader[p].owns =>
          /\ reader[p].pc \in {"wait", "done", "failed"}
          /\ flight[Awaited(p)].pc = (IF reader[p].pc = "wait" THEN "running" ELSE reader[p].pc)
    /\ \A p, q \in Readers :
          reader[p].owns /\ reader[q].owns /\ Awaited(p) = Awaited(q) => p = q

(* The task of a parsing-error entry reads the violations and nothing else *)
(* while it runs.                                                          *)
TasksRead ==
    \A v \in Versions :
        /\ reader[Task(v)].todo \in {<<>>, <<<<"violations", v>>>>}
        /\ reader[Task(v)].pc # "idle" => flight[<<"parsing", v>>].pc = "running"

AnalysisInv == RegistryTypes /\ ReaderTypes /\ ScansAreTasks /\ OwnersAwait /\ TasksRead

(* The names of entries and tasks.                                         *)
LEMMA EntryFacts ==
    /\ \A v \in Versions : /\ <<"parsing", v>> \in Entry /\ <<"violations", v>> \in Entry
                           /\ Task(v) \in Tasks /\ Task(v) \in Readers /\ Task(v)[2] = v
    /\ \A k \in Entry : k[1] \in Memos /\ k[2] \in Versions /\ k = <<k[1], k[2]>>
    /\ \A p \in Tasks : p[2] \in Versions /\ p = Task(p[2])
    /\ \A p \in Readers : p \notin Tasks => p \in Admins
    BY DEF Entry, Memos, Task, Tasks, Readers

LEMMA AwaitedFacts ==
    ASSUME ReaderTypes, NEW p \in Readers, reader[p].todo # <<>>
    PROVE  Awaited(p) \in Entry /\ Tail(reader[p].todo) \in Seq(Entry)
    BY HeadTailProperties DEF ReaderTypes, Awaited

(* A task's reader never awaits a parsing-error entry.                     *)
LEMMA TaskAwaits ==
    ASSUME ReaderTypes, TasksRead, NEW v \in Versions, reader[Task(v)].todo # <<>>
    PROVE  /\ Awaited(Task(v)) = <<"violations", v>>
           /\ Tail(reader[Task(v)].todo) = <<>>
<1>1. reader[Task(v)].todo = <<<<"violations", v>>>>
    BY DEF TasksRead
<1> QED
    BY <1>1 DEF Awaited

LEMMA AnalysisInitInv == AnalysisInit => AnalysisInv
<1> SUFFICES ASSUME AnalysisInit
             PROVE  AnalysisInv
    OBVIOUS
<1>1. RegistryTypes /\ ScansAreTasks
    BY DEF AnalysisInit, RegistryTypes, ScansAreTasks, Fresh, NoMemo, NoTask
<1>2. \A p \in Readers : /\ reader[p] = NotReading /\ ~NotReading.owns
                         /\ NotReading.todo = <<>> /\ NotReading.pc = "idle"
    BY DEF AnalysisInit, NotReading, Readers
<1>3. ReaderTypes
  <2>1. DOMAIN NotReading = {"todo", "pc", "owns", "data"} /\ NotReading.owns \in BOOLEAN
      BY DEF NotReading
  <2>2. <<>> \in Seq(Entry)
      OBVIOUS
  <2>3. DOMAIN reader = Readers
      BY DEF AnalysisInit, Readers
  <2> QED
      BY <1>2, <2>1, <2>2, <2>3 DEF ReaderTypes
<1>4. OwnersAwait /\ TasksRead
    BY <1>2, EntryFacts DEF OwnersAwait, TasksRead
<1> QED
    BY <1>1, <1>3, <1>4 DEF AnalysisInv

(* Records, the clock and new requests.                                    *)
LEMMA AnalysisAround ==
    ASSUME AnalysisInv,
           \/ \E v \in Versions, l \in Lines : FlagRecord(v, l)
           \/ AnalysisClock
           \/ \E c \in Admins, plan \in Plans : Request(c, plan)
    PROVE  AnalysisInv'
<1>0. RegistryTypes /\ ReaderTypes /\ ScansAreTasks /\ OwnersAwait /\ TasksRead
    BY DEF AnalysisInv
<1>1. CASE (\E v \in Versions, l \in Lines : FlagRecord(v, l)) \/ AnalysisClock
  <2>1. UNCHANGED <<memo, flight, reader, scans>> /\ analysisTime' \in Nat
        /\ analysisTime' >= analysisTime
    <3>1. CASE AnalysisClock
        BY <1>0, <3>1 DEF RegistryTypes, AnalysisClock
    <3>2. ASSUME NEW v \in Versions, NEW l \in Lines, FlagRecord(v, l)
          PROVE  UNCHANGED <<memo, flight, reader, scans>> /\ analysisTime' = analysisTime
        BY <3>2, Zenon DEF FlagRecord
    <3> QED
        BY <1>0, <1>1, <3>1, <3>2 DEF RegistryTypes
  <2>2. RegistryTypes' /\ ReaderTypes' /\ OwnersAwait' /\ TasksRead'
      BY <1>0, <2>1 DEF RegistryTypes, ReaderTypes, OwnersAwait, TasksRead, Awaited
  <2>3. ScansAreTasks'
      BY <1>0, <2>1 DEF ScansAreTasks, Fresh, RegistryTypes
  <2> QED
      BY <2>2, <2>3 DEF AnalysisInv
<1>2. ASSUME NEW c \in Admins, NEW plan \in Plans, Request(c, plan)
      PROVE  AnalysisInv'
  <2> DEFINE r == [NotReading EXCEPT !.todo = plan, !.pc = "ask"]
  <2>1. /\ reader[c].todo = <<>> /\ reader' = [reader EXCEPT ![c] = r]
        /\ UNCHANGED <<memo, flight, scans, analysisTime>>
      BY <1>2 DEF Request
  <2>2. /\ r.todo = plan /\ r.pc = "ask" /\ r.owns = FALSE
        /\ DOMAIN r = {"todo", "pc", "owns", "data"}
      BY DEF NotReading
  <2>3. plan \in Seq(Entry) /\ plan # <<>> /\ c \in Readers /\ c \notin Tasks
      BY RequestsAssumption DEF Readers
  <2> HIDE DEF r
  <2>4. RegistryTypes' /\ ScansAreTasks'
      BY <1>0, <2>1 DEF RegistryTypes, ScansAreTasks, Fresh
  <2>5. ReaderTypes'
      BY <1>0, <2>1, <2>2, <2>3 DEF ReaderTypes
  <2>6. OwnersAwait'
      BY <1>0, <2>1, <2>2, <2>3 DEF OwnersAwait, Awaited, ReaderTypes
  <2>7. TasksRead'
    <3>1. \A v \in Versions : reader'[Task(v)] = reader[Task(v)] /\ flight' = flight
        BY <1>0, <2>1, <2>3, EntryFacts DEF ReaderTypes
    <3> QED
        BY <1>0, <3>1 DEF TasksRead
  <2> QED
      BY <2>4, <2>5, <2>6, <2>7 DEF AnalysisInv
<1> QED
    BY <1>1, <1>2

(* A reader that neither owned a task nor owns one now.                    *)
LEMMA ReaderMoves ==
    ASSUME AnalysisInv, NEW p \in Readers, ~reader[p].owns,
           UNCHANGED <<memo, flight, scans, analysisTime>>,
           NEW r, reader' = [reader EXCEPT ![p] = r],
           DOMAIN r = {"todo", "pc", "owns", "data"}, r.owns = FALSE, r.todo \in Seq(Entry),
           r.pc \in {"idle", "ask", "wait", "done", "failed", "classify"},
           r.pc \in {"ask", "wait", "done", "failed"} => r.todo # <<>>,
           p \in Tasks => r.todo \in {<<>>, reader[p].todo} /\ reader[p].pc # "idle"
    PROVE  AnalysisInv'
<1>0. RegistryTypes /\ ReaderTypes /\ ScansAreTasks /\ OwnersAwait /\ TasksRead
    BY DEF AnalysisInv
<1>1. /\ DOMAIN reader' = Readers /\ reader'[p] = r
      /\ \A q \in Readers : q # p => reader'[q] = reader[q]
    BY <1>0 DEF ReaderTypes
<1>2. RegistryTypes' /\ ScansAreTasks'
    BY <1>0 DEF RegistryTypes, ScansAreTasks, Fresh
<1>3. ReaderTypes'
    BY <1>0, <1>1 DEF ReaderTypes
<1>4. OwnersAwait'
    BY <1>0, <1>1 DEF OwnersAwait, Awaited
<1>5. TasksRead'
  <2> SUFFICES ASSUME NEW v \in Versions
               PROVE  /\ reader'[Task(v)].todo \in {<<>>, <<<<"violations", v>>>>}
                      /\ reader'[Task(v)].pc # "idle" => flight[<<"parsing", v>>].pc = "running"
      BY DEF TasksRead
  <2>1. Task(v) \in Readers /\ Task(v) \in Tasks
      BY EntryFacts
  <2>2. /\ reader[Task(v)].todo \in {<<>>, <<<<"violations", v>>>>}
        /\ reader[Task(v)].pc # "idle" => flight[<<"parsing", v>>].pc = "running"
      BY <1>0 DEF TasksRead
  <2>3. CASE Task(v) = p
      BY <1>1, <2>1, <2>2, <2>3
  <2>4. CASE Task(v) # p
      BY <1>1, <2>1, <2>2, <2>4
  <2> QED
      BY <2>3, <2>4
<1> QED
    BY <1>2, <1>3, <1>4, <1>5 DEF AnalysisInv

(* What a reader goes on with.                                             *)
LEMMA ReceiveFacts ==
    ASSUME ReaderTypes, TasksRead, NEW p \in Readers, reader[p].todo # <<>>, NEW data
    PROVE  LET r == Receive(p, data) IN
           /\ DOMAIN r = {"todo", "pc", "owns", "data"} /\ r.owns = FALSE
           /\ r.todo = Tail(reader[p].todo) /\ r.todo \in Seq(Entry)
           /\ r.pc = (IF r.todo # <<>> THEN "ask" ELSE IF p \in Tasks THEN "classify" ELSE "idle")
           /\ p \in Tasks => r.todo = <<>> /\ r.pc = "classify"
<1>1. Tail(reader[p].todo) \in Seq(Entry)
    BY AwaitedFacts
<1>2. p \in Tasks => Tail(reader[p].todo) = <<>>
    BY EntryFacts, TaskAwaits
<1> DEFINE rest == Tail(reader[p].todo)
<1>3. Receive(p, data) =
        [NotReading EXCEPT !.todo = rest,
                           !.pc = IF rest # <<>> THEN "ask" ELSE IF p \in Tasks THEN "classify" ELSE "idle",
                           !.data = IF p \in Tasks THEN data ELSE <<>>]
    BY DEF Receive
<1> HIDE DEF rest
<1> QED
    BY <1>1, <1>2, <1>3 DEF NotReading, rest

(* Hit and Join.                                                           *)
LEMMA ReaderAsks ==
    ASSUME AnalysisInv, NEW p \in Readers, Hit(p) \/ Join(p)
    PROVE  AnalysisInv'
<1>0. RegistryTypes /\ ReaderTypes /\ ScansAreTasks /\ OwnersAwait /\ TasksRead
    BY DEF AnalysisInv
<1>1. /\ reader[p].pc = "ask" /\ ~reader[p].owns /\ reader[p].todo # <<>>
      /\ UNCHANGED <<memo, flight, scans, analysisTime>>
    BY <1>0 DEF Hit, Join, OwnersAwait, ReaderTypes
<1>2. CASE Hit(p)
  <2>1. PICK data : reader' = [reader EXCEPT ![p] = Receive(p, data)]
      BY <1>2 DEF Hit
  <2> QED
      BY <1>0, <1>1, <2>1, ReceiveFacts, ReaderMoves
<1>3. CASE Join(p)
  <2> DEFINE k == Head(reader[p].todo)
             c == IF flight[k].pc = "running" THEN "wait" ELSE flight[k].pc
             r == [reader[p] EXCEPT !.pc = c, !.data = flight[k].data]
  <2>1. reader' = [reader EXCEPT ![p] = r] /\ flight[k].pc # "none"
      BY <1>3 DEF Join, InFlight
  <2>2. k \in Entry
      BY <1>0, <1>1, AwaitedFacts DEF Awaited
  <2>3. c \in {"wait", "done", "failed"}
      BY <1>0, <2>1, <2>2 DEF RegistryTypes
  <2>4. DOMAIN r = DOMAIN reader[p] /\ r.todo = reader[p].todo /\ r.owns = reader[p].owns /\ r.pc = c
    <3> HIDE DEF c, k
    <3> QED
        BY <1>0 DEF ReaderTypes
  <2>5. reader[p].todo \in Seq(Entry) /\ DOMAIN reader[p] = {"todo", "pc", "owns", "data"}
        /\ reader[p].owns = FALSE
      BY <1>0, <1>1 DEF ReaderTypes
  <2> HIDE DEF r, c, k
  <2> QED
      BY <1>1, <2>1, <2>3, <2>4, <2>5, ReaderMoves
<1> QED
    BY <1>2, <1>3

(* A new task: p owns it, and the one of a parsing-error entry begins to   *)
(* read.                                                                   *)
LEMMA Launched ==
    ASSUME AnalysisInv, NEW p \in Readers, Launch(p)
    PROVE  AnalysisInv'
<1>0. RegistryTypes /\ ReaderTypes /\ ScansAreTasks /\ OwnersAwait /\ TasksRead
    BY DEF AnalysisInv
<1> DEFINE k == Head(reader[p].todo)
           t == Task(k[2])
           own == [[reader[p] EXCEPT !.pc = "wait"] EXCEPT !.owns = TRUE]
           first == [NotReading EXCEPT !.todo = <<<<"violations", k[2]>>>>, !.pc = "ask"]
<1>1. /\ reader[p].pc = "ask" /\ reader[p].todo # <<>> /\ ~reader[p].owns
      /\ ~Fresh(k) /\ flight[k].pc = "none"
      /\ flight' = [flight EXCEPT ![k].pc = "running"] /\ scans' = [scans EXCEPT ![k] = @ + 1]
      /\ UNCHANGED <<memo, analysisTime>>
    BY <1>0 DEF Launch, InFlight, ReaderTypes, OwnersAwait
<1>2. k \in Entry /\ k[2] \in Versions /\ t \in Readers /\ k = Awaited(p)
    BY <1>0, <1>1, AwaitedFacts, EntryFacts DEF Awaited
<1>3. k[1] = "parsing" => p # t /\ p \notin Tasks /\ k = <<"parsing", k[2]>> /\ reader[t].pc = "idle"
  <2> SUFFICES ASSUME k[1] = "parsing"
               PROVE  p \notin Tasks /\ k = <<"parsing", k[2]>> /\ reader[t].pc = "idle"
      BY <1>2, EntryFacts
  <2>1. k = <<"parsing", k[2]>>
      BY <1>2, EntryFacts
  <2>2. p \in Tasks => k = <<"violations", p[2]>>
      BY <1>0, <1>1, <1>2, EntryFacts, TaskAwaits
  <2>3. k[1] # "violations"
      OBVIOUS
  <2>4. p \notin Tasks
      BY <2>2, <2>3
  <2>5. reader[t].pc = "idle"
      BY <1>0, <1>1, <1>2, <2>1 DEF TasksRead
  <2> QED
      BY <2>1, <2>4, <2>5
<1>4. /\ DOMAIN own = {"todo", "pc", "owns", "data"} /\ own.todo = reader[p].todo
      /\ own.pc = "wait" /\ own.owns = TRUE
    BY <1>0 DEF ReaderTypes
<1>5. /\ DOMAIN first = {"todo", "pc", "owns", "data"} /\ first.todo = <<<<"violations", k[2]>>>>
      /\ first.pc = "ask" /\ first.owns = FALSE
    BY DEF NotReading
<1>6. /\ DOMAIN reader' = Readers /\ reader'[p] = own
      /\ k[1] = "parsing" => reader'[t] = first
      /\ \A q \in Readers : q # p /\ (k[1] = "parsing" => q # t) => reader'[q] = reader[q]
  <2>1. reader' = IF k[1] = "parsing" THEN [[reader EXCEPT ![p] = own] EXCEPT ![t] = first]
                                      ELSE [reader EXCEPT ![p] = own]
      BY DEF Launch
  <2> HIDE DEF own, first, t
  <2> QED
      BY <1>0, <1>2, <1>3, <2>1 DEF ReaderTypes
<1>7. /\ DOMAIN flight' = Entry /\ DOMAIN scans' = Entry
      /\ DOMAIN flight'[k] = {"pc", "data"} /\ flight'[k].pc = "running" /\ scans'[k] = scans[k] + 1
      /\ \A j \in Entry : j # k => flight'[j] = flight[j] /\ scans'[j] = scans[j]
    BY <1>0, <1>1, <1>2 DEF RegistryTypes
<1>8. <<<<"violations", k[2]>>>> \in Seq(Entry) /\ <<<<"violations", k[2]>>>> # <<>>
  <2>1. \A e \in Entry : <<e>> \in Seq(Entry) /\ <<e>> # <<>>
      OBVIOUS
  <2> QED
      BY <1>2, <2>1, EntryFacts
<1> HIDE DEF own, first, k, t
<1>9. RegistryTypes' /\ ScansAreTasks'
    BY <1>0, <1>1, <1>2, <1>7 DEF RegistryTypes, ScansAreTasks, Fresh
<1>10. ReaderTypes'
  <2> DEFINE typed(r) == /\ DOMAIN r = {"todo", "pc", "owns", "data"} /\ r.todo \in Seq(Entry)
                         /\ r.pc \in {"idle", "ask", "wait", "done", "failed", "classify"}
                         /\ r.owns \in BOOLEAN
                         /\ r.pc \in {"ask", "wait", "done", "failed"} => r.todo # <<>>
  <2>1. \A q \in Readers : typed(reader[q])
      BY <1>0 DEF ReaderTypes
  <2>2. typed(own) /\ typed(first)
      BY <1>1, <1>4, <1>5, <1>8, <2>1
  <2> HIDE DEF typed
  <2>3. \A q \in Readers : typed(reader'[q])
      BY <1>6, <2>1, <2>2
  <2> QED
      BY <1>6, <2>3 DEF ReaderTypes, typed
<1>11. OwnersAwait'
  <2>1. \A q \in Readers : reader'[q].owns /\ q # p => reader'[q] = reader[q] /\ reader[q].owns
      BY <1>5, <1>6
  <2>2. \A q \in Readers : reader'[q].owns /\ q # p => Awaited(q) # k
      BY <1>0, <1>1, <2>1 DEF OwnersAwait
  <2>3. \A q \in Readers : reader'[q].owns /\ q # p => Awaited(q) \in Entry
      BY <1>0, <2>1, AwaitedFacts DEF OwnersAwait, ReaderTypes
  <2> QED
      BY <1>0, <1>2, <1>4, <1>6, <1>7, <2>1, <2>2, <2>3 DEF OwnersAwait, Awaited
<1>12. TasksRead'
  <2> SUFFICES ASSUME NEW v \in Versions
               PROVE  /\ reader'[Task(v)].todo \in {<<>>, <<<<"violations", v>>>>}
                      /\ reader'[Task(v)].pc # "idle" => flight'[<<"parsing", v>>].pc = "running"
      BY DEF TasksRead
  <2>1. CASE k[1] = "parsing" /\ v = k[2]
      BY <1>3, <1>5, <1>6, <1>7, <2>1 DEF t
  <2>2. CASE ~(k[1] = "parsing" /\ v = k[2])
    <3>1. k[1] = "parsing" => Task(v) # t
        BY <1>2, <2>2, EntryFacts DEF t
    <3>2. <<"parsing", v>> # k
        BY <2>2
    <3>3. CASE Task(v) = p
      <4>1. reader'[Task(v)].todo = reader[Task(v)].todo /\ reader[Task(v)].pc # "idle"
          BY <1>1, <1>4, <1>6, <3>3
      <4> QED
          BY <1>0, <1>7, <3>2, <4>1, EntryFacts DEF TasksRead
    <3>4. CASE Task(v) # p
      <4>1. reader'[Task(v)] = reader[Task(v)]
          BY <1>6, <3>1, <3>4, EntryFacts
      <4> QED
          BY <1>0, <1>7, <3>2, <4>1, EntryFacts DEF TasksRead
    <3> QED
        BY <3>3, <3>4
  <2> QED
      BY <2>1, <2>2
<1> QED
    BY <1>9, <1>10, <1>11, <1>12 DEF AnalysisInv

(* The task of k ends with c, and everything that awaits it is scheduled;  *)
(* the reader of a parsing-error task goes, and drops the tasks it owned.  *)
EndsWith(k, c, gone) ==
    /\ flight[k].pc = "running" /\ UNCHANGED <<memo, analysisTime>>
    /\ scans' = [scans EXCEPT ![k] = @ - 1]
    /\ k \notin gone /\ \A j \in gone : flight[j].pc # "running"
    /\ DOMAIN flight' = Entry /\ DOMAIN flight'[k] = {"pc", "data"} /\ flight'[k].pc = c
    /\ \A j \in Entry : j # k => flight'[j] = (IF j \in gone THEN NoTask ELSE flight[j])
    /\ DOMAIN reader' = Readers
    /\ \A q \in Readers : reader[q].owns /\ Awaited(q) \in gone => reader'[q] = NotReading
    /\ k[1] = "parsing" => reader'[Task(k[2])] = NotReading
    /\ \A q \in Readers :
          \/ reader'[q] = NotReading /\ k = <<"parsing", k[2]>> /\ q = Task(k[2])
          \/ /\ reader[q].pc = "wait" /\ Awaited(q) = k
             /\ DOMAIN reader'[q] = DOMAIN reader[q] /\ reader'[q].todo = reader[q].todo
             /\ reader'[q].owns = reader[q].owns /\ reader'[q].pc = c
          \/ ~(reader[q].pc = "wait" /\ Awaited(q) = k) /\ reader'[q] = reader[q]

LEMMA TaskEnded ==
    ASSUME AnalysisInv, NEW k \in Entry, NEW c \in {"done", "failed"}, NEW gone \in SUBSET Entry,
           EndsWith(k, c, gone)
    PROVE  AnalysisInv'
<1> USE DEF EndsWith
<1>0. RegistryTypes /\ ReaderTypes /\ ScansAreTasks /\ OwnersAwait /\ TasksRead
    BY DEF AnalysisInv
<1>1. /\ DOMAIN NotReading = {"todo", "pc", "owns", "data"} /\ NotReading.todo = <<>>
      /\ NotReading.pc = "idle" /\ NotReading.owns = FALSE
      /\ DOMAIN NoTask = {"pc", "data"} /\ NoTask.pc = "none" /\ <<>> \in Seq(Entry)
    BY DEF NotReading, NoTask
<1>2. /\ DOMAIN scans' = Entry /\ scans'[k] = scans[k] - 1
      /\ \A j \in Entry : j # k => scans'[j] = scans[j]
    BY <1>0 DEF RegistryTypes
<1>3. RegistryTypes'
    BY <1>0, <1>1, <1>2 DEF RegistryTypes
<1>4. ScansAreTasks'
  <2> SUFFICES ASSUME NEW j \in Entry
               PROVE  /\ scans'[j] = (IF flight'[j].pc = "running" THEN 1 ELSE 0)
                      /\ flight'[j].pc # "none" => ~Fresh(j)'
      BY DEF ScansAreTasks
  <2>1. Fresh(j)' <=> Fresh(j)
      BY DEF Fresh
  <2>2. CASE j = k
      BY <1>0, <1>2, <2>1, <2>2 DEF ScansAreTasks
  <2>3. CASE j # k
      BY <1>0, <1>1, <1>2, <2>1, <2>3 DEF ScansAreTasks
  <2> QED
      BY <2>2, <2>3
<1>5. ReaderTypes'
  <2> SUFFICES ASSUME NEW q \in Readers
               PROVE  /\ DOMAIN reader'[q] = {"todo", "pc", "owns", "data"}
                      /\ reader'[q].todo \in Seq(Entry)
                      /\ reader'[q].pc \in {"idle", "ask", "wait", "done", "failed", "classify"}
                      /\ reader'[q].owns \in BOOLEAN
                      /\ reader'[q].pc \in {"ask", "wait", "done", "failed"} => reader'[q].todo # <<>>
      BY DEF ReaderTypes
  <2>1. CASE reader'[q] = NotReading
      BY <1>1, <2>1
  <2>2. CASE reader'[q] = reader[q]
      BY <1>0, <2>2 DEF ReaderTypes
  <2>3. CASE /\ reader[q].pc = "wait"
             /\ DOMAIN reader'[q] = DOMAIN reader[q] /\ reader'[q].todo = reader[q].todo
             /\ reader'[q].owns = reader[q].owns /\ reader'[q].pc = c
      BY <1>0, <2>3 DEF ReaderTypes
  <2> QED
      BY <2>1, <2>2, <2>3
<1>6. OwnersAwait'
  <2>1. ASSUME NEW q \in Readers, reader'[q].owns
        PROVE  /\ reader[q].owns /\ Awaited(q)' = Awaited(q)
               /\ reader'[q].pc \in {"wait", "done", "failed"}
               /\ flight'[Awaited(q)].pc = (IF reader'[q].pc = "wait" THEN "running" ELSE reader'[q].pc)
    <3>1. reader[q].owns /\ Awaited(q)' = Awaited(q) /\ reader'[q] # NotReading
        BY <1>1, <2>1 DEF Awaited
    <3>2. Awaited(q) \in Entry /\ Awaited(q) \notin gone
        BY <1>0, <2>1, <3>1, AwaitedFacts DEF OwnersAwait, ReaderTypes
    <3>3. CASE Awaited(q) = k
      <4>1. reader[q].pc = "wait"
          BY <1>0, <3>1, <3>3 DEF OwnersAwait
      <4> QED
          BY <3>1, <3>3, <4>1
    <3>4. CASE Awaited(q) # k
      <4>1. reader'[q] = reader[q] /\ flight'[Awaited(q)] = flight[Awaited(q)]
          BY <3>1, <3>2, <3>4
      <4> QED
          BY <1>0, <3>1, <4>1 DEF OwnersAwait
    <3> QED
        BY <3>3, <3>4
  <2> QED
      BY <1>0, <2>1 DEF OwnersAwait
<1>7. TasksRead'
  <2> SUFFICES ASSUME NEW v \in Versions
               PROVE  /\ reader'[Task(v)].todo \in {<<>>, <<<<"violations", v>>>>}
                      /\ reader'[Task(v)].pc # "idle" => flight'[<<"parsing", v>>].pc = "running"
      BY DEF TasksRead
  <2>1. Task(v) \in Readers /\ <<"parsing", v>> \in Entry
      BY EntryFacts
  <2>2. /\ reader[Task(v)].todo \in {<<>>, <<<<"violations", v>>>>}
        /\ reader[Task(v)].pc # "idle" => flight[<<"parsing", v>>].pc = "running"
      BY <1>0 DEF TasksRead
  <2>3. CASE k = <<"parsing", v>>
    <3>1. reader'[Task(v)] = NotReading
        BY <2>3
    <3> QED
        BY <1>1, <3>1
  <2>4. CASE k # <<"parsing", v>>
    <3>1. flight[<<"parsing", v>>].pc = "running" => flight'[<<"parsing", v>>] = flight[<<"parsing", v>>]
        BY <2>1, <2>4
    <3>2. \/ reader'[Task(v)] = NotReading
          \/ reader'[Task(v)].todo = reader[Task(v)].todo /\ reader[Task(v)].pc = "wait"
          \/ reader'[Task(v)] = reader[Task(v)]
        BY <2>1
    <3> QED
        BY <1>1, <2>2, <3>1, <3>2
  <2> QED
      BY <2>3, <2>4
<1> QED
    BY <1>3, <1>4, <1>5, <1>6, <1>7 DEF AnalysisInv

(* TaskEnds wakes exactly the readers that await the task.                 *)
LEMMA TaskEndsWakes ==
    ASSUME NEW k \in Entry, NEW c, NEW d, NEW readers, DOMAIN readers = Readers,
           \A q \in Readers : DOMAIN readers[q] = {"todo", "pc", "owns", "data"},
           RegistryTypes, TaskEnds(k, c, d, readers)
    PROVE  /\ scans' = [scans EXCEPT ![k] = @ - 1]
           /\ DOMAIN flight' = Entry /\ DOMAIN flight'[k] = {"pc", "data"} /\ flight'[k].pc = c
           /\ \A j \in Entry : j # k => flight'[j] = flight[j]
           /\ DOMAIN reader' = Readers
           /\ \A q \in Readers :
                IF readers[q].pc = "wait" /\ Head(readers[q].todo) = k
                THEN /\ DOMAIN reader'[q] = DOMAIN readers[q] /\ reader'[q].todo = readers[q].todo
                     /\ reader'[q].owns = readers[q].owns /\ reader'[q].pc = c
                ELSE reader'[q] = readers[q]
<1>1. /\ flight' = [flight EXCEPT ![k] = [pc |-> c, data |-> d]]
      /\ scans' = [scans EXCEPT ![k] = @ - 1]
      /\ reader' = [q \in DOMAIN readers |->
                      IF readers[q].pc = "wait" /\ Head(readers[q].todo) = k
                      THEN [readers[q] EXCEPT !.pc = c, !.data = d] ELSE readers[q]]
    BY DEF TaskEnds
<1>2. \A q \in Readers : LET r == [readers[q] EXCEPT !.pc = c, !.data = d] IN
          /\ DOMAIN r = DOMAIN readers[q] /\ r.todo = readers[q].todo
          /\ r.owns = readers[q].owns /\ r.pc = c
    OBVIOUS
<1>3. /\ DOMAIN reader' = Readers
      /\ \A q \in Readers :
            IF readers[q].pc = "wait" /\ Head(readers[q].todo) = k
            THEN reader'[q] = [readers[q] EXCEPT !.pc = c, !.data = d] ELSE reader'[q] = readers[q]
    BY <1>1
<1>4. \A q \in Readers :
            IF readers[q].pc = "wait" /\ Head(readers[q].todo) = k
            THEN /\ DOMAIN reader'[q] = DOMAIN readers[q] /\ reader'[q].todo = readers[q].todo
                 /\ reader'[q].owns = readers[q].owns /\ reader'[q].pc = c
            ELSE reader'[q] = readers[q]
    BY <1>2, <1>3
<1>5. DOMAIN flight' = Entry /\ DOMAIN flight'[k] = {"pc", "data"} /\ flight'[k].pc = c
      /\ \A j \in Entry : j # k => flight'[j] = flight[j]
    BY <1>1 DEF RegistryTypes
<1> QED
    BY <1>1, <1>3, <1>4, <1>5

(* The worker thread, and the classification of a parsing-error task.      *)
LEMMA ScanOver ==
    ASSUME AnalysisInv, ScanStep
    PROVE  AnalysisInv'
<1>0. RegistryTypes /\ ReaderTypes /\ ScansAreTasks /\ OwnersAwait /\ TasksRead
    BY DEF AnalysisInv
<1>1. ASSUME NEW k \in Entry, ScanEnds(k)
      PROVE  AnalysisInv'
  <2>0. PICK c \in {"done", "failed"} : \E d : TaskEnds(k, c, d, reader)
      BY <1>1 DEF ScanEnds
  <2>1. PICK d : TaskEnds(k, c, d, reader)
      BY <2>0
  <2>2. k[1] # "parsing" /\ flight[k].pc = "running" /\ UNCHANGED <<memo, analysisTime>>
      BY <1>1 DEF ScanEnds
  <2>3. /\ scans' = [scans EXCEPT ![k] = @ - 1]
        /\ DOMAIN flight' = Entry /\ DOMAIN flight'[k] = {"pc", "data"} /\ flight'[k].pc = c
        /\ \A j \in Entry : j # k => flight'[j] = flight[j]
        /\ DOMAIN reader' = Readers
        /\ \A q \in Readers :
                IF reader[q].pc = "wait" /\ Awaited(q) = k
                THEN /\ DOMAIN reader'[q] = DOMAIN reader[q] /\ reader'[q].todo = reader[q].todo
                     /\ reader'[q].owns = reader[q].owns /\ reader'[q].pc = c
                ELSE reader'[q] = reader[q]
      BY <1>0, <2>1, TaskEndsWakes DEF ReaderTypes, Awaited
  <2> QED
    <3>1. EndsWith(k, c, {})
        BY <2>2, <2>3 DEF EndsWith
    <3> QED
        BY <2>0, <3>1, TaskEnded
<1>2. ASSUME NEW v \in Versions, ClassifyEnds(v)
      PROVE  AnalysisInv'
  <2> DEFINE k == <<"parsing", v>>
             readers == [reader EXCEPT ![Task(v)] = NotReading]
  <2>1. PICK d : TaskEnds(k, "done", d, readers)
      BY <1>2 DEF ClassifyEnds
  <2>2. /\ reader[Task(v)].pc = "classify" /\ UNCHANGED <<memo, analysisTime>>
      BY <1>2 DEF ClassifyEnds
  <2>3. k \in Entry /\ flight[k].pc = "running" /\ Task(v) \in Readers /\ k[1] = "parsing" /\ k[2] = v
      BY <1>0, <2>2, EntryFacts DEF TasksRead
  <2>4. /\ DOMAIN readers = Readers /\ readers[Task(v)] = NotReading
        /\ \A q \in Readers : q # Task(v) => readers[q] = reader[q]
      BY <1>0, <2>3 DEF ReaderTypes
  <2>5. /\ DOMAIN NotReading = {"todo", "pc", "owns", "data"} /\ NotReading.pc = "idle"
      BY DEF NotReading
  <2>6. \A q \in Readers : DOMAIN readers[q] = {"todo", "pc", "owns", "data"}
      BY <1>0, <2>4, <2>5 DEF ReaderTypes
  <2> HIDE DEF k, readers
  <2>7. /\ scans' = [scans EXCEPT ![k] = @ - 1]
        /\ DOMAIN flight' = Entry /\ DOMAIN flight'[k] = {"pc", "data"} /\ flight'[k].pc = "done"
        /\ \A j \in Entry : j # k => flight'[j] = flight[j]
        /\ DOMAIN reader' = Readers
        /\ \A q \in Readers :
                IF readers[q].pc = "wait" /\ Head(readers[q].todo) = k
                THEN /\ DOMAIN reader'[q] = DOMAIN readers[q] /\ reader'[q].todo = readers[q].todo
                     /\ reader'[q].owns = readers[q].owns /\ reader'[q].pc = "done"
                ELSE reader'[q] = readers[q]
      BY <1>0, <2>1, <2>3, <2>4, <2>6, TaskEndsWakes
  <2>8. reader'[Task(v)] = NotReading
      BY <2>3, <2>4, <2>5, <2>7
  <2>9. \A q \in Readers :
               \/ reader'[q] = NotReading /\ k = <<"parsing", k[2]>> /\ q = Task(k[2])
               \/ /\ reader[q].pc = "wait" /\ Awaited(q) = k
                  /\ DOMAIN reader'[q] = DOMAIN reader[q] /\ reader'[q].todo = reader[q].todo
                  /\ reader'[q].owns = reader[q].owns /\ reader'[q].pc = "done"
               \/ ~(reader[q].pc = "wait" /\ Awaited(q) = k) /\ reader'[q] = reader[q]
    <3> SUFFICES ASSUME NEW q \in Readers, q # Task(v)
                 PROVE  \/ /\ reader[q].pc = "wait" /\ Awaited(q) = k
                           /\ DOMAIN reader'[q] = DOMAIN reader[q] /\ reader'[q].todo = reader[q].todo
                           /\ reader'[q].owns = reader[q].owns /\ reader'[q].pc = "done"
                        \/ ~(reader[q].pc = "wait" /\ Awaited(q) = k) /\ reader'[q] = reader[q]
        BY <2>3, <2>8 DEF k
    <3>1. readers[q] = reader[q]
        BY <2>4
    <3> QED
        BY <2>7, <3>1 DEF Awaited
  <2>10. reader'[Task(k[2])] = NotReading
      BY <2>3, <2>8
  <2>11. EndsWith(k, "done", {})
      BY <2>2, <2>3, <2>7, <2>9, <2>10 DEF EndsWith
  <2> QED
      BY <2>3, <2>11, TaskEnded
<1> QED
    BY <1>1, <1>2 DEF ScanStep

(* A reader whose task has ended goes on; an owner drops the task, and     *)
(* only then stores its result.                                            *)
LEMMA ReaderLeaves ==
    ASSUME AnalysisInv, NEW p \in Readers, reader[p].pc \in {"done", "failed"},
           NEW r, reader' = [reader EXCEPT ![p] = r],
           DOMAIN r = {"todo", "pc", "owns", "data"}, r.owns = FALSE, r.todo \in Seq(Entry),
           r.pc \in {"idle", "ask", "classify"}, r.pc = "ask" => r.todo # <<>>,
           p \in Tasks => r.todo = <<>>,
           UNCHANGED <<scans, analysisTime>>,
           flight' = (IF reader[p].owns THEN [flight EXCEPT ![Awaited(p)] = NoTask] ELSE flight),
           DOMAIN memo' = Entry,
           \A j \in Entry : memo'[j].until \in Nat /\ (memo'[j] = memo[j] \/ (reader[p].owns /\ j = Awaited(p)))
    PROVE  AnalysisInv'
<1>0. RegistryTypes /\ ReaderTypes /\ ScansAreTasks /\ OwnersAwait /\ TasksRead
    BY DEF AnalysisInv
<1>1. /\ DOMAIN reader' = Readers /\ reader'[p] = r
      /\ \A q \in Readers : q # p => reader'[q] = reader[q]
    BY <1>0 DEF ReaderTypes
<1>2. Awaited(p) \in Entry
    BY <1>0, AwaitedFacts DEF ReaderTypes
<1>3. /\ DOMAIN flight' = Entry
      /\ reader[p].owns => /\ flight'[Awaited(p)] = NoTask
                           /\ flight[Awaited(p)].pc # "running"
      /\ \A j \in Entry : ~(reader[p].owns /\ j = Awaited(p)) => flight'[j] = flight[j]
  <2>1. reader[p].owns => flight[Awaited(p)].pc # "running"
      BY <1>0 DEF OwnersAwait
  <2>2. CASE reader[p].owns
      BY <1>0, <1>2, <2>1, <2>2 DEF RegistryTypes
  <2>3. CASE ~reader[p].owns
      BY <1>0, <2>3 DEF RegistryTypes
  <2> QED
      BY <2>2, <2>3
<1>4. DOMAIN NoTask = {"pc", "data"} /\ NoTask.pc = "none"
    BY DEF NoTask
<1>5. RegistryTypes'
    BY <1>0, <1>3, <1>4 DEF RegistryTypes
<1>6. ScansAreTasks'
  <2> SUFFICES ASSUME NEW j \in Entry
               PROVE  /\ scans'[j] = (IF flight'[j].pc = "running" THEN 1 ELSE 0)
                      /\ flight'[j].pc # "none" => ~Fresh(j)'
      BY DEF ScansAreTasks
  <2>1. CASE reader[p].owns /\ j = Awaited(p)
      BY <1>0, <1>3, <1>4, <2>1 DEF ScansAreTasks
  <2>2. CASE ~(reader[p].owns /\ j = Awaited(p))
    <3>1. memo'[j] = memo[j] /\ flight'[j] = flight[j]
        BY <1>3, <2>2
    <3> QED
        BY <1>0, <3>1 DEF ScansAreTasks, Fresh
  <2> QED
      BY <2>1, <2>2
<1>7. ReaderTypes'
    BY <1>0, <1>1 DEF ReaderTypes
<1>8. OwnersAwait'
  <2>1. ASSUME NEW q \in Readers, reader'[q].owns
        PROVE  /\ q # p /\ reader'[q] = reader[q] /\ Awaited(q)' = Awaited(q)
               /\ flight'[Awaited(q)] = flight[Awaited(q)]
    <3>1. q # p /\ reader'[q] = reader[q]
        BY <1>1, <2>1
    <3>2. Awaited(q) \in Entry
        BY <1>0, <2>1, <3>1, AwaitedFacts DEF OwnersAwait, ReaderTypes
    <3>3. ~(reader[p].owns /\ Awaited(q) = Awaited(p))
        BY <1>0, <2>1, <3>1 DEF OwnersAwait
    <3> QED
        BY <1>3, <3>1, <3>2, <3>3 DEF Awaited
  <2> QED
      BY <1>0, <2>1 DEF OwnersAwait
<1>9. TasksRead'
  <2> SUFFICES ASSUME NEW v \in Versions
               PROVE  /\ reader'[Task(v)].todo \in {<<>>, <<<<"violations", v>>>>}
                      /\ reader'[Task(v)].pc # "idle" => flight'[<<"parsing", v>>].pc = "running"
      BY DEF TasksRead
  <2>1. Task(v) \in Readers /\ Task(v) \in Tasks /\ <<"parsing", v>> \in Entry
      BY EntryFacts
  <2>2. /\ reader[Task(v)].todo \in {<<>>, <<<<"violations", v>>>>}
        /\ reader[Task(v)].pc # "idle" => flight[<<"parsing", v>>].pc = "running"
      BY <1>0 DEF TasksRead
  <2>3. flight[<<"parsing", v>>].pc = "running" => flight'[<<"parsing", v>>] = flight[<<"parsing", v>>]
      BY <1>3, <2>1
  <2>4. CASE Task(v) = p
      BY <1>1, <2>1, <2>2, <2>3, <2>4
  <2>5. CASE Task(v) # p
      BY <1>1, <2>1, <2>2, <2>3, <2>5
  <2> QED
      BY <2>4, <2>5
<1> QED
    BY <1>5, <1>6, <1>7, <1>8, <1>9 DEF AnalysisInv

(* The event loop resumes a reader.                                        *)
LEMMA Resumed ==
    ASSUME AnalysisInv, NEW p \in Readers, Resume(p)
    PROVE  AnalysisInv'
<1>0. RegistryTypes /\ ReaderTypes /\ ScansAreTasks /\ OwnersAwait /\ TasksRead
    BY DEF AnalysisInv
<1> DEFINE failed == reader[p].pc = "failed"
           left == IF reader[p].owns THEN [flight EXCEPT ![Awaited(p)] = NoTask] ELSE flight
           kept == [until |-> analysisTime + MemoTtl, data |-> reader[p].data]
<1>1. /\ reader[p].pc \in {"done", "failed"} /\ reader[p].todo # <<>> /\ analysisTime' = analysisTime
      /\ memo' = IF reader[p].owns /\ ~failed THEN [memo EXCEPT ![Awaited(p)] = kept] ELSE memo
    BY <1>0 DEF Resume, ReaderTypes, Awaited
<1>2. Awaited(p) \in Entry
    BY <1>0, <1>1, AwaitedFacts
<1>3. /\ DOMAIN memo' = Entry
      /\ \A j \in Entry : memo'[j].until \in Nat /\ (memo'[j] = memo[j] \/ (reader[p].owns /\ j = Awaited(p)))
  <2>1. kept.until \in Nat
      BY <1>0, RequestsAssumption DEF RegistryTypes
  <2> HIDE DEF kept, failed
  <2> QED
      BY <1>0, <1>1, <1>2, <2>1 DEF RegistryTypes
<1>4. CASE ~failed
  <2>1. /\ flight' = left /\ reader' = [reader EXCEPT ![p] = Receive(p, reader[p].data)]
        /\ UNCHANGED scans
      BY <1>4 DEF Resume, Dropped, Awaited
  <2> QED
      BY <1>0, <1>1, <1>3, <2>1, ReceiveFacts, ReaderLeaves
<1>5. CASE failed /\ p \notin Tasks
  <2>1. flight' = left /\ reader' = [reader EXCEPT ![p] = NotReading] /\ UNCHANGED scans
      BY <1>5 DEF Resume, Dropped, Awaited
  <2>2. /\ DOMAIN NotReading = {"todo", "pc", "owns", "data"} /\ NotReading.owns = FALSE
        /\ NotReading.todo \in Seq(Entry) /\ NotReading.pc = "idle"
      BY DEF NotReading
  <2> QED
      BY <1>1, <1>3, <1>5, <2>1, <2>2, ReaderLeaves
<1>6. CASE failed /\ p \in Tasks
  <2> DEFINE v == p[2]
             k == <<"parsing", v>>
             gone == IF reader[p].owns THEN {Awaited(p)} ELSE {}
  <2>1. /\ flight' = [left EXCEPT ![k] = [pc |-> "failed", data |-> <<>>]]
        /\ scans' = [scans EXCEPT ![k] = @ - 1]
        /\ reader' = [q \in DOMAIN reader |->
                        IF q = p THEN NotReading
                        ELSE IF reader[q].pc = "wait" /\ Head(reader[q].todo) = k
                        THEN [reader[q] EXCEPT !.pc = "failed"] ELSE reader[q]]
      BY <1>6 DEF Resume, Dropped, Awaited
  <2>2. /\ v \in Versions /\ p = Task(v) /\ k \in Entry /\ k[1] = "parsing" /\ k[2] = v
        /\ k = <<"parsing", k[2]>>
      BY <1>6, EntryFacts
  <2>3. flight[k].pc = "running" /\ Awaited(p) = <<"violations", v>> /\ Awaited(p) # k
      BY <1>0, <1>1, <2>2, TaskAwaits DEF TasksRead
  <2>4. gone \in SUBSET Entry /\ k \notin gone /\ (\A j \in gone : flight[j].pc # "running")
      BY <1>0, <1>1, <1>2, <2>3 DEF OwnersAwait
  <2>5. DOMAIN left = Entry /\ \A j \in Entry : left[j] = (IF j \in gone THEN NoTask ELSE flight[j])
    <3>1. CASE reader[p].owns
        BY <1>0, <1>2, <3>1 DEF RegistryTypes
    <3>2. CASE ~reader[p].owns
        BY <1>0, <3>2 DEF RegistryTypes
    <3> QED
        BY <3>1, <3>2
  <2>6. \A q \in Readers : reader[q].owns /\ Awaited(q) \in gone => q = p
      BY <1>0 DEF OwnersAwait
  <2> HIDE DEF gone, left
  <2>7. /\ DOMAIN flight' = Entry /\ DOMAIN flight'[k] = {"pc", "data"} /\ flight'[k].pc = "failed"
        /\ \A j \in Entry : j # k => flight'[j] = (IF j \in gone THEN NoTask ELSE flight[j])
    <3> HIDE DEF k
    <3> QED
        BY <2>1, <2>2, <2>5
  <2>8. DOMAIN reader' = Readers /\ reader'[p] = NotReading
      BY <1>0, <2>1 DEF ReaderTypes
  <2>9. \A q \in Readers :
               \/ reader'[q] = NotReading /\ k = <<"parsing", k[2]>> /\ q = Task(k[2])
               \/ /\ reader[q].pc = "wait" /\ Awaited(q) = k
                  /\ DOMAIN reader'[q] = DOMAIN reader[q] /\ reader'[q].todo = reader[q].todo
                  /\ reader'[q].owns = reader[q].owns /\ reader'[q].pc = "failed"
               \/ ~(reader[q].pc = "wait" /\ Awaited(q) = k) /\ reader'[q] = reader[q]
    <3> SUFFICES ASSUME NEW q \in Readers, q # p
                 PROVE  \/ /\ reader[q].pc = "wait" /\ Awaited(q) = k
                           /\ DOMAIN reader'[q] = DOMAIN reader[q] /\ reader'[q].todo = reader[q].todo
                           /\ reader'[q].owns = reader[q].owns /\ reader'[q].pc = "failed"
                        \/ ~(reader[q].pc = "wait" /\ Awaited(q) = k) /\ reader'[q] = reader[q]
        BY <2>2, <2>8
    <3>1. reader'[q] = IF reader[q].pc = "wait" /\ Awaited(q) = k
                       THEN [reader[q] EXCEPT !.pc = "failed"] ELSE reader[q]
        BY <1>0, <2>1 DEF ReaderTypes, Awaited
    <3>2. DOMAIN reader[q] = {"todo", "pc", "owns", "data"}
        BY <1>0 DEF ReaderTypes
    <3> HIDE DEF k
    <3> QED
        BY <3>1, <3>2
  <2>10. UNCHANGED <<memo, analysisTime>>
      BY <1>1, <1>6
  <2>11. \A q \in Readers : reader[q].owns /\ Awaited(q) \in gone => reader'[q] = NotReading
      BY <2>6, <2>8
  <2>12. k[1] = "parsing" => reader'[Task(k[2])] = NotReading
      BY <2>2, <2>8
  <2> HIDE DEF k
  <2>13. EndsWith(k, "failed", gone)
      BY <2>1, <2>3, <2>4, <2>7, <2>8, <2>9, <2>10, <2>11, <2>12 DEF EndsWith
  <2> QED
      BY <2>2, <2>4, <2>13, TaskEnded
<1> QED
    BY <1>4, <1>5, <1>6

(* The files of a version are scanned once per window, whatever requests   *)
(* meet in _inflight, in whatever order the event loop resumes them.       *)
THEOREM AnalysisInvariant == Spec => []AnalysisInv
<1>1. Init => AnalysisInv
    BY AnalysisInitInv DEF Init
<1>2. AnalysisInv /\ [Next]_progressVars => AnalysisInv'
  <2> SUFFICES ASSUME AnalysisInv, [Next]_progressVars
               PROVE  AnalysisInv'
      OBVIOUS
  <2>1. [AnalysisNext]_analysisVars
      BY DEF Next, Tree, Tracking, Reattachment, Analysis, RestOf, progressVars
  <2>2. CASE UNCHANGED analysisVars
      BY <2>2 DEF analysisVars, AnalysisInv, RegistryTypes, ReaderTypes, ScansAreTasks, OwnersAwait,
                  TasksRead, Awaited, Fresh
  <2>3. CASE AnalysisNext
      BY <2>3, AnalysisAround, ReaderAsks, Launched, Resumed, ScanOver
      DEF AnalysisNext, ReaderStep, Readers
  <2> QED
      BY <2>1, <2>2, <2>3
<1> QED
    BY <1>1, <1>2, PTL DEF Spec

(* What a behaviour of any of the parts has written is never wrong on the  *)
(* way: the signed tree, the completed extraction, the scanned files.      *)
THEOREM BackgroundSafety == Spec => []BuildsAndScansAreSafe
<1>1. TreeInv => SignatureIsNotNewer
    BY DEF TreeInv
<1>2. TrackingInv => TrackingTypeOK /\ NoPhantomSuccess
    BY DEF TrackingInv
<1>3. AnalysisInv => OneScanPerWindow
    BY DEF AnalysisInv, ScansAreTasks, OneScanPerWindow
<1>4. TreeInv /\ TrackingInv /\ AnalysisInv => BuildsAndScansAreSafe
    BY <1>1, <1>2, <1>3 DEF BuildsAndScansAreSafe
<1> QED
    BY <1>4, TreeInvariant, TrackingInvariant, AnalysisInvariant, PTL

-----------------------------------------------------------------------------
(* ExtractionAnalysis: what is read of the files adds up.                  *)

(* Subsets of a finite set have a property that the empty one has and a    *)
(* set has if it has it without any one of its members.                    *)
Closed(D, good) == {} \in good /\ \A s \in SUBSET D : s # {} /\ (\A x \in s : s \ {x} \in good) => s \in good

LEMMA SubsetInduction ==
    ASSUME NEW D, IsFiniteSet(D), NEW good, Closed(D, good)
    PROVE  \A s \in SUBSET D : s \in good
<1> SUFFICES ASSUME NEW r \in SUBSET D, r \notin good PROVE FALSE
    OBVIOUS
<1> DEFINE bad == {s \in SUBSET D : s \notin good}
           sizes == {Cardinality(s) : s \in bad}
<1>1. \A s \in SUBSET D : IsFiniteSet(s) /\ Cardinality(s) \in Nat
    BY FS_Subset, FS_CardinalityType
<1>2. PICK n \in sizes : \A k \in sizes : n <= k
  <2>1. sizes \subseteq Nat /\ sizes # {}
      BY <1>1
  <2> HIDE DEF sizes
  <2> QED
      BY <2>1, LeastNumber
<1>3. PICK s \in bad : Cardinality(s) = n
    OBVIOUS
<1>4. \A x \in s : s \ {x} \in good
  <2> SUFFICES ASSUME NEW x \in s, s \ {x} \notin good PROVE FALSE
      OBVIOUS
  <2>1. s \ {x} \in bad
      BY <1>3
  <2>2. Cardinality(s \ {x}) = Cardinality(s) - 1
      BY <1>1, <1>3, FS_RemoveElement
  <2>3. n <= Cardinality(s \ {x})
      BY <1>2, <2>1
  <2>4. n \in Nat
      BY <1>1, <1>3
  <2> QED
      BY <1>3, <2>2, <2>3, <2>4
<1>5. s # {} /\ s \in SUBSET D /\ s \notin good
    BY <1>3 DEF Closed
<1> QED
    BY <1>4, <1>5, Zenon DEF Closed

(* A value for each subset, from the value without one member.             *)
Unfolds(s, g, base, ch, Op) == g[s] = IF s = {} THEN base ELSE Op[<<ch[s], g[s \ {ch[s]}]>>]

LEMMA FoldExists ==
    ASSUME NEW D, IsFiniteSet(D), NEW V, NEW base \in V, NEW ch, \A s \in SUBSET D : s # {} => ch[s] \in s,
           NEW Op \in [D \X V -> V]
    PROVE  \E g \in [SUBSET D -> V] : \A s \in SUBSET D : Unfolds(s, g, base, ch, Op)
<1> DEFINE upto(k) == \E g \in [SUBSET D -> V] :
                          \A s \in SUBSET D : Cardinality(s) <= k => Unfolds(s, g, base, ch, Op)
<1>1. \A s \in SUBSET D : IsFiniteSet(s) /\ Cardinality(s) \in Nat
    BY FS_Subset, FS_CardinalityType
<1>2. upto(0)
  <2>1. \A s \in SUBSET D : Cardinality(s) <= 0 => s = {}
      BY <1>1, FS_EmptySet
  <2>2. [s \in SUBSET D |-> base] \in [SUBSET D -> V]
      OBVIOUS
  <2>3. \A s \in SUBSET D : Cardinality(s) <= 0 => Unfolds(s, [r \in SUBSET D |-> base], base, ch, Op)
      BY <2>1 DEF Unfolds
  <2> QED
      BY <2>2, <2>3
<1>3. ASSUME NEW k \in Nat, upto(k) PROVE upto(k + 1)
  <2>1. PICK g \in [SUBSET D -> V] : \A s \in SUBSET D : Cardinality(s) <= k => Unfolds(s, g, base, ch, Op)
      BY <1>3
  <2> DEFINE next(s) == IF s = {} THEN base ELSE Op[<<ch[s], g[s \ {ch[s]}]>>]
             h == [s \in SUBSET D |-> IF Cardinality(s) <= k THEN g[s] ELSE next(s)]
  <2>2. \A s \in SUBSET D : next(s) \in V
    <3> SUFFICES ASSUME NEW s \in SUBSET D, s # {} PROVE Op[<<ch[s], g[s \ {ch[s]}]>>] \in V
        OBVIOUS
    <3>1. ch[s] \in D /\ g[s \ {ch[s]}] \in V
        OBVIOUS
    <3> QED
        BY <3>1
  <2>3. h \in [SUBSET D -> V]
      BY <2>2
  <2>4. ASSUME NEW s \in SUBSET D, Cardinality(s) <= k + 1 PROVE Unfolds(s, h, base, ch, Op)
    <3>1. h[s] = next(s)
      <4>1. CASE Cardinality(s) <= k
          BY <2>1, <4>1 DEF Unfolds
      <4>2. CASE ~(Cardinality(s) <= k)
          BY <4>2
      <4> QED
          BY <4>1, <4>2
    <3>2. ASSUME s # {} PROVE h[s \ {ch[s]}] = g[s \ {ch[s]}]
      <4>1. ch[s] \in s
          BY <3>2
      <4>2. Cardinality(s \ {ch[s]}) = Cardinality(s) - 1
          BY <1>1, <4>1, FS_RemoveElement
      <4>3. Cardinality(s \ {ch[s]}) <= k
          BY <1>1, <2>4, <4>2
      <4> QED
          BY <4>3
    <3> HIDE DEF h
    <3> QED
        BY <3>1, <3>2 DEF Unfolds
  <2> HIDE DEF h
  <2> QED
      BY <2>3, <2>4
<1>4. \A k \in Nat : upto(k)
  <2> SUFFICES ASSUME NEW m \in Nat, ~upto(m) PROVE FALSE
      OBVIOUS
  <2> DEFINE failing == {k \in Nat : ~upto(k)}
  <2> HIDE DEF upto
  <2>1. PICK k \in failing : \A j \in failing : k <= j
    <3>1. failing \subseteq Nat /\ failing # {}
        OBVIOUS
    <3> HIDE DEF failing
    <3> QED
        BY <3>1, LeastNumber
  <2>2. k # 0 /\ k - 1 \in Nat
      BY <1>2, <2>1
  <2>3. upto(k - 1)
      BY <2>1, <2>2
  <2>4. upto((k - 1) + 1)
      BY <1>3, <2>2, <2>3
  <2>5. (k - 1) + 1 = k
      BY <2>2
  <2> QED
      BY <2>1, <2>4, <2>5
<1>5. PICK g \in [SUBSET D -> V] :
         \A s \in SUBSET D : Cardinality(s) <= Cardinality(D) => Unfolds(s, g, base, ch, Op)
  <2>1. upto(Cardinality(D))
      BY <1>1, <1>4
  <2> QED
      BY <2>1
<1>6. \A s \in SUBSET D : Cardinality(s) <= Cardinality(D)
    BY FS_Subset
<1> QED
    BY <1>5, <1>6

(* The records a scan may return: those of a directory there is.           *)
Records == {l \in Lines : \E n \in DOMAIN Entities : Entities[n] = l.entity}

LEMMA GreatestIndex ==
    ASSUME NEW n \in Nat, NEW s \in SUBSET (1..n), s # {}
    PROVE  Max(s) \in s
<1> DEFINE up == {n - x : x \in s}
<1>1. up \subseteq Nat /\ up # {}
  <2>1. \A x \in s : n - x \in Nat
      OBVIOUS
  <2> QED
      BY <2>1
<1>2. PICK u \in up : \A y \in up : u <= y
  <2> HIDE DEF up
  <2> QED
      BY <1>1, LeastNumber
<1>3. PICK x \in s : u = n - x
    BY <1>2
<1>4. \A y \in s : x >= y
  <2> SUFFICES ASSUME NEW y \in s PROVE x >= y
      OBVIOUS
  <2>1. n - y \in up
      OBVIOUS
  <2>2. u <= n - y
      BY <1>2, <2>1
  <2> QED
      BY <1>3, <2>2
<1> QED
    BY <1>4 DEF Max

LEMMA FileIsRead ==
    ASSUME NEW n \in DOMAIN Entities, NEW file, NEW read \in Seq(Records), NEW lines \in Seq(Lines)
    PROVE  ReadFile(read, file, Entities[n], lines) \in Seq(Records)
<1> DEFINE D == DOMAIN lines
           e == Entities[n]
           V == Seq(Records)
           ch == [s \in SUBSET D |-> Max(s)]
           Op == [p \in D \X V |-> Appended(p[2], file, e, lines[p[1]])]
           Body(it) == [s \in SUBSET D |-> IF s = {} THEN read
                                           ELSE Appended(it[s \ {Max(s)}], file, e, lines[Max(s)])]
<1>1. D = 1..Len(lines) /\ Len(lines) \in Nat /\ IsFiniteSet(D)
    BY FS_Interval
<1>2. \A s \in SUBSET D : s # {} => Max(s) \in s
    BY <1>1, GreatestIndex
<1>3. \A r \in V, l \in Lines : Appended(r, file, e, l) \in V
    BY DEF Appended, Records
<1>4. Op \in [D \X V -> V]
    BY <1>3
<1> HIDE DEF Op
<1>5. PICK g \in [SUBSET D -> V] : \A s \in SUBSET D : Unfolds(s, g, read, ch, Op)
  <2>1. \A s \in SUBSET D : s # {} => ch[s] \in s
      BY <1>2
  <2>2. read \in V
      OBVIOUS
  <2> HIDE DEF D, V, ch
  <2> QED
      BY <1>1, <1>4, <2>1, <2>2, FoldExists
<1>6. g = Body(g)
  <2> SUFFICES ASSUME NEW s \in SUBSET D, s # {}
               PROVE  g[s] = Appended(g[s \ {Max(s)}], file, e, lines[Max(s)])
      BY <1>5 DEF Unfolds
  <2>1. Max(s) \in D /\ g[s \ {Max(s)}] \in V
      BY <1>2
  <2>2. g[s] = Op[<<Max(s), g[s \ {Max(s)}]>>]
      BY <1>5 DEF Unfolds
  <2> QED
      BY <2>1, <2>2 DEF Op
<1>7. PICK it : it = Body(it) /\ ReadFile(read, file, e, lines) = it[D]
  <2>1. ReadFile(read, file, e, lines) = (CHOOSE it : it = Body(it))[D]
      BY DEF ReadFile, FoldLeft, MapThenFoldSet
  <2> HIDE DEF Body, D, e
  <2> QED
      BY <1>6, <2>1
<1>8. \A s \in SUBSET D : it[s] \in V
  <2> DEFINE good == {s \in SUBSET D : it[s] \in V}
  <2>1. Closed(D, good)
    <3>1. {} \in good
        BY <1>7
    <3>2. ASSUME NEW s \in SUBSET D, s # {}, \A x \in s : s \ {x} \in good PROVE s \in good
      <4>1. Max(s) \in s /\ it[s \ {Max(s)}] \in V
          BY <1>2, <3>2
      <4>2. it[s] = Appended(it[s \ {Max(s)}], file, e, lines[Max(s)])
          BY <1>7, <3>2
      <4>3. lines[Max(s)] \in Lines
          BY <4>1
      <4>4. Appended(it[s \ {Max(s)}], file, e, lines[Max(s)]) \in V
          BY <1>3, <4>1, <4>3
      <4> QED
          BY <4>2, <4>4
    <3> HIDE DEF good
    <3> QED
        BY <3>1, <3>2 DEF Closed
  <2>2. \A s \in SUBSET D : s \in good
    <3> HIDE DEF good, D
    <3> QED
        BY <1>1, <2>1, SubsetInduction
  <2> QED
      BY <2>2
<1> QED
    BY <1>7, <1>8

LEMMA ScanIsRead ==
    ASSUME NEW file, NEW v, flagged[v] \in Seq(Lines)
    PROVE  ReadJsonl(file, v) \in Seq(Records)
<1> DEFINE D == DOMAIN Entities
           V == Seq(Records)
           ch == [s \in SUBSET D |-> Max(s)]
           Op == [p \in D \X V |-> ReadFile(p[2], file, Entities[p[1]], flagged[v])]
           Body(it) == [s \in SUBSET D |-> IF s = {} THEN <<>>
                                           ELSE ReadFile(it[s \ {Max(s)}], file, Entities[Max(s)], flagged[v])]
<1>1. D = 1..Len(Entities) /\ Len(Entities) \in Nat /\ IsFiniteSet(D)
    BY FS_Interval, ListingAssumption
<1>2. \A s \in SUBSET D : s # {} => Max(s) \in s
    BY <1>1, GreatestIndex
<1>3. \A r \in V, n \in D : ReadFile(r, file, Entities[n], flagged[v]) \in V
    BY FileIsRead
<1>4. Op \in [D \X V -> V]
    BY <1>3
<1> HIDE DEF Op
<1>5. PICK g \in [SUBSET D -> V] : \A s \in SUBSET D : Unfolds(s, g, <<>>, ch, Op)
  <2>1. \A s \in SUBSET D : s # {} => ch[s] \in s
      BY <1>2
  <2>2. <<>> \in V
      OBVIOUS
  <2> HIDE DEF D, V, ch
  <2> QED
      BY <1>1, <1>4, <2>1, <2>2, FoldExists
<1>6. g = Body(g)
  <2> SUFFICES ASSUME NEW s \in SUBSET D, s # {}
               PROVE  g[s] = ReadFile(g[s \ {Max(s)}], file, Entities[Max(s)], flagged[v])
      BY <1>5 DEF Unfolds
  <2>1. Max(s) \in D /\ g[s \ {Max(s)}] \in V
      BY <1>2
  <2>2. g[s] = Op[<<Max(s), g[s \ {Max(s)}]>>]
      BY <1>5 DEF Unfolds
  <2> QED
      BY <2>1, <2>2 DEF Op
<1>7. PICK it : it = Body(it) /\ ReadJsonl(file, v) = it[D]
  <2>1. ReadJsonl(file, v) = (CHOOSE it : it = Body(it))[D]
      BY DEF ReadJsonl, FoldLeft, MapThenFoldSet
  <2> HIDE DEF Body, D
  <2> QED
      BY <1>6, <2>1
<1>8. \A s \in SUBSET D : it[s] \in V
  <2> DEFINE good == {s \in SUBSET D : it[s] \in V}
  <2>1. Closed(D, good)
    <3>1. {} \in good
        BY <1>7
    <3>2. ASSUME NEW s \in SUBSET D, s # {}, \A x \in s : s \ {x} \in good PROVE s \in good
      <4>1. Max(s) \in s /\ it[s \ {Max(s)}] \in V
          BY <1>2, <3>2
      <4>2. it[s] = ReadFile(it[s \ {Max(s)}], file, Entities[Max(s)], flagged[v])
          BY <1>7, <3>2
      <4>3. ReadFile(it[s \ {Max(s)}], file, Entities[Max(s)], flagged[v]) \in V
          BY <1>3, <4>1
      <4> QED
          BY <4>2, <4>3
    <3> HIDE DEF good
    <3> QED
        BY <3>1, <3>2 DEF Closed
  <2>2. \A s \in SUBSET D : s \in good
    <3> HIDE DEF good, D
    <3> QED
        BY <1>1, <2>1, SubsetInduction
  <2> QED
      BY <2>2
<1> QED
    BY <1>7, <1>8

(* The records with a mark in s: their number grows by those of each mark. *)
Tally(n, mark, s) == Cardinality({i \in 1..n : mark[i] \in s})

LEMMA Tallies ==
    ASSUME NEW n \in Nat, NEW mark
    PROVE  /\ Tally(n, mark, {}) = 0
           /\ \A s : /\ Tally(n, mark, s) \in Nat
                     /\ (\A i \in 1..n : mark[i] \in s) => Tally(n, mark, s) = n
<1>1. IsFiniteSet(1..n) /\ Cardinality(1..n) = n
    BY FS_Interval
<1>2. {i \in 1..n : mark[i] \in {}} = {}
    OBVIOUS
<1>3. Tally(n, mark, {}) = 0
    BY <1>2, FS_EmptySet DEF Tally
<1>4. ASSUME NEW s
      PROVE  /\ Tally(n, mark, s) \in Nat
             /\ (\A i \in 1..n : mark[i] \in s) => Tally(n, mark, s) = n
  <2>1. PICK A : A = {i \in 1..n : mark[i] \in s}
      OBVIOUS
  <2>2. A \subseteq 1..n /\ ((\A i \in 1..n : mark[i] \in s) => A = 1..n)
      BY <2>1
  <2>3. IsFiniteSet(A) /\ Cardinality(A) \in Nat
      BY <1>1, <2>2, FS_Subset, FS_CardinalityType
  <2>4. Tally(n, mark, s) = Cardinality(A)
      BY <2>1 DEF Tally
  <2> QED
      BY <1>1, <2>2, <2>3, <2>4
<1> QED
    BY <1>3, <1>4

LEMMA TallySplits ==
    ASSUME NEW n \in Nat, NEW mark, NEW s, NEW x \in s
    PROVE  Tally(n, mark, s) = Tally(n, mark, {x}) + Tally(n, mark, s \ {x})
<1>0. PICK A, B : A = {i \in 1..n : mark[i] \in {x}} /\ B = {i \in 1..n : mark[i] \in s \ {x}}
    OBVIOUS
<1>1. IsFiniteSet(1..n)
    BY FS_Interval
<1>2. IsFiniteSet(A) /\ IsFiniteSet(B)
    BY <1>0, <1>1, FS_Subset, A \subseteq 1..n, B \subseteq 1..n
<1>3. {i \in 1..n : mark[i] \in s} = A \cup B
    BY <1>0
<1>4. A \cap B = {}
    BY <1>0
<1>5. Cardinality(A \cup B) = Cardinality(A) + Cardinality(B) - Cardinality(A \cap B)
    BY <1>2, FS_Union
<1>6. Cardinality(A \cap B) = 0 /\ Cardinality(A) \in Nat /\ Cardinality(B) \in Nat
    BY <1>2, <1>4, FS_EmptySet, FS_CardinalityType
<1>7. Cardinality(A \cup B) = Cardinality(A) + Cardinality(B)
    BY <1>5, <1>6
<1>8. Tally(n, mark, {x}) = Cardinality(A) /\ Tally(n, mark, s \ {x}) = Cardinality(B)
    BY <1>0 DEF Tally
<1>9. Tally(n, mark, s) = Cardinality(A \cup B)
    BY <1>3, Zenon DEF Tally
<1> QED
    BY <1>7, <1>8, <1>9

(* A rule's count is the tally of its key, and a list has finitely many.   *)
LEMMA ByRuleTallies ==
    ASSUME NEW list \in Seq(Records), NEW key
    PROVE  ByRule(list, key) = Tally(Len(list), [i \in 1..Len(list) |-> RuleKey(list[i])], {key})
<1>1. DOMAIN list = 1..Len(list)
    OBVIOUS
<1>2. PICK mark : mark = [i \in 1..Len(list) |-> RuleKey(list[i])]
    OBVIOUS
<1>3. {i \in DOMAIN list : RuleKey(list[i]) = key} = {i \in 1..Len(list) : mark[i] \in {key}}
    BY <1>1, <1>2
<1>4. ByRule(list, key) = Tally(Len(list), mark, {key})
    BY <1>3, Zenon DEF ByRule, CountIf, Tally
<1> QED
    BY <1>2, <1>4

LEMMA RuleKeysFinite ==
    ASSUME NEW list \in Seq(Records)
    PROVE  IsFiniteSet(RuleKeys(list))
<1>1. Len(list) \in Nat /\ DOMAIN list = 1..Len(list) /\ IsFiniteSet(1..Len(list))
    BY FS_Interval
<1>2. PICK mark : mark = [i \in 1..Len(list) |-> RuleKey(list[i])]
    OBVIOUS
<1>3. RuleKeys(list) = {mark[i] : i \in 1..Len(list)}
    BY <1>1, <1>2 DEF RuleKeys
<1>4. mark \in Surjection(1..Len(list), RuleKeys(list))
    BY <1>2, <1>3 DEF Surjection
<1> QED
    BY <1>1, <1>4, FS_Surjection

(* _build_violation_summary: the counts by rule add up to the total.       *)
LEMMA RulesAddUp ==
    ASSUME NEW list \in Seq(Records)
    PROVE  MapThenSumSet(LAMBDA key : ByRule(list, key), RuleKeys(list)) = Len(list)
<1> DEFINE n == Len(list)
           K == RuleKeys(list)
           mark == [i \in 1..n |-> RuleKey(list[i])]
           g == [s \in SUBSET K |-> Tally(n, mark, s)]
           Body(it) == [s \in SUBSET K |-> IF s = {} THEN 0
                          ELSE ByRule(list, CHOOSE x \in s : TRUE) + it[s \ {CHOOSE x \in s : TRUE}]]
<1>1. n \in Nat /\ DOMAIN list = 1..n /\ IsFiniteSet(1..n)
    BY FS_Interval
<1>2. K = {mark[i] : i \in 1..n} /\ IsFiniteSet(K)
    BY <1>1, RuleKeysFinite DEF RuleKeys
<1>3. \A key : ByRule(list, key) = Tally(n, mark, {key})
    BY ByRuleTallies, Zenon
<1> HIDE DEF K, mark, n
<1>4. g[{}] = 0
    BY <1>1, Tallies
<1>5. \A s \in SUBSET K : \A x \in s : g[s] = ByRule(list, x) + g[s \ {x}]
  <2> SUFFICES ASSUME NEW s \in SUBSET K, NEW x \in s
               PROVE  g[s] = ByRule(list, x) + g[s \ {x}]
      OBVIOUS
  <2>1. Tally(n, mark, s) = Tally(n, mark, {x}) + Tally(n, mark, s \ {x})
      BY <1>1, TallySplits
  <2>2. g[s] = Tally(n, mark, s) /\ g[s \ {x}] = Tally(n, mark, s \ {x})
      OBVIOUS
  <2> HIDE DEF g
  <2> QED
      BY <1>3, <2>1, <2>2
<1> HIDE DEF g
<1>6. g = Body(g)
  <2> SUFFICES ASSUME NEW s \in SUBSET K, s # {}
               PROVE  g[s] = ByRule(list, CHOOSE x \in s : TRUE) + g[s \ {CHOOSE x \in s : TRUE}]
      BY <1>4 DEF g
  <2>1. (CHOOSE x \in s : TRUE) \in s
      OBVIOUS
  <2> QED
      BY <1>5, <2>1
<1>7. PICK it : it = Body(it) /\ MapThenSumSet(LAMBDA key : ByRule(list, key), K) = it[K]
  <2>1. MapThenSumSet(LAMBDA key : ByRule(list, key), K) = (CHOOSE it : it = Body(it))[K]
      BY DEF MapThenSumSet, MapThenFoldSet
  <2> HIDE DEF Body
  <2> QED
      BY <1>6, <2>1
<1>8. \A s \in SUBSET K : it[s] = g[s]
  <2> DEFINE good == {s \in SUBSET K : it[s] = g[s]}
  <2>1. Closed(K, good)
    <3>1. {} \in good
        BY <1>4, <1>7
    <3>2. ASSUME NEW s \in SUBSET K, s # {}, \A x \in s : s \ {x} \in good PROVE s \in good
      <4>1. PICK x \in s : x = (CHOOSE y \in s : TRUE)
          BY <3>2
      <4>2. it[s] = ByRule(list, x) + it[s \ {x}]
          BY <1>7, <3>2, <4>1
      <4>3. it[s \ {x}] = g[s \ {x}]
          BY <3>2
      <4>4. g[s] = ByRule(list, x) + g[s \ {x}]
          BY <1>5
      <4> QED
          BY <4>2, <4>3, <4>4
    <3> HIDE DEF good
    <3> QED
        BY <3>1, <3>2 DEF Closed
  <2>2. \A s \in SUBSET K : s \in good
    <3> HIDE DEF good
    <3> QED
        BY <1>2, <2>1, SubsetInduction
  <2> QED
      BY <2>2
<1>9. g[K] = n
    BY <1>1, <1>2, Tallies DEF g
<1>10. it[K] = g[K]
    BY <1>8
<1> QED
    BY <1>7, <1>9, <1>10, Zenon DEF K, n

(* _count_by_entity: the directories' counts add up to the total.          *)
LEMMA EntitiesAddUp ==
    ASSUME NEW list \in Seq(Records)
    PROVE  FoldLeft(LAMBDA m, e : m + ByEntity(list, e, "any"), 0, Entities) = Len(list)
<1> DEFINE n == Len(list)
           D == DOMAIN Entities
           place(l) == CHOOSE p \in D : Entities[p] = l.entity
           mark == [i \in 1..n |-> place(list[i])]
           g == [s \in SUBSET D |-> Tally(n, mark, s)]
           Body(it) == [s \in SUBSET D |-> IF s = {} THEN 0
                          ELSE it[s \ {Max(s)}] + ByEntity(list, Entities[Max(s)], "any")]
<1>1. n \in Nat /\ DOMAIN list = 1..n
    OBVIOUS
<1>2. D = 1..Len(Entities) /\ Len(Entities) \in Nat /\ IsFiniteSet(D)
    BY FS_Interval, ListingAssumption
<1>3. \A s \in SUBSET D : s # {} => Max(s) \in s
    BY <1>2, GreatestIndex
<1>4. \A i \in 1..n : mark[i] \in D /\ \A p \in D : mark[i] = p <=> list[i].entity = Entities[p]
  <2> SUFFICES ASSUME NEW i \in 1..n
               PROVE  mark[i] \in D /\ \A p \in D : mark[i] = p <=> list[i].entity = Entities[p]
      OBVIOUS
  <2>1. \E p \in D : Entities[p] = list[i].entity
      BY <1>1 DEF Records
  <2>2. mark[i] = (CHOOSE p \in D : Entities[p] = list[i].entity)
      OBVIOUS
  <2>3. mark[i] \in D /\ Entities[mark[i]] = list[i].entity
      BY <2>1, <2>2
  <2> HIDE DEF mark
  <2> QED
      BY <2>3, ListingAssumption
<1>5. \A p \in D : ByEntity(list, Entities[p], "any") = Tally(n, mark, {p})
  <2> SUFFICES ASSUME NEW p \in D
               PROVE  ByEntity(list, Entities[p], "any") = Tally(n, mark, {p})
      OBVIOUS
  <2>1. {i \in DOMAIN list : list[i].entity = Entities[p] /\ ("any" = "any" \/ list[i].severity = "any")}
           = {i \in 1..n : mark[i] \in {p}}
    <3> HIDE DEF mark, D, n
    <3> QED
        BY <1>1, <1>4
  <2> HIDE DEF mark, n
  <2> QED
      BY <2>1, Zenon DEF ByEntity, CountIf, Tally
<1> HIDE DEF mark, n
<1>6. g[{}] = 0
    BY <1>1, Tallies
<1>7. \A s \in SUBSET D : \A x \in s : g[s] = g[s \ {x}] + ByEntity(list, Entities[x], "any")
  <2> SUFFICES ASSUME NEW s \in SUBSET D, NEW x \in s
               PROVE  g[s] = g[s \ {x}] + ByEntity(list, Entities[x], "any")
      OBVIOUS
  <2>1. PICK a \in Nat, b \in Nat : a = Tally(n, mark, {x}) /\ b = Tally(n, mark, s \ {x})
      BY <1>1, Tallies
  <2>2. Tally(n, mark, s) = a + b
      BY <1>1, <2>1, TallySplits
  <2>3. g[s] = a + b /\ g[s \ {x}] = b
      BY <2>1, <2>2
  <2>4. ByEntity(list, Entities[x], "any") = a
      BY <1>5, <2>1
  <2> HIDE DEF g, D
  <2> QED
      BY <2>3, <2>4
<1> HIDE DEF g
<1>8. g = Body(g)
    BY <1>3, <1>6, <1>7 DEF g
<1>9. PICK it : it = Body(it) /\
                FoldLeft(LAMBDA m, e : m + ByEntity(list, e, "any"), 0, Entities) = it[D]
  <2>1. FoldLeft(LAMBDA m, e : m + ByEntity(list, e, "any"), 0, Entities) = (CHOOSE it : it = Body(it))[D]
      BY DEF FoldLeft, MapThenFoldSet
  <2> HIDE DEF Body, D
  <2> QED
      BY <1>8, <2>1
<1>10. \A s \in SUBSET D : it[s] = g[s]
  <2> DEFINE good == {s \in SUBSET D : it[s] = g[s]}
  <2>1. Closed(D, good)
    <3>1. {} \in good
        BY <1>6, <1>9
    <3>2. ASSUME NEW s \in SUBSET D, s # {}, \A x \in s : s \ {x} \in good PROVE s \in good
      <4>1. PICK x \in s : x = Max(s)
          BY <1>3, <3>2
      <4>2. it[s] = it[s \ {x}] + ByEntity(list, Entities[x], "any")
          BY <1>9, <3>2, <4>1
      <4>3. it[s \ {x}] = g[s \ {x}]
          BY <3>2
      <4>4. g[s] = g[s \ {x}] + ByEntity(list, Entities[x], "any")
          BY <1>7
      <4> QED
          BY <4>2, <4>3, <4>4
    <3> HIDE DEF good
    <3> QED
        BY <3>1, <3>2 DEF Closed
  <2>2. \A s \in SUBSET D : s \in good
    <3> HIDE DEF good, D
    <3> QED
        BY <1>2, <2>1, SubsetInduction
  <2> QED
      BY <2>2
<1>11. g[D] = n
  <2>1. \A i \in 1..n : mark[i] \in D
      BY <1>4
  <2>2. g[D] = Tally(n, mark, D)
      BY DEF g
  <2> HIDE DEF D
  <2> QED
      BY <1>1, <2>1, <2>2, Tallies
<1>12. it[D] = g[D]
    BY <1>10
<1> QED
    BY <1>9, <1>11, <1>12, Zenon DEF n

(* _Page.slice: the pages are the list cut, so that they are the list.     *)
LEMMA LastPage ==
    ASSUME NEW n \in Nat, NEW k \in Nat \ {0}
    PROVE  /\ (n + k - 1) \div k \in Nat
           /\ ((n + k - 1) \div k) * k >= n
           /\ n # 0 => (n + k - 1) \div k >= 1
<1>1. PICK q : q = (n + k - 1) \div k
    OBVIOUS
<1>2. n + k - 1 \in Nat
    OBVIOUS
<1>3. q \in Nat /\ q * k <= n + k - 1 /\ n + k - 1 < (q + 1) * k
    BY <1>1, <1>2
<1>4. (q + 1) * k = q * k + k /\ q * k \in Nat
    BY <1>3
<1>5. q * k >= n
    BY <1>3, <1>4
<1>6. n # 0 => q >= 1
    BY <1>3, <1>5
<1> QED
    BY <1>1, <1>3, <1>5, <1>6

LEMMA PiecesJoin ==
    ASSUME NEW T, NEW list \in Seq(T), NEW n \in 0..Len(list), NEW m \in n..Len(list)
    PROVE  SubSeq(list, 1, n) \o SubSeq(list, n + 1, m) = SubSeq(list, 1, m)
OBVIOUS

LEMMA PagesAddUp ==
    ASSUME NEW T, NEW list \in Seq(T)
    PROVE  FlattenSeq([n \in 1..TotalPages(list) |-> Page(list, n)]) = list
<1> DEFINE last == TotalPages(list)
           pages == [n \in 1..last |-> Page(list, n)]
           upto(n) == IF n * PageLength < Len(list) THEN n * PageLength ELSE Len(list)
           g == [i \in 1..last |-> SubSeq(list, 1, upto(i))]
           Body(f) == [i \in 1..Len(pages) |-> IF i = 1 THEN pages[i] ELSE f[i - 1] \o pages[i]]
<1>1. PageLength \in Nat \ {0} /\ Len(list) \in Nat
    BY ListingAssumption
<1>2. last \in Nat \ {0} /\ last * PageLength >= Len(list)
  <2>1. CASE list = <<>>
      BY <1>1, <2>1 DEF TotalPages
  <2>2. CASE list # <<>>
    <3>1. Len(list) # 0 /\ last = (Len(list) + PageLength - 1) \div PageLength
        BY <2>2 DEF TotalPages
    <3> QED
        BY <1>1, <3>1, LastPage
  <2> QED
      BY <2>1, <2>2
<1> HIDE DEF last
<1>3. \A n \in Nat : upto(n) \in Nat /\ upto(n) <= Len(list)
    BY <1>1
<1>4. \A n \in 1..last : pages[n] = SubSeq(list, (n - 1) * PageLength + 1, upto(n))
    BY DEF Page
<1>5. Len(pages) = last
    BY <1>2
<1>6. upto(last) = Len(list)
    BY <1>1, <1>2
<1> HIDE DEF pages
<1>7. ASSUME NEW i \in 1..last, i # 1
      PROVE  SubSeq(list, 1, upto(i - 1)) \o pages[i] = SubSeq(list, 1, upto(i))
  <2>1. i - 1 \in Nat /\ i \in Nat
      BY <1>7
  <2>2. PICK a \in Nat, b \in Nat : a = (i - 1) * PageLength /\ b = i * PageLength
      BY <1>1, <2>1
  <2>3. b = a + PageLength
      BY <1>1, <2>1, <2>2
  <2>4. pages[i] = SubSeq(list, a + 1, upto(i))
      BY <1>4, <2>2
  <2>5. CASE a < Len(list)
    <3>1. upto(i - 1) = a /\ a \in 0..Len(list) /\ upto(i) \in a..Len(list)
        BY <1>1, <2>2, <2>3, <2>5
    <3> HIDE DEF upto
    <3> QED
        BY <2>4, <3>1, PiecesJoin
  <2>6. CASE ~(a < Len(list))
    <3>1. upto(i - 1) = Len(list) /\ upto(i) = Len(list)
        BY <1>1, <2>2, <2>3, <2>6
    <3>2. SubSeq(list, a + 1, Len(list)) = <<>> /\ SubSeq(list, 1, Len(list)) = list
        BY <1>1, <2>2, <2>6
    <3>3. list \o <<>> = list
        OBVIOUS
    <3> HIDE DEF upto
    <3> QED
        BY <2>4, <3>1, <3>2, <3>3
  <2> QED
      BY <2>5, <2>6
<1>8. g = Body(g)
  <2>1. 1 \in 1..last /\ pages[1] = SubSeq(list, 1, upto(1))
    <3>1. (1 - 1) * PageLength + 1 = 1
        BY <1>1
    <3>2. 1 \in 1..last
        BY <1>2
    <3> HIDE DEF upto
    <3>3. pages[1] = SubSeq(list, (1 - 1) * PageLength + 1, upto(1))
        BY <1>4, <3>2, Zenon
    <3> QED
        BY <3>1, <3>2, <3>3
  <2>2. \A i \in 1..last : i # 1 => i - 1 \in 1..last
      BY <1>2
  <2>3. \A i \in 1..last : g[i] = IF i = 1 THEN pages[i] ELSE g[i - 1] \o pages[i]
      BY <1>7, <2>1, <2>2
  <2> QED
      BY <1>5, <2>3
<1>9. PICK f : f = Body(f) /\ FlattenSeq(pages) = f[last]
  <2>1. Len(pages) # 0
      BY <1>2, <1>5
  <2>2. FlattenSeq(pages) = (CHOOSE f : f = Body(f))[Len(pages)]
      BY <2>1 DEF FlattenSeq
  <2> HIDE DEF Body
  <2> QED
      BY <1>5, <1>8, <2>2
<1>10. \A i \in 1..last : f[i] = g[i]
  <2> SUFFICES ASSUME NEW j \in 1..last, f[j] # g[j] PROVE FALSE
      OBVIOUS
  <2> DEFINE bad == {i \in 1..last : f[i] # g[i]}
  <2>1. PICK i \in bad : \A k \in bad : i <= k
    <3>1. bad \subseteq 1..last /\ j \in bad /\ 1..last \subseteq Nat
      <4> HIDE DEF g
      <4> QED
          BY <1>2
    <3> HIDE DEF bad
    <3>2. bad \subseteq Nat /\ bad # {}
        BY <3>1
    <3> QED
        BY <3>2, LeastNumber
  <2>2. f[i] = (IF i = 1 THEN pages[i] ELSE f[i - 1] \o pages[i])
        /\ g[i] = (IF i = 1 THEN pages[i] ELSE g[i - 1] \o pages[i])
    <3>1. i \in 1..Len(pages)
        BY <1>5, <2>1
    <3> HIDE DEF g, upto
    <3> QED
        BY <1>8, <1>9, <3>1
  <2>3. i # 1 => i - 1 \in 1..last /\ i - 1 \notin bad
    <3>1. i \in 1..last /\ i \in Nat /\ \A k \in bad : k \in Nat
        BY <1>2, <2>1
    <3>2. i - 1 \in bad => i <= i - 1
        BY <2>1
    <3> HIDE DEF bad
    <3> QED
        BY <1>2, <3>1, <3>2
  <2> HIDE DEF g
  <2>4. i # 1 => f[i - 1] = g[i - 1]
      BY <2>3
  <2> QED
      BY <2>1, <2>2, <2>4
<1>11. f[last] = list
  <2>1. SubSeq(list, 1, Len(list)) = list
      OBVIOUS
  <2>0. last \in 1..last
      BY <1>2
  <2>2. g[last] = SubSeq(list, 1, upto(last))
    <3> HIDE DEF upto
    <3> QED
        BY <2>0
  <2> HIDE DEF g, upto
  <2>3. f[last] = g[last]
      BY <1>10, <2>0
  <2> QED
      BY <1>6, <2>1, <2>2, <2>3
<1> QED
    BY <1>9, <1>11 DEF pages, last

(* _compare_violation_counts: the story told the other way round.          *)
LEMMA ComparedBothWays ==
    ASSUME NEW a \in Seq(Records), NEW b \in Seq(Records)
    PROVE  /\ Compared(a, b, "worsened") = Compared(b, a, "improved")
           /\ Compared(a, b, "unchanged") = Compared(b, a, "unchanged")
<1>1. ASSUME NEW list \in Seq(Records), NEW key
      PROVE  ByRule(list, key) \in Nat /\ (key \in RuleKeys(list) => ByRule(list, key) # 0)
  <2>1. PICK A : A = {i \in DOMAIN list : RuleKey(list[i]) = key}
      OBVIOUS
  <2>2. ByRule(list, key) = Cardinality(A)
      BY <2>1, Zenon DEF ByRule, CountIf
  <2>3. IsFiniteSet(A)
    <3>1. IsFiniteSet(1..Len(list)) /\ A \subseteq 1..Len(list)
        BY <2>1, FS_Interval
    <3> QED
        BY <3>1, FS_Subset
  <2>4. key \in RuleKeys(list) => A # {}
      BY <2>1 DEF RuleKeys
  <2> QED
      BY <2>2, <2>3, <2>4, FS_CardinalityType, FS_EmptySet
<1>2. ASSUME NEW key \in RuleKeys(a) \cup RuleKeys(b)
      PROVE  /\ Direction(a, b, key) = "worsened" <=> Direction(b, a, key) = "improved"
             /\ Direction(a, b, key) = "unchanged" <=> Direction(b, a, key) = "unchanged"
  <2>1. PICK m \in Nat, n \in Nat : m = ByRule(a, key) /\ n = ByRule(b, key) /\ (m # 0 \/ n # 0)
      BY <1>1, <1>2
  <2> QED
      BY <2>1 DEF Direction
<1>3. RuleKeys(a) \cup RuleKeys(b) = RuleKeys(b) \cup RuleKeys(a)
    OBVIOUS
<1>4. {key \in RuleKeys(a) \cup RuleKeys(b) : Direction(a, b, key) = "worsened"}
         = {key \in RuleKeys(b) \cup RuleKeys(a) : Direction(b, a, key) = "improved"}
    BY <1>2, <1>3
<1>5. {key \in RuleKeys(a) \cup RuleKeys(b) : Direction(a, b, key) = "unchanged"}
         = {key \in RuleKeys(b) \cup RuleKeys(a) : Direction(b, a, key) = "unchanged"}
    BY <1>2, <1>3
<1> QED
    BY <1>4, <1>5, Zenon DEF Compared

(* ... and a second version in which no rule has worsened has no more      *)
(* violations than the first.                                              *)
LEMMA NoRuleWorsened ==
    ASSUME NEW a \in Seq(Records), NEW b \in Seq(Records), Compared(a, b, "worsened") = 0
    PROVE  Len(b) <= Len(a)
<1> DEFINE K == RuleKeys(a) \cup RuleKeys(b)
           markA == [i \in 1..Len(a) |-> RuleKey(a[i])]
           markB == [i \in 1..Len(b) |-> RuleKey(b[i])]
<1>1. /\ Len(a) \in Nat /\ DOMAIN a = 1..Len(a)
      /\ Len(b) \in Nat /\ DOMAIN b = 1..Len(b)
    OBVIOUS
<1>2. IsFiniteSet(K) /\ (\A i \in 1..Len(a) : markA[i] \in K) /\ (\A i \in 1..Len(b) : markB[i] \in K)
  <2>1. IsFiniteSet(RuleKeys(a)) /\ IsFiniteSet(RuleKeys(b))
      BY RuleKeysFinite
  <2>2. IsFiniteSet(K)
      BY <2>1, FS_Union
  <2>3. (\A i \in 1..Len(a) : markA[i] \in K) /\ (\A i \in 1..Len(b) : markB[i] \in K)
      BY <1>1 DEF RuleKeys
  <2> QED
      BY <2>2, <2>3
<1>3. \A key : ByRule(a, key) = Tally(Len(a), markA, {key}) /\ ByRule(b, key) = Tally(Len(b), markB, {key})
    BY ByRuleTallies, Zenon
<1>4. \A key \in K : Direction(a, b, key) # "worsened"
  <2>1. PICK W : W = {key \in RuleKeys(a) \cup RuleKeys(b) : Direction(a, b, key) = "worsened"}
      OBVIOUS
  <2>2. Cardinality(W) = 0
      BY <2>1, Zenon DEF Compared
  <2>3. IsFiniteSet(W)
      BY <1>2, <2>1, FS_Subset
  <2>4. W = {}
      BY <2>2, <2>3, FS_EmptySet
  <2> QED
      BY <2>1, <2>4
<1> HIDE DEF K, markA, markB
<1>5. \A key \in K : Tally(Len(b), markB, {key}) <= Tally(Len(a), markA, {key})
  <2> SUFFICES ASSUME NEW key \in K
               PROVE  Tally(Len(b), markB, {key}) <= Tally(Len(a), markA, {key})
      OBVIOUS
  <2>1. PICK m \in Nat : m = Tally(Len(a), markA, {key})
      BY <1>1, Tallies
  <2>2. PICK n \in Nat : n = Tally(Len(b), markB, {key})
      BY <1>1, Tallies
  <2>3. ByRule(a, key) = m /\ ByRule(b, key) = n
      BY <1>3, <2>1, <2>2
  <2>4. Direction(a, b, key) # "worsened"
      BY <1>4
  <2>5. n <= m
      BY <2>3, <2>4 DEF Direction
  <2> QED
      BY <2>1, <2>2, <2>5
<1>6. \A s \in SUBSET K : Tally(Len(b), markB, s) <= Tally(Len(a), markA, s)
  <2> DEFINE good == {s \in SUBSET K : Tally(Len(b), markB, s) <= Tally(Len(a), markA, s)}
  <2>1. Closed(K, good)
    <3>1. {} \in good
        BY <1>1, Tallies
    <3>2. ASSUME NEW s \in SUBSET K, s # {}, \A x \in s : s \ {x} \in good PROVE s \in good
      <4>1. PICK x \in s : TRUE
          BY <3>2
      <4>2. /\ Tally(Len(a), markA, s) = Tally(Len(a), markA, {x}) + Tally(Len(a), markA, s \ {x})
            /\ Tally(Len(b), markB, s) = Tally(Len(b), markB, {x}) + Tally(Len(b), markB, s \ {x})
          BY <1>1, <4>1, TallySplits
      <4>3. /\ Tally(Len(b), markB, {x}) <= Tally(Len(a), markA, {x})
            /\ Tally(Len(b), markB, s \ {x}) <= Tally(Len(a), markA, s \ {x})
          BY <1>5, <3>2, <4>1
      <4>4. /\ Tally(Len(a), markA, {x}) \in Nat /\ Tally(Len(a), markA, s \ {x}) \in Nat
            /\ Tally(Len(b), markB, {x}) \in Nat /\ Tally(Len(b), markB, s \ {x}) \in Nat
          BY <1>1, Tallies
      <4>5. Tally(Len(b), markB, s) <= Tally(Len(a), markA, s)
          BY <4>2, <4>3, <4>4
      <4> QED
          BY <4>5
    <3> HIDE DEF good
    <3> QED
        BY <3>1, <3>2 DEF Closed
  <2>2. \A s \in SUBSET K : s \in good
    <3> HIDE DEF good
    <3> QED
        BY <1>2, <2>1, SubsetInduction
  <2> QED
      BY <2>2
<1>7. Tally(Len(a), markA, K) = Len(a) /\ Tally(Len(b), markB, K) = Len(b)
    BY <1>1, <1>2, Tallies
<1> QED
    BY <1>6, <1>7

(* What a scan returns goes, by the task, its readers and the memo, as it  *)
(* is: a list of records.                                                  *)
DataInv ==
    /\ flagged \in [Versions -> Seq(Lines)]
    /\ \A v \in Versions : /\ memo[<<"violations", v>>].data \in Seq(Records)
                           /\ flight[<<"violations", v>>].data \in Seq(Records)
    /\ \A p \in Readers, v \in Versions :
          reader[p].pc = "done" /\ Awaited(p) = <<"violations", v>> => reader[p].data \in Seq(Records)

LEMMA DataInitInv == AnalysisInit => DataInv
<1> SUFFICES ASSUME AnalysisInit PROVE DataInv
    OBVIOUS
<1>1. flagged \in [Versions -> Seq(Lines)]
    BY RequestsAssumption DEF AnalysisInit
<1>2. \A v \in Versions : /\ memo[<<"violations", v>>].data \in Seq(Records)
                          /\ flight[<<"violations", v>>].data \in Seq(Records)
  <2>1. NoMemo.data = <<>> /\ NoTask.data = <<>> /\ <<>> \in Seq(Records)
      BY DEF NoMemo, NoTask
  <2> QED
      BY <2>1, EntryFacts DEF AnalysisInit
<1>3. \A p \in Readers : reader[p].pc = "idle"
    BY DEF AnalysisInit, NotReading, Readers
<1> QED
    BY <1>1, <1>2, <1>3 DEF DataInv

(* The readers may change as long as one that has its data had it, or has  *)
(* that of the task.                                                       *)
LEMMA DataMoves ==
    ASSUME DataInv, UNCHANGED flagged,
           \A v \in Versions : /\ memo'[<<"violations", v>>].data \in Seq(Records)
                               /\ flight'[<<"violations", v>>].data \in Seq(Records),
           \A q \in Readers, v \in Versions :
              reader'[q].pc = "done" /\ Awaited(q)' = <<"violations", v>> =>
                 \/ reader[q].pc = "done" /\ Awaited(q) = <<"violations", v>> /\ reader'[q].data = reader[q].data
                 \/ reader'[q].data \in Seq(Records)
    PROVE  DataInv'
    BY DEF DataInv

LEMMA DataAround ==
    ASSUME AnalysisInv, DataInv,
           \/ \E v \in Versions, l \in Lines : FlagRecord(v, l)
           \/ AnalysisClock
           \/ \E c \in Admins, plan \in Plans : Request(c, plan)
    PROVE  DataInv'
<1>0. RegistryTypes /\ ReaderTypes
    BY DEF AnalysisInv
<1>1. CASE AnalysisClock
    BY <1>1 DEF AnalysisClock, DataInv, Awaited
<1>2. ASSUME NEW v \in Versions, NEW l \in Lines, FlagRecord(v, l) PROVE DataInv'
  <2>1. flagged' \in [Versions -> Seq(Lines)]
    <3>1. flagged' = [flagged EXCEPT ![v] = Append(flagged[v], l)]
        BY <1>2 DEF FlagRecord
    <3>2. flagged \in [Versions -> Seq(Lines)] /\ Append(flagged[v], l) \in Seq(Lines)
        BY DEF DataInv
    <3> QED
        BY <3>1, <3>2
  <2>2. UNCHANGED <<memo, flight, reader>>
      BY <1>2 DEF FlagRecord
  <2> QED
      BY <2>1, <2>2 DEF DataInv, Awaited
<1>3. ASSUME NEW c \in Admins, NEW plan \in Plans, Request(c, plan) PROVE DataInv'
  <2> DEFINE r == [NotReading EXCEPT !.todo = plan, !.pc = "ask"]
  <2>1. r.pc = "ask"
      BY DEF NotReading
  <2>2. reader' = [reader EXCEPT ![c] = r] /\ UNCHANGED <<memo, flight, flagged>>
      BY <1>3 DEF Request
  <2>3. DOMAIN reader = Readers
      BY <1>0 DEF ReaderTypes
  <2> HIDE DEF r
  <2>4. \A q \in Readers : reader'[q] = reader[q] \/ reader'[q].pc = "ask"
      BY <2>1, <2>2, <2>3
  <2>5. \A v \in Versions : /\ memo'[<<"violations", v>>].data \in Seq(Records)
                            /\ flight'[<<"violations", v>>].data \in Seq(Records)
      BY <2>2 DEF DataInv
  <2> QED
      BY <2>2, <2>4, <2>5, DataMoves DEF Awaited
<1> QED
    BY <1>1, <1>2, <1>3

LEMMA DataAsked ==
    ASSUME AnalysisInv, DataInv, NEW p \in Readers, Hit(p) \/ Join(p) \/ Launch(p)
    PROVE  DataInv'
<1>0. /\ DOMAIN reader = Readers /\ DOMAIN memo = Entry /\ DOMAIN flight = Entry
      /\ \A q \in Readers : DOMAIN reader[q] = {"todo", "pc", "owns", "data"}
      /\ reader[p].pc = "ask" => Awaited(p) \in Entry
    BY AwaitedFacts, SMTT(40) DEF AnalysisInv, RegistryTypes, ReaderTypes
<1>1. UNCHANGED <<memo, flagged>> /\ reader[p].pc = "ask"
    BY DEF Hit, Join, Launch
<1>2. CASE Hit(p)
  <2> DEFINE r == Receive(p, memo[Awaited(p)].data)
  <2>1. reader' = [reader EXCEPT ![p] = r] /\ UNCHANGED flight
      BY <1>2 DEF Hit, Awaited
  <2>2. r.pc # "done"
      BY DEF Receive, NotReading
  <2> HIDE DEF r
  <2>3. \A q \in Readers : reader'[q] = reader[q] \/ reader'[q].pc # "done"
      BY <1>0, <2>1, <2>2
  <2>4. \A v \in Versions : /\ memo'[<<"violations", v>>].data \in Seq(Records)
                            /\ flight'[<<"violations", v>>].data \in Seq(Records)
      BY <1>1, <2>1 DEF DataInv
  <2> QED
      BY <1>1, <2>3, <2>4, DataMoves DEF Awaited
<1>3. CASE Join(p)
  <2>1. PICK k, c : /\ k = Awaited(p) /\ k \in Entry
                    /\ reader' = [reader EXCEPT ![p].pc = c, ![p].data = flight[k].data] /\ UNCHANGED flight
      BY <1>0, <1>1, <1>3 DEF Join, Awaited
  <2>2. /\ reader'[p].todo = reader[p].todo /\ reader'[p].data = flight[k].data
        /\ \A q \in Readers : q # p => reader'[q] = reader[q]
      BY <1>0, <2>1
  <2>3. \A v \in Versions : /\ memo'[<<"violations", v>>].data \in Seq(Records)
                            /\ flight'[<<"violations", v>>].data \in Seq(Records)
      BY <1>1, <2>1 DEF DataInv
  <2>4. ASSUME NEW q \in Readers, NEW v \in Versions, reader'[q].pc = "done", Awaited(q)' = <<"violations", v>>
        PROVE  \/ reader[q].pc = "done" /\ Awaited(q) = <<"violations", v>> /\ reader'[q].data = reader[q].data
               \/ reader'[q].data \in Seq(Records)
    <3>1. CASE q = p
      <4>1. k = <<"violations", v>>
          BY <2>1, <2>2, <2>4, <3>1 DEF Awaited
      <4> QED
          BY <2>2, <3>1, <4>1 DEF DataInv
    <3>2. CASE q # p
        BY <2>2, <2>4, <3>2 DEF Awaited
    <3> QED
        BY <3>1, <3>2
  <2> QED
      BY <1>1, <2>3, <2>4, DataMoves
<1>4. CASE Launch(p)
  <2> DEFINE k == Awaited(p)
             mine == [reader EXCEPT ![p].pc = "wait", ![p].owns = TRUE]
             new == [NotReading EXCEPT !.todo = <<<<"violations", k[2]>>>>, !.pc = "ask"]
  <2>1. /\ flight' = [flight EXCEPT ![k].pc = "running"]
        /\ reader' = (IF k[1] = "parsing" THEN [mine EXCEPT ![Task(k[2])] = new] ELSE mine)
      BY <1>4 DEF Launch, Awaited
  <2>2. new.pc = "ask"
      BY DEF NotReading
  <2>3. \A q \in Readers : IF q = p THEN mine[q].pc = "wait" ELSE mine[q] = reader[q]
      BY <1>0
  <2>4. DOMAIN mine = Readers
      BY <1>0
  <2>5. k \in Entry /\ \A j \in Entry : flight'[j].data = flight[j].data
    <3>1. k \in Entry
        BY <1>0, <1>1
    <3>2. \A j \in Entry : DOMAIN flight[j] = {"pc", "data"}
        BY DEF AnalysisInv, RegistryTypes
    <3> HIDE DEF k
    <3> QED
        BY <1>0, <2>1, <3>1, <3>2
  <2> HIDE DEF k, mine, new
  <2>6. \A q \in Readers : reader'[q] = reader[q] \/ reader'[q].pc # "done"
      BY <2>1, <2>2, <2>3, <2>4
  <2>7. \A v \in Versions : /\ memo'[<<"violations", v>>].data \in Seq(Records)
                            /\ flight'[<<"violations", v>>].data \in Seq(Records)
      BY <1>1, <2>5, EntryFacts DEF DataInv
  <2> QED
      BY <1>1, <2>6, <2>7, DataMoves DEF Awaited
<1> QED
    BY <1>2, <1>3, <1>4
(* A task that ends hands its data to the readers it wakes.                *)
LEMMA DataWoken ==
    ASSUME AnalysisInv, DataInv, NEW k \in Entry, NEW c, NEW d, NEW readers, DOMAIN readers = Readers,
           \A q \in Readers : /\ DOMAIN readers[q] = {"todo", "pc", "owns", "data"}
                              /\ readers[q] = reader[q] \/ readers[q].pc = "idle",
           TaskEnds(k, c, d, readers), UNCHANGED <<memo, flagged>>,
           \A v \in Versions : k = <<"violations", v>> => d \in Seq(Records)
    PROVE  DataInv'
<1>1. /\ flight' = [flight EXCEPT ![k] = [pc |-> c, data |-> d]]
      /\ reader' = [q \in DOMAIN readers |->
                      IF readers[q].pc = "wait" /\ Head(readers[q].todo) = k
                      THEN [readers[q] EXCEPT !.pc = c, !.data = d] ELSE readers[q]]
    BY DEF TaskEnds
<1> DEFINE woken == [q \in Readers |-> [readers[q] EXCEPT !.pc = c, !.data = d]]
<1>2. \A q \in Readers : woken[q].todo = readers[q].todo /\ woken[q].data = d
    OBVIOUS
<1>3. \A q \in Readers :
          \/ reader'[q] = readers[q]
          \/ Head(readers[q].todo) = k /\ reader'[q] = woken[q]
    BY <1>1
<1> HIDE DEF woken
<1>4. \A q \in Readers :
          \/ reader'[q] = reader[q]
          \/ reader'[q].pc = "idle"
          \/ Head(reader'[q].todo) = k /\ reader'[q].data = d
  <2> SUFFICES ASSUME NEW q \in Readers,
                      reader'[q] # readers[q]
               PROVE  Head(reader'[q].todo) = k /\ reader'[q].data = d
      OBVIOUS
  <2>1. Head(readers[q].todo) = k /\ reader'[q] = woken[q]
      BY <1>3
  <2>2. woken[q].todo = readers[q].todo /\ woken[q].data = d
      BY <1>2
  <2> QED
      BY <2>1, <2>2
<1>5. \A v \in Versions : /\ memo'[<<"violations", v>>].data \in Seq(Records)
                          /\ flight'[<<"violations", v>>].data \in Seq(Records)
  <2>1. DOMAIN flight = Entry
      BY DEF AnalysisInv, RegistryTypes
  <2>2. \A j \in Entry : flight'[j].data = (IF j = k THEN d ELSE flight[j].data)
      BY <1>1, <2>1
  <2> QED
      BY <2>2, EntryFacts DEF DataInv
<1> QED
    BY <1>4, <1>5, DataMoves DEF Awaited

LEMMA DataScanned ==
    ASSUME AnalysisInv, DataInv, ScanStep
    PROVE  DataInv'
<1>0. /\ DOMAIN reader = Readers /\ \A q \in Readers : DOMAIN reader[q] = {"todo", "pc", "owns", "data"}
    BY DEF AnalysisInv, ReaderTypes
<1>1. ASSUME NEW k \in Entry, ScanEnds(k) PROVE DataInv'
  <2>1. UNCHANGED <<memo, flagged>>
      BY <1>1 DEF ScanEnds
  <2>2. CASE TaskEnds(k, "done", ReadJsonl(k[1], k[2]), reader)
    <3>1. flagged[k[2]] \in Seq(Lines)
        BY EntryFacts DEF DataInv
    <3>2. ReadJsonl(k[1], k[2]) \in Seq(Records)
        BY <3>1, ScanIsRead
    <3> DEFINE d == ReadJsonl(k[1], k[2])
    <3>3. TaskEnds(k, "done", d, reader) /\ d \in Seq(Records)
        BY <2>2, <3>2
    <3> HIDE DEF d
    <3> QED
        BY <1>0, <2>1, <3>3, DataWoken
  <2>3. CASE TaskEnds(k, "failed", <<>>, reader)
    <3>1. <<>> \in Seq(Records)
        OBVIOUS
    <3> QED
        BY <1>0, <2>1, <2>3, <3>1, DataWoken
  <2> QED
      BY <1>1, <2>2, <2>3 DEF ScanEnds
<1>2. ASSUME NEW v \in Versions, ClassifyEnds(v) PROVE DataInv'
  <2> DEFINE k == <<"parsing", v>>
             readers == [reader EXCEPT ![Task(v)] = NotReading]
  <2>1. PICK d : TaskEnds(k, "done", d, readers)
      BY <1>2 DEF ClassifyEnds
  <2>2. UNCHANGED <<memo, flagged>>
      BY <1>2 DEF ClassifyEnds
  <2>3. k \in Entry /\ \A w \in Versions : k # <<"violations", w>>
      BY EntryFacts
  <2>4. /\ DOMAIN NotReading = {"todo", "pc", "owns", "data"} /\ NotReading.pc = "idle"
      BY DEF NotReading
  <2>5. DOMAIN readers = Readers /\ \A q \in Readers : readers[q] = reader[q] \/ readers[q] = NotReading
      BY <1>0
  <2> HIDE DEF k, readers
  <2>6. \A q \in Readers : /\ DOMAIN readers[q] = {"todo", "pc", "owns", "data"}
                           /\ readers[q] = reader[q] \/ readers[q].pc = "idle"
      BY <1>0, <2>4, <2>5
  <2> QED
      BY <2>1, <2>2, <2>3, <2>5, <2>6, DataWoken
<1> QED
    BY <1>1, <1>2 DEF ScanStep

(* An owner stores what it has read, and leaves the registry.              *)
LEMMA DataResumed ==
    ASSUME AnalysisInv, DataInv, NEW p \in Readers, Resume(p)
    PROVE  DataInv'
<1>0. /\ RegistryTypes /\ ReaderTypes /\ TasksRead
      /\ DOMAIN reader = Readers /\ \A q \in Readers : DOMAIN reader[q] = {"todo", "pc", "owns", "data"}
      /\ DOMAIN memo = Entry /\ DOMAIN flight = Entry
    BY DEF AnalysisInv, ReaderTypes, RegistryTypes
<1> DEFINE failed == reader[p].pc = "failed"
           k == Awaited(p)
           left == IF reader[p].owns THEN [flight EXCEPT ![k] = NoTask] ELSE flight
           kept == [until |-> analysisTime + MemoTtl, data |-> reader[p].data]
<1>1. /\ reader[p].pc \in {"done", "failed"} /\ reader[p].todo # <<>> /\ UNCHANGED flagged
      /\ memo' = IF reader[p].owns /\ ~failed THEN [memo EXCEPT ![k] = kept] ELSE memo
    BY <1>0 DEF Resume, ReaderTypes, Awaited
<1>2. k \in Entry /\ kept.data = reader[p].data
    BY <1>0, <1>1, AwaitedFacts
<1>3. NoTask.data = <<>> /\ <<>> \in Seq(Records) /\ NotReading.pc = "idle"
    BY DEF NoTask, NotReading
<1>4. \A v \in Versions : memo'[<<"violations", v>>].data \in Seq(Records)
  <2>1. ~failed => reader[p].pc = "done"
      BY <1>1
  <2>2. \A v \in Versions : ~failed /\ k = <<"violations", v>> => kept.data \in Seq(Records)
      BY <1>2, <2>1 DEF DataInv
  <2> HIDE DEF k, kept
  <2>3. \A j \in Entry : memo'[j] = memo[j] \/ (~failed /\ j = k /\ memo'[j] = kept)
    <3>1. CASE reader[p].owns /\ ~failed
        BY <1>0, <1>1, <1>2, <3>1
    <3>2. CASE ~(reader[p].owns /\ ~failed)
        BY <1>1, <3>2
    <3> QED
        BY <3>1, <3>2
  <2> QED
      BY <2>2, <2>3, EntryFacts DEF DataInv
<1>5. \A v \in Versions : left[<<"violations", v>>].data \in Seq(Records)
  <2> HIDE DEF k
  <2>1. \A j \in Entry : left[j] = flight[j] \/ left[j] = NoTask
      BY <1>0, <1>2
  <2> QED
      BY <1>3, <2>1, EntryFacts DEF DataInv
<1>6. DOMAIN left = Entry
    BY <1>0
<1> HIDE DEF k, left, kept
<1>7. CASE ~failed
  <2> DEFINE r == Receive(p, reader[p].data)
  <2>1. flight' = left /\ reader' = [reader EXCEPT ![p] = r]
      BY <1>7 DEF Resume, Dropped, Awaited, left, k
  <2>2. r.pc # "done"
      BY <1>0, <1>1, ReceiveFacts
  <2> HIDE DEF r
  <2>3. \A q \in Readers : reader'[q] = reader[q] \/ reader'[q].pc # "done"
      BY <1>0, <2>1, <2>2
  <2> QED
      BY <1>1, <1>4, <1>5, <2>1, <2>3, DataMoves DEF Awaited
<1>8. CASE failed /\ p \notin Tasks
  <2>1. flight' = left /\ reader' = [reader EXCEPT ![p] = NotReading]
      BY <1>8 DEF Resume, Dropped, Awaited, left, k
  <2>2. \A q \in Readers : reader'[q] = reader[q] \/ reader'[q].pc # "done"
      BY <1>0, <1>3, <2>1
  <2> QED
      BY <1>1, <1>4, <1>5, <2>1, <2>2, DataMoves DEF Awaited
<1>9. CASE failed /\ p \in Tasks
  <2> DEFINE j == <<"parsing", p[2]>>
             over == [pc |-> "failed", data |-> <<>>]
  <2>1. /\ flight' = [left EXCEPT ![j] = over]
        /\ reader' = [q \in DOMAIN reader |->
                        IF q = p THEN NotReading
                        ELSE IF reader[q].pc = "wait" /\ Head(reader[q].todo) = j
                        THEN [reader[q] EXCEPT !.pc = "failed"] ELSE reader[q]]
      BY <1>9 DEF Resume, Dropped, Awaited, left, k
  <2>2. j \in Entry /\ \A v \in Versions : j # <<"violations", v>>
      BY <1>9, EntryFacts
  <2> HIDE DEF j, over
  <2>3. \A v \in Versions : flight'[<<"violations", v>>] = left[<<"violations", v>>]
      BY <1>6, <2>1, <2>2, EntryFacts
  <2>4. \A q \in Readers : [reader[q] EXCEPT !.pc = "failed"].pc = "failed"
      BY <1>0
  <2>5. \A q \in Readers : reader'[q] = reader[q] \/ reader'[q].pc # "done"
      BY <1>0, <1>3, <2>1, <2>4
  <2> QED
      BY <1>1, <1>4, <1>5, <2>3, <2>5, DataMoves DEF Awaited
<1> QED
    BY <1>7, <1>8, <1>9

(* However the files of two versions were read, and by whatever sequence   *)
(* of requests, the totals by rule and by entity of what the endpoints     *)
(* return are the number of records, the pages are the list, the two       *)
(* comparisons of a pair of versions agree, and one in which nothing       *)
(* worsened comes with no more violations than before.                     *)
THEOREM ListingsAddUp == Spec => []AnalysisAddsUp
<1>1. Init => DataInv
    BY DataInitInv DEF Init
<1>2. AnalysisInv /\ DataInv /\ [Next]_progressVars => DataInv'
  <2> SUFFICES ASSUME AnalysisInv, DataInv, [Next]_progressVars
               PROVE  DataInv'
      OBVIOUS
  <2>1. [AnalysisNext]_analysisVars
      BY DEF Next, Tree, Tracking, Reattachment, Analysis, RestOf, progressVars
  <2>2. CASE UNCHANGED analysisVars
      BY <2>2 DEF analysisVars, DataInv, Awaited
  <2>3. CASE AnalysisNext
      BY <2>3, DataAround, DataAsked, DataResumed, DataScanned
      DEF AnalysisNext, ReaderStep, Readers
  <2> QED
      BY <2>1, <2>2, <2>3
<1>3. DataInv => AnalysisAddsUp
  <2> SUFFICES ASSUME DataInv, NEW v \in Versions, NEW list, list = memo[<<"violations", v>>].data
      PROVE  /\ MapThenSumSet(LAMBDA key : ByRule(list, key), RuleKeys(list)) = Len(list)
             /\ FoldLeft(LAMBDA n, e : n + ByEntity(list, e, "any"), 0, Entities) = Len(list)
             /\ FlattenSeq([n \in 1..TotalPages(list) |-> Page(list, n)]) = list
             /\ \A w \in Versions : LET other == memo[<<"violations", w>>].data IN
                   /\ Compared(list, other, "worsened") = Compared(other, list, "improved")
                   /\ Compared(list, other, "unchanged") = Compared(other, list, "unchanged")
                   /\ Compared(list, other, "worsened") = 0 => Len(other) <= Len(list)
      BY DEF AnalysisAddsUp
  <2>1. list \in Seq(Records) /\ \A w \in Versions : memo[<<"violations", w>>].data \in Seq(Records)
      BY DEF DataInv
  <2> QED
      BY <2>1, RulesAddUp, EntitiesAddUp, PagesAddUp, ComparedBothWays, NoRuleWorsened
<1> QED
    BY <1>1, <1>2, <1>3, AnalysisInvariant, PTL DEF Spec

-----------------------------------------------------------------------------
(* Reattach: a run moves a row's alias onto the item of its own link.      *)

RunFields == {"pc", "page", "cursor", "row", "link", "gm", "mb", "dg"}
Links == DiscogsIds \cup {NoLink}

ReattachTypes ==
    /\ DOMAIN holder = AliasKeys /\ link \in [MbRows -> Links]
    /\ message # NoMessage => message.row \in MbRows /\ message.link \in Links
    /\ DOMAIN run = Runs /\ \A r \in Runs : DOMAIN run[r] = RunFields

(* What a run has read stays so while it holds its locks: its page is of   *)
(* rows, the row's link is as it was read, and the alias of that link is   *)
(* on the item read.                                                       *)
RunHolds(q) ==
    /\ q.pc \in {"item", "aliases", "repair"} => q.page \subseteq MbRows /\ q.page # {}
    /\ q.pc \in {"aliases", "repair"} => q.row \in MbRows /\ q.link = link[q.row]
    /\ q.pc = "repair" => q.link # NoLink /\ q.dg # NoItem /\ holder[Dg(q.link)] = q.dg

ReattachInv == ReattachTypes /\ \A r \in Runs : RunHolds(run[r])

(* A step that moves an alias as MovesFollowOwnLink says.                  *)
Moves ==
    /\ \A m \in MbRows : (holder[Mb(m)] # NoItem /\ holder'[Mb(m)] # holder[Mb(m)])
             => link[m] # NoLink /\ holder'[Mb(m)] = holder[Dg(link[m])]
    /\ \A d \in DiscogsIds : holder[Dg(d)] \in {NoItem, holder'[Dg(d)]}

LEMMA KeyFacts ==
    /\ \A m \in MbRows : Mb(m) \in AliasKeys /\ Mb(m) \notin IdentifierKeys
    /\ \A d \in DiscogsIds : Dg(d) \in AliasKeys /\ Dg(d) \notin IdentifierKeys
    /\ \A m, n \in MbRows : Mb(m) = Mb(n) => m = n
    /\ \A m \in MbRows, d \in DiscogsIds : Mb(m) # Dg(d)
    BY DEF AliasKeys, IdentifierKeys, Mb, Dg, Ident

LEMMA ReattachInitInv == ReattachInit => ReattachInv
    BY DEF ReattachInit, ReattachInv, ReattachTypes, RunHolds, NoRun, RunFields, NoLink, Links

(* The loaders attach only where no alias is current.                      *)
LEMMA AttachKeeps ==
    ASSUME DOMAIN holder = AliasKeys, NEW keys, NEW i, holder' = Attach(keys, i)
    PROVE  /\ DOMAIN holder' = AliasKeys /\ Moves
           /\ \A k \in AliasKeys : holder[k] # NoItem => holder'[k] = holder[k]
<1>1. /\ DOMAIN holder' = AliasKeys
      /\ \A k \in AliasKeys : holder[k] # NoItem => holder'[k] = holder[k]
    BY DEF Attach
<1> QED
    BY <1>1, KeyFacts DEF Moves

LEMMA Loads ==
    ASSUME ReattachInv,
           \/ \E d \in DiscogsIds : DiscogsLoads(d)
           \/ \E m \in MbRows, d \in DiscogsIds \cup {NoLink} : MusicBrainzResolves(m, d)
           \/ MusicBrainzUpserts
    PROVE  ReattachInv' /\ Moves
<1>0. ReattachTypes /\ \A r \in Runs : RunHolds(run[r])
    BY DEF ReattachInv
<1>1. PICK keys, i : holder' = Attach(keys, i)
    BY DEF DiscogsLoads, MusicBrainzResolves, MusicBrainzUpserts
<1>2. /\ DOMAIN holder' = AliasKeys /\ Moves
      /\ \A k \in AliasKeys : holder[k] # NoItem => holder'[k] = holder[k]
    BY <1>0, <1>1, AttachKeeps DEF ReattachTypes
<1>3. run' = run
    BY DEF DiscogsLoads, MusicBrainzResolves, MusicBrainzUpserts
<1>4. /\ link' \in [MbRows -> Links]
      /\ \A m \in MbRows : RowLocked(m) => link'[m] = link[m]
      /\ message' # NoMessage => message'.row \in MbRows /\ message'.link \in Links
  <2>1. CASE \E d \in DiscogsIds : DiscogsLoads(d)
      BY <1>0, <2>1 DEF DiscogsLoads, ReattachTypes
  <2>2. CASE \E m \in MbRows, d \in DiscogsIds \cup {NoLink} : MusicBrainzResolves(m, d)
      BY <1>0, <2>2 DEF MusicBrainzResolves, ReattachTypes, Links
  <2>3. CASE MusicBrainzUpserts
      BY <1>0, <2>3 DEF MusicBrainzUpserts, ReattachTypes
  <2> QED
      BY <2>1, <2>2, <2>3
<1>5. ReattachTypes'
    BY <1>0, <1>2, <1>3, <1>4 DEF ReattachTypes
<1>6. ASSUME NEW r \in Runs
      PROVE  RunHolds(run[r])'
  <2> DEFINE q == run[r]
  <2>1. q.pc \in {"aliases", "repair"} => RowLocked(q.row)
      BY DEF RowLocked
  <2>2. q.pc = "repair" => q.link \in DiscogsIds
      BY <1>0 DEF RunHolds, ReattachTypes, Links
  <2> QED
      BY <1>0, <1>2, <1>3, <1>4, <2>1, <2>2, KeyFacts DEF RunHolds
<1> QED
    BY <1>2, <1>5, <1>6 DEF ReattachInv

(* The record of one run changes, and no row's link.                       *)
LEMMA RunChanges ==
    ASSUME ReattachInv, NEW r \in Runs, NEW q, DOMAIN q = RunFields,
           run' = [run EXCEPT ![r] = q], RunHolds(q)',
           DOMAIN holder' = AliasKeys, Moves, UNCHANGED <<link, message>>
    PROVE  ReattachInv'
<1>0. ReattachTypes /\ \A s \in Runs : RunHolds(run[s])
    BY DEF ReattachInv
<1>1. run'[r] = q /\ DOMAIN run' = Runs /\ \A s \in Runs : s # r => run'[s] = run[s]
    BY <1>0 DEF ReattachTypes
<1>2. ReattachTypes'
    BY <1>0, <1>1 DEF ReattachTypes
<1>3. ASSUME NEW s \in Runs, s # r
      PROVE  RunHolds(run[s])'
  <2>1. run[s].pc = "repair" => run[s].link \in DiscogsIds
      BY <1>0 DEF RunHolds, ReattachTypes, Links
  <2> QED
      BY <1>0, <1>1, <1>3, <2>1 DEF RunHolds, Moves
<1>4. RunHolds(run[r])'
    BY <1>1 DEF RunHolds
<1> QED
    BY <1>2, <1>3, <1>4 DEF ReattachInv

(* Between two items a run holds no lock.                                  *)
LEMMA AfterItemHolds ==
    ASSUME NEW r \in Runs, run[r].page \subseteq MbRows, NEW q, q = AfterItem(r)
    PROVE  DOMAIN q = RunFields /\ RunHolds(q)'
<1> DEFINE rest == run[r].page \ {run[r].row}
<1>1. q = [NoRun EXCEPT !.pc = IF rest = {} THEN "page" ELSE "item", !.page = rest,
                        !.cursor = run[r].row]
    BY DEF AfterItem
<1>2. rest \subseteq MbRows
    OBVIOUS
<1> HIDE DEF rest
<1>3. DOMAIN q = RunFields /\ q.page = rest /\ q.pc = (IF rest = {} THEN "page" ELSE "item")
    BY <1>1 DEF NoRun, RunFields
<1> QED
    BY <1>2, <1>3 DEF RunHolds

(* The steps of a run that move nothing.                                   *)
LEMMA RunReads ==
    ASSUME ReattachInv, NEW r \in Runs,
           StartRun(r) \/ ReadPage(r) \/ LockRow(r) \/ LockAliases(r) \/ RunFails(r)
    PROVE  ReattachInv' /\ Moves
<1>0. ReattachTypes /\ RunHolds(run[r]) /\ DOMAIN run[r] = RunFields
    BY DEF ReattachInv, ReattachTypes
<1>1. /\ UNCHANGED <<holder, link, message>> /\ DOMAIN holder' = AliasKeys
      /\ Moves
    BY <1>0 DEF StartRun, ReadPage, LockRow, LockAliases, RunFails, Moves, ReattachTypes
<1>2. SUFFICES \E q : DOMAIN q = RunFields /\ run' = [run EXCEPT ![r] = q] /\ RunHolds(q)'
    BY <1>1, RunChanges
<1>3. CASE StartRun(r)
  <2> DEFINE q == [run[r] EXCEPT !.pc = "page"]
  <2>1. DOMAIN q = RunFields /\ q.pc = "page" /\ run' = [run EXCEPT ![r] = q]
      BY <1>0, <1>3 DEF StartRun, RunFields
  <2> HIDE DEF q
  <2> QED
      BY <2>1 DEF RunHolds
<1>n. DOMAIN NoRun = RunFields /\ NoRun.pc = "idle"
    BY DEF NoRun, RunFields
<1>4. CASE RunFails(r)
    BY <1>4, <1>n DEF RunFails, RunHolds
<1>5. CASE ReadPage(r)
  <2> DEFINE page == FirstOf({m \in MbRows : Candidate(m) /\ m > run[r].cursor}, BatchSize)
             q == [run[r] EXCEPT !.pc = "item", !.page = page]
  <2>1. page \subseteq MbRows
      BY DEF FirstOf
  <2> HIDE DEF page
  <2>2. DOMAIN q = RunFields /\ q.pc = "item" /\ q.page = page
      BY <1>0 DEF RunFields
  <2>3. run' = [run EXCEPT ![r] = IF page = {} THEN NoRun ELSE q]
      BY <1>5 DEF ReadPage, page
  <2> HIDE DEF q
  <2> QED
      BY <1>n, <2>1, <2>2, <2>3 DEF RunHolds
<1>6. CASE LockRow(r)
  <2> DEFINE m == NextRow(r)
  <2>1. run[r].page \subseteq MbRows /\ run[r].page # {}
      BY <1>0, <1>6 DEF LockRow, RunHolds
  <2>2. m \in run[r].page
      BY <2>1, LeastNumber, RowsAssumption DEF NextRow
  <2> HIDE DEF m
  <2>q. PICK q : q = [run[r] EXCEPT !.pc = "aliases", !.row = m, !.link = link[m], !.gm = gm[m]]
      OBVIOUS
  <2>3. run' = [run EXCEPT ![r] = q]
      BY <1>6, <2>q DEF LockRow, m
  <2>4. /\ DOMAIN q = RunFields /\ q.pc = "aliases" /\ q.row = m /\ q.link = link[m]
        /\ q.page = run[r].page
      BY <1>0, <2>q DEF RunFields
  <2>5. RunHolds(q)'
      BY <1>1, <2>1, <2>2, <2>4 DEF RunHolds
  <2> QED
      BY <2>3, <2>4, <2>5
<1>7. CASE LockAliases(r)
  <2> DEFINE c == run[r]
             mb == holder[Mb(c.row)]
             dg == IF c.link = NoLink THEN NoItem ELSE holder[Dg(c.link)]
  <2>q. PICK q : q = [c EXCEPT !.pc = "repair", !.mb = mb, !.dg = dg]
      OBVIOUS
  <2>1. \/ run' = [run EXCEPT ![r] = AfterItem(r)]
        \/ run' = [run EXCEPT ![r] = q] /\ dg # NoItem
      BY <1>7, <2>q DEF LockAliases
  <2>2. c.page \subseteq MbRows /\ c.page # {} /\ c.row \in MbRows /\ c.link = link[c.row]
      BY <1>0, <1>7 DEF LockAliases, RunHolds
  <2>3. dg # NoItem => c.link # NoLink /\ dg = holder[Dg(c.link)]
      OBVIOUS
  <2> HIDE DEF mb, dg
  <2>4. /\ DOMAIN q = RunFields /\ q.pc = "repair" /\ q.row = c.row /\ q.link = c.link
        /\ q.page = c.page /\ q.dg = dg
      BY <1>0, <2>q DEF RunFields
  <2> HIDE DEF c
  <2>5. dg # NoItem => RunHolds(q)'
      BY <1>1, <2>2, <2>3, <2>4 DEF RunHolds
  <2>6. \A a : a = AfterItem(r) => DOMAIN a = RunFields /\ RunHolds(a)'
      BY <2>2, AfterItemHolds DEF c
  <2> QED
      BY <2>1, <2>4, <2>5, <2>6
<1> QED
    BY <1>3, <1>4, <1>5, <1>6, <1>7

(* The repair itself: what it moves is on the row's own alias or on an     *)
(* identifier, whatever its guards read before the locks.                  *)
LEMMA Repaired ==
    ASSUME ReattachInv, NEW r \in Runs, Repair(r)
    PROVE  ReattachInv' /\ Moves
<1>0. ReattachTypes /\ RunHolds(run[r])
    BY DEF ReattachInv
<1> DEFINE q == run[r]
           x == IF q.mb # q.dg THEN q.mb ELSE q.gm
<1>1. /\ q.pc = "repair" /\ UNCHANGED <<link, message>>
      /\ run' = [run EXCEPT ![r] = AfterItem(r)]
      /\ holder' = holder \/ (~Guarded(x, q.row) /\ holder' = MoveAll(x, q.dg))
    BY DEF Repair
<1>2. /\ q.page \subseteq MbRows /\ q.row \in MbRows /\ q.link = link[q.row]
      /\ q.link # NoLink /\ q.dg # NoItem /\ holder[Dg(q.link)] = q.dg
    BY <1>0, <1>1 DEF RunHolds
<1> HIDE DEF x, q
<1>3. DOMAIN holder' = AliasKeys /\ Moves
  <2>1. CASE holder' = holder
      BY <1>0, <2>1 DEF Moves, ReattachTypes
  <2>2. CASE ~Guarded(x, q.row) /\ holder' = MoveAll(x, q.dg)
    <3>1. /\ DOMAIN holder' = AliasKeys
          /\ \A k \in AliasKeys : holder'[k] = IF holder[k] = x THEN q.dg ELSE holder[k]
        BY <2>2 DEF MoveAll
    <3>2. \A k \in AliasKeys : holder[k] = x => k \in IdentifierKeys \cup {Mb(q.row)}
        BY <2>2 DEF Guarded, HeldBy
    <3>3. \A d \in DiscogsIds : holder[Dg(d)] # x
        BY <1>2, <3>2, KeyFacts
    <3>4. \A m \in MbRows : holder[Mb(m)] = x => m = q.row
        BY <1>2, <3>2, KeyFacts
    <3> QED
        BY <1>2, <3>1, <3>3, <3>4, KeyFacts DEF Moves
  <2> QED
      BY <1>1, <2>1, <2>2
<1>4. \A a : a = AfterItem(r) => DOMAIN a = RunFields /\ RunHolds(a)'
    BY <1>2, AfterItemHolds DEF q
<1> QED
    BY <1>1, <1>3, <1>4, RunChanges

(* No run carries along another row, or a Discogs record, with the row it  *)
(* repairs.                                                                *)
THEOREM RepairsFollowOwnLink == Spec => MovesFollowOwnLink
<1>1. Init => ReattachInv
    BY ReattachInitInv DEF Init
<1>2. ReattachInv /\ [Next]_progressVars => ReattachInv' /\ [Moves]_reattachVars
  <2> SUFFICES ASSUME ReattachInv, [Next]_progressVars
               PROVE  ReattachInv' /\ [Moves]_reattachVars
      OBVIOUS
  <2>1. [ReattachNext]_reattachVars
      BY DEF Next, Tree, Tracking, Reattachment, Analysis, RestOf, progressVars
  <2>2. CASE UNCHANGED reattachVars
      BY <2>2 DEF reattachVars, ReattachInv, ReattachTypes, RunHolds
  <2>3. CASE ReattachNext
      BY <2>3, Loads, RunReads, Repaired DEF ReattachNext, RunStep
  <2> QED
      BY <2>1, <2>2, <2>3
<1> QED
    BY <1>1, <1>2, PTL DEF Spec, MovesFollowOwnLink, Moves
=============================================================================
