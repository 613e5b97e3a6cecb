---------------------------- MODULE CatalogProofs ---------------------------
(***************************************************************************)
(* Proofs about the components that read and derive from the catalog, for  *)
(* every value of the constants of MCCatalog.  A behaviour runs one of     *)
(* them while the others stand still, so a behaviour of the composition is *)
(* one of every component.                                                 *)
(***************************************************************************)
EXTENDS MCCatalog, FiniteSetTheorems, NaturalsInduction, WellFoundedInduction, TLAPS

(* A set of numbers that is not empty has a least one.                     *)
LEMMA LeastNumber ==
    ASSUME NEW S \in SUBSET Nat, S # {}
    PROVE  \E x \in S : \A y \in S : x <= y
<1>1. PICK x \in S : \A y \in S : <<y, x>> \notin OpToRel(<, Nat)
    BY NatLessThanWellFounded, WFMin, Zenon
<1>2. \A y \in S : y \in Nat /\ x \in Nat
    OBVIOUS
<1>3. \A y \in S : ~(y < x)
    BY <1>1, <1>2, Zenon DEF OpToRel
<1> QED
    BY <1>2, <1>3

-----------------------------------------------------------------------------
(* ExploreHubs: the lock is its builder's, and a result is not older than  *)
(* its label.                                                              *)

HubResultSet == [count : Nat, rows : Nat, old : BOOLEAN]
StageSet == [count : Nat, rows : Nat]
HubLoops == [pc : {"idle", "lock", "recheck", "stages", "skip", "store"}, count : Nat, token : Nat,
             held : HubResultSet]

HubTypes ==
    /\ hubReleases \in 1..MaxReleases /\ tokens \in Nat /\ hubLock \in Nat
    /\ hubs \in [HubReplicas -> HubResultSet] /\ hubStored \in HubResultSet
    /\ done \in [HubReplicas -> [Stages -> StageSet]]
    /\ hubLoop \in [HubReplicas -> HubLoops]
    /\ owns \in [HubReplicas -> Nat]

(* No two builders have one token, a builder that owns the lock has the    *)
(* token in it, and one that is not between the lock and its release has   *)
(* none to lose.                                                           *)
TokensAreFresh ==
    /\ hubLock <= tokens
    /\ \A r \in HubReplicas :
          /\ hubLoop[r].token <= tokens
          /\ owns[r] # 0 => owns[r] = hubLoop[r].token
          /\ hubLoop[r].pc \in {"idle", "lock"} => hubLoop[r].token = 0
          /\ hubLoop[r].pc = "store" => owns[r] = 0
    /\ \A r, s \in HubReplicas :
          hubLoop[r].token # 0 /\ hubLoop[r].token = hubLoop[s].token => r = s

(* A stage was scanned no earlier than the count it is kept for was read,  *)
(* and no build has a count the graph has not reached.                     *)
StagesAreCurrent ==
    /\ \A r \in HubReplicas : hubLoop[r].count <= hubReleases
    /\ \A r \in HubReplicas, s \in Stages : done[r][s].rows >= done[r][s].count

HubInv == HubTypes /\ TokensAreFresh /\ HubLockIsOwned /\ StagesAreCurrent /\ HubRowsAreCurrent

(* The results one by one.                                                 *)
LEMMA RowsOneByOne ==
    /\ HubRowsAreCurrent <=> /\ hubStored.rows >= hubStored.count
                             /\ \A r \in HubReplicas : hubs[r].rows >= hubs[r].count
    /\ HubRowsAreCurrent' <=> /\ hubStored'.rows >= hubStored'.count
                              /\ \A r \in HubReplicas : hubs'[r].rows >= hubs'[r].count
    BY DEF HubRowsAreCurrent

LEMMA HubConstants ==
    /\ NoHub \in HubResultSet /\ NoHub.rows = 0 /\ NoHub.count = 0
    /\ NoStages \in [Stages -> StageSet] /\ \A s \in Stages : NoStages[s].rows = 0 /\ NoStages[s].count = 0
    /\ HubIdle \in HubLoops /\ HubIdle.pc = "idle" /\ HubIdle.token = 0 /\ HubIdle.count = 0
<1>1. NoHub \in HubResultSet /\ NoHub.rows = 0 /\ NoHub.count = 0
    BY DEF NoHub, HubResultSet
<1> QED
    BY <1>1 DEF NoStages, StageSet, HubIdle, HubLoops

LEMMA HubInitInv == HubInit => HubInv
    BY HubConstants, RowsOneByOne, HubCountAssumption
    DEF HubInit, HubInv, HubTypes, TokensAreFresh, HubLockIsOwned, StagesAreCurrent

(* Steps of the graph, of the readers and of the lock's TTL.               *)
LEMMA HubAround ==
    ASSUME HubInv,
           \/ ReleasesChange \/ HubAges \/ HubLockLapses
           \/ \E r \in HubReplicas : ServeHub(r) \/ HubLockOverrun(r) \/ RetryTime(r)
    PROVE  HubInv'
<1>0. HubTypes /\ TokensAreFresh /\ HubLockIsOwned /\ StagesAreCurrent /\ HubRowsAreCurrent
    BY DEF HubInv
<1>1. CASE ReleasesChange
  <2>1. /\ hubReleases' \in 1..MaxReleases /\ hubReleases' >= hubReleases
        /\ hubReleases \in Nat /\ hubReleases' \in Nat
      BY <1>0, <1>1, HubCountAssumption DEF ReleasesChange, HubTypes
  <2>2. UNCHANGED <<hubs, done, hubStored, hubLock, owns, hubLoop, tokens>>
      BY <1>1 DEF ReleasesChange, hubMemory
  <2>3. \A r \in HubReplicas : hubLoop[r].count \in Nat
      BY <1>0 DEF HubTypes, HubLoops
  <2>4. StagesAreCurrent'
      BY <1>0, <2>1, <2>2, <2>3 DEF StagesAreCurrent
  <2>5. HubRowsAreCurrent'
      BY <1>0, <2>2, RowsOneByOne
  <2> QED
      BY <1>0, <2>1, <2>2, <2>4, <2>5 DEF HubInv, HubTypes, TokensAreFresh, HubLockIsOwned
<1>2. CASE HubAges
  <2>1. /\ UNCHANGED <<hubReleases, done, hubLock, owns, hubLoop, tokens>>
        /\ hubStored' = [hubStored EXCEPT !.old = TRUE]
        /\ hubs' = [r \in HubReplicas |-> IF hubs[r].count = 0 THEN NoHub
                                          ELSE [hubs[r] EXCEPT !.old = TRUE]]
      BY <1>2 DEF HubAges
  <2>2. \A h \in HubResultSet : LET o == [h EXCEPT !.old = TRUE] IN
            o \in HubResultSet /\ o.rows = h.rows /\ o.count = h.count
      BY DEF HubResultSet
  <2>3. HubTypes'
      BY <1>0, <2>1, <2>2, HubConstants DEF HubTypes
  <2>4. HubRowsAreCurrent'
      BY <1>0, <2>1, <2>2, HubConstants, RowsOneByOne DEF HubTypes
  <2> QED
      BY <1>0, <2>1, <2>3, <2>4 DEF HubInv, TokensAreFresh, HubLockIsOwned, StagesAreCurrent
<1>3. CASE HubLockLapses \/ \E r \in HubReplicas : HubLockOverrun(r) \/ RetryTime(r)
  <2>1. /\ UNCHANGED <<hubReleases, hubs, done, hubStored, hubLoop, tokens>>
        /\ \/ hubLock' = hubLock /\ owns' = owns
           \/ /\ hubLock' = 0
              /\ \A r \in HubReplicas : owns'[r] = owns[r] \/ owns'[r] = 0
              /\ \A r \in HubReplicas : owns'[r] # hubLock
              /\ owns' \in [HubReplicas -> Nat]
    <3>1. CASE HubLockLapses
        BY <1>0, <3>1 DEF HubLockLapses, hubMemory, HubTypes
    <3>2. ASSUME NEW r \in HubReplicas, HubLockOverrun(r)
          PROVE  /\ UNCHANGED <<hubReleases, hubs, done, hubStored, hubLoop, tokens>>
                 /\ hubLock' = 0 /\ owns' \in [HubReplicas -> Nat]
                 /\ \A s \in HubReplicas : (owns'[s] = owns[s] \/ owns'[s] = 0) /\ owns'[s] # hubLock
      <4>1. \A s \in HubReplicas : owns[s] = hubLock => s = r
          BY <1>0, <3>2 DEF HubLockOverrun, TokensAreFresh, HubTypes
      <4> QED
          BY <1>0, <3>2, <4>1 DEF HubLockOverrun, hubMemory, HubTypes
    <3>3. ASSUME NEW r \in HubReplicas, RetryTime(r)
          PROVE  UNCHANGED <<hubReleases, hubs, done, hubStored, hubLoop, tokens, hubLock, owns>>
        BY <3>3 DEF RetryTime
    <3> QED
        BY <1>3, <3>1, <3>2, <3>3
  <2>2. HubTypes' /\ StagesAreCurrent' /\ HubRowsAreCurrent'
      BY <1>0, <2>1, RowsOneByOne DEF HubTypes, StagesAreCurrent
  <2>3. TokensAreFresh' /\ HubLockIsOwned'
      BY <1>0, <2>1 DEF HubTypes, TokensAreFresh, HubLockIsOwned
  <2> QED
      BY <2>2, <2>3 DEF HubInv
<1>4. ASSUME NEW r \in HubReplicas, ServeHub(r)
      PROVE  HubInv'
    BY <1>0, <1>4, RowsOneByOne
    DEF ServeHub, HubInv, HubTypes, TokensAreFresh, HubLockIsOwned, StagesAreCurrent
<1> QED
    BY <1>1, <1>2, <1>3, <1>4

LoopSteps == {"idle", "lock", "recheck", "stages", "skip", "store"}

LEMMA LoopFields ==
    ASSUME NEW l \in HubLoops, NEW p \in LoopSteps, NEW q, q = [l EXCEPT !.pc = p]
    PROVE  q \in HubLoops /\ q.pc = p /\ q.token = l.token /\ q.count = l.count
    BY DEF HubLoops, LoopSteps

(* A step of replica r after which its loop is at q, with result h,        *)
(* stages D and lock o.                                                    *)
HubMove(r, q, h, D, o) ==
    /\ UNCHANGED hubReleases
    /\ hubLoop' = [hubLoop EXCEPT ![r] = q] /\ q \in HubLoops /\ q.count <= hubReleases
    /\ hubs' = [hubs EXCEPT ![r] = h] /\ h \in HubResultSet /\ h.rows >= h.count
    /\ done' = [done EXCEPT ![r] = D] /\ D \in [Stages -> StageSet] /\ \A s \in Stages : D[s].rows >= D[s].count
    /\ owns' = [owns EXCEPT ![r] = o] /\ o \in Nat
    /\ hubStored' \in HubResultSet /\ hubStored'.rows >= hubStored'.count
    /\ \/ tokens' = tokens /\ q.token \in {0, hubLoop[r].token}
       \/ tokens' = tokens + 1 /\ q.token = tokens'
    /\ hubLock' \in Nat /\ hubLock' <= tokens'
    /\ o # 0 => o = q.token /\ hubLock' = o
    /\ q.pc \in {"idle", "lock"} => q.token = 0
    /\ q.pc = "store" => o = 0
    /\ \A s \in HubReplicas : s # r /\ owns[s] # 0 => hubLock' = owns[s]

LEMMA HubMoves ==
    ASSUME HubInv, NEW r \in HubReplicas, NEW q, NEW h, NEW D, NEW o, HubMove(r, q, h, D, o)
    PROVE  HubInv'
<1>0. HubTypes /\ TokensAreFresh /\ HubLockIsOwned /\ StagesAreCurrent /\ HubRowsAreCurrent
    BY DEF HubInv
<1>1. HubTypes'
    BY <1>0 DEF HubMove, HubTypes
<1>2. /\ hubLoop'[r] = q /\ hubs'[r] = h /\ done'[r] = D /\ owns'[r] = o
      /\ \A s \in HubReplicas : s # r => /\ hubLoop'[s] = hubLoop[s] /\ hubs'[s] = hubs[s]
                                         /\ done'[s] = done[s] /\ owns'[s] = owns[s]
    BY <1>0 DEF HubMove, HubTypes
<1>3. q.token \in Nat /\ tokens \in Nat /\ \A s \in HubReplicas : hubLoop[s].token \in Nat
    BY <1>0 DEF HubMove, HubTypes, HubLoops
<1>4. TokensAreFresh'
  <2>1. hubLock' <= tokens' /\ tokens' \in Nat /\ tokens <= tokens'
      BY <1>3 DEF HubMove
  <2>2. ASSUME NEW s \in HubReplicas
        PROVE  /\ hubLoop'[s].token <= tokens'
               /\ owns'[s] # 0 => owns'[s] = hubLoop'[s].token
               /\ hubLoop'[s].pc \in {"idle", "lock"} => hubLoop'[s].token = 0
               /\ hubLoop'[s].pc = "store" => owns'[s] = 0
    <3>1. CASE s = r
        BY <1>0, <1>2, <1>3, <3>1 DEF HubMove, TokensAreFresh
    <3>2. CASE s # r
        BY <1>0, <1>2, <1>3, <2>1, <3>2 DEF TokensAreFresh
    <3> QED
        BY <3>1, <3>2
  <2>3. ASSUME NEW s \in HubReplicas, NEW t \in HubReplicas,
               hubLoop'[s].token # 0, hubLoop'[s].token = hubLoop'[t].token
        PROVE  s = t
    <3>1. \A u \in HubReplicas : hubLoop[u].token <= tokens
        BY <1>0 DEF TokensAreFresh
    <3>2. q.token # 0 => q.token = hubLoop[r].token \/ q.token > tokens
        BY <1>3 DEF HubMove
    <3>3. \A u, v \in HubReplicas : hubLoop[u].token # 0 /\ hubLoop[u].token = hubLoop[v].token => u = v
        BY <1>0 DEF TokensAreFresh
    <3> QED
        BY <1>2, <1>3, <2>3, <3>1, <3>2, <3>3
  <2> QED
      BY <2>1, <2>2, <2>3 DEF TokensAreFresh
<1>5. HubLockIsOwned'
    BY <1>2 DEF HubMove, HubLockIsOwned
<1>6. StagesAreCurrent' /\ HubRowsAreCurrent'
    BY <1>0, <1>2, RowsOneByOne DEF HubMove, StagesAreCurrent
<1> QED
    BY <1>1, <1>4, <1>5, <1>6 DEF HubInv

(* What the invariant says of replica r, to fill in a HubMove.             *)
LEMMA HubAt ==
    ASSUME HubInv, NEW r \in HubReplicas
    PROVE  /\ hubReleases \in Nat /\ tokens \in Nat /\ hubLock \in Nat /\ hubLock <= tokens
           /\ hubLoop[r] \in HubLoops /\ hubLoop[r].token \in Nat /\ hubLoop[r].count \in Nat
           /\ hubLoop[r].count <= hubReleases
           /\ hubs[r] \in HubResultSet /\ hubs[r].rows >= hubs[r].count
           /\ hubStored \in HubResultSet /\ hubStored.rows >= hubStored.count
           /\ done[r] \in [Stages -> StageSet] /\ \A s \in Stages : done[r][s].rows >= done[r][s].count
           /\ owns[r] \in Nat /\ (owns[r] # 0 => owns[r] = hubLoop[r].token /\ hubLock = owns[r])
           /\ hubLoop[r].pc \in {"idle", "lock"} => hubLoop[r].token = 0
           /\ hubLoop[r].pc = "store" => owns[r] = 0
           /\ \A s \in HubReplicas : s # r /\ owns[s] # 0 =>
                 hubLock = owns[s] /\ hubLock # hubLoop[r].token
           /\ hubLoop = [hubLoop EXCEPT ![r] = hubLoop[r]] /\ hubs = [hubs EXCEPT ![r] = hubs[r]]
           /\ done = [done EXCEPT ![r] = done[r]] /\ owns = [owns EXCEPT ![r] = owns[r]]
           /\ NoHub.rows >= NoHub.count
<1>0. HubTypes /\ TokensAreFresh /\ HubLockIsOwned /\ StagesAreCurrent /\ HubRowsAreCurrent
    BY DEF HubInv
<1>1. /\ hubReleases \in Nat /\ tokens \in Nat /\ hubLock \in Nat /\ hubLock <= tokens
      /\ hubLoop[r] \in HubLoops /\ hubLoop[r].token \in Nat /\ hubLoop[r].count \in Nat
      /\ hubLoop[r].count <= hubReleases
    BY <1>0 DEF HubTypes, TokensAreFresh, StagesAreCurrent, HubLoops
<1>2. /\ hubs[r] \in HubResultSet /\ hubs[r].rows >= hubs[r].count
      /\ hubStored \in HubResultSet /\ hubStored.rows >= hubStored.count
      /\ done[r] \in [Stages -> StageSet] /\ \A s \in Stages : done[r][s].rows >= done[r][s].count
    BY <1>0, RowsOneByOne DEF HubTypes, StagesAreCurrent
<1>3. /\ owns[r] \in Nat /\ (owns[r] # 0 => owns[r] = hubLoop[r].token /\ hubLock = owns[r])
      /\ hubLoop[r].pc \in {"idle", "lock"} => hubLoop[r].token = 0
      /\ hubLoop[r].pc = "store" => owns[r] = 0
    BY <1>0 DEF HubTypes, TokensAreFresh, HubLockIsOwned
<1>4. \A s \in HubReplicas : s # r /\ owns[s] # 0 => hubLock = owns[s] /\ hubLock # hubLoop[r].token
    BY <1>0 DEF HubTypes, TokensAreFresh, HubLockIsOwned
<1>5. /\ hubLoop = [hubLoop EXCEPT ![r] = hubLoop[r]] /\ hubs = [hubs EXCEPT ![r] = hubs[r]]
      /\ done = [done EXCEPT ![r] = done[r]] /\ owns = [owns EXCEPT ![r] = owns[r]]
    BY <1>0 DEF HubTypes
<1> QED
    BY <1>1, <1>2, <1>3, <1>4, <1>5, HubConstants

LEMMA HubListed ==
    ASSUME HubInv, NEW r \in HubReplicas, ListHub(r)
    PROVE  HubInv'
<1>0. PICK count \in Nat : count = HubCount[hubReleases] /\ count <= hubReleases
    BY HubCountAssumption, HubConstants DEF HubInv, HubTypes
<1>1. PICK held \in HubResults(r) :
          /\ hubs' = [hubs EXCEPT ![r] = held]
          /\ hubLoop' = [hubLoop EXCEPT ![r] =
                  IF Usable(held, count) \/ backoff[r] THEN HubIdle
                  ELSE [HubIdle EXCEPT !.pc = "lock", !.count = count, !.held = held]]
    BY <1>0 DEF ListHub
<1>2. held \in HubResultSet /\ held.rows >= held.count
    BY HubAt, HubConstants DEF HubResults
<1>3. PICK q : /\ hubLoop' = [hubLoop EXCEPT ![r] = q] /\ q \in HubLoops /\ q.token = 0
               /\ q.count <= hubReleases /\ q.pc \in {"idle", "lock"}
  <2>1. CASE Usable(held, count) \/ backoff[r]
    <3>1. HubIdle \in HubLoops /\ HubIdle.token = 0 /\ HubIdle.count <= hubReleases /\ HubIdle.pc = "idle"
        BY HubAt, HubConstants
    <3>2. hubLoop' = [hubLoop EXCEPT ![r] = HubIdle]
        BY <1>1, <2>1
    <3> QED
        BY <3>1, <3>2
  <2>2. CASE ~(Usable(held, count) \/ backoff[r])
    <3>1. PICK q : q = [HubIdle EXCEPT !.pc = "lock", !.count = count, !.held = held]
        OBVIOUS
    <3>2. q \in HubLoops /\ q.pc = "lock" /\ q.token = 0 /\ q.count = count
      <4>1. HubIdle \in HubLoops /\ HubIdle.token = 0
          BY HubAt, HubConstants
      <4> QED
          BY <1>2, <3>1, <4>1 DEF HubLoops
    <3>3. q.count <= hubReleases
        BY <1>0, <3>2
    <3> QED
        BY <1>1, <2>2, <3>1, <3>2, <3>3
  <2> QED
      BY <2>1, <2>2
<1>4. HubMove(r, q, held, done[r], owns[r])
    BY <1>1, <1>2, <1>3, HubAt DEF ListHub, HubMove
<1> QED
    BY <1>4, HubMoves

LEMMA HubLocked ==
    ASSUME HubInv, NEW r \in HubReplicas, TakeHubLock(r)
    PROVE  HubInv'
<1>l. hubLoop[r] \in HubLoops /\ tokens + 1 \in Nat
    BY HubAt
<1>0. hubLoop[r].pc = "lock" /\ hubLoop[r].token = 0 /\ UNCHANGED <<hubReleases, hubs, done, hubStored>>
    BY HubAt DEF TakeHubLock, hubMemory
<1>1. ASSUME hubLock = 0, tokens' = tokens + 1, hubLock' = tokens + 1, owns' = [owns EXCEPT ![r] = tokens + 1],
             hubLoop' = [hubLoop EXCEPT ![r].pc = "recheck", ![r].token = tokens + 1]
      PROVE  HubInv'
  <2>1. PICK q : q = [hubLoop[r] EXCEPT !.pc = "recheck", !.token = tokens + 1]
      OBVIOUS
  <2>2. hubLoop' = [hubLoop EXCEPT ![r] = q]
      BY <1>1, <2>1, HubAt DEF HubInv, HubTypes
  <2>3. q \in HubLoops /\ q.pc = "recheck" /\ q.token = tokens + 1 /\ q.count = hubLoop[r].count
      BY <2>1, <1>l DEF HubLoops
  <2>4. HubMove(r, q, hubs[r], done[r], tokens + 1)
    <3>1. \A s \in HubReplicas : s # r => owns[s] = 0
      <4>1. \A s \in HubReplicas : owns[s] \in Nat
          BY HubAt
      <4> QED
          BY <1>1, <4>1, HubAt
    <3>2. /\ q.count <= hubReleases /\ hubs[r] \in HubResultSet /\ hubs[r].rows >= hubs[r].count
          /\ done[r] \in [Stages -> StageSet] /\ \A s \in Stages : done[r][s].rows >= done[r][s].count
          /\ hubStored \in HubResultSet /\ hubStored.rows >= hubStored.count /\ tokens \in Nat
          /\ hubs = [hubs EXCEPT ![r] = hubs[r]] /\ done = [done EXCEPT ![r] = done[r]]
        BY <2>3, HubAt
    <3> QED
      <4>1. tokens' = tokens + 1 /\ q.token = tokens' /\ tokens + 1 # 0 /\ hubLock' = tokens + 1
            /\ hubLock' \in Nat /\ hubLock' <= tokens'
          BY <1>1, <2>3, <3>2
      <4>2. q.pc \notin {"idle", "lock", "store"}
          BY <2>3
      <4>3. UNCHANGED <<hubReleases, hubs, done, hubStored>> /\ tokens + 1 \in Nat
          BY <1>0, <3>2
      <4> QED
          BY <1>1, <2>2, <2>3, <3>1, <3>2, <4>1, <4>2, <4>3 DEF HubMove
  <2> QED
      BY <2>4, HubMoves
<1>2. ASSUME hubLoop' = [hubLoop EXCEPT ![r] = HubIdle], UNCHANGED <<tokens, hubLock, owns>>
      PROVE  HubInv'
  <2>1. owns[r] = 0
      BY <1>0, HubAt
  <2>2. HubMove(r, HubIdle, hubs[r], done[r], owns[r])
      BY <1>0, <1>2, <2>1, HubAt, HubConstants DEF HubMove
  <2> QED
      BY <2>2, HubMoves
<1>3. ASSUME hubLoop' = [hubLoop EXCEPT ![r].pc = "recheck"], UNCHANGED <<tokens, hubLock, owns>>
      PROVE  HubInv'
  <2>1. PICK q : q = [hubLoop[r] EXCEPT !.pc = "recheck"]
      OBVIOUS
  <2>2. hubLoop' = [hubLoop EXCEPT ![r] = q]
      BY <1>3, <2>1, HubAt DEF HubInv, HubTypes
  <2>3. q \in HubLoops /\ q.pc = "recheck" /\ q.token = hubLoop[r].token /\ q.count = hubLoop[r].count
      BY <2>1, <1>l, LoopFields DEF LoopSteps
  <2>4. HubMove(r, q, hubs[r], done[r], owns[r])
      BY <1>0, <1>3, <2>2, <2>3, HubAt DEF HubMove
  <2> QED
      BY <2>4, HubMoves
<1> QED
    BY <1>1, <1>2, <1>3 DEF TakeHubLock

LEMMA HubLookedUp ==
    ASSUME HubInv, NEW r \in HubReplicas, Recheck(r)
    PROVE  HubInv'
<1>l. hubLoop[r] \in HubLoops /\ tokens + 1 \in Nat
    BY HubAt
<1>1. PICK fresh \in {hubs[r], hubStored, NoHub}, p \in {"skip", "stages"} :
          /\ hubs' = [hubs EXCEPT ![r] = fresh]
          /\ hubLoop' = [hubLoop EXCEPT ![r].pc = p]
    BY DEF Recheck, HubResults
<1>2. fresh \in HubResultSet /\ fresh.rows >= fresh.count
    BY HubAt, HubConstants
<1>3. PICK q : q = [hubLoop[r] EXCEPT !.pc = p]
    OBVIOUS
<1>4. hubLoop' = [hubLoop EXCEPT ![r] = q]
    BY <1>1, <1>3, HubAt DEF HubInv, HubTypes
<1>5. q \in HubLoops /\ q.pc = p /\ q.token = hubLoop[r].token /\ q.count = hubLoop[r].count
    BY <1>3, <1>l, LoopFields DEF LoopSteps
<1>6. HubMove(r, q, fresh, done[r], owns[r])
    BY <1>1, <1>2, <1>4, <1>5, HubAt DEF Recheck, HubMove
<1> QED
    BY <1>6, HubMoves

LEMMA HubStaged ==
    ASSUME HubInv, NEW r \in HubReplicas, NEW s \in Stages, RunStage(r, s)
    PROVE  HubInv'
<1>1. PICK D : D = [done[r] EXCEPT ![s] = [count |-> hubLoop[r].count, rows |-> hubReleases]]
    OBVIOUS
<1>2. done' = [done EXCEPT ![r] = D]
    BY <1>1 DEF RunStage, HubInv, HubTypes
<1>3. [count |-> hubLoop[r].count, rows |-> hubReleases] \in StageSet
    BY HubAt DEF StageSet
<1>4. D \in [Stages -> StageSet] /\ \A t \in Stages : D[t].rows >= D[t].count
    BY <1>1, <1>3, HubAt
<1>5. hubLoop[r].pc = "stages"
    BY DEF RunStage
<1>6. HubMove(r, hubLoop[r], hubs[r], D, owns[r])
    BY <1>2, <1>4, <1>5, HubAt DEF RunStage, HubMove
<1> QED
    BY <1>6, HubMoves

LEMMA HubFailed ==
    ASSUME HubInv, NEW r \in HubReplicas, StageFails(r)
    PROVE  HubInv'
<1>l. hubLoop[r] \in HubLoops /\ tokens + 1 \in Nat
    BY HubAt
<1>1. PICK q : q = [hubLoop[r] EXCEPT !.pc = "skip"]
    OBVIOUS
<1>2. hubLoop' = [hubLoop EXCEPT ![r] = q]
    BY <1>1, HubAt DEF StageFails, HubInv, HubTypes
<1>3. q \in HubLoops /\ q.pc = "skip" /\ q.token = hubLoop[r].token /\ q.count = hubLoop[r].count
    BY <1>1, <1>l, LoopFields DEF LoopSteps
<1>4. HubMove(r, q, hubs[r], done[r], owns[r])
    BY <1>2, <1>3, HubAt DEF StageFails, HubMove
<1> QED
    BY <1>4, HubMoves

(* Compare and delete: only the lock with the releasing builder's token is *)
(* deleted, and no other builder has that token.                           *)
LEMMA HubReleased ==
    ASSUME HubInv, NEW r \in HubReplicas, NEW q, ReleaseHubLock(r, q)
    PROVE  /\ owns' = [owns EXCEPT ![r] = 0] /\ hubLoop' = [hubLoop EXCEPT ![r] = q]
           /\ hubLock' \in Nat /\ hubLock' <= tokens
           /\ \A s \in HubReplicas : s # r /\ owns[s] # 0 => hubLock' = owns[s]
    BY HubAt DEF ReleaseHubLock, AfterRelease

LEMMA HubSkipped ==
    ASSUME HubInv, NEW r \in HubReplicas, Skip(r)
    PROVE  HubInv'
<1>1. HubMove(r, HubIdle, hubs[r], done[r], 0)
    BY HubReleased, HubAt, HubConstants DEF Skip, HubMove, hubMemory
<1> QED
    BY <1>1, HubMoves

LEMMA HubFinished ==
    ASSUME HubInv, NEW r \in HubReplicas, FinishHub(r)
    PROVE  HubInv'
<1>l. hubLoop[r] \in HubLoops /\ tokens + 1 \in Nat
    BY HubAt
<1>1. PICK q : q = [hubLoop[r] EXCEPT !.pc = "store"]
    OBVIOUS
<1>2. q \in HubLoops /\ q.pc = "store" /\ q.token = hubLoop[r].token /\ q.count = hubLoop[r].count
    BY <1>1, <1>l, LoopFields DEF LoopSteps
<1>3. ReleaseHubLock(r, q)
    BY <1>1 DEF FinishHub
<1> DEFINE V == {done[r][s].rows : s \in Stages}
           v == CHOOSE v \in V : \A s \in Stages : v <= done[r][s].rows
<1>4. V \in SUBSET Nat /\ V # {}
    BY HubAt, StagesAssumption DEF StageSet
<1>5. \E u \in V : \A s \in Stages : u <= done[r][s].rows
  <2>1. PICK u \in V : \A y \in V : u <= y
      BY <1>4, LeastNumber
  <2> QED
      BY <2>1
<1>6. v \in V
    BY <1>5
<1>7. PICK h : h = [count |-> hubLoop[r].count, old |-> FALSE, rows |-> v]
    OBVIOUS
<1>8. hubs' = [hubs EXCEPT ![r] = h]
    BY <1>7 DEF FinishHub
<1>9. h \in HubResultSet /\ h.rows >= h.count
  <2>1. PICK s \in Stages : v = done[r][s].rows
      BY <1>6
  <2>2. done[r][s].count = hubLoop[r].count
      BY DEF FinishHub, StageIsKept
  <2>3. done[r][s].rows >= done[r][s].count /\ v \in Nat
      BY <1>4, <1>6, HubAt
  <2> QED
      BY <1>7, <2>1, <2>2, <2>3, HubAt DEF HubResultSet
<1>10. HubMove(r, q, h, NoStages, 0)
  <2>1. \A s \in Stages : NoStages[s].rows >= NoStages[s].count
      BY HubConstants
  <2>2. /\ owns' = [owns EXCEPT ![r] = 0] /\ hubLoop' = [hubLoop EXCEPT ![r] = q]
        /\ hubLock' \in Nat /\ hubLock' <= tokens
        /\ \A s \in HubReplicas : s # r /\ owns[s] # 0 => hubLock' = owns[s]
      BY <1>3, HubReleased
  <2>3. /\ q.count <= hubReleases /\ hubStored \in HubResultSet /\ hubStored.rows >= hubStored.count
        /\ tokens \in Nat
      BY <1>2, HubAt
  <2>4. UNCHANGED <<hubReleases, hubStored, tokens>> /\ done' = [done EXCEPT ![r] = NoStages]
      BY DEF FinishHub
  <2> QED
      BY <1>2, <1>8, <1>9, <2>1, <2>2, <2>3, <2>4, HubConstants DEF HubMove
<1> QED
    BY <1>10, HubMoves

LEMMA HubStores ==
    ASSUME HubInv, NEW r \in HubReplicas, StoreHub(r)
    PROVE  HubInv'
<1>1. owns[r] = 0
    BY HubAt DEF StoreHub
<1>2. HubMove(r, HubIdle, hubs[r], done[r], owns[r])
    BY <1>1, HubAt, HubConstants DEF StoreHub, HubMove, hubMemory
<1> QED
    BY <1>2, HubMoves

LEMMA HubCrashed ==
    ASSUME HubInv, NEW r \in HubReplicas, HubCrash(r)
    PROVE  HubInv'
<1>1. \A s \in Stages : NoStages[s].rows >= NoStages[s].count
    BY HubConstants
<1>2. HubMove(r, HubIdle, NoHub, NoStages, 0)
    BY <1>1, HubAt, HubConstants DEF HubCrash, HubMove
<1> QED
    BY <1>2, HubMoves

LEMMA HubNextInv == HubInv /\ HubNext => HubInv'
<1> SUFFICES ASSUME HubInv, HubNext PROVE HubInv'
    OBVIOUS
<1>1. CASE ReleasesChange \/ HubAges \/ HubLockLapses
    BY <1>1, HubAround
<1>2. ASSUME NEW r \in HubReplicas,
             HubStep(r) \/ StageFails(r) \/ ServeHub(r) \/ HubLockOverrun(r) \/ HubCrash(r)
      PROVE  HubInv'
    BY <1>2, HubAround, HubListed, HubLocked, HubLookedUp, HubStaged, HubFailed, HubSkipped, HubFinished,
       HubStores, HubCrashed
    DEF HubStep
<1> QED
    BY <1>1, <1>2 DEF HubNext

LEMMA HubStutter == HubInv /\ UNCHANGED hubVars => HubInv'
    BY RowsOneByOne
    DEF HubInv, HubTypes, TokensAreFresh, HubLockIsOwned, StagesAreCurrent, hubVars, hubMemory

-----------------------------------------------------------------------------
(* CommunityCounts: PostgreSQL and the graph agree outside of requests.    *)

CountSteps == {"idle", "next", "get", "store", "graph"}
CycleSet == [pc : CountSteps, ids : SUBSET Listed, todo : SUBSET Listed, now : Listed \cup {0}, read : Nat,
             batch : [Listed -> Nat], alone : SUBSET Listed, retries : Nat, errors : Nat]

CountTypes ==
    /\ remote \in [Listed -> Nat \ {0}] /\ nodes \in [Listed -> Nat]
    /\ rows \in [Listed -> [v : Nat, age : Nat]]
    /\ cycles \in [Enrichments -> CycleSet] /\ adrift \subseteq Listed

(* A release is fetched at most once in a request: what is still to do, in *)
(* hand, fetched and failed are apart, and no more than was asked for.     *)
InHand(c) == IF c.pc \in {"get", "store"} THEN 1 ELSE 0

CycleAddsUp(c) ==
    /\ c.pc \in {"get", "store"} => c.now \in c.ids \ c.todo /\ c.batch[c.now] = 0
    /\ c.pc = "store" => c.read # 0
    /\ c.todo \subseteq c.ids /\ Enriched(c) \subseteq c.ids /\ c.alone \subseteq c.ids
    /\ \A r \in Listed : c.pc = "idle" \/ r \in c.todo => c.batch[r] = 0
    /\ Cardinality(c.todo) + Cardinality(Enriched(c)) + c.errors + InHand(c) <= Cardinality(c.ids)

(* What a request alone was given no other has, and its batch holds of it  *)
(* what PostgreSQL stores.                                                 *)
AloneIsAlone(e) ==
    \A r \in cycles[e].alone :
        /\ \A d \in Enrichments : d # e => r \notin cycles[d].ids
        /\ cycles[e].batch[r] # 0 => cycles[e].batch[r] = rows[r].v

(* Every release that is not adrift is in some batch, or the graph has     *)
(* what PostgreSQL stores.                                                 *)
NodesFollow ==
    \A r \in Listed \ adrift :
        (\E e \in Enrichments : cycles[e].batch[r] # 0) \/ nodes[r] = rows[r].v

CountInv ==
    /\ CountTypes /\ NodesFollow
    /\ \A e \in Enrichments : CycleAddsUp(cycles[e]) /\ AloneIsAlone(e)

(* The fields of a request.                                                *)
LEMMA CycleFields ==
    ASSUME NEW c \in CycleSet
    PROVE  /\ c.pc \in CountSteps /\ c.ids \subseteq Listed /\ c.todo \subseteq Listed
           /\ c.now \in Listed \cup {0} /\ c.read \in Nat /\ c.batch \in [Listed -> Nat]
           /\ c.alone \subseteq Listed /\ c.retries \in Nat /\ c.errors \in Nat
    BY DEF CycleSet

LEMMA ListedParts ==
    ASSUME NEW S, S \subseteq Listed
    PROVE  IsFiniteSet(S) /\ Cardinality(S) \in Nat
    BY ListedAssumption, FS_Subset, FS_CardinalityType, Zenon

LEMMA CycleIsFinite ==
    ASSUME NEW c \in CycleSet
    PROVE  /\ IsFiniteSet(c.todo) /\ IsFiniteSet(c.ids) /\ IsFiniteSet(Enriched(c))
           /\ Cardinality(c.todo) \in Nat /\ Cardinality(c.ids) \in Nat /\ Cardinality(Enriched(c)) \in Nat
<1>1. c.todo \subseteq Listed /\ c.ids \subseteq Listed /\ Enriched(c) \subseteq Listed
    BY CycleFields DEF Enriched
<1> QED
    BY <1>1, ListedParts

LEMMA NoCycleIsFine ==
    /\ NoCycle \in CycleSet /\ CycleAddsUp(NoCycle) /\ Enriched(NoCycle) = {}
    /\ NoCycle.alone = {} /\ NoCycle.ids = {} /\ \A r \in Listed : NoCycle.batch[r] = 0
<1>1. /\ NoCycle \in CycleSet /\ NoCycle.pc = "idle" /\ NoCycle.todo = {} /\ NoCycle.ids = {}
      /\ NoCycle.errors = 0 /\ NoCycle.alone = {} /\ \A r \in Listed : NoCycle.batch[r] = 0
    BY DEF NoCycle, CycleSet, CountSteps
<1>2. Enriched(NoCycle) = {}
    BY <1>1 DEF Enriched
<1>3. Cardinality({}) = 0
    BY FS_EmptySet
<1>4. CycleAddsUp(NoCycle)
    BY <1>1, <1>2, <1>3 DEF CycleAddsUp, InHand
<1> QED
    BY <1>1, <1>2, <1>4

LEMMA CountInitInv == CountInit => CountInv
<1> SUFFICES ASSUME CountInit PROVE CountInv
    OBVIOUS
<1>1. \A e \in Enrichments : cycles[e] = NoCycle
    BY DEF CountInit
<1>2. CountTypes
    BY NoCycleIsFine DEF CountInit, NoRow, CountTypes
<1>3. NodesFollow
    BY DEF CountInit, NoRow, NodesFollow
<1>4. \A e \in Enrichments : CycleAddsUp(cycles[e]) /\ AloneIsAlone(e)
    BY <1>1, NoCycleIsFine DEF AloneIsAlone
<1> QED
    BY <1>2, <1>3, <1>4 DEF CountInv

LEMMA CountDays ==
    ASSUME CountInv, DayPasses
    PROVE  CountInv'
<1>0. CountTypes /\ NodesFollow /\ UNCHANGED <<nodes, cycles, adrift>>
      /\ \A e \in Enrichments : CycleAddsUp(cycles[e]) /\ AloneIsAlone(e)
    BY DEF CountInv, DayPasses
<1>1. rows' = [r \in Listed |-> [rows[r] EXCEPT !.age = IF @ < StaleAfter THEN @ + 1 ELSE @]]
    BY DEF DayPasses
<1>2. \A w \in [v : Nat, age : Nat] :
         LET n == [w EXCEPT !.age = IF @ < StaleAfter THEN @ + 1 ELSE @] IN
         n \in [v : Nat, age : Nat] /\ n.v = w.v
    OBVIOUS
<1>3. rows' \in [Listed -> [v : Nat, age : Nat]] /\ \A r \in Listed : rows'[r].v = rows[r].v
    BY <1>0, <1>1, <1>2 DEF CountTypes
<1>4. remote' \in [Listed -> Nat \ {0}]
    BY <1>0 DEF DayPasses, CountTypes
<1>5. \A e \in Enrichments : cycles[e].alone \subseteq Listed
    BY <1>0, CycleFields DEF CountTypes
<1>6. NodesFollow' /\ (\A e \in Enrichments : CycleAddsUp(cycles[e])' /\ AloneIsAlone(e)')
    BY <1>0, <1>3, <1>5 DEF NodesFollow, AloneIsAlone
<1> QED
    BY <1>0, <1>3, <1>4, <1>6 DEF CountInv, CountTypes

LEMMA CountStarts ==
    ASSUME CountInv, NEW e \in Enrichments, StartCycle(e)
    PROVE  CountInv'
<1>0. /\ CountTypes /\ NodesFollow /\ remote' = remote /\ rows' = rows /\ nodes' = nodes
      /\ adrift' = adrift /\ cycles \in [Enrichments -> CycleSet] /\ cycles[e].pc = "idle"
      /\ \A d \in Enrichments : CycleAddsUp(cycles[d]) /\ AloneIsAlone(d)
    BY DEF CountInv, CountTypes, StartCycle
<1>1. PICK S \in SUBSET Backlog :
         cycles' = [d \in Enrichments |->
             IF d = e
             THEN [NoCycle EXCEPT !.pc = "next", !.ids = S, !.todo = S,
                       !.alone = {r \in S : \A o \in Enrichments : r \notin cycles[o].ids}]
             ELSE [cycles[d] EXCEPT !.alone = @ \ S]]
    BY DEF StartCycle
<1>2. S \subseteq Listed
    BY DEF Backlog
<1>3. PICK A : A = {r \in S : \A o \in Enrichments : r \notin cycles[o].ids}
    OBVIOUS
<1>4. PICK q : q = [NoCycle EXCEPT !.pc = "next", !.ids = S, !.todo = S, !.alone = A]
    OBVIOUS
<1>5. /\ q \in CycleSet /\ q.pc = "next" /\ q.ids = S /\ q.todo = S /\ q.alone = A /\ q.errors = 0
      /\ \A r \in Listed : q.batch[r] = 0
    BY <1>2, <1>3, <1>4 DEF NoCycle, CycleSet, CountSteps
<1>6. cycles'[e] = q
    BY <1>1, <1>3, <1>4
<1>7. ASSUME NEW d \in Enrichments, d # e
      PROVE  /\ cycles'[d] \in CycleSet /\ cycles'[d].alone = cycles[d].alone \ S
             /\ cycles'[d].pc = cycles[d].pc /\ cycles'[d].ids = cycles[d].ids
             /\ cycles'[d].todo = cycles[d].todo /\ cycles'[d].now = cycles[d].now
             /\ cycles'[d].batch = cycles[d].batch /\ cycles'[d].errors = cycles[d].errors
             /\ cycles'[d].read = cycles[d].read
  <2>1. cycles'[d] = [cycles[d] EXCEPT !.alone = @ \ S] /\ cycles[d] \in CycleSet
      BY <1>0, <1>1, <1>7
  <2> QED
      BY <2>1 DEF CycleSet
<1>8. CountTypes'
  <2>1. \A d \in Enrichments : cycles'[d] \in CycleSet
      BY <1>5, <1>6, <1>7
  <2>2. cycles' = [d \in Enrichments |-> cycles'[d]]
      BY <1>1
  <2>3. cycles' \in [Enrichments -> CycleSet]
      BY <2>1, <2>2
  <2> QED
      BY <1>0, <2>3 DEF CountTypes
<1>9. ASSUME NEW d \in Enrichments
      PROVE  CycleAddsUp(cycles[d])'
  <2>1. CASE d = e
    <3>1. Enriched(q) = {} /\ Cardinality({}) = 0 /\ Cardinality(S) \in Nat
        BY <1>2, <1>5, FS_EmptySet, ListedParts DEF Enriched
    <3>2. CycleAddsUp(q)
        BY <1>2, <1>3, <1>5, <3>1 DEF CycleAddsUp, InHand
    <3> QED
        BY <1>6, <2>1, <3>2
  <2>2. CASE d # e
    <3>1. PICK c : c = cycles'[d]
        OBVIOUS
    <3>2. Enriched(c) = Enriched(cycles[d])
        BY <1>7, <2>2, <3>1 DEF Enriched
    <3>3. PICK o : o = cycles[d]
        OBVIOUS
    <3>4. /\ c.alone \subseteq o.alone /\ c.pc = o.pc /\ c.ids = o.ids /\ c.todo = o.todo
          /\ c.now = o.now /\ c.read = o.read /\ c.batch = o.batch /\ c.errors = o.errors
        BY <1>7, <2>2, <3>1, <3>3
    <3>5. CycleAddsUp(o) /\ Enriched(c) = Enriched(o) /\ InHand(c) = InHand(o)
        BY <1>0, <3>2, <3>3, <3>4 DEF InHand
    <3>6. CycleAddsUp(c)
        BY <3>4, <3>5 DEF CycleAddsUp
    <3> QED
        BY <3>1, <3>6
  <2> QED
      BY <2>1, <2>2
<1>10. ASSUME NEW d \in Enrichments
       PROVE  AloneIsAlone(d)'
  <2>1. CASE d = e
    <3>1. \A r \in A : /\ r \in Listed
                       /\ \A o \in Enrichments : o # e => r \notin cycles'[o].ids
        BY <1>2, <1>3, <1>7
    <3> QED
        BY <1>5, <1>6, <2>1, <3>1 DEF AloneIsAlone
  <2>2. CASE d # e
    <3>1. \A r \in cycles'[d].alone : r \in cycles[d].alone /\ r \notin S
        BY <1>7, <2>2
    <3>2. \A r \in cycles[d].alone : \A o \in Enrichments : o # d => r \notin cycles[o].ids
        BY <1>0 DEF AloneIsAlone
    <3>3. \A r \in cycles'[d].alone : \A o \in Enrichments : o # d => r \notin cycles'[o].ids
        BY <1>5, <1>6, <1>7, <3>1, <3>2
    <3>4. \A r \in cycles'[d].alone : cycles'[d].batch[r] # 0 => cycles'[d].batch[r] = rows'[r].v
        BY <1>0, <1>7, <2>2, <3>1 DEF AloneIsAlone
    <3> QED
        BY <3>3, <3>4 DEF AloneIsAlone
  <2> QED
      BY <2>1, <2>2
<1>11. NodesFollow'
  <2>1. ASSUME NEW r \in Listed, NEW d \in Enrichments, cycles[d].batch[r] # 0
        PROVE  cycles'[d].batch[r] # 0 \/ nodes[r] = rows[r].v
    <3>1. CASE d # e
        BY <1>7, <2>1, <3>1
    <3>2. CASE d = e
        BY <1>0, <2>1, <3>2 DEF CycleAddsUp
    <3> QED
        BY <3>1, <3>2
  <2> QED
      BY <1>0, <2>1 DEF NodesFollow
<1> QED
    BY <1>8, <1>9, <1>10, <1>11 DEF CountInv

(* A request goes on, with the same releases and the same batch.           *)
LEMMA CycleMoves ==
    ASSUME CountInv, NEW e \in Enrichments, NEW q \in CycleSet, cycles' = [cycles EXCEPT ![e] = q],
           remote' = remote, rows' = rows, nodes' = nodes, adrift' = adrift,
           q.ids = cycles[e].ids, q.alone = cycles[e].alone, q.batch = cycles[e].batch, CycleAddsUp(q)
    PROVE  CountInv'
<1>0. /\ CountTypes /\ NodesFollow /\ cycles \in [Enrichments -> CycleSet]
      /\ \A d \in Enrichments : CycleAddsUp(cycles[d]) /\ AloneIsAlone(d)
    BY DEF CountInv, CountTypes
<1>1. \A d \in Enrichments : cycles'[d] = IF d = e THEN q ELSE cycles[d]
    BY <1>0
<1>2. \A d \in Enrichments : /\ cycles'[d].ids = cycles[d].ids /\ cycles'[d].alone = cycles[d].alone
                             /\ cycles'[d].batch = cycles[d].batch
    BY <1>1
<1>3. CountTypes'
    BY <1>0 DEF CountTypes
<1>4. \A d \in Enrichments : CycleAddsUp(cycles[d])'
    BY <1>0, <1>1
<1>5. \A d \in Enrichments : AloneIsAlone(d)'
    BY <1>0, <1>2 DEF AloneIsAlone
<1>6. NodesFollow'
    BY <1>0, <1>2 DEF NodesFollow
<1> QED
    BY <1>3, <1>4, <1>5, <1>6 DEF CountInv

(* What a request at work has, and the counts of it.                       *)
LEMMA CycleAtWork ==
    ASSUME CountInv, NEW e \in Enrichments
    PROVE  /\ cycles \in [Enrichments -> CycleSet] /\ cycles[e] \in CycleSet /\ CycleAddsUp(cycles[e])
           /\ IsFiniteSet(cycles[e].todo) /\ Cardinality(cycles[e].todo) \in Nat
           /\ IsFiniteSet(Enriched(cycles[e])) /\ Cardinality(Enriched(cycles[e])) \in Nat
           /\ Cardinality(cycles[e].ids) \in Nat /\ cycles[e].errors \in Nat
<1>1. cycles \in [Enrichments -> CycleSet] /\ cycles[e] \in CycleSet /\ CycleAddsUp(cycles[e])
    BY DEF CountInv, CountTypes
<1> QED
    BY <1>1, CycleIsFinite, CycleFields

LEMMA CountNexts ==
    ASSUME CountInv, NEW e \in Enrichments, NextRelease(e)
    PROVE  CountInv'
<1> DEFINE c == cycles[e]
<1>0. /\ remote' = remote /\ rows' = rows /\ nodes' = nodes /\ adrift' = adrift /\ c.pc = "next"
      /\ cycles \in [Enrichments -> CycleSet] /\ c \in CycleSet /\ CycleAddsUp(c)
    BY CycleAtWork DEF NextRelease
<1>1. ASSUME NEW r \in c.todo, cycles' = [cycles EXCEPT ![e].pc = "get", ![e].now = r, ![e].todo = @ \ {r}]
      PROVE  CountInv'
  <2>1. PICK q : q = [c EXCEPT !.pc = "get", !.now = r, !.todo = @ \ {r}]
      OBVIOUS
  <2>2. /\ q \in CycleSet /\ q.pc = "get" /\ q.now = r /\ q.todo = c.todo \ {r} /\ q.ids = c.ids
        /\ q.alone = c.alone /\ q.batch = c.batch /\ q.errors = c.errors
      BY <1>0, <2>1 DEF CycleSet, CountSteps
  <2>3. cycles' = [cycles EXCEPT ![e] = q]
      BY <1>0, <1>1, <2>1
  <2>4. Cardinality(c.todo \ {r}) = Cardinality(c.todo) - 1
      BY CycleAtWork, FS_RemoveElement
  <2>5. Enriched(q) = Enriched(c)
      BY <2>2 DEF Enriched
  <2>6. Cardinality(q.todo) + Cardinality(Enriched(q)) + q.errors + 1 <= Cardinality(q.ids)
    <3>1. Cardinality(c.todo) + Cardinality(Enriched(c)) + c.errors + 0 <= Cardinality(c.ids)
        BY <1>0 DEF CycleAddsUp, InHand
    <3> QED
        BY <2>2, <2>4, <2>5, <3>1, CycleAtWork
  <2>7. c.todo \subseteq Listed
      BY <1>0, CycleFields
  <2>8. CycleAddsUp(q)
      BY <1>0, <2>2, <2>5, <2>6, <2>7 DEF CycleAddsUp, InHand
  <2> QED
      BY <1>0, <2>2, <2>3, <2>8, CycleMoves
<1>2. ASSUME cycles' = [cycles EXCEPT ![e].pc = "graph"]
      PROVE  CountInv'
  <2>1. PICK q : q = [c EXCEPT !.pc = "graph"]
      OBVIOUS
  <2>2. /\ q \in CycleSet /\ q.pc = "graph" /\ q.todo = c.todo /\ q.ids = c.ids
        /\ q.alone = c.alone /\ q.batch = c.batch /\ q.errors = c.errors
      BY <1>0, <2>1 DEF CycleSet, CountSteps
  <2>3. cycles' = [cycles EXCEPT ![e] = q]
      BY <1>0, <1>2, <2>1
  <2>4. Enriched(q) = Enriched(c)
      BY <2>2 DEF Enriched
  <2>5. CycleAddsUp(q)
      BY <1>0, <2>2, <2>4 DEF CycleAddsUp, InHand
  <2> QED
      BY <1>0, <2>2, <2>3, <2>5, CycleMoves
<1> QED
    BY <1>1, <1>2 DEF NextRelease

LEMMA CountLimited ==
    ASSUME CountInv, NEW e \in Enrichments, CountRateLimited(e)
    PROVE  CountInv'
<1> DEFINE c == cycles[e]
<1>0. /\ remote' = remote /\ rows' = rows /\ nodes' = nodes /\ adrift' = adrift /\ c.pc = "get"
      /\ cycles \in [Enrichments -> CycleSet] /\ c \in CycleSet /\ CycleAddsUp(c)
    BY CycleAtWork DEF CountRateLimited
<1>1. PICK q : /\ cycles' = [cycles EXCEPT ![e] = q] /\ q \in CycleSet /\ q.pc \in {"get", "graph"}
               /\ q.todo = c.todo /\ q.now = c.now /\ q.ids = c.ids /\ q.alone = c.alone
               /\ q.batch = c.batch /\ q.errors = c.errors
  <2>1. CASE cycles' = [cycles EXCEPT ![e].retries = @ + 1]
    <3>1. PICK n \in Nat : n = c.retries + 1
        BY <1>0, CycleFields
    <3>2. PICK q : q = [c EXCEPT !.retries = n]
        OBVIOUS
    <3>3. cycles' = [cycles EXCEPT ![e] = q]
        BY <1>0, <2>1, <3>1, <3>2
    <3>4. /\ q \in CycleSet /\ q.pc = c.pc /\ q.todo = c.todo /\ q.now = c.now /\ q.ids = c.ids
          /\ q.alone = c.alone /\ q.batch = c.batch /\ q.errors = c.errors
        BY <1>0, <3>2 DEF CycleSet
    <3> QED
        BY <1>0, <3>3, <3>4
  <2>2. CASE cycles' = [cycles EXCEPT ![e].pc = "graph"]
    <3>1. PICK q : q = [c EXCEPT !.pc = "graph"]
        OBVIOUS
    <3>2. cycles' = [cycles EXCEPT ![e] = q]
        BY <1>0, <2>2, <3>1
    <3>3. /\ q \in CycleSet /\ q.pc = "graph" /\ q.todo = c.todo /\ q.now = c.now /\ q.ids = c.ids
          /\ q.alone = c.alone /\ q.batch = c.batch /\ q.errors = c.errors
        BY <1>0, <3>1 DEF CycleSet, CountSteps
    <3> QED
        BY <3>2, <3>3
  <2> QED
      BY <2>1, <2>2 DEF CountRateLimited
<1>2. Enriched(q) = Enriched(c)
    BY <1>1 DEF Enriched
<1>3. Cardinality(q.todo) + Cardinality(Enriched(q)) + q.errors + InHand(q) <= Cardinality(q.ids)
  <2>1. Cardinality(c.todo) + Cardinality(Enriched(c)) + c.errors + 1 <= Cardinality(c.ids)
      BY <1>0 DEF CycleAddsUp, InHand
  <2>2. InHand(q) \in {0, 1}
      BY DEF InHand
  <2> QED
      BY <1>1, <1>2, <2>1, <2>2, CycleAtWork
<1>4. CycleAddsUp(q)
    BY <1>0, <1>1, <1>2, <1>3 DEF CycleAddsUp
<1> QED
    BY <1>0, <1>1, <1>4, CycleMoves

LEMMA CountFails ==
    ASSUME CountInv, NEW e \in Enrichments, FetchFails(e)
    PROVE  CountInv'
<1> DEFINE c == cycles[e]
<1>0. /\ remote' = remote /\ rows' = rows /\ nodes' = nodes /\ adrift' = adrift /\ c.pc = "get"
      /\ cycles \in [Enrichments -> CycleSet] /\ c \in CycleSet /\ CycleAddsUp(c)
    BY CycleAtWork DEF FetchFails
<1>1. PICK n \in {0, c.retries} :
         cycles' = [cycles EXCEPT ![e].pc = "next", ![e].now = 0, ![e].errors = @ + 1, ![e].retries = n]
    BY DEF FetchFails
<1>2. c.errors + 1 \in Nat /\ n \in Nat
    BY <1>0, CycleFields
<1>3. PICK q : q = [c EXCEPT !.pc = "next", !.now = 0, !.errors = c.errors + 1, !.retries = n]
    OBVIOUS
<1>4. /\ q \in CycleSet /\ q.pc = "next" /\ q.todo = c.todo /\ q.ids = c.ids
      /\ q.alone = c.alone /\ q.batch = c.batch /\ q.errors = c.errors + 1
    BY <1>0, <1>2, <1>3 DEF CycleSet, CountSteps
<1>5. cycles' = [cycles EXCEPT ![e] = q]
    BY <1>0, <1>1, <1>3
<1>6. Enriched(q) = Enriched(c)
    BY <1>4 DEF Enriched
<1>7. Cardinality(q.todo) + Cardinality(Enriched(q)) + q.errors + 0 <= Cardinality(q.ids)
  <2>1. Cardinality(c.todo) + Cardinality(Enriched(c)) + c.errors + 1 <= Cardinality(c.ids)
      BY <1>0 DEF CycleAddsUp, InHand
  <2> QED
      BY <1>4, <1>6, <2>1, CycleAtWork
<1>8. CycleAddsUp(q)
    BY <1>0, <1>4, <1>6, <1>7 DEF CycleAddsUp, InHand
<1> QED
    BY <1>0, <1>4, <1>5, <1>8, CycleMoves

LEMMA CountFetches ==
    ASSUME CountInv, NEW e \in Enrichments, FetchCounts(e)
    PROVE  CountInv'
<1> DEFINE c == cycles[e]
<1>0. /\ remote' = remote /\ rows' = rows /\ nodes' = nodes /\ adrift' = adrift /\ c.pc = "get"
      /\ cycles \in [Enrichments -> CycleSet] /\ c \in CycleSet /\ CycleAddsUp(c)
    BY CycleAtWork DEF FetchCounts
<1>1. c.now \in Listed /\ remote[c.now] \in Nat /\ remote[c.now] # 0
    BY <1>0, CycleFields DEF CycleAddsUp, CountInv, CountTypes
<1>2. PICK q : q = [c EXCEPT !.pc = "store", !.read = remote[c.now], !.retries = 0]
    OBVIOUS
<1>3. /\ q \in CycleSet /\ q.pc = "store" /\ q.read # 0 /\ q.now = c.now /\ q.todo = c.todo /\ q.ids = c.ids
      /\ q.alone = c.alone /\ q.batch = c.batch /\ q.errors = c.errors
    BY <1>0, <1>1, <1>2 DEF CycleSet, CountSteps
<1>4. cycles' = [cycles EXCEPT ![e] = q]
    BY <1>0, <1>2 DEF FetchCounts
<1>5. Enriched(q) = Enriched(c)
    BY <1>3 DEF Enriched
<1>6. CycleAddsUp(q)
    BY <1>0, <1>3, <1>5 DEF CycleAddsUp, InHand
<1> QED
    BY <1>0, <1>3, <1>4, <1>6, CycleMoves

LEMMA CountStores ==
    ASSUME CountInv, NEW e \in Enrichments, StoreCounts(e)
    PROVE  CountInv'
<1> DEFINE c == cycles[e]
<1>0. /\ CountTypes /\ NodesFollow /\ remote' = remote /\ nodes' = nodes /\ adrift' = adrift
      /\ cycles \in [Enrichments -> CycleSet] /\ c \in CycleSet /\ c.pc = "store" /\ CycleAddsUp(c)
      /\ \A d \in Enrichments : CycleAddsUp(cycles[d]) /\ AloneIsAlone(d)
    BY CycleAtWork DEF CountInv, StoreCounts
<1>1. PICK r \in Listed : r = c.now /\ r \in c.ids \ c.todo /\ c.batch[r] = 0
    BY <1>0, CycleFields DEF CycleAddsUp
<1>2. PICK v \in Nat : v = c.read /\ v # 0
    BY <1>0, CycleFields DEF CycleAddsUp
<1>3. PICK q : q = [c EXCEPT !.pc = "next", !.now = 0, !.read = 0, !.batch = [c.batch EXCEPT ![r] = v]]
    OBVIOUS
<1>4. /\ q \in CycleSet /\ q.pc = "next" /\ q.todo = c.todo /\ q.ids = c.ids
      /\ q.alone = c.alone /\ q.batch = [c.batch EXCEPT ![r] = v] /\ q.errors = c.errors
  <2>1. [c.batch EXCEPT ![r] = v] \in [Listed -> Nat]
      BY <1>0, CycleFields
  <2> QED
      BY <1>0, <1>3, <2>1 DEF CycleSet, CountSteps
<1>5. q.batch[r] = v /\ \A s \in Listed : s # r => q.batch[s] = c.batch[s]
    BY <1>0, <1>4, CycleFields
<1>6. cycles' = [cycles EXCEPT ![e] = q] /\ rows' = [rows EXCEPT ![r] = [v |-> v, age |-> 0]]
  <2>1. /\ rows' = [rows EXCEPT ![r] = [v |-> v, age |-> 0]]
        /\ cycles' = [cycles EXCEPT ![e].pc = "next", ![e].now = 0, ![e].read = 0, ![e].batch[r] = v]
      BY <1>1, <1>2 DEF StoreCounts
  <2> QED
      BY <1>0, <1>3, <2>1
<1>7. /\ rows' \in [Listed -> [v : Nat, age : Nat]] /\ rows'[r].v = v
      /\ \A s \in Listed : s # r => rows'[s] = rows[s]
    BY <1>0, <1>6 DEF CountTypes
<1>8. \A d \in Enrichments : cycles'[d] = IF d = e THEN q ELSE cycles[d]
    BY <1>0, <1>6
<1>9. CountTypes'
    BY <1>0, <1>4, <1>6, <1>7 DEF CountTypes
<1>10. CycleAddsUp(q)
  <2>1. Enriched(q) \subseteq Enriched(c) \cup {r}
      BY <1>5 DEF Enriched
  <2>2. /\ IsFiniteSet(Enriched(c) \cup {r})
        /\ Cardinality(Enriched(c) \cup {r}) = Cardinality(Enriched(c)) + 1
    <3>1. r \notin Enriched(c) /\ IsFiniteSet(Enriched(c))
        BY <1>1, CycleAtWork DEF Enriched
    <3> QED
        BY <3>1, FS_AddElement
  <2>3. Cardinality(Enriched(q)) <= Cardinality(Enriched(c)) + 1
      BY <2>1, <2>2, FS_Subset
  <2>4. Cardinality(Enriched(q)) \in Nat
      BY <1>4, CycleIsFinite
  <2>5. Cardinality(c.todo) + Cardinality(Enriched(c)) + c.errors + 1 <= Cardinality(c.ids)
      BY <1>0 DEF CycleAddsUp, InHand
  <2>6. Cardinality(q.todo) + Cardinality(Enriched(q)) + q.errors + 0 <= Cardinality(q.ids)
      BY <1>4, <2>3, <2>4, <2>5, CycleAtWork
  <2>7. Enriched(q) \subseteq q.ids
      BY <1>0, <1>1, <1>4, <2>1 DEF CycleAddsUp
  <2>8. \A s \in Listed : s \in q.todo => q.batch[s] = 0
      BY <1>0, <1>1, <1>4, <1>5 DEF CycleAddsUp
  <2> QED
      BY <1>0, <1>4, <2>6, <2>7, <2>8 DEF CycleAddsUp, InHand
<1>11. \A d \in Enrichments : CycleAddsUp(cycles[d])'
    BY <1>0, <1>8, <1>10
<1>12. ASSUME NEW d \in Enrichments
       PROVE  AloneIsAlone(d)'
  <2>1. \A o \in Enrichments : cycles'[o].ids = cycles[o].ids /\ cycles'[o].alone = cycles[o].alone
      BY <1>4, <1>8
  <2>2. cycles[d].alone \subseteq Listed
      BY <1>0, CycleFields
  <2>3. ASSUME NEW s \in cycles[d].alone, cycles'[d].batch[s] # 0
        PROVE  cycles'[d].batch[s] = rows'[s].v
    <3>1. CASE d = e
        BY <1>0, <1>5, <1>7, <1>8, <2>2, <2>3, <3>1 DEF AloneIsAlone
    <3>2. CASE d # e
      <4>1. s # r
          BY <1>0, <1>1, <2>3, <3>2 DEF AloneIsAlone
      <4> QED
          BY <1>0, <1>7, <1>8, <2>2, <2>3, <3>2, <4>1 DEF AloneIsAlone
    <3> QED
        BY <3>1, <3>2
  <2> QED
      BY <1>0, <2>1, <2>3 DEF AloneIsAlone
<1>13. NodesFollow'
  <2>1. ASSUME NEW s \in Listed \ adrift
        PROVE  (\E d \in Enrichments : cycles'[d].batch[s] # 0) \/ nodes[s] = rows'[s].v
    <3>1. CASE s = r
        BY <1>2, <1>5, <1>8, <3>1
    <3>2. CASE s # r
      <4>1. \A d \in Enrichments : cycles'[d].batch[s] = cycles[d].batch[s]
          BY <1>5, <1>8, <3>2
      <4> QED
          BY <1>0, <1>7, <3>2, <4>1 DEF NodesFollow
    <3> QED
        BY <3>1, <3>2
  <2> QED
      BY <1>0, <2>1 DEF NodesFollow
<1> QED
    BY <1>9, <1>11, <1>12, <1>13 DEF CountInv

(* The end of a request, its batch written or lost.                        *)
LEMMA CycleEnds ==
    ASSUME CountInv, NEW e \in Enrichments, cycles' = [cycles EXCEPT ![e] = NoCycle],
           remote' = remote, rows' = rows, nodes' \in [Listed -> Nat], adrift' \subseteq Listed,
           \A r \in Listed \ adrift' :
               IF cycles[e].batch[r] # 0 THEN nodes'[r] = rows[r].v
               ELSE r \notin adrift /\ nodes'[r] = nodes[r]
    PROVE  CountInv'
<1>0. /\ CountTypes /\ NodesFollow /\ cycles \in [Enrichments -> CycleSet]
      /\ \A d \in Enrichments : CycleAddsUp(cycles[d]) /\ AloneIsAlone(d)
    BY DEF CountInv, CountTypes
<1>1. \A d \in Enrichments : cycles'[d] = IF d = e THEN NoCycle ELSE cycles[d]
    BY <1>0
<1>2. CountTypes'
    BY <1>0, NoCycleIsFine DEF CountTypes
<1>3. \A d \in Enrichments : CycleAddsUp(cycles[d])'
    BY <1>0, <1>1, NoCycleIsFine
<1>4. \A d \in Enrichments : AloneIsAlone(d)'
  <2>1. \A d \in Enrichments, s \in Listed : s \notin cycles[d].ids => s \notin cycles'[d].ids
      BY <1>1, NoCycleIsFine
  <2>2. \A d \in Enrichments : cycles[d].alone \subseteq Listed
      BY <1>0, CycleFields
  <2> QED
      BY <1>0, <1>1, <2>1, <2>2, NoCycleIsFine DEF AloneIsAlone
<1>5. NodesFollow'
  <2>1. ASSUME NEW r \in Listed \ adrift', cycles[e].batch[r] = 0
        PROVE  (\E d \in Enrichments : cycles'[d].batch[r] # 0) \/ nodes'[r] = rows[r].v
    <3>1. nodes'[r] = nodes[r] /\ r \in Listed \ adrift
        BY <2>1
    <3>2. CASE nodes[r] = rows[r].v
        BY <3>1, <3>2
    <3>3. ASSUME NEW d \in Enrichments, cycles[d].batch[r] # 0
          PROVE  cycles'[d].batch[r] # 0
        BY <1>1, <2>1, <3>3
    <3> QED
        BY <1>0, <3>1, <3>2, <3>3 DEF NodesFollow
  <2> QED
      BY <2>1 DEF NodesFollow
<1> QED
    BY <1>2, <1>3, <1>4, <1>5 DEF CountInv

LEMMA CountEnds ==
    ASSUME CountInv, NEW e \in Enrichments, UpdateNodes(e) \/ BatchLost(e)
    PROVE  CountInv'
<1> DEFINE c == cycles[e]
<1>0. /\ CountTypes /\ NodesFollow /\ AloneIsAlone(e) /\ c \in CycleSet
      /\ nodes \in [Listed -> Nat] /\ c.batch \in [Listed -> Nat] /\ adrift \subseteq Listed
    BY CycleAtWork, CycleFields DEF CountInv, CountTypes
<1>1. CASE UpdateNodes(e)
  <2>1. /\ nodes' = [r \in Listed |-> IF c.batch[r] # 0 THEN c.batch[r] ELSE nodes[r]]
        /\ adrift' = (adrift \ (Enriched(c) \cap c.alone)) \cup (Enriched(c) \ c.alone)
        /\ cycles' = [cycles EXCEPT ![e] = NoCycle] /\ remote' = remote /\ rows' = rows
      BY <1>1 DEF UpdateNodes
  <2>2. nodes' \in [Listed -> Nat]
      BY <1>0, <2>1
  <2>3. adrift' \subseteq Listed
      BY <1>0, <2>1 DEF Enriched
  <2>4. ASSUME NEW r \in Listed \ adrift'
        PROVE  IF c.batch[r] # 0 THEN nodes'[r] = rows[r].v ELSE r \notin adrift /\ nodes'[r] = nodes[r]
    <3>1. CASE c.batch[r] # 0
      <4>1. r \in c.alone
          BY <2>1, <2>4, <3>1 DEF Enriched
      <4> QED
          BY <1>0, <2>1, <3>1, <4>1 DEF AloneIsAlone
    <3>2. CASE c.batch[r] = 0
        BY <2>1, <2>4, <3>2 DEF Enriched
    <3> QED
        BY <3>1, <3>2
  <2> QED
      BY <2>1, <2>2, <2>3, <2>4, CycleEnds
<1>2. CASE BatchLost(e)
  <2>1. /\ adrift' = adrift \cup Enriched(c) /\ cycles' = [cycles EXCEPT ![e] = NoCycle]
        /\ remote' = remote /\ rows' = rows /\ nodes' = nodes
      BY <1>2 DEF BatchLost
  <2>2. adrift' \subseteq Listed
      BY <1>0, <2>1 DEF Enriched
  <2>3. \A r \in Listed \ adrift' : c.batch[r] = 0 /\ r \notin adrift
      BY <2>1 DEF Enriched
  <2> QED
      BY <1>0, <2>1, <2>2, <2>3, CycleEnds
<1> QED
    BY <1>1, <1>2

LEMMA CountNextInv == CountInv /\ CountNext => CountInv'
    BY CountDays, CountStarts, CountNexts, CountLimited, CountFails, CountFetches, CountStores, CountEnds
    DEF CountNext

LEMMA CountStutter == CountInv /\ UNCHANGED countVars => CountInv'
    BY DEF CountInv, CountTypes, NodesFollow, AloneIsAlone, countVars

LEMMA CountsAgreeWithGraph == CountInv => GraphHasStoredCounts
<1> SUFFICES ASSUME CountInv PROVE GraphHasStoredCounts
    OBVIOUS
<1>1. ASSUME NEW r \in Listed \ adrift, \A e \in Enrichments : r \notin cycles[e].ids
      PROVE  nodes[r] = rows[r].v
  <2>1. \A e \in Enrichments : cycles[e].batch[r] = 0
      BY <1>1 DEF CountInv, CycleAddsUp, Enriched
  <2> QED
      BY <2>1 DEF CountInv, NodesFollow
<1>2. ASSUME NEW e \in Enrichments
      PROVE  Cardinality(Enriched(cycles[e])) + cycles[e].errors <= Cardinality(cycles[e].ids)
  <2>1. InHand(cycles[e]) \in {0, 1}
      BY DEF InHand
  <2>2. Cardinality(cycles[e].todo) + Cardinality(Enriched(cycles[e])) + cycles[e].errors + InHand(cycles[e])
           <= Cardinality(cycles[e].ids)
      BY CycleAtWork DEF CycleAddsUp
  <2> QED
      BY <2>1, <2>2, CycleAtWork
<1> QED
    BY <1>1, <1>2 DEF GraphHasStoredCounts

-----------------------------------------------------------------------------
(* LedgerBackfill: what the fold over the export computes, and the jobs    *)
(* that write it.                                                          *)

LEMMA MinOfNumbers ==
    ASSUME NEW S \in SUBSET Nat, S # {}
    PROVE  Min(S) \in S /\ \A y \in S : Min(S) <= y
<1>1. \E x \in S : \A y \in S : x <= y
    BY LeastNumber
<1> QED
    BY <1>1 DEF Min

(* A candidate at or below k has a last one: the nearest to k.             *)
LEMMA LastAtOrBelow ==
    ASSUME NEW S \in SUBSET Nat, NEW k \in Nat, NEW c \in S, c <= k
    PROVE  \E x \in S : x <= k /\ c <= x /\ \A y \in S : y <= k => y <= x
<1> DEFINE D == {k - x : x \in {x \in S : x <= k}}
<1>1. D \in SUBSET Nat /\ k - c \in D
    OBVIOUS
<1>2. PICK d \in D : \A e \in D : d <= e
    BY <1>1, LeastNumber
<1>3. PICK x \in S : x <= k /\ d = k - x
    BY <1>2
<1>4. ASSUME NEW y \in S, y <= k
      PROVE  y <= x
  <2>1. k - y \in D
      BY <1>4
  <2>2. d <= k - y /\ y \in Nat /\ x \in Nat
      BY <1>2, <2>1
  <2> QED
      BY <1>3, <2>2
<1> QED
    BY <1>3, <1>4

EntryStates == {"none", "started", "failed", "apply"}
JobSteps == {"idle", "planned", "write", "done"}

BackfillTypes ==
    /\ table \in [RowIds -> ExportRow] /\ known \subseteq Releases
    /\ entry \in [Jobs -> EntryStates] /\ job \in [Jobs -> JobSteps] /\ batch \in [Jobs -> SUBSET Plan]

(* What a job has still to write and what is written cover the plan; and   *)
(* nothing else is written.                                                *)
BackfillInv ==
    /\ BackfillTypes
    /\ events \subseteq Plan
    /\ \A j \in Jobs : job[j] = "write" => Plan \subseteq events \cup batch[j]
    /\ \A j \in Jobs : entry[j] = "apply" => Plan \subseteq events

LEMMA RowFacts ==
    ASSUME table \in [RowIds -> ExportRow], NEW k \in RowIds
    PROVE  k \in Nat /\ table[k].updated \in Nat /\ table[k].release \in Releases
    BY ExportAssumption DEF ExportRow

(* The dates of the rows at or above k, over which the documented bound is *)
(* taken.                                                                  *)
DatesSince(k) == {table[o].updated : o \in {o \in RowIds : o >= k /\ table[o].updated > 0}}

(* The buckets at or above a candidate hold the dated rows at or above it, *)
(* and no other: so the suffix minimum over the buckets is the documented  *)
(* bound.                                                                  *)
LEMMA BoundsAsDocumented ==
    ASSUME table \in [RowIds -> ExportRow], NEW c \in Candidates
    PROVE  CreationBound(c) = LeastSince(c)
<1> DEFINE A == UNION {FoldedLinks(o) : o \in {o \in Candidates : o >= c}}
<1>0. Candidates \in SUBSET Nat /\ Candidates \subseteq RowIds /\ c \in Nat
    BY ExportAssumption DEF Candidates
<1>1. ASSUME NEW u \in A
      PROVE  u \in DatesSince(c)
  <2>1. PICK o \in Candidates : o >= c /\ u \in FoldedLinks(o)
      BY <1>1
  <2>2. PICK k \in RowIds : u = table[k].updated /\ table[k].updated > 0 /\ o \in Bucket(k)
      BY <2>1 DEF FoldedLinks
  <2>3. o <= k
      BY <2>2 DEF Bucket, AtOrBelow
  <2>4. k >= c
      BY <1>0, <2>1, <2>3, RowFacts
  <2> QED
      BY <2>2, <2>4 DEF DatesSince
<1>2. ASSUME NEW u \in DatesSince(c)
      PROVE  u \in A
  <2>1. PICK k \in RowIds : u = table[k].updated /\ k >= c /\ table[k].updated > 0
      BY <1>2 DEF DatesSince
  <2>2. PICK o \in Candidates : o <= k /\ c <= o /\ \A y \in Candidates : y <= k => y <= o
      BY <1>0, <2>1, RowFacts, LastAtOrBelow
  <2>3. o \in Bucket(k)
      BY <2>2 DEF Bucket, AtOrBelow
  <2>4. u \in FoldedLinks(o) /\ o >= c
      BY <1>0, <2>1, <2>2, <2>3 DEF FoldedLinks
  <2> QED
      BY <2>4
<1>3. A = DatesSince(c)
    BY <1>1, <1>2, Zenon
<1> QED
    BY <1>3 DEF CreationBound, LeastSince, DatesSince

LEMMA BoundsAreOrdered ==
    ASSUME table \in [RowIds -> ExportRow]
    PROVE  /\ \A c \in RowIds : LeastSince(c) \in Nat /\ LeastSince(c) <= NoDate
           /\ \A c, d \in RowIds : c <= d => LeastSince(c) <= LeastSince(d)
<1>1. ASSUME NEW c \in RowIds
      PROVE  /\ LeastSince(c) \in {NoDate} \cup DatesSince(c)
             /\ \A y \in {NoDate} \cup DatesSince(c) : LeastSince(c) <= y
             /\ DatesSince(c) \subseteq Nat
  <2>1. DatesSince(c) \subseteq Nat
      BY RowFacts DEF DatesSince
  <2>2. {NoDate} \cup DatesSince(c) \in SUBSET Nat /\ {NoDate} \cup DatesSince(c) # {}
      BY <2>1 DEF NoDate
  <2>3. LeastSince(c) = Min({NoDate} \cup DatesSince(c))
      BY DEF LeastSince, DatesSince
  <2> QED
      BY <2>1, <2>2, <2>3, MinOfNumbers
<1>2. ASSUME NEW c \in RowIds, NEW d \in RowIds, c <= d
      PROVE  LeastSince(c) <= LeastSince(d)
  <2>1. DatesSince(d) \subseteq DatesSince(c)
      BY <1>2, RowFacts DEF DatesSince
  <2> QED
      BY <1>1, <2>1
<1>3. \A c \in RowIds : LeastSince(c) \in Nat /\ LeastSince(c) <= NoDate
    BY <1>1 DEF NoDate
<1> QED
    BY <1>2, <1>3

(* A release's lowest link has the earliest bound over its links: if that  *)
(* one has no date, none has.                                              *)
LEMMA LowestLinkIsEarliest ==
    ASSUME table \in [RowIds -> ExportRow], NEW r, LinksOf(r) # {}
    PROVE  LET best == Min(LinksOf(r))
               times == {LeastSince(c) : c \in LinksOf(r)} \ {NoDate}
           IN  /\ best \in LinksOf(r) /\ CreationBound(best) = LeastSince(best)
               /\ times # {} <=> CreationBound(best) # NoDate
               /\ times # {} => Min(times) = CreationBound(best)
<1> DEFINE best == Min(LinksOf(r))
           times == {LeastSince(c) : c \in LinksOf(r)} \ {NoDate}
<1>0. LinksOf(r) \subseteq Candidates /\ LinksOf(r) \subseteq RowIds /\ LinksOf(r) \in SUBSET Nat
    BY ExportAssumption DEF LinksOf, Candidates
<1>1. best \in LinksOf(r) /\ \A c \in LinksOf(r) : best <= c
    BY <1>0, MinOfNumbers
<1>2. CreationBound(best) = LeastSince(best)
    BY <1>0, <1>1, BoundsAsDocumented
<1>3. \A c \in LinksOf(r) : LeastSince(c) \in Nat /\ LeastSince(best) <= LeastSince(c) /\ LeastSince(c) <= NoDate
    BY <1>0, <1>1, BoundsAreOrdered
<1>4. times # {} <=> LeastSince(best) # NoDate
    BY <1>1, <1>3 DEF NoDate
<1>5. ASSUME times # {}
      PROVE  Min(times) = LeastSince(best)
  <2>1. times \in SUBSET Nat /\ LeastSince(best) \in times
      BY <1>1, <1>3, <1>4, <1>5
  <2>2. Min(times) \in times /\ Min(times) <= LeastSince(best)
      BY <2>1, MinOfNumbers
  <2>3. LeastSince(best) <= Min(times)
      BY <1>3, <2>2
  <2> QED
      BY <2>1, <2>2, <2>3
<1> QED
    BY <1>1, <1>2, <1>4, <1>5

LEMMA PlanIsDated ==
    ASSUME table \in [RowIds -> ExportRow], events = Plan
    PROVE  HandledExportIsDated
<1> SUFFICES ASSUME NEW r \in Releases
             PROVE  LET times == {LeastSince(c) : c \in LinksOf(r)} \ {NoDate}
                        own == {e \in events : e[1] = r}
                    IN  IF r \in known /\ times # {}
                        THEN /\ Cardinality(own) = 1
                             /\ \A e \in own : e[3] = Min(times) /\ e[2] \in LinksOf(r) /\ LeastSince(e[2]) = e[3]
                        ELSE own = {}
    BY DEF HandledExportIsDated
<1> DEFINE times == {LeastSince(c) : c \in LinksOf(r)} \ {NoDate}
           own == {e \in events : e[1] = r}
           best == Min(LinksOf(r))
<1>1. \A q : EventOf(q)[1] = q /\ EventOf(q)[2] = Min(LinksOf(q)) /\ EventOf(q)[3] = CreationBound(Min(LinksOf(q)))
    BY DEF EventOf
<1>2. own = IF r \in known /\ LinksOf(r) # {} /\ CreationBound(best) # NoDate THEN {EventOf(r)} ELSE {}
    BY <1>1 DEF Plan
<1>3. CASE LinksOf(r) = {}
    BY <1>2, <1>3
<1>4. CASE LinksOf(r) # {}
  <2>1. /\ best \in LinksOf(r) /\ CreationBound(best) = LeastSince(best)
        /\ times # {} <=> CreationBound(best) # NoDate
        /\ times # {} => Min(times) = CreationBound(best)
      BY <1>4, LowestLinkIsEarliest
  <2>2. CASE r \in known /\ times # {}
    <3>1. own = {EventOf(r)}
        BY <1>2, <1>4, <2>1, <2>2
    <3>2. Cardinality(own) = 1
        BY <3>1, FS_Singleton
    <3>3. \A e \in own : e[3] = Min(times) /\ e[2] \in LinksOf(r) /\ LeastSince(e[2]) = e[3]
      <4>1. EventOf(r)[2] = best /\ EventOf(r)[3] = CreationBound(best)
          BY <1>1
      <4>2. /\ EventOf(r)[3] = Min(times) /\ EventOf(r)[2] \in LinksOf(r)
            /\ LeastSince(EventOf(r)[2]) = EventOf(r)[3]
          BY <2>1, <2>2, <4>1
      <4> HIDE DEF own, times
      <4> QED
          BY <3>1, <4>2
    <3> QED
        BY <2>2, <3>2, <3>3
  <2>3. CASE ~(r \in known /\ times # {})
      BY <1>2, <1>4, <2>1, <2>3
  <2> QED
      BY <2>2, <2>3
<1> QED
    BY <1>3, <1>4

LEMMA BackfillInitInv == BackfillInit => BackfillInv
    BY DEF BackfillInit, BackfillInv, BackfillTypes, EntryStates, JobSteps

(* The export and the releases stay what they are, and so does the plan.   *)
LEMMA PlanStays ==
    ASSUME UNCHANGED <<table, known>>
    PROVE  Plan' = Plan
<1>1. Candidates' = Candidates
    BY DEF Candidates
<1>2. \A k : Bucket(k)' = Bucket(k)
    BY <1>1 DEF Bucket
<1>3. \A c : FoldedLinks(c)' = FoldedLinks(c)
    BY <1>2 DEF FoldedLinks
<1>4. \A c : CreationBound(c)' = CreationBound(c)
    BY <1>1, <1>3 DEF CreationBound
<1>5. \A r : LinksOf(r)' = LinksOf(r)
    BY <1>1 DEF LinksOf
<1>6. \A r : EventOf(r)' = EventOf(r)
    BY <1>4, <1>5 DEF EventOf
<1> QED
    BY <1>4, <1>5, <1>6 DEF Plan

LEMMA BackfillNextInv == BackfillInv /\ BackfillNext => BackfillInv'
<1> SUFFICES ASSUME BackfillInv, NEW j \in Jobs,
                    PlanExport(j) \/ StartEntry(j) \/ WriteBatch(j) \/ FinishEntry(j) \/ JobFails(j)
             PROVE  BackfillInv'
    BY DEF BackfillNext
<1>0. UNCHANGED <<table, known>>
    BY DEF PlanExport, StartEntry, WriteBatch, FinishEntry, JobFails
<1>1. Plan' = Plan
    BY <1>0, PlanStays
<1>2. CASE PlanExport(j)
    BY <1>0, <1>1, <1>2 DEF PlanExport, BackfillInv, BackfillTypes, EntryStates, JobSteps
<1>3. CASE StartEntry(j)
    BY <1>0, <1>1, <1>3 DEF StartEntry, BackfillInv, BackfillTypes, EntryStates, JobSteps
<1>4. CASE WriteBatch(j)
  <2>1. PICK now \in SUBSET batch[j] : /\ events' = events \cup now
                                       /\ batch' = [batch EXCEPT ![j] = @ \ now]
                                       /\ UNCHANGED <<entry, job>>
    <3>1. {e \in batch[j] : Cardinality({o \in batch[j] : o[1] < e[1]}) < BatchRows} \in SUBSET batch[j]
        OBVIOUS
    <3> QED
        BY <1>4, <3>1 DEF WriteBatch
  <2>2. batch[j] \subseteq Plan /\ batch \in [Jobs -> SUBSET Plan]
      BY DEF BackfillInv, BackfillTypes
  <2>3. batch' \in [Jobs -> SUBSET Plan] /\ events' \subseteq Plan
      BY <2>1, <2>2 DEF BackfillInv
  <2>4. \A k \in Jobs : events \cup batch[k] \subseteq events' \cup batch'[k]
      BY <2>1, <2>2
  <2> QED
      BY <1>0, <1>1, <2>1, <2>3, <2>4 DEF BackfillInv, BackfillTypes
<1>5. CASE FinishEntry(j)
    BY <1>0, <1>1, <1>5 DEF FinishEntry, BackfillInv, BackfillTypes, EntryStates, JobSteps
<1>6. CASE JobFails(j)
  <2>1. PICK e \in {"failed", "started"} : entry' = [entry EXCEPT ![j] = e]
      BY <1>6 DEF JobFails
  <2> QED
      BY <1>0, <1>1, <1>6, <2>1 DEF JobFails, BackfillInv, BackfillTypes, EntryStates, JobSteps
<1> QED
    BY <1>2, <1>3, <1>4, <1>5, <1>6

LEMMA BackfillStutter == BackfillInv /\ UNCHANGED backfillVars => BackfillInv'
<1> SUFFICES ASSUME BackfillInv, UNCHANGED backfillVars PROVE BackfillInv'
    OBVIOUS
<1>1. UNCHANGED <<table, known, events, entry, job, batch>>
    BY DEF backfillVars
<1>2. Plan' = Plan
    BY <1>1, PlanStays
<1> QED
    BY <1>1, <1>2 DEF BackfillInv, BackfillTypes

LEMMA HandledIsDated == BackfillInv => HandledExportIsDated
<1> SUFFICES ASSUME BackfillInv, IsBackfilled PROVE HandledExportIsDated
    BY DEF HandledExportIsDated
<1>1. events = Plan
    BY DEF BackfillInv, IsBackfilled
<1> QED
    BY <1>1, PlanIsDated DEF BackfillInv, BackfillTypes

-----------------------------------------------------------------------------
(* The three builders together: the one that runs takes its own step, and  *)
(* the others stand still.                                                 *)
BuildsInv == HubInv /\ BackfillInv /\ CountInv

LEMMA BuildsInitInv == Init => BuildsInv
    BY HubInitInv, BackfillInitInv, CountInitInv DEF Init, BuildsInv

LEMMA BuildsNextInv == BuildsInv /\ [Next]_catalogVars => BuildsInv'
<1> SUFFICES ASSUME BuildsInv, [Next]_catalogVars PROVE BuildsInv'
    OBVIOUS
<1>1. HubNext \/ UNCHANGED hubVars
    BY DEF Next, RestOf, catalogVars
<1>2. BackfillNext \/ UNCHANGED backfillVars
    BY DEF Next, RestOf, catalogVars
<1>3. CountNext \/ UNCHANGED countVars
    BY DEF Next, RestOf, catalogVars
<1> QED
    BY <1>1, <1>2, <1>3, HubNextInv, HubStutter, BackfillNextInv, BackfillStutter, CountNextInv, CountStutter
    DEF BuildsInv

(* The inductive invariant of the jobs that precompute: the tokens of the  *)
(* hub builders, the events a backfill job has yet to write, and the batch *)
(* of the community counts (explore_discovery.py, ledger_backfill.py,      *)
(* insights_compute.py).                                                   *)
THEOREM BuildsInvariant == Spec => []BuildsInv
<1> QED
    BY BuildsInitInv, BuildsNextInv, PTL DEF Spec

(* The jobs that precompute publish what the catalog holds, for any number *)
(* of replicas, stages, jobs and releases and any export: a hub builder's  *)
(* lock is its own and its rows are not older than their label, a handled  *)
(* export has every known release dated at its earliest bound, and stored  *)
(* community counts are in the graph.                                      *)
THEOREM BuildsStayCurrent == Spec => []BuildsAreCurrent
<1>1. BuildsInv => BuildsAreCurrent
    BY HandledIsDated, CountsAgreeWithGraph DEF BuildsInv, HubInv, BuildsAreCurrent
<1> QED
    BY <1>1, BuildsInvariant, PTL

-----------------------------------------------------------------------------
(* Search: the slots are those of the statements that run.                 *)

SearchFields == {"pc", "f", "seen", "more", "run", "rows", "total", "calm"}
Holding == {"slot", "running"}
Ended == {"none", "done", "busy", "timed out"}
RunSet == [Statements -> Ended \cup Holding \cup {"queued"}]

Holders == {x \in Clients \X Statements : client[x[1]].run[x[2]] \in Holding}

(* A statement that waits, has a slot or runs belongs to a search that is  *)
(* gathering its statements, and every slot is free or has one holder.     *)
SearchInv ==
    /\ DOMAIN client = Clients
    /\ \A c \in Clients :
          /\ DOMAIN client[c] = SearchFields
          /\ client[c].run \in RunSet
          /\ client[c].pc # "gather" => \A s \in Statements : client[c].run[s] \in Ended
    /\ IsFiniteSet(Holders)
    /\ freeSlots \in Int
    /\ freeSlots + Cardinality(Holders) = Slots

LEMMA SlotCount == Slots \in Int
    BY SearchAssumption DEF Slots

LEMMA NoSearchFields ==
    /\ DOMAIN NoSearch = SearchFields /\ NoSearch.run \in RunSet
    /\ \A s \in Statements : NoSearch.run[s] = "none"
    BY DEF NoSearch, SearchFields, RunSet, Ended

LEMMA SearchInitInv == SearchInit => SearchInv
<1> SUFFICES ASSUME SearchInit PROVE SearchInv
    OBVIOUS
<1>1. \A c \in Clients : client[c] = NoSearch
    BY DEF SearchInit
<1>2. Holders = {}
    BY <1>1, NoSearchFields DEF Holders, Holding
<1>3. IsFiniteSet(Holders) /\ Cardinality(Holders) = 0
    BY <1>2, FS_EmptySet, Zenon
<1>4. DOMAIN client = Clients /\ freeSlots = Slots
    BY DEF SearchInit
<1>5. freeSlots \in Int /\ freeSlots + Cardinality(Holders) = Slots
    BY <1>3, <1>4, SlotCount
<1>6. "none" \in Ended
    BY DEF Ended
<1> QED
    BY <1>1, <1>3, <1>4, <1>5, <1>6, NoSearchFields DEF SearchInv

(* A step of client c to r that keeps the slots it holds.                  *)
Keeps(c, r) ==
    /\ SetClient(c, r) /\ freeSlots' = freeSlots
    /\ DOMAIN r = SearchFields /\ r.run \in RunSet
    /\ r.pc # "gather" => \A s \in Statements : r.run[s] \in Ended
    /\ \A s \in Statements : r.run[s] \in Holding <=> client[c].run[s] \in Holding

LEMMA HoldersAfter ==
    ASSUME SearchInv, NEW c \in Clients, NEW r, SetClient(c, r), DOMAIN r = SearchFields, r.run \in RunSet,
           r.pc # "gather" => \A s \in Statements : r.run[s] \in Ended,
           IsFiniteSet(Holders'), freeSlots' \in Int, freeSlots' + Cardinality(Holders') = Slots
    PROVE  SearchInv'
<1>1. Slots' = Slots
    BY DEF Slots
<1>2. DOMAIN client' = Clients /\ client'[c] = r /\ \A d \in Clients : d # c => client'[d] = client[d]
    BY DEF SetClient, SearchInv
<1>3. \A d \in Clients : /\ DOMAIN client'[d] = SearchFields /\ client'[d].run \in RunSet
                         /\ client'[d].pc # "gather" => \A s \in Statements : client'[d].run[s] \in Ended
    BY <1>2 DEF SearchInv
<1> QED
    BY <1>1, <1>2, <1>3 DEF SearchInv

LEMMA KeepsHolders ==
    ASSUME SearchInv, NEW c \in Clients, NEW r, Keeps(c, r)
    PROVE  SearchInv'
<1>1. client'[c] = r /\ \A d \in Clients : d # c => client'[d] = client[d]
    BY DEF Keeps, SetClient, SearchInv
<1>2. \A d \in Clients, s \in Statements : client'[d].run[s] \in Holding <=> client[d].run[s] \in Holding
    BY <1>1 DEF Keeps
<1>3. Holders' = Holders
    BY <1>2 DEF Holders
<1> QED
    BY <1>3, HoldersAfter DEF Keeps, SearchInv

LEMMA RunAfter ==
    ASSUME SearchInv, NEW c \in Clients, NEW s \in Statements, NEW v \in Ended \cup Holding \cup {"queued"},
           NEW r, r = [client[c] EXCEPT !.run[s] = v]
    PROVE  /\ DOMAIN r = SearchFields /\ r.run = [client[c].run EXCEPT ![s] = v] /\ r.run \in RunSet
           /\ r.pc = client[c].pc /\ r.run[s] = v
           /\ \A t \in Statements : t # s => r.run[t] = client[c].run[t]
<1>1. DOMAIN client[c] = SearchFields /\ client[c].run \in RunSet
    BY DEF SearchInv
<1>2. DOMAIN r = SearchFields /\ r.run = [client[c].run EXCEPT ![s] = v] /\ r.pc = client[c].pc
    BY <1>1 DEF SearchFields
<1> QED
    BY <1>1, <1>2 DEF RunSet

(* The client's record after it is given a new place, seen rows or runs.   *)
LEMMA ClientFields ==
    ASSUME SearchInv, NEW c \in Clients
    PROVE  /\ DOMAIN client[c] = SearchFields /\ client[c].run \in RunSet
           /\ client[c].pc # "gather" => \A s \in Statements : client[c].run[s] \in Ended
           /\ \A v \in Ended : v \notin Holding
    BY DEF SearchInv, Ended, Holding

LEMMA StepsOfAClient ==
    ASSUME SearchInv, NEW c \in Clients, NEW p, NEW r, SetClient(c, r), freeSlots' = freeSlots,
           \/ r = [client[c] EXCEPT !.pc = p]
           \/ r = [client[c] EXCEPT !.pc = p, !.more = FALSE, !.calm = FALSE],
           p # "gather" => \A s \in Statements : client[c].run[s] \in Ended
    PROVE  SearchInv'
<1>1. DOMAIN r = SearchFields /\ r.pc = p /\ r.run = client[c].run
    BY ClientFields DEF SearchFields
<1>2. Keeps(c, r)
    BY <1>1, ClientFields DEF Keeps
<1> QED
    BY <1>2, KeepsHolders

LEMMA SearchAsked ==
    ASSUME SearchInv, NEW c \in Clients, NEW f, Search(c, f)
    PROVE  SearchInv'
<1>1. PICK r : r = [NoSearch EXCEPT !.f = f, !.pc = "ask", !.calm = TRUE]
    OBVIOUS
<1>2. DOMAIN r = SearchFields /\ r.run = NoSearch.run
    BY <1>1, NoSearchFields DEF SearchFields
<1>3. client[c].pc = "idle" /\ SetClient(c, r) /\ freeSlots' = freeSlots
    BY <1>1 DEF Search
<1>4. \A s \in Statements : r.run[s] \in Ended /\ r.run[s] \notin Holding
    BY <1>2, NoSearchFields DEF Ended, Holding
<1>5. \A s \in Statements : client[c].run[s] \notin Holding
    BY <1>3, ClientFields
<1>6. Keeps(c, r)
    BY <1>2, <1>3, <1>4, <1>5, NoSearchFields DEF Keeps
<1> QED
    BY <1>6, KeepsHolders

LEMMA SearchDelivered ==
    ASSUME SearchInv, NEW c \in Clients, NEW body, SetClient(c, Delivered(client[c], body)),
           freeSlots' = freeSlots, client[c].pc # "gather"
    PROVE  SearchInv'
<1>1. PICK r : r = Delivered(client[c], body)
    OBVIOUS
<1>2. DOMAIN r = SearchFields /\ r.run = NoSearch.run
    BY <1>1, ClientFields DEF Delivered, SearchFields
<1>3. \A s \in Statements : r.run[s] \in Ended /\ r.run[s] \notin Holding
    BY <1>2, NoSearchFields DEF Ended, Holding
<1>4. \A s \in Statements : client[c].run[s] \notin Holding
    BY ClientFields
<1>5. Keeps(c, r)
    BY <1>1, <1>2, <1>3, <1>4, NoSearchFields DEF Keeps
<1> QED
    BY <1>5, KeepsHolders

LEMMA SearchAsksCache ==
    ASSUME SearchInv, NEW c \in Clients, AskCache(c)
    PROVE  SearchInv'
<1>0. client[c].pc = "ask" /\ freeSlots' = freeSlots
    BY DEF AskCache
<1>1. ASSUME NEW body, SetClient(c, Delivered(client[c], body))
      PROVE  SearchInv'
    BY <1>0, <1>1, SearchDelivered
<1>2. ASSUME SetClient(c, [client[c] EXCEPT !.pc = "gather", !.run = [s \in Statements |-> "queued"]])
      PROVE  SearchInv'
  <2>1. PICK r : r = [client[c] EXCEPT !.pc = "gather", !.run = [s \in Statements |-> "queued"]]
      OBVIOUS
  <2>2. DOMAIN r = SearchFields /\ r.run = [s \in Statements |-> "queued"] /\ r.pc = "gather"
      BY <2>1, ClientFields DEF SearchFields
  <2>3. r.run \in RunSet /\ \A s \in Statements : r.run[s] \notin Holding
      BY <2>2 DEF RunSet, Holding
  <2>4. \A s \in Statements : client[c].run[s] \notin Holding
      BY <1>0, ClientFields
  <2>5. Keeps(c, r)
      BY <1>0, <1>2, <2>1, <2>2, <2>3, <2>4 DEF Keeps
  <2> QED
      BY <2>5, KeepsHolders
<1> QED
    BY <1>1, <1>2 DEF AskCache

LEMMA SearchTakesSlot ==
    ASSUME SearchInv, NEW c \in Clients, NEW s \in Statements, TakeSlot(c, s)
    PROVE  SearchInv'
<1>0. /\ client[c].run[s] = "queued" /\ freeSlots' = freeSlots - 1
      /\ SetClient(c, [client[c] EXCEPT !.run[s] = "slot"])
    BY DEF TakeSlot
<1>1. PICK r : r = [client[c] EXCEPT !.run[s] = "slot"]
    OBVIOUS
<1>2. /\ DOMAIN r = SearchFields /\ r.run \in RunSet /\ r.pc = client[c].pc /\ r.run[s] = "slot"
      /\ \A t \in Statements : t # s => r.run[t] = client[c].run[t]
  <2>1. "slot" \in Ended \cup Holding \cup {"queued"}
      BY DEF Holding
  <2> QED
      BY <1>1, <2>1, RunAfter
<1>3. client[c].pc = "gather"
    BY <1>0, ClientFields DEF Ended
<1>4. client'[c] = r /\ \A d \in Clients : d # c => client'[d] = client[d]
    BY <1>0, <1>1 DEF SetClient, SearchInv
<1>5. Holders' = Holders \cup {<<c, s>>} /\ <<c, s>> \notin Holders
  <2>1. "slot" \in Holding /\ client[c].run[s] \notin Holding
      BY <1>0 DEF Holding
  <2>2. \A d \in Clients, t \in Statements :
            client'[d].run[t] \in Holding <=> client[d].run[t] \in Holding \/ (d = c /\ t = s)
      BY <1>2, <1>4, <2>1
  <2> QED
      BY <2>1, <2>2 DEF Holders
<1>6. IsFiniteSet(Holders) /\ Cardinality(Holders) \in Nat
    BY FS_CardinalityType DEF SearchInv
<1>7. IsFiniteSet(Holders') /\ Cardinality(Holders') = Cardinality(Holders) + 1
  <2>1. /\ IsFiniteSet(Holders \cup {<<c, s>>})
        /\ Cardinality(Holders \cup {<<c, s>>}) = IF <<c, s>> \in Holders THEN Cardinality(Holders)
                                                  ELSE Cardinality(Holders) + 1
      BY <1>6, FS_AddElement, Zenon
  <2> QED
      BY <1>5, <2>1
<1>8. freeSlots' \in Int /\ freeSlots' + Cardinality(Holders') = Slots
    BY <1>0, <1>6, <1>7 DEF SearchInv
<1> QED
    BY <1>0, <1>1, <1>2, <1>3, <1>7, <1>8, HoldersAfter

LEMMA SearchWaits ==
    ASSUME SearchInv, NEW c \in Clients, NEW s \in Statements, Busy(c, s) \/ Connect(c, s)
    PROVE  SearchInv'
<1>1. PICK v \in {"busy", "running"} :
          /\ SetClient(c, [client[c] EXCEPT !.run[s] = v]) /\ freeSlots' = freeSlots
          /\ client[c].run[s] = IF v = "busy" THEN "queued" ELSE "slot"
    BY DEF Busy, Connect
<1>2. PICK r : r = [client[c] EXCEPT !.run[s] = v]
    OBVIOUS
<1>3. v \in Ended \cup Holding \cup {"queued"} /\ (v \in Holding <=> client[c].run[s] \in Holding)
    BY <1>1 DEF Ended, Holding
<1>4. /\ DOMAIN r = SearchFields /\ r.run \in RunSet /\ r.pc = client[c].pc /\ r.run[s] = v
      /\ \A t \in Statements : t # s => r.run[t] = client[c].run[t]
    BY <1>2, <1>3, RunAfter
<1>5. client[c].pc = "gather"
    BY <1>1, ClientFields DEF Ended
<1>6. Keeps(c, r)
    BY <1>1, <1>2, <1>3, <1>4, <1>5 DEF Keeps
<1> QED
    BY <1>6, KeepsHolders

(* How a statement that ran ends.                                          *)
AtEnd == {"done", "timed out"}

LEMMA SearchStatementEnds ==
    ASSUME SearchInv, NEW c \in Clients, NEW s \in Statements, StatementEnds(c, s)
    PROVE  SearchInv'
<1>0. client[c].run[s] = "running" /\ freeSlots' = freeSlots + 1
    BY DEF StatementEnds
<1>f. DOMAIN client[c] = SearchFields /\ client[c].run \in RunSet
    BY ClientFields
<1>e. "done" \in AtEnd
    BY DEF AtEnd
<1>1. PICK r : \E v \in AtEnd :
          /\ SetClient(c, r) /\ DOMAIN r = SearchFields /\ r.pc = client[c].pc
          /\ r.run = [client[c].run EXCEPT ![s] = v]
  <2>1. ASSUME NEW found, SetClient(c, [client[c] EXCEPT !.run[s] = "done", !.rows = found])
        PROVE  \E r : \E v \in AtEnd :
                  /\ SetClient(c, r) /\ DOMAIN r = SearchFields /\ r.pc = client[c].pc
                  /\ r.run = [client[c].run EXCEPT ![s] = v]
    <3>1. PICK r : r = [client[c] EXCEPT !.run[s] = "done", !.rows = found]
        OBVIOUS
    <3>2. DOMAIN r = SearchFields /\ r.pc = client[c].pc /\ r.run = [client[c].run EXCEPT ![s] = "done"]
        BY <1>f, <3>1 DEF SearchFields
    <3> QED
        BY <2>1, <3>1, <3>2, <1>e
  <2>2. ASSUME NEW n, SetClient(c, [client[c] EXCEPT !.run[s] = "done", !.total = n])
        PROVE  \E r : \E v \in AtEnd :
                  /\ SetClient(c, r) /\ DOMAIN r = SearchFields /\ r.pc = client[c].pc
                  /\ r.run = [client[c].run EXCEPT ![s] = v]
    <3>1. PICK r : r = [client[c] EXCEPT !.run[s] = "done", !.total = n]
        OBVIOUS
    <3>2. DOMAIN r = SearchFields /\ r.pc = client[c].pc /\ r.run = [client[c].run EXCEPT ![s] = "done"]
        BY <1>f, <3>1 DEF SearchFields
    <3> QED
        BY <2>2, <3>1, <3>2, <1>e
  <2>3. ASSUME NEW v \in AtEnd, SetClient(c, [client[c] EXCEPT !.run[s] = v])
        PROVE  \E r : \E u \in AtEnd :
                  /\ SetClient(c, r) /\ DOMAIN r = SearchFields /\ r.pc = client[c].pc
                  /\ r.run = [client[c].run EXCEPT ![s] = u]
    <3>1. PICK r : r = [client[c] EXCEPT !.run[s] = v]
        OBVIOUS
    <3>2. DOMAIN r = SearchFields /\ r.pc = client[c].pc /\ r.run = [client[c].run EXCEPT ![s] = v]
        BY <1>f, <3>1 DEF SearchFields
    <3> QED
        BY <2>3, <3>1, <3>2
  <2> QED
    <3>1. CASE \E order \in ResultOrders(client[c].f, Len(client[c].seen)) :
                  SetClient(c, [client[c] EXCEPT !.run[s] = "done", !.rows = PageAt(order, Len(client[c].seen))])
        BY <2>1, <3>1
    <3>2. CASE SetClient(c, [client[c] EXCEPT !.run[s] = "done", !.total = Total(client[c].f)])
        BY <2>2, <3>2
    <3>3. CASE \E v \in AtEnd : SetClient(c, [client[c] EXCEPT !.run[s] = v])
        BY <2>3, <3>3
    <3> QED
        BY <3>1, <3>2, <3>3, Zenon DEF StatementEnds, AtEnd
<1>v. PICK v \in AtEnd : r.run = [client[c].run EXCEPT ![s] = v]
    BY <1>1
<1>w. v \in Ended /\ v \notin Holding
    BY DEF AtEnd, Ended, Holding
<1>2. /\ r.run \in RunSet /\ r.run[s] = v /\ v \notin Holding
      /\ \A t \in Statements : t # s => r.run[t] = client[c].run[t]
    BY <1>v, <1>f, <1>w DEF RunSet
<1>3. client[c].pc = "gather"
    BY <1>0, ClientFields DEF Ended
<1>4. client'[c] = r /\ \A d \in Clients : d # c => client'[d] = client[d]
    BY <1>1 DEF SetClient, SearchInv
<1>5. Holders' = Holders \ {<<c, s>>} /\ <<c, s>> \in Holders
  <2>1. client[c].run[s] \in Holding
      BY <1>0 DEF Holding
  <2>2. \A d \in Clients, t \in Statements :
            client'[d].run[t] \in Holding <=> client[d].run[t] \in Holding /\ ~(d = c /\ t = s)
      BY <1>2, <1>4, <2>1
  <2> QED
    <3>1. ASSUME NEW d \in Clients, NEW t \in Statements
          PROVE  <<d, t>> \in Holders' <=> <<d, t>> \in Holders /\ <<d, t>> # <<c, s>>
        BY <2>2 DEF Holders
    <3>3. ASSUME NEW x \in Clients \X Statements
          PROVE  x \in Holders' <=> x \in Holders /\ x # <<c, s>>
      <4>1. PICK d \in Clients : \E t \in Statements : x = <<d, t>>
          OBVIOUS
      <4> QED
          BY <3>1, <4>1
    <3>4. <<c, s>> \in Holders
        BY <2>1 DEF Holders
    <3> QED
        BY <3>3, <3>4 DEF Holders
<1>6. IsFiniteSet(Holders) /\ Cardinality(Holders) \in Nat
    BY FS_CardinalityType DEF SearchInv
<1>7. IsFiniteSet(Holders') /\ Cardinality(Holders') = Cardinality(Holders) - 1
  <2>1. /\ IsFiniteSet(Holders \ {<<c, s>>})
        /\ Cardinality(Holders \ {<<c, s>>}) = IF <<c, s>> \in Holders THEN Cardinality(Holders) - 1
                                               ELSE Cardinality(Holders)
      BY <1>6, FS_RemoveElement, Zenon
  <2> QED
      BY <1>5, <2>1
<1>8. freeSlots' \in Int /\ freeSlots' + Cardinality(Holders') = Slots
  <2>1. freeSlots \in Int /\ freeSlots + Cardinality(Holders) = Slots
      BY DEF SearchInv
  <2> QED
      BY <1>0, <1>6, <1>7, <2>1
<1> QED
    BY <1>1, <1>2, <1>3, <1>7, <1>8, HoldersAfter

LEMMA SearchGoesOn ==
    ASSUME SearchInv, NEW c \in Clients,
           NextResults(c) \/ Fails(c) \/ LookUpIds(c) \/ IdsFound(c) \/ RespondSearch(c)
    PROVE  SearchInv'
<1>1. CASE NextResults(c) \/ IdsFound(c)
  <2>1. PICK p : SetClient(c, [client[c] EXCEPT !.pc = p]) /\ freeSlots' = freeSlots /\ client[c].pc # "gather"
      BY <1>1 DEF NextResults, IdsFound
  <2> QED
      BY <2>1, ClientFields, StepsOfAClient
<1>2. CASE Fails(c)
  <2>1. \A s \in Statements : client[c].run[s] \in Ended
      BY <1>2 DEF Fails, Settled, Ended
  <2>2. SetClient(c, [client[c] EXCEPT !.pc = "idle", !.more = FALSE, !.calm = FALSE]) /\ freeSlots' = freeSlots
      BY <1>2 DEF Fails
  <2> QED
      BY <2>1, <2>2, StepsOfAClient
<1>3. CASE LookUpIds(c)
  <2>1. \A s \in Statements : client[c].run[s] \in Ended
      BY <1>3 DEF LookUpIds, Ended
  <2>2. PICK p : SetClient(c, [client[c] EXCEPT !.pc = p]) /\ freeSlots' = freeSlots
      BY <1>3 DEF LookUpIds
  <2> QED
      BY <2>1, <2>2, StepsOfAClient
<1>4. CASE RespondSearch(c)
  <2>1. PICK body : SetClient(c, Delivered(client[c], body)) /\ freeSlots' = freeSlots /\ client[c].pc # "gather"
      BY <1>4 DEF RespondSearch
  <2> QED
      BY <2>1, SearchDelivered
<1> QED
    BY <1>1, <1>2, <1>3, <1>4

LEMMA SearchNextInv == SearchInv /\ SearchNext => SearchInv'
<1> SUFFICES ASSUME SearchInv, SearchNext PROVE SearchInv'
    OBVIOUS
<1>1. CASE \E c \in Clients, f \in Filters : Search(c, f)
    BY <1>1, SearchAsked
<1>2. CASE \E c \in Clients : \/ NextResults(c) \/ AskCache(c) \/ Fails(c)
                              \/ LookUpIds(c) \/ IdsFound(c) \/ RespondSearch(c)
    BY <1>2, SearchAsksCache, SearchGoesOn
<1>3. CASE \E c \in Clients, s \in Statements : \/ TakeSlot(c, s) \/ Busy(c, s)
                                                \/ Connect(c, s) \/ StatementEnds(c, s)
    BY <1>3, SearchTakesSlot, SearchWaits, SearchStatementEnds
<1> QED
    BY <1>1, <1>2, <1>3 DEF SearchNext

LEMMA SearchStutter == SearchInv /\ UNCHANGED searchVars => SearchInv'
    BY DEF SearchInv, Holders, Slots, searchVars

(* The inductive invariant of search, and the property: the slots of the   *)
(* bounded set are free or held by a statement of a search that still      *)
(* gathers, whatever times out or fails (search_queries.py).               *)
THEOREM SearchSlots == Spec => []SearchLeavesNothingRunning
<1>1. Init => SearchInv
    BY SearchInitInv DEF Init
<1>2. SearchInv /\ [Next]_catalogVars => SearchInv'
  <2>1. [Next]_catalogVars => SearchNext \/ UNCHANGED searchVars
      BY DEF Next, RestOf, catalogVars
  <2> QED
      BY <2>1, SearchNextInv, SearchStutter
<1>3. SearchInv => SearchLeavesNothingRunning
    BY ClientFields DEF SearchInv, SearchLeavesNothingRunning, Holders, Holding
<1> QED
    BY <1>1, <1>2, <1>3, PTL DEF Spec

-----------------------------------------------------------------------------
(* IdentityReads: an identifier has one open alias, items are numbered in  *)
(* the order they are minted, and a superseded item has one survivor.      *)

Providers == {"discogs", "musicbrainz", "barcode"}
AliasRows == [provider : Providers, kind : EntityKinds, id : DgIds \cup MbIds \cup Barcodes,
              item : Nat \ {0}, from : Nat \ {0}, to : Nat]
MergeRows == [superseded : Nat \ {0}, survivor : Nat \ {0}, from : Nat \ {0}]

SameKey(a, b) == a.provider = b.provider /\ a.kind = b.kind /\ a.id = b.id

AliasInv ==
    /\ tx \in Nat /\ aliases \subseteq AliasRows /\ IsFiniteSet(aliases) /\ merged \subseteq MergeRows
    /\ Native = 1..Cardinality(Native) /\ Cardinality(Native) \in Nat
    /\ \A a \in aliases : a.from <= tx
    /\ \A a, b \in OpenAliases : SameKey(a, b) => a = b
    /\ \A s \in merged : s.from <= tx /\ s.superseded \in Native /\ s.survivor \in Native
    /\ \A s, u \in merged : s.superseded = u.superseded => s = u

LEMMA FiniteImage ==
    ASSUME NEW S, IsFiniteSet(S), NEW T, NEW g \in [S -> T], \A t \in T : \E x \in S : g[x] = t
    PROVE  IsFiniteSet(T)
<1>1. g \in Surjection(S, T)
    BY DEF Surjection
<1> QED
    BY <1>1, FS_Surjection

LEMMA NativeIsFinite ==
    ASSUME IsFiniteSet(aliases)
    PROVE  IsFiniteSet(Native) /\ Cardinality(Native) \in Nat
<1>1. PICK g : g = [a \in aliases |-> a.item]
    OBVIOUS
<1>2. g \in [aliases -> Native] /\ \A i \in Native : \E a \in aliases : g[a] = i
    BY <1>1 DEF Native
<1>3. IsFiniteSet(Native)
    BY <1>2, FiniteImage
<1> QED
    BY <1>3, FS_CardinalityType

(* What HolderNow answers, given that an identifier has one open alias.    *)
LEMMA HolderFacts ==
    ASSUME AliasInv, NEW pv, NEW k, NEW i
    PROVE  /\ HolderNow(pv, k, i) # NoId =>
                 \E a \in OpenAliases : a.provider = pv /\ a.kind = k /\ a.id = i /\ a.item = HolderNow(pv, k, i)
           /\ \A a \in OpenAliases :
                 a.provider = pv /\ a.kind = k /\ a.id = i => HolderNow(pv, k, i) = a.item /\ a.item # NoId
           /\ HolderNow(pv, k, i) # NoId => HolderNow(pv, k, i) \in Native
<1> DEFINE held == {a \in OpenAliases : a.provider = pv /\ a.kind = k /\ a.id = i}
           first == CHOOSE a \in held : TRUE
<1>1. HolderNow(pv, k, i) = IF held = {} THEN NoId ELSE first.item
    BY DEF HolderNow
<1>2. held # {} => first \in held
    OBVIOUS
<1>3. \A a, b \in held : a = b
    BY DEF AliasInv, SameKey
<1>4. \A a \in OpenAliases : a \in aliases /\ a.item # NoId /\ a.item \in Native
    BY DEF AliasInv, AliasRows, OpenAliases, Native, NoId
<1> HIDE DEF held, first
<1>5. ASSUME HolderNow(pv, k, i) # NoId
      PROVE  \E a \in OpenAliases : a.provider = pv /\ a.kind = k /\ a.id = i /\ a.item = HolderNow(pv, k, i)
    BY <1>1, <1>2, <1>5 DEF held
<1>6. ASSUME NEW a \in OpenAliases, a.provider = pv, a.kind = k, a.id = i
      PROVE  HolderNow(pv, k, i) = a.item /\ a.item # NoId
  <2>1. a \in held
      BY <1>6 DEF held
  <2>2. first = a
      BY <1>2, <1>3, <2>1
  <2> QED
      BY <1>1, <1>4, <2>1, <2>2
<1> QED
    BY <1>4, <1>5, <1>6

LEMMA AliasInitInv == IdentityInit => AliasInv
<1> SUFFICES ASSUME IdentityInit PROVE AliasInv
    OBVIOUS
<1>1. aliases = {} /\ merged = {} /\ tx = 0
    BY DEF IdentityInit
<1>2. Native = {} /\ OpenAliases = {}
    BY <1>1 DEF Native, OpenAliases
<1>3. IsFiniteSet({}) /\ Cardinality({}) = 0
    BY FS_EmptySet
<1>4. 1..0 = {}
    OBVIOUS
<1> QED
    BY <1>1, <1>2, <1>3, <1>4 DEF AliasInv

LEMMA NextItemIsNew ==
    ASSUME AliasInv
    PROVE  /\ NextItem \in Nat \ {0} /\ NextItem \notin Native
           /\ Native \cup {NextItem} = 1..NextItem
           /\ Cardinality(1..NextItem) = NextItem
<1>1. NextItem \in Nat \ {0} /\ NextItem \notin Native /\ Native \cup {NextItem} = 1..NextItem
    BY DEF AliasInv, NextItem
<1>2. Cardinality(1..NextItem) = NextItem
    BY <1>1, FS_Interval
<1> QED
    BY <1>1, <1>2

(* A writer opens one alias, for an identifier that has none, on an item   *)
(* that exists or on the next one.                                         *)
LEMMA OpensAlias ==
    ASSUME AliasInv, NEW n \in AliasRows, n.to = NoTime, n.from = tx + 1,
           n.item \in Native \cup {NextItem},
           \A a \in OpenAliases : ~SameKey(a, n),
           aliases' = aliases \cup {n}, tx' = tx + 1, UNCHANGED merged
    PROVE  AliasInv'
<1>1. tx \in Nat /\ tx' \in Nat /\ aliases' \subseteq AliasRows
    BY DEF AliasInv
<1>2. IsFiniteSet(aliases')
    BY FS_AddElement, Zenon DEF AliasInv
<1>3. OpenAliases' = OpenAliases \cup {n}
    BY DEF OpenAliases
<1>4. Native' = Native \cup {n.item}
    BY DEF Native
<1>5. Native' = 1..Cardinality(Native') /\ Cardinality(Native') \in Nat
  <2>1. CASE n.item \in Native
    <3>1. Native' = Native
        BY <1>4, <2>1
    <3> QED
        BY <3>1 DEF AliasInv
  <2>2. CASE n.item = NextItem
    <3>1. Native' = 1..NextItem
        BY <1>4, <2>2, NextItemIsNew
    <3> QED
        BY <3>1, NextItemIsNew
  <2> QED
      BY <2>1, <2>2
<1>6. \A a \in aliases' : a.from <= tx'
    BY <1>1 DEF AliasInv, AliasRows
<1>7. \A a, b \in OpenAliases' : SameKey(a, b) => a = b
    BY <1>3 DEF AliasInv, SameKey
<1>8. \A s \in merged' : s.from <= tx' /\ s.superseded \in Native' /\ s.survivor \in Native'
    BY <1>1, <1>4 DEF AliasInv, MergeRows
<1> QED
    BY <1>1, <1>2, <1>5, <1>6, <1>7, <1>8 DEF AliasInv

(* The rows of x closed, and the rows that stand for them on d.            *)
Closes(a) == [a EXCEPT !.to = tx + 1]
Reopens(a, d) == [a EXCEPT !.item = d, !.from = tx + 1]

LEMMA MovedRows ==
    ASSUME AliasInv, NEW a \in OpenAliases, NEW d \in Nat \ {0}
    PROVE  /\ a \in AliasRows /\ a.to = NoTime
           /\ Closes(a) \in AliasRows /\ SameKey(Closes(a), a) /\ Closes(a).item = a.item
           /\ Closes(a).from = a.from /\ Closes(a).to = tx + 1 /\ tx + 1 # NoTime
           /\ Reopens(a, d) \in AliasRows /\ SameKey(Reopens(a, d), a) /\ Reopens(a, d).item = d
           /\ Reopens(a, d).from = tx + 1 /\ Reopens(a, d).to = NoTime
<1>1. a \in AliasRows /\ a.to = NoTime /\ tx \in Nat
    BY DEF AliasInv, OpenAliases
<1>2. /\ Closes(a) \in AliasRows /\ SameKey(Closes(a), a) /\ Closes(a).item = a.item
      /\ Closes(a).from = a.from /\ Closes(a).to = tx + 1 /\ tx + 1 # NoTime
    BY <1>1 DEF Closes, AliasRows, SameKey, NoTime
<1>3. /\ Reopens(a, d) \in AliasRows /\ SameKey(Reopens(a, d), a) /\ Reopens(a, d).item = d
      /\ Reopens(a, d).from = tx + 1 /\ Reopens(a, d).to = NoTime
  <2>1. \A n \in Nat \ {0} : [a EXCEPT !.item = d, !.from = n] \in AliasRows
      BY <1>1 DEF AliasRows
  <2>2. tx + 1 \in Nat \ {0}
      BY <1>1
  <2>3. Reopens(a, d) \in AliasRows
      BY <2>1, <2>2 DEF Reopens
  <2>4. /\ Reopens(a, d).provider = a.provider /\ Reopens(a, d).kind = a.kind /\ Reopens(a, d).id = a.id
        /\ Reopens(a, d).item = d /\ Reopens(a, d).from = tx + 1 /\ Reopens(a, d).to = NoTime
      BY <1>1 DEF Reopens, AliasRows
  <2> QED
      BY <2>3, <2>4 DEF SameKey
<1> QED
    BY <1>1, <1>2, <1>3

LEMMA MoveRows ==
    ASSUME AliasInv, NEW x, NEW d
    PROVE  /\ \A b \in MoveAliasesTo(x, d) :
                 \/ b \in aliases /\ ~(b \in OpenAliases /\ b.item = x)
                 \/ \E a \in OpenAliases : a.item = x /\ (b = Closes(a) \/ b = Reopens(a, d))
           /\ \A a \in aliases : ~(a \in OpenAliases /\ a.item = x) => a \in MoveAliasesTo(x, d)
           /\ \A a \in OpenAliases : a.item = x => {Closes(a), Reopens(a, d)} \subseteq MoveAliasesTo(x, d)
           /\ IsFiniteSet(MoveAliasesTo(x, d))
<1>0. OpenAliases \subseteq aliases /\ IsFiniteSet(aliases)
    BY DEF OpenAliases, AliasInv
<1> DEFINE moving == {b \in OpenAliases : b.item = x}
           kept == {IF a \in OpenAliases /\ a.item = x THEN Closes(a) ELSE a : a \in aliases}
           moved == {Reopens(a, d) : a \in moving}
<1>1. MoveAliasesTo(x, d) = kept \cup moved
    BY DEF MoveAliasesTo, Closes, Reopens
<1>2. IsFiniteSet(kept)
  <2>1. PICK g : g = [a \in aliases |-> IF a \in OpenAliases /\ a.item = x THEN Closes(a) ELSE a]
      OBVIOUS
  <2>2. g \in [aliases -> kept] /\ \A b \in kept : \E a \in aliases : g[a] = b
      BY <2>1
  <2> HIDE DEF kept
  <2> QED
      BY <1>0, <2>2, FiniteImage
<1>3. IsFiniteSet(moved)
  <2>1. PICK g : g = [a \in moving |-> Reopens(a, d)]
      OBVIOUS
  <2>2. g \in [moving -> moved] /\ \A b \in moved : \E a \in moving : g[a] = b
      BY <2>1
  <2>3. IsFiniteSet(moving)
    <3>1. moving \in SUBSET aliases
        BY <1>0
    <3> HIDE DEF moving
    <3> QED
        BY <1>0, <3>1, FS_Subset
  <2> HIDE DEF moved, moving
  <2> QED
      BY <2>2, <2>3, FiniteImage
<1>4. IsFiniteSet(MoveAliasesTo(x, d))
  <2> HIDE DEF kept, moved
  <2> QED
      BY <1>1, <1>2, <1>3, FS_Union
<1> QED
    BY <1>0, <1>1, <1>4

LEMMA MovesAliases ==
    ASSUME AliasInv, NEW x \in Native, NEW d \in Native,
           aliases' = MoveAliasesTo(x, d), tx' = tx + 1,
           \/ UNCHANGED merged
           \/ /\ merged' = merged \cup {[superseded |-> x, survivor |-> d, from |-> tx + 1]}
              /\ OpenMerge(x) = {}
    PROVE  AliasInv'
<1>0. tx \in Nat /\ d \in Nat \ {0} /\ x \in Nat \ {0} /\ aliases \subseteq AliasRows
    BY DEF AliasInv, Native, AliasRows
<1>1. \A b \in aliases' : \/ b \in aliases /\ ~(b \in OpenAliases /\ b.item = x)
                          \/ \E a \in OpenAliases : a.item = x /\ (b = Closes(a) \/ b = Reopens(a, d))
    BY MoveRows
<1>2. aliases' \subseteq AliasRows /\ \A b \in aliases' : b.from <= tx'
  <2> SUFFICES ASSUME NEW b \in aliases'
               PROVE  b \in AliasRows /\ b.from <= tx'
      OBVIOUS
  <2>1. CASE b \in aliases
      BY <1>0, <2>1 DEF AliasInv, AliasRows
  <2>2. ASSUME NEW a \in OpenAliases, b = Closes(a) \/ b = Reopens(a, d)
        PROVE  b \in AliasRows /\ b.from <= tx'
    <3>1. a.from <= tx /\ a.from \in Nat
        BY DEF OpenAliases, AliasInv, AliasRows
    <3> QED
        BY <1>0, <2>2, <3>1, MovedRows
  <2> QED
      BY <1>1, <2>1, <2>2
<1>3. \A b \in OpenAliases' : \/ b \in OpenAliases /\ b.item # x
                              \/ \E a \in OpenAliases : a.item = x /\ b = Reopens(a, d)
  <2> SUFFICES ASSUME NEW b \in aliases', b.to = NoTime
               PROVE  \/ b \in OpenAliases /\ b.item # x
                      \/ \E a \in OpenAliases : a.item = x /\ b = Reopens(a, d)
      BY DEF OpenAliases
  <2>1. CASE b \in aliases /\ ~(b \in OpenAliases /\ b.item = x)
      BY <2>1 DEF OpenAliases
  <2>2. ASSUME NEW a \in OpenAliases, b = Closes(a)
        PROVE  FALSE
      BY <1>0, <2>2, MovedRows
  <2> QED
      BY <1>1, <2>1, <2>2
<1>4. \A a, b \in OpenAliases' : SameKey(a, b) => a = b
  <2> SUFFICES ASSUME NEW a \in OpenAliases', NEW b \in OpenAliases', SameKey(a, b)
               PROVE  a = b
      OBVIOUS
  <2>1. PICK p \in OpenAliases : SameKey(a, p) /\ (IF p.item = x THEN a = Reopens(p, d) ELSE a = p)
      BY <1>0, <1>3, MovedRows DEF SameKey
  <2>2. PICK q \in OpenAliases : SameKey(b, q) /\ (IF q.item = x THEN b = Reopens(q, d) ELSE b = q)
      BY <1>0, <1>3, MovedRows DEF SameKey
  <2>3. SameKey(p, q)
      BY <2>1, <2>2 DEF SameKey
  <2>4. p = q
      BY <2>3 DEF AliasInv
  <2> QED
      BY <2>1, <2>2, <2>4
<1>5. Native' = Native
  <2>1. \A b \in aliases' : b.item \in Native
    <3> SUFFICES ASSUME NEW b \in aliases' PROVE b.item \in Native
        OBVIOUS
    <3>1. ASSUME NEW a \in OpenAliases, b = Closes(a) \/ b = Reopens(a, d)
          PROVE  b.item \in Native
      <4>1. a.item \in Native
          BY DEF OpenAliases, Native
      <4> QED
          BY <1>0, <3>1, <4>1, MovedRows
    <3> QED
        BY <1>1, <3>1 DEF Native
  <2>2. \A a \in aliases : \E b \in aliases' : b.item = a.item
      BY <1>0, MoveRows, MovedRows
  <2> QED
      BY <2>1, <2>2 DEF Native
<1>6. IsFiniteSet(aliases')
    BY MoveRows
<1>7. /\ merged' \subseteq MergeRows
      /\ \A s \in merged' : s.from <= tx' /\ s.superseded \in Native /\ s.survivor \in Native
      /\ \A s, u \in merged' : s.superseded = u.superseded => s = u
  <2>1. CASE UNCHANGED merged
      BY <1>0, <2>1 DEF AliasInv, MergeRows
  <2>2. CASE /\ merged' = merged \cup {[superseded |-> x, survivor |-> d, from |-> tx + 1]}
             /\ OpenMerge(x) = {}
    <3>1. \A s \in merged : s.superseded # x
        BY <2>2 DEF OpenMerge
    <3>2. PICK n : n = [superseded |-> x, survivor |-> d, from |-> tx + 1]
        OBVIOUS
    <3>3. n \in MergeRows /\ n.superseded = x /\ n.survivor = d /\ n.from = tx + 1
        BY <1>0, <3>2 DEF MergeRows
    <3>4. merged' = merged \cup {n}
        BY <2>2, <3>2
    <3>5. \A s \in merged : s.from <= tx' /\ s.superseded \in Native /\ s.survivor \in Native /\ s \in MergeRows
        BY <1>0 DEF AliasInv, MergeRows
    <3> QED
        BY <1>0, <3>1, <3>3, <3>4, <3>5 DEF AliasInv
  <2> QED
      BY <2>1, <2>2
<1> QED
    BY <1>0, <1>2, <1>4, <1>5, <1>6, <1>7 DEF AliasInv

(* The story: every event that happened can be read from the tables.       *)
MintedAt(i, t) ==
    /\ \E a \in aliases : a.item = i /\ a.from = t
    /\ \A a \in aliases : a.item = i => t <= a.from

AttachedAt(i, t) ==
    /\ \E a \in aliases : a.item = i /\ a.from = t
    /\ \E a \in aliases : a.item = i /\ a.from < t
    /\ \A s \in merged : s.survivor = i => s.from # t

Recalled(v) ==
    \/ \E i \in Native : v.type = "minted" /\ v.of = Item(i) /\ MintedAt(i, v.at)
    \/ \E i \in Native : v.type = "attached" /\ v.of = Item(i) /\ AttachedAt(i, v.at)
    \/ \E s \in merged : v.type = "reattached" /\ v.of = Item(s.superseded) /\ v.at = s.from
    \/ \E l \in link_events : v.type = l.type /\ v.of = l.row /\ v.at = l.at

IsEvent(v) == v = Event(v.type, v.at, v.of) /\ v.at \in Nat \ {0}

StoryInv ==
    /\ \A l \in link_events : l.row \in MbKeys
    /\ \A v \in happened : IsEvent(v) /\ v.at <= tx /\ Recalled(v)

(* What a writer does to the tables: it keeps what the story is read from, *)
(* and what it adds has the time of its transaction.                       *)
TablesGrow ==
    /\ tx' = tx + 1
    /\ \A a \in aliases : \E b \in aliases' : b.item = a.item /\ b.from = a.from
    /\ \A b \in aliases' : b.from = tx + 1 \/ \E a \in aliases : a.item = b.item /\ a.from = b.from
    /\ merged \subseteq merged' /\ \A s \in merged' : s \in merged \/ s.from = tx + 1
    /\ link_events \subseteq link_events' /\ \A l \in link_events' : l.row \in MbKeys

LEMMA EventFields ==
    ASSUME NEW y, NEW t, NEW o
    PROVE  Event(y, t, o).type = y /\ Event(y, t, o).at = t /\ Event(y, t, o).of = o
    BY DEF Event

LEMMA OldEventsStay ==
    ASSUME AliasInv, StoryInv, TablesGrow, NEW v \in happened
    PROVE  Recalled(v)'
<1>0. v.at \in Nat /\ v.at <= tx /\ tx \in Nat /\ Recalled(v)
    BY DEF StoryInv, AliasInv, IsEvent
<1>1. v.at < tx + 1
    BY <1>0
<1>2. Native \subseteq Native'
    BY DEF TablesGrow, Native
<1>3. ASSUME NEW i \in Native, MintedAt(i, v.at)
      PROVE  MintedAt(i, v.at)'
    BY <1>0, <1>1, <1>3 DEF MintedAt, TablesGrow
<1>4. ASSUME NEW i \in Native, AttachedAt(i, v.at)
      PROVE  AttachedAt(i, v.at)'
    BY <1>0, <1>1, <1>4 DEF AttachedAt, TablesGrow
<1> QED
    BY <1>0, <1>2, <1>3, <1>4 DEF Recalled, TablesGrow

LEMMA StoryGrows ==
    ASSUME AliasInv, StoryInv, TablesGrow, NEW what, happened' = happened \cup what,
           \A v \in what : IsEvent(v) /\ v.at = tx + 1 /\ Recalled(v)'
    PROVE  StoryInv'
<1>0. tx \in Nat /\ tx' = tx + 1
    BY DEF AliasInv, TablesGrow
<1>1. \A v \in happened : IsEvent(v) /\ v.at <= tx'
    BY <1>0 DEF StoryInv, IsEvent
<1>2. \A v \in what : v.at <= tx'
    BY <1>0
<1> QED
    BY <1>1, <1>2, OldEventsStay DEF StoryInv, TablesGrow

(* Writers that open an alias, and those that only write links.            *)
LEMMA OpeningGrows ==
    ASSUME NEW n, n.from = tx + 1, aliases' = aliases \cup {n}, tx' = tx + 1, UNCHANGED merged,
           link_events \subseteq link_events', \A l \in link_events' : l.row \in MbKeys
    PROVE  TablesGrow
    BY DEF TablesGrow

LEMMA MovingGrows ==
    ASSUME AliasInv, StoryInv, NEW x \in Native, NEW d \in Native, aliases' = MoveAliasesTo(x, d), tx' = tx + 1,
           UNCHANGED link_events,
           merged \subseteq merged', \A s \in merged' : s \in merged \/ s.from = tx + 1
    PROVE  TablesGrow
<1>0. d \in Nat \ {0}
    BY DEF AliasInv
<1>1. \A a \in aliases : \E b \in aliases' : b.item = a.item /\ b.from = a.from
    BY <1>0, MoveRows, MovedRows
<1>2. \A b \in aliases' : b.from = tx + 1 \/ \E a \in aliases : a.item = b.item /\ a.from = b.from
  <2> SUFFICES ASSUME NEW b \in aliases'
               PROVE  b.from = tx + 1 \/ \E a \in aliases : a.item = b.item /\ a.from = b.from
      OBVIOUS
  <2>1. ASSUME NEW a \in OpenAliases, b = Closes(a) \/ b = Reopens(a, d)
        PROVE  b.from = tx + 1 \/ \E c \in aliases : c.item = b.item /\ c.from = b.from
    <3>1. a \in aliases
        BY DEF OpenAliases
    <3> QED
        BY <1>0, <2>1, <3>1, MovedRows
  <2> QED
      BY <2>1, MoveRows
<1> QED
    BY <1>1, <1>2 DEF TablesGrow, StoryInv
(* What a new event of each kind needs.                                    *)
LEMMA EventIs ==
    ASSUME NEW y, NEW t \in Nat \ {0}, NEW o, NEW v, v = Event(y, t, o)
    PROVE  v.type = y /\ v.at = t /\ v.of = o /\ IsEvent(v)
<1>1. v.type = y /\ v.at = t /\ v.of = o
    BY EventFields
<1> QED
    BY <1>1 DEF IsEvent

LEMMA NewMint ==
    ASSUME AliasInv, NEW n, n.item = NextItem, n.from = tx + 1, aliases' = aliases \cup {n},
           NEW v, v = Event("minted", tx + 1, Item(NextItem))
    PROVE  IsEvent(v) /\ v.at = tx + 1 /\ Recalled(v)'
<1>0. tx + 1 \in Nat \ {0}
    BY DEF AliasInv
<1>1. v.type = "minted" /\ v.at = tx + 1 /\ v.of = Item(NextItem) /\ IsEvent(v)
    BY <1>0, EventIs
<1>2. PICK i : i = NextItem
    OBVIOUS
<1>3. \A a \in aliases : a.item # i
    BY <1>2, NextItemIsNew DEF Native
<1>4. i \in Native'
    BY <1>2 DEF Native
<1>5. MintedAt(i, v.at)'
    BY <1>0, <1>1, <1>2, <1>3 DEF MintedAt
<1> QED
    BY <1>1, <1>2, <1>4, <1>5 DEF Recalled

LEMMA NewAttachment ==
    ASSUME AliasInv, NEW n, n.item \in Native, n.from = tx + 1, aliases' = aliases \cup {n}, UNCHANGED merged,
           NEW v, v = Event("attached", tx + 1, Item(n.item))
    PROVE  IsEvent(v) /\ v.at = tx + 1 /\ Recalled(v)'
<1>0. tx \in Nat /\ tx + 1 \in Nat \ {0}
    BY DEF AliasInv
<1>1. v.type = "attached" /\ v.at = tx + 1 /\ v.of = Item(n.item) /\ IsEvent(v)
    BY <1>0, EventIs
<1>2. PICK i : i = n.item
    OBVIOUS
<1>3. PICK a \in aliases : a.item = i /\ a.from <= tx /\ a.from \in Nat
    BY <1>2 DEF Native, AliasInv, AliasRows
<1>4. \A s \in merged' : s.from <= tx /\ s.from \in Nat
    BY DEF AliasInv, MergeRows
<1>5. i \in Native'
    BY <1>2 DEF Native
<1>6. AttachedAt(i, v.at)'
    BY <1>0, <1>1, <1>2, <1>3, <1>4 DEF AttachedAt
<1> QED
    BY <1>1, <1>2, <1>5, <1>6 DEF Recalled

(* The writers, one by one.                                                *)
LEMMA AliasFields ==
    ASSUME AliasInv, NEW pv \in Providers, NEW k \in EntityKinds, NEW id \in DgIds \cup MbIds \cup Barcodes,
           NEW i \in Native \cup {NextItem}, NEW n, n = AliasOn(pv, k, id, i)
    PROVE  /\ n \in AliasRows /\ n.provider = pv /\ n.kind = k /\ n.id = id
           /\ n.item = i /\ n.from = tx + 1 /\ n.to = NoTime
<1>1. tx + 1 \in Nat \ {0} /\ i \in Nat \ {0}
    BY NextItemIsNew DEF AliasInv
<1> QED
    BY <1>1 DEF AliasOn, AliasRows, NoTime

LEMMA NewAlias ==
    ASSUME AliasInv, NEW pv \in Providers, NEW k \in EntityKinds, NEW id \in DgIds \cup MbIds \cup Barcodes,
           NEW i \in Native \cup {NextItem}, NEW n, n = AliasOn(pv, k, id, i),
           HolderNow(pv, k, id) = NoId,
           aliases' = aliases \cup {n}, tx' = tx + 1, UNCHANGED merged
    PROVE  AliasInv'
<1>1. /\ n \in AliasRows /\ n.provider = pv /\ n.kind = k /\ n.id = id
      /\ n.item = i /\ n.from = tx + 1 /\ n.to = NoTime
    BY AliasFields
<1>2. \A a \in OpenAliases : ~SameKey(a, n)
    BY <1>1, HolderFacts DEF SameKey
<1> QED
    BY <1>1, <1>2, OpensAlias

LEMMA LoadDiscogsKeeps ==
    ASSUME AliasInv, StoryInv, NEW r \in DgKeys, LoadDiscogs(r[1], r[2])
    PROVE  AliasInv' /\ StoryInv'
<1>0. r[1] \in EntityKinds /\ r[2] \in DgIds
    BY DEF DgKeys
<1>1. PICK n : n = AliasOn("discogs", r[1], r[2], NextItem)
    OBVIOUS
<1>2. n.item = NextItem /\ n.from = tx + 1
    BY <1>0, <1>1, AliasFields DEF Providers
<1>3. /\ aliases' = aliases \cup {n} /\ tx' = tx + 1 /\ UNCHANGED <<merged, link_events>>
      /\ HolderNow("discogs", r[1], r[2]) = NoId
      /\ happened' = happened \cup {Event("minted", tx + 1, Item(NextItem))}
    BY <1>1 DEF LoadDiscogs, Write
<1>4. AliasInv'
    BY <1>0, <1>1, <1>3, NewAlias DEF Providers
<1>5. TablesGrow
    BY <1>2, <1>3, OpeningGrows DEF StoryInv
<1>6. PICK v : v = Event("minted", tx + 1, Item(NextItem))
    OBVIOUS
<1>7. IsEvent(v) /\ v.at = tx + 1 /\ Recalled(v)'
    BY <1>2, <1>3, <1>6, NewMint
<1>8. PICK what : what = {v}
    OBVIOUS
<1>9. happened' = happened \cup what
    BY <1>3, <1>6, <1>8
<1>10. StoryInv'
    BY <1>5, <1>7, <1>8, <1>9, StoryGrows
<1> QED
    BY <1>4, <1>10

LEMMA AttachBarcodeKeeps ==
    ASSUME AliasInv, StoryInv, NEW b \in Barcodes, NEW i \in Native, AttachBarcode(b, i)
    PROVE  AliasInv' /\ StoryInv'
<1>1. PICK n : n = AliasOn("barcode", "release", b, i)
    OBVIOUS
<1>2. n.item = i /\ n.from = tx + 1
    BY <1>1, AliasFields DEF Providers, EntityKinds
<1>3. /\ aliases' = aliases \cup {n} /\ tx' = tx + 1 /\ UNCHANGED <<merged, link_events>>
      /\ HolderNow("barcode", "release", b) = NoId
      /\ happened' = happened \cup {Event("attached", tx + 1, Item(i))}
    BY <1>1 DEF AttachBarcode, Write
<1>4. AliasInv'
    BY <1>1, <1>3, NewAlias DEF Providers, EntityKinds
<1>5. TablesGrow
    BY <1>2, <1>3, OpeningGrows DEF StoryInv
<1>6. PICK v : v = Event("attached", tx + 1, Item(n.item))
    OBVIOUS
<1>7. IsEvent(v) /\ v.at = tx + 1 /\ Recalled(v)'
    BY <1>2, <1>3, <1>6, NewAttachment
<1>8. PICK what : what = {v}
    OBVIOUS
<1>9. happened' = happened \cup what
    BY <1>2, <1>3, <1>6, <1>8
<1>10. StoryInv'
    BY <1>5, <1>7, <1>8, <1>9, StoryGrows
<1> QED
    BY <1>4, <1>10

LEMMA ReattachRowKeeps ==
    ASSUME AliasInv, StoryInv, NEW r \in MbKeys, ReattachRow(r)
    PROVE  AliasInv' /\ StoryInv'
<1> DEFINE d == HolderNow("discogs", r[1], named[r])
           x == HolderNow("musicbrainz", r[1], r[2])
<1>1. PICK e, y : e = d /\ y = x
    OBVIOUS
<1>2. e \in Native /\ y \in Native
    BY <1>1, HolderFacts DEF ReattachRow
<1>3. PICK s : s = [superseded |-> y, survivor |-> e, from |-> tx + 1]
    OBVIOUS
<1>4. /\ aliases' = MoveAliasesTo(y, e) /\ tx' = tx + 1 /\ UNCHANGED link_events
      /\ merged' = merged \cup {s} /\ OpenMerge(y) = {}
      /\ happened' = happened \cup {Event("reattached", tx + 1, Item(y))}
    BY <1>1, <1>3 DEF ReattachRow, Write
<1>5. AliasInv'
    BY <1>2, <1>3, <1>4, MovesAliases
<1>6. s.from = tx + 1 /\ s.superseded = y
    BY <1>3
<1>7. TablesGrow
    BY <1>2, <1>4, <1>6, MovingGrows
<1>8. PICK v : v = Event("reattached", tx + 1, Item(y))
    OBVIOUS
<1>9. tx + 1 \in Nat \ {0}
    BY DEF AliasInv
<1>10. v.type = "reattached" /\ v.at = tx + 1 /\ v.of = Item(y) /\ IsEvent(v)
    BY <1>8, <1>9, EventIs
<1>11. Recalled(v)'
    BY <1>4, <1>6, <1>10 DEF Recalled
<1>12. StoryInv'
    BY <1>4, <1>7, <1>8, <1>10, <1>11, StoryGrows
<1> QED
    BY <1>5, <1>12

LEMMA ReattachAgainKeeps ==
    ASSUME AliasInv, StoryInv, NEW x \in Native, ReattachAgain(x)
    PROVE  AliasInv' /\ StoryInv'
<1>1. PICK d : d = Survives(x)
    OBVIOUS
<1>2. d \in Native
  <2>1. OpenMerge(x) # {}
      BY DEF ReattachAgain
  <2>2. PICK s : s = CHOOSE u \in OpenMerge(x) : TRUE
      OBVIOUS
  <2>3. s \in OpenMerge(x)
      BY <2>1, <2>2
  <2>4. s.survivor \in Native
      BY <2>3 DEF OpenMerge, AliasInv
  <2>5. d = s.survivor
      BY <1>1, <2>1, <2>2 DEF Survives
  <2> QED
      BY <2>4, <2>5
<1>3. /\ aliases' = MoveAliasesTo(x, d) /\ tx' = tx + 1 /\ UNCHANGED <<merged, link_events>>
      /\ happened' = happened \cup {}
    BY <1>1 DEF ReattachAgain, Write
<1>4. AliasInv'
    BY <1>2, <1>3, MovesAliases
<1>5. TablesGrow
    BY <1>2, <1>3, MovingGrows
<1>6. PICK what : what = {}
    OBVIOUS
<1>7. happened' = happened \cup what
    BY <1>3, <1>6
<1>8. StoryInv'
    BY <1>5, <1>6, <1>7, StoryGrows
<1> QED
    BY <1>4, <1>8

LEMMA Links ==
    ASSUME AliasInv, NEW r \in MbKeys, NEW d
    PROVE  \A l \in LinkChange(r, d) : l.at = tx + 1 /\ l.row = r
    BY DEF LinkChange

LEMMA NewLink ==
    ASSUME AliasInv, NEW l, l \in link_events', l.at = tx + 1, NEW v, v = Event(l.type, l.at, l.row)
    PROVE  IsEvent(v) /\ v.at = tx + 1 /\ Recalled(v)'
<1>1. tx + 1 \in Nat \ {0}
    BY DEF AliasInv
<1>2. v.type = l.type /\ v.at = tx + 1 /\ v.of = l.row /\ IsEvent(v)
    BY <1>1, EventIs
<1> QED
    BY <1>2 DEF Recalled

LEMMA LoadMusicBrainzKeeps ==
    ASSUME AliasInv, StoryInv, NEW r \in MbKeys, NEW d, LoadMusicBrainz(r, d)
    PROVE  AliasInv' /\ StoryInv'
<1> DEFINE own == HolderNow("musicbrainz", r[1], r[2])
           dg == IF d = NoId THEN NoId ELSE HolderNow("discogs", r[1], d)
           item == IF own # NoId THEN own ELSE IF dg # NoId THEN dg ELSE NextItem
           event == Event(IF item = dg THEN "attached" ELSE "minted", tx + 1, Item(item))
<1>0. r[1] \in EntityKinds /\ r[2] \in MbIds
    BY DEF MbKeys
<1>1. PICK links, told : links = LinkChange(r, d) /\ told = {Event(l.type, l.at, l.row) : l \in links}
    OBVIOUS
<1>2. \A l \in links : l.at = tx + 1 /\ l.row = r
    BY <1>1, Links
<1>3. /\ tx' = tx + 1 /\ UNCHANGED merged
      /\ link_events' = link_events \cup links
      /\ aliases' = IF own # NoId THEN aliases ELSE aliases \cup {AliasOn("musicbrainz", r[1], r[2], item)}
      /\ happened' = happened \cup (told \cup (IF own # NoId THEN {} ELSE {event}))
    BY <1>1 DEF LoadMusicBrainz, Write
<1>4. link_events \subseteq link_events' /\ \A l \in link_events' : l.row \in MbKeys
    BY <1>2, <1>3 DEF StoryInv
<1>5. \A v \in told : IsEvent(v) /\ v.at = tx + 1 /\ Recalled(v)'
  <2> SUFFICES ASSUME NEW v \in told PROVE IsEvent(v) /\ v.at = tx + 1 /\ Recalled(v)'
      OBVIOUS
  <2>1. PICK l \in links : v = Event(l.type, l.at, l.row)
      BY <1>1
  <2>2. l \in link_events' /\ l.at = tx + 1
      BY <1>2, <1>3
  <2> QED
      BY <2>1, <2>2, NewLink
<1>6. CASE own # NoId
  <2>1. aliases' = aliases
      BY <1>3, <1>6
  <2>2. happened' = happened \cup told
      BY <1>3, <1>6
  <2>3. AliasInv'
    <3>1. tx \in Nat
        BY DEF AliasInv
    <3>2. Native' = Native /\ OpenAliases' = OpenAliases
        BY <2>1 DEF Native, OpenAliases
    <3>3. /\ aliases' \subseteq AliasRows /\ IsFiniteSet(aliases') /\ merged' \subseteq MergeRows
          /\ Native' = 1..Cardinality(Native') /\ Cardinality(Native') \in Nat
        BY <1>3, <2>1, <3>2 DEF AliasInv
    <3>4. (\A a \in aliases' : a.from <= tx') /\ (\A s \in merged' : s.from <= tx')
        BY <1>3, <2>1, <3>1 DEF AliasInv, AliasRows, MergeRows
    <3> QED
        BY <1>3, <3>1, <3>2, <3>3, <3>4 DEF AliasInv
  <2>4. TablesGrow
      BY <1>3, <1>4, <2>1 DEF TablesGrow
  <2> QED
      BY <1>5, <2>2, <2>3, <2>4, StoryGrows
<1>7. CASE own = NoId
  <2>1. PICK i, n, v : i = item /\ n = AliasOn("musicbrainz", r[1], r[2], i) /\ v = event
      OBVIOUS
  <2>2. dg # NoId => dg \in Native
      BY HolderFacts
  <2>3. i = IF dg # NoId THEN dg ELSE NextItem
      BY <1>7, <2>1
  <2>4. i \in Native \cup {NextItem}
      BY <2>2, <2>3
  <2>5. n.item = i /\ n.from = tx + 1
      BY <1>0, <2>1, <2>4, AliasFields DEF Providers
  <2>6. aliases' = aliases \cup {n}
      BY <1>3, <1>7, <2>1
  <2>7. AliasInv'
      BY <1>0, <1>3, <1>7, <2>1, <2>4, <2>6, NewAlias DEF Providers
  <2>8. TablesGrow
      BY <1>3, <1>4, <2>5, <2>6, OpeningGrows
  <2>9. IsEvent(v) /\ v.at = tx + 1 /\ Recalled(v)'
    <3>1. v = Event(IF i = dg THEN "attached" ELSE "minted", tx + 1, Item(i))
        BY <2>1
    <3>2. CASE dg # NoId
      <4>1. v = Event("attached", tx + 1, Item(n.item)) /\ n.item \in Native
          BY <2>2, <2>3, <2>5, <3>1, <3>2
      <4> QED
          BY <1>3, <2>5, <2>6, <4>1, NewAttachment
    <3>3. CASE dg = NoId
      <4>1. i = NextItem /\ NextItem # dg
          BY <2>3, <3>3, NextItemIsNew DEF NoId
      <4>2. v = Event("minted", tx + 1, Item(NextItem)) /\ n.item = NextItem
          BY <2>5, <3>1, <4>1
      <4> QED
          BY <2>5, <2>6, <4>2, NewMint
    <3> QED
        BY <3>2, <3>3
  <2>10. PICK what : what = told \cup {v}
      OBVIOUS
  <2>11. happened' = happened \cup what
      BY <1>3, <1>7, <2>1, <2>10
  <2> QED
      BY <1>5, <2>7, <2>8, <2>9, <2>10, <2>11, StoryGrows
<1> QED
    BY <1>6, <1>7

(* Reading the story: a page fetches every alias of an edition it shows,   *)
(* so the mint it works out is the item's own.                             *)
LEMMA FetchedHasGroup ==
    ASSUME NEW w, NEW t, NEW e \in ShownEditions(w, t)
    PROVE  \A a \in aliases : a.item \in Group(e) => a \in Fetched(w, t)
<1>1. Group(e) \subseteq UNION {Group(i) : i \in {w} \cup ShownEditions(w, t)}
    OBVIOUS
<1> QED
    BY <1>1 DEF Fetched

LEMMA FetchedAreAliases == \A w, t : Fetched(w, t) \subseteq aliases
    BY DEF Fetched

LEMMA EventsInclude ==
    ASSUME NEW A, NEW e, NEW t
    PROVE  /\ \A a \in A : a.item \in Group(e) /\ Visible(MintOf(A, a.item), t)
                 => Event("minted", MintOf(A, a.item), Item(a.item)) \in Events(A, e, t)
           /\ \A a \in A : a.item \in Group(e) /\ a.from > MintOf(A, a.item) /\ ~OpenedByMerge(a) /\ Visible(a.from, t)
                 => Event("attached", a.from, Item(a.item)) \in Events(A, e, t)
           /\ \A s \in merged : s.superseded \in Group(e) /\ Visible(s.from, t)
                 => Event("reattached", s.from, Item(s.superseded)) \in Events(A, e, t)
           /\ \A l \in link_events : Visible(l.at, t)
                 /\ (\E a \in A : a.item \in Group(e) /\ a.provider = "musicbrainz" /\ l.row = <<a.kind, a.id>>)
                 => Event(l.type, l.at, l.row) \in Events(A, e, t)
<1> DEFINE own == {a \in A : a.item \in Group(e)}
           keys == {<<a.kind, a.id>> : a \in {b \in own : b.provider = "musicbrainz"}}
           minted == {Event("minted", MintOf(A, i), Item(i)) : i \in {a.item : a \in own}}
           attached == {Event("attached", a.from, Item(a.item)) :
                          a \in {b \in own : b.from > MintOf(A, b.item) /\ ~OpenedByMerge(b)}}
           closed == {Event("alias_closed", a.to, Item(a.item)) :
                          a \in {b \in own : b.to # NoTime /\ ~ClosedByMerge(b)}}
           moved == {Event("reattached", s.from, Item(s.superseded)) :
                          s \in {u \in merged : {u.superseded, u.survivor} \cap Group(e) # {}}}
           links == {Event(l.type, l.at, l.row) : l \in {u \in link_events : u.row \in keys}}
<1>1. \A v : v \in minted \cup attached \cup moved \cup links /\ Visible(v.at, t) => v \in Events(A, e, t)
  <2>1. Events(A, e, t) = {v \in minted \cup attached \cup closed \cup moved \cup links : Visible(v.at, t)}
      BY Zenon DEF Events
  <2> HIDE DEF minted, attached, closed, moved, links
  <2> QED
      BY <2>1
<1>2. ASSUME NEW a \in A, a.item \in Group(e), Visible(MintOf(A, a.item), t)
      PROVE  Event("minted", MintOf(A, a.item), Item(a.item)) \in Events(A, e, t)
  <2>1. PICK v : v = Event("minted", MintOf(A, a.item), Item(a.item))
      OBVIOUS
  <2>2. v.at = MintOf(A, a.item)
      BY <2>1, EventFields
  <2>3. v \in minted
      BY <1>2, <2>1
  <2> QED
      BY <1>1, <1>2, <2>1, <2>2, <2>3
<1>3. ASSUME NEW a \in A, a.item \in Group(e), a.from > MintOf(A, a.item), ~OpenedByMerge(a), Visible(a.from, t)
      PROVE  Event("attached", a.from, Item(a.item)) \in Events(A, e, t)
  <2>1. PICK v : v = Event("attached", a.from, Item(a.item))
      OBVIOUS
  <2>2. v.at = a.from
      BY <2>1, EventFields
  <2>3. v \in attached
      BY <1>3, <2>1
  <2> QED
      BY <1>1, <1>3, <2>1, <2>2, <2>3
<1>4. ASSUME NEW s \in merged, s.superseded \in Group(e), Visible(s.from, t)
      PROVE  Event("reattached", s.from, Item(s.superseded)) \in Events(A, e, t)
  <2>1. PICK v : v = Event("reattached", s.from, Item(s.superseded))
      OBVIOUS
  <2>2. v.at = s.from
      BY <2>1, EventFields
  <2>3. v \in moved
      BY <1>4, <2>1
  <2> QED
      BY <1>1, <1>4, <2>1, <2>2, <2>3
<1>5. ASSUME NEW l \in link_events, Visible(l.at, t),
             NEW a \in A, a.item \in Group(e), a.provider = "musicbrainz", l.row = <<a.kind, a.id>>
      PROVE  Event(l.type, l.at, l.row) \in Events(A, e, t)
  <2>1. PICK v : v = Event(l.type, l.at, l.row)
      OBVIOUS
  <2>2. v.at = l.at
      BY <2>1, EventFields
  <2>3. l.row \in keys
      BY <1>5
  <2>4. v \in links
      BY <2>1, <2>3
  <2> QED
      BY <1>1, <1>5, <2>1, <2>2, <2>4
<1> QED
    BY <1>2, <1>3, <1>4, <1>5

LEMMA EventsAreVisible == \A A, e, t : \A v \in Events(A, e, t) : Visible(v.at, t)
    BY DEF Events

(* The mint a page works out.                                              *)
LEMMA MintOfIs ==
    ASSUME AliasInv, NEW A \in SUBSET aliases, NEW i, \A a \in aliases : a.item = i => a \in A
    PROVE  /\ \A m : MintedAt(i, m) => MintOf(A, i) = m
           /\ \A a \in aliases : a.item = i => MintOf(A, i) \in Nat /\ MintOf(A, i) <= a.from
<1> DEFINE from == {a.from : a \in {b \in A : b.item = i}}
           Oldest(m) == \A a \in A : a.item = i => m <= a.from
<1>0. MintOf(A, i) = CHOOSE t \in from : Oldest(t)
    BY DEF MintOf
<1>1. from \in SUBSET Nat /\ \A m : m \in from <=> \E a \in aliases : a.item = i /\ a.from = m
    BY DEF AliasInv, AliasRows
<1>2. from # {} => \E m \in from : \A y \in from : m <= y
  <2> HIDE DEF from
  <2> QED
      BY <1>1, LeastNumber
<1>3. \A m \in from : Oldest(m) <=> \A y \in from : m <= y
    OBVIOUS
<1>4. \A a \in aliases : a.item = i => a.from \in from
    OBVIOUS
<1>5. \A m : MintedAt(i, m) => m \in from /\ \A y \in from : m <= y
    BY <1>1 DEF MintedAt
<1>6. from # {} => MintOf(A, i) \in from /\ \A y \in from : MintOf(A, i) <= y
  <2> HIDE DEF from, Oldest
  <2> QED
      BY <1>0, <1>2, <1>3
<1>7. \A m, n \in from : (\A y \in from : m <= y) /\ (\A y \in from : n <= y) => m = n
  <2> HIDE DEF from
  <2> QED
      BY <1>1
<1> HIDE DEF from
<1>8. \A m : MintedAt(i, m) => MintOf(A, i) = m
    BY <1>5, <1>6, <1>7
<1>9. \A a \in aliases : a.item = i => MintOf(A, i) \in Nat /\ MintOf(A, i) <= a.from
    BY <1>1, <1>4, <1>6
<1> QED
    BY <1>8, <1>9

LEMMA ItemsAreItems ==
    /\ \A i, j : Item(i) = Item(j) => i = j
    /\ \A i, k, m : k \in EntityKinds => Item(i) # <<k, m>>
    BY DEF Item, EntityKinds

LEMMA StoryIsTold ==
    ASSUME AliasInv, StoryInv, NEW w, NEW t, NEW e \in ShownEditions(w, t),
           NEW shownRows, shownRows = {<<"release", m>> : m \in RowsOf(aliases, "musicbrainz", e)},
           NEW v \in happened, v.at <= t, v.of \in shownRows \cup {Item(i) : i \in Group(e)}
    PROVE  v \in Events(Fetched(w, t), e, t)
<1> DEFINE A == Fetched(w, t)
<1>1. A \in SUBSET aliases /\ \A a \in aliases : a.item \in Group(e) => a \in A
    BY FetchedAreAliases, FetchedHasGroup
<1>2. v = Event(v.type, v.at, v.of) /\ v.at \in Nat /\ Visible(v.at, t) /\ Recalled(v)
    BY DEF StoryInv, IsEvent, Visible
<1>3. \A r \in shownRows : \E m : r = <<"release", m>>
    OBVIOUS
<1>4. \A i : v.of = Item(i) => i \in Group(e)
    BY <1>3, ItemsAreItems DEF EntityKinds
<1> HIDE DEF A
<1>5. ASSUME NEW i \in Native, v.type = "minted", v.of = Item(i), MintedAt(i, v.at)
      PROVE  v \in Events(A, e, t)
  <2>1. PICK a \in aliases : a.item = i
      BY DEF Native
  <2>2. i \in Group(e)
      BY <1>4, <1>5
  <2>3. a \in A /\ \A b \in aliases : b.item = i => b \in A
      BY <1>1, <2>1, <2>2
  <2>4. MintOf(A, i) = v.at
      BY <1>1, <1>5, <2>3, MintOfIs
  <2>5. Event("minted", v.at, Item(i)) \in Events(A, e, t)
      BY <1>2, <2>1, <2>2, <2>3, <2>4, EventsInclude
  <2> QED
      BY <1>2, <1>5, <2>5
<1>6. ASSUME NEW i \in Native, v.type = "attached", v.of = Item(i), AttachedAt(i, v.at)
      PROVE  v \in Events(A, e, t)
  <2>1. PICK a \in aliases, b \in aliases : a.item = i /\ a.from = v.at /\ b.item = i /\ b.from < v.at
      BY <1>6 DEF AttachedAt
  <2>2. i \in Group(e)
      BY <1>4, <1>6
  <2>3. a \in A /\ \A c \in aliases : c.item = i => c \in A
      BY <1>1, <2>1, <2>2
  <2>4. MintOf(A, i) \in Nat /\ MintOf(A, i) <= b.from
      BY <1>1, <2>1, <2>3, MintOfIs
  <2>5. b.from \in Nat
      BY DEF AliasInv, AliasRows
  <2>6. a.from > MintOf(A, a.item)
      BY <1>2, <2>1, <2>4, <2>5
  <2>7. ~OpenedByMerge(a)
      BY <1>6, <2>1 DEF OpenedByMerge, AttachedAt
  <2>8. Event("attached", v.at, Item(i)) \in Events(A, e, t)
      BY <1>2, <2>1, <2>2, <2>3, <2>6, <2>7, EventsInclude
  <2> QED
      BY <1>2, <1>6, <2>8
<1>7. ASSUME NEW s \in merged, v.type = "reattached", v.of = Item(s.superseded), v.at = s.from
      PROVE  v \in Events(A, e, t)
  <2>1. s.superseded \in Group(e)
      BY <1>4, <1>7
  <2>2. Event("reattached", s.from, Item(s.superseded)) \in Events(A, e, t)
      BY <1>2, <1>7, <2>1, EventsInclude
  <2> QED
      BY <1>2, <1>7, <2>2
<1>8. ASSUME NEW l \in link_events, v.type = l.type, v.of = l.row, v.at = l.at
      PROVE  v \in Events(A, e, t)
  <2>1. PICK k, m : k \in EntityKinds /\ l.row = <<k, m>>
      BY DEF StoryInv, MbKeys
  <2>2. v.of \in shownRows
      BY <1>8, <2>1, ItemsAreItems
  <2>3. PICK b \in aliases : /\ b.provider = "musicbrainz" /\ b.kind = "release" /\ Survives(b.item) = e
                             /\ l.row = <<b.kind, b.id>>
      BY <1>8, <2>2 DEF RowsOf
  <2>4. b.item \in Group(e)
      BY <2>3 DEF Survives, OpenMerge, Group
  <2>5. b \in A
      BY <1>1, <2>4
  <2>6. Event(l.type, l.at, l.row) \in Events(A, e, t)
      BY <1>2, <1>8, <2>3, <2>4, <2>5, EventsInclude
  <2> QED
      BY <1>2, <1>8, <2>6
<1>9. v \in Events(A, e, t)
    BY <1>2, <1>5, <1>6, <1>7, <1>8 DEF Recalled
<1> QED
    BY <1>9 DEF A

LEMMA StoryComplete == AliasInv /\ StoryInv => StoryIsComplete
<1> SUFFICES ASSUME AliasInv, StoryInv, NEW w \in Works, NEW t \in 1..tx, NEW e \in ShownEditions(w, t),
                    NEW shownRows, shownRows = {<<"release", m>> : m \in RowsOf(aliases, "musicbrainz", e)}
             PROVE  /\ {v \in happened : v.at <= t /\ v.of \in shownRows \cup {Item(i) : i \in Group(e)}}
                          \subseteq Events(Fetched(w, t), e, t)
                    /\ \A v \in Events(Fetched(w, t), e, t) : v.at <= t
    BY DEF StoryIsComplete
<1>1. t # NoTime
    BY DEF NoTime, AliasInv
<1>2. \A v \in Events(Fetched(w, t), e, t) : v.at <= t
    BY <1>1, EventsAreVisible DEF Visible
<1> QED
    BY <1>2, StoryIsTold

(* The SQL's editions of a work and the payload's works of an edition.     *)
LEMMA GroupsAreSurvivors ==
    ASSUME AliasInv, NEW i, NEW w, OpenMerge(w) = {}
    PROVE  i \in Group(w) <=> Survives(i) = w
<1>1. \A s \in merged, u \in merged : s.superseded = u.superseded => s = u
    BY DEF AliasInv
<1>2. CASE OpenMerge(i) = {}
    BY <1>2 DEF Survives, Group, OpenMerge
<1>3. CASE OpenMerge(i) # {}
  <2>1. PICK s : s = CHOOSE u \in OpenMerge(i) : TRUE
      OBVIOUS
  <2>2. s \in OpenMerge(i) /\ Survives(i) = s.survivor
      BY <1>3, <2>1 DEF Survives
  <2>3. i # w
      BY <1>3
  <2>4. \A u \in merged : u.superseded = i => u = s
      BY <1>1, <2>2 DEF OpenMerge
  <2> QED
      BY <2>2, <2>3, <2>4 DEF Group, OpenMerge
<1> QED
    BY <1>2, <1>3

LEMMA ListedBy ==
    ASSUME AliasInv, NEW w, OpenMerge(w) = {}, NEW pv, NEW id
    PROVE  (\E b \in OpenAliases : b.kind = "master" /\ b.provider = pv /\ b.item \in Group(w) /\ b.id = id)
             <=> (HolderNow(pv, "master", id) # NoId /\ Survives(HolderNow(pv, "master", id)) = w)
<1>1. ASSUME NEW b \in OpenAliases, b.kind = "master", b.provider = pv, b.item \in Group(w), b.id = id
      PROVE  HolderNow(pv, "master", id) # NoId /\ Survives(HolderNow(pv, "master", id)) = w
  <2>1. HolderNow(pv, "master", id) = b.item /\ b.item # NoId
      BY <1>1, HolderFacts
  <2> QED
      BY <1>1, <2>1, GroupsAreSurvivors
<1>2. ASSUME HolderNow(pv, "master", id) # NoId, Survives(HolderNow(pv, "master", id)) = w
      PROVE  \E b \in OpenAliases : b.kind = "master" /\ b.provider = pv /\ b.item \in Group(w) /\ b.id = id
  <2>1. PICK b \in OpenAliases : /\ b.provider = pv /\ b.kind = "master" /\ b.id = id
                                 /\ b.item = HolderNow(pv, "master", id)
      BY <1>2, HolderFacts
  <2> QED
      BY <1>2, <2>1, GroupsAreSurvivors
<1> QED
    BY <1>1, <1>2

LEMMA WorksAre ==
    ASSUME NEW A, NEW e, NEW w
    PROVE  w \in WorksOf(A, e) <=>
             \/ \E d \in RowsOf(A, "discogs", e) :
                   /\ HolderNow("discogs", "master", MasterOf[d]) # NoId
                   /\ Survives(HolderNow("discogs", "master", MasterOf[d])) = w
             \/ \E m \in RowsOf(A, "musicbrainz", e) :
                   /\ HolderNow("musicbrainz", "master", GroupOf[m]) # NoId
                   /\ Survives(HolderNow("musicbrainz", "master", GroupOf[m])) = w
<1> DEFINE Of(i) == IF i = NoId THEN {} ELSE {Survives(i)}
           dg == {Of(HolderNow("discogs", "master", MasterOf[d])) : d \in RowsOf(A, "discogs", e)}
           mb == {Of(HolderNow("musicbrainz", "master", GroupOf[m])) : m \in RowsOf(A, "musicbrainz", e)}
<1>1. WorksOf(A, e) = (UNION dg) \cup (UNION mb)
    BY Zenon DEF WorksOf
<1>2. \A i : w \in Of(i) <=> i # NoId /\ Survives(i) = w
    OBVIOUS
<1> HIDE DEF Of
<1>3. w \in UNION dg <=> \E d \in RowsOf(A, "discogs", e) : w \in Of(HolderNow("discogs", "master", MasterOf[d]))
    OBVIOUS
<1>4. w \in UNION mb <=> \E m \in RowsOf(A, "musicbrainz", e) : w \in Of(HolderNow("musicbrainz", "master", GroupOf[m]))
    OBVIOUS
<1> HIDE DEF dg, mb
<1> QED
    BY <1>1, <1>2, <1>3, <1>4

LEMMA EditionsSame == AliasInv => EditionsAgree
<1> SUFFICES ASSUME AliasInv, NEW w \in Works, NEW e \in CurrentItems
             PROVE  e \in EditionsOf(w) <=> w \in WorksOf(aliases, e)
    BY DEF EditionsAgree
<1>1. OpenMerge(w) = {}
    BY DEF Works, CurrentItems
<1> DEFINE Lists(pv, id) == \E b \in OpenAliases : b.kind = "master" /\ b.provider = pv /\ b.item \in Group(w) /\ b.id = id
           Resolves(pv, id) == HolderNow(pv, "master", id) # NoId /\ Survives(HolderNow(pv, "master", id)) = w
<1>2. \A pv, id : Lists(pv, id) <=> Resolves(pv, id)
    BY <1>1, ListedBy
<1>3. e \in EditionsOf(w) <=>
        \E a \in OpenAliases : /\ a.kind = "release" /\ Survives(a.item) = e
                               /\ \/ a.provider = "discogs" /\ Lists("discogs", MasterOf[a.id])
                                  \/ a.provider = "musicbrainz" /\ Lists("musicbrainz", GroupOf[a.id])
    BY DEF EditionsOf
<1>4. w \in WorksOf(aliases, e) <=>
        \/ \E d \in RowsOf(aliases, "discogs", e) : Resolves("discogs", MasterOf[d])
        \/ \E m \in RowsOf(aliases, "musicbrainz", e) : Resolves("musicbrainz", GroupOf[m])
    BY WorksAre
<1>5. \A pv, id : id \in RowsOf(aliases, pv, e) <=>
        \E a \in OpenAliases : a.provider = pv /\ a.kind = "release" /\ Survives(a.item) = e /\ a.id = id
    BY DEF RowsOf, OpenAliases
<1> HIDE DEF Lists, Resolves
<1> QED
    BY <1>2, <1>3, <1>4, <1>5

-----------------------------------------------------------------------------
(* IdentityReads: a past state read back.  A write closes rows at its own  *)
(* instant and opens rows from then on, so the rows valid at an earlier    *)
(* time say for ever who held what.                                        *)
Holds(a) == [provider |-> a.provider, kind |-> a.kind, id |-> a.id, item |-> a.item]
HeldAt(t) == {Holds(a) : a \in {b \in aliases : Valid(b, t)}}
MergedAt(t) == {s \in merged : s.from <= t}

(* The states, of what was held and merged at a time and what rows named.  *)
GroupIn(M, i) == {i} \cup {s.superseded : s \in {u \in M : u.survivor = i}}
HoldersIn(H, pv, id) == {h.item : h \in {g \in H : g.provider = pv /\ g.kind = "release" /\ g.id = id}}
RowsIn(H, M, i) == {h.id : h \in {g \in H : g.provider = "musicbrainz" /\ g.kind = "release"
                                                /\ g.item \in GroupIn(M, i)}}
Verdict(d, dg, mb) ==
    IF d = NoId \/ mb = {} THEN "agrees"
    ELSE IF dg = {} THEN "unresolved"
    ELSE IF dg # mb THEN "split" ELSE "agrees"
Answer(held, said, only) ==
    IF {"discogs", "musicbrainz"} \subseteq held THEN {"linked"}
    ELSE IF said # {} THEN said
    ELSE IF "discogs" \in held THEN {"discogs_only"}
    ELSE IF only THEN {"musicbrainz_only"} ELSE {"not_recorded"}
RowSaysIn(H, names, m) ==
    Verdict(names[<<"release", m>>], HoldersIn(H, "discogs", names[<<"release", m>>]), HoldersIn(H, "musicbrainz", m))
StatesIn(H, M, names, i) ==
    Answer({h.provider : h \in {g \in H : g.item = i /\ g.kind = "release"}},
           {RowSaysIn(H, names, m) : m \in RowsIn(H, M, i)} \ {"agrees"},
           \E h \in H : h.provider = "musicbrainz" /\ h.item \in GroupIn(M, i))

(* A Discogs alias is never closed, so a survivor, which holds one, is     *)
(* never superseded, and a superseded item holds no row.                   *)
SurvivorsHold ==
    /\ \A a \in aliases : a.to <= tx /\ (a.provider = "discogs" => a.to = NoTime)
    /\ \A s \in merged :
          /\ \E a \in aliases : a.provider = "discogs" /\ a.item = s.survivor
          /\ \A a \in aliases : a.item = s.superseded =>
                a.provider # "discogs" /\ (a.provider = "musicbrainz" => a.to # NoTime)

(* A MusicBrainz row that once was an item's is still its, or is the       *)
(* survivor's.                                                             *)
RowsFollow ==
    \A a \in aliases : a.provider = "musicbrainz" =>
        \E b \in OpenAliases :
            /\ SameKey(a, b)
            /\ b.item = a.item \/ \E s \in merged : s.superseded = a.item /\ s.survivor = b.item

(* Items are of one kind, and only merge with their own.                   *)
OneKind ==
    /\ \A a, b \in aliases : a.item = b.item => a.kind = b.kind
    /\ \A s \in merged : \A a, b \in aliases :
          a.item = s.superseded /\ b.item = s.survivor => a.kind = b.kind

IsRelease(i) == \E a \in aliases : a.item = i /\ a.kind = "release"

(* What was shown after the transaction t.                                 *)
TellsOf(shot, t) ==
    \A i \in DOMAIN shot.shown :
        /\ i \in Native
        /\ shot.shown[i].group = GroupIn(MergedAt(t), i)
        /\ IsRelease(i) => shot.shown[i].states = StatesIn(HeldAt(t), MergedAt(t), shot.named, i)

HistoryInv ==
    /\ recorded = [t \in 1..tx |-> recorded[t]]
    /\ \A t \in Nat \ {0} : t < tx => TellsOf(recorded[t + 1], t)

PastInv == SurvivorsHold /\ RowsFollow /\ OneKind /\ HistoryInv

(* A writer that opens one alias; only a late identifier reaches an item   *)
(* that was superseded.                                                    *)
LEMMA OpeningKeeps ==
    ASSUME AliasInv, SurvivorsHold, RowsFollow, OneKind,
           NEW n \in AliasRows, n.to = NoTime, n.item \in Native \cup {NextItem},
           aliases' = aliases \cup {n}, tx' = tx + 1, UNCHANGED merged,
           \A s \in merged : s.superseded = n.item => n.provider = "barcode",
           \A a \in aliases : a.item = n.item => a.kind = n.kind
    PROVE  SurvivorsHold' /\ RowsFollow' /\ OneKind'
<1>0. tx \in Nat /\ aliases \subseteq AliasRows
    BY DEF AliasInv
<1>1. SurvivorsHold'
  <2>1. \A a \in aliases' : a.to <= tx' /\ (a.provider = "discogs" => a.to = NoTime)
      BY <1>0 DEF SurvivorsHold, AliasRows, NoTime
  <2>2. \A s \in merged : \A a \in aliases' : a.item = s.superseded =>
            a.provider # "discogs" /\ (a.provider = "musicbrainz" => a.to # NoTime)
      BY DEF SurvivorsHold
  <2> QED
      BY <2>1, <2>2 DEF SurvivorsHold
<1>2. RowsFollow'
  <2>1. OpenAliases' = OpenAliases \cup {n}
      BY DEF OpenAliases
  <2> QED
      BY <2>1 DEF RowsFollow, SameKey
<1>3. \A a \in aliases' : a.item \in Native => \E c \in aliases : c.item = a.item /\ c.kind = a.kind
    BY DEF Native
<1>4. \A a, b \in aliases' : a.item = b.item => a.kind = b.kind
    BY DEF OneKind
<1>5. \A s \in merged : s.superseded \in Native /\ s.survivor \in Native
    BY DEF AliasInv
<1>6. \A s \in merged : \A a, b \in aliases' : a.item = s.superseded /\ b.item = s.survivor => a.kind = b.kind
    BY <1>3, <1>5 DEF OneKind
<1> QED
    BY <1>1, <1>2, <1>4, <1>6 DEF OneKind

(* A writer that moves the aliases of x, none of them a Discogs alias, to  *)
(* d, which holds one.                                                     *)
LEMMA MovingKeeps ==
    ASSUME AliasInv, SurvivorsHold, RowsFollow, OneKind, NEW x \in Native, NEW d \in Native, x # d,
           aliases' = MoveAliasesTo(x, d), tx' = tx + 1,
           \A a \in aliases : a.item = x => a.provider # "discogs",
           \E a \in aliases : a.item = d /\ a.provider = "discogs",
           \A a, b \in aliases : a.item = x /\ b.item = d => a.kind = b.kind,
           NEW s0 \in merged', s0.superseded = x, s0.survivor = d,
           merged \subseteq merged', \A s \in merged' : s \in merged \/ s = s0
    PROVE  SurvivorsHold' /\ RowsFollow' /\ OneKind'
<1>0. tx \in Nat /\ aliases \subseteq AliasRows /\ d \in Nat \ {0} /\ OpenAliases \subseteq aliases
    BY DEF AliasInv, OpenAliases
<1>1. \A b \in aliases' : \/ b \in aliases /\ ~(b \in OpenAliases /\ b.item = x)
                          \/ \E a \in OpenAliases : a.item = x /\ (b = Closes(a) \/ b = Reopens(a, d))
    BY MoveRows
<1>2. \A a \in aliases : a.item # x => a \in aliases'
    BY MoveRows
<1>3. \A a \in OpenAliases : a.item = x => Closes(a) \in aliases' /\ Reopens(a, d) \in aliases'
    BY MoveRows
<1>4. \A a \in OpenAliases :
        /\ Closes(a).provider = a.provider /\ Closes(a).kind = a.kind /\ Closes(a).id = a.id
        /\ Closes(a).item = a.item /\ Closes(a).to = tx + 1
        /\ Reopens(a, d).provider = a.provider /\ Reopens(a, d).kind = a.kind /\ Reopens(a, d).id = a.id
        /\ Reopens(a, d).item = d /\ Reopens(a, d).to = NoTime
    BY <1>0, MovedRows DEF SameKey
<1>5. \A s \in merged : s.superseded # d
    BY DEF SurvivorsHold
<1>6. \A s \in merged : s.survivor # x
    BY DEF SurvivorsHold
<1>7. ASSUME NEW b \in aliases'
      PROVE  b.to <= tx' /\ (b.provider = "discogs" => b.to = NoTime)
  <2>1. CASE b \in aliases
      BY <1>0, <2>1 DEF SurvivorsHold, AliasRows
  <2>2. ASSUME NEW a \in OpenAliases, a.item = x, b = Closes(a) \/ b = Reopens(a, d)
        PROVE  b.to <= tx' /\ (b.provider = "discogs" => b.to = NoTime)
      BY <1>0, <1>4, <2>2 DEF NoTime
  <2> QED
      BY <1>1, <2>1, <2>2
<1>8. ASSUME NEW s \in merged'
      PROVE  \E a \in aliases' : a.provider = "discogs" /\ a.item = s.survivor
  <2>1. \E a \in aliases : a.provider = "discogs" /\ a.item = s.survivor
      BY DEF SurvivorsHold
  <2> QED
      BY <1>2, <2>1
<1>9. ASSUME NEW s \in merged', NEW b \in aliases', b.item = s.superseded
      PROVE  b.provider # "discogs" /\ (b.provider = "musicbrainz" => b.to # NoTime)
  <2>1. CASE b \in aliases /\ ~(b \in OpenAliases /\ b.item = x)
      BY <1>9, <2>1 DEF SurvivorsHold, OpenAliases
  <2>2. ASSUME NEW a \in OpenAliases, a.item = x, b = Closes(a)
        PROVE  b.provider # "discogs" /\ b.to # NoTime
      BY <1>0, <1>4, <2>2 DEF NoTime
  <2>3. ASSUME NEW a \in OpenAliases, a.item = x, b = Reopens(a, d)
        PROVE  FALSE
      BY <1>4, <1>5, <1>9, <2>3
  <2> QED
      BY <1>1, <2>1, <2>2, <2>3
<1>10. SurvivorsHold'
    BY <1>7, <1>8, <1>9 DEF SurvivorsHold
<1>11. \A b : b \in OpenAliases' <=> b \in aliases' /\ b.to = NoTime
    BY DEF OpenAliases
<1>12. ASSUME NEW b \in aliases', b.provider = "musicbrainz"
       PROVE  \E c \in OpenAliases' :
                /\ SameKey(b, c)
                /\ c.item = b.item \/ \E s \in merged' : s.superseded = b.item /\ s.survivor = c.item
  <2>1. CASE b \in aliases
    <3>1. PICK c \in OpenAliases :
              /\ SameKey(b, c)
              /\ c.item = b.item \/ \E s \in merged : s.superseded = b.item /\ s.survivor = c.item
        BY <1>12, <2>1 DEF RowsFollow
    <3>2. CASE c.item # x
      <4>1. c \in OpenAliases'
          BY <1>0, <1>2, <1>11, <3>2 DEF OpenAliases
      <4> QED
          BY <3>1, <4>1
    <3>3. CASE c.item = x
      <4>1. b.item = x
          BY <1>6, <3>1, <3>3
      <4>2. Reopens(c, d) \in OpenAliases' /\ SameKey(b, Reopens(c, d)) /\ Reopens(c, d).item = d
          BY <1>3, <1>4, <1>11, <3>1, <3>3 DEF SameKey
      <4> QED
          BY <4>1, <4>2
    <3> QED
        BY <3>2, <3>3
  <2>2. ASSUME NEW a \in OpenAliases, a.item = x, b = Closes(a) \/ b = Reopens(a, d)
        PROVE  \E c \in OpenAliases' :
                /\ SameKey(b, c)
                /\ c.item = b.item \/ \E s \in merged' : s.superseded = b.item /\ s.survivor = c.item
    <3>1. Reopens(a, d) \in OpenAliases' /\ SameKey(b, Reopens(a, d)) /\ Reopens(a, d).item = d
        BY <1>3, <1>4, <1>11, <2>2 DEF SameKey
    <3>2. b.item = x \/ b.item = d
        BY <1>4, <2>2
    <3> QED
        BY <3>1, <3>2
  <2> QED
      BY <1>1, <2>1, <2>2
<1>13. RowsFollow'
    BY <1>12 DEF RowsFollow
<1>14. ASSUME NEW b \in aliases'
       PROVE  \E a \in aliases : a.item = b.item /\ a.kind = b.kind
  <2>1. CASE b \in aliases
      BY <2>1
  <2>2. ASSUME NEW a \in OpenAliases, a.item = x, b = Closes(a) \/ b = Reopens(a, d)
        PROVE  \E c \in aliases : c.item = b.item /\ c.kind = b.kind
      BY <1>0, <1>4, <2>2
  <2> QED
      BY <1>1, <2>1, <2>2
<1>15. OneKind'
  <2>1. \A a, b \in aliases' : a.item = b.item => a.kind = b.kind
      BY <1>14 DEF OneKind
  <2>2. \A s \in merged' : \A a, b \in aliases : a.item = s.superseded /\ b.item = s.survivor => a.kind = b.kind
      BY DEF OneKind
  <2>3. \A s \in merged' : \A a, b \in aliases' : a.item = s.superseded /\ b.item = s.survivor => a.kind = b.kind
      BY <1>14, <2>2
  <2> QED
      BY <2>1, <2>3 DEF OneKind
<1> QED
    BY <1>10, <1>13, <1>15

(* The states, put together from the three things that decide them.        *)
LEMMA StatesAre ==
    ASSUME NEW A, NEW H, NEW M, NEW i, NEW t,
           \A p : (\E a \in A : a.item = i /\ a.kind = "release" /\ Valid(a, t) /\ a.provider = p)
                     <=> (\E h \in H : h.item = i /\ h.kind = "release" /\ h.provider = p),
           \A v : v # "agrees" => ((\E m \in RowsOf(A, "musicbrainz", i) : RowSays(A, m, t) = v)
                                     <=> (\E m \in RowsIn(H, M, i) : RowSaysIn(H, named, m) = v)),
           (\E a \in A : a.provider = "musicbrainz" /\ a.item \in Group(i) /\ Valid(a, t))
               <=> (\E h \in H : h.provider = "musicbrainz" /\ h.item \in GroupIn(M, i))
    PROVE  States(A, i, t, "release") = StatesIn(H, M, named, i)
<1> DEFINE hadA == {a.provider : a \in {b \in A : b.item = i /\ b.kind = "release" /\ Valid(b, t)}}
           saysA == {RowSays(A, m, t) : m \in RowsOf(A, "musicbrainz", i)} \ {"agrees"}
           onlyA == \E a \in A : a.provider = "musicbrainz" /\ a.item \in Group(i) /\ Valid(a, t)
           hadH == {h.provider : h \in {g \in H : g.item = i /\ g.kind = "release"}}
           saysH == {RowSaysIn(H, named, m) : m \in RowsIn(H, M, i)} \ {"agrees"}
           onlyH == \E h \in H : h.provider = "musicbrainz" /\ h.item \in GroupIn(M, i)
<1>1. States(A, i, t, "release") = Answer(hadA, saysA, onlyA)
    BY Zenon DEF States, Answer
<1>2. StatesIn(H, M, named, i) = Answer(hadH, saysH, onlyH)
    BY DEF StatesIn
<1>3. hadA = hadH
    OBVIOUS
<1>4. saysA = saysH
    OBVIOUS
<1>5. onlyA <=> onlyH
    OBVIOUS
<1> HIDE DEF hadA, saysA, onlyA, hadH, saysH, onlyH
<1> QED
    BY <1>1, <1>2, <1>3, <1>4, <1>5 DEF Answer

LEMMA RowSaysIs ==
    \A A, m, t : RowSays(A, m, t) =
        Verdict(named[<<"release", m>>], HoldersAt(A, "discogs", "release", named[<<"release", m>>], t),
                HoldersAt(A, "musicbrainz", "release", m, t))
    BY DEF RowSays, Verdict

(* What was held is what the valid rows say.                               *)
LEMMA HeldBy ==
    ASSUME NEW t
    PROVE  /\ \A a \in aliases : Valid(a, t) => Holds(a) \in HeldAt(t)
           /\ \A h \in HeldAt(t) : \E a \in aliases : Valid(a, t) /\ h = Holds(a)
           /\ \A a : Holds(a).provider = a.provider /\ Holds(a).kind = a.kind
                     /\ Holds(a).id = a.id /\ Holds(a).item = a.item
    BY DEF HeldAt, Holds

LEMMA HoldersSame ==
    ASSUME NEW t, NEW A, NEW pv, NEW id, A \subseteq aliases,
           \A a \in aliases : a.provider = pv /\ a.kind = "release" /\ a.id = id /\ Valid(a, t) => a \in A
    PROVE  HoldersAt(A, pv, "release", id, t) = HoldersIn(HeldAt(t), pv, id)
<1> DEFINE H == HeldAt(t)
<1>1. /\ \A a \in aliases : Valid(a, t) => Holds(a) \in H
      /\ \A h \in H : \E a \in aliases : Valid(a, t) /\ h = Holds(a)
      /\ \A a : Holds(a).provider = a.provider /\ Holds(a).kind = a.kind
                /\ Holds(a).id = a.id /\ Holds(a).item = a.item
    BY HeldBy
<1> HIDE DEF H
<1>2. HoldersAt(A, pv, "release", id, t) \subseteq HoldersIn(H, pv, id)
    BY <1>1 DEF HoldersAt, HoldersIn
<1>3. HoldersIn(H, pv, id) \subseteq HoldersAt(A, pv, "release", id, t)
    BY <1>1 DEF HoldersAt, HoldersIn
<1> QED
    BY <1>2, <1>3 DEF H

(* Now is the time of the last transaction.                                *)
LEMMA NowIs ==
    ASSUME AliasInv, SurvivorsHold, tx > 0
    PROVE  /\ \A a \in aliases : Valid(a, NoTime) <=> Valid(a, tx)
           /\ \A a \in aliases : Valid(a, tx) <=> a \in OpenAliases
           /\ MergedAt(tx) = merged
           /\ \A i : Group(i) = GroupIn(merged, i)
<1>1. tx \in Nat /\ tx # NoTime /\ aliases \subseteq AliasRows
    BY DEF AliasInv, NoTime
<1>2. \A a \in aliases : a.from <= tx /\ a.to <= tx /\ a.to \in Nat
    BY <1>1 DEF AliasInv, SurvivorsHold, AliasRows
<1>3. \A a \in aliases : Valid(a, tx) <=> a.to = NoTime
    BY <1>1, <1>2 DEF Valid
<1>4. MergedAt(tx) = merged
  <2>1. \A s \in merged : s.from <= tx
      BY DEF AliasInv
  <2> QED
      BY <2>1 DEF MergedAt
<1> QED
    BY <1>3, <1>4 DEF Valid, OpenAliases, Group, GroupIn

LEMMA StatesNow ==
    ASSUME AliasInv, SurvivorsHold, tx > 0, NEW i \in CurrentItems
    PROVE  States(aliases, i, NoTime, "release") = StatesIn(HeldAt(tx), merged, named, i)
<1> DEFINE H == HeldAt(tx)
<1>1. /\ \A a \in aliases : Valid(a, tx) => Holds(a) \in H
      /\ \A h \in H : \E a \in aliases : Valid(a, tx) /\ h = Holds(a)
      /\ \A a : Holds(a).provider = a.provider /\ Holds(a).kind = a.kind
                /\ Holds(a).id = a.id /\ Holds(a).item = a.item
    BY HeldBy
<1>2. \A pv, id : HoldersAt(aliases, pv, "release", id, tx) = HoldersIn(H, pv, id)
    BY HoldersSame
<1>3. \A a \in aliases : (Valid(a, NoTime) <=> Valid(a, tx)) /\ (Valid(a, tx) <=> a.to = NoTime)
    BY NowIs DEF OpenAliases
<1>4. \A pv, id : HoldersAt(aliases, pv, "release", id, NoTime) = HoldersAt(aliases, pv, "release", id, tx)
    BY <1>3 DEF HoldersAt
<1>5. \A k : k \in Group(i) <=> Survives(k) = i
    BY GroupsAreSurvivors DEF CurrentItems
<1>6. Group(i) = GroupIn(merged, i)
    BY NowIs
<1> HIDE DEF H
<1>7. \A p : (\E a \in aliases : a.item = i /\ a.kind = "release" /\ Valid(a, NoTime) /\ a.provider = p)
                <=> (\E h \in H : h.item = i /\ h.kind = "release" /\ h.provider = p)
    BY <1>1, <1>3
<1>8. RowsOf(aliases, "musicbrainz", i) = RowsIn(H, merged, i)
  <2>1. ASSUME NEW m \in RowsOf(aliases, "musicbrainz", i)
        PROVE  m \in RowsIn(H, merged, i)
    <3>1. PICK a \in aliases : /\ a.provider = "musicbrainz" /\ a.kind = "release" /\ a.to = NoTime
                               /\ Survives(a.item) = i /\ a.id = m
        BY DEF RowsOf
    <3>2. Holds(a) \in H /\ Holds(a).item \in GroupIn(merged, i)
        BY <1>1, <1>3, <1>5, <1>6, <3>1
    <3> QED
        BY <1>1, <3>1, <3>2 DEF RowsIn
  <2>2. ASSUME NEW m \in RowsIn(H, merged, i)
        PROVE  m \in RowsOf(aliases, "musicbrainz", i)
    <3>1. PICK h \in H : /\ h.provider = "musicbrainz" /\ h.kind = "release"
                         /\ h.item \in GroupIn(merged, i) /\ h.id = m
        BY DEF RowsIn
    <3>2. PICK a \in aliases : Valid(a, tx) /\ h = Holds(a)
        BY <1>1
    <3>3. Survives(a.item) = i
        BY <1>1, <1>5, <1>6, <3>1, <3>2
    <3> QED
        BY <1>1, <1>3, <3>1, <3>2, <3>3 DEF RowsOf
  <2> QED
      BY <2>1, <2>2
<1>9. \A m : RowSays(aliases, m, NoTime) = RowSaysIn(H, named, m)
    BY <1>2, <1>4, RowSaysIs DEF RowSaysIn
<1>10. (\E a \in aliases : a.provider = "musicbrainz" /\ a.item \in Group(i) /\ Valid(a, NoTime))
           <=> (\E h \in H : h.provider = "musicbrainz" /\ h.item \in GroupIn(merged, i))
    BY <1>1, <1>3, <1>6
<1>11. \A v : v # "agrees" => ((\E m \in RowsOf(aliases, "musicbrainz", i) : RowSays(aliases, m, NoTime) = v)
                                 <=> (\E m \in RowsIn(H, merged, i) : RowSaysIn(H, named, m) = v))
    BY <1>8, <1>9
<1>12. States(aliases, i, NoTime, "release") = StatesIn(H, merged, named, i)
    BY <1>7, <1>10, <1>11, StatesAre
<1> QED
    BY <1>12 DEF H

LEMMA SnapshotTells ==
    ASSUME AliasInv, SurvivorsHold, OneKind, tx > 0
    PROVE  TellsOf(Snapshot, tx)
<1> DEFINE told == [i \in CurrentItems |->
                      [states |-> States(aliases, i, NoTime, ItemKind(i)), group |-> Group(i)]]
<1>1. Snapshot.named = named /\ Snapshot.shown = told
    BY DEF Snapshot
<1>2. MergedAt(tx) = merged /\ \A i : Group(i) = GroupIn(merged, i)
    BY NowIs
<1>3. ASSUME NEW i \in CurrentItems, IsRelease(i)
      PROVE  ItemKind(i) = "release"
  <2>1. PICK a \in aliases : a.item = i /\ a.kind = "release"
      BY <1>3 DEF IsRelease
  <2>2. PICK b : b = CHOOSE u \in aliases : u.item = i
      OBVIOUS
  <2>3. b \in aliases /\ b.item = i
      BY <2>1, <2>2
  <2> QED
      BY <2>1, <2>2, <2>3 DEF ItemKind, OneKind
<1>4. \A i \in CurrentItems : /\ told[i].group = Group(i)
                              /\ told[i].states = States(aliases, i, NoTime, ItemKind(i))
    OBVIOUS
<1>5. DOMAIN told = CurrentItems /\ CurrentItems \subseteq Native
    BY DEF CurrentItems
<1> HIDE DEF told
<1>6. \A i \in CurrentItems : IsRelease(i) => told[i].states = StatesIn(HeldAt(tx), merged, named, i)
    BY <1>3, <1>4, StatesNow
<1> QED
    BY <1>1, <1>2, <1>4, <1>5, <1>6 DEF TellsOf

(* Of an earlier time, an opened row says nothing and a closed one the     *)
(* same.                                                                   *)
LEMMA OpeningStays ==
    ASSUME AliasInv, NEW n, n.from = tx + 1, aliases' = aliases \cup {n}, UNCHANGED merged,
           NEW t \in Nat \ {0}, t <= tx
    PROVE  HeldAt(t)' = HeldAt(t) /\ MergedAt(t)' = MergedAt(t)
<1>1. tx \in Nat
    BY DEF AliasInv
<1>2. ~Valid(n, t)
    BY <1>1 DEF Valid, NoTime
<1>3. {b \in aliases' : Valid(b, t)} = {b \in aliases : Valid(b, t)}
    BY <1>2
<1> QED
    BY <1>3 DEF HeldAt, MergedAt

LEMMA MovingStays ==
    ASSUME AliasInv, NEW x, NEW d \in Nat \ {0}, aliases' = MoveAliasesTo(x, d),
           merged \subseteq merged', \A s \in merged' : s \in merged \/ s.from = tx + 1,
           NEW t \in Nat \ {0}, t <= tx
    PROVE  HeldAt(t)' = HeldAt(t) /\ MergedAt(t)' = MergedAt(t)
<1>0. tx \in Nat /\ aliases \subseteq AliasRows /\ OpenAliases \subseteq aliases
    BY DEF AliasInv, OpenAliases
<1>1. ASSUME NEW a \in OpenAliases
      PROVE  /\ ~Valid(Reopens(a, d), t)
             /\ Valid(Closes(a), t) <=> Valid(a, t)
             /\ Holds(Closes(a)) = Holds(a)
  <2>1. /\ Closes(a).from = a.from /\ Closes(a).to = tx + 1 /\ a.to = NoTime /\ Reopens(a, d).from = tx + 1
        /\ Closes(a).provider = a.provider /\ Closes(a).kind = a.kind /\ Closes(a).id = a.id
        /\ Closes(a).item = a.item
      BY MovedRows DEF SameKey
  <2> QED
      BY <1>0, <2>1 DEF Valid, NoTime, Holds
<1>2. ASSUME NEW h \in HeldAt(t)
      PROVE  h \in HeldAt(t)'
  <2>1. PICK a \in aliases : Valid(a, t) /\ h = Holds(a)
      BY DEF HeldAt
  <2>2. CASE a \in OpenAliases /\ a.item = x
    <3>1. Closes(a) \in aliases' /\ Valid(Closes(a), t) /\ h = Holds(Closes(a))
        BY <1>1, <2>1, <2>2, MoveRows
    <3> QED
        BY <3>1 DEF HeldAt
  <2>3. CASE ~(a \in OpenAliases /\ a.item = x)
    <3>1. a \in aliases'
        BY <2>3, MoveRows
    <3> QED
        BY <2>1, <3>1 DEF HeldAt
  <2> QED
      BY <2>2, <2>3
<1>3. ASSUME NEW h \in HeldAt(t)'
      PROVE  h \in HeldAt(t)
  <2>1. PICK b \in aliases' : Valid(b, t) /\ h = Holds(b)
      BY <1>3 DEF HeldAt
  <2>2. CASE b \in aliases
      BY <2>1, <2>2 DEF HeldAt
  <2>3. ASSUME NEW a \in OpenAliases, b = Closes(a) \/ b = Reopens(a, d)
        PROVE  h \in HeldAt(t)
    <3>1. Valid(a, t) /\ h = Holds(a)
        BY <1>1, <2>1, <2>3
    <3> QED
        BY <1>0, <3>1 DEF HeldAt
  <2>4. b \in aliases \/ \E a \in OpenAliases : b = Closes(a) \/ b = Reopens(a, d)
      BY MoveRows
  <2> QED
      BY <2>2, <2>3, <2>4
<1>4. MergedAt(t)' = MergedAt(t)
  <2>1. \A s \in merged' : s.from <= t => s \in merged
      BY <1>0
  <2> QED
      BY <2>1 DEF MergedAt
<1> QED
    BY <1>2, <1>3, <1>4

(* What a writer leaves behind: the past as it was, and a snapshot.        *)
PastKept ==
    /\ \A t \in Nat \ {0} : t <= tx => HeldAt(t)' = HeldAt(t) /\ MergedAt(t)' = MergedAt(t)
    /\ Native \subseteq Native'
    /\ \A a \in aliases : \E b \in aliases' : b.item = a.item /\ b.kind = a.kind
    /\ tx' = tx + 1 /\ recorded' = Append(recorded, Snapshot)

LEMMA HistoryGrows ==
    ASSUME AliasInv, SurvivorsHold, OneKind, HistoryInv, OneKind', PastKept
    PROVE  HistoryInv'
<1>0. tx \in Nat /\ tx' = tx + 1
    BY DEF AliasInv, PastKept
<1>1. \A i \in Native : IsRelease(i)' => IsRelease(i)
  <2> SUFFICES ASSUME NEW i \in Native, IsRelease(i)' PROVE IsRelease(i)
      OBVIOUS
  <2>1. PICK a \in aliases : a.item = i
      BY DEF Native
  <2>2. PICK b \in aliases' : b.item = i /\ b.kind = a.kind
      BY <2>1 DEF PastKept
  <2>3. b.kind = "release"
      BY <2>2 DEF IsRelease, OneKind
  <2> QED
      BY <2>1, <2>2, <2>3 DEF IsRelease
<1>2. ASSUME NEW shot, NEW t \in Nat \ {0}, t <= tx, TellsOf(shot, t)
      PROVE  TellsOf(shot, t)'
  <2>1. HeldAt(t)' = HeldAt(t) /\ MergedAt(t)' = MergedAt(t) /\ Native \subseteq Native'
      BY <1>2 DEF PastKept
  <2> QED
      BY <1>1, <1>2, <2>1 DEF TellsOf
<1>3. PICK shot : shot = Snapshot
    OBVIOUS
<1>4. ASSUME NEW t \in Nat \ {0}, t = tx
      PROVE  TellsOf(shot, t)'
  <2>1. TellsOf(shot, t)
      BY <1>0, <1>3, <1>4, SnapshotTells
  <2> QED
      BY <1>0, <1>2, <1>4, <2>1
<1>5. /\ recorded' = [t \in 1..tx' |-> recorded'[t]]
      /\ recorded'[tx + 1] = shot
      /\ \A t \in 1..tx : recorded'[t] = recorded[t]
  <2>1. PICK S : S = {recorded[t] : t \in 1..tx} \cup {shot}
      OBVIOUS
  <2>2. recorded = [t \in 1..tx |-> recorded[t]]
      BY DEF HistoryInv
  <2>3. recorded \in [1..tx -> S]
      BY <2>1, <2>2
  <2>4. recorded \in Seq(S) /\ Len(recorded) = tx
      BY <1>0, <2>2, <2>3
  <2>5. recorded' = Append(recorded, shot) /\ shot \in S
      BY <1>3, <2>1 DEF PastKept
  <2>6. /\ recorded' \in Seq(S) /\ Len(recorded') = tx + 1 /\ recorded'[tx + 1] = shot
        /\ \A t \in 1..tx : recorded'[t] = recorded[t]
      BY <1>0, <2>4, <2>5
  <2>7. recorded' = [t \in 1..tx + 1 |-> recorded'[t]]
      BY <1>0, <2>6
  <2> QED
      BY <1>0, <2>6, <2>7
<1>6. PICK r : r = recorded'
    OBVIOUS
<1>7. ASSUME NEW t \in Nat \ {0}, t < tx'
      PROVE  TellsOf(r[t + 1], t)'
  <2>1. t + 1 \in 1..tx + 1
      BY <1>0, <1>7
  <2>2. CASE t = tx
    <3>1. r[t + 1] = shot
        BY <1>5, <1>6, <2>2
    <3>2. TellsOf(shot, t)'
        BY <1>0, <1>4, <2>2
    <3> QED
        BY <3>1, <3>2
  <2>3. CASE t < tx
    <3>1. PICK u : u = recorded[t + 1]
        OBVIOUS
    <3>2. t + 1 \in 1..tx
        BY <1>0, <2>3
    <3>3. r[t + 1] = u
        BY <1>5, <1>6, <3>1, <3>2
    <3>4. TellsOf(u, t)
        BY <2>3, <3>1 DEF HistoryInv
    <3>5. TellsOf(u, t)'
        BY <1>0, <1>2, <2>3, <3>4
    <3> QED
        BY <3>3, <3>5
  <2> QED
      BY <1>0, <1>7, <2>2, <2>3
<1>8. \A t \in Nat \ {0} : t < tx' => TellsOf(r[t + 1], t)'
    BY <1>7
<1> QED
    BY <1>5, <1>6, <1>8 DEF HistoryInv

(* A writer that opens one alias keeps the past.                           *)
LEMMA OpeningPast ==
    ASSUME AliasInv, PastInv,
           NEW n \in AliasRows, n.to = NoTime, n.from = tx + 1, n.item \in Native \cup {NextItem},
           aliases' = aliases \cup {n}, tx' = tx + 1, UNCHANGED merged,
           recorded' = Append(recorded, Snapshot),
           \A s \in merged : s.superseded = n.item => n.provider = "barcode",
           \A a \in aliases : a.item = n.item => a.kind = n.kind
    PROVE  PastInv'
<1>1. SurvivorsHold' /\ RowsFollow' /\ OneKind'
    BY OpeningKeeps DEF PastInv
<1>2. PastKept
  <2>1. \A t \in Nat \ {0} : t <= tx => HeldAt(t)' = HeldAt(t) /\ MergedAt(t)' = MergedAt(t)
      BY OpeningStays
  <2>2. Native \subseteq Native' /\ \A a \in aliases : \E b \in aliases' : b.item = a.item /\ b.kind = a.kind
      BY DEF Native
  <2> QED
      BY <2>1, <2>2 DEF PastKept
<1> QED
    BY <1>1, <1>2, HistoryGrows DEF PastInv

LEMMA MovingPast ==
    ASSUME AliasInv, PastInv, NEW x \in Native, NEW d \in Native, x # d,
           aliases' = MoveAliasesTo(x, d), tx' = tx + 1,
           recorded' = Append(recorded, Snapshot),
           \A a \in aliases : a.item = x => a.provider # "discogs",
           \E a \in aliases : a.item = d /\ a.provider = "discogs",
           \A a, b \in aliases : a.item = x /\ b.item = d => a.kind = b.kind,
           NEW s0 \in merged', s0.superseded = x, s0.survivor = d,
           merged \subseteq merged', \A s \in merged' : s \in merged \/ (s = s0 /\ s.from = tx + 1)
    PROVE  PastInv'
<1>1. SurvivorsHold' /\ RowsFollow' /\ OneKind'
    BY MovingKeeps DEF PastInv
<1>2. d \in Nat \ {0}
    BY DEF AliasInv
<1>3. PastKept
  <2>1. \A t \in Nat \ {0} : t <= tx => HeldAt(t)' = HeldAt(t) /\ MergedAt(t)' = MergedAt(t)
      BY <1>2, MovingStays
  <2>2. \A a \in aliases : \E b \in aliases' : b.item = a.item /\ b.kind = a.kind
    <3> SUFFICES ASSUME NEW a \in aliases PROVE \E b \in aliases' : b.item = a.item /\ b.kind = a.kind
        OBVIOUS
    <3>1. CASE a \in OpenAliases /\ a.item = x
      <4>1. Closes(a) \in aliases' /\ Closes(a).item = a.item /\ Closes(a).kind = a.kind
          BY <1>2, <3>1, MoveRows, MovedRows DEF SameKey
      <4> QED
          BY <4>1
    <3>2. CASE ~(a \in OpenAliases /\ a.item = x)
        BY <3>2, MoveRows
    <3> QED
        BY <3>1, <3>2
  <2>3. Native \subseteq Native'
      BY <2>2 DEF Native
  <2> QED
      BY <2>1, <2>2, <2>3 DEF PastKept
<1> QED
    BY <1>1, <1>3, HistoryGrows DEF PastInv

LEMMA LoadDiscogsPast ==
    ASSUME AliasInv, PastInv, NEW r \in DgKeys, LoadDiscogs(r[1], r[2])
    PROVE  PastInv'
<1>0. r[1] \in EntityKinds /\ r[2] \in DgIds
    BY DEF DgKeys
<1>1. PICK n : n = AliasOn("discogs", r[1], r[2], NextItem)
    OBVIOUS
<1>2. n \in AliasRows /\ n.item = NextItem /\ n.from = tx + 1 /\ n.to = NoTime
    BY <1>0, <1>1, AliasFields DEF Providers
<1>3. /\ aliases' = aliases \cup {n} /\ tx' = tx + 1 /\ UNCHANGED merged
      /\ recorded' = Append(recorded, Snapshot)
    BY <1>1 DEF LoadDiscogs, Write
<1>4. \A a \in aliases : a.item # n.item
    BY <1>2, NextItemIsNew DEF Native
<1>5. \A s \in merged : s.superseded # n.item
    BY <1>2, NextItemIsNew DEF AliasInv
<1> QED
    BY <1>2, <1>3, <1>4, <1>5, OpeningPast

LEMMA AttachBarcodePast ==
    ASSUME AliasInv, PastInv, NEW b \in Barcodes, NEW i \in Native, AttachBarcode(b, i)
    PROVE  PastInv'
<1>1. PICK n : n = AliasOn("barcode", "release", b, i)
    OBVIOUS
<1>2. /\ n \in AliasRows /\ n.item = i /\ n.from = tx + 1 /\ n.to = NoTime
      /\ n.provider = "barcode" /\ n.kind = "release"
    BY <1>1, AliasFields DEF Providers, EntityKinds
<1>3. /\ aliases' = aliases \cup {n} /\ tx' = tx + 1 /\ UNCHANGED merged
      /\ recorded' = Append(recorded, Snapshot) /\ ItemKind(i) = "release"
    BY <1>1 DEF AttachBarcode, Write
<1>4. \A a \in aliases : a.item = i => a.kind = "release"
  <2>1. PICK c : c = CHOOSE u \in aliases : u.item = i
      OBVIOUS
  <2>2. c \in aliases /\ c.item = i
      BY <2>1 DEF Native
  <2>3. c.kind = "release"
      BY <1>3, <2>1 DEF ItemKind
  <2> QED
      BY <2>2, <2>3 DEF PastInv, OneKind
<1> QED
    BY <1>2, <1>3, <1>4, OpeningPast

LEMMA SurvivorIs ==
    ASSUME AliasInv, NEW x, OpenMerge(x) # {}
    PROVE  \E s \in merged : s.superseded = x /\ s.survivor = Survives(x)
<1>1. PICK s : s = CHOOSE u \in OpenMerge(x) : TRUE
    OBVIOUS
<1>2. s \in OpenMerge(x) /\ Survives(x) = s.survivor
    BY <1>1 DEF Survives
<1> QED
    BY <1>2 DEF OpenMerge

LEMMA ReattachRowPast ==
    ASSUME AliasInv, PastInv, NEW r \in MbKeys, ReattachRow(r)
    PROVE  PastInv'
<1>1. PICK d, x : d = HolderNow("discogs", r[1], named[r]) /\ x = HolderNow("musicbrainz", r[1], r[2])
    OBVIOUS
<1>2. d # NoId /\ x # NoId /\ x # d /\ d \in Native /\ x \in Native
    BY <1>1, HolderFacts DEF ReattachRow
<1>3. PICK s0 : s0 = [superseded |-> x, survivor |-> d, from |-> tx + 1]
    OBVIOUS
<1>4. /\ aliases' = MoveAliasesTo(x, d) /\ tx' = tx + 1 /\ merged' = merged \cup {s0}
      /\ recorded' = Append(recorded, Snapshot)
      /\ \A a \in OpenAliases : a.item = x => a.provider \in {"barcode", "musicbrainz"}
    BY <1>1, <1>3 DEF ReattachRow, Write
<1>5. s0.from = tx + 1 /\ s0.superseded = x /\ s0.survivor = d
    BY <1>3
<1>6. PICK a \in OpenAliases : a.provider = "musicbrainz" /\ a.kind = r[1] /\ a.item = x
    BY <1>1, <1>2, HolderFacts
<1>7. PICK b \in OpenAliases : b.provider = "discogs" /\ b.kind = r[1] /\ b.item = d
    BY <1>1, <1>2, HolderFacts
<1>8. OpenAliases \subseteq aliases /\ \A c \in aliases : c.provider = "discogs" => c \in OpenAliases
    BY DEF OpenAliases, PastInv, SurvivorsHold
<1>9. \A c \in aliases : c.item = x => c.provider # "discogs"
    BY <1>4, <1>8
<1>10. \E c \in aliases : c.item = d /\ c.provider = "discogs"
    BY <1>7, <1>8
<1>11. \A c, e \in aliases : c.item = x /\ e.item = d => c.kind = e.kind
    BY <1>6, <1>7, <1>8 DEF PastInv, OneKind
<1> QED
    BY <1>2, <1>4, <1>5, <1>9, <1>10, <1>11, MovingPast

LEMMA ReattachAgainPast ==
    ASSUME AliasInv, PastInv, NEW x \in Native, ReattachAgain(x)
    PROVE  PastInv'
<1>1. PICK s \in merged : s.superseded = x /\ s.survivor = Survives(x)
    BY SurvivorIs DEF ReattachAgain
<1>2. PICK d : d = Survives(x)
    OBVIOUS
<1>3. /\ aliases' = MoveAliasesTo(x, d) /\ tx' = tx + 1 /\ UNCHANGED merged
      /\ recorded' = Append(recorded, Snapshot)
    BY <1>2 DEF ReattachAgain, Write
<1>4. d \in Native /\ s \in merged'
    BY <1>1, <1>2, <1>3 DEF AliasInv
<1>5. /\ \A a \in aliases : a.item = x => a.provider # "discogs"
      /\ \E a \in aliases : a.item = d /\ a.provider = "discogs"
    BY <1>1, <1>2 DEF PastInv, SurvivorsHold
<1>6. x # d
    BY <1>5
<1>7. \A a, b \in aliases : a.item = x /\ b.item = d => a.kind = b.kind
    BY <1>1, <1>2 DEF PastInv, OneKind
<1> QED
    BY <1>1, <1>2, <1>3, <1>4, <1>5, <1>6, <1>7, MovingPast

LEMMA LoadMusicBrainzPast ==
    ASSUME AliasInv, PastInv, NEW r \in MbKeys, NEW d, LoadMusicBrainz(r, d)
    PROVE  PastInv'
<1> DEFINE own == HolderNow("musicbrainz", r[1], r[2])
           dg == IF d = NoId THEN NoId ELSE HolderNow("discogs", r[1], d)
           item == IF own # NoId THEN own ELSE IF dg # NoId THEN dg ELSE NextItem
<1>0. r[1] \in EntityKinds /\ r[2] \in MbIds
    BY DEF MbKeys
<1>1. /\ tx' = tx + 1 /\ UNCHANGED merged /\ recorded' = Append(recorded, Snapshot)
      /\ aliases' = IF own # NoId THEN aliases ELSE aliases \cup {AliasOn("musicbrainz", r[1], r[2], item)}
    BY DEF LoadMusicBrainz, Write
<1>2. CASE own # NoId
  <2>1. aliases' = aliases
      BY <1>1, <1>2
  <2>2. OpenAliases' = OpenAliases
      BY <2>1 DEF OpenAliases
  <2>3. tx \in Nat /\ \A a \in aliases : a.to \in Nat
      BY DEF AliasInv, AliasRows
  <2>4. SurvivorsHold'
    <3>1. \A a \in aliases : a.to <= tx'
        BY <1>1, <2>3 DEF PastInv, SurvivorsHold
    <3> QED
        BY <1>1, <2>1, <3>1 DEF PastInv, SurvivorsHold
  <2>5. RowsFollow' /\ OneKind'
      BY <1>1, <2>1, <2>2 DEF PastInv, RowsFollow, OneKind
  <2>6. PastKept
      BY <1>1, <2>1 DEF PastKept, HeldAt, MergedAt, Native
  <2> QED
      BY <2>4, <2>5, <2>6, HistoryGrows DEF PastInv
<1>3. CASE own = NoId
  <2>1. PICK i, n : i = item /\ n = AliasOn("musicbrainz", r[1], r[2], i)
      OBVIOUS
  <2>2. i = IF dg # NoId THEN dg ELSE NextItem
      BY <1>3, <2>1
  <2>3. dg # NoId => \E b \in OpenAliases : b.provider = "discogs" /\ b.kind = r[1] /\ b.item = dg
      BY HolderFacts
  <2>4. i \in Native \cup {NextItem}
      BY <2>2, <2>3 DEF Native, OpenAliases
  <2>5. n \in AliasRows /\ n.item = i /\ n.from = tx + 1 /\ n.to = NoTime /\ n.kind = r[1]
      BY <1>0, <2>1, <2>4, AliasFields DEF Providers
  <2>6. aliases' = aliases \cup {n}
      BY <1>1, <1>3, <2>1
  <2>7. (\A s \in merged : s.superseded # i) /\ \A a \in aliases : a.item = i => a.kind = r[1]
    <3>1. CASE dg # NoId
      <4>1. PICK b \in aliases : b.provider = "discogs" /\ b.kind = r[1] /\ b.item = i
          BY <2>2, <2>3, <3>1 DEF OpenAliases
      <4> QED
          BY <4>1 DEF PastInv, SurvivorsHold, OneKind
    <3>2. CASE dg = NoId
      <4>1. i \notin Native
          BY <2>2, <3>2, NextItemIsNew
      <4> QED
          BY <4>1 DEF AliasInv, Native
    <3> QED
        BY <3>1, <3>2
  <2> QED
      BY <1>1, <2>4, <2>5, <2>6, <2>7, OpeningPast
<1> QED
    BY <1>2, <1>3

LEMMA PastInitInv == IdentityInit => PastInv
<1> SUFFICES ASSUME IdentityInit PROVE PastInv
    OBVIOUS
<1>1. aliases = {} /\ merged = {} /\ tx = 0 /\ recorded = <<>>
    BY DEF IdentityInit
<1>2. 1..0 = {} /\ <<>> = [t \in 1..0 |-> recorded[t]]
    OBVIOUS
<1>3. HistoryInv
    BY <1>1, <1>2 DEF HistoryInv
<1> QED
    BY <1>1, <1>3 DEF PastInv, SurvivorsHold, RowsFollow, OneKind

(* An edition on a page is current, and all of its aliases are a release's. *)
LEMMA EditionIs ==
    ASSUME AliasInv, SurvivorsHold, OneKind, NEW w, NEW t, NEW e \in ShownEditions(w, t)
    PROVE  OpenMerge(e) = {} /\ \A c \in aliases : c.item \in Group(e) => c.kind = "release"
<1>1. PICK a \in OpenAliases : a.kind = "release" /\ Survives(a.item) = e
    BY DEF ShownEditions, EditionsOf
<1>2. a \in aliases
    BY DEF OpenAliases
<1>3. OpenMerge(e) = {} /\ \E b \in aliases : b.item = e /\ b.kind = "release"
  <2>1. CASE OpenMerge(a.item) = {}
      BY <1>1, <1>2, <2>1 DEF Survives
  <2>2. CASE OpenMerge(a.item) # {}
    <3>1. PICK s \in merged : s.superseded = a.item /\ s.survivor = e
        BY <1>1, <2>2, SurvivorIs
    <3>2. PICK b \in aliases : b.provider = "discogs" /\ b.item = e
        BY <3>1 DEF SurvivorsHold
    <3>3. OpenMerge(e) = {}
        BY <3>2 DEF SurvivorsHold, OpenMerge
    <3> QED
        BY <1>1, <1>2, <3>1, <3>2, <3>3 DEF OneKind
  <2> QED
      BY <2>1, <2>2
<1>4. PICK b \in aliases : b.item = e /\ b.kind = "release"
    BY <1>3
<1>5. ASSUME NEW c \in aliases, c.item \in Group(e)
      PROVE  c.kind = "release"
  <2>1. c.item = e \/ \E s \in merged : s.superseded = c.item /\ s.survivor = e
      BY <1>5 DEF Group
  <2> QED
      BY <1>4, <2>1 DEF OneKind
<1> QED
    BY <1>3, <1>5

(* Where a row of the edition was held before is still in its group, and   *)
(* the other way round: a row its group held is still the edition's.       *)
LEMMA RowStays ==
    ASSUME AliasInv, SurvivorsHold, RowsFollow, NEW e, OpenMerge(e) = {},
           NEW b \in OpenAliases, b.provider = "musicbrainz", Survives(b.item) = e,
           NEW a \in aliases, SameKey(a, b)
    PROVE  a.item \in Group(e)
<1>1. a.provider = "musicbrainz"
    BY DEF SameKey
<1>2. PICK c \in OpenAliases :
          /\ SameKey(a, c)
          /\ c.item = a.item \/ \E s \in merged : s.superseded = a.item /\ s.survivor = c.item
    BY <1>1 DEF RowsFollow
<1>3. c = b
    BY <1>2 DEF AliasInv, SameKey
<1>4. CASE b.item = a.item
    BY <1>4, GroupsAreSurvivors
<1>5. ASSUME NEW s \in merged, s.superseded = a.item, s.survivor = b.item
      PROVE  a.item \in Group(e)
  <2>1. OpenMerge(b.item) = {}
      BY <1>5 DEF SurvivorsHold, OpenMerge
  <2>2. b.item = e
      BY <2>1 DEF Survives
  <2> QED
      BY <1>5, <2>2 DEF Group
<1> QED
    BY <1>2, <1>3, <1>4, <1>5

LEMMA RowThen ==
    ASSUME AliasInv, SurvivorsHold, RowsFollow, OneKind, NEW w, NEW t, NEW e \in ShownEditions(w, t),
           NEW a \in aliases, a.provider = "musicbrainz", a.item \in Group(e)
    PROVE  a.id \in RowsOf(Fetched(w, t), "musicbrainz", e)
<1>1. OpenMerge(e) = {} /\ a.kind = "release"
    BY EditionIs
<1>2. PICK c \in OpenAliases :
          /\ SameKey(a, c)
          /\ c.item = a.item \/ \E s \in merged : s.superseded = a.item /\ s.survivor = c.item
    BY DEF RowsFollow
<1>3. c.item \in Group(e)
  <2>1. ASSUME NEW s \in merged, s.superseded = a.item, s.survivor = c.item
        PROVE  c.item \in Group(e)
    <3>1. PICK u \in merged : u.superseded = a.item /\ u.survivor = e
        BY <1>1, <2>1 DEF Group, OpenMerge
    <3>2. u = s
        BY <2>1, <3>1 DEF AliasInv
    <3> QED
        BY <2>1, <3>1, <3>2 DEF Group
  <2> QED
      BY <1>2, <2>1
<1>4. Survives(c.item) = e
    BY <1>1, <1>3, GroupsAreSurvivors
<1>5. c \in aliases /\ c.to = NoTime
    BY DEF OpenAliases
<1>6. c \in Fetched(w, t)
    BY <1>3, <1>5, FetchedHasGroup
<1> QED
    BY <1>1, <1>2, <1>4, <1>5, <1>6 DEF RowsOf, SameKey

(* A page fetches the holders of the Discogs releases its rows name.       *)
LEMMA FetchedHasHolders ==
    ASSUME NEW w, NEW t, NEW e \in ShownEditions(w, t),
           NEW b \in OpenAliases, b.kind = "release", b.provider = "musicbrainz", b.item \in Group(e),
           NEW a \in aliases, a.item = HolderNow("discogs", "release", named[<<"release", b.id>>])
    PROVE  a \in Fetched(w, t)
<1> DEFINE items == UNION {Group(i) : i \in {w} \cup ShownEditions(w, t)}
           rowIds == {c.id : c \in {f \in OpenAliases : f.item \in items /\ f.kind = "release"
                                                           /\ f.provider = "musicbrainz"}}
           holders == {HolderNow("discogs", "release", named[<<"release", m>>]) : m \in rowIds}
<1>1. Fetched(w, t) = {c \in aliases : c.item \in items \cup holders}
    BY DEF Fetched
<1>2. b.item \in items
    OBVIOUS
<1>3. b.id \in rowIds
    BY <1>2
<1> HIDE DEF items, rowIds
<1>4. a.item \in holders
    BY <1>3
<1> HIDE DEF holders
<1> QED
    BY <1>1, <1>4

LEMMA RowSaysThen ==
    ASSUME AliasInv, SurvivorsHold, RowsFollow, OneKind, NEW w, NEW t \in Nat \ {0}, NEW e \in ShownEditions(w, t),
           NEW m \in RowsOf(Fetched(w, t), "musicbrainz", e)
    PROVE  RowSays(Fetched(w, t), m, t) = RowSaysIn(HeldAt(t), named, m)
<1> DEFINE A == Fetched(w, t)
           d == named[<<"release", m>>]
<1>0. A \subseteq aliases
    BY FetchedAreAliases
<1>1. PICK b \in A : /\ b.provider = "musicbrainz" /\ b.kind = "release" /\ b.to = NoTime
                     /\ Survives(b.item) = e /\ b.id = m
    BY DEF RowsOf
<1>2. b \in OpenAliases /\ OpenMerge(e) = {}
    BY <1>0, <1>1, EditionIs DEF OpenAliases
<1>3. b.item \in Group(e)
    BY <1>1, <1>2, GroupsAreSurvivors
<1>4. ASSUME NEW a \in aliases, a.provider = "discogs", a.kind = "release", a.id = d
      PROVE  a \in A
  <2>1. a \in OpenAliases
      BY <1>4 DEF SurvivorsHold, OpenAliases
  <2>2. a.item = HolderNow("discogs", "release", d)
      BY <1>4, <2>1, HolderFacts
  <2> QED
      BY <1>1, <1>2, <1>3, <2>2, FetchedHasHolders
<1>5. ASSUME NEW a \in aliases, a.provider = "musicbrainz", a.kind = "release", a.id = m
      PROVE  a \in A
  <2>1. a.item \in Group(e)
      BY <1>1, <1>2, <1>5, RowStays DEF SameKey
  <2> QED
      BY <2>1, FetchedHasGroup
<1> HIDE DEF A, d
<1>6. HoldersAt(A, "discogs", "release", d, t) = HoldersIn(HeldAt(t), "discogs", d)
    BY <1>0, <1>4, HoldersSame
<1>7. HoldersAt(A, "musicbrainz", "release", m, t) = HoldersIn(HeldAt(t), "musicbrainz", m)
    BY <1>0, <1>5, HoldersSame
<1> QED
    BY <1>6, <1>7, RowSaysIs DEF RowSaysIn, A, d

(* The states of an edition at an earlier time, read from the rows of      *)
(* today: those of what was held then, if its group is the same.           *)
LEMMA StatesThen ==
    ASSUME AliasInv, SurvivorsHold, RowsFollow, OneKind, NEW w, NEW t \in Nat \ {0},
           NEW e \in ShownEditions(w, t), GroupIn(MergedAt(t), e) = Group(e)
    PROVE  States(Fetched(w, t), e, t, "release") = StatesIn(HeldAt(t), MergedAt(t), named, e)
<1> DEFINE A == Fetched(w, t)
           H == HeldAt(t)
           M == MergedAt(t)
<1>1. A \subseteq aliases /\ (\A a \in aliases : a.item \in Group(e) => a \in A)
    BY FetchedAreAliases, FetchedHasGroup
<1>2. /\ \A a \in aliases : Valid(a, t) => Holds(a) \in H
      /\ \A h \in H : \E a \in aliases : Valid(a, t) /\ h = Holds(a)
      /\ \A a : Holds(a).provider = a.provider /\ Holds(a).kind = a.kind
                /\ Holds(a).id = a.id /\ Holds(a).item = a.item
    BY HeldBy
<1>3. e \in Group(e) /\ OpenMerge(e) = {}
    BY EditionIs DEF Group
<1>4. \A m \in RowsOf(A, "musicbrainz", e) : RowSays(A, m, t) = RowSaysIn(H, named, m)
    BY RowSaysThen
<1>5. \A m \in RowsIn(H, M, e) : m \in RowsOf(A, "musicbrainz", e)
  <2> SUFFICES ASSUME NEW m \in RowsIn(H, M, e) PROVE m \in RowsOf(A, "musicbrainz", e)
      OBVIOUS
  <2>1. PICK h \in H : h.provider = "musicbrainz" /\ h.item \in Group(e) /\ h.id = m
      BY DEF RowsIn
  <2>2. PICK a \in aliases : h = Holds(a)
      BY <1>2
  <2>3. a.provider = "musicbrainz" /\ a.item \in Group(e) /\ a.id = m
      BY <1>2, <2>1, <2>2
  <2> QED
      BY <2>3, RowThen
<1>6. \A m \in RowsOf(A, "musicbrainz", e) : RowSaysIn(H, named, m) # "agrees" => m \in RowsIn(H, M, e)
  <2> SUFFICES ASSUME NEW m \in RowsOf(A, "musicbrainz", e), RowSaysIn(H, named, m) # "agrees"
               PROVE  m \in RowsIn(H, M, e)
      OBVIOUS
  <2>1. PICK b \in A : /\ b.provider = "musicbrainz" /\ b.kind = "release" /\ b.to = NoTime
                       /\ Survives(b.item) = e /\ b.id = m
      BY DEF RowsOf
  <2>2. HoldersIn(H, "musicbrainz", m) # {}
      BY DEF RowSaysIn, Verdict
  <2>3. PICK h \in H : h.provider = "musicbrainz" /\ h.kind = "release" /\ h.id = m
      BY <2>2 DEF HoldersIn
  <2>4. PICK a \in aliases : h = Holds(a)
      BY <1>2
  <2>5. a.provider = "musicbrainz" /\ a.kind = "release" /\ a.id = m /\ a.item = h.item
      BY <1>2, <2>3, <2>4
  <2>6. b \in OpenAliases /\ SameKey(a, b)
      BY <1>1, <2>1, <2>5 DEF OpenAliases, SameKey
  <2>7. h.item \in Group(e)
      BY <1>3, <2>1, <2>5, <2>6, RowStays
  <2> QED
      BY <2>3, <2>7 DEF RowsIn
<1> HIDE DEF A, H, M
<1>7. \A v : v # "agrees" => ((\E m \in RowsOf(A, "musicbrainz", e) : RowSays(A, m, t) = v)
                                <=> (\E m \in RowsIn(H, M, e) : RowSaysIn(H, named, m) = v))
    BY <1>4, <1>5, <1>6
<1>8. \A p : (\E a \in A : a.item = e /\ a.kind = "release" /\ Valid(a, t) /\ a.provider = p)
                <=> (\E h \in H : h.item = e /\ h.kind = "release" /\ h.provider = p)
    BY <1>1, <1>2, <1>3
<1>9. (\E a \in A : a.provider = "musicbrainz" /\ a.item \in Group(e) /\ Valid(a, t))
          <=> (\E h \in H : h.provider = "musicbrainz" /\ h.item \in GroupIn(M, e))
    BY <1>1, <1>2 DEF M
<1>10. States(A, e, t, "release") = StatesIn(H, M, named, e)
    BY <1>7, <1>8, <1>9, StatesAre
<1> QED
    BY <1>10 DEF A, H, M

(* A split that a re-attachment ended is still told of the time before it. *)
LEMMA SplitStays ==
    ASSUME AliasInv, SurvivorsHold, RowsFollow, OneKind, NEW w, NEW t \in Nat \ {0},
           NEW e \in ShownEditions(w, t), NEW x \in Group(e) \ {e},
           "split" \in StatesIn(HeldAt(t), MergedAt(t), named, x)
    PROVE  States(Fetched(w, t), e, t, "release") \cap {"split", "linked"} # {}
<1> DEFINE A == Fetched(w, t)
           had == {a.provider : a \in {b \in A : b.item = e /\ b.kind = "release" /\ Valid(b, t)}}
           says == {RowSays(A, m, t) : m \in RowsOf(A, "musicbrainz", e)} \ {"agrees"}
           only == \E a \in A : a.provider = "musicbrainz" /\ a.item \in Group(e) /\ Valid(a, t)
<1>1. PICK s \in merged : s.superseded = x
    BY DEF Group
<1>2. \A u \in merged : u.survivor # x
    BY <1>1 DEF SurvivorsHold
<1>3. PICK m \in RowsIn(HeldAt(t), MergedAt(t), x) : RowSaysIn(HeldAt(t), named, m) = "split"
    BY DEF StatesIn, Answer
<1>4. PICK h \in HeldAt(t) : h.provider = "musicbrainz" /\ h.item \in GroupIn(MergedAt(t), x) /\ h.id = m
    BY DEF RowsIn
<1>5. h.item = x
    BY <1>2, <1>4 DEF GroupIn, MergedAt
<1>6. PICK a \in aliases : a.provider = "musicbrainz" /\ a.item = x /\ a.id = m
    BY <1>4, <1>5, HeldBy
<1>7. m \in RowsOf(A, "musicbrainz", e)
    BY <1>6, RowThen
<1>8. RowSays(A, m, t) = "split"
    BY <1>3, <1>7, RowSaysThen
<1>9. "split" \in says
    BY <1>7, <1>8
<1>10. States(A, e, t, "release") = Answer(had, says, only)
    BY Zenon DEF States, Answer
<1> HIDE DEF A, had, says, only
<1>11. States(A, e, t, "release") \cap {"split", "linked"} # {}
    BY <1>9, <1>10 DEF Answer
<1> QED
    BY <1>11 DEF A

LEMMA ReadsBack == AliasInv /\ PastInv => StatesReadBack
<1> SUFFICES ASSUME AliasInv, PastInv, NEW w \in Works, NEW t \in 1..(tx - 1),
                    recorded[t + 1].named = named, NEW e \in ShownEditions(w, t)
             PROVE  /\ (e \in DOMAIN recorded[t + 1].shown /\ recorded[t + 1].shown[e].group = Group(e))
                         => States(Fetched(w, t), e, t, "release") = recorded[t + 1].shown[e].states
                    /\ \A x \in Group(e) \ {e} :
                         (x \in DOMAIN recorded[t + 1].shown /\ "split" \in recorded[t + 1].shown[x].states)
                            => States(Fetched(w, t), e, t, "release") \cap {"split", "linked"} # {}
    BY Zenon DEF StatesReadBack
<1>0. t \in Nat \ {0} /\ t < tx
    BY DEF AliasInv
<1>1. AliasInv /\ SurvivorsHold /\ RowsFollow /\ OneKind
    BY DEF PastInv
<1>2. PICK shot : shot = recorded[t + 1]
    OBVIOUS
<1>3. TellsOf(shot, t) /\ shot.named = named
    BY <1>0, <1>2 DEF PastInv, HistoryInv
<1>4. \A i \in Native : i \in Group(e) => IsRelease(i)
    BY <1>1, EditionIs DEF IsRelease, Native
<1>5. ASSUME NEW i \in DOMAIN shot.shown, i \in Group(e)
      PROVE  /\ shot.shown[i].group = GroupIn(MergedAt(t), i)
             /\ shot.shown[i].states = StatesIn(HeldAt(t), MergedAt(t), named, i)
    BY <1>3, <1>4, <1>5 DEF TellsOf
<1>6. ASSUME e \in DOMAIN shot.shown, shot.shown[e].group = Group(e)
      PROVE  States(Fetched(w, t), e, t, "release") = shot.shown[e].states
  <2>1. e \in Group(e)
      BY DEF Group
  <2> QED
      BY <1>0, <1>1, <1>5, <1>6, <2>1, StatesThen
<1>7. ASSUME NEW x \in Group(e) \ {e}, x \in DOMAIN shot.shown, "split" \in shot.shown[x].states
      PROVE  States(Fetched(w, t), e, t, "release") \cap {"split", "linked"} # {}
    BY <1>0, <1>1, <1>5, <1>7, SplitStays
<1> QED
    BY <1>2, <1>6, <1>7

-----------------------------------------------------------------------------
(* IdentityReads: the projection meets the Discogs loads alone.            *)

LEMMA GreatestNumber ==
    ASSUME NEW S \in SUBSET Nat, IsFiniteSet(S), S # {}
    PROVE  \E x \in S : \A y \in S : y <= x
<1> DEFINE Above(x) == {y \in S : y > x}
           counts == {Cardinality(Above(x)) : x \in S}
<1>1. ASSUME NEW x \in S
      PROVE  IsFiniteSet(Above(x)) /\ Cardinality(Above(x)) \in Nat
  <2>1. Above(x) \in SUBSET S
      OBVIOUS
  <2> HIDE DEF Above
  <2>2. IsFiniteSet(Above(x))
      BY <2>1, FS_Subset
  <2> QED
      BY <2>2, FS_CardinalityType
<1>2. \E c \in counts : \A d \in counts : c <= d
  <2>1. counts \in SUBSET Nat /\ counts # {}
      BY <1>1
  <2> HIDE DEF counts
  <2> QED
      BY <2>1, LeastNumber
<1>3. PICK x \in S : \A z \in S : Cardinality(Above(x)) <= Cardinality(Above(z))
    BY <1>2
<1>4. ASSUME NEW z \in S, z > x
      PROVE  FALSE
  <2>1. Above(z) \in SUBSET Above(x) /\ z \in Above(x) /\ z \notin Above(z)
    <3>1. \A y \in S : y \in Nat
        OBVIOUS
    <3>2. \A y \in S : y > z => y > x
        BY <1>4, <3>1
    <3>3. ~(z > z)
        BY <3>1
    <3> QED
        BY <1>4, <3>2, <3>3
  <2>2. PICK B, C : B = Above(x) /\ C = Above(z)
      OBVIOUS
  <2>3. C \in SUBSET B /\ B # C
      BY <2>1, <2>2
  <2>4. IsFiniteSet(B) /\ Cardinality(B) \in Nat /\ Cardinality(C) \in Nat
      BY <1>1, <2>2
  <2>5. Cardinality(B) <= Cardinality(C)
      BY <1>3, <2>2
  <2> HIDE DEF Above
  <2>6. Cardinality(C) <= Cardinality(B) /\ (Cardinality(B) = Cardinality(C) => B = C)
      BY <2>3, <2>4, FS_Subset
  <2> QED
      BY <2>3, <2>4, <2>5, <2>6
<1>5. \A y \in S : y \in Nat /\ x \in Nat
    OBVIOUS
<1> QED
    BY <1>4, <1>5

Holder(k) == HolderNow("discogs", k[1], k[2])

ProjectionRows ==
    [pc : {"idle", "page", "write", "done"}, kind : EntityKinds \cup {"artist"}, cursor : Nat,
     page : SUBSET (DgIds \X Nat), due : SUBSET DgKeys]

(* The kinds and the ids the projection has been through.                  *)
Passed(p, k) ==
    \/ p.pc = "done"
    \/ p.kind = "release" /\ k[1] = "master"
    \/ k[1] = p.kind /\ k[2] <= p.cursor

(* The page to write: the next due ids without a gap, with their holders.  *)
PageIsNext(p) ==
    /\ p.page # {} /\ IsFiniteSet({q[1] : q \in p.page})
    /\ \A q \in p.page : q[2] = HolderNow("discogs", p.kind, q[1]) /\ q[2] # NoId
    /\ \A k \in p.due : k[1] = p.kind /\ k[2] > p.cursor /\ (\E q \in p.page : k[2] <= q[1])
                          => \E q \in p.page : q[1] = k[2]

ProjectionInv ==
    /\ \A a \in aliases : a.id \in DgIds
    /\ projection \in ProjectionRows
    /\ projection.pc # "idle" => projection.kind \in EntityKinds
    /\ DOMAIN graph = DgKeys
    /\ \A k \in projection.due :
          /\ graph[k] # Absent /\ Holder(k) # NoId
          /\ Passed(projection, k) => graph[k] = Holder(k)
    /\ projection.pc = "write" => PageIsNext(projection)

LEMMA HolderStays ==
    ASSUME AliasInv, NEW n, NEW kind, NEW d, n.provider = "discogs", n.kind = kind, n.id = d,
           HolderNow("discogs", kind, d) = NoId, aliases' = aliases \cup {n},
           NEW e, NEW i, HolderNow("discogs", e, i) # NoId
    PROVE  HolderNow("discogs", e, i)' = HolderNow("discogs", e, i)
<1> DEFINE held == {a \in OpenAliases : a.provider = "discogs" /\ a.kind = e /\ a.id = i}
<1>1. HolderNow("discogs", e, i) = IF held = {} THEN NoId ELSE (CHOOSE a \in held : TRUE).item
    BY DEF HolderNow
<1>2. HolderNow("discogs", e, i)' = IF held' = {} THEN NoId ELSE (CHOOSE a \in held' : TRUE).item
    BY DEF HolderNow
<1>3. held' = held
    BY DEF OpenAliases
<1> QED
    BY <1>1, <1>2, <1>3, Zenon

LEMMA ProjectionInitInv == IdentityInit => ProjectionInv
<1> SUFFICES ASSUME IdentityInit PROVE ProjectionInv
    OBVIOUS
<1>1. /\ aliases = {} /\ DOMAIN graph = DgKeys
      /\ projection = [pc |-> "idle", kind |-> "artist", cursor |-> 0, page |-> {}, due |-> {}]
    BY DEF IdentityInit, NoProjection
<1> QED
    BY <1>1 DEF ProjectionInv, ProjectionRows

LEMMA ProjectionLoads ==
    ASSUME AliasInv, ProjectionInv, NEW r \in DgKeys, LoadDiscogs(r[1], r[2])
    PROVE  ProjectionInv'
<1>0. r[1] \in EntityKinds /\ r[2] \in DgIds
    BY DEF DgKeys
<1>1. PICK n : n = AliasOn("discogs", r[1], r[2], NextItem)
    OBVIOUS
<1>2. n.provider = "discogs" /\ n.kind = r[1] /\ n.id = r[2]
    BY <1>1 DEF AliasOn
<1>3. /\ aliases' = aliases \cup {n} /\ UNCHANGED <<graph, projection>>
      /\ HolderNow("discogs", r[1], r[2]) = NoId
    BY <1>1 DEF LoadDiscogs, Write
<1>4. \A e, i : HolderNow("discogs", e, i) # NoId => HolderNow("discogs", e, i)' = HolderNow("discogs", e, i)
    BY <1>2, <1>3, HolderStays
<1>5. \A a \in aliases' : a.id \in DgIds
    BY <1>0, <1>2, <1>3 DEF ProjectionInv
<1>6. \A k \in projection.due : Holder(k)' = Holder(k)
    BY <1>4 DEF ProjectionInv, Holder
<1>7. \A k \in projection'.due :
          /\ graph'[k] # Absent /\ Holder(k)' # NoId
          /\ Passed(projection', k) => graph'[k] = Holder(k)'
    BY <1>3, <1>6 DEF ProjectionInv
<1>8. projection.pc = "write" => PageIsNext(projection)'
  <2> SUFFICES ASSUME PageIsNext(projection) PROVE PageIsNext(projection)'
      BY DEF ProjectionInv
  <2>1. PICK p : p = projection
      OBVIOUS
  <2>2. \A q \in p.page : HolderNow("discogs", p.kind, q[1])' = q[2] /\ q[2] # NoId
      BY <1>4, <2>1 DEF PageIsNext
  <2> QED
      BY <1>3, <2>1, <2>2 DEF PageIsNext
<1> QED
    BY <1>3, <1>5, <1>7, <1>8 DEF ProjectionInv

LEMMA SameHolders ==
    ASSUME UNCHANGED aliases
    PROVE  (\A e, i : HolderNow("discogs", e, i)' = HolderNow("discogs", e, i)) /\ (\A k : Holder(k)' = Holder(k))
    BY DEF HolderNow, OpenAliases, Holder

LEMMA NodesLoad ==
    ASSUME ProjectionInv, NEW k \in DgKeys, LoadNode(k)
    PROVE  ProjectionInv'
<1>1. /\ graph[k] = Absent /\ graph' = [graph EXCEPT ![k] = NoId] /\ UNCHANGED <<aliases, projection>>
    BY DEF LoadNode
<1>2. DOMAIN graph' = DgKeys /\ \A e \in projection.due : e # k /\ e \in DgKeys /\ graph'[e] = graph[e]
    BY <1>1 DEF ProjectionInv, ProjectionRows
<1>3. \A e \in projection.due : Holder(e)' = Holder(e)
    BY <1>1, SameHolders
<1>4. PageIsNext(projection) => PageIsNext(projection)'
    BY <1>1, SameHolders DEF PageIsNext
<1> QED
    BY <1>1, <1>2, <1>3, <1>4 DEF ProjectionInv

LEMMA ProjectionStarts ==
    ASSUME ProjectionInv, StartProjection
    PROVE  ProjectionInv'
<1>1. PICK p : p = [pc |-> "page", kind |-> "master", cursor |-> 0, page |-> {}, due |-> NodesToSet]
    OBVIOUS
<1>2. projection' = p /\ UNCHANGED <<aliases, graph>>
  <2>1. projection' = [NoProjection EXCEPT !.pc = "page", !.kind = "master", !.due = NodesToSet]
        /\ UNCHANGED <<aliases, graph>>
      BY DEF StartProjection
  <2>2. [NoProjection EXCEPT !.pc = "page"]
            = [pc |-> "page", kind |-> "artist", cursor |-> 0, page |-> {}, due |-> {}]
      BY DEF NoProjection
  <2>3. [[pc |-> "page", kind |-> "artist", cursor |-> 0, page |-> {}, due |-> {}] EXCEPT !.kind = "master"]
            = [pc |-> "page", kind |-> "master", cursor |-> 0, page |-> {}, due |-> {}]
      OBVIOUS
  <2>4. [[pc |-> "page", kind |-> "master", cursor |-> 0, page |-> {}, due |-> {}] EXCEPT !.due = NodesToSet] = p
      BY <1>1
  <2> QED
      BY <2>1, <2>2, <2>3, <2>4
<1>3. /\ p \in ProjectionRows /\ p.pc = "page" /\ p.kind = "master" /\ p.cursor = 0 /\ p.due = NodesToSet
    BY <1>1 DEF ProjectionRows, NodesToSet, EntityKinds
<1>4. \A k \in p.due : k \in DgKeys /\ graph[k] # Absent /\ Holder(k) # NoId /\ ~Passed(p, k)
  <2>1. \A k \in DgKeys : k[2] \in Nat /\ k[2] > 0
    <3>1. \A k \in DgKeys : k[2] \in DgIds
        BY DEF DgKeys
    <3>2. \A n \in DgIds : n \in Nat /\ n > 0
        BY IdentityAssumption
    <3> QED
        BY <3>1, <3>2
  <2> QED
      BY <1>3, <2>1 DEF NodesToSet, Holder, Passed
<1>5. \A k : Holder(k)' = Holder(k)
    BY <1>2, SameHolders
<1> QED
    BY <1>2, <1>3, <1>4, <1>5 DEF ProjectionInv, EntityKinds

LEMMA ProjectionStops ==
    ASSUME ProjectionInv, ProjectionEnds \/ UNCHANGED identityVars
    PROVE  ProjectionInv'
<1>1. CASE ProjectionEnds
  <2>1. projection' = [pc |-> "idle", kind |-> "artist", cursor |-> 0, page |-> {}, due |-> {}]
        /\ UNCHANGED <<aliases, graph>>
      BY <1>1 DEF ProjectionEnds, NoProjection
  <2> QED
      BY <2>1 DEF ProjectionInv, ProjectionRows
<1>2. CASE UNCHANGED identityVars
  <2>1. UNCHANGED <<aliases, graph, projection>>
      BY <1>2 DEF identityVars
  <2>2. PageIsNext(projection) => PageIsNext(projection)'
      BY <2>1, SameHolders DEF PageIsNext
  <2> QED
      BY <2>1, <2>2, SameHolders DEF ProjectionInv
<1> QED
    BY <1>1, <1>2

(* The next page of ids above the cursor is a lower segment of them, and   *)
(* empty only when there are none.                                         *)
LEMMA LowerSegment ==
    ASSUME NEW S \in SUBSET Nat, IsFiniteSet(S),
           NEW T, T = {n \in S : Cardinality({k \in S : k < n}) < ProjectionPage}
    PROVE  /\ T \subseteq S /\ IsFiniteSet(T)
           /\ \A n \in T, k \in S : k <= n => k \in T
           /\ S # {} => T # {}
<1> DEFINE Below(n) == {k \in S : k < n}
<1>0. \A n \in S : n \in Nat
    OBVIOUS
<1>1. T = {n \in S : Cardinality(Below(n)) < ProjectionPage}
    OBVIOUS
<1>2. ASSUME NEW n \in S
      PROVE  IsFiniteSet(Below(n)) /\ Cardinality(Below(n)) \in Nat
  <2>1. Below(n) \in SUBSET S
      OBVIOUS
  <2> HIDE DEF Below
  <2>2. IsFiniteSet(Below(n))
      BY <2>1, FS_Subset
  <2> QED
      BY <2>2, FS_CardinalityType
<1>3. ASSUME NEW n \in T, NEW k \in S, k <= n
      PROVE  k \in T
  <2>1. n \in S /\ Cardinality(Below(n)) < ProjectionPage
      BY <1>1
  <2>2. PICK B, C : B = Below(n) /\ C = Below(k)
      OBVIOUS
  <2>3. \A j \in S : j < k => j < n
      BY <1>0, <1>3, <2>1
  <2>4. C \in SUBSET B
      BY <2>2, <2>3
  <2>5. IsFiniteSet(B) /\ Cardinality(B) \in Nat /\ Cardinality(C) \in Nat
      BY <1>2, <2>1, <2>2
  <2>6. Cardinality(C) <= Cardinality(B)
      BY <2>4, <2>5, FS_Subset
  <2>7. Cardinality(B) < ProjectionPage
      BY <2>1, <2>2
  <2>8. Cardinality(C) < ProjectionPage
      BY <2>5, <2>6, <2>7, IdentityAssumption
  <2> HIDE DEF Below
  <2> QED
      BY <1>1, <2>2, <2>8
<1>4. ASSUME S # {}
      PROVE  T # {}
  <2>1. PICK n \in S : \A k \in S : n <= k
      BY <1>4, LeastNumber
  <2>2. Below(n) = {}
    <3>1. \A i, j \in Nat : i <= j => ~(j < i)
        OBVIOUS
    <3>2. \A k \in S : ~(k < n)
        BY <1>0, <2>1, <3>1
    <3> QED
        BY <3>2
  <2>3. Cardinality(Below(n)) = 0
      BY <2>2, FS_EmptySet
  <2>4. Cardinality(Below(n)) < ProjectionPage
      BY <2>3, IdentityAssumption
  <2> HIDE DEF Below
  <2> QED
      BY <1>1, <2>4
<1>5. T \in SUBSET S
    BY <1>1
<1>6. IsFiniteSet(T)
    BY <1>5, FS_Subset
<1> QED
    BY <1>3, <1>4, <1>5, <1>6

(* The ids a page is taken from.                                           *)
Rest(p) ==
    {a.id : a \in {b \in OpenAliases : b.provider = "discogs" /\ b.kind = p.kind /\ b.id > p.cursor}}

LEMMA RestFacts ==
    ASSUME AliasInv, ProjectionInv, NEW p, p = projection, p.kind \in EntityKinds
    PROVE  /\ Rest(p) \in SUBSET DgIds /\ Rest(p) \in SUBSET Nat /\ IsFiniteSet(Rest(p))
           /\ \A n \in Rest(p) : n > p.cursor /\ HolderNow("discogs", p.kind, n) \in Nat
                                 /\ HolderNow("discogs", p.kind, n) # NoId
           /\ \A k \in p.due : k[1] = p.kind /\ k[2] > p.cursor => k[2] \in Rest(p)
<1>1. OpenAliases \subseteq aliases /\ \A a \in aliases : a.id \in DgIds
    BY DEF OpenAliases, ProjectionInv
<1>2. \A d \in DgIds : d \in Nat
    BY IdentityAssumption
<1>3. Rest(p) \in SUBSET DgIds /\ Rest(p) \in SUBSET Nat
    BY <1>1, <1>2 DEF Rest
<1>4. IsFiniteSet(Rest(p))
  <2> DEFINE from == {b \in OpenAliases : b.provider = "discogs" /\ b.kind = p.kind /\ b.id > p.cursor}
  <2>1. PICK S, T : S = from /\ T = {a.id : a \in S}
      OBVIOUS
  <2>2. S \in SUBSET aliases
      BY <1>1, <2>1
  <2>3. IsFiniteSet(S)
      BY <2>2, FS_Subset DEF AliasInv
  <2>4. PICK g : g = [a \in S |-> a.id]
      OBVIOUS
  <2>5. g \in [S -> T] /\ \A t \in T : \E a \in S : g[a] = t
      BY <2>1, <2>4
  <2>6. IsFiniteSet(T)
      BY <2>3, <2>5, FiniteImage
  <2> QED
      BY <2>1, <2>6 DEF Rest
<1>5. ASSUME NEW n \in Rest(p)
      PROVE  n > p.cursor /\ HolderNow("discogs", p.kind, n) \in Nat /\ HolderNow("discogs", p.kind, n) # NoId
  <2>1. PICK a \in OpenAliases : a.provider = "discogs" /\ a.kind = p.kind /\ a.id > p.cursor /\ a.id = n
      BY DEF Rest
  <2>2. HolderNow("discogs", p.kind, n) = a.item /\ a.item # NoId
      BY <2>1, HolderFacts
  <2>3. a.item \in Nat
      BY <1>1 DEF AliasInv, AliasRows
  <2> QED
      BY <2>1, <2>2, <2>3
<1>6. ASSUME NEW k \in p.due, k[1] = p.kind, k[2] > p.cursor
      PROVE  k[2] \in Rest(p)
  <2>1. HolderNow("discogs", k[1], k[2]) # NoId
      BY DEF ProjectionInv, Holder
  <2>2. PICK a \in OpenAliases : a.provider = "discogs" /\ a.kind = k[1] /\ a.id = k[2]
      BY <2>1, HolderFacts
  <2> QED
      BY <1>6, <2>2 DEF Rest
<1> QED
    BY <1>3, <1>4, <1>5, <1>6

LEMMA ProjectionMoves ==
    ASSUME ProjectionInv, UNCHANGED aliases, NEW r \in ProjectionRows, projection' = r,
           r.kind \in EntityKinds, r.due = projection.due, r.pc = "write" => PageIsNext(r),
           DOMAIN graph' = DgKeys,
           \A k \in r.due : graph'[k] # Absent /\ (Passed(r, k) => graph'[k] = Holder(k))
    PROVE  ProjectionInv'
<1>1. \A k : Holder(k)' = Holder(k)
    BY SameHolders
<1>2. PageIsNext(r) => PageIsNext(projection)'
    BY SameHolders DEF PageIsNext
<1>3. \A k \in r.due : Holder(k) # NoId
    BY DEF ProjectionInv
<1>4. \A a \in aliases' : a.id \in DgIds
    BY DEF ProjectionInv
<1> QED
    BY <1>1, <1>2, <1>3, <1>4 DEF ProjectionInv

LEMMA PairsOf ==
    ASSUME NEW f, NEW T, NEW R, \A x : x \in R <=> \E n \in T : x = <<n, f[n]>>
    PROVE  /\ \A n \in T : \E x \in R : x[1] = n
           /\ \A x \in R : x[1] \in T /\ x[2] = f[x[1]]
<1>1. \A n \in T : <<n, f[n]>> \in R
    OBVIOUS
<1>2. ASSUME NEW x \in R
      PROVE  x[1] \in T /\ x[2] = f[x[1]]
  <2>1. PICK n \in T : x = <<n, f[n]>>
      OBVIOUS
  <2>2. x[1] = n /\ x[2] = f[n]
      BY <2>1
  <2> QED
      BY <2>2
<1>3. ASSUME NEW n \in T
      PROVE  \E x \in R : x[1] = n
  <2>1. PICK x : x = <<n, f[n]>>
      OBVIOUS
  <2>2. x \in R /\ x[1] = n
      BY <1>1, <2>1
  <2> QED
      BY <2>2
<1> QED
    BY <1>2, <1>3

LEMMA PageSelected ==
    ASSUME AliasInv, ProjectionInv, SelectPage
    PROVE  ProjectionInv'
<1> DEFINE p == projection
           segment == {n \in Rest(p) : Cardinality({k \in Rest(p) : k < n}) < ProjectionPage}
<1>0. /\ p \in ProjectionRows /\ p.pc = "page" /\ p.kind \in EntityKinds
    BY DEF ProjectionInv, SelectPage
<1>1. PICK old, S, T : old = p /\ S = Rest(old) /\ T = segment
    OBVIOUS
<1>2. /\ S \in SUBSET DgIds /\ S \in SUBSET Nat /\ IsFiniteSet(S)
      /\ \A n \in S : n > old.cursor /\ HolderNow("discogs", old.kind, n) \in Nat
                      /\ HolderNow("discogs", old.kind, n) # NoId
      /\ \A k \in old.due : k[1] = old.kind /\ k[2] > old.cursor => k[2] \in S
    BY <1>0, <1>1, RestFacts
<1>3. /\ T \subseteq S /\ IsFiniteSet(T)
      /\ \A n \in T, k \in S : k <= n => k \in T
      /\ S # {} => T # {}
  <2>1. T = {n \in S : Cardinality({k \in S : k < n}) < ProjectionPage}
      BY <1>1
  <2> HIDE DEF p, segment
  <2> QED
      BY <1>2, <2>1, LowerSegment
<1>4. /\ projection' = IF T # {} THEN [old EXCEPT !.pc = "write",
                                         !.page = {<<n, HolderNow("discogs", old.kind, n)>> : n \in T}]
                       ELSE IF old.kind = "master" THEN [old EXCEPT !.kind = "release", !.cursor = 0]
                       ELSE [old EXCEPT !.pc = "done"]
    BY <1>1 DEF SelectPage, Rest
<1>9. UNCHANGED <<aliases, graph>>
    BY DEF SelectPage
<1>5. /\ \A a \in aliases : a.id \in DgIds
      /\ DOMAIN graph = DgKeys
      /\ \A k \in old.due : /\ k \in DgKeys /\ graph[k] # Absent /\ Holder(k) # NoId
                            /\ Passed(old, k) => graph[k] = Holder(k)
    BY <1>1 DEF ProjectionInv, ProjectionRows
<1>6. old \in ProjectionRows /\ old.pc = "page" /\ old.kind \in EntityKinds /\ old.cursor \in Nat
    BY <1>0, <1>1 DEF ProjectionRows
<1> HIDE DEF p, segment
<1>7. CASE T # {}
  <2>1. PICK page2 : page2 = {<<n, HolderNow("discogs", old.kind, n)>> : n \in T}
      OBVIOUS
  <2>2. PICK q : q = [old EXCEPT !.pc = "write", !.page = page2]
      OBVIOUS
  <2>3. page2 \in SUBSET (DgIds \X Nat)
      BY <1>2, <1>3, <2>1
  <2>4. /\ q \in ProjectionRows /\ q.pc = "write" /\ q.kind = old.kind /\ q.cursor = old.cursor
        /\ q.page = page2 /\ q.due = old.due
      BY <1>6, <2>2, <2>3 DEF ProjectionRows
  <2>5. projection' = q
      BY <1>4, <1>7, <2>1, <2>2
  <2>6. PICK f : f = [n \in T |-> HolderNow("discogs", old.kind, n)]
      OBVIOUS
  <2>7. /\ {x[1] : x \in page2} = T
        /\ \A n \in T : \E x \in page2 : x[1] = n
        /\ \A x \in page2 : x[1] \in T /\ x[2] = HolderNow("discogs", q.kind, x[1]) /\ x[2] # NoId
    <3>1. \A x : x \in page2 <=> \E n \in T : x = <<n, f[n]>>
      <4>1. \A n \in T : f[n] = HolderNow("discogs", old.kind, n)
          BY <2>6
      <4>2. \A x : x \in page2 <=> \E n \in T : x = <<n, HolderNow("discogs", old.kind, n)>>
          BY <2>1
      <4> QED
          BY <4>1, <4>2
    <3>2. /\ \A n \in T : \E x \in page2 : x[1] = n
          /\ \A x \in page2 : x[1] \in T /\ x[2] = f[x[1]]
        BY <3>1, PairsOf
    <3>4. {x[1] : x \in page2} = T
        BY <3>2
    <3>3. \A n \in T : f[n] = HolderNow("discogs", old.kind, n) /\ f[n] # NoId
        BY <1>2, <1>3, <2>6
    <3> QED
        BY <2>4, <3>2, <3>3, <3>4
  <2>8. \A k \in q.due : k[1] = q.kind /\ k[2] > q.cursor /\ (\E x \in page2 : k[2] <= x[1])
                            => \E x \in page2 : x[1] = k[2]
    <3> SUFFICES ASSUME NEW k \in q.due, k[1] = q.kind, k[2] > q.cursor, NEW x \in page2, k[2] <= x[1]
                 PROVE  \E y \in page2 : y[1] = k[2]
        OBVIOUS
    <3>1. k[2] \in S
        BY <1>2, <2>4
    <3>2. x[1] \in T
        BY <2>7
    <3>3. k[2] \in T
        BY <1>3, <3>1, <3>2
    <3> QED
        BY <2>7, <3>3
  <2>9. PageIsNext(q)
    <3>1. page2 # {}
        BY <1>7, <2>1
    <3> QED
        BY <1>3, <2>4, <2>7, <2>8, <3>1 DEF PageIsNext
  <2>10. \A k : Passed(q, k) => Passed(old, k)
      BY <1>6, <2>4 DEF Passed
  <2>11. q.kind \in EntityKinds /\ q.due = projection.due
      BY <1>1, <1>6, <2>4 DEF p
  <2>12. DOMAIN graph' = DgKeys /\ \A k \in q.due : graph'[k] # Absent /\ (Passed(q, k) => graph'[k] = Holder(k))
      BY <1>5, <1>9, <2>4, <2>10
  <2> QED
      BY <1>9, <2>4, <2>5, <2>9, <2>11, <2>12, ProjectionMoves
<1>8. CASE T = {}
  <2>1. \A k \in old.due : k[1] = old.kind => Passed(old, k)
    <3>1. \A k \in old.due : k[1] = old.kind => ~(k[2] > old.cursor)
        BY <1>2, <1>3, <1>8
    <3>2. \A k \in old.due : k[2] \in Nat
      <4>1. \A k \in DgKeys : k[2] \in DgIds
          BY DEF DgKeys
      <4>2. \A n \in DgIds : n \in Nat
          BY IdentityAssumption
      <4> QED
          BY <1>5, <4>1, <4>2
    <3> QED
        BY <1>6, <3>1, <3>2 DEF Passed
  <2>2. CASE old.kind = "master"
    <3>1. PICK q : q = [old EXCEPT !.kind = "release", !.cursor = 0]
        OBVIOUS
    <3>2. /\ q \in ProjectionRows /\ q.pc = "page" /\ q.kind = "release" /\ q.cursor = 0
          /\ q.page = old.page /\ q.due = old.due
        BY <1>6, <3>1 DEF ProjectionRows, EntityKinds
    <3>3. projection' = q
        BY <1>4, <1>8, <2>2, <3>1
    <3>4. \A k \in DgKeys : ~(k[2] <= 0)
      <4>1. \A k \in DgKeys : k[2] \in DgIds
          BY DEF DgKeys
      <4>2. \A n \in DgIds : ~(n <= 0)
          BY IdentityAssumption
      <4> QED
          BY <4>1, <4>2
    <3>5. \A k \in old.due : Passed(q, k) => Passed(old, k)
        BY <1>5, <2>1, <2>2, <3>2, <3>4 DEF Passed
    <3>6. q.kind \in EntityKinds /\ q.due = projection.due
        BY <1>1, <3>2 DEF EntityKinds, p
    <3>7. DOMAIN graph' = DgKeys /\ \A k \in q.due : graph'[k] # Absent /\ (Passed(q, k) => graph'[k] = Holder(k))
        BY <1>5, <1>9, <3>2, <3>5
    <3> QED
        BY <1>9, <3>2, <3>3, <3>6, <3>7, ProjectionMoves
  <2>3. CASE old.kind # "master"
    <3>1. PICK q : q = [old EXCEPT !.pc = "done"]
        OBVIOUS
    <3>2. /\ q \in ProjectionRows /\ q.pc = "done" /\ q.kind = old.kind /\ q.due = old.due
        BY <1>6, <3>1 DEF ProjectionRows
    <3>3. projection' = q
        BY <1>4, <1>8, <2>3, <3>1
    <3>4. \A k \in old.due : Passed(old, k)
      <4>1. \A k \in old.due : k[1] \in EntityKinds
          BY <1>5 DEF DgKeys
      <4> QED
          BY <1>6, <2>1, <2>3, <4>1 DEF EntityKinds, Passed
    <3>5. q.kind \in EntityKinds /\ q.due = projection.due
        BY <1>1, <1>6, <3>2 DEF p
    <3>6. DOMAIN graph' = DgKeys /\ \A k \in q.due : graph'[k] # Absent /\ (Passed(q, k) => graph'[k] = Holder(k))
        BY <1>5, <1>9, <3>2, <3>4
    <3> QED
        BY <1>9, <3>2, <3>3, <3>5, <3>6, ProjectionMoves
  <2> QED
      BY <2>2, <2>3
<1> QED
    BY <1>7, <1>8

LEMMA NewCursor ==
    ASSUME NEW S \in SUBSET Nat, IsFiniteSet(S), S # {}, NEW c, NEW m, m = NextCursor(S, c)
    PROVE  m \in S /\ \A n \in S : n <= m
<1>1. \E x \in S : \A y \in S : y <= x
    BY GreatestNumber
<1> QED
    BY <1>1 DEF NextCursor

LEMMA PageWritten ==
    ASSUME AliasInv, ProjectionInv, WritePage
    PROVE  ProjectionInv'
<1>1. PICK p, S, m : p = projection /\ S = {q[1] : q \in p.page} /\ m = NextCursor(S, p.cursor)
    OBVIOUS
<1>2. p \in ProjectionRows /\ p.pc = "write" /\ p.kind \in EntityKinds /\ PageIsNext(p)
    BY <1>1 DEF ProjectionInv, WritePage
<1>3. /\ p.page \in SUBSET (DgIds \X Nat) /\ p.cursor \in Nat /\ p.due \subseteq DgKeys
      /\ p.page # {} /\ IsFiniteSet(S)
      /\ \A q \in p.page : q[2] = HolderNow("discogs", p.kind, q[1]) /\ q[2] # NoId
      /\ \A k \in p.due : k[1] = p.kind /\ k[2] > p.cursor /\ (\E q \in p.page : k[2] <= q[1])
                            => \E q \in p.page : q[1] = k[2]
    BY <1>1, <1>2 DEF PageIsNext, ProjectionRows
<1>4. S \in SUBSET Nat /\ S # {} /\ \A q \in p.page : q[1] \in S
  <2>1. \A q \in p.page : q[1] \in DgIds
      BY <1>3
  <2>2. \A d \in DgIds : d \in Nat
      BY IdentityAssumption
  <2> QED
      BY <1>1, <1>3, <2>1, <2>2
<1>5. m \in S /\ m \in Nat /\ \E q \in p.page : q[1] = m
  <2>1. m \in S
      BY <1>1, <1>3, <1>4, NewCursor
  <2> QED
      BY <1>1, <1>4, <2>1
<1>6. PICK r : r = [p EXCEPT !.pc = "page", !.page = {}, !.cursor = m]
    OBVIOUS
<1>7. /\ r \in ProjectionRows /\ r.pc = "page" /\ r.kind = p.kind /\ r.cursor = m /\ r.due = p.due
    BY <1>2, <1>5, <1>6 DEF ProjectionRows
<1>8. projection' = r /\ UNCHANGED aliases
    BY <1>1, <1>6 DEF WritePage
<1>9. graph' = [k \in DgKeys |->
               IF graph[k] # Absent /\ \E q \in p.page : k = <<p.kind, q[1]>>
               THEN (CHOOSE q \in p.page : k = <<p.kind, q[1]>>)[2] ELSE graph[k]]
    BY <1>1 DEF WritePage
<1>10. ASSUME NEW k \in DgKeys, graph[k] # Absent, NEW q \in p.page, k = <<p.kind, q[1]>>
       PROVE  graph'[k] = Holder(k) /\ graph'[k] # Absent
  <2>1. PICK x : x = CHOOSE y \in p.page : k = <<p.kind, y[1]>>
      OBVIOUS
  <2>2. x \in p.page /\ k = <<p.kind, x[1]>>
      BY <1>10, <2>1
  <2>3. graph'[k] = x[2]
      BY <1>9, <1>10, <2>1
  <2>4. k[1] = p.kind /\ k[2] = x[1]
      BY <2>2
  <2>5. x[2] = HolderNow("discogs", k[1], k[2]) /\ x[2] \in Nat
      BY <1>3, <2>2, <2>4
  <2> QED
      BY <2>3, <2>5 DEF Holder, Absent
<1>11. ASSUME NEW k \in DgKeys, ~\E q \in p.page : k = <<p.kind, q[1]>>
       PROVE  graph'[k] = graph[k]
    BY <1>9, <1>11
<1>12. ASSUME NEW k \in r.due
       PROVE  graph'[k] # Absent /\ (Passed(r, k) => graph'[k] = Holder(k))
  <2>1. /\ k \in DgKeys /\ k \in p.due /\ graph[k] # Absent
        /\ Passed(p, k) => graph[k] = Holder(k)
      BY <1>1, <1>3, <1>7 DEF ProjectionInv
  <2>2. k = <<k[1], k[2]>> /\ k[2] \in Nat
    <3>1. k = <<k[1], k[2]>> /\ k[2] \in DgIds
        BY <2>1 DEF DgKeys
    <3> QED
        BY <3>1, IdentityAssumption
  <2>3. CASE \E q \in p.page : k = <<p.kind, q[1]>>
      BY <1>10, <2>1, <2>3
  <2>4. CASE ~\E q \in p.page : k = <<p.kind, q[1]>>
    <3>1. graph'[k] = graph[k]
        BY <1>11, <2>1, <2>4
    <3>2. ASSUME Passed(r, k)
          PROVE  Passed(p, k)
      <4>1. CASE p.kind = "release" /\ k[1] = "master"
          BY <4>1 DEF Passed
      <4>2. CASE k[1] = p.kind /\ k[2] <= m
        <5>1. \A q \in p.page : q[1] # k[2]
            BY <2>2, <2>4, <4>2
        <5>2. ~(k[2] > p.cursor)
            BY <1>3, <1>5, <2>1, <4>2, <5>1
        <5> QED
            BY <1>3, <2>2, <4>2, <5>2 DEF Passed
      <4> QED
          BY <1>7, <3>2, <4>1, <4>2 DEF Passed
    <3> QED
        BY <2>1, <3>1, <3>2
  <2> QED
      BY <2>3, <2>4
<1>13. DOMAIN graph' = DgKeys
    BY <1>9
<1>14. r.kind \in EntityKinds /\ r.due = projection.due /\ r.pc # "write"
    BY <1>1, <1>2, <1>7
<1> QED
    BY <1>7, <1>8, <1>12, <1>13, <1>14, ProjectionMoves

(* The inductive invariant of the ledger's tables, of what they say of the *)
(* past, and of the projection.                                            *)
IdentityInv == AliasInv /\ StoryInv /\ PastInv /\ (part = "projection" => ProjectionInv)

LEMMA IdentityInitInv == IdentityInit => IdentityInv
<1> SUFFICES ASSUME IdentityInit PROVE IdentityInv
    OBVIOUS
<1>1. StoryInv
    BY DEF IdentityInit, StoryInv
<1> QED
    BY <1>1, AliasInitInv, PastInitInv, ProjectionInitInv DEF IdentityInv

LEMMA LedgerStep ==
    ASSUME AliasInv, StoryInv, PastInv, LedgerNext
    PROVE  AliasInv' /\ StoryInv' /\ PastInv'
<1>1. CASE Loads
    BY <1>1, LoadDiscogsKeeps, LoadDiscogsPast DEF Loads
<1>2. CASE Relinks
  <2>1. AliasInv' /\ StoryInv'
      BY <1>2, LoadMusicBrainzKeeps, ReattachRowKeeps, AttachBarcodeKeeps, ReattachAgainKeeps DEF Relinks
  <2>2. PastInv'
      BY <1>2, LoadMusicBrainzPast, ReattachRowPast, AttachBarcodePast, ReattachAgainPast DEF Relinks
  <2> QED
      BY <2>1, <2>2
<1> QED
    BY <1>1, <1>2 DEF LedgerNext

LEMMA PastStays ==
    ASSUME PastInv, UNCHANGED <<aliases, merged, tx, recorded>>
    PROVE  PastInv'
<1>1. OpenAliases' = OpenAliases /\ Native' = Native
    BY DEF OpenAliases, Native
<1>2. SurvivorsHold' /\ OneKind'
    BY DEF PastInv, SurvivorsHold, OneKind
<1>3. RowsFollow'
    BY <1>1 DEF PastInv, RowsFollow
<1>4. \A t : HeldAt(t)' = HeldAt(t) /\ MergedAt(t)' = MergedAt(t)
    BY DEF HeldAt, MergedAt
<1>5. \A i : IsRelease(i)' <=> IsRelease(i)
    BY DEF IsRelease
<1>6. \A shot, t : TellsOf(shot, t) => TellsOf(shot, t)'
    BY <1>1, <1>4, <1>5 DEF TellsOf
<1>7. HistoryInv'
    BY <1>6 DEF PastInv, HistoryInv
<1> QED
    BY <1>2, <1>3, <1>7 DEF PastInv

LEMMA TablesStay ==
    ASSUME AliasInv, StoryInv, PastInv, UNCHANGED <<aliases, merged, link_events, tx, happened, recorded>>
    PROVE  AliasInv' /\ StoryInv' /\ PastInv'
<1>1. Native' = Native /\ OpenAliases' = OpenAliases
    BY DEF Native, OpenAliases
<1>2. AliasInv'
    BY <1>1 DEF AliasInv
<1>3. \A v : Recalled(v) => Recalled(v)'
    BY <1>1 DEF Recalled, MintedAt, AttachedAt
<1>4. PastInv'
    BY <1>1, PastStays
<1> QED
    BY <1>2, <1>3, <1>4 DEF StoryInv

LEMMA ProjectionStep ==
    ASSUME AliasInv, StoryInv, PastInv, ProjectionInv, ProjectionNext
    PROVE  AliasInv' /\ StoryInv' /\ PastInv' /\ ProjectionInv'
<1>1. CASE Loads
    BY <1>1, LoadDiscogsKeeps, LoadDiscogsPast, ProjectionLoads DEF Loads
<1>2. CASE \E k \in DgKeys : LoadNode(k)
  <2>1. PICK k \in DgKeys : LoadNode(k)
      BY <1>2
  <2>2. UNCHANGED <<aliases, merged, link_events, tx, happened, recorded>>
      BY <2>1 DEF LoadNode
  <2> QED
      BY <2>1, <2>2, NodesLoad, TablesStay
<1>3. CASE StartProjection \/ SelectPage \/ WritePage \/ ProjectionEnds
  <2>1. UNCHANGED <<aliases, merged, link_events, tx, happened, recorded>>
      BY <1>3 DEF StartProjection, SelectPage, WritePage, ProjectionEnds
  <2>2. ProjectionInv'
      BY <1>3, ProjectionStarts, PageSelected, PageWritten, ProjectionStops
  <2> QED
      BY <2>1, <2>2, TablesStay
<1> QED
    BY <1>1, <1>2, <1>3 DEF ProjectionNext

LEMMA IdentityNextInv == IdentityInv /\ [Next]_catalogVars => IdentityInv'
<1> SUFFICES ASSUME IdentityInv, [Next]_catalogVars PROVE IdentityInv'
    OBVIOUS
<1>0. UNCHANGED part
    BY DEF Next, RestOf, catalogVars
<1>1. \/ LedgerNext /\ part = "ledger"
      \/ ProjectionNext /\ part = "projection"
      \/ UNCHANGED identityVars
    BY DEF Next, RestOf, catalogVars
<1>2. CASE LedgerNext /\ part = "ledger"
    BY <1>0, <1>2, LedgerStep DEF IdentityInv
<1>3. CASE ProjectionNext /\ part = "projection"
    BY <1>0, <1>3, ProjectionStep DEF IdentityInv
<1>4. CASE UNCHANGED identityVars
  <2>1. UNCHANGED <<aliases, merged, link_events, tx, happened, recorded>>
      BY <1>4 DEF identityVars
  <2> QED
      BY <1>0, <1>4, <2>1, TablesStay, ProjectionStops DEF IdentityInv
<1> QED
    BY <1>1, <1>2, <1>3, <1>4

(* The inductive invariant of the ledger's tables: one open alias per      *)
(* identifier, items numbered as they are minted, one survivor per         *)
(* superseded item, every event that happened legible from the rows, and   *)
(* the rows of every past transaction those that were shown after it       *)
(* (identity_ledger.py, projection.py).                                    *)
THEOREM IdentityInvariant == Spec => []IdentityInv
<1>1. Init => IdentityInv
    BY IdentityInitInv DEF Init
<1> QED
    BY <1>1, IdentityNextInv, PTL DEF Spec

(* For any ids, links, limits and history: a ledger page leaves out no     *)
(* event of an edition it shows and shows nothing of the future, the       *)
(* editions SQL lists under a work are those the payload resolves to it, a *)
(* past state reads back as it was shown then and a split stays visible    *)
(* after the re-attachment that ended it, and a projection that ends has   *)
(* set every node that was due (identity_ledger.py, projection.py).        *)
THEOREM LedgerTellsTheStory == Spec => []LedgerReadsAreTrue
<1>1. AliasInv /\ StoryInv /\ PastInv => StoryIsComplete /\ EditionsAgree /\ StatesReadBack
    BY StoryComplete, EditionsSame, ReadsBack
<1>2. ProjectionInv => ProjectionIsComplete
    BY DEF ProjectionInv, ProjectionIsComplete, Passed, Holder
<1>3. IdentityInv => LedgerReadsAreTrue
    BY <1>1, <1>2 DEF IdentityInv, LedgerReadsAreTrue
<1> QED
    BY <1>3, IdentityInvariant, PTL

-----------------------------------------------------------------------------
(* RarityScore: every signal falls or stays with each thing there is more  *)
(* of, and the score is a weighted mean of the signals.                    *)

(* A sum over a finite set is what any function on its subsets says that   *)
(* starts at nothing and gains each member's share.                        *)
SumsOf(D, h) ==
    CHOOSE it : it = [s \in SUBSET D |-> IF s = {} THEN 0
                      ELSE h[CHOOSE x \in s : TRUE] + it[s \ {CHOOSE x \in s : TRUE}]]

Gains(D, h, g) == g[{}] = 0 /\ \A s \in SUBSET D : \A x \in s : g[s] = h[x] + g[s \ {x}]

LEMMA FoldIs ==
    ASSUME NEW D, IsFiniteSet(D), NEW h, NEW g \in [SUBSET D -> Int], Gains(D, h, g)
    PROVE  SumsOf(D, h) = g
<1> DEFINE Step2(it) == [s \in SUBSET D |-> IF s = {} THEN 0
                              ELSE h[CHOOSE x \in s : TRUE] + it[s \ {CHOOSE x \in s : TRUE}]]
<1>0. g[{}] = 0 /\ \A s \in SUBSET D : \A x \in s : g[s] = h[x] + g[s \ {x}]
    BY DEF Gains
<1>1. g = Step2(g)
  <2>1. ASSUME NEW s \in SUBSET D, s # {}
        PROVE  g[s] = h[CHOOSE x \in s : TRUE] + g[s \ {CHOOSE x \in s : TRUE}]
    <3>1. (CHOOSE x \in s : TRUE) \in s
        BY <2>1
    <3> QED
        BY <1>0, <3>1
  <2> QED
      BY <1>0, <2>1
<1>2. PICK it : it = SumsOf(D, h) /\ it = Step2(it)
  <2>1. SumsOf(D, h) = (CHOOSE f : f = Step2(f))
      BY DEF SumsOf
  <2> HIDE DEF Step2
  <2> QED
      BY <1>1, <2>1, Zenon
<1>3. \A s \in SUBSET D : it[s] = g[s]
  <2> SUFFICES ASSUME NEW r \in SUBSET D, it[r] # g[r] PROVE FALSE
      OBVIOUS
  <2> DEFINE bad == {s \in SUBSET D : it[s] # g[s]}
             sizes == {Cardinality(s) : s \in bad}
  <2>1. \A s \in SUBSET D : IsFiniteSet(s) /\ Cardinality(s) \in Nat
      BY FS_Subset, FS_CardinalityType
  <2>2. PICK n \in sizes : \A k \in sizes : n <= k
    <3>1. sizes \subseteq Nat /\ sizes # {}
        BY <2>1
    <3> HIDE DEF sizes
    <3> QED
        BY <3>1, LeastNumber
  <2>3. PICK s \in bad : Cardinality(s) = n
      BY <2>2
  <2>4. s # {}
      BY <1>0, <1>2, <2>3
  <2>5. PICK x \in s : x = CHOOSE y \in s : TRUE
    <3>1. (CHOOSE y \in s : TRUE) \in s
        BY <2>4
    <3> QED
        BY <3>1
  <2>6. it[s] = h[x] + it[s \ {x}] /\ g[s] = h[x] + g[s \ {x}]
    <3>1. it[s] = Step2(it)[s] /\ s \in SUBSET D
        BY <1>2, <2>3
    <3>2. Step2(it)[s] = h[x] + it[s \ {x}]
        BY <2>4, <2>5, <3>1
    <3> HIDE DEF Step2
    <3> QED
        BY <1>0, <2>5, <3>1, <3>2
  <2>7. s \ {x} \in bad
      BY <2>3, <2>6
  <2>8. Cardinality(s \ {x}) = Cardinality(s) - 1
      BY <2>1, <2>3, FS_RemoveElement
  <2>9. Cardinality(s \ {x}) \in sizes
      BY <2>7
  <2>10. n \in Nat
      BY <2>1, <2>3
  <2> HIDE DEF sizes, bad
  <2> QED
      BY <2>2, <2>3, <2>8, <2>9, <2>10
<1>4. it = g
  <2>1. it = [s \in SUBSET D |-> it[s]]
    <3>1. Step2(it) = [s \in SUBSET D |-> Step2(it)[s]]
        OBVIOUS
    <3> HIDE DEF Step2
    <3> QED
        BY <1>2, <3>1
  <2>2. g = [s \in SUBSET D |-> g[s]]
      OBVIOUS
  <2> QED
      BY <1>3, <2>1, <2>2
<1> QED
    BY <1>2, <1>4

Share(w, s) == IF s \in DOMAIN w THEN w[s] ELSE 0

SignalNames == {"label_catalog", "medium_rarity", "temporal_scarcity", "graph_isolation",
                "collection_prevalence", "pressing_scarcity"}

LEMMA TotalIs ==
    ASSUME NEW D \in SUBSET SignalNames, NEW w \in [D -> Int]
    PROVE  Summed(w) = Share(w, "label_catalog") + Share(w, "medium_rarity") + Share(w, "temporal_scarcity")
                      + Share(w, "graph_isolation") + Share(w, "collection_prevalence")
                      + Share(w, "pressing_scarcity")
<1> DEFINE In(s, n) == IF n \in s THEN w[n] ELSE 0
           g == [s \in SUBSET D |-> In(s, "label_catalog") + In(s, "medium_rarity") + In(s, "temporal_scarcity")
                      + In(s, "graph_isolation") + In(s, "collection_prevalence") + In(s, "pressing_scarcity")]
<1>1. IsFiniteSet(D)
  <2>1. IsFiniteSet(SignalNames)
    <3>1. \A S, n : IsFiniteSet(S) => IsFiniteSet(S \cup {n})
        BY FS_AddElement, Zenon
    <3>2. IsFiniteSet({} \cup {"label_catalog"} \cup {"medium_rarity"} \cup {"temporal_scarcity"}
                         \cup {"graph_isolation"} \cup {"collection_prevalence"} \cup {"pressing_scarcity"})
        BY <3>1, FS_EmptySet, Zenon
    <3>3. SignalNames = {} \cup {"label_catalog"} \cup {"medium_rarity"} \cup {"temporal_scarcity"}
                         \cup {"graph_isolation"} \cup {"collection_prevalence"} \cup {"pressing_scarcity"}
        BY DEF SignalNames
    <3> QED
        BY <3>2, <3>3
  <2> QED
      BY <2>1, FS_Subset
<1>2. \A s \in SUBSET D : \A n : In(s, n) \in Int
    OBVIOUS
<1>3. g \in [SUBSET D -> Int] /\ g[{}] = 0
    BY <1>2
<1>4. ASSUME NEW s \in SUBSET D, NEW x \in s PROVE g[s] = w[x] + g[s \ {x}]
  <2>1. \A n : In(s, n) = (IF n = x THEN w[x] ELSE 0) + In(s \ {x}, n)
      OBVIOUS
  <2>2. x \in SignalNames
      OBVIOUS
  <2>3. \A n : In(s, n) \in Int /\ In(s \ {x}, n) \in Int
      BY <1>2
  <2>4. w[x] \in Int /\ s \ {x} \in SUBSET D
      OBVIOUS
  <2>5. \A r \in SUBSET D : g[r] = In(r, "label_catalog") + In(r, "medium_rarity") + In(r, "temporal_scarcity")
            + In(r, "graph_isolation") + In(r, "collection_prevalence") + In(r, "pressing_scarcity")
      OBVIOUS
  <2> DEFINE gain(n) == IF n = x THEN w[x] ELSE 0
  <2>6. /\ In(s, "label_catalog") = gain("label_catalog") + In(s \ {x}, "label_catalog")
        /\ In(s, "medium_rarity") = gain("medium_rarity") + In(s \ {x}, "medium_rarity")
        /\ In(s, "temporal_scarcity") = gain("temporal_scarcity") + In(s \ {x}, "temporal_scarcity")
        /\ In(s, "graph_isolation") = gain("graph_isolation") + In(s \ {x}, "graph_isolation")
        /\ In(s, "collection_prevalence") = gain("collection_prevalence") + In(s \ {x}, "collection_prevalence")
        /\ In(s, "pressing_scarcity") = gain("pressing_scarcity") + In(s \ {x}, "pressing_scarcity")
      BY <2>1
  <2>7. gain("label_catalog") + gain("medium_rarity") + gain("temporal_scarcity") + gain("graph_isolation")
            + gain("collection_prevalence") + gain("pressing_scarcity") = w[x]
      BY <2>2, <2>4 DEF SignalNames
  <2>8. \A n : gain(n) \in Int
      BY <2>4
  <2>9. g[s] = In(s, "label_catalog") + In(s, "medium_rarity") + In(s, "temporal_scarcity")
            + In(s, "graph_isolation") + In(s, "collection_prevalence") + In(s, "pressing_scarcity")
      BY <2>5
  <2>10. g[s \ {x}] = In(s \ {x}, "label_catalog") + In(s \ {x}, "medium_rarity")
            + In(s \ {x}, "temporal_scarcity") + In(s \ {x}, "graph_isolation")
            + In(s \ {x}, "collection_prevalence") + In(s \ {x}, "pressing_scarcity")
      BY <2>4, <2>5
  <2> HIDE DEF In, gain, g
  <2>11. PICK a \in Int, b \in Int, c \in Int, d \in Int, e \in Int, f \in Int :
            /\ a = gain("label_catalog") /\ b = gain("medium_rarity") /\ c = gain("temporal_scarcity")
            /\ d = gain("graph_isolation") /\ e = gain("collection_prevalence") /\ f = gain("pressing_scarcity")
      BY <2>8
  <2>12. PICK p \in Int, q \in Int, r \in Int, y \in Int, t \in Int, u \in Int :
            /\ p = In(s \ {x}, "label_catalog") /\ q = In(s \ {x}, "medium_rarity")
            /\ r = In(s \ {x}, "temporal_scarcity") /\ y = In(s \ {x}, "graph_isolation")
            /\ t = In(s \ {x}, "collection_prevalence") /\ u = In(s \ {x}, "pressing_scarcity")
      BY <2>3
  <2>13. g[s] = (a + p) + (b + q) + (c + r) + (d + y) + (e + t) + (f + u)
      BY <2>6, <2>9, <2>11, <2>12
  <2>14. g[s \ {x}] = p + q + r + y + t + u /\ w[x] = a + b + c + d + e + f
      BY <2>7, <2>10, <2>11, <2>12
  <2> QED
      BY <2>13, <2>14
<1>5. Summed(w) = g[D]
  <2>1. DOMAIN w = D
      OBVIOUS
  <2>2. Summed(w) = SumsOf(D, w)[D]
      BY <2>1 DEF Summed, MapThenSumSet, MapThenFoldSet, SumsOf
  <2> HIDE DEF g
  <2>3. \A s \in SUBSET D : \A x \in s : g[s] = w[x] + g[s \ {x}]
      BY <1>4
  <2>4. Gains(D, w, g)
      BY <1>3, <2>3 DEF Gains
  <2>5. SumsOf(D, w) = g
      BY <1>1, <1>3, <2>4, FoldIs
  <2> QED
      BY <2>2, <2>5
<1> QED
    BY <1>5 DEF Share

(* A step of a table is the score of the first limit that holds, or the    *)
(* one beyond the table, so a table that falls gives less for more.        *)
FirstFit(i, v, n, limits) == (i <= n => v <= limits[i]) /\ \A j \in 1..n : v <= limits[j] => i <= j

LEMMA StepAt ==
    ASSUME NEW n \in Nat, NEW limits \in [1..n -> Int], NEW scores \in [1..(n + 1) -> Int], NEW v \in Int
    PROVE  \E i \in 1..(n + 1) : Step(v, limits, scores) = scores[i] /\ FirstFit(i, v, n, limits)
<1> DEFINE fits == {k \in DOMAIN limits : v <= limits[k]}
<1>1. Cardinality(DOMAIN scores) = n + 1
    BY FS_Interval
<1>2. CASE fits = {}
  <2>1. Step(v, limits, scores) = scores[n + 1]
      BY <1>1, <1>2 DEF Step
  <2>2. FirstFit(n + 1, v, n, limits)
      BY <1>2, SMTT(40) DEF FirstFit
  <2> QED
      BY <2>1, <2>2
<1>3. CASE fits # {}
  <2>1. fits \in SUBSET Nat
      OBVIOUS
  <2>2. PICK i : i = Min(fits)
      OBVIOUS
  <2>3. \E x \in fits : \A y \in fits : x <= y
      BY <1>3, <2>1, LeastNumber
  <2>4. i \in fits /\ \A y \in fits : i <= y
      BY <2>2, <2>3 DEF Min
  <2>5. Step(v, limits, scores) = scores[i]
      BY <1>3, <2>2 DEF Step
  <2>6. FirstFit(i, v, n, limits) /\ i \in 1..(n + 1)
      BY <2>4 DEF FirstFit
  <2> QED
      BY <2>5, <2>6
<1> QED
    BY <1>2, <1>3

LEMMA StepFalls ==
    ASSUME NEW n \in Nat, NEW limits \in [1..n -> Int], NEW scores \in [1..(n + 1) -> Int],
           NEW u \in Int, NEW v \in Int, u <= v, \A i, j \in 1..(n + 1) : i <= j => scores[j] <= scores[i]
    PROVE  Step(v, limits, scores) <= Step(u, limits, scores)
<1>1. PICK i \in 1..(n + 1) : Step(u, limits, scores) = scores[i] /\ FirstFit(i, u, n, limits)
    BY StepAt
<1>2. PICK j \in 1..(n + 1) : Step(v, limits, scores) = scores[j] /\ FirstFit(j, v, n, limits)
    BY StepAt
<1>3. i <= j
    BY <1>1, <1>2 DEF FirstFit
<1> QED
    BY <1>1, <1>2, <1>3

LEMMA LabelFalls ==
    /\ \A v \in Int : ComputeLabelCatalogScore(v) \in 0..100
    /\ \A u, v \in Int : u <= v => ComputeLabelCatalogScore(v) <= ComputeLabelCatalogScore(u)
<1> DEFINE limits == <<9, 50, 200, 1000>>
           scores == <<100, 75, 50, 25, 10>>
<1>1. limits \in [1..4 -> Int] /\ scores \in [1..(4 + 1) -> Int] /\ \A i \in 1..(4 + 1) : scores[i] \in 0..100
    OBVIOUS
<1>2. \A i, j \in 1..(4 + 1) : i <= j => scores[j] <= scores[i]
    OBVIOUS
<1> HIDE DEF limits, scores
<1>3. \A v \in Int : \E i \in 1..(4 + 1) : Step(v, limits, scores) = scores[i] /\ FirstFit(i, v, 4, limits)
    BY <1>1, StepAt
<1>4. \A u, v \in Int : u <= v => Step(v, limits, scores) <= Step(u, limits, scores)
    BY <1>1, <1>2, StepFalls
<1> QED
    BY <1>1, <1>3, <1>4 DEF ComputeLabelCatalogScore, limits, scores

LEMMA IsolationFalls ==
    /\ \A v \in Int : ComputeGraphIsolationScore(v) \in 0..100
    /\ \A u, v \in Int : u <= v => ComputeGraphIsolationScore(v) <= ComputeGraphIsolationScore(u)
<1> DEFINE limits == <<2, 4, 7, 12>>
           scores == <<90, 70, 50, 30, 10>>
<1>1. limits \in [1..4 -> Int] /\ scores \in [1..(4 + 1) -> Int] /\ \A i \in 1..(4 + 1) : scores[i] \in 0..100
    OBVIOUS
<1>2. \A i, j \in 1..(4 + 1) : i <= j => scores[j] <= scores[i]
    OBVIOUS
<1> HIDE DEF limits, scores
<1>3. \A v \in Int : \E i \in 1..(4 + 1) : Step(v, limits, scores) = scores[i] /\ FirstFit(i, v, 4, limits)
    BY <1>1, StepAt
<1>4. \A u, v \in Int : u <= v => Step(v, limits, scores) <= Step(u, limits, scores)
    BY <1>1, <1>2, StepFalls
<1> QED
    BY <1>1, <1>3, <1>4 DEF ComputeGraphIsolationScore, limits, scores

(* The first pressing is rarer than none known, and any more less rare.    *)
LEMMA PressingFalls ==
    /\ \A v \in Int : ComputePressingScarcityScore(v) \in 0..100
    /\ \A u, v \in Int : 0 < u /\ u <= v => ComputePressingScarcityScore(v) <= ComputePressingScarcityScore(u)
    /\ ComputePressingScarcityScore(0) <= ComputePressingScarcityScore(1)
<1> DEFINE limits == <<0, 1, 2, 5, 10>>
           scores == <<90, 100, 85, 60, 35, 10>>
<1>1. limits \in [1..5 -> Int] /\ scores \in [1..(5 + 1) -> Int] /\ \A i \in 1..(5 + 1) : scores[i] \in 0..100
    OBVIOUS
<1>2. \A i, j \in 2..(5 + 1) : i <= j => scores[j] <= scores[i]
    OBVIOUS
<1>3. limits[1] = 0 /\ limits[2] = 1 /\ scores[1] = 90 /\ scores[2] = 100
    OBVIOUS
<1> HIDE DEF limits, scores
<1>4. \A v \in Int : \E i \in 1..(5 + 1) : Step(v, limits, scores) = scores[i] /\ FirstFit(i, v, 5, limits)
    BY <1>1, StepAt
<1>5. ASSUME NEW u \in Int, NEW v \in Int, 0 < u, u <= v
      PROVE  Step(v, limits, scores) <= Step(u, limits, scores)
  <2>1. PICK i \in 1..(5 + 1) : Step(u, limits, scores) = scores[i] /\ FirstFit(i, u, 5, limits)
      BY <1>4
  <2>2. PICK j \in 1..(5 + 1) : Step(v, limits, scores) = scores[j] /\ FirstFit(j, v, 5, limits)
      BY <1>4
  <2>3. i <= j /\ i # 1
      BY <1>1, <1>3, <1>5, <2>1, <2>2 DEF FirstFit
  <2> QED
      BY <1>2, <2>1, <2>2, <2>3
<1>6. Step(0, limits, scores) = 90
    BY <1>3, <1>4 DEF FirstFit
<1>7. Step(1, limits, scores) = 100
  <2>1. PICK i \in 1..(5 + 1) : Step(1, limits, scores) = scores[i] /\ FirstFit(i, 1, 5, limits)
      BY <1>4
  <2>2. i = 2
      BY <1>3, <2>1 DEF FirstFit
  <2> QED
      BY <1>3, <2>1, <2>2
<1> QED
    BY <1>1, <1>4, <1>5, <1>6, <1>7 DEF ComputePressingScarcityScore, limits, scores

LEMMA PrevalenceFalls ==
    /\ \A h, w \in Int : ComputeCollectionPrevalenceScore(h, w) \in 0..100
    /\ \A h, k, w \in Int : h <= k =>
          ComputeCollectionPrevalenceScore(k, w) <= ComputeCollectionPrevalenceScore(h, w)
    /\ \A h, w, x \in Int : w <= x =>
          ComputeCollectionPrevalenceScore(h, w) <= ComputeCollectionPrevalenceScore(h, x)
<1> DEFINE limits == <<0, 10, 100, 1000, 10000>>
           scores == <<95, 85, 70, 50, 25, 10>>
<1>1. limits \in [1..5 -> Int] /\ scores \in [1..(5 + 1) -> Int] /\ \A i \in 1..(5 + 1) : scores[i] \in 0..95
    OBVIOUS
<1>2. \A i, j \in 1..(5 + 1) : i <= j => scores[j] <= scores[i]
    OBVIOUS
<1> HIDE DEF limits, scores
<1>3. \A v \in Int : \E i \in 1..(5 + 1) : Step(v, limits, scores) = scores[i] /\ FirstFit(i, v, 5, limits)
    BY <1>1, StepAt
<1>4. \A u, v \in Int : u <= v => Step(v, limits, scores) <= Step(u, limits, scores)
    BY <1>1, <1>2, StepFalls
<1>5. \A v \in Int : Step(v, limits, scores) \in 0..95
    BY <1>1, <1>3
<1>6. \A b \in 0..95 : Min({100, b + 5}) = b + 5
  <2> SUFFICES ASSUME NEW b \in 0..95 PROVE Min({100, b + 5}) = b + 5
      OBVIOUS
  <2> QED
      BY DEF Min
<1>7. \A h, w \in Int : ComputeCollectionPrevalenceScore(h, w) =
          IF w > h THEN Min({100, Step(h, limits, scores) + 5}) ELSE Step(h, limits, scores)
  <2> SUFFICES ASSUME NEW h \in Int, NEW w \in Int
               PROVE  ComputeCollectionPrevalenceScore(h, w) =
                        IF w > h THEN Min({100, Step(h, limits, scores) + 5}) ELSE Step(h, limits, scores)
      OBVIOUS
  <2> QED
      BY DEF ComputeCollectionPrevalenceScore, limits, scores
<1>8. \A h, w \in Int : ComputeCollectionPrevalenceScore(h, w) =
          IF w > h THEN Step(h, limits, scores) + 5 ELSE Step(h, limits, scores)
    BY <1>5, <1>6, <1>7
<1>9. ASSUME NEW h \in Int, NEW w \in Int PROVE ComputeCollectionPrevalenceScore(h, w) \in 0..100
    BY <1>5, <1>8
<1>10. ASSUME NEW h \in Int, NEW k \in Int, NEW w \in Int, h <= k
       PROVE  ComputeCollectionPrevalenceScore(k, w) <= ComputeCollectionPrevalenceScore(h, w)
  <2>1. Step(k, limits, scores) <= Step(h, limits, scores)
      BY <1>4, <1>10
  <2> QED
    <3>1. Step(k, limits, scores) \in 0..95 /\ Step(h, limits, scores) \in 0..95
        BY <1>5
    <3> QED
        BY <1>8, <1>10, <2>1, <3>1, SMTT(40)
<1>11. ASSUME NEW h \in Int, NEW w \in Int, NEW x \in Int, w <= x
       PROVE  ComputeCollectionPrevalenceScore(h, w) <= ComputeCollectionPrevalenceScore(h, x)
    BY <1>5, <1>8, <1>11
<1> QED
    BY <1>9, <1>10, <1>11

LEMMA MinOfTwo ==
    ASSUME NEW a \in Int, NEW b \in Int
    PROVE  Min({a, b}) = IF a <= b THEN a ELSE b
BY DEF Min

LEMMA MaxOfTwo ==
    ASSUME NEW a \in Int, NEW b \in Int
    PROVE  Max({a, b}) = IF a >= b THEN a ELSE b
BY DEF Max

LEMMA Clipped ==
    ASSUME NEW x \in Int
    PROVE  Max({0, Min({200, x})}) = IF x < 0 THEN 0 ELSE IF x > 200 THEN 200 ELSE x
<1>1. PICK y \in Int : y = Min({200, x}) /\ y = IF x <= 200 THEN x ELSE 200
    BY MinOfTwo
<1>2. Max({0, y}) = IF y <= 0 THEN 0 ELSE y
    BY MaxOfTwo
<1> QED
    BY <1>1, <1>2

(* A release grows rarer with age, and a reissue never makes it rarer.     *)
LEMMA TemporalMoves ==
    ASSUME NEW f, f.released \in Int, f.reissued \in Int, NEW now \in Nat
    PROVE  /\ ComputeTemporalScarcityHalves(f, now) \in 0..200
           /\ ComputeTemporalScarcityHalves(f, now) <= ComputeTemporalScarcityHalves(f, now + 1)
           /\ \A g : g.released = f.released /\ g.reissued = now =>
                 ComputeTemporalScarcityHalves(g, now) <= ComputeTemporalScarcityHalves(f, now)
<1> DEFINE age(t) == IF 3 * (t - f.released) < 0 THEN 0
                     ELSE IF 3 * (t - f.released) > 200 THEN 200 ELSE 3 * (t - f.released)
           less(b) == IF b <= 80 THEN 0 ELSE b - 80
<1>1. ASSUME NEW t \in Int
      PROVE  Max({0, Min({200, 3 * (t - f.released)})}) = age(t) /\ age(t) \in 0..200
  <2>1. PICK x \in Int : x = 3 * (t - f.released)
      OBVIOUS
  <2>2. Max({0, Min({200, x})}) = age(t)
      BY <2>1, Clipped
  <2>3. age(t) \in 0..200
      OBVIOUS
  <2> HIDE DEF age
  <2> QED
      BY <2>1, <2>2, <2>3, Zenon
<1>2. ASSUME NEW b \in 0..200 PROVE Max({0, b - 80}) = less(b) /\ less(b) \in 0..120
  <2>1. b - 80 \in Int
      OBVIOUS
  <2> QED
      BY <2>1, MaxOfTwo
<1>3. ASSUME NEW h, h.released = f.released, NEW t \in Int
      PROVE  ComputeTemporalScarcityHalves(h, t) =
               IF f.released = Unknown THEN 100
               ELSE IF h.reissued # Unknown /\ h.reissued >= t - 10 THEN less(age(t)) ELSE age(t)
  <2>1. PICK b \in 0..200 : b = Max({0, Min({200, 3 * (t - f.released)})}) /\ b = age(t)
      BY <1>1, ZenonT(60)
  <2>2. Max({0, b - 80}) = less(b)
      BY <1>2
  <2> HIDE DEF age, less
  <2> QED
      BY <1>3, <2>1, <2>2, ZenonT(60) DEF ComputeTemporalScarcityHalves
<1>4. age(now) \in 0..200 /\ age(now + 1) \in 0..200 /\ age(now) <= age(now + 1)
    OBVIOUS
<1>5. /\ less(age(now)) \in 0..120 /\ less(age(now + 1)) \in 0..120
      /\ less(age(now)) <= less(age(now + 1)) /\ less(age(now)) <= age(now)
    BY <1>4
<1> HIDE DEF age, less
<1>6. ComputeTemporalScarcityHalves(f, now) =
        IF f.released = Unknown THEN 100
        ELSE IF f.reissued # Unknown /\ f.reissued >= now - 10 THEN less(age(now)) ELSE age(now)
    BY <1>3
<1>7. ComputeTemporalScarcityHalves(f, now + 1) =
        IF f.released = Unknown THEN 100
        ELSE IF f.reissued # Unknown /\ f.reissued >= (now + 1) - 10 THEN less(age(now + 1)) ELSE age(now + 1)
  <2>1. now + 1 \in Int
      OBVIOUS
  <2> QED
      BY <1>3, <2>1
<1>8. ASSUME NEW g, g.released = f.released, g.reissued = now
      PROVE  ComputeTemporalScarcityHalves(g, now) <= ComputeTemporalScarcityHalves(f, now)
  <2>1. ComputeTemporalScarcityHalves(g, now) =
          IF f.released = Unknown THEN 100
          ELSE IF g.reissued # Unknown /\ g.reissued >= now - 10 THEN less(age(now)) ELSE age(now)
      BY <1>3, <1>8
  <2> QED
      BY <1>4, <1>5, <1>6, <1>8, <2>1 DEF Unknown
<1>9. ComputeTemporalScarcityHalves(f, now) <= ComputeTemporalScarcityHalves(f, now + 1)
  <2>0. age(now) \in Int /\ age(now + 1) \in Int /\ less(age(now)) \in Int /\ less(age(now + 1)) \in Int
      BY <1>4, <1>5
  <2>1. PICK a \in Int, b \in Int, c \in Int, d \in Int, r \in Int :
           a = age(now) /\ b = age(now + 1) /\ c = less(age(now)) /\ d = less(age(now + 1)) /\ r = f.reissued
      BY <2>0, Zenon
  <2>2. a <= b /\ c <= d /\ c <= a
      BY <1>4, <1>5, <2>1
  <2>3. ComputeTemporalScarcityHalves(f, now) =
          IF f.released = Unknown THEN 100 ELSE IF r # Unknown /\ r >= now - 10 THEN c ELSE a
      BY <1>6, <2>1
  <2>4. ComputeTemporalScarcityHalves(f, now + 1) =
          IF f.released = Unknown THEN 100 ELSE IF r # Unknown /\ r >= (now + 1) - 10 THEN d ELSE b
      BY <1>7, <2>1
  <2> QED
      BY <2>2, <2>3, <2>4
<1>10. ComputeTemporalScarcityHalves(f, now) \in 0..200
    BY <1>4, <1>5, <1>6
<1> QED
    BY <1>8, <1>9, <1>10

LEMMA GreatestOfScale ==
    ASSUME NEW S \in SUBSET (0..100), S # {}
    PROVE  Max(S) \in 0..100
<1> DEFINE up == {100 - x : x \in S}
<1>1. up \subseteq Nat /\ up # {}
  <2>1. \A x \in S : 100 - x \in Nat
      OBVIOUS
  <2> QED
      BY <2>1
<1>2. PICK u \in up : \A y \in up : u <= y
  <2> HIDE DEF up
  <2> QED
      BY <1>1, LeastNumber
<1>3. PICK x \in S : u = 100 - x
    BY <1>2
<1>4. \A y \in S : x >= y
  <2> SUFFICES ASSUME NEW y \in S PROVE x >= y
      OBVIOUS
  <2>1. 100 - y \in up
      OBVIOUS
  <2>2. u <= 100 - y
      BY <1>2, <2>1
  <2> QED
      BY <1>3, <2>2
<1> QED
    BY <1>4 DEF Max

(* The rarest carrier of any media is on the scale.                        *)
LEMMA MediumOnScale ==
    ASSUME NEW f
    PROVE  ComputeMediumRarityScore(ResolveMedia(f)) \in 0..100
<1>1. \A x : FamilyScore(x) \in 0..100
    BY ScoreAssumption DEF FamilyScore, DefaultMediumRarity
<1>2. \A p : MediumRarityScore(p) \in 0..100
    BY <1>1, ScoreAssumption DEF MediumRarityScore
<1>3. PICK m : m = ResolveMedia(f)
    OBVIOUS
<1>4. CASE m.mediums # {}
  <2>1. Max({MediumRarityScore(p) : p \in m.mediums}) \in 0..100
      BY <1>2, <1>4, GreatestOfScale
  <2> QED
      BY <1>3, <1>4, <2>1 DEF ComputeMediumRarityScore
<1>5. CASE m.mediums = {} /\ m.families # {}
  <2>1. Max({FamilyScore(x) : x \in m.families}) \in 0..100
      BY <1>1, <1>5, GreatestOfScale
  <2> QED
      BY <1>3, <1>5, <2>1 DEF ComputeMediumRarityScore
<1>6. CASE m.mediums = {} /\ m.families = {}
    BY <1>3, <1>6 DEF ComputeMediumRarityScore, DefaultMediumRarity
<1> QED
    BY <1>4, <1>5, <1>6

(* The score of a release: the weighted sum of its signals, with pressings *)
(* counting for grooved media alone.                                       *)
SignalsOf(f, now) ==
    [label |-> 2 * ComputeLabelCatalogScore(f.catalog),
     medium |-> 2 * ComputeMediumRarityScore(ResolveMedia(f)),
     temporal |-> ComputeTemporalScarcityHalves(f, now),
     isolation |-> 2 * ComputeGraphIsolationScore(f.degree),
     prevalence |-> IF f.have = Unknown THEN 100 ELSE 2 * ComputeCollectionPrevalenceScore(f.have, f.want),
     pressing |-> 2 * ComputePressingScarcityScore(f.pressings)]

Typed(f) ==
    /\ f.pressings \in Nat /\ f.catalog \in Nat /\ f.degree \in Nat /\ f.want \in Nat
    /\ f.have \in Int /\ f.released \in Int /\ f.reissued \in Int

LEMMA SignalsOnScale ==
    ASSUME NEW f, Typed(f), NEW now \in Nat
    PROVE  SignalsOf(f, now) \in [label : 0..200, medium : 0..200, temporal : 0..200, isolation : 0..200,
                                  prevalence : 0..200, pressing : 0..200]
<1>0. \A x \in 0..100 : 2 * x \in 0..200
    OBVIOUS
<1>t. /\ f.pressings \in Int /\ f.catalog \in Int /\ f.degree \in Int /\ f.want \in Int
      /\ f.have \in Int /\ f.released \in Int /\ f.reissued \in Int
    BY DEF Typed
<1>1. 2 * ComputeLabelCatalogScore(f.catalog) \in 0..200
    BY <1>0, <1>t, LabelFalls, Zenon
<1>2. 2 * ComputeMediumRarityScore(ResolveMedia(f)) \in 0..200
    BY <1>0, MediumOnScale, Zenon
<1>3. ComputeTemporalScarcityHalves(f, now) \in 0..200
    BY <1>t, TemporalMoves
<1>4. 2 * ComputeGraphIsolationScore(f.degree) \in 0..200
    BY <1>0, <1>t, IsolationFalls, Zenon
<1>5. (IF f.have = Unknown THEN 100 ELSE 2 * ComputeCollectionPrevalenceScore(f.have, f.want)) \in 0..200
  <2>1. 2 * ComputeCollectionPrevalenceScore(f.have, f.want) \in 0..200
      BY <1>0, <1>t, PrevalenceFalls, Zenon
  <2> QED
      BY <2>1
<1>6. 2 * ComputePressingScarcityScore(f.pressings) \in 0..200
    BY <1>0, <1>t, PressingFalls, Zenon
<1> QED
    BY <1>1, <1>2, <1>3, <1>4, <1>5, <1>6 DEF SignalsOf

LEMMA ScoreIs ==
    ASSUME NEW f, Typed(f), NEW now \in Nat, NEW g, g = AppliesTo(ResolveMedia(f).families), NEW s,
           s = SignalsOf(f, now)
    PROVE  CompositeScore(f, now) =
             [n |-> 10 * s.label + 10 * s.medium + 20 * s.temporal + 15 * s.isolation + 20 * s.prevalence
                    + (IF g THEN 25 * s.pressing ELSE 0),
              d |-> IF g THEN 100 ELSE 75]
<1>0. /\ s.label \in 0..200 /\ s.medium \in 0..200 /\ s.temporal \in 0..200 /\ s.isolation \in 0..200
      /\ s.prevalence \in 0..200 /\ s.pressing \in 0..200
  <2>1. s \in [label : 0..200, medium : 0..200, temporal : 0..200, isolation : 0..200,
               prevalence : 0..200, pressing : 0..200]
      BY SignalsOnScale, SMTT(40)
  <2> QED
      BY <2>1
<1> DEFINE w == Weights(f)
           v == Signals(f, now)
           D == IF g THEN SignalNames ELSE SignalNames \ {"pressing_scarcity"}
           p == [k \in DOMAIN w |-> w[k] * v[k]]
<1>1. /\ w \in [D -> Int]
      /\ w["label_catalog"] = 10 /\ w["medium_rarity"] = 10 /\ w["temporal_scarcity"] = 20
      /\ w["graph_isolation"] = 15 /\ w["collection_prevalence"] = 20
      /\ g => w["pressing_scarcity"] = 25
  <2>1. CASE g
      BY <2>1 DEF Weights, Joined, CoreSignalWeights, SignalNames
  <2>2. CASE ~g
      BY <2>2 DEF Weights, CoreSignalWeights, SignalNames
  <2> QED
      BY <2>1, <2>2
<1>2. /\ v["label_catalog"] = s.label /\ v["medium_rarity"] = s.medium /\ v["temporal_scarcity"] = s.temporal
      /\ v["graph_isolation"] = s.isolation /\ v["collection_prevalence"] = s.prevalence
      /\ g => v["pressing_scarcity"] = s.pressing
  <2>1. CASE g
      BY <2>1 DEF Signals, Joined, CoreSignals, SignalsOf
  <2>2. CASE ~g
      BY <2>2 DEF Signals, CoreSignals, SignalsOf
  <2> QED
      BY <2>1, <2>2
<1> HIDE DEF w, v
<1>3. /\ p["label_catalog"] = 10 * s.label /\ p["medium_rarity"] = 10 * s.medium
      /\ p["temporal_scarcity"] = 20 * s.temporal /\ p["graph_isolation"] = 15 * s.isolation
      /\ p["collection_prevalence"] = 20 * s.prevalence
      /\ g => p["pressing_scarcity"] = 25 * s.pressing
    BY <1>1, <1>2 DEF SignalNames
<1>p. p = [k \in D |-> p[k]]
    BY <1>1
<1> HIDE DEF p
<1>4. p \in [D -> Int]
  <2>1. \A k \in SignalNames \ {"pressing_scarcity"} : p[k] \in Int
    <3>0. PICK a \in Int, b \in Int, c \in Int, e \in Int, h \in Int :
             a = s.label /\ b = s.medium /\ c = s.temporal /\ e = s.isolation /\ h = s.prevalence
      <4>1. /\ s.label \in Int /\ s.medium \in Int /\ s.temporal \in Int /\ s.isolation \in Int
            /\ s.prevalence \in Int
        <5> HIDE DEF D
        <5> QED
            BY <1>0, SMTT(40)
      <4> QED
          BY <4>1, Zenon
    <3> HIDE DEF D
    <3>2. /\ p["label_catalog"] = 10 * a /\ p["medium_rarity"] = 10 * b /\ p["temporal_scarcity"] = 20 * c
          /\ p["graph_isolation"] = 15 * e /\ p["collection_prevalence"] = 20 * h
        BY <1>3, <3>0, Zenon
    <3>1. /\ p["label_catalog"] \in Int /\ p["medium_rarity"] \in Int /\ p["temporal_scarcity"] \in Int
          /\ p["graph_isolation"] \in Int /\ p["collection_prevalence"] \in Int
        BY <3>2
    <3> QED
        BY <3>1 DEF SignalNames
  <2>2. g => p["pressing_scarcity"] \in Int
      BY <1>0, <1>3
  <2>3. \A k \in D : p[k] \in Int
      BY <2>1, <2>2
  <2> HIDE DEF D
  <2> QED
      BY <1>p, <2>3
<1>5. D \in SUBSET SignalNames
    OBVIOUS
<1>6. CompositeScore(f, now) = [n |-> Summed(p), d |-> Summed(w)]
    BY DEF CompositeScore, Compose, TotalWeight, w, v, p
<1>7. Summed(w) = IF g THEN 100 ELSE 75
    BY <1>1, <1>5, TotalIs DEF Share, SignalNames
<1>8. Summed(p) = 10 * s.label + 10 * s.medium + 20 * s.temporal + 15 * s.isolation + 20 * s.prevalence
                 + (IF g THEN 25 * s.pressing ELSE 0)
    BY <1>0, <1>3, <1>4, <1>5, TotalIs DEF Share, SignalNames
<1> QED
    BY <1>6, <1>7, <1>8

(* Scores of the same release compare as their sums, and tiers with them.  *)
LEMMA SumsCompare ==
    ASSUME NEW x, NEW y, x.n \in Int, y.n \in Int, x.n <= y.n, x.d = y.d, x.d \in {75, 100}
    PROVE  AtMost(x, y) /\ Tier(x) <= Tier(y)
<1>0. PICK m \in Int, k \in Int, d \in {75, 100} : m = x.n /\ k = y.n /\ d = x.d /\ d = y.d
    OBVIOUS
<1> DEFINE low == {t \in {20, 40, 60, 80} : m >= 2 * t * d}
           high == {t \in {20, 40, 60, 80} : k >= 2 * t * d}
<1>1. m * d <= k * d
  <2>1. CASE d = 75
      BY <1>0, <2>1
  <2>2. CASE d = 100
      BY <1>0, <2>2
  <2> QED
      BY <2>1, <2>2
<1>2. low \subseteq high
  <2> SUFFICES ASSUME NEW t \in low PROVE t \in high
      OBVIOUS
  <2>1. 2 * t * d \in Int /\ t \in {20, 40, 60, 80}
      OBVIOUS
  <2>2. k >= 2 * t * d
      BY <1>0, <2>1
  <2> QED
      BY <2>1, <2>2
<1>3. IsFiniteSet(high)
  <2>1. PICK a \in Int, b \in Int : a = 20 /\ b = 80
      OBVIOUS
  <2>2. IsFiniteSet(a..b)
      BY FS_Interval
  <2>3. high \subseteq a..b
      BY <2>1
  <2> QED
      BY <2>2, <2>3, FS_Subset
<1>4. Cardinality(low) <= Cardinality(high)
    BY <1>2, <1>3, FS_Subset
<1>5. Tier(x) = Cardinality(low) /\ Tier(y) = Cardinality(high)
    BY <1>0 DEF Tier
<1> QED
    BY <1>0, <1>1, <1>4, <1>5 DEF AtMost

Below(s, t) ==
    /\ s.label <= t.label /\ s.medium = t.medium /\ s.temporal <= t.temporal /\ s.isolation <= t.isolation
    /\ s.prevalence <= t.prevalence /\ s.pressing <= t.pressing

(* Signals that are no higher, for the same media, score no higher.        *)
LEMMA BelowScores ==
    ASSUME NEW f, Typed(f), NEW now \in Nat, NEW h, Typed(h), NEW then \in Nat,
           ResolveMedia(f) = ResolveMedia(h), Below(SignalsOf(f, now), SignalsOf(h, then))
    PROVE  /\ AtMost(CompositeScore(f, now), CompositeScore(h, then))
           /\ Tier(CompositeScore(f, now)) <= Tier(CompositeScore(h, then))
<1>1. PICK s, t, g : s = SignalsOf(f, now) /\ t = SignalsOf(h, then) /\ g = AppliesTo(ResolveMedia(f).families)
    OBVIOUS
<1> DEFINE sum(r) == 10 * r.label + 10 * r.medium + 20 * r.temporal + 15 * r.isolation + 20 * r.prevalence
                     + (IF g THEN 25 * r.pressing ELSE 0)
           d == IF g THEN 100 ELSE 75
<1>2. /\ s \in [label : 0..200, medium : 0..200, temporal : 0..200, isolation : 0..200,
                prevalence : 0..200, pressing : 0..200]
      /\ t \in [label : 0..200, medium : 0..200, temporal : 0..200, isolation : 0..200,
                prevalence : 0..200, pressing : 0..200]
    BY <1>1, SignalsOnScale, ZenonT(60)
<1>3. CompositeScore(f, now) = [n |-> sum(s), d |-> d] /\ CompositeScore(h, then) = [n |-> sum(t), d |-> d]
  <2>1. CompositeScore(f, now) = [n |-> sum(s), d |-> d]
      BY <1>1, ScoreIs
  <2>2. CompositeScore(h, then) = [n |-> sum(t), d |-> d]
      BY <1>1, ScoreIs
  <2> QED
      BY <2>1, <2>2
<1>4. sum(s) \in Int /\ sum(t) \in Int /\ sum(s) <= sum(t)
  <2>1. PICK a \in Int, b \in Int, c \in Int, e \in Int, p \in Int, q \in Int :
           a = s.label /\ b = s.medium /\ c = s.temporal /\ e = s.isolation /\ p = s.prevalence /\ q = s.pressing
    <3>1. /\ s.label \in Int /\ s.medium \in Int /\ s.temporal \in Int
          /\ s.isolation \in Int /\ s.prevalence \in Int /\ s.pressing \in Int
        BY <1>2
    <3> QED
        BY <3>1, Zenon
  <2>2. PICK i \in Int, j \in Int, k \in Int, l \in Int, m \in Int, n \in Int :
           i = t.label /\ j = t.medium /\ k = t.temporal /\ l = t.isolation /\ m = t.prevalence /\ n = t.pressing
    <3>1. /\ t.label \in Int /\ t.medium \in Int /\ t.temporal \in Int
          /\ t.isolation \in Int /\ t.prevalence \in Int /\ t.pressing \in Int
        BY <1>2
    <3> QED
        BY <3>1, Zenon
  <2>3. a <= i /\ b = j /\ c <= k /\ e <= l /\ p <= m /\ q <= n
      BY <1>1, <2>1, <2>2 DEF Below
  <2>4. sum(s) = 10 * a + 10 * b + 20 * c + 15 * e + 20 * p + (IF g THEN 25 * q ELSE 0)
      BY <2>1
  <2>5. sum(t) = 10 * i + 10 * j + 20 * k + 15 * l + 20 * m + (IF g THEN 25 * n ELSE 0)
      BY <2>2
  <2> HIDE DEF sum
  <2> QED
      BY <2>3, <2>4, <2>5
<1>5. d \in {75, 100}
    OBVIOUS
<1> HIDE DEF sum, d
<1> QED
  <2>1. PICK x, y : x = [n |-> sum(s), d |-> d] /\ y = [n |-> sum(t), d |-> d]
      OBVIOUS
  <2>2. AtMost(x, y) /\ Tier(x) <= Tier(y)
      BY <1>4, <1>5, <2>1, SumsCompare
  <2> QED
      BY <1>3, <2>1, <2>2

(* The facts of a release are counts and years, whatever is imported.      *)
FactsInv ==
    /\ facts \in [mediums : SUBSET Media, declared : SUBSET DOMAIN FamilyDefaults,
                  formats : SUBSET DOMAIN RecoveredFrom, pressings : Nat, catalog : Nat, degree : Nat,
                  have : Int, want : Nat, released : Int, reissued : Int]
    /\ year \in Nat

LEMMA NextCountIs ==
    ASSUME NEW v, \E n \in Counts : n > v
    PROVE  NextCount(v) \in Nat /\ NextCount(v) > v
<1> DEFINE beyond == {n \in Counts : n > v}
<1>1. beyond \in SUBSET Nat /\ beyond # {}
    BY ScoreAssumption
<1>2. \E x \in beyond : \A y \in beyond : x <= y
  <2> HIDE DEF beyond
  <2> QED
      BY <1>1, LeastNumber
<1>3. Min(beyond) \in beyond
    BY <1>2 DEF Min
<1> QED
    BY <1>1, <1>3 DEF NextCount

LEMMA FactsTyped == FactsInv => Typed(facts) /\ year \in Nat
BY DEF FactsInv, Typed

(* What each step does to the facts.                                       *)
LEMMA GrowsIs ==
    ASSUME FactsInv, NEW field \in {"pressings", "catalog", "degree", "have", "want"}, Grows(field)
    PROVE  /\ FactsInv' /\ year' = year
           /\ \E n \in Nat : n > facts[field] /\ facts' = [facts EXCEPT ![field] = n]
<1>1. PICK n \in Nat : n = NextCount(facts[field]) /\ n > facts[field]
    BY NextCountIs DEF Grows
<1>2. facts' = [facts EXCEPT ![field] = n] /\ year' = year
    BY <1>1 DEF Grows
<1>3. FactsInv'
    BY <1>2 DEF FactsInv
<1> QED
    BY <1>1, <1>2, <1>3

LEMMA FactsInitInv == ScoreInit => FactsInv
<1> SUFFICES ASSUME ScoreInit PROVE FactsInv
    OBVIOUS
<1>1. facts \in [mediums : SUBSET Media, declared : SUBSET DOMAIN FamilyDefaults,
                  formats : SUBSET DOMAIN RecoveredFrom, pressings : {0}, catalog : {0}, degree : {0},
                  have : {0, Unknown}, want : {0}, released : Years, reissued : {Unknown}]
    BY DEF ScoreInit
<1>2. year \in Nat /\ Unknown \in Int /\ Years \subseteq Int
    BY ScoreAssumption DEF ScoreInit, Unknown
<1> QED
  <2>1. /\ facts.pressings \in Nat /\ facts.catalog \in Nat /\ facts.degree \in Nat /\ facts.want \in Nat
        /\ facts.have \in Int /\ facts.released \in Int /\ facts.reissued \in Int
        /\ facts.mediums \in SUBSET Media /\ facts.declared \in SUBSET DOMAIN FamilyDefaults
        /\ facts.formats \in SUBSET DOMAIN RecoveredFrom
    <3>1. /\ facts.pressings = 0 /\ facts.catalog = 0 /\ facts.degree = 0 /\ facts.want = 0
          /\ facts.have \in {0, Unknown} /\ facts.released \in Years /\ facts.reissued = Unknown
          /\ facts.mediums \in SUBSET Media /\ facts.declared \in SUBSET DOMAIN FamilyDefaults
          /\ facts.formats \in SUBSET DOMAIN RecoveredFrom
        BY <1>1
    <3>2. facts.have \in Int /\ facts.released \in Int /\ facts.reissued \in Int
      <4>1. facts.have \in Int
          BY <3>1 DEF Unknown
      <4>2. facts.reissued \in Int
          BY <1>2, <3>1, Zenon
      <4>3. facts.released \in Int
          BY <1>2, <3>1, Zenon
      <4> QED
          BY <4>1, <4>2, <4>3
    <3> QED
        BY <3>1, <3>2
  <2>2. facts = [mediums |-> facts.mediums, declared |-> facts.declared, formats |-> facts.formats,
                 pressings |-> facts.pressings, catalog |-> facts.catalog, degree |-> facts.degree,
                 have |-> facts.have, want |-> facts.want, released |-> facts.released,
                 reissued |-> facts.reissued]
      BY <1>1
  <2> QED
      BY <1>2, <2>1, <2>2 DEF FactsInv

LEMMA FactsNextInv ==
    ASSUME FactsInv, ScoreNext \/ UNCHANGED scoreVars
    PROVE  FactsInv'
<1>1. CASE PressingImported \/ LabelGrows \/ Connected \/ CollectorAdds \/ CollectorWants
    BY <1>1, GrowsIs DEF PressingImported, LabelGrows, Connected, CollectorAdds, CollectorWants
<1>2. CASE MasterLinked
    BY <1>2 DEF MasterLinked, FactsInv
<1>3. CASE Reissued
    BY <1>3 DEF Reissued, FactsInv
<1>4. CASE YearPasses
    BY <1>4 DEF YearPasses, FactsInv
<1>5. CASE UNCHANGED scoreVars
    BY <1>5 DEF scoreVars, FactsInv
<1> QED
    BY <1>1, <1>2, <1>3, <1>4, <1>5 DEF ScoreNext

(* The media of a release are read from fields no step changes.            *)
LEMMA MediaStay ==
    ASSUME NEW f, NEW h, f.mediums = h.mediums, f.declared = h.declared, f.formats = h.formats
    PROVE  ResolveMedia(f) = ResolveMedia(h)
BY DEF ResolveMedia

(* A step to facts that are less rare, or as rare, scores no higher.       *)
LEMMA StepCompares ==
    ASSUME FactsInv, FactsInv', ResolveMedia(facts') = ResolveMedia(facts)
    PROVE  /\ Below(SignalsOf(facts', year'), SignalsOf(facts, year)) =>
                /\ AtMost(CompositeScore(facts', year'), CompositeScore(facts, year))
                /\ Tier(CompositeScore(facts', year')) <= Tier(CompositeScore(facts, year))
           /\ Below(SignalsOf(facts, year), SignalsOf(facts', year')) =>
                /\ AtMost(CompositeScore(facts, year), CompositeScore(facts', year'))
                /\ Tier(CompositeScore(facts, year)) <= Tier(CompositeScore(facts', year'))
<1>1. PICK f, h, n, m : f = facts /\ h = facts' /\ n = year /\ m = year'
    OBVIOUS
<1>2. Typed(f) /\ Typed(h) /\ n \in Nat /\ m \in Nat
    BY <1>1 DEF FactsInv, Typed
<1>3. ResolveMedia(h) = ResolveMedia(f)
    BY <1>1
<1>4. Below(SignalsOf(h, m), SignalsOf(f, n)) =>
         AtMost(CompositeScore(h, m), CompositeScore(f, n)) /\ Tier(CompositeScore(h, m)) <= Tier(CompositeScore(f, n))
    BY <1>2, <1>3, BelowScores
<1>5. Below(SignalsOf(f, n), SignalsOf(h, m)) =>
         AtMost(CompositeScore(f, n), CompositeScore(h, m)) /\ Tier(CompositeScore(f, n)) <= Tier(CompositeScore(h, m))
    BY <1>2, <1>3, BelowScores
<1> QED
    BY <1>1, <1>4, <1>5

LEMMA GrowthLowers ==
    ASSUME FactsInv, PressingImported \/ LabelGrows \/ Connected \/ CollectorAdds \/ Reissued
    PROVE  ResolveMedia(facts') = ResolveMedia(facts) /\ Below(SignalsOf(facts', year'), SignalsOf(facts, year))
<1>1. PICK f, h, n : f = facts /\ h = facts' /\ n = year
    OBVIOUS
<1>2. /\ f.pressings \in Nat /\ f.catalog \in Nat /\ f.degree \in Nat /\ f.want \in Nat
      /\ f.have \in Int /\ f.released \in Int /\ f.reissued \in Int /\ n \in Nat
    BY <1>1 DEF FactsInv
<1>3. year' = n
    BY <1>1 DEF PressingImported, LabelGrows, Connected, CollectorAdds, Reissued, Grows
<1>4. \A field \in {"pressings", "catalog", "degree", "have", "want"} : Grows(field) =>
         \E k \in Nat : k > f[field] /\ h = [f EXCEPT ![field] = k]
    BY <1>1, GrowsIs
<1>5. /\ h.mediums = f.mediums /\ h.declared = f.declared /\ h.formats = f.formats
      /\ h.released = f.released /\ h.want = f.want
      /\ \/ h.reissued = f.reissued \/ h.reissued = n
      /\ h.catalog \in Nat /\ f.catalog <= h.catalog /\ h.degree \in Nat /\ f.degree <= h.degree
      /\ h.pressings \in Nat /\ (h.pressings = f.pressings \/ (0 < f.pressings /\ f.pressings <= h.pressings))
      /\ h.have \in Int /\ (h.have = f.have \/ (f.have # Unknown /\ h.have # Unknown /\ f.have <= h.have))
  <2>1. CASE PressingImported
    <3>1. PICK k \in Nat : k > f.pressings /\ h = [f EXCEPT !.pressings = k]
        BY <1>4, <2>1 DEF PressingImported
    <3>2. /\ h.pressings = k /\ h.mediums = f.mediums /\ h.declared = f.declared /\ h.formats = f.formats
          /\ h.catalog = f.catalog /\ h.degree = f.degree /\ h.have = f.have
          /\ h.want = f.want /\ h.released = f.released /\ h.reissued = f.reissued
        BY <1>1, <3>1 DEF FactsInv
    <3>3. f.pressings > 0
        BY <1>1, <2>1 DEF PressingImported
    <3> QED
        BY <1>2, <3>1, <3>2, <3>3
  <2>2. CASE LabelGrows
    <3>1. PICK k \in Nat : k > f.catalog /\ h = [f EXCEPT !.catalog = k]
        BY <1>4, <2>2 DEF LabelGrows
    <3>2. /\ h.catalog = k /\ h.mediums = f.mediums /\ h.declared = f.declared /\ h.formats = f.formats
          /\ h.pressings = f.pressings /\ h.degree = f.degree /\ h.have = f.have
          /\ h.want = f.want /\ h.released = f.released /\ h.reissued = f.reissued
        BY <1>1, <3>1 DEF FactsInv
    <3> QED
        BY <1>2, <3>1, <3>2
  <2>3. CASE Connected
    <3>1. PICK k \in Nat : k > f.degree /\ h = [f EXCEPT !.degree = k]
        BY <1>4, <2>3 DEF Connected
    <3>3. /\ h.degree = k
          /\ h.mediums = f.mediums /\ h.declared = f.declared /\ h.formats = f.formats /\ h.pressings = f.pressings /\ h.catalog = f.catalog
          /\ h.have = f.have /\ h.want = f.want /\ h.released = f.released /\ h.reissued = f.reissued
        BY <1>1, <3>1 DEF FactsInv
    <3> QED
        BY <1>2, <3>1, <3>3
  <2>4. CASE CollectorAdds
    <3>1. PICK k \in Nat : k > f.have /\ h = [f EXCEPT !.have = k]
        BY <1>4, <2>4 DEF CollectorAdds
    <3>2. f.have # Unknown /\ k # Unknown
        BY <1>1, <2>4 DEF CollectorAdds, Grows, Unknown
    <3>3. /\ h.have = k
          /\ h.mediums = f.mediums /\ h.declared = f.declared /\ h.formats = f.formats /\ h.pressings = f.pressings /\ h.catalog = f.catalog
          /\ h.degree = f.degree /\ h.want = f.want /\ h.released = f.released /\ h.reissued = f.reissued
        BY <1>1, <3>1 DEF FactsInv
    <3> QED
        BY <1>2, <3>1, <3>3, <3>2
  <2>5. CASE Reissued
    <3>1. h = [f EXCEPT !.reissued = n]
        BY <1>1, <2>5 DEF Reissued
    <3>3. /\ h.reissued = n
          /\ h.mediums = f.mediums /\ h.declared = f.declared /\ h.formats = f.formats /\ h.pressings = f.pressings /\ h.catalog = f.catalog
          /\ h.degree = f.degree /\ h.have = f.have /\ h.want = f.want /\ h.released = f.released
        BY <1>1, <3>1 DEF FactsInv
    <3> QED
        BY <1>2, <3>1, <3>3
  <2> QED
      BY <2>1, <2>2, <2>3, <2>4, <2>5
<1>6. ResolveMedia(h) = ResolveMedia(f)
    BY <1>5, MediaStay
<1>7. ComputeLabelCatalogScore(h.catalog) <= ComputeLabelCatalogScore(f.catalog)
      /\ ComputeLabelCatalogScore(h.catalog) \in 0..100 /\ ComputeLabelCatalogScore(f.catalog) \in 0..100
    BY <1>2, <1>5, LabelFalls
<1>8. ComputeGraphIsolationScore(h.degree) <= ComputeGraphIsolationScore(f.degree)
      /\ ComputeGraphIsolationScore(h.degree) \in 0..100 /\ ComputeGraphIsolationScore(f.degree) \in 0..100
    BY <1>2, <1>5, IsolationFalls
<1>9. ComputePressingScarcityScore(h.pressings) <= ComputePressingScarcityScore(f.pressings)
      /\ ComputePressingScarcityScore(h.pressings) \in 0..100 /\ ComputePressingScarcityScore(f.pressings) \in 0..100
    BY <1>2, <1>5, PressingFalls
<1>10. ComputeCollectionPrevalenceScore(h.have, h.want) <= ComputeCollectionPrevalenceScore(f.have, f.want)
      /\ ComputeCollectionPrevalenceScore(h.have, h.want) \in 0..100
      /\ ComputeCollectionPrevalenceScore(f.have, f.want) \in 0..100
      /\ (h.have = Unknown <=> f.have = Unknown)
  <2>1. h.have = Unknown <=> f.have = Unknown
      BY <1>5
  <2>2. f.want \in Int /\ f.have \in Int /\ h.have \in Int /\ f.have <= h.have /\ h.want = f.want
      BY <1>2, <1>5
  <2> QED
      BY <2>1, <2>2, PrevalenceFalls
<1>11. ComputeTemporalScarcityHalves(h, n) <= ComputeTemporalScarcityHalves(f, n)
  <2>1. CASE h.reissued = n
      BY <1>2, <1>5, <2>1, TemporalMoves
  <2>2. CASE h.reissued = f.reissued
    <3>1. ComputeTemporalScarcityHalves(h, n) = ComputeTemporalScarcityHalves(f, n)
        BY <1>5, <2>2 DEF ComputeTemporalScarcityHalves
    <3>2. ComputeTemporalScarcityHalves(f, n) \in 0..200
        BY <1>2, TemporalMoves
    <3> QED
        BY <3>1, <3>2
  <2> QED
      BY <1>5, <2>1, <2>2
<1>12. Below(SignalsOf(h, n), SignalsOf(f, n))
    BY <1>6, <1>7, <1>8, <1>9, <1>10, <1>11, SMTT(40) DEF Below, SignalsOf
<1> QED
    BY <1>1, <1>3, <1>6, <1>12

LEMMA DemandRaises ==
    ASSUME FactsInv, CollectorWants \/ YearPasses \/ MasterLinked
    PROVE  ResolveMedia(facts') = ResolveMedia(facts) /\ Below(SignalsOf(facts, year), SignalsOf(facts', year'))
<1>1. PICK f, h, n, m : f = facts /\ h = facts' /\ n = year /\ m = year'
    OBVIOUS
<1>2. /\ f.pressings \in Nat /\ f.catalog \in Nat /\ f.degree \in Nat /\ f.want \in Nat
      /\ f.have \in Int /\ f.released \in Int /\ f.reissued \in Int /\ n \in Nat
    BY <1>1 DEF FactsInv
<1>3. /\ h.mediums = f.mediums /\ h.declared = f.declared /\ h.formats = f.formats
      /\ h.released = f.released /\ h.reissued = f.reissued /\ h.catalog = f.catalog
      /\ h.degree = f.degree /\ h.have = f.have
      /\ h.want \in Nat /\ f.want <= h.want
      /\ (h.pressings = f.pressings \/ (f.pressings = 0 /\ h.pressings = 1))
      /\ (m = n \/ m = n + 1)
  <2>1. CASE CollectorWants
    <3>1. PICK k \in Nat : k > f.want /\ h = [f EXCEPT !.want = k] /\ m = n
        BY <1>1, <2>1, GrowsIs DEF CollectorWants
    <3>2. /\ h.want = k /\ h.mediums = f.mediums /\ h.declared = f.declared /\ h.formats = f.formats
          /\ h.pressings = f.pressings /\ h.catalog = f.catalog /\ h.degree = f.degree
          /\ h.have = f.have /\ h.released = f.released /\ h.reissued = f.reissued
        BY <1>1, <3>1 DEF FactsInv
    <3> QED
        BY <1>2, <3>1, <3>2
  <2>2. CASE YearPasses
    <3>1. h = f /\ m = n + 1
        BY <1>1, <2>2 DEF YearPasses
    <3> QED
        BY <1>2, <3>1
  <2>3. CASE MasterLinked
    <3>1. f.pressings = 0 /\ h = [f EXCEPT !.pressings = 1] /\ m = n
        BY <1>1, <2>3 DEF MasterLinked
    <3>2. /\ h.want = f.want /\ h.mediums = f.mediums /\ h.declared = f.declared /\ h.formats = f.formats
          /\ h.pressings = 1 /\ h.catalog = f.catalog /\ h.degree = f.degree
          /\ h.have = f.have /\ h.released = f.released /\ h.reissued = f.reissued
        BY <1>1, <3>1 DEF FactsInv
    <3> QED
        BY <1>2, <3>1, <3>2
  <2> QED
      BY <2>1, <2>2, <2>3
<1>4. ResolveMedia(h) = ResolveMedia(f)
    BY <1>3, MediaStay
<1>5. ComputePressingScarcityScore(f.pressings) <= ComputePressingScarcityScore(h.pressings)
      /\ ComputePressingScarcityScore(h.pressings) \in 0..100 /\ ComputePressingScarcityScore(f.pressings) \in 0..100
  <2>1. /\ ComputePressingScarcityScore(f.pressings) \in 0..100 /\ ComputePressingScarcityScore(0) \in 0..100
        /\ ComputePressingScarcityScore(1) \in 0..100
        /\ ComputePressingScarcityScore(0) <= ComputePressingScarcityScore(1)
      BY <1>2, PressingFalls
  <2>2. CASE h.pressings = f.pressings
      BY <2>1, <2>2
  <2>3. CASE f.pressings = 0 /\ h.pressings = 1
      BY <2>1, <2>3
  <2> QED
      BY <1>3, <2>2, <2>3
<1>6. ComputeCollectionPrevalenceScore(f.have, f.want) <= ComputeCollectionPrevalenceScore(h.have, h.want)
      /\ ComputeCollectionPrevalenceScore(h.have, h.want) \in 0..100
      /\ ComputeCollectionPrevalenceScore(f.have, f.want) \in 0..100
  <2>1. f.want \in Int /\ f.have \in Int /\ h.want \in Int /\ f.want <= h.want /\ h.have = f.have
      BY <1>2, <1>3
  <2> QED
      BY <2>1, PrevalenceFalls
<1>7. ComputeTemporalScarcityHalves(f, n) <= ComputeTemporalScarcityHalves(h, m)
  <2>1. ComputeTemporalScarcityHalves(h, m) = ComputeTemporalScarcityHalves(f, m)
      BY <1>3 DEF ComputeTemporalScarcityHalves
  <2>2. ComputeTemporalScarcityHalves(f, n) \in 0..200
        /\ ComputeTemporalScarcityHalves(f, n) <= ComputeTemporalScarcityHalves(f, n + 1)
      BY <1>2, TemporalMoves
  <2> QED
      BY <1>3, <2>1, <2>2
<1>8. ComputeLabelCatalogScore(f.catalog) \in 0..100 /\ ComputeGraphIsolationScore(f.degree) \in 0..100
    BY <1>2, LabelFalls, IsolationFalls
<1>9. Below(SignalsOf(f, n), SignalsOf(h, m))
    BY <1>3, <1>4, <1>5, <1>6, <1>7, <1>8, SMTT(40) DEF Below, SignalsOf
<1> QED
    BY <1>1, <1>4, <1>9

LEMMA AbundanceStep ==
    ASSUME FactsInv, ScoreNext \/ UNCHANGED scoreVars, scoreVars' # scoreVars
    PROVE  /\ PressingImported \/ LabelGrows \/ Connected \/ CollectorAdds \/ Reissued =>
                /\ AtMost(CompositeScore(facts', year'), CompositeScore(facts, year))
                /\ Tier(CompositeScore(facts', year')) <= Tier(CompositeScore(facts, year))
           /\ CollectorWants \/ YearPasses \/ MasterLinked =>
                /\ AtMost(CompositeScore(facts, year), CompositeScore(facts', year'))
                /\ Tier(CompositeScore(facts, year)) <= Tier(CompositeScore(facts', year'))
BY FactsNextInv, GrowthLowers, DemandRaises, StepCompares

LEMMA AscendingMin ==
    ASSUME NEW S \in SUBSET Nat, S # {}
    PROVE  \A x \in S : Min(S) \in S /\ Min(S) <= x
BY LeastNumber DEF Min

LEMMA ScaleMax ==
    ASSUME NEW S \in SUBSET (0..200), S # {}
    PROVE  \A x \in S : Max(S) \in S /\ x <= Max(S)
<1> DEFINE up == {200 - x : x \in S}
<1>1. up \subseteq Nat /\ up # {}
  <2>1. \A x \in S : 200 - x \in Nat
      OBVIOUS
  <2> QED
      BY <2>1, ZenonT(60)
<1>2. PICK u \in up : \A y \in up : u <= y
  <2> HIDE DEF up
  <2> QED
      BY <1>1, LeastNumber
<1>3. PICK x \in S : u = 200 - x
    BY <1>2
<1>4. \A y \in S : x >= y
  <2> SUFFICES ASSUME NEW y \in S PROVE x >= y
      OBVIOUS
  <2>1. 200 - y \in up
      OBVIOUS
  <2>2. u <= 200 - y
      BY <1>2, <2>1
  <2> QED
      BY <1>3, <2>2
<1>5. Max(S) \in S /\ \A y \in S : Max(S) >= y
    BY <1>4 DEF Max
<1> QED
    BY <1>5

(* A weighted sum lies between the total weight of the least and of the    *)
(* greatest signal.                                                        *)
LEMMA ScaleHolds == FactsInv => OneScale
<1> SUFFICES ASSUME FactsInv PROVE OneScale
    OBVIOUS
<1>1. PICK f, n, s, g : f = facts /\ n = year /\ s = SignalsOf(f, n) /\ g = AppliesTo(ResolveMedia(f).families)
    OBVIOUS
<1>2. Typed(f) /\ n \in Nat
    BY <1>1, FactsTyped
<1>3. /\ s.label \in 0..200 /\ s.medium \in 0..200 /\ s.temporal \in 0..200 /\ s.isolation \in 0..200
      /\ s.prevalence \in 0..200 /\ s.pressing \in 0..200
  <2>1. s \in [label : 0..200, medium : 0..200, temporal : 0..200, isolation : 0..200,
               prevalence : 0..200, pressing : 0..200]
      BY <1>1, <1>2, SignalsOnScale, SMTT(40)
  <2> QED
      BY <2>1
<1> DEFINE core == {s.label, s.medium, s.temporal, s.isolation, s.prevalence}
           values == IF g THEN core \cup {s.pressing} ELSE core
<1>4. {Signals(f, n)[k] : k \in DOMAIN Signals(f, n)} = values
  <2>1. CASE g
      BY <1>1, <2>1 DEF Signals, Joined, CoreSignals, SignalsOf
  <2>2. CASE ~g
      BY <1>1, <2>2 DEF Signals, CoreSignals, SignalsOf
  <2> QED
      BY <2>1, <2>2
<1>5. values \in SUBSET (0..200) /\ values # {} /\ values \in SUBSET Nat
    BY <1>3, SMTT(40)
<1>6. PICK low \in 0..200, high \in 0..200 :
         low = Min(values) /\ high = Max(values) /\ \A x \in values : low <= x /\ x <= high
  <2> HIDE DEF values
  <2> QED
      BY <1>5, AscendingMin, ScaleMax, ZenonT(60)
<1>7. /\ low <= s.label /\ low <= s.medium /\ low <= s.temporal /\ low <= s.isolation /\ low <= s.prevalence
      /\ s.label <= high /\ s.medium <= high /\ s.temporal <= high /\ s.isolation <= high /\ s.prevalence <= high
      /\ g => low <= s.pressing /\ s.pressing <= high
    BY <1>6
<1> DEFINE sum == 10 * s.label + 10 * s.medium + 20 * s.temporal + 15 * s.isolation + 20 * s.prevalence
                  + (IF g THEN 25 * s.pressing ELSE 0)
           d == IF g THEN 100 ELSE 75
<1>8. CompositeScore(f, n) = [n |-> sum, d |-> d]
    BY <1>1, <1>2, ScoreIs
<1>9. low * d <= sum /\ sum <= high * d
  <2>0. /\ s.label \in Int /\ s.medium \in Int /\ s.temporal \in Int /\ s.isolation \in Int
        /\ s.prevalence \in Int /\ s.pressing \in Int
      BY <1>3, SMTT(40)
  <2>1. PICK a \in Int, b \in Int, c \in Int, e \in Int, p \in Int, q \in Int :
           a = s.label /\ b = s.medium /\ c = s.temporal /\ e = s.isolation /\ p = s.prevalence /\ q = s.pressing
      BY <2>0, Zenon
  <2>2. /\ low <= a /\ low <= b /\ low <= c /\ low <= e /\ low <= p /\ (g => low <= q)
        /\ a <= high /\ b <= high /\ c <= high /\ e <= high /\ p <= high /\ (g => q <= high)
      BY <1>7, <2>1
  <2>3. sum = 10 * a + 10 * b + 20 * c + 15 * e + 20 * p + (IF g THEN 25 * q ELSE 0)
      BY <2>1
  <2> HIDE DEF sum
  <2>4. CASE g
      BY <2>2, <2>3, <2>4
  <2>5. CASE ~g
      BY <2>2, <2>3, <2>5
  <2> QED
      BY <2>4, <2>5
<1> HIDE DEF sum, d, values
<1>10. CompositeScore(facts, year).n = sum /\ CompositeScore(facts, year).d = d
    BY <1>1, <1>8
<1>11. Min({Signals(facts, year)[k] : k \in DOMAIN Signals(facts, year)}) = low
       /\ Max({Signals(facts, year)[k] : k \in DOMAIN Signals(facts, year)}) = high
    BY <1>1, <1>4, <1>6, Zenon
<1> QED
    BY <1>9, <1>10, <1>11, Zenon DEF OneScale

LEMMA FactsSpecInv == Spec => []FactsInv
<1>1. Init => FactsInv
    BY FactsInitInv DEF Init
<1>2. FactsInv /\ [Next]_catalogVars => FactsInv'
  <2>1. [Next]_catalogVars => ScoreNext \/ UNCHANGED scoreVars
      BY DEF Next, RestOf, catalogVars
  <2> QED
      BY <2>1, FactsNextInv
<1> QED
    BY <1>1, <1>2, PTL DEF Spec

(* For any tables of media on the scale of 100, counts and years: another  *)
(* pressing, a larger label, another link, another owner and a reissue     *)
(* never raise the score or the tier of a release, and demand, age and a   *)
(* master never lower them (rarity/core.py, rarity/composite.py).          *)
THEOREM RarityFallsWithAbundance == Spec => AbundanceNeverRaises
<1>1. FactsInv /\ [Next]_catalogVars => ScoreNext \/ UNCHANGED scoreVars
    BY DEF Next, RestOf, catalogVars
<1> DEFINE Compares ==
             scoreVars' # scoreVars =>
               /\ PressingImported \/ LabelGrows \/ Connected \/ CollectorAdds \/ Reissued =>
                     /\ AtMost(CompositeScore(facts', year'), CompositeScore(facts, year))
                     /\ Tier(CompositeScore(facts', year')) <= Tier(CompositeScore(facts, year))
               /\ CollectorWants \/ YearPasses \/ MasterLinked =>
                     /\ AtMost(CompositeScore(facts, year), CompositeScore(facts', year'))
                     /\ Tier(CompositeScore(facts, year)) <= Tier(CompositeScore(facts', year'))
<1>2. FactsInv /\ [Next]_catalogVars => Compares
    BY <1>1, AbundanceStep
<1>3. FactsInv /\ [Next]_catalogVars => [Compares]_scoreVars
    BY <1>2
<1>4. Spec => [][Compares]_scoreVars
  <2> HIDE DEF Compares
  <2> QED
      BY <1>3, FactsSpecInv, PTL DEF Spec
<1> QED
    BY <1>4, PTL DEF AbundanceNeverRaises

(* For the same tables: the score of a release lies between its lowest and *)
(* its highest signal, whether or not an extension joined, so that a tier  *)
(* means the same for every medium (rarity/composite.py: score_release).   *)
THEOREM ScoresShareOneScale == Spec => []OneScale
BY FactsSpecInv, ScaleHolds, PTL
=============================================================================
