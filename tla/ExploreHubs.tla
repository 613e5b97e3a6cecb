----------------------------- MODULE ExploreHubs ----------------------------
(***************************************************************************)
(* The answers of hub entities (api/explore_discovery.py, its second       *)
(* half): computed in the background by refresh_hubs in three resumable    *)
(* stages, kept in memory and in Valkey, under a lock that carries a token *)
(* of its builder.  The model follows one hub through versions of the      *)
(* graph; a stage's rows are the version they were read at, and a release  *)
(* count is named by the first version that had it, since a later version  *)
(* may come back to an earlier count.                                      *)
(***************************************************************************)
EXTENDS Integers, FiniteSets

CONSTANTS
    HubReplicas,    \* processes that run the refresh loop
    Stages,         \* _STAGES
    MaxReleases,    \* bound: versions of the hub's releases
    HubCount,       \* HubCount[v]: the release count of version v
    MaxHubFaults    \* bound: failed calls, crashes, aged results and overruns

ASSUME StagesAssumption == Stages # {}
ASSUME HubCountAssumption ==
    MaxReleases \in Nat \ {0} /\ \A v \in 1..MaxReleases : HubCount[v] \in 1..v

VARIABLES
    hubReleases,   \* the version of the hub's releases in the graph
    hubs,       \* hubs[r]: _hubs of replica r, or NoHub
    hubStored,  \* the result in Valkey, or NoHub
    hubLock,    \* the token under the lock key, 0 when none
    owns,       \* history: owns[r] is the token whose lock r took and has not lost
    hubLoop,    \* hubLoop[r]: where refresh_hubs is for this hub
    done,       \* done[r][s]: _stages, [count, rows]
    backoff,    \* backoff[r]: _failures of the hub, its retry time not reached
    tokens,     \* tokens drawn so far (uuid4 is fresh)
    hubFaults   \* faults so far

hubMemory == <<hubs, done, backoff>>
hubVars == <<hubReleases, hubMemory, hubStored, hubLock, owns, hubLoop, tokens, hubFaults>>

-----------------------------------------------------------------------------
NoHub == [count |-> 0, rows |-> 0, old |-> FALSE]
NoStages == [s \in Stages |-> [count |-> 0, rows |-> 0]]
HubIdle == [pc |-> "idle", count |-> 0, token |-> 0, held |-> NoHub]

HubInit ==
    /\ hubReleases = 1
    /\ hubs = [r \in HubReplicas |-> NoHub]
    /\ hubStored = NoHub
    /\ hubLock = 0
    /\ owns = [r \in HubReplicas |-> 0]
    /\ hubLoop = [r \in HubReplicas |-> HubIdle]
    /\ done = [r \in HubReplicas |-> NoStages]
    /\ backoff = [r \in HubReplicas |-> FALSE]
    /\ tokens = 0
    /\ hubFaults = 0

HubFault == hubFaults < MaxHubFaults /\ hubFaults' = hubFaults + 1

(* An import changes the hub's releases, and with them its count or not;   *)
(* a result passes max_age.                                                *)
ReleasesChange ==
    /\ hubReleases < MaxReleases
    /\ hubReleases' = hubReleases + 1
    /\ UNCHANGED <<hubMemory, hubStored, hubLock, owns, hubLoop, tokens, hubFaults>>

HubAges ==
    /\ HubFault
    /\ hubStored.count # 0
    /\ hubStored' = [hubStored EXCEPT !.old = TRUE]
    /\ hubs' = [r \in HubReplicas |-> IF hubs[r].count = 0 THEN NoHub
                                      ELSE [hubs[r] EXCEPT !.old = TRUE]]
    /\ UNCHANGED <<hubReleases, done, backoff, hubLock, owns, hubLoop, tokens>>

-----------------------------------------------------------------------------
(* _hub_result: memory first, then Valkey, which fills memory; a read that *)
(* fails finds nothing there.                                              *)
HubResults(r) == IF hubs[r].count # 0 THEN {hubs[r]} ELSE {hubStored, NoHub}

Usable(result, count) == result.count = count /\ ~result.old

(* The listing gives the count; a usable result or a retry time not yet    *)
(* reached leaves the hub alone.  The result of the loop's own lookup is   *)
(* kept in memory.                                                         *)
ListHub(r) ==
    LET count == HubCount[hubReleases] IN
    /\ hubLoop[r].pc = "idle"
    /\ \E held \in HubResults(r) :
          /\ hubs' = [hubs EXCEPT ![r] = held]
          /\ hubLoop' = [hubLoop EXCEPT ![r] =
                  IF Usable(held, count) \/ backoff[r] THEN HubIdle
                  ELSE [HubIdle EXCEPT !.pc = "lock", !.count = count, !.held = held]]
    /\ UNCHANGED <<hubReleases, done, backoff, hubStored, hubLock, owns, tokens, hubFaults>>

(* _take_lock: SET NX with a fresh token; without Valkey the hub is built  *)
(* with no token to release.                                               *)
TakeHubLock(r) ==
    /\ hubLoop[r].pc = "lock"
    /\ \/ /\ hubLock = 0
          /\ tokens' = tokens + 1
          /\ hubLock' = tokens + 1
          /\ owns' = [owns EXCEPT ![r] = tokens + 1]
          /\ hubLoop' = [hubLoop EXCEPT ![r].pc = "recheck", ![r].token = tokens + 1]
          /\ UNCHANGED hubFaults
       \/ /\ hubLock # 0
          /\ hubLoop' = [hubLoop EXCEPT ![r] = HubIdle]
          /\ UNCHANGED <<tokens, hubLock, owns, hubFaults>>
       \/ /\ HubFault
          /\ hubLoop' = [hubLoop EXCEPT ![r].pc = "recheck"]
          /\ UNCHANGED <<tokens, hubLock, owns>>
    /\ UNCHANGED <<hubReleases, hubMemory, hubStored>>

(* Under the lock the result is looked up again, past a held one whose     *)
(* count differs.                                                          *)
Recheck(r) ==
    LET l == hubLoop[r]
        dropped == l.held.count # 0 /\ l.held.count # l.count
    IN  /\ l.pc = "recheck"
        /\ \E fresh \in (IF dropped THEN {hubStored, NoHub} ELSE HubResults(r)) :
              /\ hubs' = [hubs EXCEPT ![r] = fresh]
              /\ hubLoop' = [hubLoop EXCEPT ![r].pc =
                               IF Usable(fresh, l.count) THEN "skip" ELSE "stages"]
        /\ UNCHANGED <<hubReleases, done, backoff, hubStored, hubLock, owns, tokens, hubFaults>>

StageIsKept(stage, count) == stage.count = count

(* _run_stage: a stage done for this count is not scanned again.           *)
RunStage(r, s) ==
    /\ hubLoop[r].pc = "stages"
    /\ ~StageIsKept(done[r][s], hubLoop[r].count)
    /\ done' = [done EXCEPT ![r][s] = [count |-> hubLoop[r].count, rows |-> hubReleases]]
    /\ UNCHANGED <<hubReleases, hubs, backoff, hubStored, hubLock, owns, hubLoop, tokens, hubFaults>>

StageFails(r) ==
    /\ hubLoop[r].pc = "stages"
    /\ HubFault
    /\ backoff' = [backoff EXCEPT ![r] = TRUE]
    /\ hubLoop' = [hubLoop EXCEPT ![r].pc = "skip"]
    /\ UNCHANGED <<hubReleases, hubs, done, hubStored, hubLock, owns, tokens>>

RetryTime(r) ==
    /\ backoff[r]
    /\ backoff' = [backoff EXCEPT ![r] = FALSE]
    /\ UNCHANGED <<hubReleases, hubs, done, hubStored, hubLock, owns, hubLoop, tokens, hubFaults>>

(* Mutant: the lock is deleted, whoever holds it.                          *)
AfterReleaseAny(r) == 0

(* _release_lock: compare and delete.                                      *)
AfterRelease(r) == IF hubLock = hubLoop[r].token THEN 0 ELSE hubLock

ReleaseHubLock(r, next) ==
    /\ owns' = [owns EXCEPT ![r] = 0]
    /\ IF hubLoop[r].token = 0
       THEN UNCHANGED <<hubLock, hubFaults>>
       ELSE \/ hubLock' = AfterRelease(r) /\ UNCHANGED hubFaults
            \/ HubFault /\ UNCHANGED hubLock
    /\ hubLoop' = [hubLoop EXCEPT ![r] = next]

(* The finally after a hub that was skipped or failed.                     *)
Skip(r) ==
    /\ hubLoop[r].pc = "skip"
    /\ ReleaseHubLock(r, HubIdle)
    /\ UNCHANGED <<hubReleases, hubMemory, hubStored, tokens>>

(* _build_hub returns: the lock is released before the result is kept and  *)
(* stored.  The oldest stage dates the result.                             *)
FinishHub(r) ==
    /\ hubLoop[r].pc = "stages"
    /\ \A s \in Stages : StageIsKept(done[r][s], hubLoop[r].count)
    /\ ReleaseHubLock(r, [hubLoop[r] EXCEPT !.pc = "store"])
    /\ hubs' = [hubs EXCEPT ![r] =
                  [count |-> hubLoop[r].count, old |-> FALSE,
                   rows |-> CHOOSE v \in {done[r][s].rows : s \in Stages} :
                                \A s \in Stages : v <= done[r][s].rows]]
    /\ done' = [done EXCEPT ![r] = NoStages]
    /\ backoff' = [backoff EXCEPT ![r] = FALSE]
    /\ UNCHANGED <<hubReleases, hubStored, tokens>>

StoreHub(r) ==
    /\ hubLoop[r].pc = "store"
    /\ \/ hubStored' = hubs[r] /\ UNCHANGED hubFaults
       \/ HubFault /\ UNCHANGED hubStored
    /\ hubLoop' = [hubLoop EXCEPT ![r] = HubIdle]
    /\ UNCHANGED <<hubReleases, hubMemory, hubLock, owns, tokens>>

(* get_explore_traversal for the hub: a lookup that fills memory, or 503.  *)
ServeHub(r) ==
    /\ hubs[r].count = 0
    /\ hubStored.count # 0
    /\ hubs' = [hubs EXCEPT ![r] = hubStored]
    /\ UNCHANGED <<hubReleases, done, backoff, hubStored, hubLock, owns, hubLoop, tokens, hubFaults>>

(* HUB_LOCK_SECONDS pass: for a lock nobody holds, or over an overrun.     *)
HubLockLapses ==
    /\ hubLock # 0
    /\ \A r \in HubReplicas : owns[r] # hubLock
    /\ hubLock' = 0
    /\ UNCHANGED <<hubReleases, hubMemory, hubStored, owns, hubLoop, tokens, hubFaults>>

HubLockOverrun(r) ==
    /\ owns[r] # 0
    /\ hubLock = owns[r]
    /\ HubFault
    /\ hubLock' = 0
    /\ owns' = [owns EXCEPT ![r] = 0]
    /\ UNCHANGED <<hubReleases, hubMemory, hubStored, hubLoop, tokens>>

HubCrash(r) ==
    /\ HubFault
    /\ hubs' = [hubs EXCEPT ![r] = NoHub]
    /\ done' = [done EXCEPT ![r] = NoStages]
    /\ backoff' = [backoff EXCEPT ![r] = FALSE]
    /\ hubLoop' = [hubLoop EXCEPT ![r] = HubIdle]
    /\ owns' = [owns EXCEPT ![r] = 0]
    /\ UNCHANGED <<hubReleases, hubStored, hubLock, tokens>>

HubStep(r) ==
    \/ ListHub(r) \/ TakeHubLock(r) \/ Recheck(r) \/ Skip(r) \/ FinishHub(r) \/ StoreHub(r)
    \/ RetryTime(r) \/ \E s \in Stages : RunStage(r, s)

HubNext ==
    \/ ReleasesChange \/ HubAges \/ HubLockLapses
    \/ \E r \in HubReplicas :
          HubStep(r) \/ StageFails(r) \/ ServeHub(r) \/ HubLockOverrun(r) \/ HubCrash(r)

-----------------------------------------------------------------------------
(* A lock that was taken and has not lapsed is still there: no other       *)
(* builder's release, however late, has deleted it.                        *)
HubLockIsOwned == \A r \in HubReplicas : owns[r] # 0 => hubLock = owns[r]

(* A result holds no rows from before the hub first had the count it is    *)
(* labelled with, the stages kept from an earlier attempt included.  When  *)
(* no count comes back, that of the current count holds current rows.      *)
HubRowsAreCurrent ==
    \A h \in {hubStored} \cup {hubs[r] : r \in HubReplicas} : h.rows >= h.count
=============================================================================
