------------------------------ MODULE GenreTree -----------------------------
(***************************************************************************)
(* The stored genre tree (api/genre_tree_store.py, built by                *)
(* api/queries/genre_tree_queries.py): a snapshot in each replica's memory *)
(* and one in Valkey, rebuilt by a loop of every replica under a Valkey    *)
(* lock.  The graph's counts are a version number; a tree is abstracted to *)
(* the oldest version any of its genres was scanned at, a signature to the *)
(* version it was read at.                                                 *)
(***************************************************************************)
EXTENDS Integers, FiniteSets

CONSTANTS
    TreeReplicas,   \* processes that run the refresh loop
    Genres,         \* genres scanned one at a time
    MaxImports,     \* bound: changes of the genre counts
    MaxTreeFaults   \* bound: failed calls, crashes, forced and overrun builds

VARIABLES
    counts,     \* the version of the graph's genre counts
    mem,        \* mem[r]: _snapshot of replica r, or NoTree
    treeStored,     \* the snapshot under SNAPSHOT_KEY, or NoTree
    treeLock,   \* LOCK_KEY is set
    loop,       \* loop[r]: where refresh_once is, with what it has read
    treeReader,     \* reader[r]: what a get_genre_tree of r has loaded and not yet assigned
    builds,     \* finished builds, the clock of built_at
    treeFaults  \* faults so far

treeVars == <<counts, mem, treeStored, treeLock, loop, treeReader, builds, treeFaults>>

-----------------------------------------------------------------------------
NoTree == [at |-> 0, sig |-> 0, tree |-> 0]

Idle == [pc |-> "idle", sig |-> 0, tree |-> 0, todo |-> {}, locked |-> FALSE]

TreeInit ==
    /\ counts = 1
    /\ mem = [r \in TreeReplicas |-> NoTree]
    /\ treeStored = NoTree
    /\ treeLock = FALSE
    /\ loop = [r \in TreeReplicas |-> Idle]
    /\ treeReader = [r \in TreeReplicas |-> NoTree]
    /\ builds = 0
    /\ treeFaults = 0

(* An import changes the genre counts.                                     *)
CountsChange ==
    /\ counts <= MaxImports
    /\ counts' = counts + 1
    /\ UNCHANGED <<mem, treeStored, treeLock, loop, treeReader, builds, treeFaults>>

-----------------------------------------------------------------------------
(* refresh_once adopts a newer snapshot of another replica.  A read of     *)
(* Valkey that fails is as if nothing were stored.                         *)
Adopt(r, snapshot) ==
    IF snapshot.at > mem[r].at THEN [mem EXCEPT ![r] = snapshot] ELSE mem

LoadTree(r) ==
    /\ loop[r].pc = "idle"
    /\ \/ mem' = Adopt(r, treeStored) /\ UNCHANGED treeFaults
       \/ treeFaults < MaxTreeFaults /\ treeFaults' = treeFaults + 1 /\ UNCHANGED mem
    /\ loop' = [loop EXCEPT ![r] = [Idle EXCEPT !.pc = "sign"]]
    /\ UNCHANGED <<counts, treeStored, treeLock, treeReader, builds>>

(* get_genre_signature, before the build; a snapshot that carries the same *)
(* signature and is not too old ends the pass.                             *)
Sign(r) ==
    /\ loop[r].pc = "sign"
    /\ loop' = [loop EXCEPT ![r] =
                  IF mem[r].at # 0 /\ mem[r].sig = counts
                  THEN Idle
                  ELSE [Idle EXCEPT !.pc = "lock", !.sig = counts]]
    /\ UNCHANGED <<counts, mem, treeStored, treeLock, treeReader, builds, treeFaults>>

(* Mutant: the signature is read when the build has ended.                 *)
SignedAtEnd(r) == counts

SignedAs(r) == loop[r].sig

(* The same pass when the snapshot is older than max_age, or forced.       *)
SignTooOld(r) ==
    /\ loop[r].pc = "sign"
    /\ treeFaults < MaxTreeFaults
    /\ treeFaults' = treeFaults + 1
    /\ loop' = [loop EXCEPT ![r] = [Idle EXCEPT !.pc = "lock", !.sig = counts]]
    /\ UNCHANGED <<counts, mem, treeStored, treeLock, treeReader, builds>>

(* _take_lock: SET NX; without Valkey the replica builds anyway.           *)
TakeTreeLock(r) ==
    /\ loop[r].pc = "lock"
    /\ \/ /\ ~treeLock
          /\ treeLock' = TRUE
          /\ loop' = [loop EXCEPT ![r].pc = "build", ![r].todo = Genres,
                                  ![r].tree = counts, ![r].locked = TRUE]
          /\ UNCHANGED treeFaults
       \/ /\ treeLock
          /\ loop' = [loop EXCEPT ![r] = Idle]
          /\ UNCHANGED <<treeLock, treeFaults>>
       \/ /\ treeFaults < MaxTreeFaults
          /\ treeFaults' = treeFaults + 1
          /\ loop' = [loop EXCEPT ![r].pc = "build", ![r].todo = Genres, ![r].tree = counts]
          /\ UNCHANGED treeLock
    /\ UNCHANGED <<counts, mem, treeStored, treeReader, builds>>

(* build_genre_tree: one statement per genre, each at its own time.        *)
ScanGenre(r) ==
    /\ loop[r].pc = "build"
    /\ \E g \in loop[r].todo :
          loop' = [loop EXCEPT ![r].todo = @ \ {g},
                               ![r].tree = IF counts < @ THEN counts ELSE @]
    /\ UNCHANGED <<counts, mem, treeStored, treeLock, treeReader, builds, treeFaults>>

(* _store, its half in memory; a scan that fails keeps the previous tree.  *)
StoreTree(r) ==
    /\ loop[r].pc = "build"
    /\ loop[r].todo = {}
    /\ builds' = builds + 1
    /\ mem' = [mem EXCEPT ![r] = [at |-> builds + 1, sig |-> SignedAs(r), tree |-> loop[r].tree]]
    /\ loop' = [loop EXCEPT ![r].pc = "publish"]
    /\ UNCHANGED <<counts, treeStored, treeLock, treeReader, treeFaults>>

(* _store, its half in Valkey, whose failure is only logged.               *)
PublishTree(r) ==
    /\ loop[r].pc = "publish"
    /\ \/ treeStored' = mem[r] /\ UNCHANGED treeFaults
       \/ treeFaults < MaxTreeFaults /\ treeFaults' = treeFaults + 1 /\ UNCHANGED treeStored
    /\ loop' = [loop EXCEPT ![r].pc = "release"]
    /\ UNCHANGED <<counts, mem, treeLock, treeReader, builds>>

BuildFails(r) ==
    /\ loop[r].pc = "build"
    /\ treeFaults < MaxTreeFaults
    /\ treeFaults' = treeFaults + 1
    /\ loop' = [loop EXCEPT ![r].pc = "release"]
    /\ UNCHANGED <<counts, mem, treeStored, treeLock, treeReader, builds>>

(* _release_lock deletes the key, whoever set it; a failed delete leaves   *)
(* it to its TTL.                                                          *)
ReleaseTreeLock(r) ==
    /\ loop[r].pc = "release"
    /\ \/ treeLock' = FALSE /\ UNCHANGED treeFaults
       \/ treeFaults < MaxTreeFaults /\ treeFaults' = treeFaults + 1 /\ UNCHANGED treeLock
    /\ loop' = [loop EXCEPT ![r] = Idle]
    /\ UNCHANGED <<counts, mem, treeStored, treeReader, builds>>

(* LOCK_SECONDS pass: always for a lock nobody holds, and for the lock of  *)
(* a build that overruns them.                                             *)
TreeLockLapses ==
    /\ treeLock
    /\ \A r \in TreeReplicas : ~loop[r].locked
    /\ treeLock' = FALSE
    /\ UNCHANGED <<counts, mem, treeStored, loop, treeReader, builds, treeFaults>>

TreeLockOverrun ==
    /\ treeLock
    /\ \E r \in TreeReplicas : loop[r].locked
    /\ treeFaults < MaxTreeFaults
    /\ treeFaults' = treeFaults + 1
    /\ treeLock' = FALSE
    /\ UNCHANGED <<counts, mem, treeStored, loop, treeReader, builds>>

(* get_genre_tree on a cold replica: the read of Valkey, and the later     *)
(* assignment, which the loop may have overtaken.                          *)
ReaderLoads(r) ==
    /\ mem[r].at = 0
    /\ treeReader[r].at = 0
    /\ treeStored.at # 0
    /\ treeReader' = [treeReader EXCEPT ![r] = treeStored]
    /\ UNCHANGED <<counts, mem, treeStored, treeLock, loop, builds, treeFaults>>

ReaderAssigns(r) ==
    /\ treeReader[r].at # 0
    /\ mem' = [mem EXCEPT ![r] = treeReader[r]]
    /\ treeReader' = [treeReader EXCEPT ![r] = NoTree]
    /\ UNCHANGED <<counts, treeStored, treeLock, loop, builds, treeFaults>>

TreeCrash(r) ==
    /\ treeFaults < MaxTreeFaults
    /\ treeFaults' = treeFaults + 1
    /\ mem' = [mem EXCEPT ![r] = NoTree]
    /\ loop' = [loop EXCEPT ![r] = Idle]
    /\ treeReader' = [treeReader EXCEPT ![r] = NoTree]
    /\ UNCHANGED <<counts, treeStored, treeLock, builds>>

TreeStep(r) ==
    \/ LoadTree(r) \/ Sign(r) \/ TakeTreeLock(r) \/ ScanGenre(r) \/ StoreTree(r)
    \/ PublishTree(r) \/ ReleaseTreeLock(r) \/ ReaderAssigns(r)

TreeNext ==
    \/ CountsChange \/ TreeLockLapses \/ TreeLockOverrun
    \/ \E r \in TreeReplicas :
          TreeStep(r) \/ SignTooOld(r) \/ BuildFails(r) \/ ReaderLoads(r) \/ TreeCrash(r)

-----------------------------------------------------------------------------
(* Every snapshot, in memory or in Valkey, holds a tree scanned no earlier *)
(* than its signature was read: a tree that carries the current signature  *)
(* is the current tree, although the scan is not one transaction.          *)
SignatureIsNotNewer ==
    \A s \in {treeStored} \cup {mem[r] : r \in TreeReplicas} : s.tree >= s.sig

(* When the counts stop changing, every replica comes to serve the tree of *)
(* the final counts, whatever lock was left behind and whoever built it.   *)
TreeIsCurrent == \A r \in TreeReplicas : mem[r].sig = counts
TreeCatchesUp == <>[]TreeIsCurrent
=============================================================================
