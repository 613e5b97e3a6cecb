--------------------------- MODULE SnapshotStore ----------------------------
(***************************************************************************)
(* Saving graph snapshots (api/snapshot_store.py, api/routers/snapshot.py) *)
(* for one user: a snapshot key with a TTL, and a counter of the user's    *)
(* snapshots with a TTL of its own, written by separate Valkey commands of *)
(* concurrent requests.  A full Valkey rejects SET, INCR and DECR; a       *)
(* process may die between any two commands.                               *)
(***************************************************************************)
EXTENDS Integers, FiniteSets

CONSTANTS
    Saves,           \* requests of the user
    MaxPerUser,      \* max_per_user
    SnapshotTtl,     \* _ttl_seconds, in ticks
    MaxSnapTime,     \* bound: ticks
    MaxSnapFaults    \* bound: rejected writes and deaths

VARIABLES
    snapClock,  \* ticks
    snapshot,   \* snapshot[q]: expiry of the key request q wrote, 0 when it is gone
    counter,    \* [n, exp, there]: the counter and its expiry, exp = 0 without a TTL
    save,       \* save[q]: where SnapshotStore.save is
    outlived,   \* history: requests whose DECR is or was due after the counter lapsed
    snapFaults

ASSUME SnapBounds ==
    /\ IsFiniteSet(Saves)
    /\ MaxPerUser \in Nat
    /\ SnapshotTtl \in Nat \ {0}

snapVars == <<snapClock, snapshot, counter, save, outlived, snapFaults>>

-----------------------------------------------------------------------------
NoCounter == [n |-> 0, exp |-> 0, there |-> FALSE]

(* Over the cap: INCR has counted it, DECR is still to come.               *)
Overdrawn == {q \in Saves : save[q] \in {"expire_over", "delete", "decr"}}

SnapInit ==
    /\ snapClock = 0
    /\ snapshot = [q \in Saves |-> 0]
    /\ counter = NoCounter
    /\ save = [q \in Saves |-> "new"]
    /\ outlived = {}
    /\ snapFaults = 0

(* Time passes; keys past their TTL are gone.                              *)
SnapTick ==
    /\ snapClock < MaxSnapTime
    /\ snapClock' = snapClock + 1
    /\ snapshot' = [q \in Saves |-> IF snapshot[q] = snapClock + 1 THEN 0 ELSE snapshot[q]]
    /\ counter' = IF counter.exp = snapClock + 1 THEN NoCounter ELSE counter
    /\ outlived' = IF counter.exp = snapClock + 1 THEN outlived \cup Overdrawn ELSE outlived
    /\ UNCHANGED <<save, snapFaults>>

Then(q, pc) == save' = [save EXCEPT ![q] = pc]

(* Too many nodes, or a payload too large.                                 *)
SaveRefused(q) ==
    /\ save[q] = "new"
    /\ Then(q, "refused")
    /\ UNCHANGED <<snapClock, snapshot, counter, outlived, snapFaults>>

(* The write-free path of a user at the cap.                               *)
ReadCounter(q) ==
    /\ save[q] = "new"
    /\ Then(q, IF counter.there /\ counter.n >= MaxPerUser THEN "quota" ELSE "set")
    /\ UNCHANGED <<snapClock, snapshot, counter, outlived, snapFaults>>

SetSnapshot(q) ==
    /\ save[q] = "set"
    /\ snapshot' = [snapshot EXCEPT ![q] = snapClock + SnapshotTtl]
    /\ Then(q, "incr")
    /\ UNCHANGED <<snapClock, counter, outlived, snapFaults>>

OverCap(n) == n > MaxPerUser

(* INCR creates the key without a TTL.                                     *)
IncrCounter(q) ==
    /\ save[q] = "incr"
    /\ counter' = [counter EXCEPT !.n = @ + 1, !.there = TRUE]
    /\ Then(q, IF OverCap(counter.n + 1) THEN "expire_over" ELSE "expire")
    /\ UNCHANGED <<snapClock, snapshot, outlived, snapFaults>>

(* EXPIRE ... NX.                                                          *)
Arm(c) == IF c.there /\ c.exp = 0 THEN snapClock + SnapshotTtl ELSE c.exp

ExpireCounter(q) ==
    /\ save[q] \in {"expire", "expire_over"}
    /\ counter' = [counter EXCEPT !.exp = Arm(counter)]
    /\ Then(q, IF save[q] = "expire" THEN "saved" ELSE "delete")
    /\ UNCHANGED <<snapClock, snapshot, outlived, snapFaults>>

(* The loser of the last slot undoes its write; DECR of a counter that has *)
(* expired meanwhile makes a new one.                                      *)
DeleteSnapshot(q) ==
    /\ save[q] \in {"delete", "undo"}
    /\ snapshot' = [snapshot EXCEPT ![q] = 0]
    /\ Then(q, IF save[q] = "delete" THEN "decr" ELSE "unavailable")
    /\ UNCHANGED <<snapClock, counter, outlived, snapFaults>>

DecrCounter(q) ==
    /\ save[q] = "decr"
    /\ counter' = [counter EXCEPT !.n = @ - 1, !.there = TRUE]
    /\ Then(q, "quota")
    /\ UNCHANGED <<snapClock, snapshot, outlived, snapFaults>>

SnapFault == snapFaults < MaxSnapFaults /\ snapFaults' = snapFaults + 1

(* OOM: a rejected SET reserved nothing, a rejected INCR is undone with a  *)
(* DEL, a rejected DECR leaves the slot taken.  All answer 503.            *)
Rejected(q) ==
    /\ SnapFault
    /\ \/ save[q] = "set" /\ Then(q, "unavailable") /\ UNCHANGED outlived
       \/ save[q] = "incr" /\ Then(q, "undo") /\ UNCHANGED outlived
       \/ save[q] = "decr" /\ Then(q, "unavailable") /\ outlived' = outlived \ {q}
    /\ UNCHANGED <<snapClock, snapshot, counter>>

Dies(q) ==
    /\ SnapFault
    /\ save[q] \notin {"new", "saved", "quota", "refused", "unavailable", "dead"}
    /\ Then(q, "dead")
    /\ outlived' = outlived \ {q}
    /\ UNCHANGED <<snapClock, snapshot, counter>>

SnapNext ==
    \/ SnapTick
    \/ \E q \in Saves :
          \/ SaveRefused(q) \/ ReadCounter(q) \/ SetSnapshot(q) \/ IncrCounter(q)
          \/ ExpireCounter(q) \/ DeleteSnapshot(q) \/ DecrCounter(q) \/ Rejected(q) \/ Dies(q)

-----------------------------------------------------------------------------
(* The snapshots handed out and alive are at most twice the cap: the       *)
(* counter lapses one TTL after the first save of its window, while later  *)
(* snapshots of that window live on.  A loser of the last slot whose DECR  *)
(* comes after the lapse starts the new counter below zero and so makes    *)
(* room for one more.                                                      *)
LiveWithinTwiceCap ==
    Cardinality({q \in Saves : save[q] = "saved" /\ snapshot[q] # 0})
        <= 2 * MaxPerUser + Cardinality(outlived)
=============================================================================
