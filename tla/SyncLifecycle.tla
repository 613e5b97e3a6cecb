--------------------------- MODULE SyncLifecycle ----------------------------
(***************************************************************************)
(* What the sync endpoints promise a user, with nothing of how: syncs run  *)
(* one at a time, each has a row whose outcome is written once, a sync     *)
(* that began comes to an end, and only rows that nobody works on are      *)
(* given up as failed.  Module SyncAdmission implements it.                *)
(***************************************************************************)
EXTENDS Naturals

CONSTANTS
    Ids,        \* the syncs a user may start, numbered as their rows are inserted
    None        \* no sync is at work

VARIABLES
    rows,       \* rows[n]: what GET /api/sync/status reports of sync n
    active      \* the sync that is at work

lifecycleVars == <<rows, active>>

Outcomes == {"completed", "failed", "cancelled"}

Init == rows = [n \in Ids |-> "none"] /\ active = None

(* A row is opened; whether a sync begins for it is another matter.        *)
Open(n) ==
    /\ rows[n] = "none" /\ \A m \in Ids : m < n => rows[m] # "none"
    /\ rows' = [rows EXCEPT ![n] = "running"]
    /\ UNCHANGED active

Begin(n) ==
    /\ active = None /\ rows[n] = "running"
    /\ active' = n
    /\ UNCHANGED rows

(* A sync ends, and its outcome is recorded or lost with its process.      *)
End(n, outcome) ==
    /\ active = n
    /\ active' = None
    /\ rows' \in {rows, [rows EXCEPT ![n] = outcome]}

(* The rows no sync is at work on are given up together.                   *)
GiveUp ==
    /\ active = None
    /\ rows' = [n \in Ids |-> IF rows[n] = "running" THEN "failed" ELSE rows[n]]
    /\ UNCHANGED active

Next ==
    \/ GiveUp
    \/ \E n \in Ids : Open(n) \/ Begin(n) \/ \E o \in Outcomes : End(n, o)

(* What may happen, step by step.                                          *)
Safety == Init /\ [][Next]_lifecycleVars

(* "runs to an end": a sync that began does not stay at work for ever.     *)
Ends == \A n \in Ids : active = n ~> active # n
=============================================================================
