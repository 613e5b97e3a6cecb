------------------------- MODULE ExtractionTracking -------------------------
(***************************************************************************)
(* Triggering and following an extraction (api/routers/admin.py), with the *)
(* administrator's session in front of it (api/admin_auth.py,              *)
(* api/admin_setup.py, api/dependencies.py).  A trigger writes a row of    *)
(* extraction_history, asks the extractor to run and starts a tracker: a   *)
(* task of this process that polls the extractor's /health every 10 s and  *)
(* writes the row's outcome.                                               *)
(*                                                                         *)
(* The extractor is another service, modelled from how admin.py reads it:  *)
(* a run clears the counters as its first act, "completed" turns into      *)
(* "waiting" at once, "waiting" also means that no run has begun, and a    *)
(* trigger that was accepted may never take effect.  A count is modelled   *)
(* by the number of the run it belongs to, 0 when all counters are zero.   *)
(***************************************************************************)
EXTENDS Integers, FiniteSets

CONSTANTS
    Extractions,    \* ids of extraction_history rows, all of one source
    MaxIterations,  \* _MAX_TRACKING_ITERATIONS (8640)
    MaxStartup,     \* _MAX_STARTUP_POLLS (30)
    MaxPollFailures,    \* max_failures (5)
    MaxRuns         \* bound: runs of the extractor

ASSUME LimitsAssumption ==
    /\ MaxIterations \in Nat /\ MaxStartup \in Nat
    /\ MaxPollFailures \in Nat \ {0} /\ MaxRuns \in Nat \ {0}

VARIABLES
    extractor,   \* [status, pending, run, counts]: what /health is answered from
    row,         \* row[x]: [status, counts]
    tracker,     \* tracker[x]: the polling task of x
    trigger,     \* trigger[x]: the step of the request that triggers x
    admin,       \* the administrator: "none", "account", "session" or "signed_out"
    since,       \* history: the extractor's run when x was accepted
    fresh,       \* fresh[x]: activity no older than the tracker's window and its slack
    ambiguous,   \* history: at x's trigger the counters could not tell a run apart
    lost         \* history: x's tracker died with the process or could not write

tracking == <<row, tracker, trigger>>
history == <<since, ambiguous, lost>>
trackingVars == <<extractor, tracking, admin, fresh, history>>

-----------------------------------------------------------------------------
NoRow == [status |-> "none", counts |-> 0]

Health == [status : {"waiting", "running", "completed", "failed"}, counts : 0..MaxRuns,
           fresh : BOOLEAN]

NoHealth == [status |-> "waiting", counts |-> 0, fresh |-> FALSE]

Off == [pc |-> "off", seen |-> FALSE, startup |-> 0, failures |-> 0, polls |-> 0,
        health |-> NoHealth]

TrackingInit ==
    /\ extractor \in [status : {"waiting"}, pending : {FALSE}, run : {1}, counts : {0, 1}]
    /\ row = [x \in Extractions |-> NoRow]
    /\ tracker = [x \in Extractions |-> Off]
    /\ trigger = [x \in Extractions |-> "none"]
    /\ admin = "none"
    /\ since = [x \in Extractions |-> 0]
    /\ fresh = [x \in Extractions |-> FALSE]
    /\ ambiguous = [x \in Extractions |-> FALSE]
    /\ lost = [x \in Extractions |-> FALSE]

-----------------------------------------------------------------------------
(* add_admin, admin_login, admin_logout.  A wrong password or an account   *)
(* without is_admin is audited and refused; a rejected revocation write    *)
(* answers 503 and the session stays.                                      *)
AddAdmin ==
    /\ admin = "none"
    /\ admin' = "account"
    /\ UNCHANGED <<extractor, tracking, fresh, history>>

AdminLogin ==
    /\ admin \in {"account", "signed_out"}
    /\ admin' = "session"
    /\ UNCHANGED <<extractor, tracking, fresh, history>>

AdminLogout ==
    /\ admin = "session"
    /\ admin' = "signed_out"
    /\ UNCHANGED <<extractor, tracking, fresh, history>>

RequireAdmin == admin = "session"

-----------------------------------------------------------------------------
(* trigger_extraction: the pending row, the POST, and what its answer      *)
(* makes of the row.                                                       *)
InsertPending(x) ==
    /\ RequireAdmin
    /\ trigger[x] = "none"
    /\ trigger' = [trigger EXCEPT ![x] = "post"]
    /\ row' = [row EXCEPT ![x].status = "pending"]
    /\ UNCHANGED <<extractor, tracker, admin, fresh, history>>

(* The extractor takes one run at a time: 202, or 409 while it has one.    *)
(* recent: its last activity is within the 30 s slack of this trigger.     *)
PostAccepted(x, recent) ==
    /\ trigger[x] = "post"
    /\ extractor.status # "running" /\ ~extractor.pending
    /\ extractor' = [extractor EXCEPT !.pending = TRUE]
    /\ trigger' = [trigger EXCEPT ![x] = "accepted"]
    /\ since' = [since EXCEPT ![x] = extractor.run]
    /\ fresh' = [fresh EXCEPT ![x] = recent /\ extractor.counts # 0]
    /\ ambiguous' = [ambiguous EXCEPT ![x] = extractor.counts = 0 \/ recent]
    /\ UNCHANGED <<row, tracker, admin, lost>>

PostConflict(x) ==
    /\ trigger[x] = "post"
    /\ extractor.status = "running" \/ extractor.pending
    /\ trigger' = [trigger EXCEPT ![x] = "done"]
    /\ row' = [row EXCEPT ![x].status = "deleted"]
    /\ UNCHANGED <<extractor, tracker, admin, fresh, history>>

(* Another status, or no answer; the trigger may have taken effect.        *)
PostFails(x, took) ==
    /\ trigger[x] = "post"
    /\ trigger' = [trigger EXCEPT ![x] = "done"]
    /\ row' = [row EXCEPT ![x].status = "failed"]
    /\ extractor' = [extractor EXCEPT
                        !.pending = @ \/ (took /\ extractor.status # "running")]
    /\ UNCHANGED <<tracker, admin, fresh, history>>

(* 202: the row is running and the tracker exists.                         *)
StartTracking(x) ==
    /\ trigger[x] = "accepted"
    /\ trigger' = [trigger EXCEPT ![x] = "done"]
    /\ row' = [row EXCEPT ![x].status = "running"]
    /\ tracker' = [tracker EXCEPT ![x] = [Off EXCEPT !.pc = "sleep"]]
    /\ UNCHANGED <<extractor, admin, fresh, history>>

-----------------------------------------------------------------------------
(* _track_extraction.  A poll reads /health; its writes come after.        *)
Settle(x, status, counts) ==
    /\ row' = [row EXCEPT ![x] = [status |-> status, counts |-> counts]]
    /\ tracker' = [tracker EXCEPT ![x] = Off]
    /\ UNCHANGED lost

(* The writes of the exception handlers, only while the row is running;    *)
(* when they fail too the row stays as it is.                              *)
GiveUp(x) ==
    /\ tracker' = [tracker EXCEPT ![x] = Off]
    /\ \/ /\ row' = [row EXCEPT ![x].status = IF @ = "running" THEN "failed" ELSE @]
          /\ UNCHANGED lost
       \/ /\ lost' = [lost EXCEPT ![x] = TRUE]
          /\ UNCHANGED row

PollHealth(x) ==
    /\ tracker[x].pc = "sleep"
    /\ tracker[x].polls < MaxIterations
    /\ tracker' = [tracker EXCEPT
         ![x].pc = "got", ![x].polls = @ + 1,
         ![x].health = [status |-> extractor.status, counts |-> extractor.counts,
                        fresh |-> fresh[x]]]
    /\ UNCHANGED <<extractor, row, trigger, admin, fresh, history>>

(* A failed iteration is counted; the last one settles the row.            *)
CountFailure(x, t) ==
    IF t.failures + 1 < MaxPollFailures
    THEN /\ tracker' = [tracker EXCEPT ![x] = [t EXCEPT !.pc = "sleep", !.failures = @ + 1,
                                                        !.health = NoHealth]]
         /\ UNCHANGED <<row, lost>>
    ELSE \/ Settle(x, "failed", row[x].counts)
         \/ GiveUp(x)

(* No answer, or one that is not 200.                                      *)
PollFails(x) ==
    /\ tracker[x].pc = "sleep"
    /\ tracker[x].polls < MaxIterations
    /\ CountFailure(x, [tracker[x] EXCEPT !.polls = @ + 1])
    /\ UNCHANGED <<extractor, trigger, admin, fresh, since, ambiguous>>

(* _run_has_started: counters that were cleared, or recent activity.       *)
RunHasStarted(h) == h.counts = 0 \/ h.fresh

(* Whether the status speaks of this row's run; "failed" always does.      *)
Terminal(h, seen) == seen \/ h.status = "failed" \/ RunHasStarted(h)

(* The progress UPDATE, then what the status says.                         *)
Seen(x) == tracker[x].seen \/ tracker[x].health.status = "running"

Apply(x) ==
    LET h == tracker[x].health
        n == tracker[x].startup + 1
    IN  /\ tracker[x].pc = "got"
        /\ IF ~Terminal(h, Seen(x))
           THEN IF n > MaxStartup
                THEN Settle(x, "failed", h.counts)
                ELSE /\ tracker' = [tracker EXCEPT ![x].pc = "sleep", ![x].startup = n,
                                      ![x].failures = 0, ![x].health = NoHealth]
                     /\ row' = [row EXCEPT ![x].counts = h.counts]
                     /\ UNCHANGED lost
           ELSE CASE h.status \in {"completed", "waiting"} -> Settle(x, "completed", h.counts)
                  [] h.status = "failed" -> Settle(x, "failed", h.counts)
                  [] h.status = "running" ->
                       /\ tracker' = [tracker EXCEPT ![x].pc = "sleep", ![x].seen = TRUE,
                                        ![x].failures = 0, ![x].health = NoHealth]
                       /\ row' = [row EXCEPT ![x].counts = h.counts]
                       /\ UNCHANGED lost
        /\ UNCHANGED <<extractor, trigger, admin, fresh, since, ambiguous>>

(* One of the iteration's UPDATEs raises: it counts as a failure.          *)
ApplyFails(x) ==
    /\ tracker[x].pc = "got"
    /\ \E seen \in {tracker[x].seen, Seen(x)} :
          CountFailure(x, [tracker[x] EXCEPT !.failures = 0, !.seen = seen])
    /\ UNCHANGED <<extractor, trigger, admin, fresh, since, ambiguous>>

(* Mutant: the tracker stops at its limit without a word.                  *)
TimeOutSilent(x) ==
    /\ tracker[x].pc = "sleep"
    /\ tracker[x].polls = MaxIterations
    /\ tracker' = [tracker EXCEPT ![x] = Off]
    /\ UNCHANGED <<extractor, row, trigger, admin, fresh, history>>

(* 24 hours of polls.                                                      *)
TimeOut(x) ==
    /\ tracker[x].pc = "sleep"
    /\ tracker[x].polls = MaxIterations
    /\ Settle(x, "failed", row[x].counts) \/ GiveUp(x)
    /\ UNCHANGED <<extractor, trigger, admin, fresh, since, ambiguous>>

(* Shutdown cancels the tracker, which marks its row.                      *)
Cancel(x) ==
    /\ tracker[x].pc # "off"
    /\ GiveUp(x)
    /\ UNCHANGED <<extractor, trigger, admin, fresh, since, ambiguous>>

(* The process dies: trackers and requests are gone, rows stay.            *)
Crash ==
    /\ \E x \in Extractions : tracker[x].pc # "off" \/ trigger[x] \in {"post", "accepted"}
    /\ tracker' = [x \in Extractions |-> Off]
    /\ trigger' = [x \in Extractions |-> IF trigger[x] = "none" THEN "none" ELSE "done"]
    /\ lost' = [x \in Extractions |-> lost[x] \/ row[x].status \in {"pending", "running"}]
    /\ UNCHANGED <<extractor, row, admin, fresh, since, ambiguous>>

-----------------------------------------------------------------------------
(* The extractor.  A run starts from a trigger or from its own schedule.   *)
ExtractorStarts ==
    /\ extractor.status # "running"
    /\ extractor.run < MaxRuns
    /\ extractor' = [status |-> "running", pending |-> FALSE, run |-> extractor.run + 1,
                     counts |-> 0]
    /\ fresh' = [x \in Extractions |-> FALSE]
    /\ UNCHANGED <<tracking, admin, history>>

ExtractorCounts ==
    /\ extractor.status = "running"
    /\ extractor.counts = 0
    /\ extractor' = [extractor EXCEPT !.counts = extractor.run]
    /\ fresh' = [x \in Extractions |-> TRUE]
    /\ UNCHANGED <<tracking, admin, history>>

ExtractorEnds ==
    /\ extractor.status = "running"
    /\ \E s \in {"completed", "failed"} : extractor' = [extractor EXCEPT !.status = s]
    /\ UNCHANGED <<tracking, admin, fresh, history>>

ExtractorWaits ==
    /\ extractor.status = "completed"
    /\ extractor' = [extractor EXCEPT !.status = "waiting"]
    /\ UNCHANGED <<tracking, admin, fresh, history>>

(* A trigger that was consumed and never took effect.                      *)
TriggerIgnored ==
    /\ extractor.pending
    /\ extractor' = [extractor EXCEPT !.pending = FALSE]
    /\ UNCHANGED <<tracking, admin, fresh, history>>

Track(x) == PollHealth(x) \/ PollFails(x) \/ Apply(x) \/ ApplyFails(x) \/ TimeOut(x)

TrackingNext ==
    \/ AddAdmin \/ AdminLogin \/ AdminLogout \/ Crash
    \/ ExtractorStarts \/ ExtractorCounts \/ ExtractorEnds \/ ExtractorWaits \/ TriggerIgnored
    \/ \E x \in Extractions :
          \/ InsertPending(x) \/ PostConflict(x) \/ StartTracking(x) \/ Track(x) \/ Cancel(x)
          \/ \E b \in BOOLEAN : PostAccepted(x, b) \/ PostFails(x, b)

(* A tracker's task goes on while its process lives.                       *)
Fairness == \A x \in Extractions : WF_trackingVars(Track(x))

TrackingSpec == TrackingInit /\ [][TrackingNext]_trackingVars /\ Fairness

-----------------------------------------------------------------------------
(* Types of the rows and the trackers.                                     *)
TrackingTypeOK ==
    /\ extractor \in [status : {"waiting", "running", "completed", "failed"},
                      pending : BOOLEAN, run : 0..MaxRuns, counts : 0..MaxRuns]
    /\ row \in [Extractions ->
                  [status : {"none", "pending", "running", "completed", "failed", "deleted"},
                   counts : 0..MaxRuns]]
    /\ tracker \in [Extractions ->
                      [pc : {"off", "sleep", "got"}, seen : BOOLEAN, startup : 0..MaxStartup,
                       failures : 0..MaxPollFailures, polls : 0..MaxIterations, health : Health]]

(* A row is recorded as completed only when the extractor has begun a run  *)
(* since the trigger was accepted, and its counts are not those of an      *)
(* earlier run: the overloaded "waiting" is told apart, unless at the      *)
(* trigger the counters were zero or their activity within the slack.      *)
NoPhantomSuccess ==
    \A x \in Extractions :
        row[x].status = "completed" /\ ~ambiguous[x] =>
            extractor.run > since[x] /\ (row[x].counts # 0 => row[x].counts > since[x])

(* While the process lives and can write, a running row is settled: the    *)
(* polls, the start-up grace and the failures are all bounded.             *)
RowSettled(x) == row[x].status # "running" \/ lost[x]
TrackedRowSettles == \A x \in Extractions : []<>RowSettled(x)
=============================================================================
