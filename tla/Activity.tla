------------------------------ MODULE Activity ------------------------------
(***************************************************************************)
(* First-party activity of one account (api/activity.py,                   *)
(* api/routers/activity.py, api/routers/observations.py) and its erasure,  *)
(* across replicas that each cache the account's pseudonym and across the  *)
(* stores: PostgreSQL, Neo4j, and the Valkey keys that may lie on a cache  *)
(* instance of their own (api/valkey_routing.py, api/cache.py).            *)
(***************************************************************************)
EXTENDS Integers, FiniteSets

CONSTANTS
    Hosts,          \* replicas; each serves one activity request at a time
    Purposes,       \* consent purposes
    MaxSubjects,    \* bound: pseudonyms drawn
    MaxRequests,    \* bound: requests begun
    MaxDown         \* bound: failures of the database and of the cache instance

VARIABLES
    link,       \* activity.user_subjects: the account's subject, 0 when there is none
    subjects,   \* subjects drawn so far
    subject,    \* subject[h]: _subjects of h, 0 when not cached
    grants,     \* purposes granted and not revoked
    rows,       \* events and impressions: [subject, purposes, seen, late]
    owned,      \* the account's own rows, collection and copies included
    node,       \* the account's subgraph in Neo4j
    recs,       \* per-user recommendation keys on the cache instance
    request,    \* request[h]: a request in progress; seen is history: grants since it began
    erasure,    \* the erasure: [pc, at, subject, failed]
    requests, down

activityVars == <<link, subjects, subject, grants, rows, owned, node, recs, request, erasure, requests,
                  down>>

-----------------------------------------------------------------------------
NoRequest == [pc |-> "idle", subject |-> 0, purposes |-> {}, seen |-> {}]

ActivityInit ==
    /\ link = 0 /\ subjects = 0
    /\ subject = [h \in Hosts |-> 0]
    /\ grants = {}
    /\ rows = {}
    /\ owned \in {"some", "none"}
    /\ node = TRUE
    /\ recs = "none"
    /\ request = [h \in Hosts |-> NoRequest]
    /\ erasure = [pc |-> "none", at |-> CHOOSE h \in Hosts : TRUE, subject |-> 0, failed |-> FALSE]
    /\ requests = 0 /\ down = 0

Down == down < MaxDown /\ down' = down + 1

Erased == erasure.pc \in {"neo4j", "sweep", "keys", "verify", "revoke", "complete", "incomplete"}

-----------------------------------------------------------------------------
(* set_consent: an event follows only when the state has changed.          *)
NewRequest(g) == [NoRequest EXCEPT !.pc = "subject", !.seen = g]

SetConsent(h, p) ==
    /\ request[h].pc = "idle"
    /\ requests < MaxRequests
    /\ requests' = requests + 1
    /\ grants' \in {grants \cup {p}, grants \ {p}} \ {grants}
    /\ request' = [i \in Hosts |->
                      IF i = h THEN NewRequest(grants')
                      ELSE IF request[i].pc = "idle" THEN NoRequest
                      ELSE [request[i] EXCEPT !.seen = @ \cup grants']]
    /\ UNCHANGED <<link, subjects, subject, rows, owned, node, recs, erasure, down>>

(* record_outcome, a search page, a recommendation list, a sync's change:  *)
(* record_event, record_events and record_impressions share their steps.   *)
Record(h) ==
    /\ request[h].pc = "idle"
    /\ requests < MaxRequests
    /\ requests' = requests + 1
    /\ request' = [request EXCEPT ![h] = NewRequest(grants)]
    /\ UNCHANGED <<link, subjects, subject, grants, rows, owned, node, recs, erasure, down>>

(* subject_for: this process's cache, or the row, drawn when absent.       *)
SubjectFor(h) ==
    IF subject[h] # 0 THEN subject[h] ELSE IF link # 0 THEN link ELSE subjects + 1

Resolve(h) ==
    /\ subjects < MaxSubjects \/ SubjectFor(h) # subjects + 1
    /\ link' = IF subject[h] = 0 THEN SubjectFor(h) ELSE link
    /\ subjects' = IF SubjectFor(h) > subjects THEN SubjectFor(h) ELSE subjects
    /\ subject' = [subject EXCEPT ![h] = SubjectFor(h)]

ResolveSubject(h) ==
    /\ request[h].pc = "subject"
    /\ \/ /\ Resolve(h)
          /\ request' = [request EXCEPT ![h].pc = "purposes", ![h].subject = SubjectFor(h)]
          /\ UNCHANGED down
       \/ /\ Down
          /\ subject[h] = 0
          /\ request' = [request EXCEPT ![h] = NoRequest]
          /\ UNCHANGED <<link, subjects, subject>>
    /\ UNCHANGED <<grants, rows, owned, node, recs, erasure, requests>>

(* active_purposes: the grants of now; unreadable ones count as none.      *)
ActivePurposes(h) == grants

ReadPurposes(h) ==
    /\ request[h].pc = "purposes"
    /\ \/ request' = [request EXCEPT ![h].pc = "insert", ![h].purposes = ActivePurposes(h)]
          /\ UNCHANGED down
       \/ /\ Down
          /\ request' = [request EXCEPT ![h].pc = "insert"]
    /\ UNCHANGED <<link, subjects, subject, grants, rows, owned, node, recs, erasure, requests>>

(* The INSERT; a failure, an invalid payload or a known key drops it.      *)
Insert(h) ==
    /\ request[h].pc = "insert"
    /\ rows' = rows \cup {[subject |-> request[h].subject, purposes |-> request[h].purposes,
                          seen |-> request[h].seen, late |-> Erased]}
    /\ request' = [request EXCEPT ![h] = NoRequest]
    /\ UNCHANGED <<link, subjects, subject, grants, owned, node, recs, erasure, requests, down>>

InsertDropped(h) ==
    /\ request[h].pc = "insert"
    /\ request' = [request EXCEPT ![h] = NoRequest]
    /\ UNCHANGED <<link, subjects, subject, grants, rows, owned, node, recs, erasure, requests, down>>

(* create_observation writes only for a copy that is there; a sync writes  *)
(* rows and the graph; a recommendation fills its keys, best effort.       *)
CreateObservation ==
    /\ owned # "none"
    /\ owned' = IF Erased THEN "late" ELSE "some"
    /\ UNCHANGED <<link, subjects, subject, grants, rows, node, recs, request, erasure, requests, down>>

SyncWrites ==
    /\ requests < MaxRequests
    /\ requests' = requests + 1
    /\ owned' = IF Erased THEN "late" ELSE "some"
    /\ node' = TRUE
    /\ UNCHANGED <<link, subjects, subject, grants, rows, recs, request, erasure, down>>

FillRecs ==
    /\ recs = "none"
    /\ requests < MaxRequests
    /\ requests' = requests + 1
    /\ recs' = IF erasure.pc \in {"keys", "verify", "revoke", "complete", "incomplete"}
               THEN "late" ELSE "some"
    /\ UNCHANGED <<link, subjects, subject, grants, rows, owned, node, request, erasure, down>>

-----------------------------------------------------------------------------
(* request_erasure: password and TOTP, the subject, its own event (which   *)
(* the deletion takes along), and one PostgreSQL transaction.              *)
RequestErasure(h) ==
    /\ erasure.pc = "none"
    /\ \/ /\ Resolve(h)
          /\ erasure' = [erasure EXCEPT !.pc = "postgres", !.at = h, !.subject = SubjectFor(h)]
          /\ UNCHANGED down
       \/ /\ Down
          /\ UNCHANGED <<link, subjects, subject, erasure>>
    /\ UNCHANGED <<grants, rows, owned, node, recs, request, requests>>

(* _DELETE_SUBJECT ends the pseudonym in the transaction of the rows;      *)
(* forget_subject reaches the cache of this process only.  The consent     *)
(* grants, which name the account and not the subject, are left alone.     *)
ErasePostgres ==
    /\ erasure.pc = "postgres"
    /\ rows' = {e \in rows : e.subject # erasure.subject}
    /\ link' = 0
    /\ owned' = "none"
    /\ subject' = [subject EXCEPT ![erasure.at] = 0]
    /\ erasure' = [erasure EXCEPT !.pc = "neo4j"]
    /\ UNCHANGED <<subjects, grants, node, recs, request, requests, down>>

ErasePostgresFails ==
    /\ erasure.pc = "postgres"
    /\ Down
    /\ erasure' = [erasure EXCEPT !.pc = "none"]
    /\ UNCHANGED <<link, subjects, subject, grants, rows, owned, node, recs, request, requests>>

EraseNeo4j ==
    /\ erasure.pc = "neo4j"
    /\ \/ node' = FALSE /\ erasure' = [erasure EXCEPT !.pc = "sweep"] /\ UNCHANGED down
       \/ Down /\ erasure' = [erasure EXCEPT !.pc = "sweep", !.failed = TRUE] /\ UNCHANGED node
    /\ UNCHANGED <<link, subjects, subject, grants, rows, owned, recs, request, requests>>

(* _erase_valkey: invalidate_user swallows its failures ...                *)
InvalidateUser ==
    /\ erasure.pc = "sweep"
    /\ \/ recs' = "none" /\ UNCHANGED down
       \/ Down /\ UNCHANGED recs
    /\ erasure' = [erasure EXCEPT !.pc = "keys"]
    /\ UNCHANGED <<link, subjects, subject, grants, rows, owned, node, request, requests>>

(* ... the counter and the sync keys go from the auth instance ...         *)
DeleteUserKeys ==
    /\ erasure.pc = "keys"
    /\ \/ erasure' = [erasure EXCEPT !.pc = "verify"] /\ UNCHANGED down
       \/ Down /\ erasure' = [erasure EXCEPT !.pc = "revoke", !.failed = TRUE]
    /\ UNCHANGED <<link, subjects, subject, grants, rows, owned, node, recs, request, requests>>

(* Mutant: an unreachable cache instance answers as an empty one.          *)
AnswerWhenDownMiss == FALSE

(* ... and the survivors are counted through the strict client, which      *)
(* raises where the default client reports a miss (RoutedValkey._miss).    *)
AnswerWhenDown == TRUE

CountSurvivors ==
    /\ erasure.pc = "verify"
    /\ \/ /\ erasure' = [erasure EXCEPT !.pc = "revoke", !.failed = @ \/ recs # "none"]
          /\ UNCHANGED down
       \/ /\ Down
          /\ erasure' = [erasure EXCEPT !.pc = "revoke", !.failed = @ \/ AnswerWhenDown]
    /\ UNCHANGED <<link, subjects, subject, grants, rows, owned, node, recs, request, requests>>

(* _revoke_caller_token, suppressed; then the answer.                      *)
AnswerErasure ==
    /\ erasure.pc = "revoke"
    /\ erasure' = [erasure EXCEPT !.pc = IF erasure.failed THEN "incomplete" ELSE "complete"]
    /\ UNCHANGED <<link, subjects, subject, grants, rows, owned, node, recs, request, requests, down>>

ActivityNext ==
    \/ CreateObservation \/ SyncWrites \/ FillRecs
    \/ ErasePostgres \/ ErasePostgresFails \/ EraseNeo4j \/ InvalidateUser \/ DeleteUserKeys
    \/ CountSurvivors \/ AnswerErasure
    \/ \E h \in Hosts :
          \/ Record(h) \/ ResolveSubject(h) \/ ReadPurposes(h) \/ Insert(h) \/ InsertDropped(h)
          \/ RequestErasure(h)
          \/ \E p \in Purposes : SetConsent(h, p)

-----------------------------------------------------------------------------
(* An erasure answered as complete is one: no row recorded before it can   *)
(* be tied to the account, its own rows are gone, and no recommendation    *)
(* key from before the sweep is left, whichever instance failed meanwhile. *)
(* What a request still in flight writes later is late, not left behind.   *)
CompleteErasureIsTrue ==
    /\ Erased => (\A e \in rows : e.subject = link => e.late) /\ owned # "some"
    /\ erasure.pc = "complete" => recs # "some"

(* A row never carries a purpose that was not granted at any time since    *)
(* its request began: a revocation answered before that is respected.      *)
RowsFollowConsent ==
    \A e \in rows : e.purposes \subseteq e.seen

(* "Consent does not have to be revoked first; erasure implies it": the    *)
(* transaction of the erasure leaves no grant standing.  It does not hold. *)
ErasureImpliesRevocation ==
    [][erasure.pc = "postgres" /\ erasure'.pc = "neo4j" => grants' = {}]_activityVars
=============================================================================
