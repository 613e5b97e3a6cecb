------------------------------ MODULE MCService ------------------------------
(* Instances of the components that answer for an account: its sessions    *)
(* and keys, its Discogs connection, its activity rows, and the caches     *)
(* behind its answers. They share no state with each other, so a behaviour *)
(* runs one of them, chosen initially, and their products are left out.    *)
EXTENDS TLC, Activity, Nlq, LegacyKeys, SnapshotStore, ImportCaches, Recommendations, DiscogsLink,
    Sessions

CONSTANT Parts      \* the components this instance runs

VARIABLE part       \* the one this behaviour runs

serviceVars == <<part, activityVars, nlqVars, keyVars, snapVars, importVars, recVars, oauthVars,
                 sessionVars>>

MCQuestions == {<<"q", "e1">>, <<"q", "e2">>}
MCModelCalls == {<<"get_collection_stats">>}
MCSimilar == ("heuristic" :> <<"a", "b", "c">>) @@ ("v1" :> <<"b", "a">>)

(* The requests against an account's sessions are interchangeable.         *)
Symmetry == Permutations(Requests)

MCFound == <<[name |-> "a", type |-> "artist", dist |-> 2], [name |-> "rock", type |-> "genre", dist |-> 1]>>

-----------------------------------------------------------------------------
(* A component that does not run starts in one of its initial states, and  *)
(* the recommendations with one shelf filled, one empty and no model list. *)
Parked ==
    /\ IF part = "activity" THEN TRUE ELSE owned = "none"
    /\ IF part = "keys" THEN TRUE ELSE mode = "read"
    /\ shelves = [u \in Collectors |-> IF u = "u" THEN Genres ELSE {}] /\ current = Heuristic

Init ==
    /\ part \in Parts
    /\ Parked
    /\ ActivityInit /\ NlqInit /\ KeyInit /\ SnapInit /\ ImportInit /\ RecInit /\ OauthInit /\ SessionInit

RestOf(p) ==
    /\ UNCHANGED part
    /\ IF p = "activity" THEN TRUE ELSE UNCHANGED activityVars
    /\ IF p = "nlq" THEN TRUE ELSE UNCHANGED nlqVars
    /\ IF p = "keys" THEN TRUE ELSE UNCHANGED keyVars
    /\ IF p = "snapshots" THEN TRUE ELSE UNCHANGED snapVars
    /\ IF p = "imports" THEN TRUE ELSE UNCHANGED importVars
    /\ IF p = "recommendations" THEN TRUE ELSE UNCHANGED recVars
    /\ IF p = "oauth" THEN TRUE ELSE UNCHANGED oauthVars
    /\ IF p = "sessions" THEN TRUE ELSE UNCHANGED sessionVars

Next ==
    \/ part = "activity" /\ ActivityNext /\ RestOf("activity")
    \/ part = "nlq" /\ NlqNext /\ RestOf("nlq")
    \/ part = "keys" /\ KeyNext /\ RestOf("keys")
    \/ part = "snapshots" /\ SnapNext /\ RestOf("snapshots")
    \/ part = "imports" /\ ImportNext /\ RestOf("imports")
    \/ part = "recommendations" /\ RecNext /\ RestOf("recommendations")
    \/ part = "oauth" /\ OauthNext /\ RestOf("oauth")
    \/ part = "sessions" /\ SessionNext /\ RestOf("sessions")

Spec == Init /\ [][Next]_serviceVars

-----------------------------------------------------------------------------
(* Who is let in. After a password change nothing derived from the old     *)
(* password passes while the marker lives, a logout is final although its  *)
(* key has a TTL, and a reset token changes the password once (auth.py,    *)
(* password reset).                                                        *)
SessionsEnd ==
    part = "sessions" => SessionTypeOK /\ StaleSessionsEnd /\ LogoutIsFinal /\ ResetChangesOnce

(* What activity may hold. A complete erasure leaves nothing that can be   *)
(* tied to the account, and a row carries only purposes granted during its *)
(* request (activity.py, erasure).                                         *)
ConsentAndErasure == part = "activity" => CompleteErasureIsTrue /\ RowsFollowConsent

(* Nobody is answered from another's data: NLQ answers, fit and explore    *)
(* bodies and Discogs credentials belong to the one who asked, through     *)
(* every shared cache and key.                                             *)
ViewersSeeTheirOwn ==
    CASE part = "nlq" -> AnswersAreTheAskers
      [] part = "recommendations" -> PersonalAnswersAreOwn
      [] part = "oauth" -> ConnectionsAreOwn
      [] OTHER -> TRUE

(* How stale or how full a cache may get: caches filled before an import   *)
(* are dropped after it, a personal answer reads a shelf within its TTLs,  *)
(* and a user's live snapshots stay within twice the cap, but for what     *)
(* requests gave back to a counter that had lapsed under them.             *)
CachesAreBounded ==
    CASE part = "imports" -> CachesFollowImports
      [] part = "recommendations" -> PersonalAnswersAreRecent
      [] part = "snapshots" -> LiveWithinTwiceCap
      [] OTHER -> TRUE
=============================================================================
