----------------------------- MODULE MCAccount -----------------------------
(* Instances of two components that keep one account's rows: its second    *)
(* factor, and the copy of its Discogs list. They share no state, so a     *)
(* behaviour runs one of them, chosen initially, and their product is left *)
(* out.                                                                    *)
EXTENDS TLC, TwoFactor, SyncRun

CONSTANT Parts      \* the components this instance runs

VARIABLE part       \* the one this behaviour runs

accountVars == <<part, vars, runVars>>

(* The requests are interchangeable, and so are the challenges.            *)
Symmetry == Permutations(Requests) \cup Permutations(Challenges)

-----------------------------------------------------------------------------
(* The list of a behaviour that does not copy it is of one kind only.      *)
AccountInit ==
    /\ part \in Parts
    /\ part = "list" \/ list = "collection"
    /\ Init /\ RunInit

(* A user may leave the list alone for ever; the second factor never gets  *)
(* stuck.                                                                  *)
LeftAlone == part = "list" /\ UNCHANGED accountVars

AccountNext ==
    \/ part = "two_factor" /\ Next /\ UNCHANGED <<part, runVars>>
    \/ part = "list" /\ RunNext /\ UNCHANGED <<part, vars>>
    \/ LeftAlone

AccountSpec == AccountInit /\ [][AccountNext]_accountVars
=============================================================================
