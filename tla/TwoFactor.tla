------------------------------ MODULE TwoFactor ------------------------------
(***************************************************************************)
(* Two-factor authentication of one account (api/routers/auth.py).  The    *)
(* TOTP columns of the users row live in PostgreSQL, the login challenges  *)
(* in Valkey.  Each endpoint awaits a store between its steps, so requests *)
(* of the account interleave: what a step read may be stale when the next  *)
(* one writes.  An autocommit statement is one step; so is the explicit    *)
(* transaction of twofa_verify from its SELECT ... FOR UPDATE on, which    *)
(* holds the row lock to the end.  Its BEGIN is a step of its own: the     *)
(* NOW() its UPDATE compares with is the time of the BEGIN, the clock its  *)
(* gate reads is later.                                                    *)
(*                                                                         *)
(* A setup stores a new secret together with new recovery codes, so a      *)
(* secret is modelled by the number of the setup that made it, and a       *)
(* recovery code by <<setup, code>>.  Passwords are taken as proven, and a *)
(* submitted TOTP code is right or wrong for the secret it is checked      *)
(* against.                                                                *)
(***************************************************************************)
EXTENDS Naturals, FiniteSets

CONSTANTS
    Requests,      \* concurrent requests of the account
    Challenges,    \* challenge jtis, each issued at most once
    Codes,         \* the recovery codes one setup generates
    LockThreshold, \* failed attempts that lock the account (5 in the code)
    MaxSetups,     \* bound: setups
    MaxAttempts    \* bound: how far totp_failed_attempts may climb

NoSecret == 0      \* totp_secret IS NULL
NoChallenge == "no challenge"
NoCode == <<NoSecret, "no code">>

Secrets == 1..MaxSetups
RecoveryCodes == Secrets \X Codes

ASSUME ThresholdAssumption == LockThreshold \in Nat \ {0, 1}
ASSUME SetupsAssumption == MaxSetups \in Nat
ASSUME AttemptsAssumption == MaxAttempts \in Nat /\ LockThreshold <= MaxAttempts
ASSUME ChallengeAssumption == NoChallenge \notin Challenges

VARIABLES
    totp_secret,           \* the secret stored by setup n, or NoSecret
    totp_enabled,
    totp_recovery_codes,   \* the unredeemed codes
    totp_failed_attempts,
    totp_locked_until,     \* "null", "future" or "past"
    challenge,             \* challenge[j]: "unissued", "live" or "gone"
    req,                   \* req[r]: the step of request r and what it holds
    setups,                \* how many secrets were generated
    minted,                \* history: access tokens minted for each challenge
    redeemed               \* history: how often each recovery code was redeemed

user == <<totp_secret, totp_enabled, totp_recovery_codes, totp_failed_attempts,
          totp_locked_until>>
history == <<setups, minted, redeemed>>
vars == <<user, challenge, req, history>>

-----------------------------------------------------------------------------
Request(pc, secret, j, code) == [pc |-> pc, secret |-> secret, jti |-> j, code |-> code]

Done == Request("idle", NoSecret, NoChallenge, NoCode)

Leave(r) == req' = [req EXCEPT ![r] = Done]

Goto(r, pc) == req' = [req EXCEPT ![r].pc = pc]

Begin(r, pc, secret, j, code) ==
    /\ req[r].pc = "idle"
    /\ req' = [req EXCEPT ![r] = Request(pc, secret, j, code)]

Init ==
    /\ totp_secret = NoSecret
    /\ totp_enabled = FALSE
    /\ totp_recovery_codes = {}
    /\ totp_failed_attempts = 0
    /\ totp_locked_until = "null"
    /\ challenge = [j \in Challenges |-> "unissued"]
    /\ req = [r \in Requests |-> Done]
    /\ setups = 0
    /\ minted = [j \in Challenges |-> 0]
    /\ redeemed = [c \in RecoveryCodes |-> 0]

-----------------------------------------------------------------------------
(* login, second half: with TOTP enabled it stores a challenge.  A         *)
(* rejected write is a 503 and issues nothing.                             *)
LoginRead(r, j) ==
    /\ totp_enabled
    /\ challenge[j] = "unissued"
    /\ \A q \in Requests : req[q].pc = "store_challenge" => req[q].jti # j
    /\ Begin(r, "store_challenge", NoSecret, j, NoCode)
    /\ UNCHANGED <<user, challenge, history>>

StoreChallenge(r) ==
    /\ req[r].pc = "store_challenge"
    /\ challenge' \in {challenge, [challenge EXCEPT ![req[r].jti] = "live"]}
    /\ Leave(r)
    /\ UNCHANGED <<user, history>>

(* The 300 s TTL of a challenge (external).                                *)
ChallengeExpires(j) ==
    /\ challenge[j] = "live"
    /\ challenge' = [challenge EXCEPT ![j] = "gone"]
    /\ UNCHANGED <<user, req, history>>

-----------------------------------------------------------------------------
(* twofa_setup: refused while enabled, when read and when written.         *)
SetupRead(r) ==
    /\ ~totp_enabled
    /\ Begin(r, "setup", NoSecret, NoChallenge, NoCode)
    /\ UNCHANGED <<user, challenge, history>>

SetupAllowed == ~totp_enabled

(* Mutant: the UPDATE is not guarded by totp_enabled.                      *)
SetupWriteBlind(r) ==
    /\ req[r].pc = "setup"
    /\ setups < MaxSetups
    /\ setups' = setups + 1
    /\ totp_secret' = setups + 1
    /\ totp_recovery_codes' = {setups + 1} \X Codes
    /\ Leave(r)
    /\ UNCHANGED <<totp_enabled, totp_failed_attempts, totp_locked_until, challenge,
                   minted, redeemed>>

SetupWrite(r) ==
    /\ req[r].pc = "setup"
    /\ SetupAllowed
    /\ setups < MaxSetups
    /\ setups' = setups + 1
    /\ totp_secret' = setups + 1
    /\ totp_recovery_codes' = {setups + 1} \X Codes
    /\ Leave(r)
    /\ UNCHANGED <<totp_enabled, totp_failed_attempts, totp_locked_until, challenge,
                   minted, redeemed>>

(* twofa_confirm: a right code for the secret it read, then an UPDATE      *)
(* guarded on that secret.                                                 *)
ConfirmRead(r) ==
    /\ totp_secret # NoSecret
    /\ Begin(r, "confirm", totp_secret, NoChallenge, NoCode)
    /\ UNCHANGED <<user, challenge, history>>

(* Mutant: the account is enabled whatever its secret is now.              *)
ConfirmWriteBlind(r) ==
    /\ req[r].pc = "confirm"
    /\ totp_enabled' = TRUE
    /\ Leave(r)
    /\ UNCHANGED <<totp_secret, totp_recovery_codes, totp_failed_attempts, totp_locked_until,
                   challenge, history>>

ConfirmWrite(r) ==
    /\ req[r].pc = "confirm"
    /\ totp_secret = req[r].secret
    /\ totp_enabled' = TRUE
    /\ Leave(r)
    /\ UNCHANGED <<totp_secret, totp_recovery_codes, totp_failed_attempts, totp_locked_until,
                   challenge, history>>

(* twofa_disable: a right code for the secret it read, then an unguarded   *)
(* UPDATE.                                                                 *)
DisableRead(r) ==
    /\ totp_enabled
    /\ totp_secret # NoSecret
    /\ Begin(r, "disable", totp_secret, NoChallenge, NoCode)
    /\ UNCHANGED <<user, challenge, history>>

DisableWrite(r) ==
    /\ req[r].pc = "disable"
    /\ totp_secret' = NoSecret
    /\ totp_enabled' = FALSE
    /\ totp_recovery_codes' = {}
    /\ totp_failed_attempts' = 0
    /\ totp_locked_until' = "null"
    /\ Leave(r)
    /\ UNCHANGED <<challenge, history>>

(* The 400 or 409 answer of a write whose guard no longer holds.           *)
WriteConflict(r) ==
    /\ \/ req[r].pc = "setup" /\ ~SetupAllowed
       \/ req[r].pc = "confirm" /\ totp_secret # req[r].secret
    /\ Leave(r)
    /\ UNCHANGED <<user, challenge, history>>

-----------------------------------------------------------------------------
(* twofa_verify: the challenge is looked at, not consumed.                 *)
VerifyBegin(r, j) ==
    /\ challenge[j] = "live"
    /\ Begin(r, "verify", NoSecret, j, NoCode)
    /\ UNCHANGED <<user, challenge, history>>

(* The transaction begins, and its NOW() with it.                          *)
VerifyTxn(r) ==
    /\ req[r].pc = "verify"
    /\ Goto(r, "verify_txn")
    /\ UNCHANGED <<user, challenge, history>>

(* A transaction during which a lock ran out is "verify_stale": its gate   *)
(* sees the lock as past, its UPDATE compares with the earlier NOW().      *)
InTxn(r) == req[r].pc \in {"verify_txn", "verify_stale"}

CanGuess == totp_secret # NoSecret /\ totp_locked_until # "future"

(* totp_locked_until IS NOT NULL AND totp_locked_until <= NOW()            *)
Elapsed(r) == totp_locked_until = "past" /\ req[r].pc = "verify_txn"

(* The attempt counter starts again once an earlier lock has run out.      *)
NextAttempts(r) == IF Elapsed(r) THEN 1 ELSE totp_failed_attempts + 1

VerifyRight(r) ==
    /\ InTxn(r)
    /\ CanGuess
    /\ Goto(r, "consume")
    /\ UNCHANGED <<user, challenge, history>>

VerifyWrong(r) ==
    /\ InTxn(r)
    /\ CanGuess
    /\ totp_failed_attempts' = NextAttempts(r)
    /\ totp_locked_until' = IF NextAttempts(r) >= LockThreshold THEN "future"
                            ELSE IF Elapsed(r) THEN "null"
                            ELSE totp_locked_until
    /\ Leave(r)
    /\ UNCHANGED <<totp_secret, totp_enabled, totp_recovery_codes, challenge, history>>

(* 401 (not configured) or 429 (locked).                                   *)
VerifyRefused(r) ==
    /\ InTxn(r)
    /\ ~CanGuess
    /\ Leave(r)
    /\ UNCHANGED <<user, challenge, history>>

(* The clock passes totp_locked_until (external); MaxAttempts bounds how   *)
(* often it does so under an open transaction.                             *)
LockElapses ==
    /\ totp_locked_until = "future"
    /\ totp_failed_attempts < MaxAttempts \/ \A r \in Requests : ~InTxn(r)
    /\ totp_locked_until' = "past"
    /\ req' = [r \in Requests |-> IF InTxn(r) THEN [req[r] EXCEPT !.pc = "verify_stale"]
                                  ELSE req[r]]
    /\ UNCHANGED <<totp_secret, totp_enabled, totp_recovery_codes, totp_failed_attempts,
                   challenge, history>>

Mint(j) == minted' = [minted EXCEPT ![j] = @ + 1]

(* Mutant: the answer of GETDEL is ignored.                                *)
AlwaysConsumed(j) == TRUE

(* GETDEL found the challenge.                                             *)
Consumed(j) == challenge[j] = "live"

ConsumeChallenge(r) ==
    /\ req[r].pc = "consume"
    /\ Consumed(req[r].jti)
    /\ challenge' = [challenge EXCEPT ![req[r].jti] = "gone"]
    /\ Goto(r, "reset")
    /\ UNCHANGED <<user, history>>

(* The counter is reset, unguarded, and the access token is minted.        *)
ResetAttempts(r) ==
    /\ req[r].pc = "reset"
    /\ totp_failed_attempts' = 0
    /\ totp_locked_until' = "null"
    /\ Mint(req[r].jti)
    /\ Leave(r)
    /\ UNCHANGED <<totp_secret, totp_enabled, totp_recovery_codes, challenge, setups, redeemed>>

-----------------------------------------------------------------------------
(* twofa_recovery.                                                         *)
RecoveryBegin(r, j, c) ==
    /\ challenge[j] = "live"
    /\ Begin(r, "redeem", NoSecret, j, c)
    /\ UNCHANGED <<user, challenge, history>>

(* Mutant: the UPDATE is not guarded on the code's presence.               *)
AnyCode(c) == TRUE

(* totp_recovery_codes ? code                                              *)
Redeemable(c) == c \in totp_recovery_codes

Redeem(r) ==
    /\ req[r].pc = "redeem"
    /\ Redeemable(req[r].code)
    /\ totp_recovery_codes' = totp_recovery_codes \ {req[r].code}
    /\ totp_failed_attempts' = 0
    /\ totp_locked_until' = "null"
    /\ redeemed' = [redeemed EXCEPT ![req[r].code] = @ + 1]
    /\ Goto(r, "consume_recovery")
    /\ UNCHANGED <<totp_secret, totp_enabled, challenge, setups, minted>>

RedeemRefused(r) ==
    /\ req[r].pc = "redeem"
    /\ ~Redeemable(req[r].code)
    /\ Leave(r)
    /\ UNCHANGED <<user, challenge, history>>

ConsumeForRecovery(r) ==
    /\ req[r].pc = "consume_recovery"
    /\ Consumed(req[r].jti)
    /\ challenge' = [challenge EXCEPT ![req[r].jti] = "gone"]
    /\ Mint(req[r].jti)
    /\ Leave(r)
    /\ UNCHANGED <<user, setups, redeemed>>

(* The challenge expired or another request consumed it first: 401.        *)
ChallengeLost(r) ==
    /\ req[r].pc \in {"consume", "consume_recovery"}
    /\ ~Consumed(req[r].jti)
    /\ Leave(r)
    /\ UNCHANGED <<user, challenge, history>>

(* A store fails or the process dies: the request goes no further.         *)
Abort(r) ==
    /\ req[r].pc # "idle"
    /\ Leave(r)
    /\ UNCHANGED <<user, challenge, history>>

-----------------------------------------------------------------------------
Next ==
    \/ \E r \in Requests :
          \/ \E j \in Challenges :
                \/ LoginRead(r, j) \/ VerifyBegin(r, j)
                \/ \E c \in RecoveryCodes : RecoveryBegin(r, j, c)
          \/ StoreChallenge(r)
          \/ SetupRead(r) \/ SetupWrite(r)
          \/ ConfirmRead(r) \/ ConfirmWrite(r)
          \/ DisableRead(r) \/ DisableWrite(r)
          \/ WriteConflict(r)
          \/ VerifyTxn(r) \/ VerifyRight(r) \/ VerifyWrong(r) \/ VerifyRefused(r)
          \/ ConsumeChallenge(r) \/ ResetAttempts(r)
          \/ Redeem(r) \/ RedeemRefused(r) \/ ConsumeForRecovery(r)
          \/ ChallengeLost(r)
          \/ Abort(r)
    \/ \E j \in Challenges : ChallengeExpires(j)
    \/ LockElapses

Spec == Init /\ [][Next]_vars

-----------------------------------------------------------------------------
(* Properties.                                                             *)

Steps == {"idle", "store_challenge", "setup", "confirm", "disable", "verify", "verify_txn",
          "verify_stale", "consume", "reset", "redeem", "consume_recovery"}

RequestType ==
    [pc : Steps, secret : Secrets \cup {NoSecret}, jti : Challenges \cup {NoChallenge},
     code : RecoveryCodes \cup {NoCode}]

TypeOK ==
    /\ totp_secret \in Secrets \cup {NoSecret}
    /\ totp_enabled \in BOOLEAN
    /\ totp_recovery_codes \subseteq RecoveryCodes
    /\ totp_failed_attempts \in 0..MaxAttempts
    /\ totp_locked_until \in {"null", "future", "past"}
    /\ challenge \in [Challenges -> {"unissued", "live", "gone"}]
    /\ req \in [Requests -> RequestType]
    /\ setups \in 0..MaxSetups
    /\ minted \in [Challenges -> Nat]
    /\ redeemed \in [RecoveryCodes -> Nat]

(* "login demands 2FA but neither twofa_verify nor twofa_recovery can ever *)
(* satisfy it, a permanent lockout": whatever setups, confirmations and    *)
(* disables race, an enabled account has a secret, and the recovery codes  *)
(* it has are the ones handed out with that secret.                        *)
NoPermanentLockout ==
    /\ totp_enabled => totp_secret # NoSecret
    /\ totp_recovery_codes \subseteq {totp_secret} \X Codes

(* The secret of an enabled account is only ever taken away by disabling:  *)
(* a setup that read "not enabled" earlier cannot orphan the user's        *)
(* authenticator.                                                          *)
LiveSecretIsKept ==
    [][totp_enabled /\ totp_enabled' => totp_secret' = totp_secret]_vars

(* The account is locked, or its lock has run out unused, exactly while    *)
(* the counter is at the threshold or beyond: no interleaving of wrong     *)
(* codes, successes and recoveries gives an extra guess.                   *)
LockAtThreshold ==
    totp_locked_until # "null" <=> totp_failed_attempts >= LockThreshold

(* "each post-expiry window starts fresh instead of instantly re-locking   *)
(* at 5+1": a wrong code given after a lock ran out does not renew the     *)
(* lock, except in the one window the two clocks leave, when the lock ran  *)
(* out after that request's transaction had begun.                         *)
FreshWindow ==
    [][(totp_locked_until = "past" /\ totp_locked_until' = "future") =>
          \E r \in Requests : req[r].pc = "verify_stale" /\ req'[r].pc = "idle"]_vars

(* A challenge is worth one access token, however many verify and recovery *)
(* requests present it at once.                                            *)
OneTokenPerChallenge == \A j \in Challenges : minted[j] <= 1

(* "only one redemption of a given code can ever match".                   *)
CodeRedeemedOnce == \A c \in RecoveryCodes : redeemed[c] <= 1

(* "Disable 2FA - requires both password and current TOTP code": the       *)
(* secret a disable clears is the one its code was checked against.        *)
(* It does not hold: see "Observations" in the README.                     *)
DisableNeedsCurrentCode ==
    [][\A r \in Requests :
          DisableWrite(r) /\ totp_enabled => totp_secret = req[r].secret]_vars
=============================================================================
