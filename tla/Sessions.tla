------------------------------ MODULE Sessions ------------------------------
(***************************************************************************)
(* Sessions of one account: login, logout, password change and reset, app  *)
(* tokens and the validation every endpoint shares (api/routers/auth.py,   *)
(* api/auth.py, api/dependencies.py, api/app_tokens.py, api/api.py).  The  *)
(* users row and the app tokens live in PostgreSQL, the revocation keys    *)
(* and the reset tokens in Valkey, whose writes may be rejected.  A step   *)
(* ends where the code awaits a store, so requests interleave there.       *)
(*                                                                         *)
(* The clock counts seconds: `iat`, `exp` and the marker are compared as   *)
(* whole seconds by the code.  A password is right or wrong; `epoch` counts *)
(* committed changes, and a token remembers the epoch of the hash its      *)
(* login read.  Signatures, hashes and e-mail are taken as correct, and    *)
(* the account as active: only an erasure (module Activity) deactivates    *)
(* one.  Administrator sessions are in module ExtractionTracking.          *)
(***************************************************************************)
EXTENDS Integers, FiniteSets

CONSTANTS
    Requests,     \* concurrent requests
    AppTokens,    \* ids of app tokens
    Resets,       \* ids of reset tokens
    Expire,       \* jwt_expire_minutes, in ticks
    MinRevoked,   \* the shortest life of a revoked:jti key (60 s)
    MaxTokens,    \* bound: JWTs minted
    MaxChanges,   \* bound: committed password changes
    MaxTime       \* bound: the clock

ASSUME ExpireAssumption == Expire \in Nat \ {0}
ASSUME MinRevokedAssumption == MinRevoked \in Nat
ASSUME BoundsAssumption == MaxTokens \in Nat /\ MaxChanges \in Nat /\ MaxTime \in Nat

Never == -1       \* no time: an absent key
NoReset == "no reset"
ASSUME ResetAssumption == NoReset \notin Resets

Jtis == 1..MaxTokens
Times == -1..MaxTime

VARIABLES
    now,
    user,        \* the users row: "absent" or "user"
    epoch,       \* history: committed changes of the password
    token,       \* token[j]: a minted JWT, or a record with kind "none"
    revoked,     \* revoked[j]: until when revoked:jti:j lives
    marker,      \* [at, until]: password_changed:{user}
    reset,       \* reset[k]: "unused", "requested", "live" or "gone"
    app,         \* app[a]: "unused", "active" or "revoked"
    req,         \* req[r]: the step of request r and what it holds
    outdated,    \* history: since the last first mark of a change, a re-stamp was lost
                 \* or a mark overwritten by an older one
    spent        \* history: committed changes per reset token

account == <<user, epoch>>
keys == <<revoked, marker, reset>>
history == <<outdated, spent>>
sessionVars == <<now, account, token, keys, app, req, history>>

-----------------------------------------------------------------------------
NoToken == [kind |-> "none", iat |-> Never, exp |-> Never, epoch |-> 0]

Request(pc, iat, ep, k) ==
    [pc |-> pc, iat |-> iat, epoch |-> ep, reset |-> k, stamp |-> Never,
     apps |-> {}]

Done == Request("idle", Never, 0, NoReset)

Begin(r, q) == req[r].pc = "idle" /\ req' = [req EXCEPT ![r] = q]

Leave(r) == req' = [req EXCEPT ![r] = Done]

Goto(r, pc) == req' = [req EXCEPT ![r].pc = pc]

SessionInit ==
    /\ now = 0
    /\ user = "absent"
    /\ epoch = 0
    /\ token = [j \in Jtis |-> NoToken]
    /\ revoked = [j \in Jtis |-> Never]
    /\ marker = [at |-> Never, until |-> Never]
    /\ reset = [k \in Resets |-> "unused"]
    /\ app = [a \in AppTokens |-> "unused"]
    /\ req = [r \in Requests |-> Done]
    /\ outdated = FALSE
    /\ spent = [k \in Resets |-> 0]

-----------------------------------------------------------------------------
(* decode_token: a good signature and an exp that is not in the past.      *)
Decodes(j) == token[j].kind # "none" /\ now <= token[j].exp

(* Mutant: the comparison is strict.                                       *)
MarkedStrictly(j) == now <= marker.until /\ token[j].iat < marker.at

(* token_revocation_reason: a revoked jti, or an iat at or before the      *)
(* password_changed marker; keys past their TTL are absent.                *)
Marked(j) == now <= marker.until /\ token[j].iat <= marker.at

RevocationReason(j) ==
    CASE now <= revoked[j] -> "revoked"
      [] now > revoked[j] /\ Marked(j) -> "password_changed"
      [] OTHER -> "none"

(* validate_token: the one JWT boundary, per purpose; an access token has  *)
(* no type claim.                                                          *)
ValidateToken(j, kind) ==
    Decodes(j) /\ token[j].kind = kind /\ RevocationReason(j) = "none"

(* require_user, in front of every personal endpoint.                      *)
RequireUser(j) == ValidateToken(j, "access")

(* A token is minted with the iat its caller gives; exp counts from now.   *)
NextJti == CHOOSE j \in Jtis : token[j].kind = "none"

CanMint == \E j \in Jtis : token[j].kind = "none"

CreateToken(kind, iat, ep) ==
    /\ CanMint
    /\ token' = [token EXCEPT ![NextJti] =
                    [kind |-> kind, iat |-> iat, exp |-> now + Expire, epoch |-> ep]]

CreateAccessToken(iat, ep) == CreateToken("access", iat, ep)

CreateChallengeToken(iat, ep) == CreateToken("challenge", iat, ep)

-----------------------------------------------------------------------------
(* register: an INSERT; a duplicate e-mail gets the same answer and        *)
(* changes nothing.                                                        *)
Register ==
    /\ user = "absent"
    /\ user' = "user"
    /\ UNCHANGED <<now, epoch, token, keys, app, req, history>>

(* login: the iat is stamped before the row is read, the hash that was     *)
(* read is verified, and the token or the challenge carries that iat.      *)
LoginStart(r) ==
    /\ Begin(r, Request("login_read", now, 0, NoReset))
    /\ UNCHANGED <<now, account, token, keys, app, history>>

LoginRead(r) ==
    /\ req[r].pc = "login_read"
    /\ IF user = "absent" THEN Leave(r)
       ELSE req' = [req EXCEPT ![r].pc = "login_mint", ![r].epoch = epoch]
    /\ UNCHANGED <<now, account, token, keys, app, history>>

LoginIat(r) == req[r].iat

(* With totp_enabled (module TwoFactor) it is a challenge.                 *)
LoginMint(r) ==
    /\ req[r].pc = "login_mint"
    /\ \/ CreateAccessToken(LoginIat(r), req[r].epoch)
       \/ CreateChallengeToken(LoginIat(r), req[r].epoch)
    /\ Leave(r)
    /\ UNCHANGED <<now, account, keys, app, history>>

(* A wrong password, or the challenge write is rejected: nothing minted.   *)
LoginRefused(r) ==
    /\ req[r].pc = "login_mint"
    /\ Leave(r)
    /\ UNCHANGED <<now, account, token, keys, app, history>>

(* twofa_verify, as far as the session goes: the challenge is validated,   *)
(* the access token is minted later and keeps the challenge's iat.         *)
VerifyChallenge(r, j) ==
    /\ ValidateToken(j, "challenge")
    /\ Begin(r, Request("verify_mint", token[j].iat, token[j].epoch, NoReset))
    /\ UNCHANGED <<now, account, token, keys, app, history>>

VerifyMint(r) ==
    /\ req[r].pc = "verify_mint"
    /\ CreateAccessToken(req[r].iat, req[r].epoch)
    /\ Leave(r)
    /\ UNCHANGED <<now, account, keys, app, history>>

(* logout: SETEX for what is left of the token, at least  *)
(* MinRevoked; a rejected write is a 503 and nothing is revoked.           *)
LogoutTtl(j) == IF token[j].exp - now > MinRevoked THEN token[j].exp - now ELSE MinRevoked

Logout(j) ==
    /\ RequireUser(j)
    /\ revoked' = [revoked EXCEPT ![j] = now + LogoutTtl(j)]
    /\ UNCHANGED <<now, account, token, marker, reset, app, req, history>>

-----------------------------------------------------------------------------
(* reset_request looks the account up and answers at once;                 *)
(* _process_reset_request then stores the token and mails it.              *)
ResetRequest(k) ==
    /\ reset[k] = "unused"
    /\ user # "absent"
    /\ reset' = [reset EXCEPT ![k] = "requested"]
    /\ UNCHANGED <<now, account, token, revoked, marker, app, req, history>>

ProcessResetRequest(k) ==
    /\ reset[k] = "requested"
    /\ reset' = [reset EXCEPT ![k] = "live"]
    /\ UNCHANGED <<now, account, token, revoked, marker, app, req, history>>

ResetExpires(k) ==
    /\ reset[k] = "live"
    /\ reset' = [reset EXCEPT ![k] = "gone"]
    /\ UNCHANGED <<now, account, token, revoked, marker, app, req, history>>

(* reset_confirm reads the token without consuming it.                     *)
ResetConfirm(r, k) ==
    /\ reset[k] = "live"
    /\ Begin(r, Request("update", Never, 0, k))
    /\ UNCHANGED <<now, account, token, keys, app, history>>

(* change_password: a valid session, and the current password.             *)
ChangePassword(r, j) ==
    /\ RequireUser(j)
    /\ Begin(r, Request("update", Never, 0, NoReset))
    /\ UNCHANGED <<now, account, token, keys, app, history>>

(* _commit_password_change, one transaction: the UPDATE locks the row and  *)
(* the bulk revocation takes the app tokens it can see.                    *)
InTransaction(r) == req[r].pc \in {"mark", "consume", "commit"}

(* Mutant: the UPDATEs run on an autocommit connection.                    *)
UpdateAutocommit(r) ==
    /\ req[r].pc = "update"
    /\ epoch < MaxChanges
    /\ app' = [a \in AppTokens |-> IF app[a] = "active" THEN "revoked" ELSE app[a]]
    /\ req' = [req EXCEPT ![r].pc = "mark", ![r].stamp = now]
    /\ UNCHANGED <<now, account, token, keys, history>>

Update(r) ==
    /\ req[r].pc = "update"
    /\ epoch < MaxChanges
    /\ \A q \in Requests : ~InTransaction(q)
    /\ req' = [req EXCEPT ![r].pc = "mark", ![r].stamp = now,
                          ![r].apps = {a \in AppTokens : app[a] = "active"}]
    /\ UNCHANGED <<now, account, token, keys, app, history>>

(* _write_password_changed_marker: the second was taken when the statement *)
(* before it had returned, the SETEX arrives later.                        *)
Stamp(r) == marker' = [at |-> req[r].stamp, until |-> now + Expire]

WriteMarker(r) ==
    /\ req[r].pc = "mark"
    /\ Stamp(r)
    /\ outdated' = (req[r].stamp < marker.at)
    /\ Goto(r, IF req[r].reset = NoReset THEN "commit" ELSE "consume")
    /\ UNCHANGED <<now, account, token, revoked, reset, app, spent>>

(* Valkey rejects the marker: 503, and the transaction rolls back.         *)
MarkerRejected(r) ==
    /\ req[r].pc = "mark"
    /\ Leave(r)
    /\ UNCHANGED <<now, account, token, keys, app, history>>

(* GETDEL: of two confirmations with one token, one rolls back.            *)
Consume(r) ==
    /\ req[r].pc = "consume"
    /\ IF reset[req[r].reset] = "live"
       THEN /\ reset' = [reset EXCEPT ![req[r].reset] = "gone"]
            /\ Goto(r, "commit")
       ELSE /\ Leave(r)
            /\ UNCHANGED reset
    /\ UNCHANGED <<now, account, token, revoked, marker, app, history>>

Commit(r) ==
    /\ req[r].pc = "commit"
    /\ epoch' = epoch + 1
    /\ app' = [a \in AppTokens |-> IF a \in req[r].apps THEN "revoked" ELSE app[a]]
    /\ spent' = IF req[r].reset = NoReset THEN spent
                ELSE [spent EXCEPT ![req[r].reset] = @ + 1]
    /\ req' = [req EXCEPT ![r] = Request("restamp", Never, 0, NoReset)]
    /\ UNCHANGED <<now, user, token, keys, outdated>>

CommitFails(r) ==
    /\ req[r].pc = "commit"
    /\ Leave(r)
    /\ UNCHANGED <<now, account, token, keys, app, history>>

(* The best-effort re-stamp; a failure is logged.                          *)
TakeStamp(r) ==
    /\ req[r].pc = "restamp"
    /\ req' = [req EXCEPT ![r].pc = "remark", ![r].stamp = now]
    /\ UNCHANGED <<now, account, token, keys, app, history>>

Restamp(r) ==
    /\ req[r].pc = "remark"
    /\ Stamp(r)
    /\ outdated' = (outdated \/ req[r].stamp < marker.at)
    /\ Leave(r)
    /\ UNCHANGED <<now, account, token, revoked, reset, app, spent>>

RestampFails(r) ==
    /\ req[r].pc = "remark"
    /\ outdated' = TRUE
    /\ Leave(r)
    /\ UNCHANGED <<now, account, token, keys, app, spent>>

-----------------------------------------------------------------------------
(* mint_app_token: a valid session, then the INSERT.                       *)
MintStart(r, j) ==
    /\ RequireUser(j)
    /\ Begin(r, Request("mint_app", Never, 0, NoReset))
    /\ UNCHANGED <<now, account, token, keys, app, history>>

MintToken(r, a) ==
    /\ req[r].pc = "mint_app"
    /\ app[a] = "unused"
    /\ app' = [app EXCEPT ![a] = "active"]
    /\ Leave(r)
    /\ UNCHANGED <<now, account, token, keys, history>>

(* revoke_token: the row becomes a tombstone; it waits for a bulk          *)
(* revocation that holds the row.                                          *)
RevokeToken(a, j) ==
    /\ RequireUser(j)
    /\ app[a] = "active"
    /\ \A r \in Requests : ~(InTransaction(r) /\ a \in req[r].apps)
    /\ app' = [app EXCEPT ![a] = "revoked"]
    /\ UNCHANGED <<now, account, token, keys, req, history>>

(* _lookup_active_token and require_app_token: the row must be there and   *)
(* not revoked.  Scopes never change after minting and are left out.       *)
LookupActiveToken(a) == app[a] = "active"

RequireAppToken(a) == LookupActiveToken(a)

Tick ==
    /\ now < MaxTime
    /\ now' = now + 1
    /\ UNCHANGED <<account, token, keys, app, req, history>>

RequestStep(r) ==
    \/ LoginStart(r) \/ LoginRead(r) \/ LoginMint(r) \/ LoginRefused(r)
    \/ \E j \in Jtis : VerifyChallenge(r, j) \/ ChangePassword(r, j) \/ MintStart(r, j)
    \/ VerifyMint(r)
    \/ \E k \in Resets : ResetConfirm(r, k)
    \/ Update(r) \/ TakeStamp(r) \/ WriteMarker(r) \/ MarkerRejected(r) \/ Consume(r)
    \/ Commit(r) \/ CommitFails(r) \/ Restamp(r) \/ RestampFails(r)
    \/ \E a \in AppTokens : MintToken(r, a)

SessionNext ==
    \/ Tick \/ Register
    \/ \E r \in Requests : RequestStep(r)
    \/ \E j \in Jtis : Logout(j)
    \/ \E a \in AppTokens, j \in Jtis : RevokeToken(a, j)
    \/ \E k \in Resets : ResetRequest(k) \/ ProcessResetRequest(k) \/ ResetExpires(k)

SessionSpec == SessionInit /\ [][SessionNext]_sessionVars

-----------------------------------------------------------------------------
Steps == {"idle", "login_read", "login_mint", "verify_mint", "update", "mark",
          "consume", "commit", "restamp", "remark", "mint_app"}

(* Types of the account, the keys and the requests.                        *)
SessionTypeOK ==
    /\ now \in 0..MaxTime
    /\ user \in {"absent", "user"}
    /\ epoch \in 0..MaxChanges
    /\ token \in [Jtis -> [kind : {"none", "access", "challenge"}, iat : Times,
                           exp : Int, epoch : 0..MaxChanges]]
    /\ revoked \in [Jtis -> Int]
    /\ marker \in [at : Times, until : Int]
    /\ reset \in [Resets -> {"unused", "requested", "live", "gone"}]
    /\ app \in [AppTokens -> {"unused", "active", "revoked"}]
    /\ req \in [Requests -> [pc : Steps, iat : Times, epoch : 0..MaxChanges, reset : Resets \cup {NoReset},
                             stamp : Times, apps : SUBSET AppTokens]]
    /\ outdated \in BOOLEAN
    /\ spent \in [Resets -> Nat]

(* Once a password change has finished with its re-stamp in place, no      *)
(* session or challenge that was derived from an earlier password is       *)
(* accepted for as long as the password_changed marker lives, whatever the *)
(* order in which logins read the row, verified and minted; and a token    *)
(* minted before the marker was last written does not outlive it.          *)
Finishing == \E r \in Requests : req[r].pc \in {"restamp", "remark"}

StaleSessionsEnd ==
    ~Finishing /\ ~outdated =>
        \A j \in Jtis : \A kind \in {"access", "challenge"} :
            /\ ValidateToken(j, kind)
            /\ token[j].epoch < epoch
            => now > marker.until /\ token[j].exp > marker.until

(* A reset token changes the password at most once, however many           *)
(* confirmations carry it, and a confirmation that is answered with an     *)
(* error leaves it usable unless the commit itself failed: a token that is *)
(* still live has changed nothing.                                         *)
ResetChangesOnce ==
    \A k \in Resets : spent[k] <= 1 /\ (reset[k] = "live" => spent[k] = 0)

(* A change that does not commit leaves the password and the app tokens as *)
(* they were: an app token is tombstoned by its owner or together with a   *)
(* new password, and never comes back.                                     *)
AppTokensFollowPassword ==
    [][ \A a \in AppTokens :
          /\ app[a] = "revoked" => ~RequireAppToken(a)'
          /\ RequireAppToken(a) /\ ~RequireAppToken(a)'
               => epoch' = epoch + 1 \/ UNCHANGED req ]_sessionVars

(* Logout is final: a token whose revocation was stored is not accepted    *)
(* again in what is left of its life, although the key has a TTL.          *)
LogoutIsFinal ==
    \A j \in Jtis : revoked[j] # Never => RevocationReason(j) # "none" \/ ~Decodes(j)
=============================================================================
