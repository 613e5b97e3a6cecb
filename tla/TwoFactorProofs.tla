-------------------------- MODULE TwoFactorProofs ---------------------------
(***************************************************************************)
(* Proofs about TwoFactor, for any number of requests, challenges, codes   *)
(* and setups.                                                             *)
(***************************************************************************)
EXTENDS TwoFactor, TLAPS

(* What a request carries at each step, and which challenge it may name.   *)
ReqShape ==
    \A r \in Requests :
        /\ req[r].pc \in {"store_challenge", "verify", "verify_txn", "verify_stale", "consume",
                          "reset", "redeem", "consume_recovery"} => req[r].jti \in Challenges
        /\ req[r].pc = "redeem" => req[r].code \in RecoveryCodes
        /\ req[r].pc \in {"confirm", "disable"} => req[r].secret # NoSecret

(* A lock that ran out under an open transaction left the counter room to  *)
(* be raised once more.                                                    *)
StaleInv ==
    \A r \in Requests :
        req[r].pc = "verify_stale" /\ totp_locked_until = "past"
            => totp_failed_attempts < MaxAttempts

(* A challenge is stored by one login, and between its consumption and the *)
(* minting exactly one request stands for the token it is worth.           *)
ChallengeInv ==
    /\ \A r \in Requests :
          /\ req[r].pc = "store_challenge" => challenge[req[r].jti] = "unissued"
          /\ req[r].pc = "reset" => /\ challenge[req[r].jti] = "gone"
                                    /\ minted[req[r].jti] = 0
    /\ \A q, r \in Requests :
          /\ req[q].pc = req[r].pc
          /\ req[r].pc \in {"store_challenge", "reset"}
          /\ req[q].jti = req[r].jti
          => q = r
    /\ \A j \in Challenges : challenge[j] # "gone" => minted[j] = 0
    /\ \A j \in Challenges : minted[j] <= 1

(* A code that is stored, or not yet generated, has not been redeemed.     *)
CodesInv ==
    /\ totp_secret <= setups
    /\ \A c \in RecoveryCodes :
          /\ c \in totp_recovery_codes => redeemed[c] = 0
          /\ c[1] > setups => redeemed[c] = 0
          /\ redeemed[c] <= 1

Inv ==
    /\ TypeOK
    /\ ReqShape
    /\ StaleInv
    /\ LockAtThreshold
    /\ NoPermanentLockout
    /\ ChallengeInv
    /\ CodesInv

-----------------------------------------------------------------------------
LEMMA DoneTyped == Done \in RequestType
BY DEF Done, Request, Steps, RequestType

LEMMA NoAttempts == 0 \in 0..MaxAttempts
BY AttemptsAssumption

LEMMA InitInv == Init => Inv
<1> SUFFICES ASSUME Init PROVE Inv
  OBVIOUS
<1>1. TypeOK
  <2>1. req \in [Requests -> RequestType]
    BY DoneTyped DEF Init
  <2>2. 0 \in 0..MaxAttempts /\ 0 \in 0..MaxSetups
    BY NoAttempts, SetupsAssumption
  <2> QED
    BY <2>1, <2>2 DEF Init, TypeOK
<1>2. ReqShape /\ StaleInv /\ LockAtThreshold /\ NoPermanentLockout
  BY ThresholdAssumption DEF Init, ReqShape, StaleInv, LockAtThreshold, NoPermanentLockout, Done, Request
<1>3. ChallengeInv /\ CodesInv
  BY DEF Init, ChallengeInv, CodesInv, Done, Request, NoSecret
<1> QED
  BY <1>1, <1>2, <1>3 DEF Inv

(* A request that leaves, moves to another step or begins stays well typed. *)
LEMMA ReqTyped ==
  ASSUME req \in [Requests -> RequestType], NEW r \in Requests,
         \/ Leave(r)
         \/ \E pc \in Steps : Goto(r, pc)
         \/ \E pc \in Steps, s \in Secrets \cup {NoSecret},
               j \in Challenges \cup {NoChallenge}, c \in RecoveryCodes \cup {NoCode} :
                 Begin(r, pc, s, j, c)
  PROVE  req' \in [Requests -> RequestType]
<1>1. CASE Leave(r)
  BY <1>1, DoneTyped DEF Leave
<1>2. ASSUME NEW pc \in Steps, Goto(r, pc) PROVE req' \in [Requests -> RequestType]
  <2>1. [req[r] EXCEPT !.pc = pc] \in RequestType
    BY DEF RequestType
  <2> QED
    BY <1>2, <2>1 DEF Goto
<1>3. ASSUME NEW pc \in Steps, NEW s \in Secrets \cup {NoSecret},
             NEW j \in Challenges \cup {NoChallenge}, NEW c \in RecoveryCodes \cup {NoCode},
             Begin(r, pc, s, j, c)
      PROVE  req' \in [Requests -> RequestType]
  <2>1. Request(pc, s, j, c) \in RequestType
    BY DEF RequestType, Request
  <2> QED
    BY <1>3, <2>1 DEF Begin
<1> QED
  BY <1>1, <1>2, <1>3

(* A refused, lost or aborted request changes nothing but itself.          *)
LEMMA LeaveOnly ==
  ASSUME Inv, NEW r \in Requests, Leave(r), UNCHANGED <<user, challenge, history>>
  PROVE  Inv'
<1>1. TypeOK'
  BY ReqTyped DEF Inv, TypeOK, user, history
<1>2. ReqShape' /\ StaleInv'
  BY DEF Inv, ReqShape, StaleInv, TypeOK, Leave, Done, Request, user
<1>3. LockAtThreshold' /\ NoPermanentLockout' /\ CodesInv'
  BY DEF Inv, LockAtThreshold, NoPermanentLockout, CodesInv, user, history
<1>4. ChallengeInv'
  BY DEF Inv, ChallengeInv, TypeOK, Leave, Done, Request, history
<1> QED
  BY <1>1, <1>2, <1>3, <1>4 DEF Inv

(* A request that begins has read something and written nothing.           *)
LEMMA BeginOnly ==
  ASSUME Inv, NEW r \in Requests,
         NEW pc \in {"store_challenge", "setup", "confirm", "disable", "verify", "redeem"},
         NEW s \in Secrets \cup {NoSecret},
         NEW j \in Challenges \cup {NoChallenge}, NEW c \in RecoveryCodes \cup {NoCode},
         Begin(r, pc, s, j, c), UNCHANGED <<user, challenge, history>>,
         pc \in {"store_challenge", "verify", "redeem"} => j \in Challenges,
         pc = "redeem" => c \in RecoveryCodes,
         pc \in {"confirm", "disable"} => s # NoSecret,
         pc = "store_challenge" =>
             /\ challenge[j] = "unissued"
             /\ \A q \in Requests : req[q].pc = "store_challenge" => req[q].jti # j
  PROVE  Inv'
<1>1. TypeOK'
  <2>1. pc \in Steps
    BY DEF Steps
  <2> QED
    BY <2>1, ReqTyped DEF Inv, TypeOK, user, history
<1>2. ReqShape' /\ StaleInv'
  BY DEF Inv, ReqShape, StaleInv, TypeOK, Begin, Request, user
<1>3. LockAtThreshold' /\ NoPermanentLockout' /\ CodesInv'
  BY DEF Inv, LockAtThreshold, NoPermanentLockout, CodesInv, user, history
<1>4. ChallengeInv'
  BY DEF Inv, ChallengeInv, TypeOK, Begin, Request, history
<1> QED
  BY <1>1, <1>2, <1>3, <1>4 DEF Inv

-----------------------------------------------------------------------------
(* The steps that write, one lemma each.                                   *)

LEMMA StoreChallengeStep ==
  ASSUME Inv, NEW r \in Requests, StoreChallenge(r) PROVE Inv'
<1> DEFINE j == req[r].jti
<1>1. j \in Challenges /\ challenge[j] = "unissued" /\ minted[j] = 0
  BY DEF Inv, ReqShape, ChallengeInv, StoreChallenge
<1>2. challenge' \in [Challenges -> {"unissued", "live", "gone"}]
  BY DEF Inv, TypeOK, StoreChallenge
<1>3. TypeOK'
  BY <1>2, ReqTyped DEF Inv, TypeOK, StoreChallenge, user, history
<1>4. ReqShape' /\ StaleInv'
  BY DEF Inv, ReqShape, StaleInv, TypeOK, StoreChallenge, Leave, Done, Request, user
<1>5. LockAtThreshold' /\ NoPermanentLockout' /\ CodesInv'
  BY DEF Inv, LockAtThreshold, NoPermanentLockout, CodesInv, StoreChallenge, user, history
<1>6. ChallengeInv'
  BY <1>1 DEF Inv, ChallengeInv, ReqShape, TypeOK, StoreChallenge, Leave, Done, Request, history
<1> QED
  BY <1>3, <1>4, <1>5, <1>6 DEF Inv

LEMMA SetupWriteStep ==
  ASSUME Inv, NEW r \in Requests, SetupWrite(r) PROVE Inv'
<1> DEFINE n == setups + 1
<1>1. n \in Secrets /\ ~totp_enabled /\ setups' = n /\ totp_secret' = n
  BY SetupsAssumption DEF Inv, TypeOK, SetupWrite, SetupAllowed, Secrets
<1>2. totp_recovery_codes' = {n} \X Codes /\ {n} \X Codes \subseteq RecoveryCodes
  BY <1>1 DEF SetupWrite, RecoveryCodes
<1>3. TypeOK'
  BY <1>1, <1>2, ReqTyped, SetupsAssumption DEF Inv, TypeOK, SetupWrite, Secrets
<1>4. ReqShape' /\ StaleInv'
  BY DEF Inv, ReqShape, StaleInv, TypeOK, SetupWrite, Leave, Done, Request, user
<1>5. LockAtThreshold' /\ NoPermanentLockout'
  BY <1>1, <1>2 DEF Inv, LockAtThreshold, NoPermanentLockout, SetupWrite, NoSecret, Secrets
<1>6. ChallengeInv'
  BY DEF Inv, ChallengeInv, TypeOK, SetupWrite, Leave, Done, Request
<1>7. CodesInv'
  <2>1. setups \in Nat
    BY SetupsAssumption DEF Inv, TypeOK
  <2>2. \A c \in RecoveryCodes : c \in {n} \X Codes => c[1] > setups
    BY <2>1
  <2>3. \A c \in RecoveryCodes : c[1] > n => c[1] > setups
    BY <2>1 DEF RecoveryCodes, Secrets
  <2> QED
    BY <1>1, <1>2, <2>1, <2>2, <2>3 DEF Inv, CodesInv, SetupWrite
<1> QED
  BY <1>3, <1>4, <1>5, <1>6, <1>7 DEF Inv

LEMMA ConfirmWriteStep ==
  ASSUME Inv, NEW r \in Requests, ConfirmWrite(r) PROVE Inv'
<1>1. TypeOK'
  BY ReqTyped DEF Inv, TypeOK, ConfirmWrite, history
<1>2. ReqShape' /\ StaleInv'
  BY DEF Inv, ReqShape, StaleInv, TypeOK, ConfirmWrite, Leave, Done, Request, user
<1>3. totp_secret # NoSecret
  BY DEF Inv, ReqShape, ConfirmWrite
<1>4. LockAtThreshold' /\ NoPermanentLockout' /\ CodesInv'
  BY <1>3 DEF Inv, LockAtThreshold, NoPermanentLockout, CodesInv, ConfirmWrite, history
<1>5. ChallengeInv'
  BY DEF Inv, ChallengeInv, TypeOK, ConfirmWrite, Leave, Done, Request, history
<1> QED
  BY <1>1, <1>2, <1>4, <1>5 DEF Inv

LEMMA DisableWriteStep ==
  ASSUME Inv, NEW r \in Requests, DisableWrite(r) PROVE Inv'
<1>1. TypeOK'
  <2>1. req' \in [Requests -> RequestType]
    BY ReqTyped DEF Inv, TypeOK, DisableWrite
  <2> QED
    BY <2>1, NoAttempts DEF Inv, TypeOK, DisableWrite, history
<1>2. ReqShape' /\ StaleInv'
  BY DEF Inv, ReqShape, StaleInv, TypeOK, DisableWrite, Leave, Done, Request, user
<1>3. LockAtThreshold' /\ NoPermanentLockout'
  BY ThresholdAssumption DEF LockAtThreshold, NoPermanentLockout, DisableWrite
<1>4. CodesInv'
  BY SetupsAssumption DEF Inv, TypeOK, CodesInv, DisableWrite, history, NoSecret
<1>5. ChallengeInv'
  BY DEF Inv, ChallengeInv, TypeOK, DisableWrite, Leave, Done, Request, history
<1> QED
  BY <1>1, <1>2, <1>3, <1>4, <1>5 DEF Inv

LEMMA VerifyRightStep ==
  ASSUME Inv, NEW r \in Requests, VerifyRight(r) PROVE Inv'
<1>1. TypeOK'
  BY ReqTyped DEF Inv, TypeOK, VerifyRight, user, history, Steps
<1>2. ReqShape' /\ StaleInv'
  BY DEF Inv, ReqShape, StaleInv, TypeOK, RequestType, VerifyRight, InTxn, Goto, user
<1>3. LockAtThreshold' /\ NoPermanentLockout' /\ CodesInv'
  BY DEF Inv, LockAtThreshold, NoPermanentLockout, CodesInv, VerifyRight, user, history
<1>4. ChallengeInv'
  BY DEF Inv, ChallengeInv, TypeOK, RequestType, VerifyRight, Goto, history
<1> QED
  BY <1>1, <1>2, <1>3, <1>4 DEF Inv

LEMMA VerifyTxnStep ==
  ASSUME Inv, NEW r \in Requests, VerifyTxn(r) PROVE Inv'
<1>1. TypeOK'
  BY ReqTyped DEF Inv, TypeOK, VerifyTxn, user, history, Steps
<1>2. ReqShape' /\ StaleInv'
  BY DEF Inv, ReqShape, StaleInv, TypeOK, RequestType, VerifyTxn, Goto, user
<1>3. LockAtThreshold' /\ NoPermanentLockout' /\ CodesInv'
  BY DEF Inv, LockAtThreshold, NoPermanentLockout, CodesInv, VerifyTxn, user, history
<1>4. ChallengeInv'
  BY DEF Inv, ChallengeInv, TypeOK, RequestType, VerifyTxn, Goto, history
<1> QED
  BY <1>1, <1>2, <1>3, <1>4 DEF Inv

(* The attempt that reaches the threshold locks.  The counter goes beyond  *)
(* it only where StaleInv left room: a transaction that began after the    *)
(* lock ran out starts again at one.                                       *)
LEMMA VerifyWrongStep ==
  ASSUME Inv, NEW r \in Requests, VerifyWrong(r) PROVE Inv'
<1> DEFINE n == NextAttempts(r)
<1>1. n \in 1..MaxAttempts
  BY ThresholdAssumption, AttemptsAssumption
     DEF Inv, TypeOK, LockAtThreshold, StaleInv, VerifyWrong, InTxn, CanGuess, NextAttempts, Elapsed
<1>2. /\ n >= LockThreshold => totp_locked_until' = "future"
      /\ n < LockThreshold => totp_locked_until' = "null"
  BY <1>1, ThresholdAssumption, AttemptsAssumption
     DEF Inv, TypeOK, LockAtThreshold, VerifyWrong, CanGuess, NextAttempts, Elapsed
<1>3. totp_failed_attempts' = n
  BY DEF VerifyWrong
<1>4. TypeOK'
  <2>1. req' \in [Requests -> RequestType]
    BY ReqTyped DEF Inv, TypeOK, VerifyWrong
  <2>2. n \in 0..MaxAttempts /\ totp_locked_until' \in {"null", "future", "past"}
    BY <1>1, <1>2, ThresholdAssumption, AttemptsAssumption
  <2> HIDE DEF n
  <2> QED
    BY <1>3, <2>1, <2>2 DEF Inv, TypeOK, VerifyWrong, history
<1>5. ReqShape'
  BY DEF Inv, ReqShape, TypeOK, VerifyWrong, Leave, Done, Request
<1>6. StaleInv' /\ LockAtThreshold'
  <2> HIDE DEF n
  <2> QED
    BY <1>1, <1>2, <1>3, ThresholdAssumption, AttemptsAssumption DEF StaleInv, LockAtThreshold
<1>7. NoPermanentLockout' /\ CodesInv'
  BY DEF Inv, NoPermanentLockout, CodesInv, VerifyWrong, history
<1>8. ChallengeInv'
  BY DEF Inv, ChallengeInv, TypeOK, VerifyWrong, Leave, Done, Request, history
<1> QED
  BY <1>4, <1>5, <1>6, <1>7, <1>8 DEF Inv

LEMMA ConsumeChallengeStep ==
  ASSUME Inv, NEW r \in Requests, ConsumeChallenge(r) PROVE Inv'
<1> DEFINE j == req[r].jti
<1>1. /\ j \in Challenges
      /\ challenge[j] = "live"
      /\ minted[j] = 0
      /\ \A q \in Requests : req[q].pc \in {"reset", "store_challenge"} => req[q].jti # j
  BY DEF Inv, ReqShape, ChallengeInv, ConsumeChallenge, Consumed
<1>2. TypeOK'
  BY ReqTyped DEF Inv, TypeOK, ConsumeChallenge, user, history, Steps
<1>3. ReqShape' /\ StaleInv'
  BY DEF Inv, ReqShape, StaleInv, TypeOK, RequestType, ConsumeChallenge, Goto, user
<1>4. LockAtThreshold' /\ NoPermanentLockout' /\ CodesInv'
  BY DEF Inv, LockAtThreshold, NoPermanentLockout, CodesInv, ConsumeChallenge, user, history
<1>5. ChallengeInv'
  BY <1>1 DEF Inv, ChallengeInv, ReqShape, TypeOK, RequestType, ConsumeChallenge, Goto, history
<1> QED
  BY <1>2, <1>3, <1>4, <1>5 DEF Inv

LEMMA ResetAttemptsStep ==
  ASSUME Inv, NEW r \in Requests, ResetAttempts(r) PROVE Inv'
<1> DEFINE j == req[r].jti
<1>1. /\ j \in Challenges
      /\ challenge[j] = "gone"
      /\ minted[j] = 0
      /\ \A q \in Requests \ {r} : req[q].pc = "reset" => req[q].jti # j
  BY DEF Inv, ReqShape, ChallengeInv, ResetAttempts
<1>2. minted' = [minted EXCEPT ![j] = 1]
  BY <1>1 DEF ResetAttempts, Mint, Inv, TypeOK
<1>3. TypeOK'
  <2>1. req' \in [Requests -> RequestType]
    BY ReqTyped DEF Inv, TypeOK, ResetAttempts
  <2> QED
    BY <1>2, <2>1, NoAttempts DEF Inv, TypeOK, ResetAttempts
<1>4. ReqShape' /\ StaleInv'
  BY DEF Inv, ReqShape, StaleInv, TypeOK, ResetAttempts, Leave, Done, Request, user
<1>5. LockAtThreshold' /\ NoPermanentLockout' /\ CodesInv'
  BY ThresholdAssumption DEF Inv, LockAtThreshold, NoPermanentLockout, CodesInv, ResetAttempts
<1>6. ChallengeInv'
  BY <1>1, <1>2 DEF Inv, ChallengeInv, ReqShape, TypeOK, ResetAttempts, Leave, Done, Request
<1> QED
  BY <1>3, <1>4, <1>5, <1>6 DEF Inv

LEMMA RedeemStep ==
  ASSUME Inv, NEW r \in Requests, Redeem(r) PROVE Inv'
<1> DEFINE c == req[r].code
<1>1. c \in RecoveryCodes /\ c \in totp_recovery_codes /\ redeemed[c] = 0
  BY DEF Inv, TypeOK, CodesInv, Redeem, Redeemable
<1>2. redeemed' = [redeemed EXCEPT ![c] = 1]
  BY <1>1 DEF Redeem, Inv, TypeOK
<1>3. TypeOK'
  <2>1. req' \in [Requests -> RequestType]
    BY ReqTyped DEF Inv, TypeOK, Redeem, Steps
  <2> QED
    <3>1. redeemed' \in [RecoveryCodes -> Nat]
      BY <1>2 DEF Inv, TypeOK
    <3>2. totp_recovery_codes' \subseteq RecoveryCodes
      BY DEF Inv, TypeOK, Redeem
    <3> HIDE DEF c
    <3> QED
      BY <2>1, <3>1, <3>2, NoAttempts DEF Inv, TypeOK, Redeem
<1>4. ReqShape' /\ StaleInv'
  BY DEF Inv, ReqShape, StaleInv, TypeOK, RequestType, Redeem, Goto, user
<1>5. LockAtThreshold' /\ NoPermanentLockout'
  BY ThresholdAssumption DEF Inv, LockAtThreshold, NoPermanentLockout, Redeem
<1>6. ChallengeInv'
  BY DEF Inv, ChallengeInv, TypeOK, RequestType, Redeem, Goto
<1>7. CodesInv'
  <2>1. c[1] <= setups
    <3>1. c \in {totp_secret} \X Codes
      BY <1>1 DEF Inv, NoPermanentLockout
    <3>2. c[1] = totp_secret
      BY <3>1
    <3> QED
      BY <3>2 DEF Inv, CodesInv
  <2>2. ~(c[1] > setups)
    BY <1>1, <2>1, SetupsAssumption DEF Inv, TypeOK, RecoveryCodes, Secrets
  <2> QED
    BY <1>1, <1>2, <2>2 DEF Inv, TypeOK, CodesInv, Redeem
<1> QED
  BY <1>3, <1>4, <1>5, <1>6, <1>7 DEF Inv

LEMMA ConsumeForRecoveryStep ==
  ASSUME Inv, NEW r \in Requests, ConsumeForRecovery(r) PROVE Inv'
<1> DEFINE j == req[r].jti
<1>1. /\ j \in Challenges
      /\ challenge[j] = "live"
      /\ minted[j] = 0
      /\ \A q \in Requests : req[q].pc \in {"reset", "store_challenge"} => req[q].jti # j
  BY DEF Inv, ReqShape, ChallengeInv, ConsumeForRecovery, Consumed
<1>2. minted' = [minted EXCEPT ![j] = 1]
  BY <1>1 DEF ConsumeForRecovery, Mint, Inv, TypeOK
<1>3. TypeOK'
  BY <1>2, ReqTyped DEF Inv, TypeOK, ConsumeForRecovery, user
<1>4. ReqShape' /\ StaleInv'
  BY DEF Inv, ReqShape, StaleInv, TypeOK, ConsumeForRecovery, Leave, Done, Request, user
<1>5. LockAtThreshold' /\ NoPermanentLockout' /\ CodesInv'
  BY DEF Inv, LockAtThreshold, NoPermanentLockout, CodesInv, ConsumeForRecovery, user
<1>6. ChallengeInv'
  BY <1>1, <1>2 DEF Inv, ChallengeInv, ReqShape, TypeOK, ConsumeForRecovery, Leave, Done, Request
<1> QED
  BY <1>3, <1>4, <1>5, <1>6 DEF Inv

LEMMA ExpiryStep ==
  ASSUME Inv, (\E j \in Challenges : ChallengeExpires(j)) \/ LockElapses
  PROVE  Inv'
<1>1. ASSUME NEW j \in Challenges, ChallengeExpires(j) PROVE Inv'
  <2>1. TypeOK'
    BY <1>1 DEF Inv, TypeOK, ChallengeExpires, user, history
  <2>2. ReqShape' /\ StaleInv' /\ LockAtThreshold' /\ NoPermanentLockout' /\ CodesInv'
    BY <1>1 DEF Inv, ReqShape, StaleInv, LockAtThreshold, NoPermanentLockout, CodesInv,
                ChallengeExpires, user, history
  <2>3. ChallengeInv'
    BY <1>1 DEF Inv, ChallengeInv, ReqShape, TypeOK, ChallengeExpires, history
  <2> QED
    BY <2>1, <2>2, <2>3 DEF Inv
<1>2. CASE LockElapses
  <2>1. req' \in [Requests -> RequestType]
    <3>1. \A r \in Requests : [req[r] EXCEPT !.pc = "verify_stale"] \in RequestType
      BY DEF Inv, TypeOK, RequestType, Steps
    <3> QED
      BY <1>2, <3>1 DEF LockElapses, Inv, TypeOK
  <2>2. TypeOK'
    BY <1>2, <2>1 DEF Inv, TypeOK, LockElapses, history
  <2>3. \A r \in Requests :
           /\ req'[r].jti = req[r].jti /\ req'[r].code = req[r].code
           /\ req'[r].secret = req[r].secret
           /\ IF InTxn(r) THEN req'[r].pc = "verify_stale" ELSE req'[r].pc = req[r].pc
    BY <1>2 DEF LockElapses, Inv, TypeOK, RequestType
  <2>4. ReqShape'
    BY <2>3 DEF Inv, ReqShape, InTxn
  <2>5. StaleInv'
    BY <1>2, <2>3 DEF Inv, StaleInv, InTxn, LockElapses
  <2>6. LockAtThreshold' /\ NoPermanentLockout' /\ CodesInv'
    BY <1>2 DEF Inv, LockAtThreshold, NoPermanentLockout, CodesInv, LockElapses, history
  <2>7. ChallengeInv'
    BY <1>2, <2>3 DEF Inv, ChallengeInv, InTxn, LockElapses, history
  <2> QED
    BY <2>2, <2>4, <2>5, <2>6, <2>7 DEF Inv
<1> QED
  BY <1>1, <1>2

-----------------------------------------------------------------------------
LEMMA ReadStep ==
  ASSUME Inv, NEW r \in Requests, NEW j \in Challenges,
         \/ LoginRead(r, j)
         \/ VerifyBegin(r, j)
         \/ \E c \in RecoveryCodes : RecoveryBegin(r, j, c)
  PROVE  Inv'
<1> USE DEF Steps
<1>1. CASE LoginRead(r, j)
  BY <1>1, BeginOnly DEF LoginRead
<1>2. CASE VerifyBegin(r, j)
  BY <1>2, BeginOnly DEF VerifyBegin
<1>3. ASSUME NEW c \in RecoveryCodes, RecoveryBegin(r, j, c) PROVE Inv'
  BY <1>3, BeginOnly DEF RecoveryBegin
<1> QED
  BY <1>1, <1>2, <1>3

LEMMA NextInv == Inv /\ [Next]_vars => Inv'
<1> SUFFICES ASSUME Inv, [Next]_vars PROVE Inv'
  OBVIOUS
<1>1. CASE UNCHANGED vars
  <2>1. TypeOK' /\ ReqShape' /\ StaleInv' /\ LockAtThreshold' /\ NoPermanentLockout'
    BY <1>1 DEF Inv, TypeOK, ReqShape, StaleInv, LockAtThreshold, NoPermanentLockout, vars, user, history
  <2>2. ChallengeInv' /\ CodesInv'
    BY <1>1 DEF Inv, ChallengeInv, CodesInv, vars, user, history
  <2> QED
    BY <2>1, <2>2 DEF Inv
<1>2. ASSUME NEW r \in Requests,
             SetupRead(r) \/ ConfirmRead(r) \/ DisableRead(r)
      PROVE  Inv'
  <2> USE DEF Steps
  <2>1. CASE SetupRead(r)
    BY <2>1, BeginOnly DEF SetupRead
  <2>2. CASE ConfirmRead(r)
    BY <2>2, BeginOnly DEF ConfirmRead, Inv, TypeOK
  <2>3. CASE DisableRead(r)
    BY <2>3, BeginOnly DEF DisableRead, Inv, TypeOK
  <2> QED
    BY <1>2, <2>1, <2>2, <2>3
<1>3. ASSUME NEW r \in Requests,
             \/ WriteConflict(r) \/ VerifyRefused(r) \/ RedeemRefused(r)
             \/ ChallengeLost(r) \/ Abort(r)
      PROVE  Inv'
  BY <1>3, LeaveOnly DEF WriteConflict, VerifyRefused, RedeemRefused, ChallengeLost, Abort
<1> QED
  BY <1>1, <1>2, <1>3, ReadStep, StoreChallengeStep, SetupWriteStep, ConfirmWriteStep,
     DisableWriteStep, VerifyTxnStep, VerifyRightStep, VerifyWrongStep, ConsumeChallengeStep,
     ResetAttemptsStep, RedeemStep, ConsumeForRecoveryStep, ExpiryStep
     DEF Next

(* The inductive invariant holds of every reachable state.                 *)
THEOREM Invariance == Spec => []Inv
<1>1. Init => Inv
  BY InitInv
<1>2. Inv /\ [Next]_vars => Inv'
  BY NextInv
<1> QED
  BY <1>1, <1>2, PTL DEF Spec

(* The columns, the challenges and the requests of api/routers/auth.py     *)
(* keep their types; in particular the failed-attempt counter stays within *)
(* the room the two clocks of twofa_verify leave it.                                                *)
THEOREM TwoFactorTypes == Spec => []TypeOK
BY Invariance, PTL DEF Inv

(* No race of twofa_setup, twofa_confirm and twofa_disable locks the user  *)
(* out.                                                                    *)
THEOREM NeverLockedOut == Spec => []NoPermanentLockout
BY Invariance, PTL DEF Inv

(* twofa_verify's gate and counter agree under any concurrency.            *)
THEOREM ThresholdIsExact == Spec => []LockAtThreshold
BY Invariance, PTL DEF Inv

(* The GETDEL of twofa_verify and twofa_recovery makes a challenge worth   *)
(* one token.                                                              *)
THEOREM ChallengeMintsOnce == Spec => []OneTokenPerChallenge
<1>1. Inv => OneTokenPerChallenge
  BY DEF Inv, ChallengeInv, OneTokenPerChallenge
<1> QED
  BY <1>1, Invariance, PTL

(* The guarded UPDATE of twofa_recovery redeems a code once.               *)
THEOREM RecoveryCodeIsOneTime == Spec => []CodeRedeemedOnce
<1>1. Inv => CodeRedeemedOnce
  BY DEF Inv, CodesInv, CodeRedeemedOnce
<1> QED
  BY <1>1, Invariance, PTL

(* Only a disable takes the secret of an enabled account away.             *)
THEOREM SetupNeverOrphans == Spec => LiveSecretIsKept
<1>1. [Next]_vars => [totp_enabled /\ totp_enabled' => totp_secret' = totp_secret]_vars
  BY DEF Next, vars, user, history, LoginRead, VerifyBegin, RecoveryBegin, StoreChallenge,
         SetupRead, SetupWrite, SetupAllowed, ConfirmRead, ConfirmWrite, DisableRead,
         DisableWrite, WriteConflict, VerifyTxn, VerifyRight, VerifyWrong, VerifyRefused,
         ConsumeChallenge, ResetAttempts, Redeem, RedeemRefused, ConsumeForRecovery,
         ChallengeLost, Abort, ChallengeExpires, LockElapses
<1> QED
  BY <1>1, PTL DEF Spec, LiveSecretIsKept

(* A wrong code in twofa_verify renews an elapsed lock only when the lock  *)
(* ran out after that request's transaction had begun.                     *)
THEOREM ElapsedLockIsSpent == Spec => FreshWindow
<1> DEFINE Fresh == (totp_locked_until = "past" /\ totp_locked_until' = "future") =>
                       \E r \in Requests : req[r].pc = "verify_stale" /\ req'[r].pc = "idle"
<1>1. ASSUME Inv, [Next]_vars PROVE [Fresh]_vars
  <2>1. ASSUME NEW r \in Requests, VerifyWrong(r), totp_locked_until = "past",
               totp_locked_until' = "future"
        PROVE  req[r].pc = "verify_stale" /\ req'[r].pc = "idle"
    <3>1. ~Elapsed(r)
      BY <2>1, ThresholdAssumption DEF VerifyWrong, NextAttempts
    <3> QED
      BY <1>1, <2>1, <3>1 DEF VerifyWrong, Elapsed, InTxn, Leave, Done, Request, Inv, TypeOK
  <2>2. CASE \E r \in Requests : VerifyWrong(r)
    BY <2>1, <2>2
  <2>3. CASE ~\E r \in Requests : VerifyWrong(r)
    BY <1>1, <2>3
    DEF Next, vars, user, history, LoginRead, VerifyBegin, RecoveryBegin, StoreChallenge,
        SetupRead, SetupWrite, ConfirmRead, ConfirmWrite, DisableRead, DisableWrite,
        WriteConflict, VerifyTxn, VerifyRight, VerifyRefused, ConsumeChallenge, ResetAttempts,
        Redeem, RedeemRefused, ConsumeForRecovery, ChallengeLost, Abort, ChallengeExpires,
        LockElapses
  <2> QED
    BY <2>2, <2>3
<1> QED
  BY <1>1, Invariance, PTL DEF Spec, FreshWindow
=============================================================================
