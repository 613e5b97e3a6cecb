----------------------------- MODULE LegacyKeys -----------------------------
(***************************************************************************)
(* The upgrade to namespaced Valkey keys (api/valkey_keys.py): revocations *)
(* of user tokens that the version before wrote without a prefix must hold *)
(* while upgraded replicas start, fall back to the old names for a window, *)
(* and in mode "migrate" copy them.  One token, revoked at most once; its  *)
(* revocation key lives as long as the token.                              *)
(***************************************************************************)
EXTENDS Integers, FiniteSets

CONSTANTS
    Upgraded,        \* upgraded replicas
    TokenLife,       \* _revocable_lifetime, in ticks
    ConfiguredWindow,\* VALKEY_LEGACY_WINDOW_SECONDS
    Margin,          \* WINDOW_MARGIN_SECONDS
    MaxKeyTime,      \* bound: ticks
    MaxKeyFaults     \* bound: failed Valkey calls

ASSUME KeyBounds ==
    /\ TokenLife \in Nat /\ ConfiguredWindow \in Nat /\ Margin \in Nat
    /\ MaxKeyTime \in Nat /\ MaxKeyFaults \in Nat

VARIABLES
    mode,       \* "read" or "migrate": the deployment's setting
    ticks,      \* time
    expires,    \* the token's expiry, 0 before it is issued
    keyRevoked,    \* history: the token was revoked
    legacy,     \* expiry of the unprefixed key, 0 when absent
    prefixed,   \* expiry of the prefixed key, 0 when absent
    cutover,    \* the marker, -1 before the first upgraded replica wrote it
    migrated,   \* the completion marker
    firstStart, \* history: when the first upgraded replica started, -1 before
    proc,       \* proc[p]: [pc, ttl, failed, known]: start-up, and _cutover
    check,      \* check[p]: a token check: [pc, due, overtaken]
    keyFaults

keyVars == <<mode, ticks, expires, keyRevoked, legacy, prefixed, cutover, migrated, firstStart, proc,
             check, keyFaults>>

-----------------------------------------------------------------------------
NoCheck == [pc |-> "none", due |-> FALSE, overtaken |-> FALSE]

KeyInit ==
    /\ mode \in {"read", "migrate"}
    /\ ticks = 0
    /\ expires = 0
    /\ keyRevoked = FALSE
    /\ legacy = 0 /\ prefixed = 0
    /\ cutover = -1 /\ migrated = FALSE /\ firstStart = -1
    /\ proc = [p \in Upgraded |-> [pc |-> "down", ttl |-> 0, failed |-> FALSE, known |-> -1]]
    /\ check = [p \in Upgraded |-> NoCheck]
    /\ keyFaults = 0

KeyFault == keyFaults < MaxKeyFaults /\ keyFaults' = keyFaults + 1

KeyTick ==
    /\ ticks < MaxKeyTime
    /\ ticks' = ticks + 1
    /\ legacy' = IF legacy = ticks + 1 THEN 0 ELSE legacy
    /\ prefixed' = IF prefixed = ticks + 1 THEN 0 ELSE prefixed
    /\ UNCHANGED <<mode, expires, keyRevoked, cutover, migrated, firstStart, proc, check, keyFaults>>

(* The version before, which the rolling deploy stops within the margin.   *)
OldRunning == firstStart = -1 \/ ticks <= firstStart + Margin

Issue ==
    /\ expires = 0
    /\ expires' = ticks + TokenLife
    /\ UNCHANGED <<mode, ticks, keyRevoked, legacy, prefixed, cutover, migrated, firstStart, proc, check,
                   keyFaults>>

OldRevokes ==
    /\ OldRunning
    /\ ~keyRevoked /\ ticks < expires
    /\ keyRevoked' = TRUE
    /\ legacy' = expires
    /\ UNCHANGED <<mode, ticks, expires, prefixed, cutover, migrated, firstStart, proc, check, keyFaults>>

NewRevokes(p) ==
    /\ proc[p].pc = "up"
    /\ ~keyRevoked /\ ticks < expires
    /\ keyRevoked' = TRUE
    /\ prefixed' = expires
    /\ UNCHANGED <<mode, ticks, expires, legacy, cutover, migrated, firstStart, proc, check, keyFaults>>

-----------------------------------------------------------------------------
(* Mutant: the configured window is taken as it is.                        *)
WindowAsConfigured == ConfiguredWindow

(* effective_window_seconds.                                               *)
EffectiveWindow ==
    IF ConfiguredWindow > TokenLife + Margin THEN ConfiguredWindow ELSE TokenLife + Margin

(* prepare_legacy_keys: the first replica fixes the cutover; a marker that *)
(* cannot be written never blocks the start.                               *)
Prepare(p) ==
    /\ proc[p].pc = "down"
    /\ firstStart' = IF firstStart = -1 THEN ticks ELSE firstStart
    /\ \/ cutover' = (IF cutover = -1 THEN ticks ELSE cutover) /\ UNCHANGED keyFaults
       \/ KeyFault /\ UNCHANGED cutover
    /\ proc' = [proc EXCEPT ![p].pc = IF mode = "migrate" THEN "markers" ELSE "up"]
    /\ UNCHANGED <<mode, ticks, expires, keyRevoked, legacy, prefixed, migrated, check>>

(* _migrate_once: not again once completed, not outside the window.        *)
MigrateOnce(p) ==
    /\ proc[p].pc = "markers"
    /\ \/ /\ proc' = [proc EXCEPT ![p].pc =
                        IF migrated \/ cutover = -1 \/ ticks > cutover + EffectiveWindow
                        THEN "up" ELSE "scan"]
          /\ UNCHANGED keyFaults
       \/ /\ KeyFault
          /\ proc' = [proc EXCEPT ![p].pc = "up"]
    /\ UNCHANGED <<mode, ticks, expires, keyRevoked, legacy, prefixed, cutover, migrated, firstStart, check>>

(* migrate_legacy_keys and _migrate_one: PTTL and GET, SET NX PX, DEL; one *)
(* that fails is counted and left.                                         *)
ReadLegacy(p) ==
    /\ proc[p].pc = "scan"
    /\ proc' = [proc EXCEPT ![p].pc = IF legacy = 0 THEN "record" ELSE "copy",
                            ![p].ttl = IF legacy = 0 THEN 0 ELSE legacy - ticks]
    /\ UNCHANGED <<mode, ticks, expires, keyRevoked, legacy, prefixed, cutover, migrated, firstStart, check,
                   keyFaults>>

CopyKey(p) ==
    /\ proc[p].pc = "copy"
    /\ \/ /\ prefixed' = IF prefixed = 0 THEN ticks + proc[p].ttl ELSE prefixed
          /\ proc' = [proc EXCEPT ![p].pc = "delete"]
          /\ UNCHANGED keyFaults
       \/ /\ KeyFault
          /\ proc' = [proc EXCEPT ![p].pc = "record", ![p].failed = TRUE]
          /\ UNCHANGED prefixed
    /\ UNCHANGED <<mode, ticks, expires, keyRevoked, legacy, cutover, migrated, firstStart, check>>

DeleteLegacy(p) ==
    /\ proc[p].pc = "delete"
    /\ legacy' = 0
    /\ proc' = [proc EXCEPT ![p].pc = "record"]
    /\ check' = [q \in Upgraded |-> IF check[q].pc = "fallback"
                                    THEN [check[q] EXCEPT !.overtaken = TRUE] ELSE check[q]]
    /\ UNCHANGED <<mode, ticks, expires, keyRevoked, prefixed, cutover, migrated, firstStart, keyFaults>>

RecordMigrated(p) ==
    /\ proc[p].pc = "record"
    /\ \/ migrated' = (migrated \/ ~proc[p].failed) /\ UNCHANGED keyFaults
       \/ KeyFault /\ UNCHANGED migrated
    /\ proc' = [proc EXCEPT ![p].pc = "up"]
    /\ UNCHANGED <<mode, ticks, expires, keyRevoked, legacy, prefixed, cutover, firstStart, check>>

-----------------------------------------------------------------------------
(* get_deny_with_legacy: the prefixed key first.                           *)
CheckPrefixed(p) ==
    /\ proc[p].pc = "up"
    /\ check[p].pc \in {"none", "denied", "accepted"}
    /\ ticks < expires
    /\ check' = [check EXCEPT ![p] = [pc |-> IF prefixed # 0 THEN "denied" ELSE "fallback",
                                      due |-> keyRevoked, overtaken |-> FALSE]]
    /\ UNCHANGED <<mode, ticks, expires, keyRevoked, legacy, prefixed, cutover, migrated, firstStart, proc,
                   keyFaults>>

(* _legacy_active: the cutover is remembered, as now when there is none.   *)
Known(p) ==
    IF proc[p].known # -1 THEN proc[p].known ELSE IF cutover # -1 THEN cutover ELSE ticks

(* The legacy read; a token past its expiry is refused before either.      *)
CheckLegacy(p) ==
    /\ check[p].pc = "fallback"
    /\ \/ proc' = [proc EXCEPT ![p].known = Known(p)] /\ UNCHANGED keyFaults
       \/ KeyFault /\ UNCHANGED proc
    /\ LET active == ticks <= Known(p) + EffectiveWindow \/ keyFaults' # keyFaults
       IN  check' = [check EXCEPT ![p].pc =
                       IF ticks >= expires THEN "none"
                       ELSE IF active /\ legacy # 0 THEN "denied" ELSE "accepted"]
    /\ UNCHANGED <<mode, ticks, expires, keyRevoked, legacy, prefixed, cutover, migrated, firstStart>>

KeyNext ==
    \/ KeyTick \/ Issue \/ OldRevokes
    \/ \E p \in Upgraded :
          \/ NewRevokes(p) \/ Prepare(p) \/ MigrateOnce(p) \/ ReadLegacy(p) \/ CopyKey(p)
          \/ DeleteLegacy(p) \/ RecordMigrated(p) \/ CheckPrefixed(p) \/ CheckLegacy(p)

-----------------------------------------------------------------------------
(* A token revoked before its check began is denied by every upgraded      *)
(* replica, in both modes and with any failed call, but for a check that   *)
(* read the new name before another replica copied the key and the old one *)
(* after it was deleted.                                                   *)
RevocationSurvivesUpgrade ==
    \A p \in Upgraded : check[p].pc = "accepted" /\ check[p].due => check[p].overtaken
=============================================================================
