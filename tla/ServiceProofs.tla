---------------------------- MODULE ServiceProofs ----------------------------
(***************************************************************************)
(* Proofs about the components of MCService, for every value of their      *)
(* constants.  A behaviour of MCService runs one component while the       *)
(* others stand still, so a behaviour of the composition is a behaviour of *)
(* every component.                                                        *)
(***************************************************************************)
EXTENDS MCService, SequenceTheorems, FiniteSetTheorems, TLAPS

-----------------------------------------------------------------------------
(* LegacyKeys: a revocation survives the upgrade of the key names.         *)

(* Types of the upgrade.                                                   *)
KeyTypeOK ==
    /\ ticks \in Nat /\ expires \in Nat /\ legacy \in Nat /\ prefixed \in Nat
    /\ cutover \in Int /\ firstStart \in Int /\ keyRevoked \in BOOLEAN /\ keyFaults \in Nat
    /\ proc \in [Upgraded -> [pc : {"down", "up", "markers", "scan", "copy", "delete", "record"},
                              ttl : Int, failed : BOOLEAN, known : Int]]
    /\ check \in [Upgraded -> [pc : {"none", "fallback", "denied", "accepted"}, due : BOOLEAN,
                               overtaken : BOOLEAN]]

(* The revocation keys: either lives until the token has expired at least, *)
(* and a copy in the making would too.                                     *)
KeyLives ==
    /\ legacy # 0 => legacy = expires /\ ticks < legacy
    /\ prefixed # 0 => expires # 0 /\ prefixed >= expires /\ ticks < prefixed
    /\ expires <= ticks + TokenLife
    /\ keyRevoked => expires # 0
    /\ keyRevoked /\ ticks < expires => legacy # 0 \/ prefixed # 0
    /\ \A p \in Upgraded :
          /\ proc[p].pc = "copy" =>
                expires # 0 /\ proc[p].ttl > 0 /\ ticks + proc[p].ttl >= expires
          /\ proc[p].pc = "delete" => expires # 0 /\ (prefixed # 0 \/ ticks >= expires)

(* What a replica takes for the cutover is no earlier than the first start *)
(* of an upgraded replica, after which old replicas revoke for a margin.   *)
CutoverInv ==
    /\ firstStart = -1 \/ (0 <= firstStart /\ firstStart <= ticks)
    /\ cutover # -1 => firstStart # -1 /\ firstStart <= cutover
    /\ \A p \in Upgraded :
          /\ proc[p].pc # "down" => firstStart # -1
          /\ proc[p].known # -1 => firstStart # -1 /\ firstStart <= proc[p].known
    /\ legacy # 0 /\ firstStart # -1 => legacy <= firstStart + Margin + TokenLife

(* A check that fell back to the old name still finds it there.            *)
FallbackInv ==
    \A p \in Upgraded : check[p].pc = "fallback" =>
        /\ expires # 0 /\ firstStart # -1
        /\ check[p].due /\ ~check[p].overtaken => legacy # 0 \/ ticks >= expires

KeyInv == KeyTypeOK /\ KeyLives /\ CutoverInv /\ FallbackInv /\ RevocationSurvivesUpgrade

LEMMA KeyInitInv == KeyInit => KeyInv
<1> SUFFICES ASSUME KeyInit
             PROVE  KeyInv
    OBVIOUS
<1> USE KeyBounds DEF KeyInit, NoCheck
<1>1. KeyTypeOK
  <2>1. [pc |-> "down", ttl |-> 0, failed |-> FALSE, known |-> -1] \in
          [pc : {"down", "up", "markers", "scan", "copy", "delete", "record"},
           ttl : Int, failed : BOOLEAN, known : Int]
      OBVIOUS
  <2>2. NoCheck \in [pc : {"none", "fallback", "denied", "accepted"}, due : BOOLEAN,
                     overtaken : BOOLEAN]
      OBVIOUS
  <2> HIDE DEF NoCheck
  <2> QED
      BY <2>1, <2>2 DEF KeyTypeOK
<1>2. KeyLives /\ CutoverInv
    BY DEF KeyLives, CutoverInv
<1>3. FallbackInv /\ RevocationSurvivesUpgrade
    BY DEF FallbackInv, RevocationSurvivesUpgrade
<1> QED
    BY <1>1, <1>2, <1>3 DEF KeyInv

(* The window reaches past the last moment at which a revocation under the *)
(* old name can matter.                                                    *)
LEMMA WindowReaches == EffectiveWindow \in Nat /\ EffectiveWindow >= TokenLife + Margin
    BY KeyBounds DEF EffectiveWindow

(* Steps that leave the replicas and their checks alone.                   *)
LEMMA KeyOutside ==
    ASSUME KeyInv, KeyTick \/ Issue \/ OldRevokes
    PROVE  KeyInv'
<1> USE KeyBounds
<1>0. KeyTypeOK /\ KeyLives /\ CutoverInv /\ FallbackInv /\ RevocationSurvivesUpgrade
    BY DEF KeyInv
<1>p. /\ proc' = proc /\ check' = check
      /\ \A p \in Upgraded : proc[p].ttl \in Int /\ proc[p].known \in Int
    BY <1>0 DEF KeyTick, Issue, OldRevokes, KeyTypeOK
<1>1. CASE KeyTick
  <2>1. KeyTypeOK'
      BY <1>0, <1>1 DEF KeyTypeOK, KeyTick
  <2>2. KeyLives'
      BY <1>0, <1>1, <1>p DEF KeyTypeOK, KeyLives, KeyTick
  <2>3. CutoverInv'
      BY <1>0, <1>1, <1>p DEF KeyTypeOK, CutoverInv, KeyTick
  <2>4. FallbackInv'
      BY <1>0, <1>1, <1>p DEF KeyTypeOK, FallbackInv, KeyLives, KeyTick
  <2> QED
      BY <1>0, <1>p, <2>1, <2>2, <2>3, <2>4 DEF KeyInv, RevocationSurvivesUpgrade
<1>2. CASE Issue
  <2>1. KeyTypeOK'
      BY <1>0, <1>2 DEF KeyTypeOK, Issue
  <2>2. KeyLives'
      BY <1>0, <1>2, <1>p DEF KeyTypeOK, KeyLives, Issue
  <2>3. CutoverInv'
      BY <1>0, <1>2, <1>p DEF CutoverInv, Issue
  <2>4. FallbackInv'
      BY <1>0, <1>2, <1>p DEF FallbackInv, Issue
  <2> QED
      BY <1>0, <1>p, <2>1, <2>2, <2>3, <2>4 DEF KeyInv, RevocationSurvivesUpgrade
<1>3. CASE OldRevokes
  <2>1. KeyTypeOK'
      BY <1>0, <1>3 DEF KeyTypeOK, OldRevokes
  <2>2. KeyLives'
      BY <1>0, <1>3, <1>p DEF KeyTypeOK, KeyLives, OldRevokes
  <2>3. CutoverInv'
      BY <1>0, <1>3, <1>p DEF KeyTypeOK, CutoverInv, KeyLives, OldRevokes, OldRunning
  <2>4. FallbackInv'
      BY <1>0, <1>3, <1>p DEF KeyTypeOK, FallbackInv, OldRevokes
  <2> QED
      BY <1>0, <1>p, <2>1, <2>2, <2>3, <2>4 DEF KeyInv, RevocationSurvivesUpgrade
<1> QED
    BY <1>1, <1>2, <1>3

ProcTypes == [pc : {"down", "up", "markers", "scan", "copy", "delete", "record"},
              ttl : Int, failed : BOOLEAN, known : Int]

(* The start-up steps of a replica.                                        *)
LEMMA KeyStartUp ==
    ASSUME KeyInv, NEW p \in Upgraded,
           \/ Prepare(p) \/ MigrateOnce(p) \/ ReadLegacy(p) \/ CopyKey(p) \/ DeleteLegacy(p)
           \/ RecordMigrated(p)
    PROVE  KeyInv'
<1> USE KeyBounds
<1>0. KeyTypeOK /\ KeyLives /\ CutoverInv /\ FallbackInv /\ RevocationSurvivesUpgrade
    BY DEF KeyInv
<1>t. /\ proc \in [Upgraded -> ProcTypes] /\ proc[p] \in ProcTypes
      /\ \A q \in Upgraded : proc[q].ttl \in Int /\ proc[q].known \in Int
      /\ ticks \in Nat /\ expires \in Nat /\ legacy \in Nat /\ prefixed \in Nat
      /\ cutover \in Int /\ firstStart \in Int /\ keyFaults \in Nat
    BY <1>0 DEF KeyTypeOK, ProcTypes
<1>1. CASE Prepare(p)
  <2>1. PICK pc \in {"markers", "up"} : proc' = [proc EXCEPT ![p].pc = pc]
      BY <1>1 DEF Prepare
  <2>2. /\ proc' \in [Upgraded -> ProcTypes]
        /\ \A q \in Upgraded : /\ proc'[q].pc = IF q = p THEN pc ELSE proc[q].pc
                               /\ proc'[q].ttl = proc[q].ttl /\ proc'[q].known = proc[q].known
      BY <1>t, <2>1 DEF ProcTypes
  <2>3. /\ ticks' = ticks /\ expires' = expires /\ legacy' = legacy /\ prefixed' = prefixed
        /\ check' = check /\ keyRevoked' = keyRevoked
        /\ firstStart' = (IF firstStart = -1 THEN ticks ELSE firstStart)
        /\ cutover' \in {cutover, IF cutover = -1 THEN ticks ELSE cutover}
        /\ keyFaults' \in {keyFaults, keyFaults + 1}
      BY <1>1 DEF Prepare, KeyFault
  <2>4. KeyTypeOK'
      BY <1>0, <1>t, <2>2, <2>3 DEF KeyTypeOK, ProcTypes
  <2>5. KeyLives'
      BY <1>0, <2>2, <2>3 DEF KeyLives
  <2>6. CutoverInv'
      BY <1>0, <1>t, <2>2, <2>3 DEF CutoverInv, KeyLives
  <2>7. FallbackInv' /\ RevocationSurvivesUpgrade'
      BY <1>0, <1>t, <2>3 DEF FallbackInv, RevocationSurvivesUpgrade
  <2> QED
      BY <2>4, <2>5, <2>6, <2>7 DEF KeyInv
<1>2. CASE MigrateOnce(p) \/ RecordMigrated(p)
  <2>1. PICK pc \in {"scan", "up"} : proc' = [proc EXCEPT ![p].pc = pc]
      BY <1>2 DEF MigrateOnce, RecordMigrated
  <2>2. /\ proc' \in [Upgraded -> ProcTypes]
        /\ \A q \in Upgraded : /\ proc'[q].pc = IF q = p THEN pc ELSE proc[q].pc
                               /\ proc'[q].ttl = proc[q].ttl /\ proc'[q].known = proc[q].known
      BY <1>t, <2>1 DEF ProcTypes
  <2>3. /\ ticks' = ticks /\ expires' = expires /\ legacy' = legacy /\ prefixed' = prefixed
        /\ check' = check /\ keyRevoked' = keyRevoked /\ firstStart' = firstStart
        /\ cutover' = cutover /\ keyFaults' \in {keyFaults, keyFaults + 1}
        /\ proc[p].pc # "down"
      BY <1>2 DEF MigrateOnce, RecordMigrated, KeyFault
  <2>4. KeyTypeOK'
      BY <1>0, <1>t, <2>2, <2>3 DEF KeyTypeOK, ProcTypes
  <2>5. KeyLives'
      BY <1>0, <2>2, <2>3 DEF KeyLives
  <2>6. CutoverInv'
      BY <1>0, <2>2, <2>3 DEF CutoverInv
  <2>7. FallbackInv' /\ RevocationSurvivesUpgrade'
      BY <1>0, <2>3 DEF FallbackInv, RevocationSurvivesUpgrade
  <2> QED
      BY <2>4, <2>5, <2>6, <2>7 DEF KeyInv
<1>3. CASE ReadLegacy(p)
  <2>0. PICK r : r = [proc[p] EXCEPT !.pc = IF legacy = 0 THEN "record" ELSE "copy",
                                     !.ttl = IF legacy = 0 THEN 0 ELSE legacy - ticks]
      OBVIOUS
  <2>1. /\ r \in ProcTypes /\ r.known = proc[p].known
        /\ r.pc = (IF legacy = 0 THEN "record" ELSE "copy")
        /\ r.ttl = (IF legacy = 0 THEN 0 ELSE legacy - ticks)
    <3>1. legacy \in Nat /\ ticks \in Nat /\ proc[p] \in ProcTypes
        BY <1>0, <1>t DEF KeyTypeOK
    <3>2. PICK n : n = IF legacy = 0 THEN 0 ELSE legacy - ticks
        OBVIOUS
    <3>3. PICK c : c = IF legacy = 0 THEN "record" ELSE "copy"
        OBVIOUS
    <3>4. n \in Int /\ c \in {"record", "copy"}
        BY <3>1, <3>2, <3>3
    <3>5. r = [proc[p] EXCEPT !.pc = c, !.ttl = n]
        BY <2>0, <3>2, <3>3
    <3>6. r \in ProcTypes /\ r.known = proc[p].known /\ r.pc = c /\ r.ttl = n
        BY <3>1, <3>4, <3>5 DEF ProcTypes
    <3> QED
        BY <3>2, <3>3, <3>6
  <2>2. proc' = [proc EXCEPT ![p] = r]
      BY <1>3, <1>t, <2>0 DEF ReadLegacy
  <2>3. proc' \in [Upgraded -> ProcTypes] /\ \A q \in Upgraded : proc'[q] = IF q = p THEN r ELSE proc[q]
      BY <1>t, <2>1, <2>2
  <2>4. /\ ticks' = ticks /\ expires' = expires /\ legacy' = legacy /\ prefixed' = prefixed
        /\ check' = check /\ keyRevoked' = keyRevoked /\ firstStart' = firstStart
        /\ cutover' = cutover /\ keyFaults' = keyFaults /\ proc[p].pc = "scan"
      BY <1>3 DEF ReadLegacy
  <2>5. KeyTypeOK'
      BY <1>0, <1>t, <2>3, <2>4 DEF KeyTypeOK, ProcTypes
  <2>6. KeyLives'
      BY <1>0, <1>t, <2>1, <2>3, <2>4 DEF KeyLives
  <2>7. CutoverInv'
      BY <1>0, <2>1, <2>3, <2>4 DEF CutoverInv
  <2>8. FallbackInv' /\ RevocationSurvivesUpgrade'
      BY <1>0, <2>4 DEF FallbackInv, RevocationSurvivesUpgrade
  <2> QED
      BY <2>5, <2>6, <2>7, <2>8 DEF KeyInv
<1>4. CASE CopyKey(p)
  <2>1. PICK r \in ProcTypes : /\ r.known = proc[p].known /\ r.ttl = proc[p].ttl
                               /\ \/ /\ r.pc = "delete"
                                     /\ prefixed' = IF prefixed = 0 THEN ticks + proc[p].ttl ELSE prefixed
                                  \/ r.pc = "record" /\ prefixed' = prefixed
                               /\ proc' = [proc EXCEPT ![p] = r]
    <3>1. CASE /\ prefixed' = (IF prefixed = 0 THEN ticks + proc[p].ttl ELSE prefixed)
               /\ proc' = [proc EXCEPT ![p].pc = "delete"]
      <4>1. PICK r : r = [proc[p] EXCEPT !.pc = "delete"]
          OBVIOUS
      <4>2. r \in ProcTypes /\ r.pc = "delete" /\ r.known = proc[p].known /\ r.ttl = proc[p].ttl
          BY <1>t, <4>1 DEF ProcTypes
      <4>3. proc' = [proc EXCEPT ![p] = r]
          BY <1>t, <3>1, <4>1
      <4> QED
          BY <3>1, <4>2, <4>3
    <3>2. CASE /\ proc' = [proc EXCEPT ![p].pc = "record", ![p].failed = TRUE]
               /\ prefixed' = prefixed
      <4>1. PICK r : r = [proc[p] EXCEPT !.pc = "record", !.failed = TRUE]
          OBVIOUS
      <4>2. r \in ProcTypes /\ r.pc = "record" /\ r.known = proc[p].known /\ r.ttl = proc[p].ttl
          BY <1>t, <4>1 DEF ProcTypes
      <4>3. proc' = [proc EXCEPT ![p] = r]
          BY <1>t, <3>2, <4>1
      <4> QED
          BY <3>2, <4>2, <4>3
    <3> QED
        BY <1>4, <3>1, <3>2 DEF CopyKey
  <2>2. proc' \in [Upgraded -> ProcTypes] /\ \A q \in Upgraded : proc'[q] = IF q = p THEN r ELSE proc[q]
      BY <1>t, <2>1
  <2>3. /\ ticks' = ticks /\ expires' = expires /\ legacy' = legacy
        /\ check' = check /\ keyRevoked' = keyRevoked /\ firstStart' = firstStart
        /\ cutover' = cutover /\ keyFaults' \in {keyFaults, keyFaults + 1} /\ proc[p].pc = "copy"
      BY <1>4 DEF CopyKey, KeyFault
  <2>4. expires # 0 /\ proc[p].ttl > 0 /\ ticks + proc[p].ttl >= expires
      BY <1>0, <2>3 DEF KeyLives
  <2>5. KeyTypeOK'
      BY <1>0, <1>t, <2>1, <2>2, <2>3, <2>4 DEF KeyTypeOK, ProcTypes
  <2>6. KeyLives'
      BY <1>0, <1>t, <2>1, <2>2, <2>3, <2>4 DEF KeyLives
  <2>7. CutoverInv'
      BY <1>0, <2>1, <2>2, <2>3 DEF CutoverInv
  <2>8. FallbackInv' /\ RevocationSurvivesUpgrade'
      BY <1>0, <2>3 DEF FallbackInv, RevocationSurvivesUpgrade
  <2> QED
      BY <2>5, <2>6, <2>7, <2>8 DEF KeyInv
<1>5. CASE DeleteLegacy(p)
  <2>1. proc' = [proc EXCEPT ![p].pc = "record"] /\ proc[p].pc = "delete" /\ legacy' = 0
      BY <1>5 DEF DeleteLegacy
  <2>2. /\ proc' \in [Upgraded -> ProcTypes]
        /\ \A q \in Upgraded : /\ proc'[q].pc = IF q = p THEN "record" ELSE proc[q].pc
                               /\ proc'[q].ttl = proc[q].ttl /\ proc'[q].known = proc[q].known
      BY <1>t, <2>1 DEF ProcTypes
  <2>3. /\ ticks' = ticks /\ expires' = expires /\ prefixed' = prefixed
        /\ keyRevoked' = keyRevoked /\ firstStart' = firstStart
        /\ cutover' = cutover /\ keyFaults' = keyFaults
      BY <1>5 DEF DeleteLegacy
  <2>4. \A q \in Upgraded :
           /\ check'[q].pc = check[q].pc /\ check'[q].due = check[q].due
           /\ check[q].pc = "fallback" => check'[q].overtaken
           /\ check[q].pc # "fallback" => check'[q] = check[q]
      BY <1>0, <1>5 DEF DeleteLegacy, KeyTypeOK
  <2>5. check' \in [Upgraded -> [pc : {"none", "fallback", "denied", "accepted"}, due : BOOLEAN,
                                 overtaken : BOOLEAN]]
      BY <1>0, <1>5 DEF DeleteLegacy, KeyTypeOK
  <2>6. KeyTypeOK'
      BY <1>0, <1>t, <2>1, <2>2, <2>3, <2>5 DEF KeyTypeOK, ProcTypes
  <2>7. KeyLives'
      BY <1>0, <1>t, <2>1, <2>2, <2>3 DEF KeyLives
  <2>8. CutoverInv'
      BY <1>0, <2>1, <2>2, <2>3 DEF CutoverInv
  <2>9. FallbackInv' /\ RevocationSurvivesUpgrade'
      BY <1>0, <2>3, <2>4 DEF FallbackInv, RevocationSurvivesUpgrade
  <2> QED
      BY <2>6, <2>7, <2>8, <2>9 DEF KeyInv
<1> QED
    BY <1>1, <1>2, <1>3, <1>4, <1>5

(* The requests an upgraded replica serves.                                *)
LEMMA KeyServes ==
    ASSUME KeyInv, NEW p \in Upgraded, NewRevokes(p) \/ CheckPrefixed(p) \/ CheckLegacy(p)
    PROVE  KeyInv'
<1> USE KeyBounds
<1>0. KeyTypeOK /\ KeyLives /\ CutoverInv /\ FallbackInv /\ RevocationSurvivesUpgrade
    BY DEF KeyInv
<1>t. /\ proc \in [Upgraded -> ProcTypes] /\ proc[p] \in ProcTypes
      /\ \A q \in Upgraded : proc[q].ttl \in Int /\ proc[q].known \in Int
      /\ ticks \in Nat /\ expires \in Nat /\ legacy \in Nat /\ prefixed \in Nat
      /\ cutover \in Int /\ firstStart \in Int /\ keyFaults \in Nat
    BY <1>0 DEF KeyTypeOK, ProcTypes
<1>1. CASE NewRevokes(p)
  <2>1. KeyTypeOK'
      BY <1>0, <1>1 DEF KeyTypeOK, NewRevokes
  <2>2. KeyLives'
      BY <1>0, <1>1, <1>t DEF KeyLives, NewRevokes
  <2>3. CutoverInv' /\ FallbackInv' /\ RevocationSurvivesUpgrade'
      BY <1>0, <1>1 DEF CutoverInv, FallbackInv, RevocationSurvivesUpgrade, NewRevokes
  <2> QED
      BY <2>1, <2>2, <2>3 DEF KeyInv
<1>2. CASE CheckPrefixed(p)
  <2>1. KeyTypeOK'
      BY <1>0, <1>2 DEF KeyTypeOK, CheckPrefixed
  <2>2. KeyLives' /\ CutoverInv'
      BY <1>0, <1>2 DEF KeyLives, CutoverInv, CheckPrefixed
  <2>3. \A q \in Upgraded : q # p => check'[q] = check[q]
      BY <1>0, <1>2 DEF KeyTypeOK, CheckPrefixed
  <2>4. /\ check'[p].pc = (IF prefixed # 0 THEN "denied" ELSE "fallback")
        /\ check'[p].due = keyRevoked
      BY <1>0, <1>2 DEF KeyTypeOK, CheckPrefixed
  <2>5. firstStart # -1 /\ ticks < expires /\ UNCHANGED <<ticks, expires, legacy, firstStart>>
      BY <1>0, <1>2 DEF CutoverInv, CheckPrefixed
  <2>6. FallbackInv'
      BY <1>0, <1>t, <2>3, <2>4, <2>5 DEF FallbackInv, KeyLives
  <2>7. RevocationSurvivesUpgrade'
      BY <1>0, <2>3, <2>4 DEF RevocationSurvivesUpgrade
  <2> QED
      BY <2>1, <2>2, <2>6, <2>7 DEF KeyInv
<1>3. CASE CheckLegacy(p)
  <2>0. check[p].pc = "fallback" /\ expires # 0 /\ firstStart # -1
      BY <1>0, <1>3 DEF CheckLegacy, FallbackInv
  <2>1. Known(p) \in Int /\ Known(p) >= firstStart
    <3>1. CASE proc[p].known # -1
        BY <1>0, <1>t, <3>1 DEF Known, CutoverInv
    <3>2. CASE proc[p].known = -1 /\ cutover # -1
        BY <1>0, <1>t, <3>2 DEF Known, CutoverInv
    <3>3. CASE proc[p].known = -1 /\ cutover = -1
        BY <1>0, <1>t, <2>0, <3>3 DEF Known, CutoverInv
    <3> QED
        BY <3>1, <3>2, <3>3
  <2>2. /\ proc' \in [Upgraded -> ProcTypes]
        /\ \A q \in Upgraded : /\ proc'[q].pc = proc[q].pc /\ proc'[q].ttl = proc[q].ttl
                               /\ proc'[q].known \in {proc[q].known, Known(p)}
    <3>1. CASE proc' = proc
        BY <1>t, <3>1
    <3>2. CASE proc' = [proc EXCEPT ![p].known = Known(p)]
        BY <1>t, <2>1, <3>2 DEF ProcTypes
    <3> QED
        BY <1>3, <3>1, <3>2 DEF CheckLegacy
  <2>3. /\ ticks' = ticks /\ expires' = expires /\ legacy' = legacy /\ prefixed' = prefixed
        /\ keyRevoked' = keyRevoked /\ firstStart' = firstStart /\ cutover' = cutover
        /\ keyFaults' \in {keyFaults, keyFaults + 1}
      BY <1>3 DEF CheckLegacy, KeyFault
  <2>4. legacy # 0 => ticks <= Known(p) + EffectiveWindow
      BY <1>0, <1>t, <2>0, <2>1, WindowReaches DEF KeyLives, CutoverInv
  <2>5. PICK pc : /\ check' = [check EXCEPT ![p].pc = pc]
                  /\ pc \in {"none", "denied", "accepted"}
                  /\ pc = "accepted" => ticks < expires /\ legacy = 0
    <3>1. PICK active : active = (ticks <= Known(p) + EffectiveWindow \/ keyFaults' # keyFaults)
        OBVIOUS
    <3>2. PICK pc : pc = (IF ticks >= expires THEN "none"
                          ELSE IF active /\ legacy # 0 THEN "denied" ELSE "accepted")
        OBVIOUS
    <3>3. check' = [check EXCEPT ![p].pc = pc]
        BY <1>3, <3>1, <3>2 DEF CheckLegacy
    <3>4. pc \in {"none", "denied", "accepted"} /\ (pc = "accepted" => ticks < expires /\ legacy = 0)
      <4>0. ticks \in Nat /\ expires \in Nat
          BY <1>0 DEF KeyTypeOK
      <4>1. CASE ticks >= expires
          BY <3>2, <4>1
      <4>2. CASE ~(ticks >= expires) /\ legacy = 0
          BY <3>2, <4>0, <4>2
      <4>3. CASE ~(ticks >= expires) /\ legacy # 0
        <5>1. active
            BY <2>4, <3>1, <4>3
        <5> QED
            BY <3>2, <4>3, <5>1
      <4> QED
          BY <4>1, <4>2, <4>3
    <3> QED
        BY <3>3, <3>4
  <2>6. /\ check' \in [Upgraded -> [pc : {"none", "fallback", "denied", "accepted"}, due : BOOLEAN,
                                   overtaken : BOOLEAN]]
        /\ \A q \in Upgraded : q # p => check'[q] = check[q]
        /\ check'[p].pc = pc /\ check'[p].due = check[p].due
        /\ check'[p].overtaken = check[p].overtaken
      BY <1>0, <2>5 DEF KeyTypeOK
  <2>7. KeyTypeOK'
      BY <1>0, <1>t, <2>2, <2>3, <2>6 DEF KeyTypeOK, ProcTypes
  <2>8. KeyLives'
      BY <1>0, <2>2, <2>3 DEF KeyLives
  <2>9. CutoverInv'
      BY <1>0, <2>0, <2>1, <2>2, <2>3 DEF CutoverInv
  <2>10. FallbackInv'
      BY <1>0, <2>3, <2>5, <2>6 DEF FallbackInv
  <2>11. RevocationSurvivesUpgrade'
      BY <1>0, <1>t, <2>0, <2>5, <2>6 DEF FallbackInv, RevocationSurvivesUpgrade
  <2> QED
      BY <2>7, <2>8, <2>9, <2>10, <2>11 DEF KeyInv
<1> QED
    BY <1>1, <1>2, <1>3

(* Token revocations written under the old key names hold on every         *)
(* upgraded replica, for any token lifetime, window, margin and number of  *)
(* replicas, and with any failed Valkey calls, unless a check was          *)
(* overtaken by another replica's migration between its two reads.         *)
THEOREM RevocationsSurvive == Spec => []RevocationSurvivesUpgrade
<1>1. Init => KeyInv
    BY KeyInitInv DEF Init
<1>2. KeyInv /\ [Next]_serviceVars => KeyInv'
  <2> SUFFICES ASSUME KeyInv, [Next]_serviceVars
               PROVE  KeyInv'
      OBVIOUS
  <2>1. CASE KeyNext
      BY <2>1, KeyOutside, KeyStartUp, KeyServes DEF KeyNext
  <2>2. CASE UNCHANGED keyVars
      BY <2>2 DEF keyVars, KeyInv, KeyTypeOK, KeyLives, CutoverInv, FallbackInv,
         RevocationSurvivesUpgrade
  <2> QED
      BY <2>1, <2>2 DEF Next, RestOf, serviceVars
<1>3. KeyInv => RevocationSurvivesUpgrade
    BY DEF KeyInv
<1> QED
    BY <1>1, <1>2, <1>3, PTL DEF Spec

-----------------------------------------------------------------------------
(* Activity: an erasure answered as complete is one, and rows carry only   *)
(* purposes granted during their request.                                  *)

RequestTypes ==
    [pc : {"idle", "subject", "purposes", "insert"}, subject : Nat, purposes : SUBSET Purposes,
     seen : SUBSET Purposes]

ErasureTypes ==
    [pc : {"none", "postgres", "neo4j", "sweep", "keys", "verify", "revoke", "complete", "incomplete"},
     at : Hosts \cup {CHOOSE h \in Hosts : TRUE}, subject : Nat, failed : BOOLEAN]

RowTypes ==
    [subject : Nat, purposes : SUBSET Purposes, seen : SUBSET Purposes, late : BOOLEAN]

(* Types of the activity of the account.                                   *)
ActivityTypeOK ==
    /\ link \in Nat /\ subjects \in Nat
    /\ subject \in [Hosts -> Nat]
    /\ grants \in SUBSET Purposes
    /\ rows \in SUBSET RowTypes
    /\ owned \in {"none", "some", "late"} /\ recs \in {"none", "some", "late"}
    /\ request \in [Hosts -> RequestTypes]
    /\ erasure \in ErasureTypes

(* Every pseudonym in use was drawn, so that the next one drawn is new.    *)
SubjectsDrawn ==
    /\ link <= subjects
    /\ \A h \in Hosts :
          /\ subject[h] <= subjects
          /\ request[h].pc \in {"purposes", "insert"} =>
                request[h].subject # 0 /\ request[h].subject <= subjects
    /\ \A e \in rows : e.subject # 0 /\ e.subject <= subjects

(* A request knows of every purpose granted since it began.                *)
RequestsSeeGrants ==
    \A h \in Hosts : /\ request[h].purposes \subseteq request[h].seen
                     /\ request[h].pc # "idle" => grants \subseteq request[h].seen

(* An erasure that will be answered as complete found no key of before.    *)
SurvivorsCounted == erasure.pc = "revoke" /\ ~erasure.failed => recs # "some"

ActivityInv ==
    /\ ActivityTypeOK /\ SubjectsDrawn /\ RequestsSeeGrants /\ SurvivorsCounted
    /\ CompleteErasureIsTrue /\ RowsFollowConsent

LEMMA NoRequestTypes ==
    /\ NoRequest \in RequestTypes /\ NoRequest.pc = "idle" /\ NoRequest.purposes = {}
    /\ \A g \in SUBSET Purposes :
          /\ NewRequest(g) \in RequestTypes /\ NewRequest(g).pc = "subject"
          /\ NewRequest(g).purposes = {} /\ NewRequest(g).seen = g
    BY DEF NoRequest, NewRequest, RequestTypes

LEMMA ActivityInitInv == ActivityInit => ActivityInv
<1> SUFFICES ASSUME ActivityInit
             PROVE  ActivityInv
    OBVIOUS
<1>1. erasure \in ErasureTypes /\ erasure.pc = "none"
    BY DEF ActivityInit, ErasureTypes
<1>2. request \in [Hosts -> RequestTypes] /\ \A h \in Hosts : request[h] = NoRequest
    BY NoRequestTypes DEF ActivityInit
<1>3. ActivityTypeOK
    BY <1>1, <1>2 DEF ActivityInit, ActivityTypeOK
<1>4. SubjectsDrawn
    BY <1>2, NoRequestTypes DEF ActivityInit, SubjectsDrawn
<1>5. RequestsSeeGrants /\ SurvivorsCounted
    BY <1>1, <1>2, NoRequestTypes DEF RequestsSeeGrants, SurvivorsCounted
<1>6. CompleteErasureIsTrue /\ RowsFollowConsent
    BY <1>1 DEF ActivityInit, CompleteErasureIsTrue, RowsFollowConsent, Erased
<1> QED
    BY <1>3, <1>4, <1>5, <1>6 DEF ActivityInv

(* Steps of a request before its INSERT, other than finding the subject.   *)
LEMMA ActivityRequests ==
    ASSUME ActivityInv, NEW h \in Hosts,
           \/ Record(h) \/ ReadPurposes(h) \/ InsertDropped(h)
           \/ \E p \in Purposes : SetConsent(h, p)
    PROVE  ActivityInv'
<1>0. ActivityTypeOK /\ SubjectsDrawn /\ RequestsSeeGrants /\ SurvivorsCounted
      /\ CompleteErasureIsTrue /\ RowsFollowConsent
    BY DEF ActivityInv
<1>1. /\ link' = link /\ subjects' = subjects /\ subject' = subject /\ rows' = rows
      /\ owned' = owned /\ recs' = recs /\ erasure' = erasure
    BY DEF Record, ReadPurposes, InsertDropped, SetConsent
<1>2. SurvivorsCounted' /\ CompleteErasureIsTrue' /\ RowsFollowConsent'
    BY <1>0, <1>1 DEF SurvivorsCounted, CompleteErasureIsTrue, RowsFollowConsent, Erased
<1>3. SUFFICES /\ grants' \in SUBSET Purposes /\ request' \in [Hosts -> RequestTypes]
               /\ RequestsSeeGrants'
               /\ \A i \in Hosts : request'[i].pc \in {"purposes", "insert"} =>
                      /\ request[i].pc \in {"purposes", "insert"}
                      /\ request'[i].subject = request[i].subject
  <2>1. ActivityTypeOK'
      BY <1>0, <1>1, <1>3 DEF ActivityTypeOK
  <2>2. SubjectsDrawn'
      BY <1>0, <1>1, <1>3 DEF SubjectsDrawn
  <2> QED
      BY <1>2, <1>3, <2>1, <2>2 DEF ActivityInv
<1>4. CASE Record(h)
  <2>1. /\ grants' = grants /\ request' = [request EXCEPT ![h] = NewRequest(grants)]
      BY <1>4 DEF Record
  <2> QED
      BY <1>0, <2>1, NoRequestTypes DEF ActivityTypeOK, RequestsSeeGrants
<1>5. CASE InsertDropped(h)
  <2>1. /\ grants' = grants /\ request' = [request EXCEPT ![h] = NoRequest]
      BY <1>5 DEF InsertDropped
  <2> QED
      BY <1>0, <2>1, NoRequestTypes DEF ActivityTypeOK, RequestsSeeGrants
<1>6. CASE ReadPurposes(h)
  <2>1. grants' = grants /\ request[h].pc = "purposes"
      BY <1>6 DEF ReadPurposes
  <2>2. PICK g : /\ g \in SUBSET Purposes /\ g \subseteq request[h].seen
                 /\ request' = [request EXCEPT ![h] = [request[h] EXCEPT !.pc = "insert", !.purposes = g]]
    <3>1. CASE request' = [request EXCEPT ![h].pc = "insert", ![h].purposes = grants]
        BY <1>0, <2>1, <3>1 DEF ActivityTypeOK, RequestsSeeGrants
    <3>2. CASE request' = [request EXCEPT ![h].pc = "insert"]
      <4>1. [request[h] EXCEPT !.pc = "insert", !.purposes = request[h].purposes]
              = [request[h] EXCEPT !.pc = "insert"]
          BY <1>0 DEF ActivityTypeOK, RequestTypes
      <4>2. request[h].purposes \in SUBSET Purposes
          BY <1>0 DEF ActivityTypeOK, RequestTypes
      <4> QED
          BY <1>0, <3>2, <4>1, <4>2 DEF RequestsSeeGrants
    <3> QED
        BY <1>6, <3>1, <3>2 DEF ReadPurposes, ActivePurposes
  <2>3. PICK r : r = [request[h] EXCEPT !.pc = "insert", !.purposes = g]
      OBVIOUS
  <2>4. /\ r \in RequestTypes /\ r.pc = "insert" /\ r.purposes = g
        /\ r.seen = request[h].seen /\ r.subject = request[h].subject
      BY <1>0, <2>2, <2>3 DEF ActivityTypeOK, RequestTypes
  <2>5. request' = [request EXCEPT ![h] = r]
      BY <2>2, <2>3
  <2> QED
      BY <1>0, <2>1, <2>2, <2>4, <2>5 DEF ActivityTypeOK, RequestsSeeGrants
<1>7. CASE \E p \in Purposes : SetConsent(h, p)
  <2>1. PICK p \in Purposes : SetConsent(h, p)
      BY <1>7
  <2>2. grants' \in SUBSET Purposes
      BY <1>0, <2>1 DEF SetConsent, ActivityTypeOK
  <2>3. ASSUME NEW i \in Hosts
        PROVE  /\ request'[i] \in RequestTypes
               /\ request'[i].purposes \subseteq request'[i].seen
               /\ request'[i].pc # "idle" => grants' \subseteq request'[i].seen
               /\ request'[i].pc \in {"purposes", "insert"} =>
                      /\ request[i].pc \in {"purposes", "insert"}
                      /\ request'[i].subject = request[i].subject
    <3>0. request'[i] = IF i = h THEN NewRequest(grants')
                      ELSE IF request[i].pc = "idle" THEN NoRequest
                      ELSE [request[i] EXCEPT !.seen = @ \cup grants']
        BY <2>1 DEF SetConsent
    <3>1. CASE i = h
      <4>1. request'[i] = NewRequest(grants')
          BY <3>0, <3>1
      <4> QED
          BY <2>2, <4>1, NoRequestTypes
    <3>2. CASE i # h /\ request[i].pc = "idle"
        BY <3>0, <3>2, NoRequestTypes
    <3>3. CASE i # h /\ request[i].pc # "idle"
      <4>1. request'[i] = [request[i] EXCEPT !.seen = @ \cup grants']
          BY <3>0, <3>3
      <4>2. request[i] \in RequestTypes
          BY <1>0 DEF ActivityTypeOK
      <4> QED
          BY <1>0, <2>2, <4>1, <4>2 DEF RequestTypes, RequestsSeeGrants
    <3> QED
        BY <3>1, <3>2, <3>3
  <2>4. request' \in [Hosts -> RequestTypes]
      BY <2>1, <2>3 DEF SetConsent
  <2> QED
      BY <2>2, <2>3, <2>4 DEF RequestsSeeGrants
<1> QED
    BY <1>4, <1>5, <1>6, <1>7

(* The INSERT of a row.                                                    *)
LEMMA ActivityInserts ==
    ASSUME ActivityInv, NEW h \in Hosts, Insert(h)
    PROVE  ActivityInv'
<1>0. ActivityTypeOK /\ SubjectsDrawn /\ RequestsSeeGrants /\ SurvivorsCounted
      /\ CompleteErasureIsTrue /\ RowsFollowConsent
    BY DEF ActivityInv
<1>1. PICK e : e = [subject |-> request[h].subject, purposes |-> request[h].purposes,
                    seen |-> request[h].seen, late |-> Erased]
    OBVIOUS
<1>2. Erased \in BOOLEAN /\ request[h] \in RequestTypes
    BY <1>0 DEF Erased, ActivityTypeOK
<1>3. /\ e \in RowTypes /\ e.subject = request[h].subject /\ e.purposes \subseteq e.seen
      /\ e.late = Erased
    BY <1>0, <1>1, <1>2 DEF RowTypes, RequestTypes, RequestsSeeGrants
<1>4. /\ rows' = rows \cup {e} /\ request' = [request EXCEPT ![h] = NoRequest]
      /\ link' = link /\ subjects' = subjects /\ subject' = subject /\ grants' = grants
      /\ owned' = owned /\ recs' = recs /\ erasure' = erasure /\ request[h].pc = "insert"
    BY <1>1 DEF Insert
<1>5. ActivityTypeOK'
    BY <1>0, <1>3, <1>4, NoRequestTypes DEF ActivityTypeOK
<1>6. SubjectsDrawn'
    BY <1>0, <1>3, <1>4, NoRequestTypes DEF SubjectsDrawn, ActivityTypeOK
<1>7. RequestsSeeGrants' /\ SurvivorsCounted'
    BY <1>0, <1>4, NoRequestTypes DEF RequestsSeeGrants, SurvivorsCounted, ActivityTypeOK
<1>8. CompleteErasureIsTrue' /\ RowsFollowConsent'
    BY <1>0, <1>3, <1>4 DEF CompleteErasureIsTrue, RowsFollowConsent, Erased
<1> QED
    BY <1>5, <1>6, <1>7, <1>8 DEF ActivityInv

(* subject_for returns a subject that was drawn, and the account's row     *)
(* names a subject of earlier rows only if it named it before.             *)
LEMMA ResolvesToDrawn ==
    ASSUME ActivityTypeOK, SubjectsDrawn, NEW h \in Hosts, Resolve(h)
    PROVE  /\ link' \in Nat /\ subjects' \in Nat /\ subject' \in [Hosts -> Nat]
           /\ subjects <= subjects' /\ link' <= subjects'
           /\ \A i \in Hosts : subject'[i] <= subjects'
           /\ SubjectFor(h) \in Nat /\ SubjectFor(h) # 0 /\ SubjectFor(h) <= subjects'
           /\ link' = link \/ link' > subjects
<1>1. SubjectFor(h) \in Nat /\ SubjectFor(h) # 0 /\ SubjectFor(h) <= subjects + 1
    BY DEF SubjectFor, ActivityTypeOK, SubjectsDrawn
<1>2. subject[h] = 0 => SubjectFor(h) = link \/ SubjectFor(h) = subjects + 1
    BY DEF SubjectFor
<1>3. PICK n : n = SubjectFor(h)
    OBVIOUS
<1>4. /\ link' = IF subject[h] = 0 THEN n ELSE link
      /\ subjects' = IF n > subjects THEN n ELSE subjects
      /\ subject' = [subject EXCEPT ![h] = n]
    BY <1>3 DEF Resolve
<1>5. subjects \in Nat /\ link \in Nat /\ subject \in [Hosts -> Nat]
      /\ link <= subjects /\ \A i \in Hosts : subject[i] <= subjects
    BY DEF ActivityTypeOK, SubjectsDrawn
<1> QED
    BY <1>1, <1>2, <1>3, <1>4, <1>5

(* A request or an erasure finds the account's subject.                    *)
LEMMA ActivityResolves ==
    ASSUME ActivityInv, NEW h \in Hosts, ResolveSubject(h) \/ RequestErasure(h)
    PROVE  ActivityInv'
<1>0. ActivityTypeOK /\ SubjectsDrawn /\ RequestsSeeGrants /\ SurvivorsCounted
      /\ CompleteErasureIsTrue /\ RowsFollowConsent
    BY DEF ActivityInv
<1>1. /\ rows' = rows /\ owned' = owned /\ recs' = recs /\ grants' = grants
    BY DEF ResolveSubject, RequestErasure
<1>2. /\ link' \in Nat /\ subjects' \in Nat /\ subject' \in [Hosts -> Nat]
      /\ subjects <= subjects' /\ link' <= subjects'
      /\ \A i \in Hosts : subject'[i] <= subjects'
      /\ link' = link \/ link' > subjects
  <2>1. CASE Resolve(h)
      BY <1>0, <2>1, ResolvesToDrawn
  <2>2. CASE UNCHANGED <<link, subjects, subject>>
      BY <1>0, <2>2 DEF ActivityTypeOK, SubjectsDrawn
  <2> QED
      BY <2>1, <2>2 DEF ResolveSubject, RequestErasure
<1>3. /\ request' \in [Hosts -> RequestTypes]
      /\ RequestsSeeGrants'
      /\ \A i \in Hosts : request'[i].pc \in {"purposes", "insert"} =>
             request'[i].subject # 0 /\ request'[i].subject <= subjects'
  <2>1. CASE request' = request
      BY <1>0, <1>1, <1>2, <2>1 DEF ActivityTypeOK, RequestsSeeGrants, SubjectsDrawn, RequestTypes
  <2>2. CASE request' = [request EXCEPT ![h] = NoRequest]
      BY <1>0, <1>1, <1>2, <2>2, NoRequestTypes
      DEF ActivityTypeOK, RequestsSeeGrants, SubjectsDrawn, RequestTypes
  <2>3. CASE /\ Resolve(h) /\ request[h].pc = "subject"
             /\ request' = [request EXCEPT ![h].pc = "purposes", ![h].subject = SubjectFor(h)]
    <3>1. PICK n : n = SubjectFor(h)
        OBVIOUS
    <3>2. n \in Nat /\ n # 0 /\ n <= subjects'
        BY <1>0, <2>3, <3>1, ResolvesToDrawn
    <3>3. PICK r : r = [request[h] EXCEPT !.pc = "purposes", !.subject = n]
        OBVIOUS
    <3>4. /\ r \in RequestTypes /\ r.pc = "purposes" /\ r.subject = n
          /\ r.purposes = request[h].purposes /\ r.seen = request[h].seen
        BY <1>0, <3>2, <3>3 DEF ActivityTypeOK, RequestTypes
    <3>5. request' = [request EXCEPT ![h] = r]
        BY <2>3, <3>1, <3>3
    <3>6. request' \in [Hosts -> RequestTypes] /\ RequestsSeeGrants'
        BY <1>0, <1>1, <2>3, <3>4, <3>5 DEF ActivityTypeOK, RequestsSeeGrants
    <3>7. \A i \in Hosts : request'[i].pc \in {"purposes", "insert"} =>
             request'[i].subject # 0 /\ request'[i].subject <= subjects'
        BY <1>0, <1>2, <3>2, <3>4, <3>5 DEF ActivityTypeOK, SubjectsDrawn, RequestTypes
    <3> QED
        BY <3>6, <3>7
  <2> QED
      BY <2>1, <2>2, <2>3 DEF ResolveSubject, RequestErasure
<1>4. erasure' # erasure => erasure'.pc = "postgres" /\ erasure.pc = "none"
  <2>1. CASE UNCHANGED erasure
      BY <2>1
  <2>2. CASE /\ Resolve(h) /\ erasure.pc = "none"
             /\ erasure' = [erasure EXCEPT !.pc = "postgres", !.at = h, !.subject = SubjectFor(h)]
      BY <1>0, <2>2 DEF ActivityTypeOK, ErasureTypes
  <2> QED
      BY <2>1, <2>2 DEF ResolveSubject, RequestErasure
<1>5. erasure' \in ErasureTypes
  <2>1. CASE UNCHANGED erasure
      BY <1>0, <2>1 DEF ActivityTypeOK
  <2>2. CASE Resolve(h) /\ erasure' = [erasure EXCEPT !.pc = "postgres", !.at = h, !.subject = SubjectFor(h)]
    <3>1. PICK n : n = SubjectFor(h)
        OBVIOUS
    <3>2. n \in Nat
        BY <1>0, <2>2, <3>1, ResolvesToDrawn
    <3> QED
        BY <1>0, <2>2, <3>1, <3>2 DEF ActivityTypeOK, ErasureTypes
  <2> QED
      BY <2>1, <2>2 DEF ResolveSubject, RequestErasure
<1>6. ActivityTypeOK'
    BY <1>0, <1>1, <1>2, <1>3, <1>5 DEF ActivityTypeOK
<1>7. SubjectsDrawn'
    BY <1>0, <1>1, <1>2, <1>3 DEF SubjectsDrawn, ActivityTypeOK, RowTypes
<1>8. SurvivorsCounted' /\ RowsFollowConsent'
    BY <1>0, <1>1, <1>4, <1>5 DEF SurvivorsCounted, RowsFollowConsent
<1>9. CompleteErasureIsTrue'
  <2>1. CASE erasure' = erasure
    <3>1. \A e \in rows : e.subject = link' => e.subject = link
        BY <1>0, <1>2 DEF SubjectsDrawn, ActivityTypeOK, RowTypes
    <3> QED
        BY <1>0, <1>1, <2>1, <3>1 DEF CompleteErasureIsTrue, Erased
  <2>2. CASE erasure' # erasure
      BY <1>4, <1>5, <2>2 DEF CompleteErasureIsTrue, Erased
  <2> QED
      BY <2>1, <2>2
<1> QED
    BY <1>3, <1>6, <1>7, <1>8, <1>9 DEF ActivityInv

(* The account's own rows and keys, outside an erasure.                    *)
LEMMA ActivityWrites ==
    ASSUME ActivityInv, CreateObservation \/ SyncWrites \/ FillRecs
    PROVE  ActivityInv'
<1>0. ActivityTypeOK /\ SubjectsDrawn /\ RequestsSeeGrants /\ SurvivorsCounted
      /\ CompleteErasureIsTrue /\ RowsFollowConsent
    BY DEF ActivityInv
<1>1. /\ link' = link /\ subjects' = subjects /\ subject' = subject /\ rows' = rows
      /\ grants' = grants /\ request' = request /\ erasure' = erasure
      /\ owned' \in {owned, IF Erased THEN "late" ELSE "some"}
      /\ recs' \in {recs, IF erasure.pc \in {"keys", "verify", "revoke", "complete", "incomplete"}
                          THEN "late" ELSE "some"}
    BY DEF CreateObservation, SyncWrites, FillRecs
<1>2. ActivityTypeOK' /\ SubjectsDrawn' /\ RequestsSeeGrants' /\ RowsFollowConsent'
    BY <1>0, <1>1 DEF ActivityTypeOK, SubjectsDrawn, RequestsSeeGrants, RowsFollowConsent
<1>3. SurvivorsCounted' /\ CompleteErasureIsTrue'
    BY <1>0, <1>1 DEF SurvivorsCounted, CompleteErasureIsTrue, Erased
<1> QED
    BY <1>2, <1>3 DEF ActivityInv

(* The erasure after its subject is known.                                 *)
LEMMA ActivityErases ==
    ASSUME ActivityInv,
           \/ ErasePostgres \/ ErasePostgresFails \/ EraseNeo4j \/ InvalidateUser
           \/ DeleteUserKeys \/ CountSurvivors \/ AnswerErasure
    PROVE  ActivityInv'
<1>0. ActivityTypeOK /\ SubjectsDrawn /\ RequestsSeeGrants /\ SurvivorsCounted
      /\ CompleteErasureIsTrue /\ RowsFollowConsent
    BY DEF ActivityInv
<1>1. subjects' = subjects /\ request' = request
    BY DEF ErasePostgres, ErasePostgresFails, EraseNeo4j, InvalidateUser, DeleteUserKeys,
       CountSurvivors, AnswerErasure
<1>2. CASE ErasePostgres
  <2>1. /\ rows' \subseteq rows /\ link' = 0 /\ owned' = "none" /\ grants' = grants /\ recs' = recs
        /\ erasure' = [erasure EXCEPT !.pc = "neo4j"]
        /\ subject' = [subject EXCEPT ![erasure.at] = 0]
      BY <1>2 DEF ErasePostgres
  <2>2. erasure' \in ErasureTypes /\ erasure'.pc = "neo4j"
      BY <1>0, <2>1 DEF ActivityTypeOK, ErasureTypes
  <2>3. subject' \in [Hosts -> Nat] /\ \A h \in Hosts : subject'[h] <= subjects
    <3>1. /\ subject \in [Hosts -> Nat] /\ subjects \in Nat
          /\ \A h \in Hosts : subject[h] <= subjects
        BY <1>0 DEF ActivityTypeOK, SubjectsDrawn
    <3>2. PICK a : a = erasure.at
        OBVIOUS
    <3>3. subject' = [subject EXCEPT ![a] = 0]
        BY <2>1, <3>2
    <3>4. \A h \in Hosts : subject'[h] = IF h = a THEN 0 ELSE subject[h]
        BY <3>1, <3>3
    <3>5. subject' = [h \in Hosts |-> IF h = a THEN 0 ELSE subject[h]]
        BY <3>1, <3>3
    <3>6. \A h \in Hosts : subject'[h] \in Nat
        BY <3>1, <3>4
    <3>7. subject' \in [Hosts -> Nat]
        BY <3>5, <3>6
    <3> QED
        BY <3>1, <3>4, <3>7
  <2>4. ActivityTypeOK'
      BY <1>0, <1>1, <2>1, <2>2, <2>3 DEF ActivityTypeOK
  <2>5. SubjectsDrawn' /\ RequestsSeeGrants' /\ RowsFollowConsent'
      BY <1>0, <1>1, <2>1, <2>3
      DEF ActivityTypeOK, SubjectsDrawn, RequestsSeeGrants, RowsFollowConsent
  <2>6. SurvivorsCounted' /\ CompleteErasureIsTrue'
      BY <1>0, <2>1, <2>2 DEF SurvivorsCounted, CompleteErasureIsTrue, SubjectsDrawn
  <2> QED
      BY <2>4, <2>5, <2>6 DEF ActivityInv
<1>3. CASE \/ ErasePostgresFails \/ EraseNeo4j \/ InvalidateUser
           \/ DeleteUserKeys \/ CountSurvivors \/ AnswerErasure
  <2>1. /\ link' = link /\ subject' = subject /\ rows' = rows /\ grants' = grants /\ owned' = owned
        /\ recs' \in {recs, "none"}
      BY <1>3 DEF ErasePostgresFails, EraseNeo4j, InvalidateUser, DeleteUserKeys, CountSurvivors,
         AnswerErasure
  <2>2. /\ erasure' \in ErasureTypes
        /\ erasure'.pc = "revoke" /\ ~erasure'.failed => recs' = "none"
        /\ erasure'.pc = "complete" => erasure.pc = "revoke" /\ ~erasure.failed /\ recs' = recs
        /\ erasure'.pc \notin {"none", "postgres"} => Erased
    <3>0. erasure \in ErasureTypes
        BY <1>0 DEF ActivityTypeOK
    <3>1. CASE ErasePostgresFails
        BY <3>0, <3>1 DEF ErasePostgresFails, ErasureTypes
    <3>2. CASE EraseNeo4j
        BY <3>0, <3>2 DEF EraseNeo4j, ErasureTypes, Erased
    <3>3. CASE InvalidateUser
        BY <3>0, <3>3 DEF InvalidateUser, ErasureTypes, Erased
    <3>4. CASE DeleteUserKeys
        BY <3>0, <3>4 DEF DeleteUserKeys, ErasureTypes, Erased
    <3>5. CASE CountSurvivors
        BY <3>0, <3>5 DEF CountSurvivors, ErasureTypes, Erased, AnswerWhenDown
    <3>6. CASE AnswerErasure
        BY <3>0, <3>6 DEF AnswerErasure, ErasureTypes, Erased
    <3> QED
        BY <1>3, <3>1, <3>2, <3>3, <3>4, <3>5, <3>6
  <2>3. ActivityTypeOK' /\ SubjectsDrawn' /\ RequestsSeeGrants' /\ RowsFollowConsent'
      BY <1>0, <1>1, <2>1, <2>2
      DEF ActivityTypeOK, SubjectsDrawn, RequestsSeeGrants, RowsFollowConsent
  <2>4. SurvivorsCounted' /\ CompleteErasureIsTrue'
      BY <1>0, <2>1, <2>2 DEF SurvivorsCounted, CompleteErasureIsTrue, Erased
  <2> QED
      BY <2>3, <2>4 DEF ActivityInv
<1> QED
    BY <1>2, <1>3

(* A complete erasure leaves no earlier row that can be tied to the        *)
(* account, none of its own rows and no earlier recommendation key, and a  *)
(* row carries only purposes granted since its request began: for any      *)
(* number of replicas and requests, and any failures of the stores         *)
(* (request_erasure, record_event).                                        *)
THEOREM ErasureIsComplete == Spec => []ConsentAndErasure
<1>1. Init => ActivityInv
    BY ActivityInitInv DEF Init
<1>2. ActivityInv /\ [Next]_serviceVars => ActivityInv'
  <2> SUFFICES ASSUME ActivityInv, [Next]_serviceVars
               PROVE  ActivityInv'
      OBVIOUS
  <2>1. CASE ActivityNext
    <3>1. CASE CreateObservation \/ SyncWrites \/ FillRecs
        BY <3>1, ActivityWrites
    <3>2. CASE \/ ErasePostgres \/ ErasePostgresFails \/ EraseNeo4j \/ InvalidateUser
               \/ DeleteUserKeys \/ CountSurvivors \/ AnswerErasure
        BY <3>2, ActivityErases
    <3>3. ASSUME NEW h \in Hosts,
                 \/ Record(h) \/ ResolveSubject(h) \/ ReadPurposes(h) \/ Insert(h)
                 \/ InsertDropped(h) \/ RequestErasure(h)
                 \/ \E p \in Purposes : SetConsent(h, p)
          PROVE  ActivityInv'
        BY <3>3, ActivityRequests, ActivityInserts, ActivityResolves
    <3> QED
        BY <2>1, <3>1, <3>2, <3>3 DEF ActivityNext
  <2>2. CASE UNCHANGED activityVars
    <3>1. /\ link' = link /\ subjects' = subjects /\ subject' = subject /\ rows' = rows
          /\ grants' = grants /\ request' = request /\ erasure' = erasure
          /\ owned' = owned /\ recs' = recs
        BY <2>2 DEF activityVars
    <3> QED
        BY <3>1 DEF ActivityInv, ActivityTypeOK, SubjectsDrawn, RequestsSeeGrants,
           SurvivorsCounted, CompleteErasureIsTrue, RowsFollowConsent, Erased
  <2> QED
      BY <2>1, <2>2 DEF Next, RestOf, serviceVars
<1>3. ActivityInv => ConsentAndErasure
    BY DEF ActivityInv, ConsentAndErasure
<1> QED
    BY <1>1, <1>2, <1>3, PTL DEF Spec

-----------------------------------------------------------------------------
(* Sessions: what was derived from an old password ends, a logout is       *)
(* final, and a reset token changes the password once.                     *)

TokenTypes ==
    [kind : {"none", "access", "challenge"}, iat : Times, exp : Int, epoch : 0..MaxChanges]

ReqTypes ==
    [pc : Steps, iat : Times, epoch : 0..MaxChanges, reset : Resets \cup {NoReset},
     stamp : Times, apps : SUBSET AppTokens]

(* Nothing was derived from the future.                                    *)
DerivedInThePast ==
    /\ \A j \in Jtis : token[j].iat <= now
    /\ \A r \in Requests : req[r].iat <= now

(* The row lock lets one change of the password run at a time.             *)
OneTransaction ==
    /\ \A r \in Requests : InTransaction(r) => epoch < MaxChanges
    /\ \A q, r \in Requests : InTransaction(q) /\ InTransaction(r) => q = r

(* A revocation key lives as long as its token at least.                   *)
KeysOutliveTokens ==
    \A j \in Jtis : revoked[j] # Never => token[j].kind # "none" /\ revoked[j] >= token[j].exp

(* A reset token is gone before the change it makes commits.               *)
ResetsAreConsumed ==
    /\ \A k \in Resets : spent[k] <= 1 /\ (spent[k] = 1 => reset[k] = "gone")
    /\ \A r \in Requests :
          /\ req[r].pc = "consume" => req[r].reset # NoReset
          /\ req[r].pc = "commit" /\ req[r].reset # NoReset =>
                reset[req[r].reset] = "gone" /\ spent[req[r].reset] = 0

(* What was derived from an earlier password, tokens and what requests in  *)
(* flight hold, carries an iat of at most b.                               *)
StaleUpTo(b) ==
    /\ \A j \in Jtis : token[j].kind # "none" /\ token[j].epoch < epoch => token[j].iat <= b
    /\ \A r \in Requests :
          req[r].pc \in {"login_mint", "verify_mint"} /\ req[r].epoch < epoch => req[r].iat <= b

(* The marker covers it, or a re-stamp under way will, or one was lost.    *)
Covered ==
    \/ outdated \/ StaleUpTo(marker.at)
    \/ \E r \in Requests : \/ req[r].pc = "restamp"
                           \/ req[r].pc = "remark" /\ StaleUpTo(req[r].stamp)

MarksCover == Covered /\ \A r \in Requests : req[r].pc = "mark" => StaleUpTo(req[r].stamp)

SessionInv ==
    /\ SessionTypeOK /\ DerivedInThePast /\ OneTransaction /\ KeysOutliveTokens
    /\ ResetsAreConsumed /\ MarksCover

LEMMA RequestIsTyped ==
    ASSUME NEW pc \in Steps, NEW iat \in Times, NEW ep \in 0..MaxChanges,
           NEW k \in Resets \cup {NoReset}
    PROVE  /\ Request(pc, iat, ep, k) \in ReqTypes
           /\ Request(pc, iat, ep, k).pc = pc /\ Request(pc, iat, ep, k).iat = iat
           /\ Request(pc, iat, ep, k).epoch = ep /\ Request(pc, iat, ep, k).reset = k
<1>1. Never \in Times
    BY BoundsAssumption DEF Never, Times
<1> QED
    BY <1>1 DEF Request, ReqTypes

LEMMA DoneIsIdle == Done \in ReqTypes /\ Done.pc = "idle" /\ Done.iat = Never
<1>1. "idle" \in Steps /\ Never \in Times /\ 0 \in 0..MaxChanges
    BY BoundsAssumption DEF Steps, Never, Times
<1> QED
    BY <1>1, RequestIsTyped DEF Done

LEMMA SessionInitInv == SessionInit => SessionInv
<1> SUFFICES ASSUME SessionInit
             PROVE  SessionInv
    OBVIOUS
<1>1. NoToken \in TokenTypes /\ NoToken.kind = "none" /\ NoToken.iat = Never
    BY BoundsAssumption DEF NoToken, TokenTypes, Never, Times
<1>2. /\ token \in [Jtis -> TokenTypes] /\ req \in [Requests -> ReqTypes]
      /\ \A j \in Jtis : token[j] = NoToken
      /\ \A r \in Requests : req[r] = Done
    BY <1>1, DoneIsIdle DEF SessionInit
<1>3. marker \in [at : Times, until : Int] /\ revoked \in [Jtis -> Int] /\ spent \in [Resets -> Nat]
      /\ now \in 0..MaxTime /\ epoch \in 0..MaxChanges /\ epoch = 0 /\ now = 0
    BY BoundsAssumption DEF SessionInit, Never, Times
<1>4. SessionTypeOK
    BY <1>2, <1>3 DEF SessionInit, SessionTypeOK, TokenTypes, ReqTypes
<1>5. DerivedInThePast
    BY <1>1, <1>2, <1>3, DoneIsIdle DEF DerivedInThePast, Never
<1>6. OneTransaction
    BY <1>2, DoneIsIdle DEF OneTransaction, InTransaction
<1>7. KeysOutliveTokens /\ ResetsAreConsumed
    BY <1>2, DoneIsIdle DEF SessionInit, KeysOutliveTokens, ResetsAreConsumed
<1>8. MarksCover
    BY <1>1, <1>2, DoneIsIdle DEF MarksCover, Covered, StaleUpTo
<1> QED
    BY <1>4, <1>5, <1>6, <1>7, <1>8 DEF SessionInv

(* What is covered stays covered by a step that adds nothing stale: it     *)
(* leaves the marker alone, takes no first stamp, and finishes no re-stamp.*)
LEMMA CoverKept ==
    ASSUME MarksCover, \A b : StaleUpTo(b) => StaleUpTo(b)',
           outdated' = outdated, marker' = marker,
           \A s \in Requests :
              /\ req[s].pc = "restamp" => req'[s].pc = "restamp"
                    \/ (req'[s].pc = "remark" /\ StaleUpTo(req'[s].stamp))
              /\ req[s].pc = "remark" => req'[s].pc = "remark" /\ req'[s].stamp = req[s].stamp
              /\ req'[s].pc = "mark" => StaleUpTo(req'[s].stamp)
    PROVE  MarksCover'
<1>1. ASSUME NEW s \in Requests, StaleUpTo(req'[s].stamp)
      PROVE  StaleUpTo(req[s].stamp)'
  <2>1. PICK b : b = req'[s].stamp
      OBVIOUS
  <2>2. StaleUpTo(b)'
      BY <1>1, <2>1
  <2> QED
      BY <2>1, <2>2 DEF StaleUpTo
<1>2. \A s \in Requests : req'[s].pc = "mark" => StaleUpTo(req[s].stamp)'
    BY <1>1
<1>3. Covered'
  <2>1. CASE outdated
      BY <2>1 DEF Covered
  <2>2. CASE StaleUpTo(marker.at)
    <3>1. StaleUpTo(marker.at)'
      <4>1. PICK b : b = marker.at
          OBVIOUS
      <4>2. StaleUpTo(b)'
          BY <2>2, <4>1
      <4> QED
          BY <4>1, <4>2 DEF StaleUpTo
    <3> QED
        BY <3>1 DEF Covered
  <2>3. ASSUME NEW s \in Requests, req[s].pc = "restamp"
        PROVE  Covered'
      BY <1>1, <2>3 DEF Covered
  <2>4. ASSUME NEW s \in Requests, req[s].pc = "remark", StaleUpTo(req[s].stamp)
        PROVE  Covered'
    <3>1. req'[s].pc = "remark" /\ req'[s].stamp = req[s].stamp
        BY <2>4
    <3>2. StaleUpTo(req[s].stamp)'
        BY <1>1, <2>4, <3>1
    <3> QED
        BY <3>1, <3>2 DEF Covered
  <2> QED
      BY <2>1, <2>2, <2>3, <2>4 DEF MarksCover, Covered
<1> QED
    BY <1>2, <1>3 DEF MarksCover

(* A request that moves on without touching the stores, outside of a       *)
(* change's transaction: what it holds comes from the row or from a token. *)
LEMMA SessionMoves ==
    ASSUME SessionInv, NEW r \in Requests, NEW q \in ReqTypes,
           req' = [req EXCEPT ![r] = q],
           q.iat <= now, q.pc \notin {"mark", "consume", "commit"},
           q.pc \in {"login_mint", "verify_mint"} =>
              \/ q.epoch = epoch
              \/ \E j \in Jtis : token[j].kind # "none" /\ token[j].iat = q.iat
                                 /\ token[j].epoch = q.epoch,
           req[r].pc # "remark", req[r].pc = "restamp" => q.pc = "remark" /\ q.stamp = now,
           UNCHANGED <<now, user, epoch, token, revoked, marker, reset, outdated, spent>>,
           app' \in [AppTokens -> {"unused", "active", "revoked"}]
    PROVE  SessionInv'
<1>0. /\ SessionTypeOK /\ DerivedInThePast /\ OneTransaction /\ KeysOutliveTokens
      /\ ResetsAreConsumed /\ MarksCover
    BY DEF SessionInv
<1>1. /\ now' = now /\ user' = user /\ epoch' = epoch /\ token' = token /\ revoked' = revoked
      /\ marker' = marker /\ reset' = reset /\ outdated' = outdated /\ spent' = spent
    OBVIOUS
<1>2. /\ req \in [Requests -> ReqTypes] /\ token \in [Jtis -> TokenTypes] /\ epoch \in 0..MaxChanges
      /\ now \in 0..MaxTime
    BY <1>0 DEF SessionTypeOK, ReqTypes, TokenTypes
<1>3. req' \in [Requests -> ReqTypes] /\ \A s \in Requests : req'[s] = IF s = r THEN q ELSE req[s]
    BY <1>2
<1>4. SessionTypeOK'
    BY <1>0, <1>1, <1>3 DEF SessionTypeOK, ReqTypes
<1>5. DerivedInThePast'
    BY <1>0, <1>1, <1>3 DEF DerivedInThePast
<1>6. OneTransaction'
    BY <1>0, <1>1, <1>3 DEF OneTransaction, InTransaction
<1>7. KeysOutliveTokens' /\ ResetsAreConsumed'
    BY <1>0, <1>1, <1>3 DEF KeysOutliveTokens, ResetsAreConsumed
<1>8. ASSUME NEW b, StaleUpTo(b)
      PROVE  StaleUpTo(b)'
  <2>1. q.pc \in {"login_mint", "verify_mint"} /\ q.epoch < epoch => q.iat <= b
      BY <1>2, <1>8 DEF StaleUpTo, ReqTypes
  <2> QED
      BY <1>1, <1>3, <1>8, <2>1 DEF StaleUpTo
<1>9. StaleUpTo(now)
    BY <1>0 DEF DerivedInThePast, StaleUpTo
<1>10. MarksCover'
  <2>1. \A b : StaleUpTo(b) => StaleUpTo(b)'
      BY <1>8
  <2>2. \A s \in Requests :
              /\ req[s].pc = "restamp" => req'[s].pc = "restamp"
                    \/ (req'[s].pc = "remark" /\ StaleUpTo(req'[s].stamp))
              /\ req[s].pc = "remark" => req'[s].pc = "remark" /\ req'[s].stamp = req[s].stamp
              /\ req'[s].pc = "mark" => StaleUpTo(req'[s].stamp)
      BY <1>0, <1>3, <1>9 DEF MarksCover
  <2> QED
      BY <1>0, <1>1, <2>1, <2>2, CoverKept
<1> QED
    BY <1>4, <1>5, <1>6, <1>7, <1>10 DEF SessionInv

(* Requests that only move on.                                             *)
LEMMA SessionRequests ==
    ASSUME SessionInv, NEW r \in Requests,
           \/ LoginStart(r) \/ LoginRead(r) \/ LoginRefused(r)
           \/ \E j \in Jtis : VerifyChallenge(r, j) \/ ChangePassword(r, j) \/ MintStart(r, j)
           \/ \E k \in Resets : ResetConfirm(r, k)
           \/ MarkerRejected(r) \/ CommitFails(r) \/ TakeStamp(r)
           \/ \E a \in AppTokens : MintToken(r, a)
    PROVE  SessionInv'
<1>0. SessionTypeOK /\ DerivedInThePast
    BY DEF SessionInv
<1>t. /\ req \in [Requests -> ReqTypes] /\ req[r] \in ReqTypes
      /\ token \in [Jtis -> TokenTypes] /\ now \in 0..MaxTime /\ epoch \in 0..MaxChanges
      /\ app \in [AppTokens -> {"unused", "active", "revoked"}] /\ req[r].iat <= now
    BY <1>0 DEF SessionTypeOK, DerivedInThePast, ReqTypes, TokenTypes
<1>n. /\ now \in Times /\ Never \in Times /\ Never <= now /\ now <= now /\ 0 \in 0..MaxChanges
    BY <1>t, BoundsAssumption DEF Times, Never
<1>s. \A s \in {"idle", "login_read", "login_mint", "verify_mint", "update", "mint_app", "remark"} :
         s \in Steps
    BY DEF Steps
<1>u. UNCHANGED <<now, user, epoch, token, revoked, marker, reset, outdated, spent>>
    BY DEF LoginStart, LoginRead, LoginRefused, VerifyChallenge, ChangePassword, MintStart, ResetConfirm,
       MarkerRejected, CommitFails, TakeStamp, MintToken, account, keys, history
<1>1. app' \in [AppTokens -> {"unused", "active", "revoked"}]
  <2>1. CASE \E a \in AppTokens : MintToken(r, a)
      BY <1>t, <2>1 DEF MintToken
  <2>2. CASE app' = app
      BY <1>t, <2>2
  <2> QED
      BY <2>1, <2>2 DEF LoginStart, LoginRead, LoginRefused, VerifyChallenge, ChangePassword,
         MintStart, ResetConfirm, MarkerRejected, CommitFails, TakeStamp
<1>2. SUFFICES \E q \in ReqTypes :
           /\ req' = [req EXCEPT ![r] = q]
           /\ q.iat <= now /\ q.pc \notin {"mark", "consume", "commit"}
           /\ q.pc \in {"login_mint", "verify_mint"} =>
                 \/ q.epoch = epoch
                 \/ \E j \in Jtis : token[j].kind # "none" /\ token[j].iat = q.iat
                                    /\ token[j].epoch = q.epoch
           /\ req[r].pc # "remark"
           /\ req[r].pc = "restamp" => q.pc = "remark" /\ q.stamp = now
    BY <1>1, <1>2, <1>u, SessionMoves
<1>3. CASE LoginStart(r)
  <2>1. PICK q : q = Request("login_read", now, 0, NoReset)
      OBVIOUS
  <2>2. q \in ReqTypes /\ q.pc = "login_read" /\ q.iat = now
      BY <1>n, <1>s, <2>1, RequestIsTyped
  <2>3. req' = [req EXCEPT ![r] = q] /\ req[r].pc = "idle"
      BY <1>3, <2>1 DEF LoginStart, Begin
  <2> QED
      BY <1>n, <2>2, <2>3
<1>4. CASE Leave(r) /\ req[r].pc \notin {"restamp", "remark"}
      BY <1>4, <1>n, DoneIsIdle DEF Leave
<1>5. CASE LoginRead(r)
  <2>1. CASE user = "absent"
      BY <1>4, <1>5, <2>1 DEF LoginRead
  <2>2. CASE user # "absent"
    <3>1. PICK q : q = [req[r] EXCEPT !.pc = "login_mint", !.epoch = epoch]
        OBVIOUS
    <3>2. q \in ReqTypes /\ q.pc = "login_mint" /\ q.iat = req[r].iat /\ q.epoch = epoch
        BY <1>s, <1>t, <3>1 DEF ReqTypes
    <3>3. req' = [req EXCEPT ![r] = q] /\ req[r].pc = "login_read"
        BY <1>5, <2>2, <3>1 DEF LoginRead
    <3> QED
        BY <1>t, <3>2, <3>3
  <2> QED
      BY <2>1, <2>2
<1>6. ASSUME NEW j \in Jtis, VerifyChallenge(r, j)
      PROVE  \E q \in ReqTypes :
           /\ req' = [req EXCEPT ![r] = q]
           /\ q.iat <= now /\ q.pc \notin {"mark", "consume", "commit"}
           /\ q.pc \in {"login_mint", "verify_mint"} =>
                 \/ q.epoch = epoch
                 \/ \E i \in Jtis : token[i].kind # "none" /\ token[i].iat = q.iat
                                    /\ token[i].epoch = q.epoch
           /\ req[r].pc # "remark"
           /\ req[r].pc = "restamp" => q.pc = "remark" /\ q.stamp = now
  <2>1. PICK q : q = Request("verify_mint", token[j].iat, token[j].epoch, NoReset)
      OBVIOUS
  <2>2. token[j].iat \in Times /\ token[j].epoch \in 0..MaxChanges /\ token[j].iat <= now
      BY <1>0, <1>t DEF TokenTypes, DerivedInThePast
  <2>3. q \in ReqTypes /\ q.pc = "verify_mint" /\ q.iat = token[j].iat /\ q.epoch = token[j].epoch
      BY <1>s, <2>1, <2>2, RequestIsTyped
  <2>4. req' = [req EXCEPT ![r] = q] /\ req[r].pc = "idle" /\ token[j].kind = "challenge"
      BY <1>6, <2>1 DEF VerifyChallenge, Begin, ValidateToken
  <2> QED
      BY <2>2, <2>3, <2>4
<1>7. CASE \E j \in Jtis : ChangePassword(r, j) \/ MintStart(r, j)
  <2>1. PICK pc : pc \in {"update", "mint_app"} /\ Begin(r, Request(pc, Never, 0, NoReset))
      BY <1>7 DEF ChangePassword, MintStart
  <2>2. PICK q : q = Request(pc, Never, 0, NoReset)
      OBVIOUS
  <2>3. q \in ReqTypes /\ q.pc = pc /\ q.iat = Never
      BY <1>n, <1>s, <2>1, <2>2, RequestIsTyped
  <2>4. req' = [req EXCEPT ![r] = q] /\ req[r].pc = "idle"
      BY <2>1, <2>2 DEF Begin
  <2> QED
      BY <1>n, <2>1, <2>3, <2>4
<1>8. CASE \E k \in Resets : ResetConfirm(r, k)
  <2>1. PICK k \in Resets : ResetConfirm(r, k)
      BY <1>8
  <2>2. PICK q : q = Request("update", Never, 0, k)
      OBVIOUS
  <2>3. q \in ReqTypes /\ q.pc = "update" /\ q.iat = Never
      BY <1>n, <1>s, <2>2, RequestIsTyped
  <2>4. req' = [req EXCEPT ![r] = q] /\ req[r].pc = "idle"
      BY <2>1, <2>2 DEF Begin, ResetConfirm
  <2> QED
      BY <1>n, <2>3, <2>4
<1>9. CASE TakeStamp(r)
  <2>1. PICK q : q = [req[r] EXCEPT !.pc = "remark", !.stamp = now]
      OBVIOUS
  <2>2. q \in ReqTypes /\ q.pc = "remark" /\ q.iat = req[r].iat /\ q.stamp = now
      BY <1>n, <1>s, <1>t, <2>1 DEF ReqTypes
  <2>3. req' = [req EXCEPT ![r] = q] /\ req[r].pc = "restamp"
      BY <1>9, <2>1 DEF TakeStamp
  <2> QED
      BY <1>t, <2>2, <2>3
<1>10. CASE \/ LoginRefused(r) \/ MarkerRejected(r) \/ CommitFails(r)
            \/ \E a \in AppTokens : MintToken(r, a)
      BY <1>4, <1>10 DEF LoginRefused, MarkerRejected, CommitFails, MintToken
<1> QED
    BY <1>3, <1>5, <1>6, <1>7, <1>8, <1>9, <1>10

(* A token takes over what its request holds.                              *)
LEMMA SessionMints ==
    ASSUME SessionInv, NEW r \in Requests, LoginMint(r) \/ VerifyMint(r)
    PROVE  SessionInv'
<1>0. /\ SessionTypeOK /\ DerivedInThePast /\ OneTransaction /\ KeysOutliveTokens
      /\ ResetsAreConsumed /\ MarksCover
    BY DEF SessionInv
<1>t. /\ req \in [Requests -> ReqTypes] /\ req[r] \in ReqTypes
      /\ token \in [Jtis -> TokenTypes] /\ now \in 0..MaxTime /\ epoch \in 0..MaxChanges
      /\ req[r].iat <= now
    BY <1>0 DEF SessionTypeOK, DerivedInThePast, ReqTypes, TokenTypes
<1>n. now \in Int /\ now + Expire \in Int /\ Never <= now
    BY <1>t, BoundsAssumption, ExpireAssumption DEF Never
<1>1. /\ now' = now /\ user' = user /\ epoch' = epoch /\ revoked' = revoked /\ marker' = marker
      /\ reset' = reset /\ outdated' = outdated /\ spent' = spent /\ app' = app
      /\ req' = [req EXCEPT ![r] = Done] /\ req[r].pc \in {"login_mint", "verify_mint"}
    BY DEF LoginMint, VerifyMint, Leave, account, keys, history
<1>2. PICK kind \in {"access", "challenge"} : CreateToken(kind, req[r].iat, req[r].epoch)
    BY DEF LoginMint, VerifyMint, LoginIat, CreateAccessToken, CreateChallengeToken
<1>3. PICK n : n = NextJti
    OBVIOUS
<1>4. n \in Jtis /\ token[n].kind = "none"
    BY <1>2, <1>3 DEF CreateToken, CanMint, NextJti
<1>5. PICK t : t = [kind |-> kind, iat |-> req[r].iat, exp |-> now + Expire, epoch |-> req[r].epoch]
    OBVIOUS
<1>6. t \in TokenTypes /\ t.kind = kind /\ t.iat = req[r].iat /\ t.epoch = req[r].epoch
    BY <1>n, <1>t, <1>5 DEF TokenTypes, ReqTypes
<1>7. token' = [token EXCEPT ![n] = t]
    BY <1>2, <1>3, <1>5 DEF CreateToken
<1>8. token' \in [Jtis -> TokenTypes] /\ \A j \in Jtis : token'[j] = IF j = n THEN t ELSE token[j]
    BY <1>t, <1>4, <1>6, <1>7
<1>9. req' \in [Requests -> ReqTypes] /\ \A s \in Requests : req'[s] = IF s = r THEN Done ELSE req[s]
    BY <1>t, <1>1, DoneIsIdle
<1>10. SessionTypeOK'
    BY <1>0, <1>1, <1>8, <1>9 DEF SessionTypeOK, ReqTypes, TokenTypes
<1>11. DerivedInThePast'
    BY <1>0, <1>1, <1>n, <1>t, <1>6, <1>8, <1>9, DoneIsIdle DEF DerivedInThePast
<1>12. OneTransaction'
    BY <1>0, <1>1, <1>9, DoneIsIdle DEF OneTransaction, InTransaction
<1>13. KeysOutliveTokens'
    BY <1>0, <1>1, <1>4, <1>8 DEF KeysOutliveTokens
<1>14. ResetsAreConsumed'
    BY <1>0, <1>1, <1>9, DoneIsIdle DEF ResetsAreConsumed
<1>15. MarksCover'
  <2>1. ASSUME NEW b, StaleUpTo(b)
        PROVE  StaleUpTo(b)'
    <3>1. t.epoch < epoch => t.iat <= b
        BY <1>1, <1>6, <2>1 DEF StaleUpTo
    <3> QED
        BY <1>1, <1>8, <1>9, <2>1, <3>1, DoneIsIdle DEF StaleUpTo
  <2>2. \A b : StaleUpTo(b) => StaleUpTo(b)'
      BY <2>1
  <2>3. \A s \in Requests :
            /\ req[s].pc = "restamp" => req'[s].pc = "restamp"
                  \/ (req'[s].pc = "remark" /\ StaleUpTo(req'[s].stamp))
            /\ req[s].pc = "remark" => req'[s].pc = "remark" /\ req'[s].stamp = req[s].stamp
            /\ req'[s].pc = "mark" => StaleUpTo(req'[s].stamp)
      BY <1>0, <1>1, <1>9, DoneIsIdle DEF MarksCover
  <2> QED
      BY <1>0, <1>1, <2>2, <2>3, CoverKept
<1> QED
    BY <1>10, <1>11, <1>12, <1>13, <1>14, <1>15 DEF SessionInv

(* Steps that touch no request.                                            *)
LEMMA SessionOutside ==
    ASSUME SessionInv,
           \/ Tick \/ Register \/ \E j \in Jtis : Logout(j)
           \/ \E a \in AppTokens, j \in Jtis : RevokeToken(a, j)
           \/ \E k \in Resets : ResetRequest(k) \/ ProcessResetRequest(k) \/ ResetExpires(k)
    PROVE  SessionInv'
<1>0. /\ SessionTypeOK /\ DerivedInThePast /\ OneTransaction /\ KeysOutliveTokens
      /\ ResetsAreConsumed /\ MarksCover
    BY DEF SessionInv
<1>1. /\ epoch' = epoch /\ token' = token /\ marker' = marker /\ outdated' = outdated /\ spent' = spent
      /\ req' = req
    BY DEF Tick, Register, Logout, RevokeToken, ResetRequest, ProcessResetRequest, ResetExpires, account,
       keys, history
<1>2. OneTransaction' /\ MarksCover'
  <2>1. OneTransaction'
      BY <1>0, <1>1 DEF OneTransaction, InTransaction
  <2>2. MarksCover'
      BY <1>0, <1>1 DEF MarksCover, Covered, StaleUpTo
  <2> QED
      BY <2>1, <2>2
<1>t. /\ now \in 0..MaxTime /\ token \in [Jtis -> TokenTypes] /\ req \in [Requests -> ReqTypes]
      /\ revoked \in [Jtis -> Int] /\ reset \in [Resets -> {"unused", "requested", "live", "gone"}]
      /\ app \in [AppTokens -> {"unused", "active", "revoked"}] /\ user \in {"absent", "user"}
    BY <1>0 DEF SessionTypeOK, TokenTypes, ReqTypes
<1>3. SUFFICES /\ now' \in 0..MaxTime /\ revoked' \in [Jtis -> Int]
               /\ reset' \in [Resets -> {"unused", "requested", "live", "gone"}]
               /\ app' \in [AppTokens -> {"unused", "active", "revoked"}] /\ user' \in {"absent", "user"}
               /\ DerivedInThePast' /\ KeysOutliveTokens' /\ ResetsAreConsumed'
  <2>1. SessionTypeOK'
      BY <1>0, <1>1, <1>3 DEF SessionTypeOK
  <2> QED
      BY <1>2, <1>3, <2>1 DEF SessionInv
<1>4. CASE Tick
  <2>1. /\ now' = now + 1 /\ now < MaxTime /\ revoked' = revoked /\ reset' = reset /\ app' = app
        /\ user' = user
      BY <1>4 DEF Tick, account, keys
  <2>2. now' \in 0..MaxTime
      BY <1>t, <2>1, BoundsAssumption
  <2>3. DerivedInThePast'
      BY <1>0, <1>1, <1>t, <2>1, BoundsAssumption DEF DerivedInThePast, TokenTypes, ReqTypes, Times
  <2> QED
      BY <1>0, <1>1, <1>t, <2>1, <2>2, <2>3 DEF KeysOutliveTokens, ResetsAreConsumed
<1>5. CASE Register
  <2>1. /\ now' = now /\ revoked' = revoked /\ reset' = reset /\ app' = app /\ user' = "user"
      BY <1>5 DEF Register, keys
  <2> QED
      BY <1>0, <1>1, <1>t, <2>1 DEF KeysOutliveTokens, ResetsAreConsumed, DerivedInThePast
<1>6. ASSUME NEW a \in AppTokens, NEW j \in Jtis, RevokeToken(a, j)
      PROVE  /\ now' \in 0..MaxTime /\ revoked' \in [Jtis -> Int]
             /\ reset' \in [Resets -> {"unused", "requested", "live", "gone"}]
             /\ app' \in [AppTokens -> {"unused", "active", "revoked"}] /\ user' \in {"absent", "user"}
             /\ DerivedInThePast' /\ KeysOutliveTokens' /\ ResetsAreConsumed'
  <2>1. /\ now' = now /\ revoked' = revoked /\ reset' = reset /\ user' = user
        /\ app' = [app EXCEPT ![a] = "revoked"]
      BY <1>6 DEF RevokeToken, keys, account
  <2> QED
      BY <1>0, <1>1, <1>t, <2>1 DEF KeysOutliveTokens, ResetsAreConsumed, DerivedInThePast
<1>7. ASSUME NEW j \in Jtis, Logout(j)
      PROVE  /\ now' \in 0..MaxTime /\ revoked' \in [Jtis -> Int]
             /\ reset' \in [Resets -> {"unused", "requested", "live", "gone"}]
             /\ app' \in [AppTokens -> {"unused", "active", "revoked"}] /\ user' \in {"absent", "user"}
             /\ DerivedInThePast' /\ KeysOutliveTokens' /\ ResetsAreConsumed'
  <2>1. /\ now' = now /\ reset' = reset /\ user' = user /\ app' = app
        /\ revoked' = [revoked EXCEPT ![j] = now + LogoutTtl(j)] /\ token[j].kind = "access"
      BY <1>7 DEF Logout, account, RequireUser, ValidateToken
  <2>2. PICK n : n = now + LogoutTtl(j)
      OBVIOUS
  <2>3. n \in Int /\ n >= token[j].exp
      BY <1>t, <2>2, BoundsAssumption, MinRevokedAssumption DEF LogoutTtl, TokenTypes
  <2>4. revoked' \in [Jtis -> Int] /\ \A i \in Jtis : revoked'[i] = IF i = j THEN n ELSE revoked[i]
      BY <1>t, <2>1, <2>2, <2>3
  <2>5. KeysOutliveTokens'
      BY <1>0, <1>1, <2>1, <2>3, <2>4 DEF KeysOutliveTokens
  <2> QED
      BY <1>0, <1>1, <1>t, <2>1, <2>4, <2>5 DEF ResetsAreConsumed, DerivedInThePast
<1>8. ASSUME NEW k \in Resets, ResetRequest(k) \/ ProcessResetRequest(k) \/ ResetExpires(k)
      PROVE  /\ now' \in 0..MaxTime /\ revoked' \in [Jtis -> Int]
             /\ reset' \in [Resets -> {"unused", "requested", "live", "gone"}]
             /\ app' \in [AppTokens -> {"unused", "active", "revoked"}] /\ user' \in {"absent", "user"}
             /\ DerivedInThePast' /\ KeysOutliveTokens' /\ ResetsAreConsumed'
  <2>1. /\ now' = now /\ revoked' = revoked /\ user' = user /\ app' = app /\ reset[k] # "gone"
        /\ \E v \in {"requested", "live", "gone"} : reset' = [reset EXCEPT ![k] = v]
      BY <1>8 DEF ResetRequest, ProcessResetRequest, ResetExpires, account
  <2>2. PICK v \in {"requested", "live", "gone"} : reset' = [reset EXCEPT ![k] = v]
      BY <2>1
  <2>3. /\ reset' \in [Resets -> {"unused", "requested", "live", "gone"}]
        /\ \A i \in Resets : reset[i] = "gone" => reset'[i] = "gone"
      BY <1>t, <2>1, <2>2
  <2>4. ResetsAreConsumed'
      BY <1>0, <1>1, <1>t, <2>3 DEF ResetsAreConsumed, ReqTypes
  <2> QED
      BY <1>0, <1>1, <1>t, <2>1, <2>3, <2>4 DEF KeysOutliveTokens, DerivedInThePast
<1> QED
    BY <1>4, <1>5, <1>6, <1>7, <1>8

(* The transaction begins: the stamp covers all that is stale by then.     *)
LEMMA SessionUpdates ==
    ASSUME SessionInv, NEW r \in Requests, Update(r)
    PROVE  SessionInv'
<1>0. /\ SessionTypeOK /\ DerivedInThePast /\ OneTransaction /\ KeysOutliveTokens
      /\ ResetsAreConsumed /\ MarksCover
    BY DEF SessionInv
<1>t. /\ req \in [Requests -> ReqTypes] /\ req[r] \in ReqTypes /\ now \in Times
    BY <1>0, BoundsAssumption DEF SessionTypeOK, ReqTypes, Times
<1>1. PICK apps : apps = {a \in AppTokens : app[a] = "active"}
    OBVIOUS
<1>2. PICK q : q = [req[r] EXCEPT !.pc = "mark", !.stamp = now, !.apps = apps]
    OBVIOUS
<1>3. /\ q \in ReqTypes /\ q.pc = "mark" /\ q.iat = req[r].iat /\ q.stamp = now
    BY <1>t, <1>1, <1>2 DEF ReqTypes, Steps
<1>4. /\ now' = now /\ user' = user /\ epoch' = epoch /\ token' = token /\ revoked' = revoked
      /\ marker' = marker /\ reset' = reset /\ outdated' = outdated /\ spent' = spent /\ app' = app
      /\ req[r].pc = "update" /\ epoch < MaxChanges /\ \A s \in Requests : ~InTransaction(s)
    BY DEF Update, account, keys, history
<1>5. req' = [req EXCEPT ![r] = q]
    BY <1>1, <1>2 DEF Update
<1>6. req' \in [Requests -> ReqTypes] /\ \A s \in Requests : req'[s] = IF s = r THEN q ELSE req[s]
    BY <1>t, <1>3, <1>5
<1>7. SessionTypeOK'
    BY <1>0, <1>4, <1>6 DEF SessionTypeOK, ReqTypes
<1>8. DerivedInThePast' /\ KeysOutliveTokens' /\ ResetsAreConsumed'
    BY <1>0, <1>3, <1>4, <1>6 DEF DerivedInThePast, KeysOutliveTokens, ResetsAreConsumed
<1>9. OneTransaction'
    BY <1>4, <1>6 DEF OneTransaction, InTransaction
<1>10. MarksCover'
  <2>1. \A b : StaleUpTo(b) => StaleUpTo(b)'
      BY <1>3, <1>4, <1>6 DEF StaleUpTo
  <2>2. StaleUpTo(now)
      BY <1>0 DEF DerivedInThePast, StaleUpTo
  <2>3. \A s \in Requests :
            /\ req[s].pc = "restamp" => req'[s].pc = "restamp"
                  \/ (req'[s].pc = "remark" /\ StaleUpTo(req'[s].stamp))
            /\ req[s].pc = "remark" => req'[s].pc = "remark" /\ req'[s].stamp = req[s].stamp
            /\ req'[s].pc = "mark" => StaleUpTo(req'[s].stamp)
      BY <1>0, <1>3, <1>4, <1>6, <2>2 DEF MarksCover
  <2> QED
      BY <1>0, <1>4, <2>1, <2>3, CoverKept
<1> QED
    BY <1>7, <1>8, <1>9, <1>10 DEF SessionInv

(* A mark is written: the first one covers all that is stale; a later one  *)
(* covers it, leaves another under way that does, or is older than the     *)
(* marker it replaces.                                                     *)
LEMMA SessionMarks ==
    ASSUME SessionInv, NEW r \in Requests, WriteMarker(r) \/ Restamp(r)
    PROVE  SessionInv'
<1>0. /\ SessionTypeOK /\ DerivedInThePast /\ OneTransaction /\ KeysOutliveTokens
      /\ ResetsAreConsumed /\ MarksCover
    BY DEF SessionInv
<1>t. /\ req \in [Requests -> ReqTypes] /\ req[r] \in ReqTypes /\ now \in 0..MaxTime /\ now \in Int
      /\ marker.at \in Int /\ req[r].stamp \in Int /\ req[r].stamp \in Times /\ outdated \in BOOLEAN
      /\ token \in [Jtis -> TokenTypes] /\ req[r].iat <= now /\ Never <= now
    BY <1>0, BoundsAssumption DEF SessionTypeOK, ReqTypes, TokenTypes, Times, DerivedInThePast, Never
<1>1. /\ now' = now /\ user' = user /\ epoch' = epoch /\ token' = token /\ revoked' = revoked
      /\ reset' = reset /\ spent' = spent /\ app' = app
      /\ marker' = [at |-> req[r].stamp, until |-> now + Expire]
    BY DEF WriteMarker, Restamp, Stamp, account
<1>2. marker' \in [at : Times, until : Int] /\ marker'.at = req[r].stamp
    BY <1>t, <1>1, ExpireAssumption
<1>3. PICK q \in ReqTypes :
         /\ req' = [req EXCEPT ![r] = q] /\ q.iat <= now
         /\ \/ req[r].pc = "mark" /\ q.pc = "commit" /\ q.reset = NoReset
            \/ req[r].pc = "mark" /\ q.pc = "consume" /\ q.reset # NoReset
            \/ req[r].pc = "remark" /\ q.pc = "idle"
  <2>1. CASE WriteMarker(r)
    <3>1. PICK pc : pc = IF req[r].reset = NoReset THEN "commit" ELSE "consume"
        OBVIOUS
    <3>2. PICK q : q = [req[r] EXCEPT !.pc = pc]
        OBVIOUS
    <3>3. q \in ReqTypes /\ q.pc = pc /\ q.reset = req[r].reset /\ q.iat = req[r].iat
        BY <1>t, <3>1, <3>2 DEF ReqTypes, Steps
    <3>4. req' = [req EXCEPT ![r] = q] /\ req[r].pc = "mark"
        BY <2>1, <3>1, <3>2 DEF WriteMarker, Goto
    <3> QED
        BY <1>t, <3>1, <3>3, <3>4
  <2>2. CASE Restamp(r)
      BY <1>t, <2>2, DoneIsIdle DEF Restamp, Leave
  <2> QED
      BY <2>1, <2>2
<1>4. req' \in [Requests -> ReqTypes] /\ \A s \in Requests : req'[s] = IF s = r THEN q ELSE req[s]
    BY <1>t, <1>3
<1>5. outdated' \in BOOLEAN
  <2>1. CASE WriteMarker(r)
    <3>1. outdated' = (req[r].stamp < marker.at)
        BY <2>1 DEF WriteMarker
    <3>2. CASE req[r].stamp < marker.at
        BY <3>1, <3>2, Zenon
    <3>3. CASE ~(req[r].stamp < marker.at)
        BY <3>1, <3>3
    <3> QED
        BY <3>2, <3>3
  <2>2. CASE Restamp(r)
    <3>1. outdated' = (outdated \/ req[r].stamp < marker.at)
        BY <2>2 DEF Restamp
    <3>2. CASE outdated \/ req[r].stamp < marker.at
        BY <3>1, <3>2, Zenon
    <3>3. CASE ~(outdated \/ req[r].stamp < marker.at)
        BY <3>1, <3>3, Zenon
    <3> QED
        BY <3>2, <3>3
  <2> QED
      BY <2>1, <2>2
<1>6. SessionTypeOK'
    BY <1>0, <1>1, <1>2, <1>4, <1>5 DEF SessionTypeOK, ReqTypes
<1>7. DerivedInThePast' /\ KeysOutliveTokens'
    BY <1>0, <1>1, <1>3, <1>4 DEF DerivedInThePast, KeysOutliveTokens
<1>8. ResetsAreConsumed'
    BY <1>0, <1>1, <1>3, <1>4 DEF ResetsAreConsumed
<1>9. OneTransaction'
    BY <1>0, <1>1, <1>3, <1>4 DEF OneTransaction, InTransaction
<1>10. ASSUME NEW b, StaleUpTo(b)
       PROVE  StaleUpTo(b)'
    BY <1>1, <1>3, <1>4, <1>10 DEF StaleUpTo
<1>11. ASSUME NEW s \in Requests, s # r, StaleUpTo(req[s].stamp)
       PROVE  StaleUpTo(req[s].stamp)'
  <2>1. PICK b : b = req[s].stamp
      OBVIOUS
  <2>2. StaleUpTo(b)'
      BY <1>10, <1>11, <2>1
  <2> QED
      BY <1>4, <1>11, <2>1, <2>2 DEF StaleUpTo
<1>12. \A s \in Requests : req'[s].pc = "mark" => StaleUpTo(req[s].stamp)'
    BY <1>0, <1>3, <1>4, <1>11 DEF MarksCover
<1>13. StaleUpTo(req[r].stamp) => StaleUpTo(marker.at)'
  <2>1. PICK b : b = req[r].stamp
      OBVIOUS
  <2>2. StaleUpTo(b) => StaleUpTo(b)'
      BY <1>10
  <2> QED
      BY <1>2, <2>1, <2>2 DEF StaleUpTo
<1>14. Covered'
  <2>1. CASE WriteMarker(r)
      BY <1>0, <1>13, <2>1 DEF MarksCover, WriteMarker, Covered
  <2>2. CASE Restamp(r)
    <3>0. outdated' = (outdated \/ req[r].stamp < marker.at) /\ req[r].pc = "remark"
        BY <2>2 DEF Restamp
    <3>1. CASE outdated \/ req[r].stamp < marker.at
        BY <3>0, <3>1 DEF Covered
    <3>2. CASE StaleUpTo(marker.at) /\ ~(req[r].stamp < marker.at)
      <4>1. \A j \in Jtis : token[j].iat \in Int
          BY <1>t, BoundsAssumption DEF TokenTypes, Times
      <4>2. \A s \in Requests : req[s].iat \in Int
          BY <1>t, BoundsAssumption DEF ReqTypes, Times
      <4>3. StaleUpTo(req[r].stamp)
          BY <1>t, <3>2, <4>1, <4>2 DEF StaleUpTo
      <4> QED
          BY <1>13, <4>3 DEF Covered
    <3>3. ASSUME NEW s \in Requests,
                 req[s].pc = "restamp" \/ (req[s].pc = "remark" /\ StaleUpTo(req[s].stamp))
          PROVE  Covered'
      <4>1. CASE s = r
          BY <1>13, <3>0, <3>3, <4>1 DEF Covered
      <4>2. CASE s # r /\ req[s].pc = "restamp"
          BY <1>4, <4>2 DEF Covered
      <4>3. CASE s # r /\ req[s].pc = "remark" /\ StaleUpTo(req[s].stamp)
        <5>1. req'[s].pc = "remark" /\ StaleUpTo(req[s].stamp)'
            BY <1>4, <1>11, <4>3
        <5> QED
            BY <5>1 DEF Covered
      <4> QED
          BY <3>3, <4>1, <4>2, <4>3
    <3> QED
        BY <1>0, <3>1, <3>2, <3>3 DEF MarksCover, Covered
  <2> QED
      BY <2>1, <2>2
<1>15. MarksCover'
    BY <1>12, <1>14 DEF MarksCover
<1> QED
    BY <1>6, <1>7, <1>8, <1>9, <1>15 DEF SessionInv

(* The re-stamp is lost, or the transaction consumes its reset token.      *)
LEMMA SessionConsumes ==
    ASSUME SessionInv, NEW r \in Requests, Consume(r) \/ RestampFails(r)
    PROVE  SessionInv'
<1>0. /\ SessionTypeOK /\ DerivedInThePast /\ OneTransaction /\ KeysOutliveTokens
      /\ ResetsAreConsumed /\ MarksCover
    BY DEF SessionInv
<1>t. /\ req \in [Requests -> ReqTypes] /\ req[r] \in ReqTypes /\ now \in 0..MaxTime /\ now \in Int
      /\ req[r].iat <= now /\ Never <= now /\ spent \in [Resets -> Nat]
      /\ reset \in [Resets -> {"unused", "requested", "live", "gone"}]
    BY <1>0, BoundsAssumption DEF SessionTypeOK, ReqTypes, DerivedInThePast, Never
<1>1. /\ now' = now /\ user' = user /\ epoch' = epoch /\ token' = token /\ revoked' = revoked
      /\ spent' = spent /\ app' = app /\ marker' = marker
    BY DEF Consume, RestampFails, account, keys, history
<1>2. PICK q \in ReqTypes :
         /\ req' = [req EXCEPT ![r] = q] /\ q.iat <= now
         /\ \/ /\ req[r].pc = "consume" /\ q.pc = "commit" /\ q.reset = req[r].reset
               /\ reset[q.reset] = "live" /\ reset' = [reset EXCEPT ![q.reset] = "gone"]
            \/ req[r].pc \in {"consume", "remark"} /\ q.pc = "idle" /\ reset' = reset
         /\ req[r].pc = "remark" => outdated'
         /\ outdated' = outdated \/ outdated' = TRUE
  <2>1. CASE RestampFails(r)
      BY <1>t, <2>1, DoneIsIdle DEF RestampFails, Leave, keys
  <2>2. CASE Consume(r) /\ reset[req[r].reset] = "live"
    <3>1. PICK q : q = [req[r] EXCEPT !.pc = "commit"]
        OBVIOUS
    <3>2. q \in ReqTypes /\ q.pc = "commit" /\ q.reset = req[r].reset /\ q.iat = req[r].iat
        BY <1>t, <3>1 DEF ReqTypes, Steps
    <3>3. /\ req' = [req EXCEPT ![r] = q] /\ req[r].pc = "consume" /\ outdated' = outdated
          /\ reset' = [reset EXCEPT ![req[r].reset] = "gone"]
        BY <2>2, <3>1 DEF Consume, Goto, history
    <3> QED
        BY <1>t, <2>2, <3>2, <3>3
  <2>3. CASE Consume(r) /\ reset[req[r].reset] # "live"
      BY <1>t, <2>3, DoneIsIdle DEF Consume, Leave, history
  <2> QED
      BY <2>1, <2>2, <2>3
<1>3. req' \in [Requests -> ReqTypes] /\ \A s \in Requests : req'[s] = IF s = r THEN q ELSE req[s]
    BY <1>t, <1>2
<1>4. q.pc = "commit" => q.reset \in Resets
    BY <1>0, <1>2 DEF ResetsAreConsumed, ReqTypes
<1>5. /\ reset' \in [Resets -> {"unused", "requested", "live", "gone"}]
      /\ \A k \in Resets : reset[k] = "gone" => reset'[k] = "gone"
      /\ q.pc = "commit" => reset'[q.reset] = "gone" /\ spent[q.reset] = 0
  <2>1. CASE q.pc = "commit"
    <3>1. /\ q.reset \in Resets /\ reset[q.reset] = "live"
          /\ reset' = [reset EXCEPT ![q.reset] = "gone"]
        BY <1>2, <1>4, <2>1
    <3>2. spent[q.reset] = 0
        BY <1>0, <1>t, <3>1 DEF ResetsAreConsumed
    <3> QED
        BY <1>t, <3>1, <3>2
  <2>2. CASE q.pc # "commit"
      BY <1>t, <1>2, <2>2
  <2> QED
      BY <2>1, <2>2
<1>6. outdated' \in BOOLEAN
    BY <1>0, <1>2 DEF SessionTypeOK
<1>7. SessionTypeOK'
    BY <1>0, <1>1, <1>3, <1>5, <1>6 DEF SessionTypeOK, ReqTypes
<1>8. DerivedInThePast' /\ KeysOutliveTokens'
    BY <1>0, <1>1, <1>2, <1>3 DEF DerivedInThePast, KeysOutliveTokens
<1>9. ResetsAreConsumed'
  <2>1. \A k \in Resets : spent'[k] <= 1 /\ (spent'[k] = 1 => reset'[k] = "gone")
      BY <1>0, <1>1, <1>5 DEF ResetsAreConsumed
  <2>2. ASSUME NEW s \in Requests
        PROVE  /\ req'[s].pc = "consume" => req'[s].reset # NoReset
               /\ req'[s].pc = "commit" /\ req'[s].reset # NoReset =>
                     reset'[req'[s].reset] = "gone" /\ spent'[req'[s].reset] = 0
    <3>1. CASE s = r
        BY <1>1, <1>2, <1>3, <1>5, <3>1
    <3>2. CASE s # r
      <4>1. req'[s] = req[s] /\ req[s].reset \in Resets \cup {NoReset}
          BY <1>3, <1>t, <3>2 DEF ReqTypes
      <4> QED
          BY <1>0, <1>1, <1>5, <4>1 DEF ResetsAreConsumed
    <3> QED
        BY <3>1, <3>2
  <2> QED
      BY <2>1, <2>2 DEF ResetsAreConsumed
<1>10. OneTransaction'
    BY <1>0, <1>1, <1>2, <1>3 DEF OneTransaction, InTransaction
<1>11. \A b : StaleUpTo(b) => StaleUpTo(b)'
    BY <1>1, <1>2, <1>3 DEF StaleUpTo
<1>12. MarksCover'
  <2>1. CASE req[r].pc = "remark"
    <3>1. ASSUME NEW s \in Requests, req'[s].pc = "mark"
          PROVE  StaleUpTo(req[s].stamp)'
      <4>1. req'[s] = req[s]
          BY <1>2, <1>3, <3>1
      <4>2. PICK b : b = req[s].stamp
          OBVIOUS
      <4>3. StaleUpTo(b)'
          BY <1>0, <1>11, <3>1, <4>1, <4>2 DEF MarksCover
      <4> QED
          BY <4>1, <4>2, <4>3 DEF StaleUpTo
    <3> QED
        BY <1>2, <2>1, <3>1 DEF MarksCover, Covered
  <2>2. CASE req[r].pc # "remark" /\ outdated' = outdated
    <3>1. \A s \in Requests :
              /\ req[s].pc = "restamp" => req'[s].pc = "restamp"
                    \/ (req'[s].pc = "remark" /\ StaleUpTo(req'[s].stamp))
              /\ req[s].pc = "remark" => req'[s].pc = "remark" /\ req'[s].stamp = req[s].stamp
              /\ req'[s].pc = "mark" => StaleUpTo(req'[s].stamp)
        BY <1>0, <1>2, <1>3, <2>2 DEF MarksCover
    <3> QED
        BY <1>0, <1>1, <1>11, <2>2, <3>1, CoverKept
  <2>3. req[r].pc # "remark" => outdated' = outdated
      BY DEF Consume, RestampFails, history
  <2> QED
      BY <2>1, <2>2, <2>3
<1> QED
    BY <1>7, <1>8, <1>9, <1>10, <1>12 DEF SessionInv

(* The change commits: the one transaction ends, and a re-stamp is due.    *)
LEMMA SessionCommits ==
    ASSUME SessionInv, NEW r \in Requests, Commit(r)
    PROVE  SessionInv'
<1>0. /\ SessionTypeOK /\ DerivedInThePast /\ OneTransaction /\ KeysOutliveTokens
      /\ ResetsAreConsumed /\ MarksCover
    BY DEF SessionInv
<1>t. /\ req \in [Requests -> ReqTypes] /\ req[r] \in ReqTypes /\ now \in 0..MaxTime /\ now \in Int
      /\ Never <= now /\ spent \in [Resets -> Nat] /\ epoch \in 0..MaxChanges
      /\ app \in [AppTokens -> {"unused", "active", "revoked"}]
    BY <1>0, BoundsAssumption DEF SessionTypeOK, ReqTypes, Never
<1>1. /\ now' = now /\ user' = user /\ epoch' = epoch + 1 /\ token' = token /\ revoked' = revoked
      /\ reset' = reset /\ marker' = marker /\ outdated' = outdated /\ req[r].pc = "commit"
      /\ app' = [a \in AppTokens |-> IF a \in req[r].apps THEN "revoked" ELSE app[a]]
      /\ spent' = IF req[r].reset = NoReset THEN spent ELSE [spent EXCEPT ![req[r].reset] = @ + 1]
      /\ req' = [req EXCEPT ![r] = Request("restamp", Never, 0, NoReset)]
    BY DEF Commit, keys
<1>2. PICK q : q = Request("restamp", Never, 0, NoReset)
    OBVIOUS
<1>3. q \in ReqTypes /\ q.pc = "restamp" /\ q.iat = Never
  <2>1. "restamp" \in Steps /\ Never \in Times /\ 0 \in 0..MaxChanges
      BY BoundsAssumption DEF Steps, Times, Never
  <2> QED
      BY <1>2, <2>1, RequestIsTyped
<1>4. req' \in [Requests -> ReqTypes] /\ \A s \in Requests : req'[s] = IF s = r THEN q ELSE req[s]
    BY <1>t, <1>1, <1>2, <1>3
<1>5. InTransaction(r) /\ epoch < MaxChanges /\ \A s \in Requests : s # r => ~InTransaction(s)
    BY <1>0, <1>1 DEF OneTransaction, InTransaction
<1>6. epoch' \in 0..MaxChanges
    BY <1>t, <1>1, <1>5, BoundsAssumption
<1>7. spent' \in [Resets -> Nat] /\ \A k \in Resets : spent'[k] <= 1 /\ (spent'[k] = 1 => reset[k] = "gone")
  <2>1. CASE req[r].reset = NoReset
      BY <1>0, <1>t, <1>1, <2>1 DEF ResetsAreConsumed
  <2>2. CASE req[r].reset # NoReset
    <3>1. PICK k : k = req[r].reset
        OBVIOUS
    <3>2. k \in Resets /\ reset[k] = "gone" /\ spent[k] = 0
        BY <1>0, <1>t, <1>1, <2>2, <3>1 DEF ResetsAreConsumed, ReqTypes
    <3>3. spent' = [spent EXCEPT ![k] = 1]
        BY <1>t, <1>1, <2>2, <3>1, <3>2
    <3> QED
        BY <1>0, <1>t, <3>2, <3>3 DEF ResetsAreConsumed
  <2> QED
      BY <2>1, <2>2
<1>8. app' \in [AppTokens -> {"unused", "active", "revoked"}]
    BY <1>t, <1>1
<1>9. SessionTypeOK'
    BY <1>0, <1>1, <1>4, <1>6, <1>7, <1>8 DEF SessionTypeOK, ReqTypes
<1>10. DerivedInThePast' /\ KeysOutliveTokens'
    BY <1>0, <1>1, <1>t, <1>3, <1>4 DEF DerivedInThePast, KeysOutliveTokens
<1>11. \A s \in Requests : req'[s].pc \notin {"mark", "consume", "commit"}
    BY <1>3, <1>4, <1>5 DEF InTransaction
<1>12. OneTransaction' /\ ResetsAreConsumed'
    BY <1>1, <1>7, <1>11 DEF OneTransaction, InTransaction, ResetsAreConsumed
<1>13. MarksCover'
    BY <1>3, <1>4, <1>11 DEF MarksCover, Covered
<1> QED
    BY <1>9, <1>10, <1>12, <1>13 DEF SessionInv

LEMMA SessionStep == SessionInv /\ SessionNext => SessionInv'
<1> SUFFICES ASSUME SessionInv, SessionNext
             PROVE  SessionInv'
    OBVIOUS
<1>1. ASSUME NEW r \in Requests, RequestStep(r)
      PROVE  SessionInv'
  <2>1. CASE \/ LoginStart(r) \/ LoginRead(r) \/ LoginRefused(r)
             \/ \E j \in Jtis : VerifyChallenge(r, j) \/ ChangePassword(r, j) \/ MintStart(r, j)
             \/ \E k \in Resets : ResetConfirm(r, k)
             \/ MarkerRejected(r) \/ CommitFails(r) \/ TakeStamp(r)
             \/ \E a \in AppTokens : MintToken(r, a)
      BY <2>1, SessionRequests
  <2>2. CASE LoginMint(r) \/ VerifyMint(r)
      BY <2>2, SessionMints
  <2>3. CASE Update(r)
      BY <2>3, SessionUpdates
  <2>4. CASE WriteMarker(r) \/ Restamp(r)
      BY <2>4, SessionMarks
  <2>5. CASE Consume(r) \/ RestampFails(r)
      BY <2>5, SessionConsumes
  <2>6. CASE Commit(r)
      BY <2>6, SessionCommits
  <2> QED
      BY <1>1, <2>1, <2>2, <2>3, <2>4, <2>5, <2>6 DEF RequestStep
<1>2. CASE \/ Tick \/ Register \/ \E j \in Jtis : Logout(j)
           \/ \E a \in AppTokens, j \in Jtis : RevokeToken(a, j)
           \/ \E k \in Resets : ResetRequest(k) \/ ProcessResetRequest(k) \/ ResetExpires(k)
    BY <1>2, SessionOutside
<1> QED
    BY <1>1, <1>2 DEF SessionNext

LEMMA SessionInvIsEnough ==
    SessionInv => SessionTypeOK /\ StaleSessionsEnd /\ LogoutIsFinal /\ ResetChangesOnce
<1> SUFFICES ASSUME SessionInv
             PROVE  SessionTypeOK /\ StaleSessionsEnd /\ LogoutIsFinal /\ ResetChangesOnce
    OBVIOUS
<1>0. /\ SessionTypeOK /\ KeysOutliveTokens /\ ResetsAreConsumed /\ MarksCover
    BY DEF SessionInv
<1>t. /\ now \in Int /\ token \in [Jtis -> TokenTypes] /\ revoked \in [Jtis -> Int]
      /\ marker.at \in Int /\ marker.until \in Int
    BY <1>0, BoundsAssumption DEF SessionTypeOK, TokenTypes, Times
<1>1. StaleSessionsEnd
  <2> SUFFICES ASSUME ~Finishing, ~outdated, NEW j \in Jtis, NEW kind \in {"access", "challenge"},
                      ValidateToken(j, kind), token[j].epoch < epoch
               PROVE  now > marker.until /\ token[j].exp > marker.until
      BY DEF StaleSessionsEnd
  <2>1. StaleUpTo(marker.at)
      BY <1>0 DEF MarksCover, Covered, Finishing
  <2>2. token[j].iat <= marker.at /\ now <= token[j].exp /\ token[j].exp \in Int
      BY <1>t, <2>1 DEF StaleUpTo, ValidateToken, Decodes, TokenTypes
  <2>3. ~(now <= marker.until)
    <3>1. ~(now <= revoked[j]) /\ ~(now > revoked[j] /\ Marked(j))
        BY DEF ValidateToken, RevocationReason
    <3>2. revoked[j] \in Int
        BY <1>t
    <3> QED
        BY <1>t, <2>2, <3>1, <3>2 DEF Marked
  <2> QED
      BY <1>t, <2>2, <2>3
<1>2. LogoutIsFinal
  <2> SUFFICES ASSUME NEW j \in Jtis, revoked[j] # Never, Decodes(j)
               PROVE  RevocationReason(j) # "none"
      BY DEF LogoutIsFinal
  <2>1. now <= revoked[j]
      BY <1>0, <1>t DEF KeysOutliveTokens, Decodes, TokenTypes
  <2>2. ~(now > revoked[j])
      BY <1>t, <2>1
  <2>3. RevocationReason(j) = "revoked"
      BY <2>1, <2>2 DEF RevocationReason
  <2> QED
      BY <2>3
<1>3. ResetChangesOnce
  <2> SUFFICES ASSUME NEW k \in Resets
               PROVE  spent[k] <= 1 /\ (reset[k] = "live" => spent[k] = 0)
      BY DEF ResetChangesOnce
  <2>1. spent[k] \in Nat
      BY <1>0 DEF SessionTypeOK
  <2>2. spent[k] <= 1 /\ (spent[k] = 1 => reset[k] = "gone")
      BY <1>0 DEF ResetsAreConsumed
  <2> QED
      BY <2>1, <2>2
<1> QED
    BY <1>0, <1>1, <1>2, <1>3

(* The invariant of the sessions, for any number of requests, tokens and   *)
(* changes of the password (api/routers/auth.py, api/auth.py).             *)
THEOREM SessionInvariant == Spec => []SessionInv
<1>1. Init => SessionInv
    BY SessionInitInv DEF Init
<1>2. SessionInv /\ [Next]_serviceVars => SessionInv'
  <2> SUFFICES ASSUME SessionInv, [Next]_serviceVars
               PROVE  SessionInv'
      OBVIOUS
  <2>1. CASE SessionNext
      BY <2>1, SessionStep
  <2>2. CASE UNCHANGED sessionVars
    <3>1. /\ now' = now /\ user' = user /\ epoch' = epoch /\ token' = token /\ revoked' = revoked
          /\ marker' = marker /\ reset' = reset /\ outdated' = outdated /\ spent' = spent /\ app' = app
          /\ req' = req
        BY <2>2 DEF sessionVars, account, keys, history
    <3>2. SessionTypeOK' /\ DerivedInThePast' /\ KeysOutliveTokens' /\ ResetsAreConsumed'
        BY <3>1 DEF SessionInv, SessionTypeOK, DerivedInThePast, KeysOutliveTokens, ResetsAreConsumed
    <3>3. OneTransaction' /\ MarksCover'
        BY <3>1 DEF SessionInv, OneTransaction, InTransaction, MarksCover, Covered, StaleUpTo
    <3> QED
        BY <3>2, <3>3 DEF SessionInv
  <2> QED
      BY <2>1, <2>2 DEF Next, RestOf, serviceVars
<1> QED
    BY <1>1, <1>2, PTL DEF Spec

(* After a password change nothing derived from an earlier password passes *)
(* while the marker lives, a logout is final, and a reset token changes    *)
(* the password at most once: in any interleaving of logins, logouts,      *)
(* changes and resets whose store calls may fail (token_revocation_reason, *)
(* logout, _commit_password_change).                                       *)
THEOREM OldSessionsEnd == Spec => []SessionsEnd
<1>1. SessionInv => SessionsEnd
    BY SessionInvIsEnough DEF SessionsEnd
<1> QED
    BY <1>1, SessionInvariant, PTL

(* An app token ends with a committed change of the password or by its     *)
(* owner's own revocation, never because of a change that failed, and does *)
(* not come back (_commit_password_change, revoke_token).                  *)
THEOREM AppTokensEndTogether == Spec => AppTokensFollowPassword
<1>1. SessionInv /\ [Next]_serviceVars =>
         [ \A a \in AppTokens :
             /\ app[a] = "revoked" => ~RequireAppToken(a)'
             /\ RequireAppToken(a) /\ ~RequireAppToken(a)'
                  => epoch' = epoch + 1 \/ UNCHANGED req ]_sessionVars
  <2> SUFFICES ASSUME SessionInv, [Next]_serviceVars, ~UNCHANGED sessionVars, NEW a \in AppTokens
               PROVE  /\ app[a] = "revoked" => ~RequireAppToken(a)'
                      /\ RequireAppToken(a) /\ ~RequireAppToken(a)'
                           => epoch' = epoch + 1 \/ UNCHANGED req
      OBVIOUS
  <2>0. app \in [AppTokens -> {"unused", "active", "revoked"}]
      BY DEF SessionInv, SessionTypeOK
  <2>1. SessionNext
      BY DEF Next, RestOf, serviceVars
  <2>2. CASE app' = app
      BY <2>2 DEF RequireAppToken, LookupActiveToken
  <2>3. CASE \E r \in Requests : Commit(r)
      BY <2>0, <2>3 DEF Commit, RequireAppToken, LookupActiveToken
  <2>4. CASE \E r \in Requests, b \in AppTokens : MintToken(r, b)
      BY <2>0, <2>4 DEF MintToken, RequireAppToken, LookupActiveToken
  <2>5. CASE \E b \in AppTokens, j \in Jtis : RevokeToken(b, j)
      BY <2>0, <2>5 DEF RevokeToken, RequireAppToken, LookupActiveToken
  <2> QED
      BY <2>1, <2>2, <2>3, <2>4, <2>5
      DEF SessionNext, RequestStep, Tick, Register, LoginStart, LoginRead, LoginMint, LoginRefused,
          VerifyChallenge, ChangePassword, MintStart, VerifyMint, ResetConfirm, Update, TakeStamp,
          WriteMarker, MarkerRejected, Consume, CommitFails, Restamp, RestampFails, Logout,
          ResetRequest, ProcessResetRequest, ResetExpires
<1> QED
    BY <1>1, SessionInvariant, PTL DEF Spec, AppTokensFollowPassword

-----------------------------------------------------------------------------
(* Nlq: an answer is the asker's, and a stream is well formed.             *)

(* What an event may be called: a tool, or one of the stream's own.        *)
Words == STRING \cup {"actions", "result", "error"}

AnswerTypes ==
    [q : Questions \cup {Invalid}, private : SUBSET (People \cup {Anonymous}), tools : Seq(Words),
     entities : Seq(NlqFound), actions : Seq(Words)]

AskTypes ==
    [pc : {"idle", "resolve", "lookup", "engine", "replay", "result", "closed"},
     token : People \cup {Anonymous}, user : People \cup {Anonymous}, stream : BOOLEAN,
     q : Questions \cup {Invalid}, engine : {"none", "running", "done", "failed", "cancelled"},
     round : Nat, calls : Seq(Words), answer : AnswerTypes, queue : Seq(Words),
     events : Seq(Words), counted : Nat, got : AnswerTypes]

(* The answer in the making is to the question, and draws on the           *)
(* collection of the user found behind the token at most.                  *)
AnswerOK(r) == r.answer.q = r.q /\ r.answer.private \subseteq {r.user} \ {Anonymous}

(* A stream has announced or is about to announce the tools that ran.      *)
Announced(r) == r.stream => r.answer.tools = r.events \o r.queue

(* What a client got, with all that went before it.                        *)
Delivered(r) ==
    /\ r.counted = 1 /\ r.got.q = r.q /\ r.got.private \subseteq {r.token} \ {Anonymous}
    /\ r.stream => r.events = (IF r.engine = "none" THEN <<>> ELSE r.answer.tools)
                              \o <<"actions", "result">>

(* A request by the step it is at: what was counted, what of the tools was *)
(* announced and sent.                                                     *)
AskOK(r) ==
    /\ r.user \in {r.token, Anonymous}
    /\ r.engine = "running" => r.pc = "engine"
    /\ r.got # NoAnswer => r.pc = "closed"
    /\ r.pc \in {"idle", "resolve", "lookup"} =>
          r.counted = 0 /\ r.engine = "none" /\ r.events = <<>> /\ r.queue = <<>>
    /\ r.pc = "engine" =>
          r.counted = 0 /\ r.engine # "none" /\ AnswerOK(r) /\ Announced(r)
    /\ r.pc = "replay" =>
          /\ r.counted = 1 /\ r.engine = "none" /\ AnswerOK(r)
          /\ r.events \in {<<>>, <<"actions">>}
    /\ r.pc = "result" =>
          /\ r.counted = 1 /\ r.engine # "none" /\ AnswerOK(r)
          /\ r.events = Append(r.answer.tools, "actions")
    /\ r.counted <= 1
    /\ r.got # NoAnswer => Delivered(r)

(* What is in the shared cache draws on nobody's collection.               *)
NlqCacheOK ==
    \A e \in nlqCache : e.answer \in AnswerTypes /\ e.answer.private = {} /\ CacheKey(e.answer.q) = e.key

NlqInv ==
    /\ ask \in [Askers -> AskTypes] /\ (\A a \in Askers : AskOK(ask[a]))
    /\ NlqCacheOK

LEMMA AppendToConcat ==
    \A s, t \in Seq(Words), x \in Words : Append(s \o t, x) = s \o Append(t, x)
<1> TAKE s, t \in Seq(Words), x \in Words
<1>1. s \o t \in Seq(Words) /\ Append(t, x) \in Seq(Words)
    BY ConcatProperties, AppendProperties
<1>2. Append(s \o t, x) = (s \o t) \o <<x>> /\ Append(t, x) = t \o <<x>>
    BY <1>1, AppendIsConcat
<1>3. <<x>> \in Seq(Words)
    OBVIOUS
<1> QED
    BY <1>2, <1>3, ConcatAssociative

LEMMA HeadMovesOver ==
    \A s, t \in Seq(Words) : t # <<>> => Append(s, Head(t)) \o Tail(t) = s \o t
<1> TAKE s, t \in Seq(Words)
<1> HAVE t # <<>>
<1>1. Head(t) \in Words /\ Tail(t) \in Seq(Words) /\ <<Head(t)>> \in Seq(Words)
    BY HeadTailProperties
<1>2. Append(s, Head(t)) = s \o <<Head(t)>>
    BY <1>1, AppendIsConcat
<1>3. (s \o <<Head(t)>>) \o Tail(t) = s \o (<<Head(t)>> \o Tail(t))
    BY <1>1, ConcatAssociative
<1>4. <<Head(t)>> \o Tail(t) = t
    BY HeadTailProperties
<1> QED
    BY <1>2, <1>3, <1>4

LEMMA TwoAppended ==
    \A s \in Seq(Words), x, y \in Words : Append(Append(s, x), y) = s \o <<x, y>>
<1> TAKE s \in Seq(Words), x, y \in Words
<1>1. <<x>> \in Seq(Words) /\ <<y>> \in Seq(Words)
    OBVIOUS
<1>2. Append(s, x) = s \o <<x>> /\ Append(s, x) \in Seq(Words)
    BY AppendIsConcat, AppendProperties
<1>3. Append(Append(s, x), y) = (s \o <<x>>) \o <<y>>
    BY <1>2, AppendIsConcat
<1>4. <<x>> \o <<y>> = <<x, y>>
  <2>1. /\ <<x>> \o <<y>> \in Seq(Words) /\ Len(<<x>> \o <<y>>) = Len(<<x>>) + Len(<<y>>)
        /\ \A i \in 1..(Len(<<x>>) + Len(<<y>>)) : (<<x>> \o <<y>>)[i] =
               IF i <= Len(<<x>>) THEN <<x>>[i] ELSE <<y>>[i - Len(<<x>>)]
      BY <1>1, ConcatProperties
  <2>2. Len(<<x>>) = 1 /\ Len(<<y>>) = 1 /\ Len(<<x, y>>) = 2 /\ <<x, y>> \in Seq(Words)
      OBVIOUS
  <2>3. (<<x>> \o <<y>>)[1] = x /\ (<<x>> \o <<y>>)[2] = y
      BY <2>1, <2>2
  <2>4. \A i \in 1..2 : (<<x>> \o <<y>>)[i] = <<x, y>>[i]
      BY <2>3
  <2>5. PICK c : c = <<x>> \o <<y>>
      OBVIOUS
  <2>6. PICK d : d = <<x, y>>
      OBVIOUS
  <2>7. c \in Seq(Words) /\ d \in Seq(Words) /\ Len(c) = 2 /\ Len(d) = 2 /\ \A i \in 1..2 : c[i] = d[i]
      BY <2>1, <2>2, <2>4, <2>5, <2>6
  <2>8. c = d
      BY <2>7, SeqEqual
  <2> QED
      BY <2>5, <2>6, <2>8
<1> QED
    BY <1>1, <1>3, <1>4, ConcatAssociative

LEMMA WordsAreTyped ==
    /\ "actions" \in Words /\ "result" \in Words /\ "error" \in Words
    /\ \A made \in ModelCalls : made \in Seq(Words)
<1>1. STRING \subseteq Words
    BY DEF Words
<1>2. \A made \in Seq(STRING) : made \in Seq(Words)
    BY <1>1, SeqMonotonic
<1> QED
    BY <1>2, ToolNames DEF Words

LEMMA NoAskIsTyped ==
    /\ NoAnswer \in AnswerTypes /\ NoAnswer.private = {} /\ NoAnswer.tools = <<>>
    /\ NoAsk \in AskTypes /\ NoAsk.pc = "idle" /\ NoAsk.token = Anonymous /\ NoAsk.user = Anonymous
    /\ NoAsk.engine = "none" /\ NoAsk.events = <<>> /\ NoAsk.queue = <<>> /\ NoAsk.counted = 0
    /\ NoAsk.got = NoAnswer
<1>1. NoAnswer \in AnswerTypes /\ NoAnswer.private = {} /\ NoAnswer.tools = <<>>
    BY EmptySeq DEF NoAnswer, AnswerTypes
<1> QED
    BY <1>1, EmptySeq DEF NoAsk, AskTypes

LEMMA NlqInitInv == NlqInit => NlqInv
<1> SUFFICES ASSUME NlqInit
             PROVE  NlqInv
    OBVIOUS
<1>1. AskOK(NoAsk)
    BY NoAskIsTyped DEF AskOK
<1> QED
    BY <1>1, NoAskIsTyped DEF NlqInit, NlqInv, NlqCacheOK

LEMMA NlqSets ==
    ASSUME NlqInv, NEW a \in Askers, NEW s \in AskTypes, AskOK(s), Set(a, s), NlqCacheOK'
    PROVE  NlqInv'
    BY DEF NlqInv, Set

(* A question comes in, and the asker is resolved.                         *)
LEMMA NlqArrives ==
    ASSUME NlqInv, NEW a \in Askers,
           \/ \E by \in People \cup {Anonymous}, stream \in BOOLEAN, q \in Questions :
                 Submit(a, by, stream, q)
           \/ Refuse(a) \/ ResolveAsker(a)
    PROVE  NlqInv'
<1>0. ask[a] \in AskTypes /\ AskOK(ask[a])
    BY DEF NlqInv
<1>1. NlqCacheOK'
    BY DEF NlqInv, NlqCacheOK, Submit, Refuse, ResolveAsker
<1>2. ASSUME NEW by \in People \cup {Anonymous}, NEW stream \in BOOLEAN, NEW q \in Questions,
             Submit(a, by, stream, q)
      PROVE  NlqInv'
  <2>1. PICK s : s = [NoAsk EXCEPT !.token = by, !.stream = stream, !.q = q, !.pc = "resolve"]
      OBVIOUS
  <2>2. /\ s \in AskTypes /\ s.pc = "resolve" /\ s.user = Anonymous /\ s.engine = "none"
        /\ s.got = NoAnswer /\ s.counted = 0 /\ s.events = <<>> /\ s.queue = <<>>
      BY <2>1, NoAskIsTyped DEF AskTypes
  <2>3. AskOK(s)
      BY <2>2 DEF AskOK
  <2>4. Set(a, s)
      BY <1>2, <2>1 DEF Submit
  <2> QED
      BY <1>1, <2>2, <2>3, <2>4, NlqSets
<1>3. CASE Refuse(a)
  <2>1. PICK s : s = [NoAsk EXCEPT !.pc = "closed", !.counted = 1]
      OBVIOUS
  <2>2. /\ s \in AskTypes /\ s.pc = "closed" /\ s.user = Anonymous /\ s.engine = "none"
        /\ s.got = NoAnswer /\ s.counted = 1
      BY <2>1, NoAskIsTyped DEF AskTypes
  <2>3. AskOK(s)
      BY <2>2 DEF AskOK
  <2>4. Set(a, s)
      BY <1>3, <2>1 DEF Refuse
  <2> QED
      BY <1>1, <2>2, <2>3, <2>4, NlqSets
<1>4. CASE ResolveAsker(a)
  <2>1. PICK who \in {ask[a].token, Anonymous} : Set(a, [ask[a] EXCEPT !.user = who, !.pc = "lookup"])
      BY <1>4 DEF ResolveAsker
  <2>2. PICK s : s = [ask[a] EXCEPT !.user = who, !.pc = "lookup"]
      OBVIOUS
  <2>3. who \in People \cup {Anonymous} /\ ask[a].pc = "resolve"
      BY <1>0, <1>4, <2>1 DEF AskTypes, ResolveAsker
  <2>4. /\ s \in AskTypes /\ s.pc = "lookup" /\ s.user = who /\ s.token = ask[a].token
        /\ s.engine = ask[a].engine /\ s.got = ask[a].got /\ s.counted = ask[a].counted
        /\ s.events = ask[a].events /\ s.queue = ask[a].queue
      BY <1>0, <2>2, <2>3 DEF AskTypes
  <2>5. AskOK(s)
      BY <1>0, <2>1, <2>3, <2>4 DEF AskOK
  <2>6. Set(a, s)
      BY <2>1, <2>2
  <2> QED
      BY <1>1, <2>4, <2>5, <2>6, NlqSets
<1> QED
    BY <1>2, <1>3, <1>4

(* A public question is answered from the cache, or the engine starts.     *)
LEMMA NlqLooksUp ==
    ASSUME NlqInv, NEW a \in Askers, Lookup(a)
    PROVE  NlqInv'
<1>0. ask[a] \in AskTypes /\ AskOK(ask[a]) /\ ask[a].pc = "lookup" /\ NlqCacheOK
    BY DEF NlqInv, Lookup
<1>1. NlqCacheOK'
    BY <1>0 DEF NlqCacheOK, Lookup
<1>2. /\ ask[a].counted = 0 /\ ask[a].engine = "none" /\ ask[a].events = <<>> /\ ask[a].queue = <<>>
      /\ ask[a].got = NoAnswer /\ ask[a].user \in {ask[a].token, Anonymous}
    BY <1>0 DEF AskOK
<1>3. CASE Set(a, Started(ask[a]))
  <2>1. PICK w : w = [NoAnswer EXCEPT !.q = ask[a].q]
      OBVIOUS
  <2>2. w \in AnswerTypes /\ w.q = ask[a].q /\ w.private = {} /\ w.tools = <<>>
      BY <1>0, <2>1, NoAskIsTyped DEF AskTypes, AnswerTypes
  <2>3. PICK s : s = [ask[a] EXCEPT !.pc = "engine", !.engine = "running", !.answer = w]
      OBVIOUS
  <2>4. /\ s \in AskTypes /\ s.pc = "engine" /\ s.engine = "running" /\ s.answer = w
        /\ s.user = ask[a].user /\ s.token = ask[a].token /\ s.q = ask[a].q
        /\ s.got = ask[a].got /\ s.counted = ask[a].counted /\ s.events = ask[a].events
        /\ s.queue = ask[a].queue
      BY <1>0, <2>2, <2>3 DEF AskTypes
  <2>5. <<>> \o <<>> = <<>>
      BY EmptySeq, ConcatEmptySeq
  <2>6. AskOK(s)
      BY <1>2, <2>2, <2>4, <2>5 DEF AskOK, AnswerOK, Announced
  <2>7. Set(a, s)
      BY <1>3, <2>1, <2>3 DEF Started
  <2> QED
      BY <1>1, <2>4, <2>6, <2>7, NlqSets
<1>4. ASSUME NEW e \in Cached(ask[a].q), ask[a].user = Anonymous,
             Set(a, [ask[a] EXCEPT !.pc = "replay", !.answer = e.answer, !.counted = @ + 1])
      PROVE  NlqInv'
  <2>1. e.answer \in AnswerTypes /\ e.answer.private = {} /\ e.answer.q = ask[a].q
      BY <1>0, <1>4 DEF NlqCacheOK, Cached, CacheKey
  <2>2. PICK w : w = e.answer
      OBVIOUS
  <2>3. PICK s : s = [ask[a] EXCEPT !.pc = "replay", !.answer = w, !.counted = 1]
      OBVIOUS
  <2>4. /\ s \in AskTypes /\ s.pc = "replay" /\ s.engine = ask[a].engine /\ s.answer = w
        /\ s.user = ask[a].user /\ s.token = ask[a].token /\ s.q = ask[a].q
        /\ s.got = ask[a].got /\ s.counted = 1 /\ s.events = ask[a].events
      BY <1>0, <2>1, <2>2, <2>3 DEF AskTypes
  <2>5. AskOK(s)
      BY <1>2, <2>1, <2>2, <2>4 DEF AskOK, AnswerOK
  <2>6. Set(a, s)
      BY <1>2, <1>4, <2>2, <2>3
  <2> QED
      BY <1>1, <2>4, <2>5, <2>6, NlqSets
<1> QED
    BY <1>3, <1>4 DEF Lookup

(* What a tool adds to an answer.                                          *)
LEMMA ToolAdds ==
    ASSUME NEW r \in AskTypes, NEW tool \in Words, NEW w \in ToolRan(r, tool)
    PROVE  /\ w \in AnswerTypes /\ w.q = r.answer.q /\ w.tools = Append(r.answer.tools, tool)
           /\ w.private \subseteq r.answer.private \cup ({r.user} \ {Anonymous})
<1>0. r.answer \in AnswerTypes /\ r.user \in People \cup {Anonymous}
    BY DEF AskTypes
<1>1. PICK ts : ts = Append(r.answer.tools, tool)
    OBVIOUS
<1>2. ts \in Seq(Words)
    BY <1>0, <1>1, AppendProperties DEF AnswerTypes
<1>3. PICK v : v = [r.answer EXCEPT !.tools = ts]
    OBVIOUS
<1>4. v \in AnswerTypes /\ v.q = r.answer.q /\ v.tools = ts /\ v.private = r.answer.private
    BY <1>0, <1>2, <1>3 DEF AnswerTypes
<1>5. \/ w = v
      \/ w = [v EXCEPT !.actions = Append(@, tool)]
      \/ r.user # Anonymous /\ w = [v EXCEPT !.private = @ \cup {r.user}]
      \/ \E e \in NlqFound : w = [v EXCEPT !.entities = WithEntity(@, e)]
    BY <1>1, <1>3 DEF ToolRan, ToolErrs, DataTool
<1>6. CASE w = v
    BY <1>1, <1>4, <1>6
<1>7. CASE w = [v EXCEPT !.actions = Append(@, tool)]
  <2>1. PICK x : x = Append(v.actions, tool)
      OBVIOUS
  <2>2. x \in Seq(Words)
      BY <1>4, <2>1, AppendProperties DEF AnswerTypes
  <2>3. w = [v EXCEPT !.actions = x]
      BY <1>7, <2>1
  <2> QED
      BY <1>1, <1>4, <2>2, <2>3 DEF AnswerTypes
<1>8. CASE r.user # Anonymous /\ w = [v EXCEPT !.private = @ \cup {r.user}]
    BY <1>0, <1>1, <1>4, <1>8 DEF AnswerTypes
<1>9. ASSUME NEW e \in NlqFound, w = [v EXCEPT !.entities = WithEntity(@, e)]
      PROVE  /\ w \in AnswerTypes /\ w.q = r.answer.q /\ w.tools = Append(r.answer.tools, tool)
             /\ w.private \subseteq r.answer.private \cup ({r.user} \ {Anonymous})
  <2>1. PICK x : x = WithEntity(v.entities, e)
      OBVIOUS
  <2>2. x \in Seq(NlqFound)
      BY <1>4, <2>1, AppendProperties DEF AnswerTypes, WithEntity
  <2>3. w = [v EXCEPT !.entities = x]
      BY <1>9, <2>1
  <2> QED
      BY <1>1, <1>4, <2>2, <2>3 DEF AnswerTypes
<1> QED
    BY <1>5, <1>6, <1>7, <1>8, <1>9

LEMMA EngineStepOK ==
    ASSUME NEW s, s.pc = "engine", s.engine # "none", s.counted = 0, s.got = NoAnswer, AnswerOK(s),
           s.user \in {s.token, Anonymous}, Announced(s)
    PROVE  AskOK(s)
    BY DEF AskOK

(* The engine's loop.                                                      *)
LEMMA NlqEngine ==
    ASSUME NlqInv, NEW a \in Askers,
           ModelReplies(a) \/ IterationsExhausted(a) \/ ModelFails(a) \/ RunTool(a)
    PROVE  NlqInv'
<1>0. ask[a] \in AskTypes /\ AskOK(ask[a]) /\ ask[a].engine = "running" /\ NlqCacheOK
    BY DEF NlqInv, ModelReplies, IterationsExhausted, ModelFails, RunTool
<1>1. NlqCacheOK'
    BY <1>0 DEF NlqCacheOK, ModelReplies, IterationsExhausted, ModelFails, RunTool
<1>2. /\ ask[a].pc = "engine" /\ ask[a].counted = 0 /\ AnswerOK(ask[a]) /\ ask[a].got = NoAnswer
      /\ ask[a].user \in {ask[a].token, Anonymous}
      /\ Announced(ask[a])
    BY <1>0 DEF AskOK
<1>3. ASSUME NEW g \in {"done", "failed"}, Set(a, [ask[a] EXCEPT !.engine = g])
      PROVE  NlqInv'
  <2>1. PICK s : s = [ask[a] EXCEPT !.engine = g]
      OBVIOUS
  <2>2. /\ s \in AskTypes /\ s.pc = "engine" /\ s.engine = g /\ s.answer = ask[a].answer
        /\ s.user = ask[a].user /\ s.token = ask[a].token /\ s.q = ask[a].q /\ s.stream = ask[a].stream
        /\ s.got = ask[a].got /\ s.counted = ask[a].counted /\ s.events = ask[a].events
        /\ s.queue = ask[a].queue
      BY <1>0, <1>2, <2>1 DEF AskTypes
  <2>3. AskOK(s)
    <3>1. Announced(s)
        BY <1>2, <2>2 DEF Announced
    <3>2. AnswerOK(s)
        BY <1>2, <2>2 DEF AnswerOK
    <3> QED
        BY <1>2, <2>2, <3>1, <3>2, EngineStepOK
  <2>4. Set(a, s)
      BY <1>3, <2>1
  <2> QED
      BY <1>1, <2>2, <2>3, <2>4, NlqSets
<1>4. ASSUME NEW made \in ModelCalls, Set(a, [ask[a] EXCEPT !.round = @ + 1, !.calls = made])
      PROVE  NlqInv'
  <2>0. PICK n : n = ask[a].round + 1
      OBVIOUS
  <2>1. PICK s : s = [ask[a] EXCEPT !.round = n, !.calls = made]
      OBVIOUS
  <2>2. /\ s \in AskTypes /\ s.pc = "engine" /\ s.engine = "running" /\ s.answer = ask[a].answer
        /\ s.user = ask[a].user /\ s.token = ask[a].token /\ s.q = ask[a].q /\ s.stream = ask[a].stream
        /\ s.got = ask[a].got /\ s.counted = ask[a].counted /\ s.events = ask[a].events
        /\ s.queue = ask[a].queue
    <3>1. n \in Nat /\ made \in Seq(Words)
        BY <1>0, <2>0, WordsAreTyped DEF AskTypes
    <3> QED
        BY <1>0, <1>2, <2>1, <3>1 DEF AskTypes
  <2>3. AskOK(s)
    <3>1. Announced(s)
        BY <1>2, <2>2 DEF Announced
    <3>2. AnswerOK(s)
        BY <1>2, <2>2 DEF AnswerOK
    <3> QED
        BY <1>2, <2>2, <3>1, <3>2, EngineStepOK
  <2>4. Set(a, s)
      BY <1>4, <2>0, <2>1
  <2> QED
      BY <1>1, <2>2, <2>3, <2>4, NlqSets
<1>5. CASE RunTool(a)
  <2>1. PICK tool : tool = Head(ask[a].calls)
      OBVIOUS
  <2>2. PICK w \in ToolRan(ask[a], tool) :
           Set(a, [ask[a] EXCEPT !.calls = Tail(@), !.answer = w,
                                 !.queue = IF ask[a].stream THEN Append(@, tool) ELSE @])
      BY <1>5, <2>1 DEF RunTool
  <2>3. ask[a].calls \in Seq(Words) /\ ask[a].queue \in Seq(Words) /\ ask[a].events \in Seq(Words)
        /\ ask[a].calls # <<>>
      BY <1>0, <1>5 DEF AskTypes, RunTool
  <2>4. tool \in Words /\ Tail(ask[a].calls) \in Seq(Words)
      BY <2>1, <2>3, HeadTailProperties
  <2>5. /\ w \in AnswerTypes /\ w.q = ask[a].answer.q /\ w.tools = Append(ask[a].answer.tools, tool)
        /\ w.private \subseteq ask[a].answer.private \cup ({ask[a].user} \ {Anonymous})
      BY <1>0, <2>2, <2>4, ToolAdds
  <2>6. PICK rest : rest = Tail(ask[a].calls)
      OBVIOUS
  <2>7. PICK queue : queue = IF ask[a].stream THEN Append(ask[a].queue, tool) ELSE ask[a].queue
      OBVIOUS
  <2>8. queue \in Seq(Words) /\ rest \in Seq(Words)
      BY <2>3, <2>4, <2>6, <2>7, AppendProperties
  <2>9. PICK s : s = [ask[a] EXCEPT !.calls = rest, !.answer = w, !.queue = queue]
      OBVIOUS
  <2>10. /\ s \in AskTypes /\ s.pc = "engine" /\ s.engine = "running" /\ s.answer = w
         /\ s.user = ask[a].user /\ s.token = ask[a].token /\ s.q = ask[a].q /\ s.stream = ask[a].stream
         /\ s.got = ask[a].got /\ s.counted = ask[a].counted /\ s.events = ask[a].events
         /\ s.queue = queue
      BY <1>0, <1>2, <2>5, <2>8, <2>9 DEF AskTypes
  <2>11. Announced(s)
    <3>1. ask[a].stream => Append(ask[a].answer.tools, tool) = ask[a].events \o Append(ask[a].queue, tool)
      <4>1. PICK e \in Seq(Words), q \in Seq(Words) : e = ask[a].events /\ q = ask[a].queue
          BY <2>3
      <4>2. Append(e \o q, tool) = e \o Append(q, tool)
          BY <2>4, AppendToConcat, Zenon
      <4> QED
          BY <1>2, <4>1, <4>2 DEF Announced
    <3> QED
        BY <2>5, <2>7, <2>10, <3>1 DEF Announced
  <2>12. AnswerOK(s)
      BY <1>2, <2>5, <2>10 DEF AnswerOK
  <2>13. AskOK(s)
      BY <1>2, <2>10, <2>11, <2>12, EngineStepOK
  <2>14. Set(a, s)
      BY <2>2, <2>6, <2>7, <2>9
  <2> QED
      BY <1>1, <2>10, <2>13, <2>14, NlqSets
<1> QED
    BY <1>3, <1>4, <1>5 DEF ModelReplies, IterationsExhausted, ModelFails

(* What is stored is an answer of a public question.                       *)
LEMMA StoringIsPublic ==
    ASSUME NlqInv, NEW a \in Askers, AnswerOK(ask[a]), StoreAnswer(ask[a])
    PROVE  NlqCacheOK'
<1>0. ask[a] \in AskTypes /\ NlqCacheOK
    BY DEF NlqInv
<1>1. CASE nlqCache' = nlqCache
    BY <1>0, <1>1 DEF NlqCacheOK
<1>2. CASE nlqCache' = Stored(ask[a])
  <2>1. CASE ask[a].user = Anonymous
    <3>1. PICK e : e = [key |-> CacheKey(ask[a].q), answer |-> ask[a].answer]
        OBVIOUS
    <3>2. e.answer \in AnswerTypes /\ e.answer.private = {} /\ CacheKey(e.answer.q) = e.key
        BY <1>0, <2>1, <3>1 DEF AskTypes, AnswerOK
    <3>3. nlqCache' = {d \in nlqCache : d.key # CacheKey(ask[a].q)} \cup {e}
        BY <1>2, <2>1, <3>1 DEF Stored
    <3> QED
        BY <1>0, <3>2, <3>3 DEF NlqCacheOK
  <2>2. CASE ask[a].user # Anonymous
      BY <1>0, <1>2, <2>2 DEF Stored, NlqCacheOK
  <2> QED
      BY <2>1, <2>2
<1> QED
    BY <1>1, <1>2 DEF StoreAnswer

(* A request that is answered got what its engine or the cache answered.   *)
LEMMA GotIsOwn ==
    ASSUME NEW r \in AskTypes, AskOK(r), AnswerOK(r)
    PROVE  r.answer.q = r.q /\ r.answer.private \subseteq {r.token} \ {Anonymous}
    BY DEF AskOK, AnswerOK

LEMMA ClosedStepOK ==
    ASSUME NEW s, s.pc = "closed", s.engine # "running", s.counted \in {0, 1},
           s.user \in {s.token, Anonymous}, s.got # NoAnswer => Delivered(s)
    PROVE  AskOK(s)
    BY DEF AskOK

(* The JSON answer.                                                        *)
LEMMA NlqAnswersJson ==
    ASSUME NlqInv, NEW a \in Askers, AnswerJson(a)
    PROVE  NlqInv'
<1>0. ask[a] \in AskTypes /\ AskOK(ask[a]) /\ NlqCacheOK /\ ~ask[a].stream
    BY DEF NlqInv, AnswerJson
<1>1. ask[a].pc \in {"replay", "engine"} /\ AnswerOK(ask[a]) /\ ask[a].got = NoAnswer
      /\ ask[a].engine # "running" /\ ask[a].user \in {ask[a].token, Anonymous}
      /\ ask[a].counted = IF ask[a].pc = "replay" THEN 1 ELSE 0
    BY <1>0 DEF AskOK, AnswerJson
<1>2. NlqCacheOK'
  <2>1. CASE nlqCache' = nlqCache
      BY <1>0, <2>1 DEF NlqCacheOK
  <2>2. CASE StoreAnswer(ask[a])
      BY <1>1, <2>2, StoringIsPublic
  <2> QED
      BY <2>1, <2>2 DEF AnswerJson
<1>3. PICK w \in {ask[a].got, ask[a].answer}, n \in {1} :
         Set(a, [ask[a] EXCEPT !.pc = "closed", !.got = w, !.counted = n])
  <2>0. ask[a].counted \in Nat
      BY <1>0 DEF AskTypes
  <2>1. CASE ask[a].pc = "replay"
    <3>1. Set(a, [ask[a] EXCEPT !.pc = "closed", !.got = ask[a].answer])
        BY <2>1 DEF AnswerJson
    <3>2. [ask[a] EXCEPT !.pc = "closed", !.got = ask[a].answer, !.counted = 1]
            = [ask[a] EXCEPT !.pc = "closed", !.got = ask[a].answer]
        BY <1>0, <1>1, <2>1 DEF AskTypes
    <3> QED
        BY <3>1, <3>2
  <2>2. CASE ask[a].pc = "engine" /\ ask[a].engine = "done"
      BY <1>1, <2>2 DEF AnswerJson
  <2>3. CASE ask[a].pc = "engine" /\ ask[a].engine = "failed"
    <3>1. Set(a, [ask[a] EXCEPT !.pc = "closed", !.counted = 1])
        BY <1>1, <2>3 DEF AnswerJson
    <3>2. [ask[a] EXCEPT !.pc = "closed", !.got = ask[a].got, !.counted = 1]
            = [ask[a] EXCEPT !.pc = "closed", !.counted = 1]
        BY <1>0 DEF AskTypes
    <3> QED
        BY <3>1, <3>2
  <2> QED
      BY <1>1, <2>1, <2>2, <2>3 DEF AnswerJson
<1>4. PICK s : s = [ask[a] EXCEPT !.pc = "closed", !.got = w, !.counted = n]
    OBVIOUS
<1>5. /\ s \in AskTypes /\ s.pc = "closed" /\ s.engine = ask[a].engine /\ s.got = w /\ s.counted = 1
      /\ s.user = ask[a].user /\ s.token = ask[a].token /\ s.q = ask[a].q /\ s.stream = ask[a].stream
  <2>1. w \in AnswerTypes /\ n = 1
      BY <1>0, <1>3 DEF AskTypes
  <2> QED
      BY <1>0, <1>4, <2>1 DEF AskTypes
<1>6. s.got # NoAnswer => Delivered(s)
    BY <1>0, <1>1, <1>3, <1>5, GotIsOwn DEF Delivered
<1>7. AskOK(s)
    BY <1>1, <1>5, <1>6, ClosedStepOK
<1>8. Set(a, s)
    BY <1>3, <1>4
<1> QED
    BY <1>2, <1>5, <1>7, <1>8, NlqSets

(* The status events, and the outcome once they are out.                   *)
LEMMA NlqStreams ==
    ASSUME NlqInv, NEW a \in Askers, SendStatus(a) \/ SendOutcome(a)
    PROVE  NlqInv'
<1>0. ask[a] \in AskTypes /\ AskOK(ask[a]) /\ ask[a].pc = "engine" /\ NlqCacheOK
    BY DEF NlqInv, SendStatus, SendOutcome
<1>1. NlqCacheOK'
    BY <1>0 DEF NlqCacheOK, SendStatus, SendOutcome
<1>2. /\ ask[a].counted = 0 /\ AnswerOK(ask[a]) /\ ask[a].got = NoAnswer
      /\ ask[a].user \in {ask[a].token, Anonymous} /\ ask[a].engine # "none"
      /\ Announced(ask[a])
    BY <1>0 DEF AskOK
<1>3. PICK e \in Seq(Words), q \in Seq(Words), ts \in Seq(Words) :
         e = ask[a].events /\ q = ask[a].queue /\ ts = ask[a].answer.tools
    BY <1>0 DEF AskTypes, AnswerTypes
<1>4. CASE SendStatus(a)
  <2>1. q # <<>> /\ Set(a, [ask[a] EXCEPT !.queue = Tail(q), !.events = Append(e, Head(q))])
      BY <1>3, <1>4 DEF SendStatus
  <2>2. PICK rest, sent : rest = Tail(q) /\ sent = Append(e, Head(q))
      OBVIOUS
  <2>3. rest \in Seq(Words) /\ sent \in Seq(Words)
      BY <2>1, <2>2, HeadTailProperties, AppendProperties
  <2>4. sent \o rest = e \o q
      BY <2>1, <2>2, HeadMovesOver, Zenon
  <2>5. PICK s : s = [ask[a] EXCEPT !.queue = rest, !.events = sent]
      OBVIOUS
  <2>6. /\ s \in AskTypes /\ s.pc = "engine" /\ s.engine = ask[a].engine /\ s.answer = ask[a].answer
        /\ s.user = ask[a].user /\ s.token = ask[a].token /\ s.q = ask[a].q /\ s.stream = ask[a].stream
        /\ s.got = ask[a].got /\ s.counted = ask[a].counted /\ s.events = sent /\ s.queue = rest
      BY <1>0, <2>3, <2>5 DEF AskTypes
  <2>7. Announced(s)
      BY <1>2, <1>3, <2>4, <2>6 DEF Announced
  <2>8. AskOK(s)
    <3>1. AnswerOK(s)
        BY <1>2, <2>6 DEF AnswerOK
    <3> QED
        BY <1>2, <2>6, <2>7, <3>1, EngineStepOK
  <2>9. Set(a, s)
      BY <2>1, <2>2, <2>5
  <2> QED
      BY <1>1, <2>6, <2>8, <2>9, NlqSets
<1>5. CASE SendOutcome(a) /\ ask[a].engine = "failed"
  <2>1. Set(a, [ask[a] EXCEPT !.pc = "closed", !.events = Append(e, "error"), !.counted = 1])
      BY <1>2, <1>3, <1>5 DEF SendOutcome
  <2>2. PICK sent : sent = Append(e, "error")
      OBVIOUS
  <2>3. sent \in Seq(Words)
      BY <2>2, WordsAreTyped, AppendProperties
  <2>4. PICK s : s = [ask[a] EXCEPT !.pc = "closed", !.events = sent, !.counted = 1]
      OBVIOUS
  <2>5. /\ s \in AskTypes /\ s.pc = "closed" /\ s.engine = "failed" /\ s.counted = 1
        /\ s.user = ask[a].user /\ s.token = ask[a].token /\ s.got = NoAnswer
      BY <1>0, <1>2, <1>5, <2>3, <2>4 DEF AskTypes
  <2>6. AskOK(s)
      BY <1>2, <2>5, ClosedStepOK
  <2>7. Set(a, s)
      BY <2>1, <2>2, <2>4
  <2> QED
      BY <1>1, <2>5, <2>6, <2>7, NlqSets
<1>6. CASE SendOutcome(a) /\ ask[a].engine = "done"
  <2>1. /\ Set(a, [ask[a] EXCEPT !.pc = "result", !.events = Append(e, "actions"), !.counted = 1])
        /\ ask[a].stream /\ q = <<>>
      BY <1>2, <1>3, <1>6 DEF SendOutcome, Drained
  <2>2. e = ts
    <3>1. ts = e \o q
        BY <1>2, <1>3, <2>1 DEF Announced
    <3>2. e \o <<>> = e
        BY ConcatEmptySeq
    <3> QED
        BY <2>1, <3>1, <3>2
  <2>3. PICK sent : sent = Append(e, "actions")
      OBVIOUS
  <2>4. sent \in Seq(Words)
      BY <2>3, WordsAreTyped, AppendProperties
  <2>5. PICK s : s = [ask[a] EXCEPT !.pc = "result", !.events = sent, !.counted = 1]
      OBVIOUS
  <2>6. /\ s \in AskTypes /\ s.pc = "result" /\ s.engine = "done" /\ s.counted = 1
        /\ s.user = ask[a].user /\ s.token = ask[a].token /\ s.got = NoAnswer /\ s.events = sent
        /\ s.answer = ask[a].answer /\ s.q = ask[a].q
      BY <1>0, <1>2, <1>6, <2>4, <2>5 DEF AskTypes
  <2>7. s.events = Append(s.answer.tools, "actions")
      BY <1>3, <2>2, <2>3, <2>6
  <2>8. AskOK(s)
      BY <1>2, <2>6, <2>7 DEF AskOK, AnswerOK
  <2>9. Set(a, s)
      BY <2>1, <2>3, <2>5
  <2> QED
      BY <1>1, <2>6, <2>8, <2>9, NlqSets
<1> QED
    BY <1>4, <1>5, <1>6 DEF SendOutcome

(* The result, of the engine or of the cache.                              *)
LEMMA NlqDelivers ==
    ASSUME NlqInv, NEW a \in Askers, SendResult(a) \/ Replay(a)
    PROVE  NlqInv'
<1>0. ask[a] \in AskTypes /\ AskOK(ask[a]) /\ NlqCacheOK /\ ask[a].pc \in {"result", "replay"}
    BY DEF NlqInv, SendResult, Replay
<1>1. /\ ask[a].counted = 1 /\ AnswerOK(ask[a]) /\ ask[a].got = NoAnswer
      /\ ask[a].user \in {ask[a].token, Anonymous} /\ ask[a].engine # "running"
    BY <1>0 DEF AskOK
<1>2. NlqCacheOK'
  <2>1. CASE SendResult(a)
      BY <1>1, <2>1, StoringIsPublic DEF SendResult
  <2>2. CASE Replay(a)
      BY <1>0, <2>2 DEF NlqCacheOK, Replay
  <2> QED
      BY <2>1, <2>2
<1>3. PICK e \in Seq(Words), ts \in Seq(Words), w \in AnswerTypes :
         e = ask[a].events /\ ts = ask[a].answer.tools /\ w = ask[a].answer
    BY <1>0 DEF AskTypes, AnswerTypes
<1>4. PICK sent : sent = Append(e, "result")
    OBVIOUS
<1>5. sent \in Seq(Words)
    BY <1>4, WordsAreTyped, AppendProperties
<1>6. PICK s : s = [ask[a] EXCEPT !.pc = "closed", !.events = sent, !.got = w]
    OBVIOUS
<1>7. /\ s \in AskTypes /\ s.pc = "closed" /\ s.engine = ask[a].engine /\ s.counted = 1
      /\ s.user = ask[a].user /\ s.token = ask[a].token /\ s.got = w /\ s.events = sent
      /\ s.answer = w /\ s.q = ask[a].q
  <2>1. s \in AskTypes
      BY <1>0, <1>3, <1>5, <1>6 DEF AskTypes
  <2> QED
      BY <1>0, <1>1, <1>3, <1>6, <2>1 DEF AskTypes
<1>8. w.q = s.q /\ w.private \subseteq {s.token} \ {Anonymous}
    BY <1>0, <1>1, <1>3, <1>7, GotIsOwn
<1>9. CASE SendResult(a)
  <2>1. ask[a].pc = "result" /\ Set(a, [ask[a] EXCEPT !.pc = "closed", !.events = Append(e, "result"), !.got = w])
      BY <1>3, <1>9 DEF SendResult
  <2>2. s.engine # "none" /\ e = Append(ts, "actions")
      BY <1>0, <1>3, <1>7, <2>1 DEF AskOK
  <2>3. sent = ts \o <<"actions", "result">>
      BY <1>4, <2>2, WordsAreTyped, TwoAppended
  <2>4. Delivered(s)
      BY <1>3, <1>7, <1>8, <2>2, <2>3 DEF Delivered
  <2>5. AskOK(s)
      BY <1>1, <1>7, <2>4, ClosedStepOK
  <2>6. Set(a, s)
      BY <1>4, <1>6, <2>1
  <2> QED
      BY <1>2, <1>7, <2>5, <2>6, NlqSets
<1>10. CASE Replay(a) /\ e = <<>>
  <2>1. ask[a].pc = "replay" /\ Set(a, [ask[a] EXCEPT !.events = <<"actions">>])
      BY <1>3, <1>10 DEF Replay
  <2>2. PICK one : one = <<"actions">>
      OBVIOUS
  <2>3. one \in Seq(Words)
      BY <2>2, WordsAreTyped
  <2>4. PICK x : x = [ask[a] EXCEPT !.events = one]
      OBVIOUS
  <2>5. /\ x \in AskTypes /\ x.pc = "replay" /\ x.engine = "none" /\ x.counted = 1
        /\ x.user = ask[a].user /\ x.token = ask[a].token /\ x.got = NoAnswer /\ x.events = one
        /\ x.answer = ask[a].answer /\ x.q = ask[a].q
    <3>1. ask[a].engine = "none"
        BY <1>0, <2>1 DEF AskOK
    <3>2. x \in AskTypes
        BY <1>0, <2>3, <2>4 DEF AskTypes
    <3> QED
        BY <1>0, <1>1, <2>1, <2>4, <3>1, <3>2 DEF AskTypes
  <2>6. AskOK(x)
      BY <1>1, <2>2, <2>5 DEF AskOK, AnswerOK
  <2>7. Set(a, x)
      BY <2>1, <2>2, <2>4
  <2> QED
      BY <1>2, <2>5, <2>6, <2>7, NlqSets
<1>11. CASE Replay(a) /\ e # <<>>
  <2>1. ask[a].pc = "replay" /\ Set(a, [ask[a] EXCEPT !.pc = "closed", !.events = Append(e, "result"), !.got = w])
      BY <1>3, <1>11 DEF Replay
  <2>2. s.engine = "none" /\ e = <<"actions">>
      BY <1>0, <1>3, <1>7, <1>11, <2>1 DEF AskOK
  <2>3. sent = <<>> \o <<"actions", "result">>
    <3>1. <<"actions">> = Append(<<>>, "actions") /\ <<>> \in Seq(Words)
        OBVIOUS
    <3>2. Append(Append(<<>>, "actions"), "result") = <<>> \o <<"actions", "result">>
        BY <3>1, WordsAreTyped, TwoAppended
    <3> QED
        BY <1>4, <2>2, <3>1, <3>2
  <2>4. Delivered(s)
      BY <1>7, <1>8, <2>2, <2>3 DEF Delivered
  <2>5. AskOK(s)
      BY <1>1, <1>7, <2>4, ClosedStepOK
  <2>6. Set(a, s)
      BY <1>4, <1>6, <2>1
  <2> QED
      BY <1>2, <1>7, <2>5, <2>6, NlqSets
<1> QED
    BY <1>9, <1>10, <1>11 DEF Replay

(* The client goes.                                                        *)
LEMMA NlqDisconnects ==
    ASSUME NlqInv, NEW a \in Askers, Disconnect(a)
    PROVE  NlqInv'
<1>0. ask[a] \in AskTypes /\ AskOK(ask[a]) /\ ask[a].pc \in {"engine", "result", "replay"}
    BY DEF NlqInv, Disconnect
<1>1. NlqCacheOK'
    BY DEF NlqInv, NlqCacheOK, Disconnect
<1>2. ask[a].counted \in {0, 1} /\ ask[a].got = NoAnswer /\ ask[a].user \in {ask[a].token, Anonymous}
    BY <1>0 DEF AskOK
<1>3. PICK g : g = IF ask[a].engine = "running" THEN "cancelled" ELSE ask[a].engine
    OBVIOUS
<1>4. g \in {"none", "done", "failed", "cancelled"}
    BY <1>0, <1>3 DEF AskTypes
<1>5. PICK none : none = <<>>
    OBVIOUS
<1>6. PICK s : s = [ask[a] EXCEPT !.pc = "closed", !.calls = none, !.engine = g]
    OBVIOUS
<1>7. /\ s \in AskTypes /\ s.pc = "closed" /\ s.engine = g /\ s.counted = ask[a].counted
      /\ s.user = ask[a].user /\ s.token = ask[a].token /\ s.got = NoAnswer
  <2>1. none \in Seq(Words)
      BY <1>5, EmptySeq
  <2>2. s \in AskTypes
      BY <1>0, <1>4, <1>6, <2>1 DEF AskTypes
  <2> QED
      BY <1>0, <1>2, <1>6, <2>2 DEF AskTypes
<1>8. AskOK(s)
    BY <1>2, <1>4, <1>7, ClosedStepOK
<1>9. Set(a, s)
    BY <1>3, <1>5, <1>6 DEF Disconnect
<1> QED
    BY <1>1, <1>7, <1>8, <1>9, NlqSets

LEMMA NlqStep == NlqInv /\ [NlqNext]_nlqVars => NlqInv'
<1> SUFFICES ASSUME NlqInv, [NlqNext]_nlqVars
             PROVE  NlqInv'
    OBVIOUS
<1>1. CASE UNCHANGED nlqVars
    BY <1>1 DEF nlqVars, NlqInv, NlqCacheOK
<1>2. CASE \E u \in People : Revoke(u)
    BY <1>2 DEF Revoke, NlqInv, NlqCacheOK
<1>3. CASE AnswerExpires
    BY <1>3 DEF AnswerExpires, NlqInv, NlqCacheOK
<1> QED
    BY <1>1, <1>2, <1>3, NlqArrives, NlqLooksUp, NlqEngine, NlqAnswersJson, NlqStreams,
       NlqDelivers, NlqDisconnects DEF NlqNext

LEMMA NlqInvImplies == NlqInv => StreamIsWellFormed /\ AnswersAreTheAskers
<1> SUFFICES ASSUME NlqInv
             PROVE  StreamIsWellFormed /\ AnswersAreTheAskers
    OBVIOUS
<1>1. ASSUME NEW a \in Askers
      PROVE  /\ ask[a].counted <= 1 /\ (ask[a].pc = "closed" => ask[a].engine # "running")
             /\ ask[a].got # NoAnswer => Delivered(ask[a])
    BY DEF NlqInv, AskOK
<1>2. StreamIsWellFormed
    BY <1>1 DEF StreamIsWellFormed, Delivered
<1>3. AnswersAreTheAskers
    BY <1>1 DEF AnswersAreTheAskers, Delivered, NlqInv, NlqCacheOK
<1> QED
    BY <1>2, <1>3

(* What streams, engines and the shared cache hold, whatever the model     *)
(* calls and wherever clients leave (nlq/engine.py, routers/nlq.py).       *)
THEOREM NlqInvariant == Spec => []NlqInv
<1>1. Init => NlqInv
    BY NlqInitInv DEF Init
<1>2. NlqInv /\ [Next]_serviceVars => NlqInv'
  <2> SUFFICES ASSUME NlqInv, [Next]_serviceVars
               PROVE  NlqInv'
      OBVIOUS
  <2>1. [NlqNext]_nlqVars
      BY DEF Next, RestOf, serviceVars
  <2> QED
      BY <2>1, NlqStep
<1> QED
    BY <1>1, <1>2, PTL DEF Spec

(* A stream that reaches its result has shown every tool that ran, in      *)
(* order, then the actions, then the result; an outcome is counted once;   *)
(* and a closed request leaves no engine running: for any number of        *)
(* requests, any model and any tools (nlq.py, _stream_response).           *)
THEOREM StreamsAreWellFormed == Spec => []StreamIsWellFormed
<1>1. NlqInv => StreamIsWellFormed
    BY NlqInvImplies
<1> QED
    BY <1>1, NlqInvariant, PTL

-----------------------------------------------------------------------------
(* DiscogsLink: a connection is of a flow its own user started, or of one  *)
(* whose stored state named nobody.                                        *)
Namers == Owners \cup {NoOwner, Unnamed}

LinkTypes == [flow : Nat, account : Accounts \cup {"none"}]

IssuedTypes ==
    [pair : Nat \X Nat, account : Accounts \cup {"none"}, used : BOOLEAN, by : Namers]

OauthCallTypes ==
    [pc : {"idle", "request", "store", "consume", "exchange", "identity", "persist"},
     user : Namers, flow : Nat, pair : Nat \X Nat, link : LinkTypes]

OauthTypes ==
    /\ app_config \in [pair : Nat, readable : BOOLEAN]
    /\ oauth_state \in [FlowIds -> Namers]
    /\ issued \in [FlowIds -> IssuedTypes]
    /\ oauth_tokens \in [Owners -> LinkTypes]
    /\ oauthCall \in [OauthCalls -> OauthCallTypes]
    /\ flowsSpent \in [FlowIds -> {0, 1}]
    /\ flows \in 0..MaxFlows

(* A flow: while the service remembers it, it names whom the history says  *)
(* and has not been spent; a flow to come has left no trace.               *)
FlowOK(s) ==
    /\ oauth_state[s] # NoOwner => flowsSpent[s] = 0 /\ issued[s].by = oauth_state[s]
    /\ s > flows => oauth_state[s] = NoOwner /\ flowsSpent[s] = 0

(* A request by the step it is at.                                         *)
OauthCallOK(c) ==
    LET r == oauthCall[c] IN
    /\ r.pair[1] = r.pair[2]
    /\ r.pc # "idle" => r.user \in Owners \cup {Unnamed}
    /\ r.pc \in {"consume", "exchange", "identity", "persist"} => r.user \in Owners
    /\ r.pc \in {"store", "consume", "exchange", "identity", "persist"} => r.flow \in 1..flows
    /\ r.pc = "store" => flowsSpent[r.flow] = 0 /\ oauth_state[r.flow] = NoOwner
    /\ r.pc = "store" => issued[r.flow].by = r.user
    /\ r.pc \in {"exchange", "identity", "persist"} => issued[r.flow].by \in {r.user, Unnamed}
    /\ r.pc \in {"identity", "persist"} => issued[r.flow].account # "none"
    /\ r.pc = "persist" => r.link = [flow |-> r.flow, account |-> issued[r.flow].account]

(* No two requests are about to store the same state.                      *)
StoresDiffer ==
    \A c, d \in OauthCalls :
        c # d /\ oauthCall[c].pc = "store" /\ oauthCall[d].pc = "store" =>
            oauthCall[c].flow # oauthCall[d].flow

(* A connection by the flow it came from.                                  *)
LinkOK(u) ==
    oauth_tokens[u] # NoLink =>
        /\ oauth_tokens[u].flow \in 1..flows
        /\ issued[oauth_tokens[u].flow].by \in {u, Unnamed}
        /\ issued[oauth_tokens[u].flow].account = oauth_tokens[u].account
        /\ oauth_tokens[u].account # "none"

OauthInv ==
    /\ OauthTypes
    /\ \A s \in FlowIds : FlowOK(s)
    /\ \A c \in OauthCalls : OauthCallOK(c)
    /\ StoresDiffer
    /\ \A u \in Owners : LinkOK(u)

LEMMA OauthInitInv == OauthInit => OauthInv
<1> SUFFICES ASSUME OauthInit
             PROVE  OauthInv
    OBVIOUS
<1>1. /\ NotIssued \in IssuedTypes /\ NoLink \in LinkTypes /\ NoOauthCall \in OauthCallTypes
      /\ NoOauthCall.pc = "idle" /\ NoOauthCall.pair[1] = NoOauthCall.pair[2]
    BY DEF NotIssued, IssuedTypes, NoLink, LinkTypes, NoOauthCall, OauthCallTypes, Namers
<1>2. OauthTypes
    BY <1>1, OauthBounds DEF OauthInit, OauthTypes, Namers
<1>3. (\A s \in FlowIds : FlowOK(s)) /\ (\A c \in OauthCalls : OauthCallOK(c)) /\ StoresDiffer
    BY <1>1 DEF OauthInit, FlowOK, OauthCallOK, StoresDiffer
<1>4. \A u \in Owners : LinkOK(u)
    BY DEF OauthInit, LinkOK
<1> QED
    BY <1>2, <1>3, <1>4 DEF OauthInv

(* A request that ends or goes on with the rest unchanged.                 *)
LEMMA CallMovesOn ==
    ASSUME OauthInv, NEW c \in OauthCalls, NEW r \in OauthCallTypes,
           oauthCall' = [oauthCall EXCEPT ![c] = r],
           r.pc # "store",
           UNCHANGED <<app_config, oauth_state, issued, oauth_tokens, flowsSpent, flows>>,
           OauthCallOK(c)'
    PROVE  OauthInv'
<1>1. /\ app_config' = app_config /\ oauth_state' = oauth_state /\ issued' = issued
      /\ oauth_tokens' = oauth_tokens /\ flowsSpent' = flowsSpent /\ flows' = flows
    OBVIOUS
<1>2. oauthCall \in [OauthCalls -> OauthCallTypes]
    BY DEF OauthInv, OauthTypes
<1>3. OauthTypes'
    BY <1>1, <1>2 DEF OauthInv, OauthTypes
<1>4. (\A s \in FlowIds : FlowOK(s)') /\ (\A u \in Owners : LinkOK(u)')
    BY <1>1 DEF OauthInv, FlowOK, LinkOK
<1>5. \A d \in OauthCalls : OauthCallOK(d)'
  <2>1. ASSUME NEW d \in OauthCalls, d # c
        PROVE  OauthCallOK(d)'
    <3>1. oauthCall'[d] = oauthCall[d] /\ OauthCallOK(d)
        BY <1>2, <2>1 DEF OauthInv
    <3> QED
        BY <1>1, <3>1 DEF OauthCallOK
  <2> QED
      BY <2>1
<1>6. StoresDiffer'
    BY <1>2 DEF OauthInv, StoresDiffer
<1> QED
    BY <1>3, <1>4, <1>5, <1>6 DEF OauthInv

LEMMA NoCallIsFine ==
    /\ NoOauthCall \in OauthCallTypes
    /\ NoOauthCall.pc = "idle" /\ NoOauthCall.pair[1] = NoOauthCall.pair[2]
    BY DEF NoOauthCall, OauthCallTypes, NoLink, LinkTypes, Namers

(* The request and the rest as it finds them.                              *)
LEMMA CallLeaves ==
    ASSUME OauthInv, NEW c \in OauthCalls, Leaves(c),
           UNCHANGED <<app_config, oauth_state, issued, oauth_tokens, flowsSpent, flows>>
    PROVE  OauthInv'
<1>1. oauthCall' = [oauthCall EXCEPT ![c] = NoOauthCall]
    BY DEF Leaves
<1>2. oauthCall'[c] = NoOauthCall
    BY <1>1 DEF OauthInv, OauthTypes
<1>3. OauthCallOK(c)'
    BY <1>2, NoCallIsFine DEF OauthCallOK
<1> QED
    BY <1>1, <1>3, NoCallIsFine, CallMovesOn

LEMMA OauthBegins ==
    ASSUME OauthInv, NEW c \in OauthCalls, NEW u \in Owners,
           AuthorizeDiscogs(c, u) \/ \E s \in FlowIds : VerifyDiscogs(c, u, s)
    PROVE  OauthInv'
<1>1. PICK pc \in {"request", "consume"}, f \in Nat, w \in Owners \cup {Unnamed} :
         Begins(c, w, pc, f) /\ (pc = "consume" => f \in 1..flows /\ w \in Owners)
    BY DEF AuthorizeDiscogs, VerifyDiscogs, FlowIds, OauthInv, OauthTypes
<1>2. PICK p : p = <<app_config.pair, app_config.pair>>
    OBVIOUS
<1>3. p \in Nat \X Nat /\ p[1] = p[2]
    BY <1>2 DEF OauthInv, OauthTypes
<1>4. PICK r : r = [pc |-> pc, user |-> w, flow |-> f, pair |-> p, link |-> NoLink]
    OBVIOUS
<1>5. /\ r \in OauthCallTypes /\ r.pc = pc /\ r.user = w /\ r.flow = f /\ r.pair = p
    BY <1>3, <1>4 DEF OauthCallTypes, Namers, NoLink, LinkTypes
<1>6. oauthCall' = [oauthCall EXCEPT ![c] = r]
      /\ UNCHANGED <<app_config, oauth_state, issued, oauth_tokens, flowsSpent, flows>>
    BY <1>1, <1>2, <1>4 DEF Begins, PairsSeen
<1>7. oauthCall'[c] = r /\ flows' = flows
    BY <1>6 DEF OauthInv, OauthTypes
<1>8. OauthCallOK(c)'
    BY <1>1, <1>3, <1>5, <1>7 DEF OauthCallOK
<1> QED
    BY <1>5, <1>6, <1>8, CallMovesOn

(* A request token is issued, and its state stored.                        *)
LEMMA OauthRequests ==
    ASSUME OauthInv, NEW c \in OauthCalls, RequestOauthToken(c)
    PROVE  OauthInv'
<1>0. /\ oauthCall[c] \in OauthCallTypes /\ OauthCallOK(c) /\ oauthCall[c].pc = "request"
      /\ oauthCall \in [OauthCalls -> OauthCallTypes] /\ issued \in [FlowIds -> IssuedTypes]
      /\ flows \in 0..MaxFlows
    BY DEF OauthInv, OauthTypes, RequestOauthToken
<1>1. CASE Leaves(c) /\ UNCHANGED <<issued, flows>>
    BY <1>1, CallLeaves DEF RequestOauthToken
<1>2. CASE flows < MaxFlows /\ flows' = flows + 1
  <2>1. PICK n \in FlowIds : n = flows + 1
      BY <1>0, <1>2, OauthBounds DEF FlowIds
  <2>2. PICK i : i = [NotIssued EXCEPT !.pair = oauthCall[c].pair, !.by = oauthCall[c].user]
      OBVIOUS
  <2>3. i \in IssuedTypes /\ i.by = oauthCall[c].user
      BY <1>0, <2>2 DEF IssuedTypes, NotIssued, OauthCallTypes
  <2>4. PICK r : r = [oauthCall[c] EXCEPT !.pc = "store", !.flow = n]
      OBVIOUS
  <2>5. /\ r \in OauthCallTypes /\ r.pc = "store" /\ r.flow = n /\ r.user = oauthCall[c].user
        /\ r.pair = oauthCall[c].pair
    <3>1. n \in Nat
        BY <2>1 DEF FlowIds
    <3>2. r \in OauthCallTypes
        BY <1>0, <2>4, <3>1 DEF OauthCallTypes
    <3> QED
        BY <1>0, <2>4, <3>2 DEF OauthCallTypes
  <2>6. /\ issued' = [issued EXCEPT ![n] = i] /\ oauthCall' = [oauthCall EXCEPT ![c] = r]
        /\ app_config' = app_config /\ oauth_state' = oauth_state
        /\ oauth_tokens' = oauth_tokens /\ flowsSpent' = flowsSpent
    <3>1. flows' # flows
        BY <1>0, <1>2 DEF FlowIds
    <3>2. ~UNCHANGED <<issued, flows>>
        BY <3>1
    <3>3. issued' = [issued EXCEPT ![flows + 1] =
                        [NotIssued EXCEPT !.pair = oauthCall[c].pair, !.by = oauthCall[c].user]]
          /\ oauthCall' = [oauthCall EXCEPT ![c].pc = "store", ![c].flow = flows + 1]
        BY <3>2 DEF RequestOauthToken
    <3>4. issued' = [issued EXCEPT ![n] = i]
        BY <2>1, <2>2, <3>3
    <3>5. oauthCall' = [oauthCall EXCEPT ![c] = r]
        BY <1>0, <2>1, <2>4, <3>3
    <3> QED
        BY <3>4, <3>5 DEF RequestOauthToken
  <2>7. FlowOK(n) /\ n > flows /\ n \notin 1..flows
      BY <1>0, <2>1 DEF OauthInv
  <2>8. /\ issued'[n] = i /\ oauthCall'[c] = r
        /\ (\A s \in FlowIds \ {n} : issued'[s] = issued[s])
        /\ (\A d \in OauthCalls \ {c} : oauthCall'[d] = oauthCall[d])
        /\ flows' \in 0..MaxFlows /\ 1..flows \subseteq 1..flows' /\ n \in 1..flows'
        /\ 1..flows \subseteq FlowIds
      BY <1>0, <1>2, <2>1, <2>6, OauthBounds DEF FlowIds
  <2>9. OauthTypes'
      BY <2>3, <2>5, <2>6, <2>8 DEF OauthInv, OauthTypes
  <2>10. ASSUME NEW s \in FlowIds
         PROVE  FlowOK(s)'
    <3>1. FlowOK(s) /\ (s > flows' => s > flows)
        BY <1>0, <1>2 DEF OauthInv, FlowIds
    <3>2. CASE s = n
        BY <2>6, <2>7, <3>1, <3>2 DEF FlowOK
    <3>3. CASE s # n
        BY <2>6, <2>8, <3>1, <3>3 DEF FlowOK
    <3> QED
        BY <3>2, <3>3
  <2>11. ASSUME NEW d \in OauthCalls
         PROVE  OauthCallOK(d)'
    <3>1. CASE d = c
        BY <1>0, <2>3, <2>5, <2>6, <2>7, <2>8, <3>1 DEF OauthCallOK, FlowOK
    <3>2. CASE d # c
      <4>1. OauthCallOK(d) /\ oauthCall'[d] = oauthCall[d]
          BY <2>8, <3>2 DEF OauthInv
      <4>2. oauthCall[d].flow \in 1..flows =>
               oauthCall[d].flow \in 1..flows' /\ issued'[oauthCall[d].flow] = issued[oauthCall[d].flow]
          BY <2>7, <2>8
      <4> QED
          BY <2>6, <4>1, <4>2 DEF OauthCallOK
    <3> QED
        BY <3>1, <3>2
  <2>12. StoresDiffer'
    <3>1. ASSUME NEW d \in OauthCalls, d # c, oauthCall'[d].pc = "store"
          PROVE  oauthCall'[d].flow # n
      <4>1. OauthCallOK(d) /\ oauthCall'[d] = oauthCall[d]
          BY <2>8, <3>1 DEF OauthInv
      <4> QED
          BY <2>7, <3>1, <4>1 DEF OauthCallOK
    <3>2. ASSUME NEW d \in OauthCalls, NEW e \in OauthCalls, d # e, d # c, e # c,
                 oauthCall'[d].pc = "store", oauthCall'[e].pc = "store"
          PROVE  oauthCall'[d].flow # oauthCall'[e].flow
        BY <2>8, <3>2 DEF OauthInv, StoresDiffer
    <3> QED
        BY <2>5, <2>8, <3>1, <3>2 DEF StoresDiffer
  <2>13. ASSUME NEW u \in Owners
         PROVE  LinkOK(u)'
    <3>1. LinkOK(u)
        BY DEF OauthInv
    <3> QED
        BY <2>6, <2>7, <2>8, <3>1 DEF LinkOK
  <2> QED
      BY <2>9, <2>10, <2>11, <2>12, <2>13 DEF OauthInv
<1> QED
    BY <1>1, <1>2 DEF RequestOauthToken

LEMMA OauthStores ==
    ASSUME OauthInv, NEW c \in OauthCalls, StoreState(c)
    PROVE  OauthInv'
<1>0. /\ oauthCall[c] \in OauthCallTypes /\ OauthCallOK(c) /\ oauthCall[c].pc = "store"
      /\ oauthCall \in [OauthCalls -> OauthCallTypes] /\ flows \in 0..MaxFlows
      /\ oauth_state \in [FlowIds -> Namers]
    BY DEF OauthInv, OauthTypes, StoreState
<1>1. CASE UNCHANGED oauth_state
    BY <1>1, CallLeaves DEF StoreState
<1>2. CASE oauth_state' = [oauth_state EXCEPT ![oauthCall[c].flow] = oauthCall[c].user]
  <2>1. PICK n \in FlowIds : n = oauthCall[c].flow /\ n <= flows
      BY <1>0, OauthBounds DEF OauthCallOK, FlowIds
  <2>2. oauthCall' = [oauthCall EXCEPT ![c] = NoOauthCall]
        /\ app_config' = app_config /\ issued' = issued /\ flows' = flows
        /\ oauth_tokens' = oauth_tokens /\ flowsSpent' = flowsSpent
      BY DEF StoreState, Leaves
  <2>3. /\ oauthCall[c].user \in Owners \cup {Unnamed} /\ flowsSpent[n] = 0 /\ oauth_state[n] = NoOwner
        /\ issued[n].by = oauthCall[c].user
      BY <1>0, <2>1 DEF OauthCallOK
  <2>4. /\ oauth_state'[n] = oauthCall[c].user /\ oauthCall'[c] = NoOauthCall
        /\ (\A s \in FlowIds \ {n} : oauth_state'[s] = oauth_state[s])
        /\ (\A d \in OauthCalls \ {c} : oauthCall'[d] = oauthCall[d])
      BY <1>0, <1>2, <2>1, <2>2
  <2>5. OauthTypes'
      BY <1>0, <1>2, <2>1, <2>2, <2>3, NoCallIsFine DEF OauthInv, OauthTypes, Namers
  <2>6. ASSUME NEW s \in FlowIds
        PROVE  FlowOK(s)'
    <3>1. CASE s = n
      <4>1. ~(s > flows)
          BY <1>0, <2>1, <3>1 DEF FlowIds
      <4> QED
          BY <2>2, <2>3, <2>4, <3>1, <4>1 DEF FlowOK
    <3>2. CASE s # n
        BY <2>2, <2>4, <3>2 DEF OauthInv, FlowOK
    <3> QED
        BY <3>1, <3>2
  <2>7. ASSUME NEW d \in OauthCalls
        PROVE  OauthCallOK(d)'
    <3>1. CASE d = c
        BY <2>4, <3>1, NoCallIsFine DEF OauthCallOK
    <3>2. CASE d # c
      <4>1. OauthCallOK(d) /\ oauthCall'[d] = oauthCall[d]
          BY <2>4, <3>2 DEF OauthInv
      <4>2. oauthCall[d].pc = "store" => oauthCall[d].flow # n /\ oauthCall[d].flow \in FlowIds
          BY <1>0, <2>1, <3>2, <4>1, OauthBounds DEF OauthInv, StoresDiffer, OauthCallOK, FlowIds
      <4> QED
          BY <2>2, <2>4, <4>1, <4>2 DEF OauthCallOK
    <3> QED
        BY <3>1, <3>2
  <2>8. StoresDiffer'
      BY <2>4, NoCallIsFine DEF OauthInv, StoresDiffer
  <2>9. \A u \in Owners : LinkOK(u)'
      BY <2>2 DEF OauthInv, LinkOK
  <2> QED
      BY <2>5, <2>6, <2>7, <2>8, <2>9 DEF OauthInv
<1> QED
    BY <1>1, <1>2 DEF StoreState

(* The state of a flow goes: it expires, or a request consumes it.         *)
LEMMA StateGoes ==
    ASSUME OauthInv, NEW s \in FlowIds, NEW n \in {0, 1},
           n = 1 => oauth_state[s] # NoOwner,
           oauth_state' = [oauth_state EXCEPT ![s] = NoOwner],
           flowsSpent' = [flowsSpent EXCEPT ![s] = @ + n],
           UNCHANGED <<app_config, issued, oauth_tokens, flows>>,
           oauthCall' \in [OauthCalls -> OauthCallTypes],
           \A d \in OauthCalls : oauthCall'[d] = oauthCall[d] \/
              (oauthCall'[d].pc # "store" /\ OauthCallOK(d)'),
           n = 1 => \A d \in OauthCalls : oauthCall[d].pc = "store" => oauthCall[d].flow # s
    PROVE  OauthInv'
<1>0. /\ oauth_state \in [FlowIds -> Namers] /\ flowsSpent \in [FlowIds -> {0, 1}]
      /\ FlowOK(s)
    BY DEF OauthInv, OauthTypes
<1>1. /\ app_config' = app_config /\ issued' = issued /\ oauth_tokens' = oauth_tokens /\ flows' = flows
    OBVIOUS
<1>2. /\ oauth_state'[s] = NoOwner /\ flowsSpent'[s] = flowsSpent[s] + n
      /\ \A x \in FlowIds \ {s} : oauth_state'[x] = oauth_state[x] /\ flowsSpent'[x] = flowsSpent[x]
    BY <1>0
<1>3. flowsSpent[s] \in {0, 1} /\ (n = 1 => flowsSpent[s] = 0)
    BY <1>0 DEF FlowOK
<1>4. flowsSpent'[s] \in {0, 1}
    BY <1>2, <1>3
<1>5. OauthTypes'
  <2>1. flowsSpent' \in [FlowIds -> {0, 1}]
      BY <1>0, <1>2, <1>4
  <2>2. oauth_state' \in [FlowIds -> Namers]
      BY <1>0 DEF Namers
  <2> QED
      BY <1>1, <2>1, <2>2 DEF OauthInv, OauthTypes
<1>6. ASSUME NEW x \in FlowIds
      PROVE  FlowOK(x)'
  <2>1. FlowOK(x)
      BY DEF OauthInv
  <2>2. CASE x = s
      BY <1>0, <1>1, <1>2, <1>3, <2>1, <2>2 DEF FlowOK
  <2>3. CASE x # s
      BY <1>1, <1>2, <2>1, <2>3 DEF FlowOK
  <2> QED
      BY <2>2, <2>3
<1>7. ASSUME NEW d \in OauthCalls, oauthCall'[d] = oauthCall[d]
      PROVE  OauthCallOK(d)'
  <2>1. OauthCallOK(d) /\ oauthCall[d] \in OauthCallTypes
      BY DEF OauthInv, OauthTypes
  <2>2. CASE oauthCall[d].pc # "store"
      BY <1>1, <1>7, <2>1, <2>2 DEF OauthCallOK
  <2>3. CASE oauthCall[d].pc = "store"
    <3>1. oauthCall[d].flow \in FlowIds
        BY <2>1, <2>3, OauthBounds DEF OauthCallOK, FlowIds, OauthInv, OauthTypes
    <3>2. oauth_state'[oauthCall[d].flow] = NoOwner /\ flowsSpent'[oauthCall[d].flow] = 0
      <4>1. CASE oauthCall[d].flow = s
          BY <1>2, <2>1, <2>3, <4>1 DEF OauthCallOK
      <4>2. CASE oauthCall[d].flow # s
          BY <1>2, <2>1, <2>3, <3>1, <4>2 DEF OauthCallOK
      <4> QED
          BY <4>1, <4>2
    <3> QED
        BY <1>1, <1>7, <2>1, <2>3, <3>2 DEF OauthCallOK
  <2> QED
      BY <2>2, <2>3
<1>8. StoresDiffer'
    BY DEF OauthInv, StoresDiffer
<1>9. \A u \in Owners : LinkOK(u)'
    BY <1>1 DEF OauthInv, LinkOK
<1>10. \A d \in OauthCalls : OauthCallOK(d)'
    BY <1>7
<1> QED
    BY <1>5, <1>6, <1>8, <1>9, <1>10 DEF OauthInv

LEMMA OauthExpires ==
    ASSUME OauthInv, NEW s \in FlowIds, StateExpires(s)
    PROVE  OauthInv'
<1>1. flowsSpent \in [FlowIds -> {0, 1}] /\ flowsSpent' = flowsSpent /\ oauthCall' = oauthCall
    BY DEF OauthInv, OauthTypes, StateExpires
<1>2. flowsSpent' = [flowsSpent EXCEPT ![s] = @ + 0]
  <2>1. flowsSpent[s] + 0 = flowsSpent[s]
      BY <1>1
  <2> QED
      BY <1>1, <2>1
<1>3. /\ oauth_state' = [oauth_state EXCEPT ![s] = NoOwner]
      /\ UNCHANGED <<app_config, issued, oauth_tokens, flows>>
    BY DEF StateExpires
<1>4. oauthCall' \in [OauthCalls -> OauthCallTypes]
    BY <1>1 DEF OauthInv, OauthTypes
<1>5. \A d \in OauthCalls : oauthCall'[d] = oauthCall[d] \/
         (oauthCall'[d].pc # "store" /\ OauthCallOK(d)')
    BY <1>1
<1>6. PICK n \in {0, 1} : n = 0
    OBVIOUS
<1>7. flowsSpent' = [flowsSpent EXCEPT ![s] = @ + n]
    BY <1>2, <1>6
<1>8. /\ n = 1 => oauth_state[s] # NoOwner
      /\ n = 1 => \A d \in OauthCalls : oauthCall[d].pc = "store" => oauthCall[d].flow # s
    BY <1>6
<1> QED
    BY <1>3, <1>4, <1>5, <1>7, <1>8, StateGoes

LEMMA OauthConsumes ==
    ASSUME OauthInv, NEW c \in OauthCalls, ConsumeState(c)
    PROVE  OauthInv'
<1>0. /\ oauthCall[c] \in OauthCallTypes /\ OauthCallOK(c) /\ oauthCall[c].pc = "consume"
      /\ oauthCall \in [OauthCalls -> OauthCallTypes] /\ flows \in 0..MaxFlows
      /\ oauth_state \in [FlowIds -> Namers]
    BY DEF OauthInv, OauthTypes, ConsumeState
<1>1. PICK s \in FlowIds : s = oauthCall[c].flow /\ s \in 1..flows
    BY <1>0, OauthBounds DEF OauthCallOK, FlowIds
<1>2. /\ oauth_state' = [oauth_state EXCEPT ![s] = NoOwner]
      /\ UNCHANGED <<app_config, issued, oauth_tokens, flows>>
    BY <1>1 DEF ConsumeState, AfterConsume
<1>3. CASE ~StartedBy(s, oauthCall[c].user)
  <2>1. Leaves(c) /\ flowsSpent' = [flowsSpent EXCEPT ![s] = @ + 0]
      BY <1>1, <1>3 DEF ConsumeState
  <2>2. oauthCall' = [oauthCall EXCEPT ![c] = NoOauthCall]
      BY <2>1 DEF Leaves
  <2>3. oauthCall' \in [OauthCalls -> OauthCallTypes] /\ oauthCall'[c] = NoOauthCall
      BY <1>0, <2>2, NoCallIsFine
  <2>4. oauthCall'[c].pc # "store" /\ OauthCallOK(c)'
      BY <2>3, NoCallIsFine DEF OauthCallOK
  <2>5. \A d \in OauthCalls : oauthCall'[d] = oauthCall[d] \/
           (oauthCall'[d].pc # "store" /\ OauthCallOK(d)')
      BY <1>0, <2>2, <2>4
  <2>6. PICK n \in {0, 1} : n = 0
      OBVIOUS
  <2>7. flowsSpent' = [flowsSpent EXCEPT ![s] = @ + n]
      BY <2>1, <2>6
  <2>8. /\ n = 1 => oauth_state[s] # NoOwner
        /\ n = 1 => \A d \in OauthCalls : oauthCall[d].pc = "store" => oauthCall[d].flow # s
      BY <2>6
  <2> QED
      BY <1>2, <2>3, <2>5, <2>7, <2>8, StateGoes
<1>4. CASE StartedBy(s, oauthCall[c].user)
  <2>1. /\ oauthCall' = [oauthCall EXCEPT ![c].pc = "exchange"]
        /\ flowsSpent' = [flowsSpent EXCEPT ![s] = @ + 1]
      BY <1>1, <1>4 DEF ConsumeState
  <2>2. PICK r : r = [oauthCall[c] EXCEPT !.pc = "exchange"]
      OBVIOUS
  <2>3. /\ r \in OauthCallTypes /\ r.pc = "exchange" /\ r.flow = s /\ r.user = oauthCall[c].user
        /\ r.pair = oauthCall[c].pair
      BY <1>0, <1>1, <2>2 DEF OauthCallTypes
  <2>4. oauthCall' = [oauthCall EXCEPT ![c] = r]
      BY <1>0, <2>1, <2>2
  <2>5. oauthCall' \in [OauthCalls -> OauthCallTypes] /\ oauthCall'[c] = r
      BY <1>0, <2>3, <2>4
  <2>6. oauth_state[s] # NoOwner /\ issued[s].by \in {oauthCall[c].user, Unnamed}
    <3>1. oauth_state[s] \in {oauthCall[c].user, Unnamed} /\ oauthCall[c].user \in Owners
        BY <1>0, <1>4 DEF StartedBy, OauthCallOK
    <3>2. FlowOK(s)
        BY DEF OauthInv
    <3> QED
        BY <3>1, <3>2, OwnersAreUsers DEF FlowOK, NoOwner, Unnamed
  <2>7. OauthCallOK(c)'
    <3>1. issued' = issued /\ flows' = flows
        BY <1>2
    <3> QED
        BY <1>0, <1>1, <2>3, <2>5, <2>6, <3>1 DEF OauthCallOK
  <2>8. \A d \in OauthCalls : oauthCall'[d] = oauthCall[d] \/
           (oauthCall'[d].pc # "store" /\ OauthCallOK(d)')
      BY <1>0, <2>3, <2>4, <2>5, <2>7
  <2>9. \A d \in OauthCalls : oauthCall[d].pc = "store" => oauthCall[d].flow # s
      BY <2>6 DEF OauthInv, OauthCallOK
  <2>10. PICK n \in {0, 1} : n = 1
      OBVIOUS
  <2>11. flowsSpent' = [flowsSpent EXCEPT ![s] = @ + n]
      BY <2>1, <2>10
  <2> QED
      BY <1>2, <2>5, <2>6, <2>8, <2>9, <2>10, <2>11, StateGoes
<1> QED
    BY <1>3, <1>4

(* What Discogs has on record of a flow changes, but not who started it    *)
(* nor, once there is one, the account.                                    *)
LEMMA IssuedChanges ==
    ASSUME OauthInv, NEW s \in FlowIds, NEW i \in IssuedTypes,
           issued' = [issued EXCEPT ![s] = i], i.by = issued[s].by,
           issued[s].account # "none" => i.account = issued[s].account,
           UNCHANGED <<app_config, oauth_state, oauth_tokens, flowsSpent, flows>>,
           oauthCall' \in [OauthCalls -> OauthCallTypes],
           \A d \in OauthCalls : oauthCall'[d] = oauthCall[d] \/
              (oauthCall'[d].pc # "store" /\ OauthCallOK(d)')
    PROVE  OauthInv'
<1>0. issued \in [FlowIds -> IssuedTypes] /\ oauthCall \in [OauthCalls -> OauthCallTypes]
      /\ flows \in 0..MaxFlows
    BY DEF OauthInv, OauthTypes
<1>1. /\ app_config' = app_config /\ oauth_state' = oauth_state /\ oauth_tokens' = oauth_tokens
      /\ flowsSpent' = flowsSpent /\ flows' = flows
    OBVIOUS
<1>2. \A x \in FlowIds : /\ issued'[x].by = issued[x].by
                         /\ issued[x].account # "none" => issued'[x].account = issued[x].account
    BY <1>0
<1>3. 1..flows \subseteq FlowIds
    BY <1>0, OauthBounds DEF FlowIds
<1>4. OauthTypes'
    BY <1>0, <1>1 DEF OauthInv, OauthTypes
<1>5. \A x \in FlowIds : FlowOK(x)'
    BY <1>1, <1>2 DEF OauthInv, FlowOK
<1>6. ASSUME NEW d \in OauthCalls, oauthCall'[d] = oauthCall[d]
      PROVE  OauthCallOK(d)'
  <2>1. OauthCallOK(d)
      BY DEF OauthInv
  <2>2. oauthCall[d].flow \in 1..flows =>
           /\ issued'[oauthCall[d].flow].by = issued[oauthCall[d].flow].by
           /\ issued[oauthCall[d].flow].account # "none" =>
                 issued'[oauthCall[d].flow].account = issued[oauthCall[d].flow].account
      BY <1>2, <1>3
  <2> QED
      BY <1>1, <1>6, <2>1, <2>2 DEF OauthCallOK
<1>7. StoresDiffer'
    BY DEF OauthInv, StoresDiffer
<1>8. ASSUME NEW u \in Owners
      PROVE  LinkOK(u)'
  <2>1. LinkOK(u)
      BY DEF OauthInv
  <2> QED
      BY <1>1, <1>2, <1>3, <2>1 DEF LinkOK
<1>9. \A d \in OauthCalls : OauthCallOK(d)'
    BY <1>6
<1> QED
    BY <1>4, <1>5, <1>7, <1>8, <1>9 DEF OauthInv

LEMMA OauthApproves ==
    ASSUME OauthInv, NEW s \in FlowIds, NEW a \in Accounts, Approves(s, a)
    PROVE  OauthInv'
<1>0. issued \in [FlowIds -> IssuedTypes] /\ oauthCall' = oauthCall
    BY DEF OauthInv, OauthTypes, Approves
<1>1. PICK i : i = [issued[s] EXCEPT !.account = a]
    OBVIOUS
<1>2. i \in IssuedTypes /\ i.by = issued[s].by
    BY <1>0, <1>1 DEF IssuedTypes
<1>3. issued' = [issued EXCEPT ![s] = i] /\ issued[s].account = "none"
      /\ UNCHANGED <<app_config, oauth_state, oauth_tokens, flowsSpent, flows>>
    BY <1>0, <1>1 DEF Approves
<1>4. oauthCall' \in [OauthCalls -> OauthCallTypes]
    BY <1>0 DEF OauthInv, OauthTypes
<1> QED
    BY <1>0, <1>2, <1>3, <1>4, IssuedChanges

LEMMA OauthExchanges ==
    ASSUME OauthInv, NEW c \in OauthCalls, ExchangeVerifier(c)
    PROVE  OauthInv'
<1>0. /\ oauthCall[c] \in OauthCallTypes /\ OauthCallOK(c) /\ oauthCall[c].pc = "exchange"
      /\ oauthCall \in [OauthCalls -> OauthCallTypes] /\ flows \in 0..MaxFlows
      /\ issued \in [FlowIds -> IssuedTypes]
    BY DEF OauthInv, OauthTypes, ExchangeVerifier
<1>1. PICK s \in FlowIds : s = oauthCall[c].flow
    BY <1>0, OauthBounds DEF OauthCallOK, FlowIds
<1>2. UNCHANGED <<app_config, oauth_state, oauth_tokens, flowsSpent, flows>>
    BY DEF ExchangeVerifier
<1>3. PICK i : i = [issued[s] EXCEPT !.used = TRUE]
    OBVIOUS
<1>4. i \in IssuedTypes /\ i.by = issued[s].by /\ i.account = issued[s].account
    BY <1>0, <1>3 DEF IssuedTypes
<1>5. CASE ~(/\ issued[s].account # "none" /\ ~issued[s].used /\ issued[s].pair = oauthCall[c].pair)
  <2>1. Leaves(c) /\ UNCHANGED issued
      BY <1>1, <1>5 DEF ExchangeVerifier
  <2> QED
      BY <1>2, <2>1, CallLeaves
<1>6. CASE /\ issued[s].account # "none" /\ issued' = [issued EXCEPT ![s] = i] /\ Leaves(c)
  <2>1. oauthCall' = [oauthCall EXCEPT ![c] = NoOauthCall]
      BY <1>6 DEF Leaves
  <2>2. oauthCall' \in [OauthCalls -> OauthCallTypes] /\ oauthCall'[c] = NoOauthCall
      BY <1>0, <2>1, NoCallIsFine
  <2>3. oauthCall'[c].pc # "store" /\ OauthCallOK(c)'
      BY <2>2, NoCallIsFine DEF OauthCallOK
  <2>4. \A d \in OauthCalls : oauthCall'[d] = oauthCall[d] \/
           (oauthCall'[d].pc # "store" /\ OauthCallOK(d)')
      BY <1>0, <2>1, <2>3
  <2> QED
      BY <1>2, <1>4, <1>6, <2>2, <2>4, IssuedChanges
<1>7. CASE /\ issued[s].account # "none" /\ issued' = [issued EXCEPT ![s] = i]
           /\ oauthCall' = [oauthCall EXCEPT ![c].pc = "identity"]
  <2>1. PICK r : r = [oauthCall[c] EXCEPT !.pc = "identity"]
      OBVIOUS
  <2>2. /\ r \in OauthCallTypes /\ r.pc = "identity" /\ r.flow = s /\ r.user = oauthCall[c].user
        /\ r.pair = oauthCall[c].pair
      BY <1>0, <1>1, <2>1 DEF OauthCallTypes
  <2>3. oauthCall' = [oauthCall EXCEPT ![c] = r]
      BY <1>0, <1>7, <2>1
  <2>4. oauthCall' \in [OauthCalls -> OauthCallTypes] /\ oauthCall'[c] = r
      BY <1>0, <2>2, <2>3
  <2>5. issued'[s] = i /\ flows' = flows
      BY <1>0, <1>2, <1>7
  <2>6. oauthCall'[c].pc # "store" /\ OauthCallOK(c)'
      BY <1>0, <1>1, <1>4, <1>7, <2>2, <2>4, <2>5 DEF OauthCallOK
  <2>7. \A d \in OauthCalls : oauthCall'[d] = oauthCall[d] \/
           (oauthCall'[d].pc # "store" /\ OauthCallOK(d)')
      BY <1>0, <2>3, <2>6
  <2> QED
      BY <1>2, <1>4, <1>7, <2>4, <2>7, IssuedChanges
<1>8. [issued EXCEPT ![s].used = TRUE] = [issued EXCEPT ![s] = i]
    BY <1>0, <1>3
<1> QED
    BY <1>1, <1>5, <1>6, <1>7, <1>8 DEF ExchangeVerifier

LEMMA OauthIdentifies ==
    ASSUME OauthInv, NEW c \in OauthCalls, FetchIdentity(c)
    PROVE  OauthInv'
<1>0. /\ oauthCall[c] \in OauthCallTypes /\ OauthCallOK(c) /\ oauthCall[c].pc = "identity"
      /\ oauthCall \in [OauthCalls -> OauthCallTypes] /\ flows \in 0..MaxFlows
      /\ issued \in [FlowIds -> IssuedTypes]
    BY DEF OauthInv, OauthTypes, FetchIdentity
<1>1. PICK s \in FlowIds : s = oauthCall[c].flow
    BY <1>0, OauthBounds DEF OauthCallOK, FlowIds
<1>2. UNCHANGED <<app_config, oauth_state, issued, oauth_tokens, flowsSpent, flows>>
    BY DEF FetchIdentity
<1>3. CASE Leaves(c)
    BY <1>2, <1>3, CallLeaves
<1>4. CASE oauthCall' = [oauthCall EXCEPT ![c].pc = "persist",
                             ![c].link = [flow |-> s, account |-> issued[s].account]]
  <2>1. PICK l : l = [flow |-> s, account |-> issued[s].account]
      OBVIOUS
  <2>2. l \in LinkTypes
      BY <1>0, <2>1 DEF LinkTypes, FlowIds, IssuedTypes
  <2>3. PICK r : r = [oauthCall[c] EXCEPT !.pc = "persist", !.link = l]
      OBVIOUS
  <2>4. /\ r \in OauthCallTypes /\ r.pc = "persist" /\ r.flow = s /\ r.user = oauthCall[c].user
        /\ r.pair = oauthCall[c].pair /\ r.link = l
    <3>1. r \in OauthCallTypes
        BY <1>0, <2>2, <2>3 DEF OauthCallTypes
    <3> QED
        BY <1>0, <1>1, <2>3, <3>1 DEF OauthCallTypes
  <2>5. oauthCall' = [oauthCall EXCEPT ![c] = r]
      BY <1>0, <1>4, <2>1, <2>3
  <2>6. oauthCall'[c] = r /\ issued' = issued /\ flows' = flows
      BY <1>0, <1>2, <2>5
  <2>7. OauthCallOK(c)'
      BY <1>0, <1>1, <2>1, <2>4, <2>6 DEF OauthCallOK
  <2> QED
      BY <1>2, <2>4, <2>5, <2>7, CallMovesOn
<1> QED
    BY <1>1, <1>3, <1>4 DEF FetchIdentity

(* A connection is written or cleared.                                     *)
LEMMA LinkChanges ==
    ASSUME OauthInv, NEW u \in Owners, NEW l \in LinkTypes,
           oauth_tokens' = [oauth_tokens EXCEPT ![u] = l],
           UNCHANGED <<app_config, oauth_state, issued, flowsSpent, flows>>,
           l # NoLink => /\ l.flow \in 1..flows /\ issued[l.flow].by \in {u, Unnamed}
                         /\ issued[l.flow].account = l.account /\ l.account # "none",
           oauthCall' \in [OauthCalls -> OauthCallTypes],
           \A d \in OauthCalls : oauthCall'[d] = oauthCall[d] \/ oauthCall'[d] = NoOauthCall
    PROVE  OauthInv'
<1>0. oauth_tokens \in [Owners -> LinkTypes]
    BY DEF OauthInv, OauthTypes
<1>1. /\ app_config' = app_config /\ oauth_state' = oauth_state /\ issued' = issued
      /\ flowsSpent' = flowsSpent /\ flows' = flows
    OBVIOUS
<1>2. OauthTypes'
    BY <1>0, <1>1 DEF OauthInv, OauthTypes
<1>3. \A x \in FlowIds : FlowOK(x)'
    BY <1>1 DEF OauthInv, FlowOK
<1>4. ASSUME NEW d \in OauthCalls
      PROVE  OauthCallOK(d)'
  <2>1. OauthCallOK(d)
      BY DEF OauthInv
  <2>2. CASE oauthCall'[d] = oauthCall[d]
      BY <1>1, <2>1, <2>2 DEF OauthCallOK
  <2>3. CASE oauthCall'[d] = NoOauthCall
      BY <2>3, NoCallIsFine DEF OauthCallOK
  <2> QED
      BY <2>2, <2>3
<1>5. StoresDiffer'
    BY NoCallIsFine DEF OauthInv, StoresDiffer
<1>6. ASSUME NEW x \in Owners
      PROVE  LinkOK(x)'
  <2>1. CASE x = u
      BY <1>0, <1>1, <2>1 DEF LinkOK
  <2>2. CASE x # u
      BY <1>0, <1>1, <2>2 DEF OauthInv, LinkOK
  <2> QED
      BY <2>1, <2>2
<1> QED
    BY <1>2, <1>3, <1>4, <1>5, <1>6 DEF OauthInv

LEMMA OauthPersists ==
    ASSUME OauthInv, NEW c \in OauthCalls, PersistToken(c)
    PROVE  OauthInv'
<1>0. /\ oauthCall[c] \in OauthCallTypes /\ OauthCallOK(c) /\ oauthCall[c].pc = "persist"
      /\ oauthCall \in [OauthCalls -> OauthCallTypes]
    BY DEF OauthInv, OauthTypes, PersistToken
<1>1. PICK u \in Owners : u = oauthCall[c].user
    BY <1>0 DEF OauthCallOK
<1>2. PICK l \in LinkTypes : l = oauthCall[c].link
    BY <1>0 DEF OauthCallTypes
<1>3. /\ oauth_tokens' = [oauth_tokens EXCEPT ![u] = l]
      /\ oauthCall' = [oauthCall EXCEPT ![c] = NoOauthCall]
      /\ UNCHANGED <<app_config, oauth_state, issued, flowsSpent, flows>>
    BY <1>1, <1>2 DEF PersistToken, Leaves
<1>4. /\ l.flow \in 1..flows /\ issued[l.flow].by \in {u, Unnamed}
      /\ issued[l.flow].account = l.account /\ l.account # "none"
  <2>1. l.flow = oauthCall[c].flow /\ l.account = issued[oauthCall[c].flow].account
      BY <1>0, <1>2 DEF OauthCallOK
  <2> QED
      BY <1>0, <1>1, <2>1 DEF OauthCallOK
<1>5. oauthCall' \in [OauthCalls -> OauthCallTypes]
    BY <1>0, <1>3, NoCallIsFine
<1>6. \A d \in OauthCalls : oauthCall'[d] = oauthCall[d] \/ oauthCall'[d] = NoOauthCall
    BY <1>0, <1>3
<1> QED
    BY <1>3, <1>4, <1>5, <1>6, LinkChanges

LEMMA OauthRevokes ==
    ASSUME OauthInv, NEW u \in Owners, RevokeDiscogs(u)
    PROVE  OauthInv'
<1>1. NoLink \in LinkTypes
    BY DEF NoLink, LinkTypes
<1>2. oauthCall' = oauthCall /\ oauthCall \in [OauthCalls -> OauthCallTypes]
    BY DEF OauthInv, OauthTypes, RevokeDiscogs
<1>3. /\ oauth_tokens' = [oauth_tokens EXCEPT ![u] = NoLink]
      /\ UNCHANGED <<app_config, oauth_state, issued, flowsSpent, flows>>
    BY DEF RevokeDiscogs
<1> QED
    BY <1>1, <1>2, <1>3, LinkChanges

LEMMA OauthConfigured == OauthInv /\ SetConfig => OauthInv'
<1> SUFFICES ASSUME OauthInv, SetConfig
             PROVE  OauthInv'
    OBVIOUS
<1>1. /\ oauth_state' = oauth_state /\ issued' = issued /\ oauth_tokens' = oauth_tokens
      /\ oauthCall' = oauthCall /\ flowsSpent' = flowsSpent /\ flows' = flows
    BY DEF SetConfig
<1>2. app_config' \in [pair : Nat, readable : BOOLEAN]
  <2>1. PICK ok \in BOOLEAN : app_config' = [pair |-> app_config.pair + 1, readable |-> ok]
      BY DEF SetConfig
  <2>2. app_config.pair + 1 \in Nat
      BY DEF OauthInv, OauthTypes
  <2> QED
      BY <2>1, <2>2
<1> QED
    BY <1>1, <1>2 DEF OauthInv, OauthTypes, FlowOK, OauthCallOK, StoresDiffer, LinkOK

(* A state binds one flow of one user and is spent once, and a connection  *)
(* stems from one, through any crossing of flows (authorize_discogs and    *)
(* verify_discogs of api.py).                                              *)
THEOREM OauthInvariant == Spec => []OauthInv
<1>1. Init => OauthInv
    BY OauthInitInv DEF Init
<1>2. OauthInv /\ [Next]_serviceVars => OauthInv'
  <2> SUFFICES ASSUME OauthInv, [Next]_serviceVars
               PROVE  OauthInv'
      OBVIOUS
  <2>1. [OauthNext]_oauthVars
      BY DEF Next, RestOf, serviceVars
  <2>2. CASE UNCHANGED oauthVars
    <3>1. /\ app_config' = app_config /\ oauth_state' = oauth_state /\ issued' = issued
          /\ oauth_tokens' = oauth_tokens /\ oauthCall' = oauthCall
          /\ flowsSpent' = flowsSpent /\ flows' = flows
        BY <2>2 DEF oauthVars
    <3> QED
        BY <3>1 DEF OauthInv, OauthTypes, FlowOK, OauthCallOK, StoresDiffer, LinkOK
  <2>3. CASE OauthNext
      BY <2>3, OauthConfigured, OauthBegins, OauthRequests, OauthStores, OauthConsumes,
         OauthExchanges, OauthIdentifies, OauthPersists, OauthExpires, OauthApproves, OauthRevokes
      DEF OauthNext
  <2> QED
      BY <2>1, <2>2, <2>3
<1> QED
    BY <1>1, <1>2, PTL DEF Spec

LEMMA OauthInvImplies == OauthInv => ConnectionsAreOwn
<1> SUFFICES ASSUME OauthInv
             PROVE  ConnectionsAreOwn
    OBVIOUS
<1>1. \A s \in FlowIds : flowsSpent[s] <= 1
  <2>1. \A s \in FlowIds : flowsSpent[s] \in {0, 1}
      BY DEF OauthInv, OauthTypes
  <2> QED
      BY <2>1
<1>2. \A u \in Owners : oauth_tokens[u] # NoLink =>
         /\ issued[oauth_tokens[u].flow].by \in {u, Unnamed}
         /\ issued[oauth_tokens[u].flow].account = oauth_tokens[u].account
    BY DEF OauthInv, LinkOK
<1>3. \A c \in OauthCalls : oauthCall[c].pair[1] = oauthCall[c].pair[2]
    BY DEF OauthInv, OauthCallOK
<1> QED
    BY <1>1, <1>2, <1>3 DEF ConnectionsAreOwn

-----------------------------------------------------------------------------
(* Recommendations: a personal answer is the viewer's own and recent, and  *)
(* an impression tells what was shown.                                     *)

(* A list by its length alone.                                             *)
Listed(s) == Len(s) \in Nat /\ s \in Seq({s[i] : i \in 1..Len(s)})

(* A request by its surface: the list that answers it and the key of its   *)
(* body.                                                                   *)
Asked(r) ==
    /\ {"pc", "who", "via", "surface", "limit", "list", "key"} \subseteq DOMAIN r
    /\ r.limit \in Limits
    /\ \/ r.surface = "similar" /\ r.list \in Versions /\ r.key = SimilarKey(r.list)
       \/ r.surface = "explore" /\ r.list = "explore" /\ r.who \in Collectors /\ r.key = ExploreKey(r.who)
       \/ r.surface = "fit" /\ r.list = "fit" /\ r.who \in Collectors /\ r.key = FitKey(r.who, r.via = "jwt")

(* What a body says of itself, by its key.                                 *)
BodyOK(k, b) ==
    /\ Listed(b.items)
    /\ \/ \E v \in Versions : k = SimilarKey(v) /\ b.by = v
       \/ \E u \in Collectors : k = ExploreKey(u) /\ b.by = "explore" /\ b.of = u
       \/ \E u \in Collectors, e \in BOOLEAN :
             k = <<"fit", u, e>> /\ b.by = "fit" /\ b.of = u /\ b.entries = e

(* When its shelf was read, at most that much earlier than at.             *)
ReadWithin(b, at, explore, fit) ==
    /\ b.by \in {"explore", "fit"} => b.read \in Int /\ b.read <= at
    /\ b.by = "explore" => at - b.read < explore
    /\ b.by = "fit" => at - b.read < fit

KeptOK(k) ==
    LET e == bodies[k] IN
    e # NoBody =>
        /\ e.at \in Int /\ e.at <= recClock /\ recClock < e.at + TtlOf(k)
        /\ IF k[1] = "collection" THEN e.body.of = k[2] /\ e.body.read = e.at
           ELSE BodyOK(k, e.body) /\ ReadWithin(e.body, e.at, 1, FitTtl)

CallPcs ==
    {"idle", "list", "cached", "rank", "traverse", "context", "collection", "read", "keep", "fit",
     "set", "stamp", "shown"}

ShownOK(r) ==
    /\ r.body.by \in {"explore", "fit"} =>
          /\ r.body.of = r.who
          /\ r.body.by = "fit" /\ r.body.entries => r.via = "jwt"
    /\ ReadWithin(r.body, r.at, ExploreTtl, 2 * FitTtl)

CallOK(r) ==
    /\ r.pc \in CallPcs
    /\ r.pc \notin {"idle", "shown"} => Asked(r)
    /\ r.pc \in {"list", "rank"} => r.surface = "similar"
    /\ r.pc = "traverse" => r.surface = "explore"
    /\ r.pc \in {"context", "collection", "read", "keep", "fit"} => r.surface = "fit"
    /\ r.pc \in {"keep", "fit"} =>
          "folded" \in DOMAIN r /\ r.folded.of = r.who /\ r.folded.read \in Int /\ r.folded.read <= recClock
    /\ r.pc = "keep" => r.folded.read = recClock
    /\ r.pc = "fit" => recClock - r.folded.read < FitTtl
    /\ r.pc \in {"set", "stamp"} => "body" \in DOMAIN r /\ BodyOK(r.key, r.body)
    /\ r.pc = "set" => ReadWithin(r.body, recClock, 1, FitTtl)
    /\ r.pc = "stamp" => ReadWithin(r.body, recClock, ExploreTtl, 2 * FitTtl)
    /\ r.pc = "shown" => ShownOK(r)

AnswersInv ==
    /\ recClock \in Nat
    /\ DOMAIN call = Callers /\ DOMAIN bodies = BodyKeys
    /\ current \in Versions
    /\ \A k \in BodyKeys : KeptOK(k)
    /\ \A c \in Callers : CallOK(call[c])

(* The impressions are numbered.                                           *)
Numbered ==
    /\ IsFiniteSet(showings)
    /\ \A r \in showings : r.id \in 1..Cardinality(showings)

(* An id on a page has its row.                                            *)
PageOK(c) ==
    \A n \in DOMAIN call[c].page :
        call[c].page[n] # 0 =>
            \E r \in showings :
                /\ r.id = call[c].page[n] /\ r.who = call[c].who
                /\ r.item = call[c].items[n] /\ r.position = n
                /\ r.policy = PolicyOf(call[c].body.by)

PagesDiffer(c, d) ==
    \A n \in DOMAIN call[c].page, m \in DOMAIN call[d].page :
        call[c].page[n] = call[d].page[m] => call[c].page[n] = 0

ImpressionInv ==
    /\ Numbered
    /\ \A c \in Answered : PageOK(c)
    /\ \A c \in Answered : \A d \in Answered \ {c} : PagesDiffer(c, d)

LEMMA KeysAreApart ==
    /\ \A v : SimilarKey(v)[1] = "similar" /\ SimilarKey(v)[2] = v
    /\ \A u : ExploreKey(u)[1] = "explore" /\ ExploreKey(u)[2] = u
    /\ \A u : CollectionKey(u)[1] = "collection" /\ CollectionKey(u)[2] = u
    /\ \A u, e : FitKey(u, e)[1] = "fit" /\ FitKey(u, e)[2] = u /\ FitKey(u, e) = <<"fit", u, e>>
    BY DEF SimilarKey, ExploreKey, CollectionKey, FitKey

LEMMA TtlOfKeys ==
    /\ \A v : TtlOf(SimilarKey(v)) = SimilarTtl
    /\ \A u : TtlOf(ExploreKey(u)) = ExploreTtl
    /\ \A u : TtlOf(CollectionKey(u)) = FitTtl
    /\ \A u, e : TtlOf(<<"fit", u, e>>) = FitTtl
    BY DEF SimilarKey, ExploreKey, CollectionKey, TtlOf

LEMMA VersionsAreLists ==
    /\ Heuristic \in Versions /\ \A v \in Versions : v \notin {"explore", "fit"} /\ Listed(Similar[v])
<1>1. Heuristic \in Versions /\ \A v \in Versions : v \notin {"explore", "fit"} /\ Similar[v] \in Seq(STRING)
    BY RankedLists DEF Heuristic, Versions
<1>2. ASSUME NEW s \in Seq(STRING)
      PROVE  Listed(s)
    BY DEF Listed
<1> QED
    BY <1>1, <1>2

(* A request moves on and the caches keep what they may keep.              *)
LEMMA RecMoves ==
    ASSUME AnswersInv, NEW c \in Callers, NEW r, call' = [call EXCEPT ![c] = r], CallOK(r),
           recClock' = recClock, current' = current, DOMAIN bodies' = BodyKeys,
           \A k \in BodyKeys : KeptOK(k)'
    PROVE  AnswersInv'
<1>1. \A d \in Callers : CallOK(call[d]) /\ DOMAIN call = Callers
    BY DEF AnswersInv
<1>2. DOMAIN call' = Callers /\ \A d \in Callers : call'[d] = (IF d = c THEN r ELSE call[d])
    BY <1>1
<1>3. ASSUME NEW d \in Callers
      PROVE  CallOK(call[d])'
  <2>1. PICK s : s = call'[d]
      OBVIOUS
  <2>2. CallOK(s)
      BY <1>1, <1>2, <2>1
  <2> QED
      BY <2>1, <2>2 DEF CallOK, Asked, ShownOK, ReadWithin, BodyOK, Listed
<1> QED
    BY <1>2, <1>3 DEF AnswersInv

LEMMA RecStays ==
    ASSUME AnswersInv, NEW c \in Callers, NEW r, call' = [call EXCEPT ![c] = r], CallOK(r),
           UNCHANGED <<recClock, bodies, current>>
    PROVE  AnswersInv'
<1>1. recClock' = recClock /\ bodies' = bodies /\ current' = current
    OBVIOUS
<1>2. DOMAIN bodies' = BodyKeys
    BY <1>1 DEF AnswersInv
<1>3. \A k \in BodyKeys : KeptOK(k)'
    BY <1>1 DEF AnswersInv, KeptOK
<1> QED
    BY <1>1, <1>2, <1>3, RecMoves

LEMMA NoCallIsOK == CallOK(NoCall)
    BY DEF CallOK, NoCall, CallPcs

(* A body is stored under its key, or not.                                 *)
LEMMA RecStores ==
    ASSUME AnswersInv, NEW c \in Callers, NEW r, call' = [call EXCEPT ![c] = r], CallOK(r),
           UNCHANGED <<recClock, current>>, NEW k \in BodyKeys, NEW b, SetBody(k, b),
           IF k[1] = "collection" THEN b.of = k[2] /\ b.read = recClock
           ELSE BodyOK(k, b) /\ ReadWithin(b, recClock, 1, FitTtl)
    PROVE  AnswersInv'
<1>1. recClock' = recClock /\ current' = current
    OBVIOUS
<1>2. CASE bodies' = bodies
    BY <1>1, <1>2, RecStays
<1>3. CASE bodies' = [bodies EXCEPT ![k] = [at |-> recClock, body |-> b]]
  <2>1. DOMAIN bodies' = BodyKeys
      BY <1>3 DEF AnswersInv
  <2>2. bodies'[k] = [at |-> recClock, body |-> b] /\ \A x \in BodyKeys \ {k} : bodies'[x] = bodies[x]
      BY <1>3 DEF AnswersInv
  <2>3. ASSUME NEW x \in BodyKeys
        PROVE  KeptOK(x)'
    <3>1. CASE x # k
        BY <1>1, <2>2, <3>1 DEF AnswersInv, KeptOK
    <3>2. CASE x = k
      <4>1. PICK e : e = bodies'[k]
          OBVIOUS
      <4>2. e.at = recClock /\ e.body = b
          BY <2>2, <4>1
      <4>3. recClock \in Nat /\ TtlOf(k) \in Nat \ {0}
          BY RecBounds, TtlOfKeys DEF AnswersInv, BodyKeys
      <4>4. e.at \in Int /\ e.at <= recClock' /\ recClock' < e.at + TtlOf(k)
          BY <1>1, <4>2, <4>3
      <4>5. IF k[1] = "collection" THEN e.body.of = k[2] /\ e.body.read = e.at
            ELSE BodyOK(k, e.body) /\ ReadWithin(e.body, e.at, 1, FitTtl)
          BY <4>2
      <4> QED
          BY <3>2, <4>1, <4>4, <4>5 DEF KeptOK
    <3> QED
        BY <3>1, <3>2
  <2> QED
      BY <1>1, <2>1, <2>3, RecMoves
<1> QED
    BY <1>2, <1>3 DEF SetBody

LEMMA RecAsks ==
    ASSUME AnswersInv, NEW c \in Callers, AskPersonal(c)
    PROVE  AnswersInv'
<1>1. UNCHANGED <<recClock, bodies, current>>
    BY DEF AskPersonal
<1>2. PICK who \in Collectors \cup {"anonymous"}, via \in {"jwt", "app"},
           surface \in {"similar", "explore", "fit"}, limit \in Limits :
         /\ who = "anonymous" => surface = "similar"
         /\ via = "app" => surface = "fit"
         /\ call' = [call EXCEPT ![c] =
                [pc |-> IF surface = "similar" THEN "list" ELSE "cached", who |-> who, via |-> via,
                 surface |-> surface, limit |-> limit,
                 list |-> IF surface = "similar" THEN Heuristic ELSE surface,
                 key |-> CASE surface = "explore" -> ExploreKey(who)
                           [] surface = "fit" -> FitKey(who, via = "jwt")
                           [] OTHER -> SimilarKey(Heuristic)]]
    BY DEF AskPersonal
<1>3. PICK k : k = CASE surface = "explore" -> ExploreKey(who)
                     [] surface = "fit" -> FitKey(who, via = "jwt")
                     [] OTHER -> SimilarKey(Heuristic)
    OBVIOUS
<1>4. PICK pc : pc = IF surface = "similar" THEN "list" ELSE "cached"
    OBVIOUS
<1>5. PICK l : l = IF surface = "similar" THEN Heuristic ELSE surface
    OBVIOUS
<1>6. PICK r : r = [pc |-> pc, who |-> who, via |-> via, surface |-> surface, limit |-> limit,
                    list |-> l, key |-> k]
    OBVIOUS
<1>7. /\ DOMAIN r = {"pc", "who", "via", "surface", "limit", "list", "key"}
      /\ r.pc = pc /\ r.who = who /\ r.via = via /\ r.surface = surface /\ r.limit = limit
      /\ r.list = l /\ r.key = k
    BY <1>6
<1>8. Asked(r)
  <2>1. CASE surface = "similar"
      BY <1>3, <1>5, <1>7, <2>1, VersionsAreLists DEF Asked
  <2>2. CASE surface = "explore"
      BY <1>2, <1>3, <1>5, <1>7, <2>2 DEF Asked
  <2>3. CASE surface = "fit"
    <3>1. k = FitKey(who, via = "jwt")
        BY <1>3, <2>3
    <3>2. r.key = FitKey(r.who, r.via = "jwt")
        BY <1>7, <3>1
    <3> QED
        BY <1>2, <1>5, <1>7, <2>3, <3>2 DEF Asked
  <2> QED
      BY <2>1, <2>2, <2>3
<1>9. CallOK(r)
    BY <1>4, <1>7, <1>8 DEF CallOK, CallPcs
<1>10. call' = [call EXCEPT ![c] = r]
    BY <1>2, <1>3, <1>4, <1>5, <1>6
<1> QED
    BY <1>1, <1>9, <1>10, RecStays

(* A request that goes on with the same question.                          *)
LEMMA AskedStays ==
    ASSUME NEW r, Asked(r), NEW f, NEW s, s = Written(r, f),
           "pc" \in DOMAIN f,
           \A x \in {"who", "via", "surface", "limit", "list", "key"} : x \notin DOMAIN f
    PROVE  Asked(s)
<1>1. DOMAIN s = DOMAIN f \cup DOMAIN r
    BY DEF Written
<1>2. \A x \in DOMAIN r \ DOMAIN f : s[x] = r[x]
    BY DEF Written
<1>3. {"who", "via", "surface", "limit", "list", "key"} \subseteq DOMAIN r \ DOMAIN f
    BY DEF Asked
<1>4. /\ s.who = r.who /\ s.via = r.via /\ s.surface = r.surface
      /\ s.key = r.key /\ s.list = r.list /\ s.limit = r.limit
    BY <1>2, <1>3
<1> QED
    BY <1>1, <1>4 DEF Asked

LEMMA RecLists ==
    ASSUME AnswersInv, NEW c \in Callers, GetCurrentList(c)
    PROVE  AnswersInv'
<1>0. CallOK(call[c]) /\ call[c].pc = "list" /\ current \in Versions
    BY DEF AnswersInv, GetCurrentList
<1>1. UNCHANGED <<recClock, bodies, current>> /\ Asked(call[c]) /\ call[c].surface = "similar"
    BY <1>0 DEF CallOK, GetCurrentList
<1>2. CASE Move(c, [pc |-> "cached"])
  <2>1. PICK f : f = [pc |-> "cached"]
      OBVIOUS
  <2>9. "pc" \in DOMAIN f /\ \A x \in {"who", "via", "surface", "limit", "list", "key"} : x \notin DOMAIN f
      BY <2>1
  <2>2. PICK r : r = Written(call[c], f)
      OBVIOUS
  <2>3. Asked(r) /\ r.pc = "cached"
    <3>1. Asked(r)
        BY <1>1, <2>2, <2>9, AskedStays
    <3>2. r.pc = "cached"
        BY <1>1, <2>1, <2>2 DEF Written, Asked
    <3> QED
        BY <3>1, <3>2
  <2>4. CallOK(r)
      BY <2>3 DEF CallOK, CallPcs
  <2>5. call' = [call EXCEPT ![c] = r]
      BY <1>2, <2>1, <2>2 DEF Move
  <2> QED
      BY <1>1, <2>4, <2>5, RecStays
<1>3. CASE Move(c, [pc |-> "cached", list |-> current, key |-> SimilarKey(current)])
  <2>0. PICK k : k = SimilarKey(current)
      OBVIOUS
  <2>1. PICK f : f = [pc |-> "cached", list |-> current, key |-> k]
      OBVIOUS
  <2>2. PICK r : r = Written(call[c], f)
      OBVIOUS
  <2>3. DOMAIN r = DOMAIN call[c] \cup {"pc", "list", "key"} /\ r.pc = "cached" /\ r.list = current /\ r.key = k
      BY <2>1, <2>2 DEF Written
  <2>4. r.who = call[c].who /\ r.surface = "similar" /\ r.limit = call[c].limit
      BY <1>1, <2>1, <2>2 DEF Written, Asked
  <2>5. Asked(r)
      BY <1>0, <1>1, <2>0, <2>3, <2>4 DEF Asked
  <2>6. CallOK(r)
      BY <2>3, <2>5 DEF CallOK, CallPcs
  <2>7. call' = [call EXCEPT ![c] = r]
      BY <1>3, <2>0, <2>1, <2>2 DEF Move
  <2> QED
      BY <1>1, <2>6, <2>7, RecStays
<1> QED
    BY <1>2, <1>3 DEF GetCurrentList

(* The body of a key that is still kept.                                   *)
LEMMA KeyOfAsked ==
    ASSUME NEW r, Asked(r)
    PROVE  /\ r.key \in BodyKeys
           /\ r.key[1] = r.surface
           /\ r.key[1] \in {"similar", "explore", "fit"}
           /\ TtlOf(r.key) = (CASE r.surface = "similar" -> SimilarTtl [] r.surface = "explore" -> ExploreTtl
                                [] OTHER -> FitTtl)
<1>1. CASE r.surface = "similar"
    BY <1>1, KeysAreApart, TtlOfKeys DEF Asked, BodyKeys
<1>2. CASE r.surface = "explore"
    BY <1>2, KeysAreApart, TtlOfKeys DEF Asked, BodyKeys
<1>3. CASE r.surface = "fit"
  <2>1. PICK e \in BOOLEAN : e = (r.via = "jwt")
      OBVIOUS
  <2>2. r.key = <<"fit", r.who, e>> /\ r.who \in Collectors
      BY <1>3, <2>1 DEF Asked, FitKey
  <2>3. r.key \in BodyKeys
      BY <2>2 DEF BodyKeys
  <2> QED
      BY <1>3, <2>2, <2>3, TtlOfKeys
<1> QED
    BY <1>1, <1>2, <1>3 DEF Asked

LEMMA KeptIsRecent ==
    ASSUME AnswersInv, NEW r, Asked(r), Fresh(r.key), NEW b, b = bodies[r.key].body
    PROVE  BodyOK(r.key, b) /\ ReadWithin(b, recClock, ExploreTtl, 2 * FitTtl)
<1>0. r.key \in BodyKeys /\ r.key[1] # "collection" /\ KeptOK(r.key)
    BY KeyOfAsked DEF AnswersInv
<1>1. PICK e : e = bodies[r.key]
    OBVIOUS
<1>2. /\ e.at \in Int /\ e.at <= recClock /\ recClock < e.at + TtlOf(r.key)
      /\ BodyOK(r.key, b) /\ ReadWithin(b, e.at, 1, FitTtl)
    BY <1>0, <1>1 DEF KeptOK, Fresh
<1>3. /\ b.by = "explore" => TtlOf(r.key) = ExploreTtl
      /\ b.by = "fit" => TtlOf(r.key) = FitTtl
    BY <1>2, TtlOfKeys, VersionsAreLists DEF BodyOK
<1>4. recClock \in Nat /\ ExploreTtl \in Nat /\ FitTtl \in Nat
    BY RecBounds DEF AnswersInv
<1> QED
    BY <1>2, <1>3, <1>4 DEF ReadWithin

LEMMA RecGets ==
    ASSUME AnswersInv, NEW c \in Callers, GetBody(c)
    PROVE  AnswersInv'
<1>0. CallOK(call[c]) /\ call[c].pc = "cached"
    BY DEF AnswersInv, GetBody
<1>1. UNCHANGED <<recClock, bodies, current>> /\ Asked(call[c])
    BY <1>0 DEF CallOK, GetBody
<1>2. PICK computing : computing = CASE call[c].key[1] = "similar" -> "rank"
                                     [] call[c].key[1] = "explore" -> "traverse" [] OTHER -> "context"
    OBVIOUS
<1>3. CASE Move(c, [pc |-> computing])
  <2>1. PICK f : f = [pc |-> computing]
      OBVIOUS
  <2>9. "pc" \in DOMAIN f /\ \A x \in {"who", "via", "surface", "limit", "list", "key"} : x \notin DOMAIN f
      BY <2>1
  <2>2. PICK r : r = Written(call[c], f)
      OBVIOUS
  <2>3. Asked(r) /\ r.pc = computing /\ r.surface = call[c].surface
    <3>1. Asked(r)
        BY <1>1, <2>2, <2>9, AskedStays
    <3>2. r.pc = computing /\ r.surface = call[c].surface
        BY <1>1, <2>1, <2>2 DEF Written, Asked
    <3> QED
        BY <3>1, <3>2
  <2>4. \/ computing = "rank" /\ call[c].surface = "similar"
        \/ computing = "traverse" /\ call[c].surface = "explore"
        \/ computing = "context" /\ call[c].surface = "fit"
      BY <1>1, <1>2, KeyOfAsked
  <2>5. CallOK(r)
      BY <2>3, <2>4 DEF CallOK, CallPcs
  <2>6. call' = [call EXCEPT ![c] = r]
      BY <1>3, <2>1, <2>2 DEF Move
  <2> QED
      BY <1>1, <2>5, <2>6, RecStays
<1>4. CASE Fresh(call[c].key) /\ Move(c, [pc |-> "stamp", body |-> bodies[call[c].key].body])
  <2>0. PICK b : b = bodies[call[c].key].body
      OBVIOUS
  <2>1. PICK f : f = [pc |-> "stamp", body |-> b]
      OBVIOUS
  <2>9. "pc" \in DOMAIN f /\ \A x \in {"who", "via", "surface", "limit", "list", "key"} : x \notin DOMAIN f
      BY <2>1
  <2>2. PICK r : r = Written(call[c], f)
      OBVIOUS
  <2>3. Asked(r) /\ r.pc = "stamp" /\ r.key = call[c].key
    <3>1. Asked(r)
        BY <1>1, <2>2, <2>9, AskedStays
    <3>2. r.pc = "stamp" /\ r.key = call[c].key
        BY <1>1, <2>1, <2>2 DEF Written, Asked
    <3> QED
        BY <3>1, <3>2
  <2>4. "body" \in DOMAIN r /\ r.body = b
      BY <2>1, <2>2 DEF Written
  <2>5. BodyOK(r.key, r.body) /\ ReadWithin(r.body, recClock, ExploreTtl, 2 * FitTtl)
      BY <1>1, <1>4, <2>0, <2>3, <2>4, KeptIsRecent
  <2>6. CallOK(r)
      BY <2>3, <2>4, <2>5 DEF CallOK, CallPcs
  <2>7. call' = [call EXCEPT ![c] = r]
      BY <1>4, <2>0, <2>1, <2>2 DEF Move
  <2> QED
      BY <1>1, <2>6, <2>7, RecStays
<1> QED
    BY <1>2, <1>3, <1>4 DEF GetBody

(* A computed body.                                                        *)
LEMMA RecComputed ==
    ASSUME AnswersInv, NEW c \in Callers, Asked(call[c]), NEW b,
           BodyOK(call[c].key, b), ReadWithin(b, recClock, 1, FitTtl),
           Move(c, [pc |-> "set", body |-> b]), UNCHANGED <<recClock, bodies, current>>
    PROVE  AnswersInv'
<1>1. PICK f : f = [pc |-> "set", body |-> b]
    OBVIOUS
<1>2. PICK r : r = Written(call[c], f)
    OBVIOUS
<1>3. "pc" \in DOMAIN f /\ \A x \in {"who", "via", "surface", "limit", "list", "key"} : x \notin DOMAIN f
    BY <1>1
<1>4. Asked(r)
    BY <1>2, <1>3, AskedStays
<1>5. "body" \in DOMAIN r /\ r.body = b /\ r.pc = "set" /\ r.key = call[c].key
    BY <1>1, <1>2 DEF Written, Asked
<1>6. CallOK(r)
    BY <1>4, <1>5 DEF CallOK, CallPcs
<1>7. call' = [call EXCEPT ![c] = r]
    BY <1>1, <1>2 DEF Move
<1> QED
    BY <1>6, <1>7, RecStays

LEMMA RecRanks ==
    ASSUME AnswersInv, NEW c \in Callers, RankSimilar(c)
    PROVE  AnswersInv'
<1>0. CallOK(call[c]) /\ call[c].pc = "rank"
    BY DEF AnswersInv, RankSimilar
<1>1. /\ UNCHANGED <<recClock, bodies, current>> /\ Asked(call[c]) /\ call[c].surface = "similar"
      /\ call[c].list \in Versions /\ call[c].key = SimilarKey(call[c].list)
    BY <1>0 DEF CallOK, Asked, RankSimilar
<1>2. ASSUME NEW v \in Versions, NEW b, b = [items |-> Similar[v], by |-> v]
      PROVE  BodyOK(SimilarKey(v), b) /\ ReadWithin(b, recClock, 1, FitTtl)
  <2>1. b.items = Similar[v] /\ b.by = v
      BY <1>2
  <2> QED
      BY <2>1, VersionsAreLists DEF BodyOK, ReadWithin
<1>3. CASE Move(c, [pc |-> "set", body |-> [items |-> Similar[call[c].list], by |-> call[c].list]])
  <2>1. PICK b : b = [items |-> Similar[call[c].list], by |-> call[c].list]
      OBVIOUS
  <2>2. BodyOK(call[c].key, b) /\ ReadWithin(b, recClock, 1, FitTtl)
      BY <1>1, <1>2, <2>1
  <2> QED
      BY <1>1, <1>3, <2>1, <2>2, RecComputed
<1>4. CASE Move(c, [pc |-> "set", list |-> Heuristic, key |-> FallbackKey(call[c].key),
                    body |-> [items |-> Similar[Heuristic], by |-> Heuristic]])
  <2>1. PICK b : b = [items |-> Similar[Heuristic], by |-> Heuristic]
      OBVIOUS
  <2>2. PICK k : k = SimilarKey(Heuristic)
      OBVIOUS
  <2>3. PICK f : f = [pc |-> "set", list |-> Heuristic, key |-> k, body |-> b]
      OBVIOUS
  <2>4. PICK r : r = Written(call[c], f)
      OBVIOUS
  <2>5. /\ DOMAIN r = DOMAIN call[c] \cup {"pc", "list", "key", "body"} /\ r.pc = "set"
        /\ r.list = Heuristic /\ r.key = k /\ r.body = b
      BY <2>3, <2>4 DEF Written
  <2>6. r.who = call[c].who /\ r.surface = "similar" /\ r.limit = call[c].limit
      BY <1>1, <2>3, <2>4 DEF Written, Asked
  <2>7. Asked(r)
      BY <1>1, <2>2, <2>5, <2>6, VersionsAreLists DEF Asked
  <2>8. BodyOK(r.key, r.body) /\ ReadWithin(r.body, recClock, 1, FitTtl)
      BY <1>2, <2>1, <2>2, <2>5, VersionsAreLists
  <2>9. CallOK(r)
      BY <2>5, <2>7, <2>8 DEF CallOK, CallPcs
  <2>10. call' = [call EXCEPT ![c] = r]
      BY <1>4, <2>1, <2>2, <2>3, <2>4 DEF Move, FallbackKey
  <2> QED
      BY <1>1, <2>9, <2>10, RecStays
<1> QED
    BY <1>3, <1>4 DEF RankSimilar

LEMMA DiscoveriesAreListed == \A shelf : Listed(ScoreDiscoveries(shelf))
<1> TAKE shelf
<1>1. PICK s : s = ScoreDiscoveries(shelf)
    OBVIOUS
<1>2. PICK n : n = Len(Found)
    OBVIOUS
<1>3. n \in Nat
    BY <1>2, FoundThings
<1>4. DOMAIN s = 1..n /\ s = [i \in 1..n |-> s[i]]
    BY <1>1, <1>2 DEF ScoreDiscoveries
<1>5. s \in Seq({s[i] : i \in 1..n})
    BY <1>3, <1>4, SeqDef
<1>6. Len(s) = n
    BY <1>3, <1>4, <1>5, LenProperties
<1> QED
    BY <1>1, <1>3, <1>5, <1>6 DEF Listed

LEMMA RecTraverses ==
    ASSUME AnswersInv, NEW c \in Callers, Traverse(c)
    PROVE  AnswersInv'
<1>0. CallOK(call[c]) /\ call[c].pc = "traverse" /\ recClock \in Nat
    BY DEF AnswersInv, Traverse
<1>1. /\ UNCHANGED <<recClock, bodies, current>> /\ Asked(call[c]) /\ call[c].surface = "explore"
      /\ call[c].who \in Collectors /\ call[c].key = ExploreKey(call[c].who)
    BY <1>0 DEF CallOK, Asked, Traverse
<1>2. CASE call' = [call EXCEPT ![c] = NoCall]
    BY <1>1, <1>2, NoCallIsOK, RecStays
<1>3. CASE Move(c, [pc |-> "set",
                    body |-> [items |-> ScoreDiscoveries(shelves[call[c].who]), by |-> "explore",
                              of |-> call[c].who, read |-> recClock]])
  <2>1. PICK b : b = [items |-> ScoreDiscoveries(shelves[call[c].who]), by |-> "explore",
                      of |-> call[c].who, read |-> recClock]
      OBVIOUS
  <2>2. /\ b.items = ScoreDiscoveries(shelves[call[c].who]) /\ b.by = "explore"
        /\ b.of = call[c].who /\ b.read = recClock
      BY <2>1
  <2>3. BodyOK(call[c].key, b) /\ ReadWithin(b, recClock, 1, FitTtl)
    <3>1. Listed(b.items)
        BY <2>2, DiscoveriesAreListed
    <3>2. BodyOK(call[c].key, b)
        BY <1>1, <2>2, <3>1 DEF BodyOK
    <3> QED
        BY <1>0, <2>2, <3>2 DEF ReadWithin
  <2> QED
      BY <1>1, <1>3, <2>1, <2>3, RecComputed
<1> QED
    BY <1>2, <1>3 DEF Traverse

(* The fit of a release, up to its body.                                   *)
LEMMA RecFolds ==
    ASSUME AnswersInv, NEW c \in Callers,
           GetReleaseContext(c) \/ GetCollectionIds(c) \/ FoldCollection(c)
    PROVE  AnswersInv'
<1>0. CallOK(call[c]) /\ call[c].pc \in {"context", "collection", "read"} /\ recClock \in Nat
    BY DEF AnswersInv, GetReleaseContext, GetCollectionIds, FoldCollection
<1>1. /\ UNCHANGED <<recClock, bodies, current>> /\ Asked(call[c]) /\ call[c].surface = "fit"
      /\ call[c].who \in Collectors
    BY <1>0 DEF CallOK, Asked, GetReleaseContext, GetCollectionIds, FoldCollection
<1>2. CASE call' = [call EXCEPT ![c] = NoCall]
    BY <1>1, <1>2, NoCallIsOK, RecStays
<1>3. ASSUME NEW p \in {"collection", "read"}, Move(c, [pc |-> p])
      PROVE  AnswersInv'
  <2>1. PICK f : f = [pc |-> p]
      OBVIOUS
  <2>9. "pc" \in DOMAIN f /\ \A x \in {"who", "via", "surface", "limit", "list", "key"} : x \notin DOMAIN f
      BY <2>1
  <2>2. PICK r : r = Written(call[c], f)
      OBVIOUS
  <2>3. Asked(r)
      BY <1>1, <2>2, <2>9, AskedStays
  <2>4. r.pc = p /\ r.surface = "fit"
      BY <1>1, <2>1, <2>2 DEF Written, Asked
  <2>5. CallOK(r)
      BY <2>3, <2>4 DEF CallOK, CallPcs
  <2>6. call' = [call EXCEPT ![c] = r]
      BY <1>3, <2>1, <2>2 DEF Move
  <2> QED
      BY <1>1, <2>5, <2>6, RecStays
<1>4. ASSUME NEW p \in {"keep", "fit"}, NEW b, Move(c, [pc |-> p, folded |-> b]), b.of = call[c].who,
             b.read \in Int, b.read <= recClock, p = "keep" => b.read = recClock,
             p = "fit" => recClock - b.read < FitTtl
      PROVE  AnswersInv'
  <2>1. PICK f : f = [pc |-> p, folded |-> b]
      OBVIOUS
  <2>9. "pc" \in DOMAIN f /\ \A x \in {"who", "via", "surface", "limit", "list", "key"} : x \notin DOMAIN f
      BY <2>1
  <2>2. PICK r : r = Written(call[c], f)
      OBVIOUS
  <2>3. Asked(r)
      BY <1>1, <2>2, <2>9, AskedStays
  <2>4. r.pc = p /\ r.surface = "fit" /\ r.who = call[c].who
      BY <1>1, <2>1, <2>2 DEF Written, Asked
  <2>5. "folded" \in DOMAIN r /\ r.folded = b
      BY <2>1, <2>2 DEF Written
  <2>6. CallOK(r)
      BY <1>4, <2>3, <2>4, <2>5 DEF CallOK, CallPcs
  <2>7. call' = [call EXCEPT ![c] = r]
      BY <1>4, <2>1, <2>2 DEF Move
  <2> QED
      BY <1>1, <2>6, <2>7, RecStays
<1>5. CASE FoldCollection(c)
  <2>1. PICK b : b = [of |-> call[c].who, shelf |-> shelves[call[c].who], read |-> recClock]
      OBVIOUS
  <2>2. b.of = call[c].who /\ b.read = recClock
      BY <2>1
  <2>3. Move(c, [pc |-> "keep", folded |-> b])
      BY <1>5, <2>1 DEF FoldCollection
  <2> QED
      BY <1>0, <1>4, <2>2, <2>3
<1>6. CASE /\ Fresh(CollectionKey(call[c].who))
           /\ Move(c, [pc |-> "fit", folded |-> bodies[CollectionKey(call[c].who)].body])
  <2>1. PICK k \in BodyKeys : k = CollectionKey(call[c].who)
      BY <1>1 DEF BodyKeys
  <2>2. k[1] = "collection" /\ k[2] = call[c].who /\ TtlOf(k) = FitTtl
      BY <2>1, KeysAreApart, TtlOfKeys
  <2>3. PICK e : e = bodies[k]
      OBVIOUS
  <2>4. /\ e.at \in Int /\ e.at <= recClock /\ recClock < e.at + FitTtl
        /\ e.body.of = call[c].who /\ e.body.read = e.at
      BY <1>6, <2>1, <2>2, <2>3 DEF AnswersInv, KeptOK, Fresh
  <2>5. recClock - e.body.read < FitTtl
      BY <1>0, <2>4, RecBounds
  <2>6. Move(c, [pc |-> "fit", folded |-> e.body])
      BY <1>6, <2>1, <2>3
  <2> QED
      BY <1>4, <2>4, <2>5, <2>6
<1> QED
    BY <1>2, <1>3, <1>5, <1>6 DEF GetReleaseContext, GetCollectionIds

LEMMA RecKeepsCollection ==
    ASSUME AnswersInv, NEW c \in Callers, SetCollection(c)
    PROVE  AnswersInv'
<1>0. CallOK(call[c]) /\ call[c].pc = "keep" /\ recClock \in Nat
    BY DEF AnswersInv, SetCollection
<1>1. /\ Asked(call[c]) /\ call[c].surface = "fit" /\ call[c].who \in Collectors
      /\ "folded" \in DOMAIN call[c] /\ call[c].folded.of = call[c].who
      /\ call[c].folded.read = recClock
    BY <1>0 DEF CallOK, Asked
<1>2. PICK k \in BodyKeys : k = CollectionKey(call[c].who)
    BY <1>1 DEF BodyKeys
<1>3. k[1] = "collection" /\ k[2] = call[c].who
    BY <1>2, KeysAreApart
<1>4. PICK b : b = call[c].folded
    OBVIOUS
<1>5. PICK f : f = [pc |-> "fit"]
    OBVIOUS
<1>6. "pc" \in DOMAIN f /\ \A x \in {"who", "via", "surface", "limit", "list", "key"} : x \notin DOMAIN f
    BY <1>5
<1>7. PICK r : r = Written(call[c], f)
    OBVIOUS
<1>8. Asked(r)
    BY <1>1, <1>6, <1>7, AskedStays
<1>9. /\ r.pc = "fit" /\ r.surface = "fit" /\ r.who = call[c].who
      /\ "folded" \in DOMAIN r /\ r.folded = b
    BY <1>1, <1>4, <1>5, <1>7 DEF Written, Asked
<1>10. CallOK(r)
    BY <1>0, <1>1, <1>4, <1>8, <1>9, RecBounds DEF CallOK, CallPcs
<1>11. call' = [call EXCEPT ![c] = r] /\ SetBody(k, b) /\ UNCHANGED <<recClock, current>>
    BY <1>2, <1>4, <1>5, <1>7 DEF SetCollection, Move
<1>12. b.of = k[2] /\ b.read = recClock
    BY <1>1, <1>3, <1>4
<1> QED
    BY <1>3, <1>10, <1>11, <1>12, RecStores

LEMMA RecFits ==
    ASSUME AnswersInv, NEW c \in Callers, ComputeFit(c)
    PROVE  AnswersInv'
<1>0. CallOK(call[c]) /\ call[c].pc = "fit" /\ recClock \in Nat
    BY DEF AnswersInv, ComputeFit
<1>1. /\ Asked(call[c]) /\ call[c].surface = "fit" /\ call[c].who \in Collectors
      /\ call[c].folded.of = call[c].who /\ call[c].folded.read \in Int
      /\ call[c].folded.read <= recClock /\ recClock - call[c].folded.read < FitTtl
      /\ call[c].key = FitKey(call[c].who, call[c].via = "jwt")
    BY <1>0 DEF CallOK, Asked
<1>2. PICK e \in BOOLEAN : e = (call[c].via = "jwt")
    OBVIOUS
<1>3. PICK items : items = <<"release">>
    OBVIOUS
<1>4. PICK b : b = [items |-> items, by |-> "fit", of |-> call[c].folded.of,
                    read |-> call[c].folded.read, entries |-> e]
    OBVIOUS
<1>5. /\ b.items = items /\ b.by = "fit" /\ b.of = call[c].who /\ b.read = call[c].folded.read
      /\ b.entries = e
    BY <1>1, <1>4
<1>6. Listed(items)
    BY <1>3 DEF Listed
<1>7. BodyOK(call[c].key, b)
  <2>1. call[c].key = <<"fit", call[c].who, e>>
      BY <1>1, <1>2 DEF FitKey
  <2> QED
      BY <1>1, <1>5, <1>6, <2>1 DEF BodyOK
<1>8. ReadWithin(b, recClock, 1, FitTtl)
    BY <1>1, <1>5 DEF ReadWithin
<1>9. Move(c, [pc |-> "set", body |-> b])
    BY <1>2, <1>3, <1>4 DEF ComputeFit
<1>10. UNCHANGED <<recClock, bodies, current>>
    BY DEF ComputeFit
<1> QED
    BY <1>1, <1>7, <1>8, <1>9, <1>10, RecComputed

LEMMA RecCaches ==
    ASSUME AnswersInv, NEW c \in Callers, CacheBody(c)
    PROVE  AnswersInv'
<1>0. CallOK(call[c]) /\ call[c].pc = "set" /\ recClock \in Nat
    BY DEF AnswersInv, CacheBody
<1>1. /\ Asked(call[c]) /\ "body" \in DOMAIN call[c] /\ BodyOK(call[c].key, call[c].body)
      /\ ReadWithin(call[c].body, recClock, 1, FitTtl)
    BY <1>0 DEF CallOK
<1>2. PICK k \in BodyKeys : k = call[c].key /\ k[1] # "collection"
    BY <1>1, KeyOfAsked
<1>3. PICK b : b = call[c].body
    OBVIOUS
<1>4. PICK f : f = [pc |-> "stamp"]
    OBVIOUS
<1>5. "pc" \in DOMAIN f /\ \A x \in {"who", "via", "surface", "limit", "list", "key"} : x \notin DOMAIN f
    BY <1>4
<1>6. PICK r : r = Written(call[c], f)
    OBVIOUS
<1>7. Asked(r)
    BY <1>1, <1>5, <1>6, AskedStays
<1>8. r.pc = "stamp" /\ r.key = k /\ "body" \in DOMAIN r /\ r.body = b
    BY <1>1, <1>2, <1>3, <1>4, <1>6 DEF Written, Asked
<1>9. BodyOK(k, b) /\ ReadWithin(b, recClock, 1, FitTtl)
    BY <1>1, <1>2, <1>3
<1>10. ReadWithin(b, recClock, ExploreTtl, 2 * FitTtl)
    BY <1>0, <1>9, RecBounds DEF ReadWithin
<1>11. CallOK(r)
    BY <1>7, <1>8, <1>9, <1>10 DEF CallOK, CallPcs
<1>12. call' = [call EXCEPT ![c] = r] /\ SetBody(k, b) /\ UNCHANGED <<recClock, current>>
    BY <1>2, <1>3, <1>4, <1>6 DEF CacheBody, Move
<1> QED
    BY <1>2, <1>9, <1>11, <1>12, RecStores

LEMMA RecStamps ==
    ASSUME AnswersInv, NEW c \in Callers, StampImpressions(c)
    PROVE  AnswersInv'
<1>0. CallOK(call[c]) /\ call[c].pc = "stamp" /\ recClock \in Nat
    BY DEF AnswersInv, StampImpressions
<1>1. /\ Asked(call[c]) /\ BodyOK(call[c].key, call[c].body)
      /\ ReadWithin(call[c].body, recClock, ExploreTtl, 2 * FitTtl)
    BY <1>0 DEF CallOK
<1>2. PICK page :
         call' = [call EXCEPT ![c] =
             [pc |-> "shown", who |-> call[c].who, via |-> call[c].via, body |-> call[c].body,
              items |-> Shown(c), page |-> page, at |-> recClock]]
    BY DEF StampImpressions
<1>3. PICK r : r = [pc |-> "shown", who |-> call[c].who, via |-> call[c].via, body |-> call[c].body,
                    items |-> Shown(c), page |-> page, at |-> recClock]
    OBVIOUS
<1>4. /\ r.pc = "shown" /\ r.who = call[c].who /\ r.via = call[c].via /\ r.body = call[c].body
      /\ r.at = recClock
    BY <1>3
<1>5. call[c].body.by \in {"explore", "fit"} =>
         /\ call[c].body.of = call[c].who
         /\ call[c].body.by = "fit" /\ call[c].body.entries => call[c].via = "jwt"
  <2>1. PICK k : k = call[c].key
      OBVIOUS
  <2>2. ASSUME call[c].body.by = "explore"
        PROVE  call[c].body.of = call[c].who
    <3>1. PICK u \in Collectors : k = ExploreKey(u) /\ call[c].body.of = u
        BY <1>1, <2>1, <2>2, VersionsAreLists DEF BodyOK
    <3>2. k[1] = "explore" /\ k[2] = u
        BY <3>1, KeysAreApart
    <3>3. call[c].surface = "explore" /\ k = ExploreKey(call[c].who)
        BY <1>1, <2>1, <3>2, KeysAreApart DEF Asked
    <3> QED
        BY <3>1, <3>2, <3>3, KeysAreApart
  <2>3. ASSUME call[c].body.by = "fit"
        PROVE  call[c].body.of = call[c].who /\ (call[c].body.entries => call[c].via = "jwt")
    <3>1. PICK u \in Collectors, e \in BOOLEAN :
             k = <<"fit", u, e>> /\ call[c].body.of = u /\ call[c].body.entries = e
        BY <1>1, <2>1, <2>3, VersionsAreLists DEF BodyOK
    <3>2. k[1] = "fit" /\ k[2] = u /\ k[3] = e
        BY <3>1
    <3>3. PICK x \in BOOLEAN : x = (call[c].via = "jwt")
        OBVIOUS
    <3>4. k = <<"fit", call[c].who, x>>
        BY <1>1, <2>1, <3>2, <3>3, KeysAreApart DEF Asked, FitKey
    <3>5. u = call[c].who /\ e = x
        BY <3>2, <3>4
    <3> QED
        BY <3>1, <3>3, <3>5
  <2> QED
      BY <2>2, <2>3
<1>6. ShownOK(r)
    BY <1>1, <1>4, <1>5 DEF ShownOK
<1>7. CallOK(r)
    BY <1>4, <1>6 DEF CallOK, CallPcs
<1>8. call' = [call EXCEPT ![c] = r] /\ UNCHANGED <<recClock, bodies, current>>
    BY <1>2, <1>3 DEF StampImpressions
<1> QED
    BY <1>7, <1>8, RecStays

(* Syncs, sweeps, releases and time.                                       *)
LEMMA RecSurroundings ==
    ASSUME AnswersInv,
           \/ \E u \in Collectors : SyncPage(u) \/ SweepUser(u)
           \/ PublishRelease \/ RecTick
    PROVE  AnswersInv'
<1>1. CASE \E u \in Collectors : SyncPage(u)
  <2>1. recClock' = recClock /\ bodies' = bodies /\ current' = current /\ call' = call
      BY <1>1 DEF SyncPage
  <2> QED
      BY <2>1 DEF AnswersInv, KeptOK, CallOK, ShownOK, ReadWithin
<1>2. ASSUME NEW u \in Collectors, SweepUser(u)
      PROVE  AnswersInv'
  <2>1. recClock' = recClock /\ current' = current /\ call' = call /\ DOMAIN bodies = BodyKeys
      BY <1>2 DEF SweepUser, AnswersInv
  <2>2. DOMAIN bodies' = BodyKeys /\ \A k \in BodyKeys : bodies'[k] \in {bodies[k], NoBody}
      BY <1>2, <2>1 DEF SweepUser
  <2>3. \A k \in BodyKeys : KeptOK(k)'
      BY <2>1, <2>2 DEF AnswersInv, KeptOK
  <2>4. \A d \in Callers : CallOK(call[d])'
      BY <2>1 DEF AnswersInv, CallOK, ShownOK, ReadWithin
  <2> QED
      BY <2>1, <2>2, <2>3, <2>4 DEF AnswersInv
<1>3. CASE PublishRelease
  <2>1. recClock' = recClock /\ bodies' = bodies /\ current' \in Versions /\ call' = call
      BY <1>3 DEF PublishRelease
  <2> QED
      BY <2>1 DEF AnswersInv, KeptOK, CallOK, ShownOK, ReadWithin
<1>4. CASE RecTick
  <2>1. /\ recClock' = recClock + 1 /\ current' = current /\ call' = call
        /\ \A d \in Callers : call[d].pc \in {"idle", "shown"}
        /\ DOMAIN bodies' = BodyKeys
        /\ \A k \in BodyKeys : bodies'[k] = (IF bodies[k] # NoBody /\ recClock' < bodies[k].at + TtlOf(k)
                                             THEN bodies[k] ELSE NoBody)
      BY <1>4 DEF RecTick
  <2>2. ASSUME NEW k \in BodyKeys
        PROVE  KeptOK(k)'
    <3>1. CASE bodies'[k] = NoBody
        BY <3>1 DEF KeptOK
    <3>2. CASE bodies'[k] # NoBody
      <4>1. bodies'[k] = bodies[k] /\ bodies[k] # NoBody /\ recClock' < bodies[k].at + TtlOf(k)
          BY <2>1, <3>2
      <4>2. KeptOK(k) /\ recClock \in Nat
          BY DEF AnswersInv
      <4>3. bodies[k].at \in Int /\ bodies[k].at <= recClock + 1
          BY <4>1, <4>2 DEF KeptOK
      <4> QED
          BY <2>1, <4>1, <4>2, <4>3 DEF KeptOK
    <3> QED
        BY <3>1, <3>2
  <2>3. ASSUME NEW d \in Callers
        PROVE  CallOK(call[d])'
    <3>1. CallOK(call[d]) /\ call[d].pc \in {"idle", "shown"}
        BY <2>1 DEF AnswersInv
    <3>2. PICK r : r = call[d]
        OBVIOUS
    <3>3. call'[d] = r
        BY <2>1, <3>2
    <3> QED
        BY <3>1, <3>2, <3>3 DEF CallOK, ShownOK, ReadWithin
  <2>4. recClock' \in Nat
      BY <2>1 DEF AnswersInv
  <2> QED
      BY <2>1, <2>2, <2>3, <2>4 DEF AnswersInv
<1> QED
    BY <1>1, <1>2, <1>3, <1>4

LEMMA RecInitInv == RecInit => AnswersInv
<1> SUFFICES ASSUME RecInit
             PROVE  AnswersInv
    OBVIOUS
<1>1. \A k \in BodyKeys : KeptOK(k)
    BY DEF RecInit, KeptOK
<1>2. \A c \in Callers : CallOK(call[c])
    BY NoCallIsOK DEF RecInit
<1> QED
    BY <1>1, <1>2 DEF RecInit, AnswersInv

(* What every key of the recommendation caches may hold, whom it belongs   *)
(* to and how old it may be (cache.py, recommend.py, fit_queries.py).      *)
THEOREM AnswersInvariant == Spec => []AnswersInv
<1>1. Init => AnswersInv
    BY RecInitInv DEF Init
<1>2. AnswersInv /\ [Next]_serviceVars => AnswersInv'
  <2> SUFFICES ASSUME AnswersInv, [Next]_serviceVars
               PROVE  AnswersInv'
      OBVIOUS
  <2>1. [RecNext]_recVars
      BY DEF Next, RestOf, serviceVars
  <2>2. CASE UNCHANGED recVars
    <3>1. recClock' = recClock /\ bodies' = bodies /\ current' = current /\ call' = call
        BY <2>2 DEF recVars
    <3> QED
        BY <3>1 DEF AnswersInv, KeptOK, CallOK, ShownOK, ReadWithin
  <2>3. CASE RecNext
      BY <2>3, RecAsks, RecLists, RecGets, RecRanks, RecTraverses, RecFolds, RecKeepsCollection,
         RecFits, RecCaches, RecStamps, RecSurroundings
      DEF RecNext
  <2> QED
      BY <2>1, <2>2, <2>3
<1> QED
    BY <1>1, <1>2, PTL DEF Spec

LEMMA AnswersInvImplies == AnswersInv => PersonalAnswersAreOwn /\ PersonalAnswersAreRecent
<1> SUFFICES ASSUME AnswersInv
             PROVE  PersonalAnswersAreOwn /\ PersonalAnswersAreRecent
    OBVIOUS
<1>1. ASSUME NEW c \in Answered
      PROVE  ShownOK(call[c])
    BY DEF AnswersInv, CallOK, Answered
<1>2. PersonalAnswersAreOwn
    BY <1>1 DEF PersonalAnswersAreOwn, Personal, ShownOK
<1>3. PersonalAnswersAreRecent
    BY <1>1 DEF PersonalAnswersAreRecent, Personal, ShownOK, ReadWithin
<1> QED
    BY <1>2, <1>3

(* Nobody is answered from another's data: NLQ answers, fit and explore    *)
(* bodies and Discogs credentials belong to the one who asked, through     *)
(* every shared cache and key, for any number of requests and users        *)
(* (_cache_key of nlq.py, the keys of recommend.py and fit.py,             *)
(* verify_discogs).                                                        *)
THEOREM ViewersAreServedTheirOwn == Spec => []ViewersSeeTheirOwn
<1>1. NlqInv /\ OauthInv /\ AnswersInv => ViewersSeeTheirOwn
    BY NlqInvImplies, OauthInvImplies, AnswersInvImplies DEF ViewersSeeTheirOwn
<1> QED
    BY <1>1, NlqInvariant, OauthInvariant, AnswersInvariant, PTL

(* A step that shows nothing new.                                          *)
LEMMA ImpressionsStay ==
    ASSUME ImpressionInv, showings' = showings,
           \A d \in Callers : call'[d].pc = "shown" => call'[d] = call[d]
    PROVE  ImpressionInv'
<1>1. \A d \in Answered' : d \in Answered /\ call'[d] = call[d]
    BY DEF Answered
<1>2. Numbered'
    BY DEF ImpressionInv, Numbered
<1>3. ASSUME NEW d \in Answered'
      PROVE  PageOK(d)'
    BY <1>1, <1>3 DEF ImpressionInv, PageOK
<1>4. ASSUME NEW d \in Answered', NEW e \in Answered' \ {d}
      PROVE  PagesDiffer(d, e)'
    BY <1>1, <1>4 DEF ImpressionInv, PagesDiffer
<1> QED
    BY <1>2, <1>3, <1>4 DEF ImpressionInv

LEMMA NothingShown ==
    ASSUME AnswersInv, NEW c \in Callers,
           \/ AskPersonal(c) \/ GetCurrentList(c) \/ GetBody(c) \/ RankSimilar(c) \/ Traverse(c)
           \/ GetReleaseContext(c) \/ GetCollectionIds(c) \/ FoldCollection(c) \/ SetCollection(c)
           \/ ComputeFit(c) \/ CacheBody(c)
    PROVE  /\ showings' = showings
           /\ \A d \in Callers : call'[d].pc = "shown" => call'[d] = call[d]
<1>0. DOMAIN call = Callers
    BY DEF AnswersInv
<1>1. showings' = showings
    BY DEF AskPersonal, GetCurrentList, GetBody, RankSimilar, Traverse, GetReleaseContext,
       GetCollectionIds, FoldCollection, SetCollection, ComputeFit, CacheBody
<1>2. ASSUME NEW f, "pc" \in DOMAIN f, f.pc # "shown", Move(c, f)
      PROVE  \A d \in Callers : call'[d].pc = "shown" => call'[d] = call[d]
  <2>1. PICK r : r = Written(call[c], f)
      OBVIOUS
  <2>2. r.pc # "shown"
      BY <1>2, <2>1 DEF Written
  <2>3. call' = [call EXCEPT ![c] = r]
      BY <1>2, <2>1 DEF Move
  <2> QED
      BY <1>0, <2>2, <2>3
<1>3. ASSUME NEW r, r.pc # "shown", call' = [call EXCEPT ![c] = r]
      PROVE  \A d \in Callers : call'[d].pc = "shown" => call'[d] = call[d]
    BY <1>0, <1>3
<1>4. CASE AskPersonal(c)
  <2>1. PICK who \in Collectors \cup {"anonymous"}, via \in {"jwt", "app"},
             surface \in {"similar", "explore", "fit"}, limit \in Limits :
           /\ who = "anonymous" => surface = "similar"
           /\ via = "app" => surface = "fit"
           /\ call' = [call EXCEPT ![c] =
               [pc |-> IF surface = "similar" THEN "list" ELSE "cached", who |-> who, via |-> via,
                surface |-> surface, limit |-> limit,
                list |-> IF surface = "similar" THEN Heuristic ELSE surface,
                key |-> CASE surface = "explore" -> ExploreKey(who)
                          [] surface = "fit" -> FitKey(who, via = "jwt")
                          [] OTHER -> SimilarKey(Heuristic)]]
      BY <1>4 DEF AskPersonal
  <2>2. PICK r : r = [pc |-> IF surface = "similar" THEN "list" ELSE "cached", who |-> who, via |-> via,
                surface |-> surface, limit |-> limit,
                list |-> IF surface = "similar" THEN Heuristic ELSE surface,
                key |-> CASE surface = "explore" -> ExploreKey(who)
                          [] surface = "fit" -> FitKey(who, via = "jwt")
                          [] OTHER -> SimilarKey(Heuristic)]
      OBVIOUS
  <2>3. r.pc # "shown"
      BY <2>2
  <2>4. call' = [call EXCEPT ![c] = r]
      BY <2>1, <2>2
  <2> QED
      BY <1>1, <1>3, <2>3, <2>4
<1>5. CASE GetBody(c)
  <2>1. PICK p : p = CASE call[c].key[1] = "similar" -> "rank" [] call[c].key[1] = "explore" -> "traverse"
                       [] OTHER -> "context"
      OBVIOUS
  <2>2. p # "shown"
      BY <2>1
  <2>3. \/ Move(c, [pc |-> "stamp", body |-> bodies[call[c].key].body]) \/ Move(c, [pc |-> p])
      BY <1>5, <2>1 DEF GetBody
  <2> QED
      BY <1>1, <1>2, <2>2, <2>3
<1>6. CASE GetCurrentList(c)
  <2>1. \/ Move(c, [pc |-> "cached", list |-> current, key |-> SimilarKey(current)])
        \/ Move(c, [pc |-> "cached"])
      BY <1>6 DEF GetCurrentList
  <2> QED
      BY <1>1, <1>2, <2>1
<1>7. CASE RankSimilar(c)
  <2>1. PICK f : "pc" \in DOMAIN f /\ f.pc = "set" /\ Move(c, f)
    <3>1. PICK g, h : /\ g = [pc |-> "set", body |-> [items |-> Similar[call[c].list], by |-> call[c].list]]
                      /\ h = [pc |-> "set", list |-> Heuristic, key |-> FallbackKey(call[c].key),
                              body |-> [items |-> Similar[Heuristic], by |-> Heuristic]]
        OBVIOUS
    <3>2. Move(c, g) \/ Move(c, h)
        BY <1>7, <3>1 DEF RankSimilar
    <3>3. "pc" \in DOMAIN g /\ g.pc = "set" /\ "pc" \in DOMAIN h /\ h.pc = "set"
        BY <3>1
    <3> QED
        BY <3>2, <3>3
  <2> QED
      BY <1>1, <1>2, <2>1
<1>8. CASE Traverse(c)
  <2>1. PICK f : f = [pc |-> "set",
                      body |-> [items |-> ScoreDiscoveries(shelves[call[c].who]), by |-> "explore",
                                of |-> call[c].who, read |-> recClock]]
      OBVIOUS
  <2>2. Move(c, f) \/ call' = [call EXCEPT ![c] = NoCall]
      BY <1>8, <2>1 DEF Traverse
  <2>3. "pc" \in DOMAIN f /\ f.pc = "set" /\ NoCall.pc = "idle"
      BY <2>1 DEF NoCall
  <2> QED
      BY <1>1, <1>2, <1>3, <2>2, <2>3
<1>9. CASE GetReleaseContext(c)
  <2>1. Move(c, [pc |-> "collection"]) \/ call' = [call EXCEPT ![c] = NoCall]
      BY <1>9 DEF GetReleaseContext
  <2>2. NoCall.pc = "idle"
      BY DEF NoCall
  <2> QED
      BY <1>1, <1>2, <1>3, <2>1, <2>2
<1>10. CASE GetCollectionIds(c)
  <2>1. \/ Move(c, [pc |-> "fit", folded |-> bodies[CollectionKey(call[c].who)].body])
        \/ Move(c, [pc |-> "read"])
      BY <1>10 DEF GetCollectionIds
  <2> QED
      BY <1>1, <1>2, <2>1
<1>11. CASE FoldCollection(c)
  <2>1. PICK b : Move(c, [pc |-> "keep", folded |-> b])
      BY <1>11 DEF FoldCollection
  <2> QED
      BY <1>1, <1>2, <2>1
<1>12. CASE SetCollection(c) \/ CacheBody(c)
  <2>1. Move(c, [pc |-> "fit"]) \/ Move(c, [pc |-> "stamp"])
      BY <1>12 DEF SetCollection, CacheBody
  <2> QED
      BY <1>1, <1>2, <2>1
<1>13. CASE ComputeFit(c)
  <2>1. PICK b : Move(c, [pc |-> "set", body |-> b])
      BY <1>13 DEF ComputeFit
  <2> QED
      BY <1>1, <1>2, <2>1
<1> QED
    BY <1>4, <1>5, <1>6, <1>7, <1>8, <1>9, <1>10, <1>11, <1>12, <1>13

(* The ids a showing hands out follow those in use.                        *)
LEMMA CountedUpTo ==
    ASSUME NEW L \in Nat, NEW S \in SUBSET (1..L), NEW n \in S
    PROVE  Cardinality(S \cap 1..n) \in 1..Cardinality(S)
<1>1. IsFiniteSet(1..L)
    BY FS_Interval
<1>2. IsFiniteSet(S) /\ Cardinality(S) \in Nat
    BY <1>1, FS_Subset, FS_CardinalityType
<1>3. S \cap 1..n \in SUBSET S
    OBVIOUS
<1>4. IsFiniteSet(S \cap 1..n) /\ Cardinality(S \cap 1..n) <= Cardinality(S)
    BY <1>2, <1>3, FS_Subset
<1>5. n \in S \cap 1..n
    OBVIOUS
<1>6. Cardinality(S \cap 1..n) # 0 /\ Cardinality(S \cap 1..n) \in Nat
    BY <1>4, <1>5, FS_EmptySet, FS_CardinalityType
<1> QED
    BY <1>2, <1>4, <1>6

LEMMA RowsCounted ==
    ASSUME NEW S, IsFiniteSet(S), NEW T, NEW f \in [S -> T],
           T = {f[n] : n \in S}, \A n, m \in S : f[n] = f[m] => n = m
    PROVE  IsFiniteSet(T) /\ Cardinality(T) = Cardinality(S)
<1>1. f \in Bijection(S, T)
    BY DEF Bijection, Injection, Surjection, IsInjective
<1>2. ExistsBijection(S, T)
    BY <1>1 DEF ExistsBijection
<1> QED
    BY <1>2, FS_Bijection

LEMMA ShownIsListed ==
    ASSUME AnswersInv, NEW c \in Callers, call[c].pc = "stamp"
    PROVE  Len(Shown(c)) \in Nat /\ PolicyOf(call[c].list) = PolicyOf(call[c].body.by)
<1>0. Asked(call[c]) /\ BodyOK(call[c].key, call[c].body)
    BY DEF AnswersInv, CallOK
<1>1. PICK s : s = call[c].body.items
    OBVIOUS
<1>2. PICK S : Len(s) \in Nat /\ s \in Seq(S)
    BY <1>0, <1>1 DEF BodyOK, Listed
<1>3. PICK l \in Nat : l = call[c].limit
    BY <1>0, RecBounds DEF Asked
<1>4. PICK m : m = CHOOSE n \in {l, Len(s)} : n <= l /\ n <= Len(s)
    OBVIOUS
<1>5. m \in {l, Len(s)} /\ m <= Len(s)
  <2>1. \E n \in {l, Len(s)} : n <= l /\ n <= Len(s)
      BY <1>2, <1>3
  <2> QED
      BY <1>4, <2>1
<1>6. Len(SubSeq(s, 1, m)) \in Nat
  <2>1. 1 \in 1..Len(s)+1 /\ m \in 1-1..Len(s)
      BY <1>2, <1>3, <1>5
  <2>2. SubSeq(s, 1, m) \in Seq(S)
      BY <1>2, <2>1, SubSeqProperties
  <2> QED
      BY <2>2, LenProperties
<1>7. Shown(c) = SubSeq(s, 1, m)
    BY <1>1, <1>3, <1>4 DEF Shown
<1>8. call[c].list = call[c].body.by
  <2>1. PICK k : k = call[c].key
      OBVIOUS
  <2>2. PICK l2, by : l2 = call[c].list /\ by = call[c].body.by
      OBVIOUS
  <2>3. \/ k[1] = "similar" /\ k[2] = l2
        \/ k[1] = "explore" /\ l2 = "explore"
        \/ k[1] = "fit" /\ l2 = "fit"
      BY <1>0, <2>1, <2>2, KeysAreApart DEF Asked
  <2>4. \/ k[1] = "similar" /\ k[2] = by
        \/ k[1] = "explore" /\ by = "explore"
        \/ k[1] = "fit" /\ by = "fit"
      BY <1>0, <2>1, <2>2, KeysAreApart DEF BodyOK
  <2> QED
      BY <2>2, <2>3, <2>4
<1> QED
    BY <1>6, <1>7, <1>8

LEMMA ImpressionsAreStamped ==
    ASSUME AnswersInv, ImpressionInv, NEW c \in Callers, StampImpressions(c)
    PROVE  ImpressionInv'
<1>0. call[c].pc = "stamp" /\ DOMAIN call = Callers /\ c \notin Answered
    BY DEF AnswersInv, StampImpressions, Answered
<1>1. PICK L \in Nat : L = Len(Shown(c))
    BY <1>0, ShownIsListed
<1>2. PICK E : E = Entries(c)
    OBVIOUS
<1>3. E \in SUBSET (1..L)
    BY <1>1, <1>2 DEF Entries
<1>4. PICK N : N = Cardinality(showings)
    OBVIOUS
<1>5. N \in Nat /\ IsFiniteSet(showings) /\ (\A r \in showings : r.id \in 1..N)
    BY <1>4, FS_CardinalityType DEF ImpressionInv, Numbered
<1> DEFINE id(n) == N + Cardinality(E \cap 1..n)
<1>8. IsFiniteSet(E) /\ Cardinality(E) \in Nat
  <2>1. IsFiniteSet(1..L)
      BY FS_Interval
  <2>2. IsFiniteSet(E)
      BY <1>3, <2>1, FS_Subset
  <2> QED
      BY <2>2, FS_CardinalityType
<1>7. \A n \in E : id(n) \in N+1..N+Cardinality(E) /\ Cardinality(E) \in Nat
  <2>1. TAKE n \in E
  <2>2. Cardinality(E \cap 1..n) \in 1..Cardinality(E)
      BY <1>1, <1>3, CountedUpTo
  <2>3. IsFiniteSet(E) /\ Cardinality(E) \in Nat
      BY <1>8
  <2> QED
      BY <1>5, <2>2, <2>3
<1>9. PICK page :
         /\ call' = [call EXCEPT ![c] =
                [pc |-> "shown", who |-> call[c].who, via |-> call[c].via, body |-> call[c].body,
                 items |-> Shown(c), page |-> page, at |-> recClock]]
         /\ \/ /\ showings' = showings \cup
                      {[id |-> id(n), who |-> call[c].who, policy |-> PolicyOf(call[c].list),
                        item |-> Shown(c)[n], position |-> n] : n \in E}
               /\ page = [n \in 1..L |-> IF n \in E THEN id(n) ELSE 0]
            \/ showings' = showings /\ page = [n \in 1..L |-> 0]
    BY <1>1, <1>2, <1>4 DEF StampImpressions, PositionOf
<1>10. PICK r : r = [pc |-> "shown", who |-> call[c].who, via |-> call[c].via, body |-> call[c].body,
                     items |-> Shown(c), page |-> page, at |-> recClock]
    OBVIOUS
<1>11. /\ r.pc = "shown" /\ r.who = call[c].who /\ r.body = call[c].body
       /\ r.items = Shown(c) /\ r.page = page
    BY <1>10
<1>12. call'[c] = r /\ \A d \in Callers \ {c} : call'[d] = call[d]
    BY <1>0, <1>9, <1>10
<1>13. \A d \in Answered' \ {c} : d \in Answered /\ call'[d] = call[d]
    BY <1>12 DEF Answered
<1>14. \A d \in Answered \ {c} : \A n \in DOMAIN call[d].page :
          call[d].page[n] # 0 => call[d].page[n] \in 1..N
    BY <1>5 DEF ImpressionInv, PageOK
<1>15. DOMAIN page = 1..L /\ \A n \in 1..L : page[n] = 0 \/ page[n] \in N+1..N+Cardinality(E)
    BY <1>3, <1>7, <1>9
<1>16. Numbered' /\ showings \subseteq showings' /\ PageOK(c)'
  <2>1. CASE showings' = showings /\ page = [n \in 1..L |-> 0]
    <3>1. Numbered'
        BY <2>1 DEF ImpressionInv, Numbered
    <3>2. PageOK(c)'
        BY <1>11, <1>12, <2>1 DEF PageOK
    <3> QED
        BY <2>1, <3>1, <3>2
  <2>2. CASE /\ showings' = showings \cup
                    {[id |-> id(n), who |-> call[c].who, policy |-> PolicyOf(call[c].list),
                      item |-> Shown(c)[n], position |-> n] : n \in E}
             /\ page = [n \in 1..L |-> IF n \in E THEN id(n) ELSE 0]
    <3>1. PICK row : row = [n \in E |-> [id |-> id(n), who |-> call[c].who, policy |-> PolicyOf(call[c].list),
                                         item |-> Shown(c)[n], position |-> n]]
        OBVIOUS
    <3>2. PICK T : T = {row[n] : n \in E}
        OBVIOUS
    <3>3. \A n \in E : /\ row[n].id = id(n) /\ row[n].who = call[c].who
                       /\ row[n].policy = PolicyOf(call[c].list)
                       /\ row[n].item = Shown(c)[n] /\ row[n].position = n
        BY <3>1
    <3>4. showings' = showings \cup T
        BY <2>2, <3>1, <3>2
    <3>5. IsFiniteSet(T) /\ Cardinality(T) = Cardinality(E)
      <4>1. row \in [E -> T]
          BY <3>1, <3>2
      <4>2. \A n, m \in E : row[n] = row[m] => n = m
          BY <3>3
      <4> QED
          BY <1>8, <3>2, <4>1, <4>2, RowsCounted
    <3>10. \A r1 \in T : r1.id \in N+1..N+Cardinality(E)
      <4>1. TAKE r1 \in T
      <4>2. PICK n \in E : r1 = row[n]
          BY <3>2
      <4>3. r1.id = id(n)
          BY <3>3, <4>2
      <4>4. id(n) \in N+1..N+Cardinality(E)
          BY <1>7
      <4> HIDE DEF id
      <4> QED
          BY <4>3, <4>4
    <3>6. showings \cap T = {}
        BY <1>5, <1>8, <3>10
    <3>7. IsFiniteSet(showings') /\ Cardinality(showings') = N + Cardinality(E)
      <4>1. Cardinality(showings \cap T) = 0
          BY <3>6, FS_EmptySet
      <4>2. /\ IsFiniteSet(showings \cup T)
            /\ Cardinality(showings \cup T)
                 = Cardinality(showings) + Cardinality(T) - Cardinality(showings \cap T)
          BY <1>5, <3>5, FS_Union
      <4> QED
          BY <1>4, <1>5, <1>8, <3>4, <3>5, <4>1, <4>2
    <3>8. Numbered'
      <4>1. \A r1 \in showings' : r1.id \in 1..N+Cardinality(E)
          BY <1>5, <1>8, <3>4, <3>10
      <4> QED
          BY <3>7, <4>1 DEF Numbered
    <3>9. PageOK(c)'
      <4>1. ASSUME NEW n \in DOMAIN page, page[n] # 0
            PROVE  \E r1 \in showings' :
                      /\ r1.id = page[n] /\ r1.who = r.who
                      /\ r1.item = r.items[n] /\ r1.position = n
                      /\ r1.policy = PolicyOf(r.body.by)
        <5>1. n \in E /\ page[n] = id(n)
            BY <1>15, <2>2, <4>1
        <5>2. row[n] \in showings'
            BY <3>2, <3>4, <5>1
        <5>3. PolicyOf(call[c].list) = PolicyOf(r.body.by)
            BY <1>0, <1>11, ShownIsListed
        <5> QED
            BY <1>11, <3>3, <5>1, <5>2, <5>3
      <4>2. call'[c].page = page
          BY <1>11, <1>12
      <4> QED
          BY <1>12, <4>1, <4>2 DEF PageOK
    <3> QED
        BY <3>4, <3>8, <3>9
  <2> QED
      BY <1>9, <2>1, <2>2
<1>17. ASSUME NEW d \in Answered'
       PROVE  PageOK(d)'
  <2>1. CASE d = c
      BY <1>16, <2>1
  <2>2. CASE d # c
    <3>1. PageOK(d) /\ call'[d] = call[d]
        BY <1>13, <2>2 DEF ImpressionInv
    <3> QED
        BY <1>16, <3>1 DEF PageOK
  <2> QED
      BY <2>1, <2>2
<1>18. ASSUME NEW d \in Answered', NEW e \in Answered' \ {d}
       PROVE  PagesDiffer(d, e)'
  <2>1. CASE d # c /\ e # c
      BY <1>13, <2>1 DEF ImpressionInv, PagesDiffer
  <2>2. CASE d = c
    <3>1. call'[d].page = page /\ e \in Answered \ {c} /\ call'[e] = call[e]
        BY <1>11, <1>12, <1>13, <1>18, <2>2
    <3>2. ASSUME NEW n \in DOMAIN page, NEW m \in DOMAIN call[e].page, page[n] = call[e].page[m], page[n] # 0
          PROVE  FALSE
      <4>1. call[e].page[m] \in 1..N
          BY <1>14, <3>1, <3>2
      <4>2. page[n] \in N+1..N+Cardinality(E)
          BY <1>15, <3>2
      <4> QED
          BY <1>5, <1>8, <3>2, <4>1, <4>2
    <3> QED
        BY <3>1, <3>2 DEF PagesDiffer
  <2>3. CASE e = c
    <3>1. call'[e].page = page /\ d \in Answered \ {c} /\ call'[d] = call[d]
        BY <1>11, <1>12, <1>13, <1>18, <2>3
    <3>2. ASSUME NEW n \in DOMAIN call[d].page, NEW m \in DOMAIN page, call[d].page[n] = page[m],
                 call[d].page[n] # 0
          PROVE  FALSE
      <4>1. call[d].page[n] \in 1..N
          BY <1>14, <3>1, <3>2
      <4>2. page[m] \in N+1..N+Cardinality(E)
          BY <1>15, <3>2
      <4> QED
          BY <1>5, <1>8, <3>2, <4>1, <4>2
    <3> QED
        BY <3>1, <3>2 DEF PagesDiffer
  <2> QED
      BY <2>1, <2>2, <2>3
<1> QED
    BY <1>16, <1>17, <1>18 DEF ImpressionInv

LEMMA ImpressionInitInv == RecInit => ImpressionInv
<1> SUFFICES ASSUME RecInit
             PROVE  ImpressionInv
    OBVIOUS
<1>1. Answered = {}
    BY DEF RecInit, NoCall, Answered
<1>2. Numbered
    BY FS_EmptySet DEF RecInit, Numbered
<1> QED
    BY <1>1, <1>2 DEF ImpressionInv

LEMMA ImpressionStep == AnswersInv /\ ImpressionInv /\ [RecNext]_recVars => ImpressionInv'
<1> SUFFICES ASSUME AnswersInv, ImpressionInv, [RecNext]_recVars
             PROVE  ImpressionInv'
    OBVIOUS
<1>1. ASSUME call' = call, showings' = showings
      PROVE  ImpressionInv'
    BY <1>1, ImpressionsStay
<1>2. CASE UNCHANGED recVars
    BY <1>1, <1>2 DEF recVars
<1>3. CASE (\E u \in Collectors : SyncPage(u) \/ SweepUser(u)) \/ PublishRelease \/ RecTick
    BY <1>1, <1>3 DEF SyncPage, SweepUser, PublishRelease, RecTick
<1>4. ASSUME NEW c \in Callers, StampImpressions(c)
      PROVE  ImpressionInv'
    BY <1>4, ImpressionsAreStamped
<1>5. ASSUME NEW c \in Callers,
           \/ AskPersonal(c) \/ GetCurrentList(c) \/ GetBody(c) \/ RankSimilar(c) \/ Traverse(c)
           \/ GetReleaseContext(c) \/ GetCollectionIds(c) \/ FoldCollection(c) \/ SetCollection(c)
           \/ ComputeFit(c) \/ CacheBody(c)
      PROVE  ImpressionInv'
    BY <1>5, NothingShown, ImpressionsStay
<1> QED
    BY <1>2, <1>3, <1>4, <1>5 DEF RecNext

(* An impression id a client is shown has its row; the row names this      *)
(* viewer, this item at this place of the page and the policy that ranked  *)
(* the body; no two answers share an id: for any number of callers and any *)
(* failures (stamp_recommendation_impressions, _stamp_impression).         *)
THEOREM ImpressionsAreTrue == Spec => []ImpressionsTellTheTruth
<1>1. Init => ImpressionInv
    BY ImpressionInitInv DEF Init
<1>2. AnswersInv /\ ImpressionInv /\ [Next]_serviceVars => ImpressionInv'
  <2> SUFFICES ASSUME AnswersInv, ImpressionInv, [Next]_serviceVars
               PROVE  ImpressionInv'
      OBVIOUS
  <2>1. [RecNext]_recVars
      BY DEF Next, RestOf, serviceVars
  <2> QED
      BY <2>1, ImpressionStep
<1>3. ImpressionInv => ImpressionsTellTheTruth
    BY DEF ImpressionInv, PageOK, PagesDiffer, ImpressionsTellTheTruth
<1> QED
    BY <1>1, <1>2, <1>3, AnswersInvariant, PTL DEF Spec

-----------------------------------------------------------------------------
(* ImportCaches: an entry is as new as the marker, whatever a poll does.   *)

(* Everything read, noted or marked is a state the graph has been in.      *)
ImportTypes ==
    /\ graph \in Nat
    /\ latched \in Nat \cup {None}
    /\ importMarker \in Nat \cup {None} /\ importMarker <= graph
    /\ cache \in [Keys -> Nat \cup {None}] /\ \A k \in Keys : cache[k] <= graph
    /\ filler \in [Fillers -> [key : Keys \cup {None}, read : Nat \cup {None}, crossed : BOOLEAN,
                               early : BOOLEAN]]
    /\ \A w \in Fillers : filler[w].key # None => filler[w].read \in Nat /\ filler[w].read <= graph
    /\ watch \in [Watchers -> [pc : {"idle", "compare", "mark", "scan"}, state : Nat \cup {None},
                               todo : SUBSET Keys]]
    /\ \A v \in Watchers :
          watch[v].pc # "idle" => watch[v].state \in Nat /\ watch[v].state <= graph

(* Entry k, and what is being read for it, is no older than state s, but   *)
(* for the fills an invalidation overtook or that began before a mark.     *)
AsNewAs(k, s) ==
    /\ cache[k] = None \/ cache[k] >= s \/ k \in crossed \cup unmarked
    /\ \A w \in Fillers :
          filler[w].key = k => filler[w].read >= s \/ filler[w].crossed \/ filler[w].early

(* Before the first mark every fill is an early one.                       *)
NothingMarked ==
    /\ \A k \in Keys : cache[k] = None \/ k \in unmarked
    /\ \A w \in Fillers : filler[w].key = None \/ filler[w].early

(* A poll about to mark found all that was cached early, and one that      *)
(* scans has emptied the keys it is done with.                             *)
PollOK(v) ==
    /\ watch[v].pc = "mark" => \A k \in Keys : AsNewAs(k, watch[v].state)
    /\ watch[v].pc = "scan" => \A k \in Keys \ watch[v].todo : AsNewAs(k, watch[v].state)

MarkerOK ==
    /\ importMarker = None => NothingMarked
    /\ importMarker # None => \A k \in Keys : AsNewAs(k, importMarker)

ImportInv == ImportTypes /\ MarkerOK /\ \A v \in Watchers : PollOK(v)

LEMMA ImportInvImplies == ImportInv => CachesFollowImports
<1> SUFFICES ASSUME ImportInv, importMarker = graph, NEW k \in Keys
             PROVE  cache[k] \in {None, graph} \/ k \in crossed \cup unmarked
    BY DEF CachesFollowImports
<1>1. graph \in Nat /\ importMarker # None
    BY DEF ImportInv, ImportTypes, None
<1>2. cache[k] = None \/ cache[k] >= graph \/ k \in crossed \cup unmarked
    BY <1>1 DEF ImportInv, MarkerOK, AsNewAs
<1>3. cache[k] \in Nat \cup {None} /\ cache[k] <= graph
    BY DEF ImportInv, ImportTypes
<1> QED
    BY <1>1, <1>2, <1>3 DEF None

LEMMA ImportInitInv == ImportInit => ImportInv
<1> SUFFICES ASSUME ImportInit
             PROVE  ImportInv
    OBVIOUS
<1>1. ImportTypes
    BY DEF ImportInit, ImportTypes, None, NoFill, NoPoll
<1>2. MarkerOK
    BY DEF ImportInit, MarkerOK, NothingMarked, None, NoFill
<1>3. \A v \in Watchers : PollOK(v)
    BY DEF ImportInit, PollOK, NoPoll
<1> QED
    BY <1>1, <1>2, <1>3 DEF ImportInv

(* What a step must keep when it neither marks nor moves a poll.           *)
LEMMA AgesKept ==
    ASSUME ImportInv, ImportTypes', importMarker' = importMarker, watch' = watch,
           NothingMarked /\ importMarker = None => NothingMarked',
           \A k \in Keys, s \in Nat : s <= graph /\ AsNewAs(k, s) => AsNewAs(k, s)'
    PROVE  ImportInv'
<1>1. ImportTypes /\ MarkerOK
    BY DEF ImportInv
<1>2. MarkerOK'
  <2>1. CASE importMarker = None
      BY <1>1, <2>1 DEF MarkerOK
  <2>2. CASE importMarker # None
    <3>1. importMarker \in Nat /\ importMarker <= graph
        BY <1>1, <2>2 DEF ImportTypes
    <3>2. \A k \in Keys : AsNewAs(k, importMarker)'
        BY <1>1, <2>2, <3>1 DEF MarkerOK
    <3> QED
        BY <2>2, <3>2 DEF MarkerOK
  <2> QED
      BY <2>1, <2>2
<1>3. ASSUME NEW v \in Watchers
      PROVE  PollOK(v)'
  <2>1. PICK s : s = watch[v].state
      OBVIOUS
  <2>2. watch[v].pc # "idle" => s \in Nat /\ s <= graph
      BY <1>1, <2>1 DEF ImportTypes
  <2>3. watch[v].pc = "mark" => \A k \in Keys : AsNewAs(k, s)'
      BY <2>1, <2>2 DEF ImportInv, PollOK
  <2>4. watch[v].pc = "scan" => \A k \in Keys \ watch[v].todo : AsNewAs(k, s)'
      BY <2>1, <2>2 DEF ImportInv, PollOK
  <2> QED
      BY <2>1, <2>3, <2>4 DEF PollOK
<1> QED
    BY <1>2, <1>3 DEF ImportInv

LEMMA GraphMovesOn ==
    ASSUME ImportInv, GraphMoves
    PROVE  ImportInv'
<1>1. UNCHANGED <<latched, cache, crossed, unmarked, filler, watch, importMarker>>
    BY DEF GraphMoves, cached
<1>2. graph \in Nat /\ graph' = graph + 1
    BY DEF GraphMoves, ImportInv, ImportTypes
<1>3. ImportTypes'
    BY <1>1, <1>2 DEF ImportInv, ImportTypes, None
<1> QED
    BY <1>1, <1>3, AgesKept DEF AsNewAs, NothingMarked

LEMMA SqlLatchesOn ==
    ASSUME ImportInv, SqlLatches
    PROVE  ImportInv'
<1>1. UNCHANGED <<graph, cache, crossed, unmarked, filler, watch, importMarker>>
    BY DEF SqlLatches, cached
<1>2. latched' \in Nat
    BY DEF SqlLatches, Import, ImportInv, ImportTypes
<1>3. ImportTypes'
    BY <1>1, <1>2 DEF ImportInv, ImportTypes
<1> QED
    BY <1>1, <1>3, AgesKept DEF AsNewAs, NothingMarked

LEMMA EntryLeaves ==
    ASSUME ImportInv, NEW k \in Keys, EntryGoes(k)
    PROVE  ImportInv'
<1>1. UNCHANGED <<graph, latched, filler, watch, importMarker>>
    BY DEF EntryGoes
<1>2. /\ cache' = [cache EXCEPT ![k] = None] /\ crossed' = crossed \ {k}
      /\ unmarked' = unmarked \ {k}
    BY DEF EntryGoes, Drop
<1>3. ImportTypes'
    BY <1>1, <1>2 DEF ImportInv, ImportTypes, None
<1>4. \A j \in Keys : cache'[j] = IF j = k THEN None ELSE cache[j]
    BY <1>2 DEF ImportInv, ImportTypes
<1> QED
    BY <1>1, <1>2, <1>3, <1>4, AgesKept DEF AsNewAs, NothingMarked

LEMMA FillBegins ==
    ASSUME ImportInv, NEW w \in Fillers, NEW k \in Keys, Fill(w, k)
    PROVE  ImportInv'
<1>1. UNCHANGED <<graph, latched, cache, crossed, unmarked, watch, importMarker>>
    BY DEF Fill, cached
<1>2. PICK f : f = [key |-> k, read |-> graph, crossed |-> FALSE, early |-> importMarker = None]
    OBVIOUS
<1>3. /\ filler' = [filler EXCEPT ![w] = f] /\ filler \in [Fillers -> [key : Keys \cup {None}, read : Nat \cup {None}, crossed : BOOLEAN,
                               early : BOOLEAN]]
    BY <1>2 DEF Fill, ImportInv, ImportTypes
<1>4. /\ f \in [key : Keys \cup {None}, read : Nat \cup {None}, crossed : BOOLEAN, early : BOOLEAN]
      /\ f.key = k /\ f.read = graph /\ ~f.crossed /\ f.early = (importMarker = None)
    BY <1>2 DEF ImportInv, ImportTypes
<1>5. \A x \in Fillers : filler'[x] = IF x = w THEN f ELSE filler[x]
    BY <1>3
<1>6. ImportTypes'
    BY <1>1, <1>3, <1>4, <1>5 DEF ImportInv, ImportTypes
<1>7. graph \in Nat
    BY DEF ImportInv, ImportTypes
<1> QED
    BY <1>1, <1>4, <1>5, <1>6, <1>7, AgesKept DEF AsNewAs, NothingMarked

LEMMA FillEnds ==
    ASSUME ImportInv, NEW w \in Fillers, StoreFill(w) \/ FillNotStored(w)
    PROVE  ImportInv'
<1>1. UNCHANGED <<graph, latched, watch, importMarker>>
    BY DEF StoreFill, FillNotStored
<1>2. /\ NoFill \in [key : Keys \cup {None}, read : Nat \cup {None}, crossed : BOOLEAN, early : BOOLEAN]
      /\ NoFill.key = None /\ None \notin Keys
    BY KeysAreKeys DEF NoFill
<1>3. filler' = [filler EXCEPT ![w] = NoFill]
    BY DEF StoreFill, FillNotStored
<1>4. \A x \in Fillers : filler'[x] = IF x = w THEN NoFill ELSE filler[x]
    BY <1>3 DEF ImportInv, ImportTypes
<1>5. CASE FillNotStored(w)
  <2>1. UNCHANGED <<cache, crossed, unmarked>>
      BY <1>5 DEF FillNotStored, cached
  <2>2. ImportTypes'
      BY <1>1, <1>2, <1>3, <1>4, <2>1 DEF ImportInv, ImportTypes
  <2> QED
      BY <1>1, <1>2, <1>4, <2>1, <2>2, AgesKept DEF AsNewAs, NothingMarked
<1>6. CASE StoreFill(w)
  <2>1. PICK f : f = filler[w]
      OBVIOUS
  <2>2. /\ f.key # None /\ cache' = [cache EXCEPT ![f.key] = f.read]
        /\ crossed' = With(crossed, f.key, f.crossed) /\ unmarked' = With(unmarked, f.key, f.early)
      BY <1>6, <2>1 DEF StoreFill
  <2>3. f.key \in Keys /\ f.read \in Nat /\ f.read <= graph
      BY <2>1, <2>2 DEF ImportInv, ImportTypes
  <2>4. \A k \in Keys : cache'[k] = IF k = f.key THEN f.read ELSE cache[k]
      BY <2>2 DEF ImportInv, ImportTypes
  <2>5. ImportTypes'
    <3>1. cache' \in [Keys -> Nat \cup {None}]
        BY <2>2, <2>3 DEF ImportInv, ImportTypes
    <3> QED
        BY <1>1, <1>2, <1>3, <1>4, <2>3, <2>4, <3>1 DEF ImportInv, ImportTypes
  <2>6. ASSUME NEW k \in Keys
        PROVE  /\ k \in crossed' <=> IF k = f.key THEN f.crossed ELSE k \in crossed
               /\ k \in unmarked' <=> IF k = f.key THEN f.early ELSE k \in unmarked
      BY <2>2 DEF With
  <2>7. \A k \in Keys, s \in Nat : s <= graph /\ AsNewAs(k, s) => AsNewAs(k, s)'
      BY <1>2, <1>4, <2>1, <2>4, <2>6 DEF AsNewAs
  <2>8. NothingMarked => NothingMarked'
      BY <1>2, <1>4, <2>1, <2>2, <2>4, <2>6 DEF NothingMarked
  <2> QED
      BY <1>1, <2>5, <2>7, <2>8, AgesKept
<1> QED
    BY <1>5, <1>6

(* A poll moves on: the caches and the marker stay.                        *)
LEMMA PollMoves ==
    ASSUME ImportInv, NEW v \in Watchers, NEW p,
           UNCHANGED <<graph, latched, cache, crossed, unmarked, filler, importMarker>>,
           watch' = [watch EXCEPT ![v] = p],
           p \in [pc : {"idle", "compare", "mark", "scan"}, state : Nat \cup {None}, todo : SUBSET Keys],
           p.pc # "idle" => p.state \in Nat /\ p.state <= graph,
           p.pc = "mark" => importMarker = None,
           p.pc = "scan" => p.todo = Keys
    PROVE  ImportInv'
<1>1. \A x \in Watchers : watch'[x] = IF x = v THEN p ELSE watch[x]
    BY DEF ImportInv, ImportTypes
<1>2. ImportTypes'
    BY <1>1 DEF ImportInv, ImportTypes
<1>3. MarkerOK'
    BY DEF ImportInv, MarkerOK, NothingMarked, AsNewAs
<1>4. ASSUME NEW x \in Watchers
      PROVE  PollOK(x)'
  <2>1. CASE x = v
    <3>1. p.pc = "mark" => NothingMarked
        BY DEF ImportInv, MarkerOK
    <3>2. p.pc = "mark" => \A k \in Keys : AsNewAs(k, p.state)
        BY <3>1, KeysAreKeys DEF NothingMarked, AsNewAs
    <3> QED
        BY <1>1, <2>1, <3>2 DEF PollOK, AsNewAs
  <2>2. CASE x # v
      BY <1>1, <2>2 DEF ImportInv, PollOK, AsNewAs
  <2> QED
      BY <2>1, <2>2
<1> QED
    BY <1>2, <1>3, <1>4 DEF ImportInv

LEMMA PollBegins ==
    ASSUME ImportInv, NEW v \in Watchers, Poll(v)
    PROVE  ImportInv'
<1>1. UNCHANGED <<graph, latched, cache, crossed, unmarked, filler, importMarker>>
    BY DEF Poll, cached
<1>2. latched \in Nat /\ graph \in Nat
    BY DEF Poll, ImportInv, ImportTypes
<1>3. CASE ~Maintained(latched)
  <2>1. watch' = watch
      BY <1>3 DEF Poll
  <2>2. ImportTypes'
      BY <1>1, <2>1 DEF ImportInv, ImportTypes
  <2> QED
      BY <1>1, <2>1, <2>2, AgesKept DEF AsNewAs, NothingMarked
<1>4. CASE Maintained(latched)
  <2>1. StateOf(latched) \in Nat /\ StateOf(latched) <= graph
      BY <1>2, <1>4 DEF Maintained, StateOf
  <2>2. PICK p : p = [NoPoll EXCEPT !.pc = "compare", !.state = StateOf(latched)]
      OBVIOUS
  <2>3. /\ p \in [pc : {"idle", "compare", "mark", "scan"}, state : Nat \cup {None}, todo : SUBSET Keys]
        /\ p.pc = "compare" /\ p.state = StateOf(latched)
      BY <2>1, <2>2 DEF NoPoll
  <2>4. watch' = [watch EXCEPT ![v] = p]
      BY <1>4, <2>2 DEF Poll
  <2> QED
      BY <1>1, <2>1, <2>3, <2>4, PollMoves
<1> QED
    BY <1>3, <1>4

LEMMA NoPollIsPoll ==
    /\ NoPoll \in [pc : {"idle", "compare", "mark", "scan"}, state : Nat \cup {None}, todo : SUBSET Keys]
    /\ NoPoll.pc = "idle"
    BY DEF NoPoll

LEMMA PollCompares ==
    ASSUME ImportInv, NEW v \in Watchers, Compare(v)
    PROVE  ImportInv'
<1>1. UNCHANGED <<graph, latched, cache, crossed, unmarked, filler, importMarker>>
    BY DEF Compare, cached
<1>2. PICK o : o = watch[v]
    OBVIOUS
<1>3. /\ o \in [pc : {"idle", "compare", "mark", "scan"}, state : Nat \cup {None}, todo : SUBSET Keys]
      /\ o.state \in Nat /\ o.state <= graph /\ watch \in [Watchers -> [pc : {"idle", "compare", "mark", "scan"}, state : Nat \cup {None},
                               todo : SUBSET Keys]]
    BY <1>2 DEF Compare, ImportInv, ImportTypes
<1>4. PICK p : p = CASE importMarker = o.state -> NoPoll
                     [] importMarker = None -> [o EXCEPT !.pc = "mark"]
                     [] OTHER -> [o EXCEPT !.pc = "scan", !.todo = Keys]
    OBVIOUS
<1>5. watch' = [watch EXCEPT ![v] = p]
    BY <1>2, <1>3, <1>4 DEF Compare
<1>6. \/ p = NoPoll
      \/ importMarker = None /\ p = [o EXCEPT !.pc = "mark"]
      \/ p = [o EXCEPT !.pc = "scan", !.todo = Keys]
    BY <1>3, <1>4 DEF None
<1> QED
    BY <1>1, <1>3, <1>5, <1>6, PollMoves, NoPollIsPoll

LEMMA PollStops ==
    ASSUME ImportInv, NEW v \in Watchers, PollEnds(v)
    PROVE  ImportInv'
<1>1. UNCHANGED <<graph, latched, cache, crossed, unmarked, filler, importMarker>>
    BY DEF PollEnds, cached
<1>2. watch' = [watch EXCEPT ![v] = NoPoll]
    BY DEF PollEnds
<1> QED
    BY <1>1, <1>2, NoPollIsPoll, PollMoves

LEMMA KeyDeleted ==
    ASSUME ImportInv, NEW v \in Watchers, NEW k \in Keys, DeleteKey(v, k)
    PROVE  ImportInv'
<1>1. UNCHANGED <<graph, latched, importMarker>>
    BY DEF DeleteKey
<1>2. /\ cache' = [cache EXCEPT ![k] = None] /\ crossed' = crossed \ {k}
      /\ unmarked' = unmarked \ {k}
    BY DEF DeleteKey, Drop
<1>3. \A j \in Keys : cache'[j] = IF j = k THEN None ELSE cache[j]
    BY <1>2 DEF ImportInv, ImportTypes
<1>4. ASSUME NEW w \in Fillers
      PROVE  /\ filler'[w].key = filler[w].key /\ filler'[w].read = filler[w].read
             /\ filler'[w].early = filler[w].early
             /\ filler'[w].crossed = (filler[w].key = k \/ filler[w].crossed)
             /\ filler'[w] \in [key : Keys \cup {None}, read : Nat \cup {None}, crossed : BOOLEAN,
                                early : BOOLEAN]
  <2>1. filler'[w] = IF filler[w].key = k THEN [filler[w] EXCEPT !.crossed = TRUE] ELSE filler[w]
      BY DEF DeleteKey
  <2>2. filler[w] \in [key : Keys \cup {None}, read : Nat \cup {None}, crossed : BOOLEAN, early : BOOLEAN]
      BY DEF ImportInv, ImportTypes
  <2> QED
      BY <2>1, <2>2
<1>5. PICK p : p = [watch[v] EXCEPT !.todo = @ \ {k}]
    OBVIOUS
<1>6. watch' = [watch EXCEPT ![v] = p]
    BY <1>5 DEF DeleteKey
<1>7. \A x \in Watchers : watch'[x] = IF x = v THEN p ELSE watch[x]
    BY <1>6 DEF ImportInv, ImportTypes
<1>8. /\ p \in [pc : {"idle", "compare", "mark", "scan"}, state : Nat \cup {None}, todo : SUBSET Keys]
      /\ watch[v].pc = "scan" /\ p.pc = "scan" /\ p.state = watch[v].state
      /\ p.todo = watch[v].todo \ {k}
    BY <1>5 DEF DeleteKey, ImportInv, ImportTypes
<1>9. ImportTypes'
  <2>1. filler' \in [Fillers -> [key : Keys \cup {None}, read : Nat \cup {None}, crossed : BOOLEAN,
                                 early : BOOLEAN]]
      BY <1>4 DEF DeleteKey
  <2>2. cache' \in [Keys -> Nat \cup {None}] /\ \A j \in Keys : cache'[j] <= graph
      BY <1>2, <1>3 DEF ImportInv, ImportTypes, None
  <2>3. watch' \in [Watchers -> [pc : {"idle", "compare", "mark", "scan"}, state : Nat \cup {None},
                                 todo : SUBSET Keys]]
      BY <1>6, <1>8 DEF ImportInv, ImportTypes
  <2> QED
      BY <1>1, <1>4, <1>7, <1>8, <2>1, <2>2, <2>3 DEF ImportInv, ImportTypes
<1>10. ASSUME NEW j \in Keys, NEW s \in Nat, AsNewAs(j, s) \/ j = k
       PROVE  AsNewAs(j, s)'
    BY <1>2, <1>3, <1>4, <1>10 DEF AsNewAs
<1>11. MarkerOK'
  <2>1. NothingMarked => NothingMarked'
      BY <1>2, <1>3, <1>4 DEF NothingMarked
  <2>2. PICK m : m = importMarker
      OBVIOUS
  <2>3. m # None => m \in Nat /\ \A j \in Keys : AsNewAs(j, m)
      BY <2>2 DEF ImportInv, ImportTypes, MarkerOK
  <2>4. m # None => \A j \in Keys : AsNewAs(j, m)'
      BY <1>10, <2>3
  <2> QED
      BY <1>1, <2>1, <2>2, <2>4 DEF ImportInv, MarkerOK
<1>12. ASSUME NEW x \in Watchers
       PROVE  PollOK(x)'
  <2>1. PICK s : s = watch[x].state
      OBVIOUS
  <2>2. watch[x].pc # "idle" => s \in Nat
      BY <2>1 DEF ImportInv, ImportTypes
  <2>3. CASE x = v
    <3>1. \A j \in Keys \ p.todo : AsNewAs(j, s)'
        BY <1>8, <1>10, <2>1, <2>2, <2>3 DEF ImportInv, PollOK
    <3> QED
        BY <1>7, <1>8, <2>1, <2>3, <3>1 DEF PollOK
  <2>4. CASE x # v
    <3>1. /\ watch[x].pc = "mark" => \A j \in Keys : AsNewAs(j, s)'
          /\ watch[x].pc = "scan" => \A j \in Keys \ watch[x].todo : AsNewAs(j, s)'
        BY <1>10, <2>1, <2>2 DEF ImportInv, PollOK
    <3> QED
        BY <1>7, <2>1, <2>4, <3>1 DEF PollOK
  <2> QED
      BY <2>3, <2>4
<1> QED
    BY <1>9, <1>11, <1>12 DEF ImportInv

LEMMA StateMarked ==
    ASSUME ImportInv, NEW v \in Watchers, Mark(v)
    PROVE  ImportInv'
<1>1. UNCHANGED <<graph, latched, cache, crossed, unmarked, filler>>
    BY DEF Mark, cached
<1>2. PICK s : s = watch[v].state
    OBVIOUS
<1>3. /\ importMarker' = s /\ s \in Nat /\ s <= graph
      /\ watch' = [watch EXCEPT ![v] = NoPoll]
    BY <1>2 DEF Mark, ImportInv, ImportTypes
<1>4. \A x \in Watchers : watch'[x] = IF x = v THEN NoPoll ELSE watch[x]
    BY <1>3 DEF ImportInv, ImportTypes
<1>5. \A k \in Keys : AsNewAs(k, s)
    BY <1>2 DEF Mark, ImportInv, PollOK
<1>6. ImportTypes'
    BY <1>1, <1>3, <1>4, NoPollIsPoll DEF ImportInv, ImportTypes
<1>7. \A k \in Keys : AsNewAs(k, s)'
    BY <1>1, <1>5 DEF AsNewAs
<1>8. MarkerOK'
    BY <1>3, <1>7 DEF MarkerOK, None
<1>9. \A x \in Watchers : PollOK(x)'
    BY <1>1, <1>4, NoPollIsPoll DEF ImportInv, PollOK, AsNewAs
<1> QED
    BY <1>6, <1>8, <1>9 DEF ImportInv

(* What a marker names is what was read: the invariant of the import       *)
(* watch, from which CachesFollowImports follows (ImportInvImplies).       *)
THEOREM ImportInvariant == Spec => []ImportInv
<1>1. Init => ImportInv
    BY ImportInitInv DEF Init
<1>2. ImportInv /\ [Next]_serviceVars => ImportInv'
  <2> SUFFICES ASSUME ImportInv, [Next]_serviceVars
               PROVE  ImportInv'
      OBVIOUS
  <2>1. [ImportNext]_importVars
      BY DEF Next, RestOf, serviceVars
  <2>2. CASE UNCHANGED importVars
    <3>1. UNCHANGED <<graph, latched, cache, crossed, unmarked, filler, watch, importMarker>>
        BY <2>2 DEF importVars, cached
    <3>2. ImportTypes'
        BY <3>1 DEF ImportInv, ImportTypes
    <3> QED
        BY <3>1, <3>2, AgesKept DEF AsNewAs, NothingMarked
  <2>3. CASE ImportNext
      BY <2>3, GraphMovesOn, SqlLatchesOn, EntryLeaves, FillBegins, FillEnds, PollBegins,
         PollCompares, StateMarked, PollStops, KeyDeleted
      DEF ImportNext
  <2> QED
      BY <2>1, <2>2, <2>3
<1> QED
    BY <1>1, <1>2, PTL DEF Spec

-----------------------------------------------------------------------------
(* SnapshotStore: at most two windows of the counter have live snapshots.  *)

(* Where a request may be once INCR has counted it.                        *)
Counted == {"expire", "saved", "expire_over", "delete", "decr", "unavailable", "dead"}

(* It was within the cap.                                                  *)
Kept == {"expire", "saved"}

SnapTypes ==
    /\ snapClock \in Nat
    /\ counter \in [n : Int, exp : Nat, there : BOOLEAN]
    /\ counter.exp # 0 => snapClock < counter.exp
    /\ snapshot \in [Saves -> Nat]
    /\ \A q \in Saves :
          snapshot[q] # 0 => snapClock < snapshot[q] /\ snapshot[q] <= snapClock + SnapshotTtl
    /\ save \in [Saves -> Counted \cup {"new", "set", "incr", "undo", "quota", "refused"}]
    /\ outlived \subseteq Saves

(* The snapshots of the present window, whose requests are N, and the live *)
(* ones of those before.                                                   *)
Held(N) == {q \in N : save[q] \in Kept}

Older(N) == {q \in Saves \ N : save[q] \in Kept /\ snapshot[q] # 0}

(* The counter counts the requests N of its window but for those, F, that  *)
(* gave back in it a slot of an earlier one; E did so in the window before *)
(* it. A window holds no more than the cap and what was given back in it,  *)
(* and what is left of those before is gone when the counter lapses.       *)
Windows(N, F, E) ==
    /\ F \cap E = {} /\ F \subseteq outlived /\ E \subseteq outlived
    /\ \A q \in F \cup E : save[q] = "quota"
    /\ \A q \in N : save[q] \in Counted
    /\ \A q \in Overdrawn : q \in N \/ q \in outlived
    /\ counter.n = Cardinality(N) - Cardinality(F)
    /\ Cardinality(Held(N)) <= MaxPerUser + Cardinality(F)
    /\ Cardinality(Older(N)) <= MaxPerUser + Cardinality(E)
    /\ counter.exp # 0 => \A q \in Older(N) : snapshot[q] <= counter.exp

SnapInv == SnapTypes /\ \E N, F, E \in SUBSET Saves : Windows(N, F, E)

LEMMA SavesCount ==
    ASSUME NEW S \in SUBSET Saves, NEW T \in SUBSET S
    PROVE  /\ IsFiniteSet(S) /\ IsFiniteSet(T)
           /\ Cardinality(S) \in Nat /\ Cardinality(T) \in Nat
           /\ Cardinality(T) <= Cardinality(S)
<1>1. IsFiniteSet(S)
    BY SnapBounds, FS_Subset
<1>2. IsFiniteSet(T) /\ Cardinality(T) <= Cardinality(S)
    BY <1>1, FS_Subset
<1> QED
    BY <1>1, <1>2, FS_CardinalityType

LEMMA DisjointCount ==
    ASSUME NEW S, NEW T, IsFiniteSet(S), IsFiniteSet(T), S \cap T = {}
    PROVE  Cardinality(S \cup T) = Cardinality(S) + Cardinality(T)
<1>1. Cardinality(S \cup T) = Cardinality(S) + Cardinality(T) - Cardinality(S \cap T)
    BY FS_Union
<1>2. Cardinality(S \cap T) = 0
    BY FS_EmptySet
<1>3. Cardinality(S) \in Nat /\ Cardinality(T) \in Nat
    BY FS_CardinalityType
<1> QED
    BY <1>1, <1>2, <1>3

LEMMA SnapInvImplies == SnapInv => LiveWithinTwiceCap
<1> SUFFICES ASSUME SnapInv
             PROVE  LiveWithinTwiceCap
    OBVIOUS
<1>1. PICK N \in SUBSET Saves, F \in SUBSET Saves, E \in SUBSET Saves : Windows(N, F, E)
    BY DEF SnapInv
<1>2. PICK live : live = {q \in Saves : save[q] = "saved" /\ snapshot[q] # 0}
    OBVIOUS
<1>3. live \subseteq Held(N) \cup Older(N) /\ Held(N) \subseteq Saves /\ Older(N) \subseteq Saves
    BY <1>2 DEF Held, Older, Kept
<1>4. /\ IsFiniteSet(Held(N)) /\ IsFiniteSet(Older(N)) /\ Held(N) \cap Older(N) = {}
      /\ Cardinality(Held(N)) \in Nat /\ Cardinality(Older(N)) \in Nat
    BY <1>3, SavesCount DEF Held, Older
<1>5. Cardinality(Held(N) \cup Older(N)) = Cardinality(Held(N)) + Cardinality(Older(N))
    BY <1>4, DisjointCount
<1>6. Cardinality(live) <= Cardinality(Held(N) \cup Older(N)) /\ Cardinality(live) \in Nat
  <2>1. Held(N) \cup Older(N) \in SUBSET Saves
      BY <1>3
  <2> QED
      BY <1>3, <2>1, SavesCount
<1>7. /\ F \cup E \subseteq outlived /\ F \cap E = {} /\ outlived \in SUBSET Saves
      /\ Cardinality(Held(N)) <= MaxPerUser + Cardinality(F)
      /\ Cardinality(Older(N)) <= MaxPerUser + Cardinality(E)
    BY <1>1 DEF Windows, SnapInv, SnapTypes
<1>8. /\ IsFiniteSet(F) /\ IsFiniteSet(E)
      /\ Cardinality(F) \in Nat /\ Cardinality(E) \in Nat
    BY SavesCount
<1>9. Cardinality(F \cup E) = Cardinality(F) + Cardinality(E)
    BY <1>7, <1>8, DisjointCount
<1>10. Cardinality(F \cup E) <= Cardinality(outlived) /\ Cardinality(outlived) \in Nat
    BY <1>7, SavesCount
<1>11. Cardinality(live) <= 2 * MaxPerUser + Cardinality(outlived)
    BY <1>4, <1>5, <1>6, <1>7, <1>8, <1>9, <1>10, SnapBounds
<1> QED
    BY <1>2, <1>11 DEF LiveWithinTwiceCap

LEMMA SnapInitInv == SnapInit => SnapInv
<1> SUFFICES ASSUME SnapInit
             PROVE  SnapInv
    OBVIOUS
<1>1. SnapTypes
    BY DEF SnapInit, SnapTypes, NoCounter
<1>2. Cardinality({}) = 0
    BY FS_EmptySet
<1>3. Held({}) = {} /\ Older({}) = {} /\ Overdrawn = {} /\ counter.n = 0
    BY DEF SnapInit, Held, Older, Overdrawn, Kept, NoCounter
<1>4. Windows({}, {}, {})
    BY <1>1, <1>2, <1>3, SnapBounds DEF Windows, SnapInit, NoCounter
<1> QED
    BY <1>1, <1>4 DEF SnapInv

(* What a step must keep of a window it neither counts in nor ends.        *)
LEMMA WindowsStay ==
    ASSUME SnapTypes', NEW N \in SUBSET Saves, NEW F \in SUBSET Saves, NEW E \in SUBSET Saves,
           Windows(N, F, E), counter'.n = counter.n,
           Held(N)' \subseteq Held(N), Older(N)' \subseteq Older(N),
           F \cup E \subseteq outlived', \A q \in F \cup E : save'[q] = "quota",
           \A q \in N : save'[q] \in Counted,
           \A q \in Overdrawn' : q \in N \/ q \in outlived',
           counter'.exp # 0 => \A q \in Older(N)' : snapshot'[q] <= counter'.exp
    PROVE  SnapInv'
<1>1. Held(N) \subseteq Saves /\ Older(N) \subseteq Saves
    BY DEF Held, Older
<1>2. /\ Cardinality(Held(N)') <= Cardinality(Held(N))
      /\ Cardinality(Held(N)') \in Nat /\ Cardinality(Held(N)) \in Nat
    BY <1>1, SavesCount
<1>3. /\ Cardinality(Older(N)') <= Cardinality(Older(N))
      /\ Cardinality(Older(N)') \in Nat /\ Cardinality(Older(N)) \in Nat
    BY <1>1, SavesCount
<1>4. Cardinality(F) \in Nat /\ Cardinality(E) \in Nat
    BY SavesCount
<1>5. Cardinality(Held(N)') <= MaxPerUser + Cardinality(F)
    BY <1>2, <1>4, SnapBounds DEF Windows
<1>6. Cardinality(Older(N)') <= MaxPerUser + Cardinality(E)
    BY <1>3, <1>4, SnapBounds DEF Windows
<1>7. Windows(N, F, E)'
    BY <1>5, <1>6 DEF Windows
<1> QED
    BY <1>7 DEF SnapInv

(* A tick that ends the window: what it held is older now, what was older  *)
(* is gone, and whoever has still to give back a slot of it outlived it.   *)
LEMMA CounterLapses ==
    ASSUME SnapInv, SnapTick, counter.exp = snapClock + 1
    PROVE  SnapInv'
<1>1. PICK N \in SUBSET Saves, F \in SUBSET Saves, E \in SUBSET Saves : Windows(N, F, E)
    BY DEF SnapInv
<1>2. /\ snapClock' = snapClock + 1 /\ counter' = NoCounter /\ outlived' = outlived \cup Overdrawn
      /\ snapshot' = [q \in Saves |-> IF snapshot[q] = snapClock + 1 THEN 0 ELSE snapshot[q]]
      /\ save' = save
    BY DEF SnapTick
<1>3. SnapTypes /\ snapClock \in Nat
    BY DEF SnapInv, SnapTypes
<1>4. \A q \in Saves :
         snapshot'[q] = IF snapshot[q] = snapClock + 1 THEN 0 ELSE snapshot[q]
    BY <1>2
<1>5. SnapTypes'
  <2>1. snapshot' \in [Saves -> Nat]
      BY <1>2, <1>3 DEF SnapTypes
  <2>2. \A q \in Saves : snapshot'[q] # 0 =>
           snapClock' < snapshot'[q] /\ snapshot'[q] <= snapClock' + SnapshotTtl
      BY <1>2, <1>3, <1>4, SnapBounds DEF SnapTypes
  <2>3. outlived' \subseteq Saves
      BY <1>2, <1>3 DEF SnapTypes, Overdrawn
  <2> QED
      BY <1>2, <1>3, <2>1, <2>2, <2>3 DEF SnapTypes, NoCounter
<1>6. Older(N)' = {}
  <2>1. \A q \in Older(N) : snapshot[q] <= counter.exp
      BY <1>1, <1>3, SnapBounds DEF Windows
  <2>2. ASSUME NEW q \in Saves \ N, save'[q] \in Kept, snapshot'[q] # 0
        PROVE  FALSE
    <3>1. q \in Older(N) /\ snapshot[q] # snapClock + 1
        BY <1>2, <1>4, <2>2 DEF Older
    <3>2. snapshot[q] <= snapClock + 1 /\ snapClock < snapshot[q] /\ snapshot[q] \in Nat
        BY <1>3, <2>1, <3>1 DEF SnapTypes, Older
    <3> QED
        BY <1>3, <3>1, <3>2
  <2> QED
      BY <2>2 DEF Older
<1>7. Older({})' \subseteq Held(N)
    BY <1>2, <1>6 DEF Older, Held
<1>8. Held(N) \in SUBSET Saves
    BY DEF Held
<1>9. Cardinality(Older({})') <= MaxPerUser + Cardinality(F)
  <2>1. /\ Cardinality(Older({})') <= Cardinality(Held(N))
        /\ Cardinality(Older({})') \in Nat /\ Cardinality(Held(N)) \in Nat
      BY <1>7, <1>8, SavesCount
  <2>2. Cardinality(F) \in Nat /\ Cardinality(Held(N)) <= MaxPerUser + Cardinality(F)
      BY <1>1, SavesCount DEF Windows
  <2> QED
      BY <2>1, <2>2, SnapBounds
<1>10. Cardinality({}) = 0 /\ Held({})' = {}
    BY FS_EmptySet DEF Held
<1>11. Windows({}, {}, F)'
  <2>1. {} \cap F = {} /\ {} \subseteq outlived' /\ F \subseteq outlived'
      BY <1>1, <1>2 DEF Windows
  <2>2. (\A q \in {} \cup F : save'[q] = "quota") /\ \A q \in {} : save'[q] \in Counted
      BY <1>1, <1>2 DEF Windows
  <2>3. \A q \in Overdrawn' : q \in outlived'
      BY <1>2 DEF Overdrawn
  <2>4. counter'.n = 0 /\ counter'.exp = 0
      BY <1>2 DEF NoCounter
  <2> QED
      BY <1>9, <1>10, <2>1, <2>2, <2>3, <2>4, SnapBounds DEF Windows
<1> QED
    BY <1>5, <1>11 DEF SnapInv

LEMMA TimePasses ==
    ASSUME SnapInv, SnapTick, counter.exp # snapClock + 1
    PROVE  SnapInv'
<1>1. PICK N \in SUBSET Saves, F \in SUBSET Saves, E \in SUBSET Saves : Windows(N, F, E)
    BY DEF SnapInv
<1>2. /\ snapClock' = snapClock + 1 /\ counter' = counter /\ outlived' = outlived
      /\ snapshot' = [q \in Saves |-> IF snapshot[q] = snapClock + 1 THEN 0 ELSE snapshot[q]]
      /\ save' = save
    BY DEF SnapTick
<1>3. SnapTypes /\ snapClock \in Nat
    BY DEF SnapInv, SnapTypes
<1>4. \A q \in Saves :
         snapshot'[q] = IF snapshot[q] = snapClock + 1 THEN 0 ELSE snapshot[q]
    BY <1>2
<1>5. SnapTypes'
  <2>1. snapshot' \in [Saves -> Nat]
      BY <1>2, <1>3 DEF SnapTypes
  <2>2. \A q \in Saves : snapshot'[q] # 0 =>
           snapClock' < snapshot'[q] /\ snapshot'[q] <= snapClock' + SnapshotTtl
      BY <1>2, <1>3, <1>4, SnapBounds DEF SnapTypes
  <2>3. counter'.exp # 0 => snapClock' < counter'.exp
      BY <1>2, <1>3 DEF SnapTypes
  <2> QED
      BY <1>2, <1>3, <2>1, <2>2, <2>3 DEF SnapTypes
<1>6. Held(N)' = Held(N)
    BY <1>2 DEF Held
<1>7. Older(N)' \subseteq Older(N) /\ \A q \in Older(N)' : snapshot'[q] = snapshot[q]
    BY <1>2, <1>4 DEF Older
<1>8. Overdrawn' = Overdrawn
    BY <1>2 DEF Overdrawn
<1> QED
    BY <1>1, <1>2, <1>5, <1>6, <1>7, <1>8, WindowsStay DEF Windows

(* A request goes from p to one place or another, and neither counts nor   *)
(* gives back a slot.                                                      *)
LEMMA SaveMoves ==
    ASSUME SnapInv, NEW q \in Saves, NEW pc, Then(q, pc),
           pc \in Counted \cup {"new", "set", "incr", "undo", "quota", "refused"},
           save[q] # "quota",
           save[q] \in Counted => pc \in Counted,
           pc \in Kept => save[q] \in Kept,
           pc \in {"expire_over", "delete", "decr"} => q \in Overdrawn,
           UNCHANGED <<snapClock, counter>>,
           snapshot' = snapshot \/ (pc \notin Kept /\ \E t \in {0, snapClock + SnapshotTtl} : snapshot' = [snapshot EXCEPT ![q] = t]),
           \/ outlived' = outlived
           \/ outlived' = outlived \ {q} /\ pc \notin {"expire_over", "delete", "decr"}
    PROVE  SnapInv'
<1>1. PICK N \in SUBSET Saves, F \in SUBSET Saves, E \in SUBSET Saves : Windows(N, F, E)
    BY DEF SnapInv
<1>2. SnapTypes
    BY DEF SnapInv
<1>3. /\ \A x \in Saves : save'[x] = IF x = q THEN pc ELSE save[x]
      /\ save' \in [Saves -> Counted \cup {"new", "set", "incr", "undo", "quota", "refused"}]
    BY <1>2 DEF Then, SnapTypes
<1>4. /\ snapshot' \in [Saves -> Nat]
      /\ \A x \in Saves \ {q} : snapshot'[x] = snapshot[x]
      /\ pc \in Kept => snapshot'[q] = snapshot[q]
      /\ \A x \in Saves :
            snapshot'[x] # 0 => snapClock < snapshot'[x] /\ snapshot'[x] <= snapClock + SnapshotTtl
  <2>1. CASE snapshot' = snapshot
      BY <1>2, <2>1 DEF SnapTypes
  <2>2. CASE pc \notin Kept /\ snapshot' # snapshot
    <3>1. PICK t \in {0, snapClock + SnapshotTtl} : snapshot' = [snapshot EXCEPT ![q] = t]
        BY <2>2
    <3>2. t \in Nat /\ (t # 0 => snapClock < t /\ t <= snapClock + SnapshotTtl)
        BY <1>2, SnapBounds DEF SnapTypes
    <3> QED
        BY <1>2, <2>2, <3>1, <3>2 DEF SnapTypes
  <2> QED
      BY <2>1, <2>2
<1>5. SnapTypes'
    BY <1>2, <1>3, <1>4 DEF SnapTypes
<1>6. Held(N)' \subseteq Held(N)
    BY <1>3 DEF Held
<1>7. Older(N)' \subseteq Older(N) /\ \A x \in Older(N)' : snapshot'[x] = snapshot[x]
    BY <1>3, <1>4 DEF Older
<1>8. \A x \in F \cup E : x # q /\ save'[x] = "quota" /\ x \in outlived'
    BY <1>1, <1>3 DEF Windows
<1>9. \A x \in N : save'[x] \in Counted
    BY <1>1, <1>3 DEF Windows
<1>10. \A x \in Overdrawn' : x \in Overdrawn /\ (x \in outlived => x \in outlived')
    BY <1>3 DEF Overdrawn
<1>11. \A x \in Overdrawn' : x \in N \/ x \in outlived'
    BY <1>1, <1>10 DEF Windows
<1>12. counter'.exp # 0 => \A x \in Older(N)' : snapshot'[x] <= counter'.exp
    BY <1>1, <1>7 DEF Windows
<1> QED
    BY <1>1, <1>5, <1>6, <1>7, <1>8, <1>9, <1>11, <1>12, WindowsStay

LEMMA SaveSteps ==
    ASSUME SnapInv, NEW q \in Saves,
           \/ SaveRefused(q) \/ ReadCounter(q) \/ SetSnapshot(q) \/ DeleteSnapshot(q)
           \/ Rejected(q) \/ Dies(q)
    PROVE  SnapInv'
<1>1. CASE SaveRefused(q)
    BY <1>1, SaveMoves DEF SaveRefused, Counted, Kept
<1>2. CASE ReadCounter(q)
  <2>1. PICK pc : pc = IF counter.there /\ counter.n >= MaxPerUser THEN "quota" ELSE "set"
      OBVIOUS
  <2>2. pc \in {"quota", "set"} /\ Then(q, pc) /\ save[q] = "new"
        /\ UNCHANGED <<snapClock, snapshot, counter, outlived>>
      BY <1>2, <2>1 DEF ReadCounter
  <2> QED
      BY <2>2, SaveMoves DEF Counted, Kept
<1>3. CASE SetSnapshot(q)
    BY <1>3, SaveMoves DEF SetSnapshot, Counted, Kept
<1>4. CASE DeleteSnapshot(q)
  <2>1. CASE save[q] = "delete"
      BY <1>4, <2>1, SaveMoves DEF DeleteSnapshot, Counted, Kept, Overdrawn
  <2>2. CASE save[q] = "undo"
      BY <1>4, <2>2, SaveMoves DEF DeleteSnapshot, Counted, Kept
  <2> QED
      BY <1>4, <2>1, <2>2 DEF DeleteSnapshot
<1>5. CASE Rejected(q)
    BY <1>5, SaveMoves DEF Rejected, Counted, Kept
<1>6. CASE Dies(q)
  <2>1. save[q] # "quota" /\ Then(q, "dead") /\ outlived' = outlived \ {q}
        /\ UNCHANGED <<snapClock, snapshot, counter>>
      BY <1>6 DEF Dies
  <2> QED
      BY <2>1, SaveMoves DEF Counted, Kept
<1> QED
    BY <1>1, <1>2, <1>3, <1>4, <1>5, <1>6

(* EXPIRE ... NX gives a window its end, after every snapshot there is.    *)
LEMMA CounterArmed ==
    ASSUME SnapInv, NEW q \in Saves, ExpireCounter(q)
    PROVE  SnapInv'
<1>1. PICK N \in SUBSET Saves, F \in SUBSET Saves, E \in SUBSET Saves : Windows(N, F, E)
    BY DEF SnapInv
<1>2. SnapTypes
    BY DEF SnapInv
<1>3. /\ UNCHANGED <<snapClock, snapshot, outlived>>
      /\ counter' = [counter EXCEPT !.exp = Arm(counter)]
      /\ save[q] \in {"expire", "expire_over"}
    BY DEF ExpireCounter
<1>4. PICK pc : pc = IF save[q] = "expire" THEN "saved" ELSE "delete"
    OBVIOUS
<1>5. /\ \A x \in Saves : save'[x] = IF x = q THEN pc ELSE save[x]
      /\ save' \in [Saves -> Counted \cup {"new", "set", "incr", "undo", "quota", "refused"}]
    BY <1>2, <1>4 DEF ExpireCounter, Then, SnapTypes, Counted
<1>6. Arm(counter) \in Nat /\ Arm(counter) \in {counter.exp, snapClock + SnapshotTtl}
    BY <1>2, SnapBounds DEF Arm, SnapTypes
<1>7. counter' \in [n : Int, exp : Nat, there : BOOLEAN] /\ counter'.n = counter.n
      /\ counter'.exp = Arm(counter)
    BY <1>2, <1>3, <1>6 DEF SnapTypes
<1>8. SnapTypes'
  <2>1. counter'.exp # 0 => snapClock' < counter'.exp
      BY <1>2, <1>3, <1>6, <1>7, SnapBounds DEF SnapTypes
  <2> QED
      BY <1>2, <1>3, <1>5, <1>7, <2>1 DEF SnapTypes
<1>9. Held(N)' \subseteq Held(N) /\ Older(N)' \subseteq Older(N)
    BY <1>3, <1>4, <1>5 DEF Held, Older, Kept
<1>10. counter'.exp # 0 => \A x \in Older(N)' : snapshot'[x] <= counter'.exp
  <2>1. CASE counter.exp # 0
    <3>1. Arm(counter) = counter.exp
        BY <2>1 DEF Arm
    <3> QED
        BY <1>1, <1>3, <1>7, <1>9, <2>1, <3>1 DEF Windows
  <2>2. CASE counter.exp = 0
    <3>1. \A x \in Saves : snapshot[x] <= snapClock + SnapshotTtl
        BY <1>2, SnapBounds DEF SnapTypes
    <3>2. counter'.exp # 0 => counter'.exp = snapClock + SnapshotTtl
        BY <1>6, <1>7, <2>2
    <3> QED
        BY <1>3, <3>1, <3>2 DEF Older
  <2> QED
      BY <2>1, <2>2
<1>11. /\ \A x \in F \cup E : x # q /\ save'[x] = "quota" /\ x \in outlived'
       /\ \A x \in N : save'[x] \in Counted
       /\ \A x \in Overdrawn' : x \in N \/ x \in outlived'
  <2>1. \A x \in F \cup E : x # q /\ save'[x] = "quota" /\ x \in outlived'
      BY <1>1, <1>3, <1>5 DEF Windows
  <2>2. \A x \in N : save'[x] \in Counted
      BY <1>1, <1>4, <1>5 DEF Windows, Counted
  <2>3. Overdrawn' \subseteq Overdrawn
      BY <1>3, <1>4, <1>5 DEF Overdrawn
  <2> QED
      BY <1>1, <1>3, <2>1, <2>2, <2>3 DEF Windows
<1> QED
    BY <1>1, <1>7, <1>8, <1>9, <1>10, <1>11, WindowsStay

(* INCR counts a request in the present window, over the cap or within it. *)
LEMMA SlotTaken ==
    ASSUME SnapInv, NEW q \in Saves, IncrCounter(q)
    PROVE  SnapInv'
<1>1. PICK N \in SUBSET Saves, F \in SUBSET Saves, E \in SUBSET Saves : Windows(N, F, E)
    BY DEF SnapInv
<1>2. SnapTypes /\ counter.n \in Int
    BY DEF SnapInv, SnapTypes
<1>3. /\ UNCHANGED <<snapClock, snapshot, outlived>> /\ save[q] = "incr"
      /\ counter' = [counter EXCEPT !.n = @ + 1, !.there = TRUE]
    BY DEF IncrCounter
<1>4. PICK pc : pc = IF OverCap(counter.n + 1) THEN "expire_over" ELSE "expire"
    OBVIOUS
<1>5. /\ \A x \in Saves : save'[x] = IF x = q THEN pc ELSE save[x]
      /\ save' \in [Saves -> Counted \cup {"new", "set", "incr", "undo", "quota", "refused"}]
    BY <1>2, <1>4 DEF IncrCounter, Then, SnapTypes, Counted
<1>6. /\ counter' \in [n : Int, exp : Nat, there : BOOLEAN]
      /\ counter'.n = counter.n + 1 /\ counter'.exp = counter.exp
  <2>1. PICK m \in Int : m = counter.n + 1
      BY <1>2
  <2>2. counter' = [counter EXCEPT !.n = m, !.there = TRUE]
      BY <1>3, <2>1
  <2>3. counter \in [n : Int, exp : Nat, there : BOOLEAN]
      BY <1>2 DEF SnapTypes
  <2> QED
      BY <2>1, <2>2, <2>3
<1>7. SnapTypes'
    BY <1>2, <1>3, <1>5, <1>6 DEF SnapTypes
<1>8. q \notin N /\ q \notin F \cup E
    BY <1>1, <1>3 DEF Windows, Counted
<1>9. PICK M : M = N \cup {q}
    OBVIOUS
<1>10. M \in SUBSET Saves
    BY <1>9
<1>11. /\ Cardinality(M) = Cardinality(N) + 1 /\ Cardinality(N) \in Nat /\ Cardinality(F) \in Nat
       /\ Cardinality(E) \in Nat
  <2>1. IsFiniteSet(N) /\ Cardinality(N) \in Nat /\ Cardinality(F) \in Nat /\ Cardinality(E) \in Nat
      BY SavesCount
  <2> QED
      BY <1>8, <1>9, <2>1, FS_AddElement
<1>12. counter'.n = Cardinality(M) - Cardinality(F)
    BY <1>1, <1>6, <1>11 DEF Windows
<1>13. Cardinality(Held(M)') <= MaxPerUser + Cardinality(F)
  <2>1. CASE OverCap(counter.n + 1)
    <3>1. Held(M)' = Held(N) /\ Held(N) \in SUBSET Saves
        BY <1>4, <1>5, <1>8, <1>9, <2>1 DEF Held, Kept
    <3> QED
        BY <1>1, <3>1 DEF Windows
  <2>2. CASE ~OverCap(counter.n + 1)
    <3>1. Cardinality(M) <= MaxPerUser + Cardinality(F)
        BY <1>2, <1>6, <1>11, <1>12, <2>2, SnapBounds DEF OverCap
    <3>2. Held(M)' \in SUBSET M
        BY DEF Held
    <3>3. /\ Cardinality(Held(M)') <= Cardinality(M)
          /\ Cardinality(Held(M)') \in Nat /\ Cardinality(M) \in Nat
        BY <1>10, <3>2, SavesCount
    <3> QED
        BY <1>11, <3>1, <3>3, SnapBounds
  <2> QED
      BY <2>1, <2>2
<1>14. Older(M)' = Older(N)
    BY <1>3, <1>5, <1>9 DEF Older, Kept
<1>15. Windows(M, F, E)'
  <2>1. \A x \in F \cup E : save'[x] = "quota"
      BY <1>1, <1>5, <1>8 DEF Windows
  <2>2. \A x \in M : save'[x] \in Counted
      BY <1>1, <1>4, <1>5, <1>9 DEF Windows, Counted
  <2>3. \A x \in Overdrawn' : x \in Overdrawn \/ x = q
      BY <1>5 DEF Overdrawn
  <2>4. \A x \in Overdrawn' : x \in M \/ x \in outlived'
      BY <1>1, <1>3, <1>9, <2>3 DEF Windows
  <2>5. Cardinality(Older(M)') <= MaxPerUser + Cardinality(E)
      BY <1>1, <1>14 DEF Windows
  <2>6. counter'.exp # 0 => \A x \in Older(M)' : snapshot'[x] <= counter'.exp
      BY <1>1, <1>3, <1>6, <1>14 DEF Windows
  <2> QED
      BY <1>1, <1>3, <1>12, <1>13, <2>1, <2>2, <2>4, <2>5, <2>6 DEF Windows
<1> QED
    BY <1>7, <1>10, <1>15 DEF SnapInv

(* DECR gives back a slot of the present window, or, after a lapse, one of *)
(* a window that is gone.                                                  *)
LEMMA SlotGivenBack ==
    ASSUME SnapInv, NEW q \in Saves, DecrCounter(q)
    PROVE  SnapInv'
<1>1. PICK N \in SUBSET Saves, F \in SUBSET Saves, E \in SUBSET Saves : Windows(N, F, E)
    BY DEF SnapInv
<1>2. SnapTypes /\ counter.n \in Int
    BY DEF SnapInv, SnapTypes
<1>3. /\ UNCHANGED <<snapClock, snapshot, outlived>> /\ save[q] = "decr"
      /\ counter' = [counter EXCEPT !.n = @ - 1, !.there = TRUE]
    BY DEF DecrCounter
<1>4. /\ \A x \in Saves : save'[x] = IF x = q THEN "quota" ELSE save[x]
      /\ save' \in [Saves -> Counted \cup {"new", "set", "incr", "undo", "quota", "refused"}]
    BY <1>2 DEF DecrCounter, Then, SnapTypes
<1>5. /\ counter' \in [n : Int, exp : Nat, there : BOOLEAN]
      /\ counter'.n = counter.n - 1 /\ counter'.exp = counter.exp
  <2>1. PICK m \in Int : m = counter.n - 1
      BY <1>2
  <2>2. counter' = [counter EXCEPT !.n = m, !.there = TRUE]
      BY <1>3, <2>1
  <2>3. counter \in [n : Int, exp : Nat, there : BOOLEAN]
      BY <1>2 DEF SnapTypes
  <2> QED
      BY <2>1, <2>2, <2>3
<1>6. SnapTypes'
    BY <1>2, <1>3, <1>4, <1>5 DEF SnapTypes
<1>7. /\ q \notin F \cup E /\ (q \in N \/ q \in outlived)
      /\ Held(N) \in SUBSET Saves
    BY <1>1, <1>3 DEF Windows, Overdrawn, Held
<1>8. /\ IsFiniteSet(N) /\ IsFiniteSet(F) /\ Cardinality(N) \in Nat /\ Cardinality(F) \in Nat
      /\ Cardinality(E) \in Nat
    BY SavesCount
<1>9. \A x \in Overdrawn' : x # q /\ (x \in N \/ x \in outlived')
    BY <1>1, <1>3, <1>4 DEF Windows, Overdrawn
<1>10. CASE q \in N
  <2>1. PICK M : M = N \ {q}
      OBVIOUS
  <2>2. M \in SUBSET Saves /\ Cardinality(M) = Cardinality(N) - 1
      BY <1>8, <1>10, <2>1, FS_RemoveElement
  <2>3. Held(M)' = Held(N) /\ Older(M)' = Older(N)
      BY <1>3, <1>4, <2>1 DEF Held, Older, Kept
  <2>4. counter'.n = Cardinality(M) - Cardinality(F)
      BY <1>1, <1>5, <1>8, <2>2 DEF Windows
  <2>5. \A x \in F \cup E : save'[x] = "quota"
      BY <1>1, <1>4 DEF Windows
  <2>6. \A x \in M : save'[x] \in Counted
      BY <1>1, <1>4, <2>1 DEF Windows
  <2>7. \A x \in Overdrawn' : x \in M \/ x \in outlived'
      BY <1>9, <2>1
  <2>8. Windows(M, F, E)'
      BY <1>1, <1>3, <1>5, <2>3, <2>4, <2>5, <2>6, <2>7 DEF Windows
  <2> QED
      BY <1>6, <2>2, <2>8 DEF SnapInv
<1>11. CASE q \notin N
  <2>1. PICK G : G = F \cup {q}
      OBVIOUS
  <2>2. G \in SUBSET Saves /\ Cardinality(G) = Cardinality(F) + 1
      BY <1>7, <1>8, <2>1, FS_AddElement
  <2>3. Held(N)' = Held(N) /\ Older(N)' = Older(N)
      BY <1>3, <1>4 DEF Held, Older, Kept
  <2>4. counter'.n = Cardinality(N) - Cardinality(G)
      BY <1>1, <1>5, <1>8, <2>2 DEF Windows
  <2>5. \A x \in G \cup E : save'[x] = "quota"
      BY <1>1, <1>4, <2>1 DEF Windows
  <2>6. \A x \in N : save'[x] \in Counted
      BY <1>1, <1>4, <1>11 DEF Windows
  <2>7. G \cap E = {} /\ G \subseteq outlived' /\ E \subseteq outlived'
      BY <1>1, <1>3, <1>7, <1>11, <2>1 DEF Windows
  <2>8. Cardinality(Held(N)') <= MaxPerUser + Cardinality(G)
    <3>1. Cardinality(Held(N)) \in Nat
        BY <1>7, SavesCount
    <3>2. Cardinality(Held(N)) <= MaxPerUser + Cardinality(F)
        BY <1>1 DEF Windows
    <3> QED
        BY <1>8, <2>2, <2>3, <3>1, <3>2, SnapBounds
  <2>9. Windows(N, G, E)'
      BY <1>1, <1>3, <1>5, <1>9, <2>3, <2>4, <2>5, <2>6, <2>7, <2>8 DEF Windows
  <2> QED
      BY <1>6, <2>2, <2>9 DEF SnapInv
<1> QED
    BY <1>10, <1>11

(* The windows of the counter account for every snapshot that is alive:    *)
(* the invariant behind LiveWithinTwiceCap (SnapInvImplies).               *)
THEOREM SnapInvariant == Spec => []SnapInv
<1>1. Init => SnapInv
    BY SnapInitInv DEF Init
<1>2. SnapInv /\ [Next]_serviceVars => SnapInv'
  <2> SUFFICES ASSUME SnapInv, [Next]_serviceVars
               PROVE  SnapInv'
      OBVIOUS
  <2>1. [SnapNext]_snapVars
      BY DEF Next, RestOf, serviceVars
  <2>2. CASE UNCHANGED snapVars
    <3>1. UNCHANGED <<snapClock, snapshot, counter, save, outlived>>
        BY <2>2 DEF snapVars
    <3>2. PICK N \in SUBSET Saves, F \in SUBSET Saves, E \in SUBSET Saves : Windows(N, F, E)
        BY DEF SnapInv
    <3>3. SnapTypes' /\ Held(N)' = Held(N) /\ Older(N)' = Older(N) /\ Overdrawn' = Overdrawn
        BY <3>1 DEF SnapInv, SnapTypes, Held, Older, Overdrawn
    <3> QED
        BY <3>1, <3>2, <3>3, WindowsStay DEF Windows
  <2>3. CASE SnapNext
      BY <2>3, CounterLapses, TimePasses, SaveSteps, CounterArmed, SlotTaken, SlotGivenBack
      DEF SnapNext
  <2> QED
      BY <2>1, <2>2, <2>3
<1> QED
    BY <1>1, <1>2, PTL DEF Spec

(* However requests, imports and lapses interleave, a cache is no staler   *)
(* and no fuller than it may be: entries follow imports, a personal answer *)
(* is recent, and the live snapshots of a user are those of two windows.   *)
THEOREM CachesStayBounded == Spec => []CachesAreBounded
<1>1. ImportInv /\ AnswersInv /\ SnapInv => CachesAreBounded
    BY ImportInvImplies, AnswersInvImplies, SnapInvImplies DEF CachesAreBounded
<1> QED
    BY <1>1, ImportInvariant, AnswersInvariant, SnapInvariant, PTL
=============================================================================
