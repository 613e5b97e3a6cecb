---------------------------- MODULE SyncRunProofs ----------------------------
(***************************************************************************)
(* Proofs about SyncRun, for every set of entries, every page size and any *)
(* number of runs: what a completed run leaves, what the sweep spares, and *)
(* what the events add up to.                                              *)
(***************************************************************************)
EXTENDS SyncRun, SequenceTheorems, TLAPS

-----------------------------------------------------------------------------
(* The inductive invariant.                                                *)

(* A row or an edge never carries a stamp of the future, and the run's     *)
(* stamp is the number of the last run that started.                       *)
StampsFromThePast ==
    /\ run.started = runs
    /\ run.pc # "idle" => runs > 0
    /\ run.pc = "fetch" => run.page > 0
    /\ run.pc \in {"persist", "emit", "graph"} => run.page > 0
    /\ \A e \in Entries : rows[e] <= runs /\ edges[e] <= runs
    /\ Linked \subseteq InGraph

(* The pages the run has read reach up to this one.                        *)
Reached == IF run.pc = "fetch" THEN run.page - 1 ELSE run.page

Paging == {"fetch", "persist", "emit", "graph"}

Swept == {"sweep_graph", "emit_removed", "snapshot", "done"}

(* e's row carries the run's stamp, or is about to.                        *)
RowSeen(e) == rows[e] = run.started \/ (run.pc = "persist" /\ e \in run.batch)

(* e's edge carries the run's stamp, or is about to.                       *)
EdgeSeen(e) ==
    \/ edges[e] = run.started
    \/ run.pc \in {"persist", "emit", "graph"} /\ e \in run.batch

Seen(e) == RowSeen(e) /\ (e \in InGraph => EdgeSeen(e))

(* The run has read everything that was there all along.                   *)
ReadAll == run.pc = "sweep" \/ run.pc \in Swept \/ (run.last /\ run.pc \in Paging \ {"fetch"})

PagesRead ==
    (~shrunk /\ run.pc \in Paging) =>
        \A k \in DOMAIN remote :
            (k <= Reached * PageSize /\ remote[k] \in steady) => Seen(remote[k])

AllRead == (~shrunk /\ ReadAll) => \A e \in steady : Seen(e)

ReadInv ==
    /\ steady \subseteq Held
    /\ PagesRead
    /\ AllRead

QuietInv ==
    ~changed =>
        /\ ~shrunk
        /\ run.pc # "idle" => steady = Held
        /\ run.batch \subseteq Held
        /\ \A e \in Entries :
              /\ rows[e] = run.started /\ rows[e] # Absent => e \in Held
              /\ edges[e] = run.started /\ edges[e] # Absent => e \in Held

SweptInv ==
    /\ run.pc \in Swept => \A e \in Entries : rows[e] \in {Absent, run.started}
    /\ run.pc \in Swept \ {"sweep_graph"} =>
          \A e \in Entries : edges[e] \in {Absent, run.started}
    /\ (run.pc = "done" /\ list = "collection") => snapshot = Present

PendingInv ==
    /\ run.pc = "emit" => run.pending \subseteq Present
    /\ run.pc \in {"sweep_graph", "emit_removed"} => run.pending \cap Present = {}
    /\ run.pc \notin {"emit", "sweep_graph", "emit_removed"} => run.pending = {}

-----------------------------------------------------------------------------
(* Arithmetic and sequences.                                               *)

(* A page number that reaches the page count covers the whole list.        *)
LEMMA LastPageCovers ==
    ASSUME NEW L \in Nat, NEW p \in Nat, NEW S \in Nat \ {0}, p >= (L + S - 1) \div S
    PROVE  L <= p * S
<1>1. PICK d \in Int : d = (L + S - 1) \div S
    OBVIOUS
<1>2. d * S > L - 1
    BY <1>1
<1>3. p * S >= d * S
    BY <1>1
<1> QED
    BY <1>2, <1>3

LEMMA NextPage ==
    ASSUME NEW p \in Nat, NEW S \in Nat \ {0}
    PROVE  /\ p * S \in Nat
           /\ (p - 1) * S \in Int
           /\ p * S = (p - 1) * S + S
           /\ (p + 1 - 1) * S = p * S
    OBVIOUS

(* A new element goes to its place and moves the ones behind it one back.  *)
LEMMA InsertFacts ==
    ASSUME NEW T, NEW s \in Seq(T), NEW e \in T, NEW k \in 1..(Len(s) + 1)
    PROVE  /\ InsertAt(s, k, e) \in Seq(T)
           /\ Len(InsertAt(s, k, e)) = Len(s) + 1
           /\ \A j \in 1..(Len(s) + 1) :
                 InsertAt(s, k, e)[j] = IF j < k THEN s[j] ELSE IF j = k THEN e ELSE s[j - 1]
<1>a. PICK a : a = SubSeq(s, 1, k - 1)
    OBVIOUS
<1>z. PICK z : z = SubSeq(s, k, Len(s))
    OBVIOUS
<1>0. Len(s) \in Nat /\ k \in Nat /\ k >= 1 /\ k <= Len(s) + 1
    BY LenProperties
<1>1. /\ a \in Seq(T)
      /\ Len(a) = k - 1
      /\ \A j \in 1..(k - 1) : a[j] = s[j]
  <2>1. \A j \in 1..(k - 1) : s[j] \in T
      BY <1>0, ElementOfSeq
  <2>2. /\ a \in Seq(T)
        /\ Len(a) = IF 1 <= k - 1 THEN (k - 1) - 1 + 1 ELSE 0
        /\ \A j \in 1..((k - 1) - 1 + 1) : a[j] = s[1 + j - 1]
      BY <1>0, <1>a, <2>1, SubSeqProperties
  <2> QED
      BY <1>0, <2>2
<1>2. /\ z \in Seq(T)
      /\ Len(z) = Len(s) - k + 1
      /\ \A j \in 1..(Len(s) - k + 1) : z[j] = s[k + j - 1]
  <2>1. \A j \in k..Len(s) : s[j] \in T
      BY <1>0, ElementOfSeq
  <2>2. /\ z \in Seq(T)
        /\ Len(z) = IF k <= Len(s) THEN Len(s) - k + 1 ELSE 0
        /\ \A j \in 1..(Len(s) - k + 1) : z[j] = s[k + j - 1]
      BY <1>0, <1>z, <2>1, SubSeqProperties
  <2> QED
      BY <1>0, <2>2
<1>m. PICK m : m = <<e>>
    OBVIOUS
<1>3. m \in Seq(T) /\ Len(m) = 1 /\ m[1] = e
    BY <1>m
<1>am. PICK am : am = a \o m
    OBVIOUS
<1>4. /\ am \in Seq(T)
      /\ Len(am) = Len(a) + Len(m)
      /\ \A j \in 1..(Len(a) + Len(m)) : am[j] = IF j <= Len(a) THEN a[j] ELSE m[j - Len(a)]
    BY <1>am, <1>1, <1>3, ConcatProperties
<1>5. /\ am \in Seq(T)
      /\ Len(am) = k
      /\ \A j \in 1..k : am[j] = IF j < k THEN s[j] ELSE e
    BY <1>0, <1>1, <1>3, <1>4
<1>res. PICK res : res = am \o z
    OBVIOUS
<1>6. /\ res \in Seq(T)
      /\ Len(res) = Len(am) + Len(z)
      /\ \A j \in 1..(Len(am) + Len(z)) : res[j] = IF j <= Len(am) THEN am[j] ELSE z[j - Len(am)]
    BY <1>res, <1>2, <1>5, ConcatProperties
<1>7. res = InsertAt(s, k, e)
    BY <1>a, <1>z, <1>m, <1>am, <1>res DEF InsertAt
<1>8. ASSUME NEW j \in 1..(Len(s) + 1)
      PROVE  res[j] = IF j < k THEN s[j] ELSE IF j = k THEN e ELSE s[j - 1]
  <2>1. CASE j <= k
      BY <1>0, <1>2, <1>5, <1>6, <2>1
  <2>2. CASE j > k
    <3>1. j - k \in 1..(Len(s) - k + 1) /\ j <= k + (Len(s) - k + 1)
        BY <1>0, <2>2
    <3>2. res[j] = z[j - k]
        BY <1>0, <1>2, <1>5, <1>6, <2>2, <3>1
    <3>3. z[j - k] = s[k + (j - k) - 1]
        BY <1>2, <3>1
    <3> QED
        BY <1>0, <2>2, <3>2, <3>3
  <2> QED
      BY <1>0, <2>1, <2>2
<1> QED
    BY <1>0, <1>2, <1>5, <1>6, <1>7, <1>8

(* Removing one element leaves every other one in the list.                *)
LEMMA RemoveFacts ==
    ASSUME NEW T, NEW s \in Seq(T), NEW k \in 1..Len(s)
    PROVE  /\ RemoveAt(s, k) \in Seq(T)
           /\ Len(RemoveAt(s, k)) = Len(s) - 1
           /\ \A j \in 1..(Len(s) - 1) : RemoveAt(s, k)[j] = IF j < k THEN s[j] ELSE s[j + 1]
<1>a. PICK a : a = SubSeq(s, 1, k - 1)
    OBVIOUS
<1>z. PICK z : z = SubSeq(s, k + 1, Len(s))
    OBVIOUS
<1>0. Len(s) \in Nat /\ k \in Nat /\ k >= 1 /\ k <= Len(s)
    BY LenProperties
<1>1. /\ a \in Seq(T)
      /\ Len(a) = k - 1
      /\ \A j \in 1..(k - 1) : a[j] = s[j]
  <2>1. \A j \in 1..(k - 1) : s[j] \in T
      BY <1>0, ElementOfSeq
  <2>2. /\ a \in Seq(T)
        /\ Len(a) = IF 1 <= k - 1 THEN (k - 1) - 1 + 1 ELSE 0
        /\ \A j \in 1..((k - 1) - 1 + 1) : a[j] = s[1 + j - 1]
      BY <1>0, <1>a, <2>1, SubSeqProperties
  <2> QED
      BY <1>0, <2>2
<1>2. /\ z \in Seq(T)
      /\ Len(z) = Len(s) - k
      /\ \A j \in 1..(Len(s) - k) : z[j] = s[k + j]
  <2>1. \A j \in (k + 1)..Len(s) : s[j] \in T
      BY <1>0, ElementOfSeq
  <2>2. /\ z \in Seq(T)
        /\ Len(z) = IF k + 1 <= Len(s) THEN Len(s) - (k + 1) + 1 ELSE 0
        /\ \A j \in 1..(Len(s) - (k + 1) + 1) : z[j] = s[(k + 1) + j - 1]
      BY <1>0, <1>z, <2>1, SubSeqProperties
  <2> QED
      BY <1>0, <2>2
<1>res. PICK res : res = a \o z
    OBVIOUS
<1>3. /\ res \in Seq(T)
      /\ Len(res) = Len(a) + Len(z)
      /\ \A j \in 1..(Len(a) + Len(z)) : res[j] = IF j <= Len(a) THEN a[j] ELSE z[j - Len(a)]
    BY <1>res, <1>1, <1>2, ConcatProperties
<1>4. Len(a) + Len(z) = Len(s) - 1
    BY <1>0, <1>1, <1>2
<1>5. /\ res \in Seq(T)
      /\ Len(res) = Len(s) - 1
      /\ \A j \in 1..(Len(s) - 1) : res[j] = IF j <= k - 1 THEN a[j] ELSE z[j - (k - 1)]
    BY <1>1, <1>3, <1>4
<1>6. res = RemoveAt(s, k)
    BY <1>a, <1>z, <1>res DEF RemoveAt
<1>7. ASSUME NEW j \in 1..(Len(s) - 1)
      PROVE  res[j] = IF j < k THEN s[j] ELSE s[j + 1]
  <2>1. CASE j < k
    <3>1. j \in 1..(k - 1) /\ j <= k - 1
        BY <1>0, <2>1
    <3>2. res[j] = a[j]
        BY <1>5, <3>1
    <3> QED
        BY <1>1, <2>1, <3>1, <3>2
  <2>2. CASE j >= k
    <3>1. j - (k - 1) \in 1..(Len(s) - k)
        BY <1>0, <2>2
    <3>2. res[j] = z[j - (k - 1)]
        BY <1>0, <1>5, <2>2
    <3>3. z[j - (k - 1)] = s[k + (j - (k - 1))]
        BY <1>2, <3>1
    <3> QED
        BY <1>0, <2>2, <3>2, <3>3
  <2> QED
      BY <1>0, <2>1, <2>2
<1> QED
    BY <1>6, <1>7, <1>5

(* The entries of the list are the elements of the sequence.               *)
LEMMA HeldFacts ==
    ASSUME remote \in Seq(Entries)
    PROVE  /\ DOMAIN remote = 1..Len(remote) /\ Len(remote) \in Nat
           /\ Held \subseteq Entries
           /\ \A k \in DOMAIN remote : remote[k] \in Held
           /\ \A e \in Held : \E k \in DOMAIN remote : remote[k] = e
<1>1. DOMAIN remote = 1..Len(remote) /\ Len(remote) \in Nat
    BY LenProperties
<1>2. \A k \in DOMAIN remote : remote[k] \in Entries
    BY <1>1, ElementOfSeq
<1> QED
    BY <1>1, <1>2 DEF Held, ToSet

LEMMA HeldFactsPrime ==
    ASSUME remote' \in Seq(Entries)
    PROVE  /\ DOMAIN remote' = 1..Len(remote') /\ Len(remote') \in Nat
           /\ Held' \subseteq Entries
           /\ \A k \in DOMAIN remote' : remote'[k] \in Held'
           /\ \A e \in Held' : \E k \in DOMAIN remote' : remote'[k] = e
<1>1. DOMAIN remote' = 1..Len(remote') /\ Len(remote') \in Nat
    BY LenProperties
<1>2. \A k \in DOMAIN remote' : remote'[k] \in Entries
    BY <1>1, ElementOfSeq
<1> QED
    BY <1>1, <1>2 DEF Held, ToSet

(* An addition moves an old element at most one place back.                *)
LEMMA AddFacts ==
    ASSUME remote \in Seq(Entries), NEW e \in Entries, NEW k \in 1..(Len(remote) + 1),
           AddRemote(e, k)
    PROVE  /\ remote' \in Seq(Entries)
           /\ Held \subseteq Held'
           /\ \A j \in DOMAIN remote' :
                 remote'[j] = e \/ \E i \in DOMAIN remote : i <= j /\ remote'[j] = remote[i]
<1>0. DOMAIN remote = 1..Len(remote) /\ Len(remote) \in Nat
    BY HeldFacts
<1>1. /\ remote' \in Seq(Entries)
      /\ Len(remote') = Len(remote) + 1
      /\ \A j \in 1..(Len(remote) + 1) :
            remote'[j] = IF j < k THEN remote[j] ELSE IF j = k THEN e ELSE remote[j - 1]
  <2>1. remote' = InsertAt(remote, k, e)
      BY DEF AddRemote
  <2>2. /\ InsertAt(remote, k, e) \in Seq(Entries)
        /\ Len(InsertAt(remote, k, e)) = Len(remote) + 1
        /\ \A j \in 1..(Len(remote) + 1) :
              InsertAt(remote, k, e)[j] =
                  IF j < k THEN remote[j] ELSE IF j = k THEN e ELSE remote[j - 1]
      BY InsertFacts
  <2> QED
      BY <2>1, <2>2, Zenon
<1>2. DOMAIN remote' = 1..(Len(remote) + 1)
    BY <1>1, HeldFactsPrime
<1>3. ASSUME NEW j \in DOMAIN remote'
      PROVE  remote'[j] = e \/ \E i \in DOMAIN remote : i <= j /\ remote'[j] = remote[i]
  <2>1. CASE j < k
      BY <1>0, <1>1, <1>2, <2>1
  <2>2. CASE j = k
      BY <1>1, <1>2, <2>2
  <2>3. CASE j > k
    <3>1. j - 1 \in DOMAIN remote /\ j - 1 <= j
        BY <1>0, <1>2, <2>3
    <3>2. remote'[j] = remote[j - 1]
        BY <1>1, <1>2, <2>3
    <3> QED
        BY <3>1, <3>2
  <2> QED
      BY <1>0, <1>2, <2>1, <2>2, <2>3
<1>4. ASSUME NEW i \in DOMAIN remote
      PROVE  remote[i] \in Held'
  <2>1. CASE i < k
    <3>1. i \in DOMAIN remote' /\ remote'[i] = remote[i]
        BY <1>0, <1>1, <1>2, <2>1
    <3> QED
        BY <1>1, <3>1, HeldFactsPrime
  <2>2. CASE i >= k
    <3>1. i + 1 \in 1..(Len(remote) + 1) /\ ~(i + 1 < k) /\ i + 1 # k /\ (i + 1) - 1 = i
        BY <1>0, <2>2
    <3>2. remote'[i + 1] = remote[i]
        BY <1>1, <3>1
    <3> QED
        BY <1>1, <1>2, <3>1, <3>2, HeldFactsPrime
  <2> QED
      BY <1>0, <2>1, <2>2
<1> QED
    BY <1>1, <1>3, <1>4, HeldFacts

(* A removal takes away nothing but the element removed.                   *)
LEMMA RemovalFacts ==
    ASSUME remote \in Seq(Entries), NEW k \in DOMAIN remote, RemoveRemote(k)
    PROVE  /\ remote' \in Seq(Entries)
           /\ \A x \in Held : x = remote[k] \/ x \in Held'
<1>0. DOMAIN remote = 1..Len(remote) /\ Len(remote) \in Nat
    BY HeldFacts
<1>1. /\ remote' \in Seq(Entries)
      /\ Len(remote') = Len(remote) - 1
      /\ \A j \in 1..(Len(remote) - 1) :
            remote'[j] = IF j < k THEN remote[j] ELSE remote[j + 1]
    BY <1>0, RemoveFacts DEF RemoveRemote
<1>2. DOMAIN remote' = 1..(Len(remote) - 1)
    BY <1>1, HeldFactsPrime
<1>3. ASSUME NEW i \in DOMAIN remote, i # k
      PROVE  remote[i] \in Held'
  <2>1. CASE i < k
    <3>1. i \in DOMAIN remote' /\ remote'[i] = remote[i]
        BY <1>0, <1>1, <1>2, <2>1
    <3> QED
        BY <1>1, <3>1, HeldFactsPrime
  <2>2. CASE i > k
    <3>1. i - 1 \in 1..(Len(remote) - 1) /\ ~(i - 1 < k) /\ (i - 1) + 1 = i
        BY <1>0, <2>2
    <3>2. remote'[i - 1] = remote[i]
        BY <1>1, <3>1
    <3> QED
        BY <1>1, <1>2, <3>1, <3>2, HeldFactsPrime
  <2> QED
      BY <1>0, <1>3, <2>1, <2>2
<1> QED
    BY <1>1, <1>3, HeldFacts

-----------------------------------------------------------------------------
(* The type invariant.                                                     *)

RunTypes == [pc : RunSteps, page : Nat, started : 0..MaxRuns, batch : SUBSET Entries,
             last : BOOLEAN, pending : SUBSET Entries, retries : 0..MaxRetries]

LEMMA RunIsTyped ==
    ASSUME NEW pc \in RunSteps, NEW page \in Nat, NEW started \in 0..MaxRuns,
           NEW batch \in SUBSET Entries, NEW last \in BOOLEAN,
           NEW pending \in SUBSET Entries
    PROVE  Run(pc, page, started, batch, last, pending) \in RunTypes
    BY RunBounds DEF Run, RunTypes

(* What is stamped and what is swept stays a table of stamps.              *)
LEMMA TablesAreTyped ==
    ASSUME NEW stamps \in [Entries -> 0..MaxRuns], NEW touched, run.started \in 0..MaxRuns
    PROVE  /\ Stamped(stamps, touched) \in [Entries -> 0..MaxRuns]
           /\ Without(stamps, touched) \in [Entries -> 0..MaxRuns]
           /\ \A e \in Entries :
                 /\ Stamped(stamps, touched)[e] = IF e \in touched THEN run.started ELSE stamps[e]
                 /\ Without(stamps, touched)[e] = IF e \in touched THEN Absent ELSE stamps[e]
    BY RunBounds DEF Stamped, Without, Absent

LEMMA TypesInit == RunInit => RunTypeOK
<1> SUFFICES ASSUME RunInit
             PROVE  RunTypeOK
    OBVIOUS
<1>1. run \in RunTypes
    BY RunBounds DEF RunInit, NotStarted, RunSteps, Run, RunTypes
<1>2. rows \in [Entries -> 0..MaxRuns] /\ edges \in [Entries -> 0..MaxRuns]
    BY RunBounds DEF RunInit, Absent
<1>3. remote \in Seq(Entries)
    BY EmptySeq DEF RunInit
<1>4. runs \in 0..MaxRuns
    BY RunBounds DEF RunInit
<1> QED
    BY <1>1, <1>2, <1>3, <1>4 DEF RunInit, RunTypeOK, RunTypes

(* The part of a step's type that concerns the run and the stamps.         *)
LEMMA TypesNext == RunTypeOK /\ [RunNext]_runVars => RunTypeOK'
<1> SUFFICES ASSUME RunTypeOK, [RunNext]_runVars
             PROVE  RunTypeOK'
    OBVIOUS
<1> USE DEF RunTypeOK
<1>0. run \in RunTypes /\ run.started \in 0..MaxRuns /\ run.page \in Nat
    BY DEF RunTypes
<1>e. ASSUME NEW pc \in {"idle", "done"}
      PROVE  Ended(pc) \in RunTypes
    BY <1>0, RunIsTyped DEF Ended, RunSteps
<1>p. PageEntries(run.page) \subseteq Entries
    BY HeldFacts DEF PageEntries
<1>1. ASSUME NEW e \in Entries, NEW k \in 1..(Len(remote) + 1), AddRemote(e, k)
      PROVE  RunTypeOK'
  <2>1. remote' \in Seq(Entries) /\ Held \subseteq Held'
      BY <1>1, AddFacts
  <2> QED
      BY <1>1, <2>1 DEF AddRemote, stored, events
<1>2. ASSUME NEW k \in DOMAIN remote, RemoveRemote(k)
      PROVE  RunTypeOK'
  <2>1. remote' \in Seq(Entries) /\ steady' \subseteq Held'
      BY <1>2, RemovalFacts DEF RemoveRemote
  <2> QED
      BY <1>2, <2>1 DEF RemoveRemote, stored, events
<1>3. CASE StartSync
  <2>1. runs' \in 0..MaxRuns /\ runs' = runs + 1
      BY <1>3, RunBounds DEF StartSync
  <2>2. run' \in RunTypes
      BY <1>3, <2>1, RunIsTyped DEF StartSync, RunSteps
  <2>3. steady' \subseteq Held'
      BY <1>3 DEF StartSync, Held
  <2> QED
      BY <1>3, <2>1, <2>2, <2>3 DEF StartSync, stored, events, RunTypes
<1>4. ASSUME run' \in RunTypes, remote' = remote, steady' = steady, list' = list, used' = used,
             changed' = changed, shrunk' = shrunk, runs' = runs,
             rows' \in [Entries -> 0..MaxRuns], edges' \in [Entries -> 0..MaxRuns],
             snapshot' \subseteq Entries, known' \subseteq Entries, lost' \subseteq Entries
      PROVE  RunTypeOK'
  <2>1. Held' = Held
      BY <1>4 DEF Held
  <2> QED
      BY <1>4, <2>1 DEF RunTypes
<1>5. CASE RateLimited
  <2>1. run' \in RunTypes
    <3>1. CASE run.retries < MaxRetries
      <4>1. run' = [run EXCEPT !.retries = @ + 1]
          BY <1>5, <3>1 DEF RateLimited
      <4>2. run.retries + 1 \in 0..MaxRetries
          BY <3>1, RunBounds
      <4> QED
          BY <1>0, <4>1, <4>2 DEF RunTypes
    <3>2. CASE ~(run.retries < MaxRetries)
        BY <1>5, <1>e, <3>2 DEF RateLimited
    <3> QED
        BY <3>1, <3>2
  <2> QED
      BY <1>4, <1>5, <2>1 DEF RateLimited, discogs, stored, events
<1>6. CASE FetchPage
  <2>1. run' \in RunTypes
    <3>1. Run("sweep", run.page, run.started, {}, TRUE, {}) \in RunTypes
        BY <1>0, RunIsTyped DEF RunSteps
    <3>2. Run("persist", run.page, run.started, PageEntries(run.page), IsLast(run.page), {})
             \in RunTypes
      <4>1. IsLast(run.page) \in BOOLEAN
          BY DEF IsLast
      <4> QED
          BY <1>0, <1>p, <4>1, RunIsTyped DEF RunSteps
    <3> QED
        BY <1>6, <3>1, <3>2 DEF FetchPage
  <2> QED
      BY <1>4, <1>6, <2>1 DEF FetchPage, discogs, stored, events
<1>7. CASE PersistPage
  <2>1. run' \in RunTypes
      BY <1>0, <1>7 DEF PersistPage, RunTypes, RunSteps, Added
  <2>2. rows' \in [Entries -> 0..MaxRuns]
    <3>1. rows' = Stamped(rows, run.batch)
        BY <1>7 DEF PersistPage
    <3> QED
        BY <1>0, <3>1 DEF Stamped
  <2> QED
      BY <1>4, <1>7, <2>1, <2>2 DEF PersistPage, discogs, events
<1>8. CASE EmitAdded
  <2>1. run' \in RunTypes
      BY <1>0, <1>8 DEF EmitAdded, RunTypes, RunSteps
  <2>2. known' \subseteq Entries /\ lost' \subseteq Entries
      BY <1>8 DEF EmitAdded
  <2> QED
      BY <1>4, <1>8, <2>1, <2>2 DEF EmitAdded, discogs, stored
<1>9. CASE GraphPage
  <2>1. run' \in RunTypes
    <3>1. Run("sweep", run.page, run.started, {}, TRUE, {}) \in RunTypes
        BY <1>0, RunIsTyped DEF RunSteps
    <3>2. Run("fetch", run.page + 1, run.started, {}, FALSE, {}) \in RunTypes
      <4>1. run.page + 1 \in Nat
          BY <1>0
      <4> QED
          BY <1>0, <4>1, RunIsTyped DEF RunSteps
    <3> QED
        BY <1>9, <3>1, <3>2 DEF GraphPage
  <2>2. edges' \in [Entries -> 0..MaxRuns]
    <3>1. edges' = Stamped(edges, run.batch \cap InGraph)
        BY <1>9 DEF GraphPage
    <3> QED
        BY <1>0, <3>1 DEF Stamped
  <2> QED
      BY <1>4, <1>9, <2>1, <2>2 DEF GraphPage, discogs, events
<1>10. CASE SweepRows
  <2>1. run' \in RunTypes
      BY <1>0, <1>10 DEF SweepRows, RunTypes, RunSteps, Stale
  <2>2. rows' \in [Entries -> 0..MaxRuns]
      BY <1>0, <1>10, TablesAreTyped DEF SweepRows
  <2> QED
      BY <1>4, <1>10, <2>1, <2>2 DEF SweepRows, discogs, events
<1>11. CASE SweepGraph
  <2>1. run' \in RunTypes
      BY <1>0, <1>11 DEF SweepGraph, RunTypes, RunSteps
  <2>2. edges' \in [Entries -> 0..MaxRuns]
      BY <1>0, <1>11, TablesAreTyped DEF SweepGraph
  <2> QED
      BY <1>4, <1>11, <2>1, <2>2 DEF SweepGraph, discogs, events
<1>12. CASE EmitRemoved
  <2>1. run' \in RunTypes
      BY <1>0, <1>12, <1>e DEF EmitRemoved, RunTypes, RunSteps
  <2>2. known' \subseteq Entries /\ lost' \subseteq Entries
      BY <1>12 DEF EmitRemoved
  <2> QED
      BY <1>4, <1>12, <2>1, <2>2 DEF EmitRemoved, discogs, stored
<1>13. CASE WriteSnapshot
    BY <1>4, <1>13, <1>e DEF WriteSnapshot, discogs, events, Present
<1>14. CASE Interrupted
    BY <1>4, <1>14, <1>e DEF Interrupted, discogs, stored
<1>15. CASE UNCHANGED runVars
    BY <1>0, <1>4, <1>15 DEF runVars
<1> QED
    BY <1>1, <1>2, <1>3, <1>5, <1>6, <1>7, <1>8, <1>9, <1>10, <1>11, <1>12, <1>13, <1>14,
       <1>15 DEF RunNext

(* The tables, the run and the lists of SyncRun stay within their types,   *)
(* whatever the page size and the number of runs.                          *)
THEOREM SyncRunTypes == RunSpec => []RunTypeOK
<1>1. RunInit => RunTypeOK
    BY TypesInit
<1>2. RunTypeOK /\ [RunNext]_runVars => RunTypeOK'
    BY TypesNext
<1> QED
    BY <1>1, <1>2, PTL DEF RunSpec

-----------------------------------------------------------------------------
(* Stamps.                                                                 *)

LEMMA StampsInit == RunInit => StampsFromThePast
    BY DEF RunInit, StampsFromThePast, NotStarted, Run, Absent, Linked

LEMMA StampsNext == RunTypeOK /\ StampsFromThePast /\ [RunNext]_runVars => StampsFromThePast'
<1> SUFFICES ASSUME RunTypeOK, StampsFromThePast, [RunNext]_runVars
             PROVE  StampsFromThePast'
    OBVIOUS
<1> USE DEF StampsFromThePast
<1>0. /\ run \in RunTypes /\ run.started \in Nat /\ run.page \in Nat /\ runs \in Nat
      /\ rows \in [Entries -> 0..MaxRuns] /\ edges \in [Entries -> 0..MaxRuns]
      /\ \A e \in Entries : rows[e] \in Nat /\ edges[e] \in Nat
    BY RunBounds DEF RunTypeOK, RunTypes
<1>1. ASSUME run' = run, runs' = runs, rows' = rows, edges' = edges
      PROVE  StampsFromThePast'
    BY <1>1 DEF Linked
<1>2. CASE StartSync
    BY <1>0, <1>2 DEF StartSync, stored, Run, Linked
<1>3. ASSUME runs' = runs, rows' = rows, edges' = edges, run'.started = run.started,
             run.pc # "idle",
             run'.pc \in {"fetch", "persist", "emit", "graph"} => run'.page > 0
      PROVE  StampsFromThePast'
    BY <1>3 DEF Linked
<1>4. CASE RateLimited
  <2>1. CASE run.retries < MaxRetries
      BY <1>0, <1>3, <1>4, <2>1 DEF RateLimited, stored, RunTypes
  <2>2. CASE ~(run.retries < MaxRetries)
      BY <1>0, <1>3, <1>4, <2>2 DEF RateLimited, stored, Ended, Run
  <2> QED
      BY <2>1, <2>2
<1>5. CASE FetchPage
  <2>1. CASE PageEntries(run.page) = {}
      BY <1>0, <1>3, <1>5, <2>1 DEF FetchPage, stored, Run
  <2>2. CASE PageEntries(run.page) # {}
      BY <1>0, <1>3, <1>5, <2>2 DEF FetchPage, stored, Run
  <2> QED
      BY <2>1, <2>2
<1>6. CASE PersistPage
  <2>1. \A e \in Entries : rows'[e] <= runs'
      BY <1>0, <1>6 DEF PersistPage, Stamped
  <2>2. run'.pc = "emit" /\ run'.page = run.page /\ run'.started = run.started
      BY <1>0, <1>6 DEF PersistPage, RunTypes
  <2> QED
      BY <1>6, <2>1, <2>2 DEF PersistPage, Linked
<1>7. CASE EmitAdded
    BY <1>0, <1>3, <1>7 DEF EmitAdded, stored, RunTypes
<1>8. CASE GraphPage
  <2>1. \A e \in Entries : edges'[e] <= runs'
      BY <1>0, <1>8 DEF GraphPage, Stamped
  <2>2. Linked' \subseteq InGraph
      BY <1>0, <1>8 DEF GraphPage, Stamped, Linked
  <2>3. run'.started = run.started /\ (run'.pc = "sweep" \/ run'.page > 0)
    <3>1. CASE run.last
        BY <1>8, <3>1 DEF GraphPage, Run
    <3>2. CASE ~run.last
        BY <1>0, <1>8, <3>2 DEF GraphPage, Run
    <3> QED
        BY <3>1, <3>2
  <2> QED
      BY <1>8, <2>1, <2>2, <2>3 DEF GraphPage
<1>9. CASE SweepRows
  <2>1. \A e \in Entries : rows'[e] <= runs'
      BY <1>0, <1>9 DEF SweepRows, Without, Absent
  <2>2. run'.pc = "sweep_graph" /\ run'.started = run.started
      BY <1>0, <1>9 DEF SweepRows, RunTypes
  <2> QED
      BY <1>9, <2>1, <2>2 DEF SweepRows, Linked
<1>10. CASE SweepGraph
  <2>1. \A e \in Entries : edges'[e] <= runs'
      BY <1>0, <1>10 DEF SweepGraph, Without, Absent
  <2>2. run'.pc = "emit_removed" /\ run'.started = run.started
      BY <1>0, <1>10 DEF SweepGraph, RunTypes
  <2>3. Linked' \subseteq InGraph
      BY <1>10 DEF SweepGraph, Without, Absent, Linked
  <2> QED
      BY <1>10, <2>1, <2>2, <2>3 DEF SweepGraph
<1>11. CASE EmitRemoved
  <2>1. CASE list = "collection"
      BY <1>0, <1>3, <1>11, <2>1 DEF EmitRemoved, stored, RunTypes
  <2>2. CASE list # "collection"
      BY <1>0, <1>3, <1>11, <2>2 DEF EmitRemoved, stored, Ended, Run
  <2> QED
      BY <2>1, <2>2
<1>12. CASE WriteSnapshot
    BY <1>0, <1>3, <1>12 DEF WriteSnapshot, Ended, Run
<1>13. CASE Interrupted
    BY <1>0, <1>3, <1>13 DEF Interrupted, stored, Ended, Run
<1> QED
    BY <1>1, <1>2, <1>4, <1>5, <1>6, <1>7, <1>8, <1>9, <1>10, <1>11, <1>12, <1>13
       DEF RunNext, AddRemote, RemoveRemote, stored, runVars

-----------------------------------------------------------------------------
(* The events.                                                             *)

EventInv == PendingInv /\ EventsFollowRows

LEMMA EventsInit == RunInit => EventInv
    BY DEF RunInit, EventInv, PendingInv, EventsFollowRows, NotStarted, Run, Present

LEMMA EventsNext ==
    RunTypeOK /\ StampsFromThePast /\ EventInv /\ [RunNext]_runVars => EventInv'
<1> SUFFICES ASSUME RunTypeOK, StampsFromThePast, EventInv, [RunNext]_runVars
             PROVE  EventInv'
    OBVIOUS
<1> USE DEF EventInv, PendingInv, EventsFollowRows
<1>0. /\ run \in RunTypes /\ run.started \in Nat /\ run.pending \subseteq Entries
      /\ run.batch \subseteq Entries
      /\ known \subseteq Entries /\ lost \subseteq Entries
      /\ rows \in [Entries -> 0..MaxRuns]
      /\ \A e \in Entries : rows[e] \in Nat
    BY RunBounds DEF RunTypeOK, RunTypes
<1>1. ASSUME run' = run, rows' = rows, known' = known, lost' = lost
      PROVE  EventInv'
    BY <1>1 DEF Present
<1>2. ASSUME rows' = rows, known' = known, lost' = lost, run'.pending = {}, run.pending = {},
             run'.pc \notin {"emit", "sweep_graph", "emit_removed"}
      PROVE  EventInv'
    BY <1>2 DEF Present
<1>3. CASE StartSync
    BY <1>0, <1>2, <1>3 DEF StartSync, stored, events, Run
<1>4. CASE RateLimited
  <2>1. CASE run.retries < MaxRetries
      BY <1>0, <1>2, <1>4, <2>1 DEF RateLimited, stored, events, RunTypes
  <2>2. CASE ~(run.retries < MaxRetries)
      BY <1>0, <1>2, <1>4, <2>2 DEF RateLimited, stored, events, Ended, Run
  <2> QED
      BY <2>1, <2>2
<1>5. CASE FetchPage
  <2>1. CASE PageEntries(run.page) = {}
      BY <1>0, <1>2, <1>5, <2>1 DEF FetchPage, stored, events, Run
  <2>2. CASE PageEntries(run.page) # {}
      BY <1>0, <1>2, <1>5, <2>2 DEF FetchPage, stored, events, Run
  <2> QED
      BY <2>1, <2>2
<1>6. CASE PersistPage
  <2>1. run.started # Absent
      BY <1>0, <1>6 DEF PersistPage, StampsFromThePast, Absent
  <2>2. Present' = Present \cup run.batch
      BY <1>0, <1>6, <2>1 DEF PersistPage, Present, Stamped
  <2>3. run'.pc = "emit" /\ run'.pending = run.batch \ Present
      BY <1>0, <1>6 DEF PersistPage, RunTypes, Added
  <2>4. run.pending = {} /\ known' = known /\ lost' = lost
      BY <1>6 DEF PersistPage, events
  <2>5. PendingInv'
      BY <2>2, <2>3
  <2>6. ASSUME NEW e \in Entries, e \notin lost', e \notin run'.pending
        PROVE  e \in known' <=> e \in Present'
      BY <2>2, <2>3, <2>4, <2>6
  <2> QED
      BY <2>5, <2>6
<1>7. CASE EmitAdded
  <2>1. PICK recorded \in SUBSET run.pending :
            known' = known \cup recorded /\ lost' = lost \cup (run.pending \ recorded)
      BY <1>7 DEF EmitAdded
  <2>2. run'.pc = "graph" /\ run'.pending = {}
      BY <1>0, <1>7 DEF EmitAdded, RunTypes
  <2>3. Present' = Present /\ run.pending \subseteq Present
      BY <1>7 DEF EmitAdded, stored, Present
  <2> QED
      BY <2>1, <2>2, <2>3
<1>8. CASE GraphPage
  <2>1. CASE run.last
      BY <1>0, <1>2, <1>8, <2>1 DEF GraphPage, events, Run
  <2>2. CASE ~run.last
      BY <1>0, <1>2, <1>8, <2>2 DEF GraphPage, events, Run
  <2> QED
      BY <2>1, <2>2
<1>9. CASE SweepRows
  <2>1. Present' = Present \ Stale(rows) /\ Stale(rows) \subseteq Present
      BY <1>0, <1>9 DEF SweepRows, Present, Without, Stale
  <2>2. run'.pc = "sweep_graph" /\ run'.pending = Stale(rows)
      BY <1>0, <1>9 DEF SweepRows, RunTypes
  <2>3. run.pending = {} /\ known' = known /\ lost' = lost
      BY <1>9 DEF SweepRows, events
  <2>4. PendingInv'
      BY <2>1, <2>2
  <2>5. ASSUME NEW e \in Entries, e \notin lost', e \notin run'.pending
        PROVE  e \in known' <=> e \in Present'
      BY <2>1, <2>2, <2>3, <2>5
  <2> QED
      BY <2>4, <2>5
<1>10. CASE SweepGraph
  <2>1. run'.pc = "emit_removed" /\ run'.pending = run.pending
      BY <1>0, <1>10 DEF SweepGraph, RunTypes
  <2>2. Present' = Present /\ known' = known /\ lost' = lost
      BY <1>10 DEF SweepGraph, events, Present
  <2> QED
      BY <1>10, <2>1, <2>2 DEF SweepGraph
<1>11. CASE EmitRemoved
  <2>1. PICK recorded \in SUBSET run.pending :
            known' = known \ recorded /\ lost' = lost \cup (run.pending \ recorded)
      BY <1>11 DEF EmitRemoved
  <2>2. run'.pc \in {"snapshot", "done"} /\ run'.pending = {}
    <3>1. CASE list = "collection"
        BY <1>0, <1>11, <3>1 DEF EmitRemoved, RunTypes
    <3>2. CASE list # "collection"
        BY <1>11, <3>2 DEF EmitRemoved, Ended, Run
    <3> QED
        BY <3>1, <3>2
  <2>3. Present' = Present /\ run.pending \cap Present = {}
      BY <1>11 DEF EmitRemoved, stored, Present
  <2> QED
      BY <2>1, <2>2, <2>3
<1>12. CASE WriteSnapshot
    BY <1>0, <1>2, <1>12 DEF WriteSnapshot, events, Ended, Run
<1>13. CASE Interrupted
  <2>1. run'.pc = "idle" /\ run'.pending = {}
      BY <1>13 DEF Interrupted, Ended, Run
  <2>2. Present' = Present /\ known' = known /\ lost' = lost \cup run.pending
      BY <1>13 DEF Interrupted, stored, Present
  <2> QED
      BY <2>1, <2>2
<1> QED
    BY <1>1, <1>3, <1>4, <1>5, <1>6, <1>7, <1>8, <1>9, <1>10, <1>11, <1>12, <1>13
       DEF RunNext, AddRemote, RemoveRemote, stored, events, runVars

(* The added and removed events of all runs add up to the rows, whatever   *)
(* is interrupted between a page's transaction and its events: an entry    *)
(* none of whose events was lost is known exactly when it has a row.       *)
THEOREM EventsAddUp == RunSpec => []EventsFollowRows
<1>1. RunInit => EventInv /\ StampsFromThePast
    BY EventsInit, StampsInit
<1>2. RunTypeOK /\ StampsFromThePast /\ EventInv /\ [RunNext]_runVars => StampsFromThePast' /\ EventInv'
    BY StampsNext, EventsNext
<1>3. EventInv => EventsFollowRows
    BY DEF EventInv
<1> QED
    BY <1>1, <1>2, <1>3, SyncRunTypes, PTL DEF RunSpec

-----------------------------------------------------------------------------
(* The sweep leaves nothing older than the run.                            *)

LEMMA SweptInit == RunInit => SweptInv
    BY DEF RunInit, SweptInv, Swept, NotStarted, Run

LEMMA SweptNext == RunTypeOK /\ StampsFromThePast /\ SweptInv /\ [RunNext]_runVars => SweptInv'
<1> SUFFICES ASSUME RunTypeOK, StampsFromThePast, SweptInv, [RunNext]_runVars
             PROVE  SweptInv'
    OBVIOUS
<1> USE DEF SweptInv, Swept
<1>0. /\ run \in RunTypes /\ run.started \in Nat
      /\ rows \in [Entries -> 0..MaxRuns] /\ edges \in [Entries -> 0..MaxRuns]
      /\ \A e \in Entries : rows[e] \in Nat /\ edges[e] \in Nat
      /\ \A e \in Entries : rows[e] <= run.started /\ edges[e] <= run.started
    BY RunBounds DEF RunTypeOK, RunTypes, StampsFromThePast
<1>1. ASSUME run' = run, rows' = rows, edges' = edges, snapshot' = snapshot, list' = list
      PROVE  SweptInv'
    BY <1>1 DEF Present
<1>2. ASSUME run'.pc \notin Swept
      PROVE  SweptInv'
    BY <1>2
<1>3. CASE StartSync
    BY <1>2, <1>3 DEF StartSync, Run
<1>4. CASE RateLimited
  <2>1. CASE run.retries < MaxRetries
      BY <1>0, <1>2, <1>4, <2>1 DEF RateLimited, RunTypes
  <2>2. CASE ~(run.retries < MaxRetries)
      BY <1>2, <1>4, <2>2 DEF RateLimited, Ended, Run
  <2> QED
      BY <2>1, <2>2
<1>5. CASE FetchPage
    BY <1>2, <1>5 DEF FetchPage, Run
<1>6. CASE PersistPage
    BY <1>0, <1>2, <1>6 DEF PersistPage, RunTypes
<1>7. CASE EmitAdded
    BY <1>0, <1>2, <1>7 DEF EmitAdded, RunTypes
<1>8. CASE GraphPage
    BY <1>2, <1>8 DEF GraphPage, Run
<1>9. CASE SweepRows
  <2>1. run'.pc = "sweep_graph" /\ run'.started = run.started
      BY <1>0, <1>9 DEF SweepRows, RunTypes
  <2>2. \A e \in Entries : rows'[e] \in {Absent, run.started}
      BY <1>0, <1>9 DEF SweepRows, Without, Stale
  <2> QED
      BY <2>1, <2>2
<1>10. CASE SweepGraph
  <2>1. run'.pc = "emit_removed" /\ run'.started = run.started
      BY <1>0, <1>10 DEF SweepGraph, RunTypes
  <2>2. \A e \in Entries : edges'[e] \in {Absent, run.started}
      BY <1>0, <1>10 DEF SweepGraph, Without, Stale
  <2>3. rows' = rows /\ \A e \in Entries : rows[e] \in {Absent, run.started}
      BY <1>10 DEF SweepGraph
  <2> QED
      BY <2>1, <2>2, <2>3
<1>11. CASE EmitRemoved
  <2>1. CASE list = "collection"
    <3>1. run'.pc = "snapshot" /\ run'.started = run.started
        BY <1>0, <1>11, <2>1 DEF EmitRemoved, RunTypes
    <3> QED
        BY <1>11, <3>1 DEF EmitRemoved, stored
  <2>2. CASE list # "collection"
    <3>1. run'.pc = "done" /\ run'.started = run.started
        BY <1>11, <2>2 DEF EmitRemoved, Ended, Run
    <3> QED
        BY <1>11, <2>2, <3>1 DEF EmitRemoved, stored
  <2> QED
      BY <2>1, <2>2
<1>12. CASE WriteSnapshot
  <2>1. run'.pc = "done" /\ run'.started = run.started
      BY <1>12 DEF WriteSnapshot, Ended, Run
  <2>2. Present' = Present
      BY <1>12 DEF WriteSnapshot, Present
  <2> QED
      BY <1>12, <2>1, <2>2 DEF WriteSnapshot
<1>13. CASE Interrupted
    BY <1>2, <1>13 DEF Interrupted, Ended, Run
<1> QED
    BY <1>1, <1>3, <1>4, <1>5, <1>6, <1>7, <1>8, <1>9, <1>10, <1>11, <1>12, <1>13
       DEF RunNext, AddRemote, RemoveRemote, stored, runVars

-----------------------------------------------------------------------------
(* What the run has read.                                                  *)

LEMMA ReadInit == RunInit => ReadInv
    BY DEF RunInit, ReadInv, PagesRead, AllRead, ReadAll, Paging, Swept, NotStarted, Run

(* A step that keeps the list, and that keeps what was seen, keeps what    *)
(* was read as long as it does not claim to have read more.                *)
LEMMA ReadKept ==
    ASSUME ReadInv, remote' = remote, steady' = steady, shrunk' = shrunk,
           \A e \in Entries : Seen(e) => Seen(e)',
           remote \in Seq(Entries),
           (run'.pc \in Paging) => (run.pc \in Paging /\ Reached' = Reached),
           ReadAll' => ReadAll
    PROVE  ReadInv'
<1>1. Held' = Held /\ Held \subseteq Entries
    BY HeldFacts DEF Held
<1>2. ASSUME ~shrunk', run'.pc \in Paging, NEW k \in DOMAIN remote',
             k <= Reached' * PageSize, remote'[k] \in steady'
      PROVE  Seen(remote[k])'
  <2>1. Seen(remote[k]) /\ remote[k] \in Entries
      BY <1>1, <1>2, HeldFacts DEF ReadInv, PagesRead
  <2>2. PICK e \in Entries : e = remote[k]
      BY <2>1
  <2>3. Seen(e)'
      BY <2>1, <2>2
  <2> QED
      BY <2>2, <2>3 DEF Seen, RowSeen, EdgeSeen
<1>3. ASSUME ~shrunk', ReadAll', NEW e \in steady'
      PROVE  Seen(e)'
  <2>1. Seen(e)
      BY <1>3 DEF ReadInv, AllRead
  <2> QED
      BY <1>1, <1>3, <2>1 DEF ReadInv
<1> QED
    BY <1>1, <1>2, <1>3 DEF ReadInv, PagesRead, AllRead

(* An addition between two requests shifts the pages by one; what was read *)
(* is still all that lies before the page reached.                         *)
LEMMA ReadAdd ==
    ASSUME RunTypeOK, ReadInv, NEW e \in Entries, NEW k \in 1..(Len(remote) + 1), AddRemote(e, k)
    PROVE  ReadInv'
<1>0. /\ run' = run /\ rows' = rows /\ edges' = edges /\ steady' = steady /\ shrunk' = shrunk
      /\ e \notin Held
    BY DEF AddRemote, stored
<1>1. /\ remote \in Seq(Entries) /\ remote' \in Seq(Entries) /\ Held \subseteq Held'
      /\ \A j \in DOMAIN remote' :
            remote'[j] = e \/ \E i \in DOMAIN remote : i <= j /\ remote'[j] = remote[i]
    BY AddFacts DEF RunTypeOK
<1>2. Reached' = Reached /\ Reached \in Int /\ Reached * PageSize \in Int
    BY <1>0, PageAssumption DEF Reached, RunTypeOK
<1>3. ASSUME NEW x
      PROVE  Seen(x)' <=> Seen(x)
    BY <1>0 DEF Seen, RowSeen, EdgeSeen
<1>4. ASSUME ~shrunk', run'.pc \in Paging, NEW j \in DOMAIN remote',
             j <= Reached' * PageSize, remote'[j] \in steady'
      PROVE  Seen(remote[j])'
  <2>1. PICK i \in DOMAIN remote : i <= j /\ remote'[j] = remote[i]
      BY <1>0, <1>1, <1>4 DEF ReadInv
  <2>2. i \in Nat /\ j \in Nat
      BY <1>1, HeldFacts, HeldFactsPrime
  <2>3. i <= Reached * PageSize
      BY <1>2, <1>4, <2>1, <2>2
  <2>4. Seen(remote[i])
      BY <1>0, <1>4, <2>1, <2>3 DEF ReadInv, PagesRead
  <2> QED
      BY <1>0, <2>1, <2>4 DEF Seen, RowSeen, EdgeSeen
<1>5. ASSUME ~shrunk', ReadAll', NEW x \in steady'
      PROVE  Seen(x)'
  <2>1. ReadAll
      BY <1>0, <1>5 DEF ReadAll
  <2>2. Seen(x)
      BY <1>0, <1>5, <2>1 DEF ReadInv, AllRead
  <2> QED
      BY <1>3, <2>2
<1> QED
    BY <1>0, <1>1, <1>4, <1>5 DEF ReadInv, PagesRead, AllRead

(* The page the run fetches follows the ones it has read; an empty page,   *)
(* or one the page count says is the last, leaves nothing behind it.       *)
LEMMA ReadFetch ==
    ASSUME RunTypeOK, StampsFromThePast, ReadInv, FetchPage
    PROVE  ReadInv'
<1> PICK p : p = run.page
    OBVIOUS
<1> PICK batch : batch = PageEntries(p)
    OBVIOUS
<1>0. /\ run.pc = "fetch" /\ run \in RunTypes
      /\ remote' = remote /\ rows' = rows /\ edges' = edges /\ steady' = steady
      /\ shrunk' = shrunk
    BY DEF FetchPage, discogs, stored, RunTypeOK, RunTypes
<1>1. /\ p \in Nat /\ p > 0 /\ PageSize \in Nat \ {0}
      /\ remote \in Seq(Entries)
      /\ p * PageSize \in Nat /\ (p - 1) * PageSize \in Nat
      /\ p * PageSize = (p - 1) * PageSize + PageSize
  <2>1. p \in Nat /\ p > 0 /\ PageSize \in Nat \ {0} /\ remote \in Seq(Entries)
      BY <1>0, PageAssumption DEF RunTypeOK, RunTypes, StampsFromThePast
  <2>2. p - 1 \in Nat
      BY <2>1
  <2>3. (p - 1) * PageSize \in Nat
      BY <2>1, <2>2, NextPage
  <2> QED
      BY <2>1, <2>3, NextPage
<1>2. DOMAIN remote = 1..Len(remote) /\ Len(remote) \in Nat
    BY <1>1, HeldFacts
<1>3. Held' = Held
    BY <1>0 DEF Held
<1>4. Reached = p - 1
    BY <1>0 DEF Reached
<1>5. ASSUME NEW k \in DOMAIN remote, ~shrunk, remote[k] \in steady, k <= p * PageSize
      PROVE  remote[k] \in batch \/ (rows[remote[k]] = run.started
                                     /\ (remote[k] \in InGraph => edges[remote[k]] = run.started))
  <2>1. CASE k <= (p - 1) * PageSize
    <3>1. Seen(remote[k])
        BY <1>0, <1>4, <1>5, <2>1 DEF ReadInv, PagesRead, Paging
    <3> QED
        BY <1>0, <3>1 DEF Seen, RowSeen, EdgeSeen
  <2>2. CASE k > (p - 1) * PageSize
      BY <1>5, <2>2 DEF PageEntries
  <2> QED
      BY <1>1, <1>2, <2>1, <2>2
<1>6. ASSUME batch = {}
      PROVE  Len(remote) <= (p - 1) * PageSize
  <2> SUFFICES ASSUME (p - 1) * PageSize < Len(remote)
               PROVE  FALSE
      BY <1>1, <1>2
  <2>1. PICK k : k = (p - 1) * PageSize + 1
      OBVIOUS
  <2>2. k \in DOMAIN remote /\ (p - 1) * PageSize < k /\ k <= p * PageSize
    <3>1. PICK before \in Nat : before = (p - 1) * PageSize
        BY <1>1
    <3>2. PICK upto \in Nat : upto = p * PageSize
        BY <1>1
    <3>3. upto = before + PageSize /\ PageSize >= 1 /\ PageSize \in Nat
        BY <1>1, <3>1, <3>2
    <3>4. k = before + 1 /\ before < Len(remote)
        BY <2>1, <3>1
    <3>5. k \in 1..Len(remote) /\ before < k /\ k <= upto
        BY ONLY <1>2, <3>1, <3>2, <3>3, <3>4
    <3> QED
        BY <1>2, <3>1, <3>2, <3>5
  <2>3. remote[k] \in batch
      BY <2>2 DEF PageEntries
  <2> QED
      BY <1>6, <2>3
<1>7. ASSUME IsLast(p)
      PROVE  Len(remote) <= p * PageSize
    BY <1>1, <1>2, <1>7, LastPageCovers DEF IsLast, Pages
<1>8. ASSUME NEW x \in steady, ~shrunk
      PROVE  \E k \in DOMAIN remote : remote[k] = x
    BY <1>1, HeldFacts DEF ReadInv
<1>9. CASE batch = {}
  <2>1. /\ run'.pc = "sweep" /\ run'.started = run.started
      BY <1>9 DEF FetchPage, Run
  <2>2. ASSUME NEW x \in steady, ~shrunk
        PROVE  Seen(x)'
    <3>1. PICK k \in DOMAIN remote : remote[k] = x
        BY <1>8, <2>2
    <3>2. k <= p * PageSize
        BY <1>1, <1>2, <1>6, <1>9
    <3>3. rows[x] = run.started /\ (x \in InGraph => edges[x] = run.started)
        BY <1>5, <1>9, <2>2, <3>1, <3>2
    <3> QED
        BY <1>0, <2>1, <3>3 DEF Seen, RowSeen, EdgeSeen
  <2> QED
      BY <1>0, <1>3, <2>1, <2>2 DEF ReadInv, PagesRead, AllRead, Paging
<1>10. CASE batch # {}
  <2>1. /\ run'.pc = "persist" /\ run'.started = run.started /\ run'.page = p
        /\ run'.batch = batch /\ run'.last = IsLast(p)
      BY <1>10 DEF FetchPage, Run
  <2>2. ASSUME NEW k \in DOMAIN remote, ~shrunk, remote[k] \in steady, k <= p * PageSize
        PROVE  Seen(remote[k])'
    <3>1. remote[k] \in batch \/ (rows[remote[k]] = run.started
                                  /\ (remote[k] \in InGraph => edges[remote[k]] = run.started))
        BY <1>5, <2>2
    <3> QED
        BY <1>0, <2>1, <3>1 DEF Seen, RowSeen, EdgeSeen
  <2>3. PagesRead'
    <3>1. Reached' = p
        BY <2>1 DEF Reached
    <3> QED
        BY <1>0, <2>2, <3>1 DEF PagesRead
  <2>4. ASSUME NEW x \in steady, ~shrunk, ReadAll'
        PROVE  Seen(x)'
    <3>1. IsLast(p)
        BY <2>1, <2>4 DEF ReadAll, Swept, Paging
    <3>2. PICK k \in DOMAIN remote : remote[k] = x
        BY <1>8, <2>4
    <3>3. k <= p * PageSize
        BY <1>1, <1>2, <1>7, <3>1
    <3>4. Seen(remote[k])'
        BY <2>2, <2>4, <3>2, <3>3
    <3> QED
        BY <1>0, <3>2, <3>4 DEF Seen, RowSeen, EdgeSeen
  <2> QED
      BY <1>0, <1>3, <2>3, <2>4 DEF ReadInv, AllRead
<1> QED
    BY <1>9, <1>10

LEMMA ReadNext == RunTypeOK /\ StampsFromThePast /\ ReadInv /\ [RunNext]_runVars => ReadInv'
<1> SUFFICES ASSUME RunTypeOK, StampsFromThePast, ReadInv, [RunNext]_runVars
             PROVE  ReadInv'
    OBVIOUS
<1> USE DEF Seen, RowSeen, EdgeSeen
<1>0. /\ run \in RunTypes /\ run.started \in Nat /\ run.page \in Nat
      /\ remote \in Seq(Entries)
      /\ rows \in [Entries -> 0..MaxRuns] /\ edges \in [Entries -> 0..MaxRuns]
    BY RunBounds DEF RunTypeOK, RunTypes
<1>1. ASSUME NEW e \in Entries, NEW k \in 1..(Len(remote) + 1), AddRemote(e, k)
      PROVE  ReadInv'
    BY <1>1, ReadAdd
<1>2. ASSUME NEW k \in DOMAIN remote, RemoveRemote(k)
      PROVE  ReadInv'
  <2>1. steady' \subseteq Held'
      BY <1>0, <1>2, RemovalFacts DEF RemoveRemote, ReadInv
  <2> QED
      BY <1>2, <2>1 DEF RemoveRemote, ReadInv, PagesRead, AllRead
<1>3. CASE StartSync
  <2>1. run'.pc = "fetch" /\ run'.page = 1 /\ remote' = remote /\ steady' = Held
      BY <1>3 DEF StartSync, Run
  <2>2. Held' = Held
      BY <2>1 DEF Held
  <2>3. Reached' * PageSize = 0
      BY <2>1, PageAssumption DEF Reached
  <2>4. \A k \in DOMAIN remote : ~(k <= 0)
      BY <1>0, HeldFacts
  <2>5. ~ReadAll'
      BY <2>1 DEF ReadAll, Swept, Paging
  <2> QED
      BY <2>1, <2>2, <2>3, <2>4, <2>5 DEF ReadInv, PagesRead, AllRead
<1>4. CASE RateLimited
  <2>1. CASE run.retries < MaxRetries
    <3>1. /\ run'.pc = run.pc /\ run'.page = run.page /\ run'.started = run.started
          /\ run'.batch = run.batch /\ run'.last = run.last
        BY <1>0, <1>4, <2>1 DEF RateLimited, RunTypes
    <3>2. Reached' = Reached /\ (ReadAll' => ReadAll)
        BY <3>1 DEF Reached, ReadAll
    <3> QED
        BY <1>0, <1>4, <3>1, <3>2, ReadKept DEF RateLimited, discogs, stored
  <2>2. CASE ~(run.retries < MaxRetries)
    <3>1. run'.pc = "idle" /\ run'.started = run.started
        BY <1>4, <2>2 DEF RateLimited, Ended, Run
    <3>2. run'.pc \notin Paging /\ ~ReadAll'
        BY <3>1 DEF ReadAll, Swept, Paging
    <3>3. run.pc = "fetch"
        BY <1>4 DEF RateLimited
    <3> QED
        BY <1>0, <1>4, <3>1, <3>2, <3>3, ReadKept DEF RateLimited, discogs, stored
  <2> QED
      BY <2>1, <2>2
<1>5. CASE FetchPage
    BY <1>5, ReadFetch
<1>6. CASE PersistPage
  <2>1. /\ run.pc = "persist" /\ run'.pc = "emit" /\ run'.page = run.page
        /\ run'.started = run.started /\ run'.batch = run.batch /\ run'.last = run.last
      BY <1>0, <1>6 DEF PersistPage, RunTypes
  <2>2. Reached' = Reached /\ run.pc \in Paging /\ (ReadAll' => ReadAll)
      BY <2>1 DEF Reached, ReadAll, Swept, Paging
  <2>3. \A e \in Entries : Seen(e) => Seen(e)'
      BY <1>6, <2>1 DEF PersistPage, Stamped
  <2> QED
      BY <1>0, <1>6, <2>2, <2>3, ReadKept DEF PersistPage, discogs
<1>7. CASE EmitAdded
  <2>1. /\ run.pc = "emit" /\ run'.pc = "graph" /\ run'.page = run.page
        /\ run'.started = run.started /\ run'.batch = run.batch /\ run'.last = run.last
      BY <1>0, <1>7 DEF EmitAdded, RunTypes
  <2>2. Reached' = Reached /\ run.pc \in Paging /\ (ReadAll' => ReadAll)
      BY <2>1 DEF Reached, ReadAll, Swept, Paging
  <2>3. \A e \in Entries : Seen(e) => Seen(e)'
      BY <1>7, <2>1 DEF EmitAdded, stored
  <2> QED
      BY <1>0, <1>7, <2>2, <2>3, ReadKept DEF EmitAdded, discogs
<1>8. CASE GraphPage
  <2>1. run.pc = "graph" /\ rows' = rows /\ edges' = Stamped(edges, run.batch \cap InGraph)
      BY <1>8 DEF GraphPage
  <2>2. run'.started = run.started /\ run'.pc \in {"sweep", "fetch"}
      BY <1>8 DEF GraphPage, Run
  <2>3. \A e \in Entries : Seen(e) => Seen(e)'
      BY <2>1, <2>2 DEF Stamped
  <2>4. run'.pc \in Paging => (run.pc \in Paging /\ Reached' = Reached)
    <3>1. CASE run.last
        BY <1>8, <3>1 DEF GraphPage, Run, Paging
    <3>2. CASE ~run.last
      <4>1. run'.pc = "fetch" /\ run'.page = run.page + 1
          BY <1>8, <3>2 DEF GraphPage, Run
      <4> QED
          BY <1>0, <2>1, <4>1 DEF Reached, Paging
    <3> QED
        BY <3>1, <3>2
  <2>5. ReadAll' => ReadAll
    <3>1. CASE run.last
        BY <2>1, <3>1 DEF ReadAll, Paging
    <3>2. CASE ~run.last
        BY <1>8, <3>2 DEF GraphPage, Run, ReadAll, Swept, Paging
    <3> QED
        BY <3>1, <3>2
  <2> QED
      BY <1>0, <1>8, <2>3, <2>4, <2>5, ReadKept DEF GraphPage, discogs
<1>9. CASE SweepRows
  <2>1. run.pc = "sweep" /\ run'.pc = "sweep_graph" /\ run'.started = run.started
      BY <1>0, <1>9 DEF SweepRows, RunTypes
  <2>2. run'.pc \notin Paging /\ ReadAll
      BY <2>1 DEF ReadAll, Paging
  <2>3. \A e \in Entries : Seen(e) => Seen(e)'
      BY <1>0, <1>9, <2>1 DEF SweepRows, Without, Stale
  <2> QED
      BY <1>0, <1>9, <2>2, <2>3, ReadKept DEF SweepRows, discogs
<1>10. CASE SweepGraph
  <2>1. run.pc = "sweep_graph" /\ run'.pc = "emit_removed" /\ run'.started = run.started
      BY <1>0, <1>10 DEF SweepGraph, RunTypes
  <2>2. run'.pc \notin Paging /\ ReadAll
      BY <2>1 DEF ReadAll, Paging, Swept
  <2>3. \A e \in Entries : Seen(e) => Seen(e)'
      BY <1>0, <1>10, <2>1 DEF SweepGraph, Without, Stale
  <2> QED
      BY <1>0, <1>10, <2>2, <2>3, ReadKept DEF SweepGraph, discogs
<1>11. CASE EmitRemoved
  <2>1. run.pc = "emit_removed" /\ run'.pc \in {"snapshot", "done"} /\ run'.started = run.started
    <3>1. CASE list = "collection"
        BY <1>0, <1>11, <3>1 DEF EmitRemoved, RunTypes
    <3>2. CASE list # "collection"
        BY <1>11, <3>2 DEF EmitRemoved, Ended, Run
    <3> QED
        BY <3>1, <3>2
  <2>2. run'.pc \notin Paging /\ ReadAll
      BY <2>1 DEF ReadAll, Paging, Swept
  <2>3. \A e \in Entries : Seen(e) => Seen(e)'
      BY <1>11, <2>1 DEF EmitRemoved, stored
  <2> QED
      BY <1>0, <1>11, <2>2, <2>3, ReadKept DEF EmitRemoved, discogs
<1>12. CASE WriteSnapshot
  <2>1. run.pc = "snapshot" /\ run'.pc = "done" /\ run'.started = run.started
      BY <1>12 DEF WriteSnapshot, Ended, Run
  <2>2. run'.pc \notin Paging /\ ReadAll
      BY <2>1 DEF ReadAll, Paging, Swept
  <2>3. \A e \in Entries : Seen(e) => Seen(e)'
      BY <1>12, <2>1 DEF WriteSnapshot
  <2> QED
      BY <1>0, <1>12, <2>2, <2>3, ReadKept DEF WriteSnapshot, discogs
<1>13. CASE Interrupted
  <2>1. run'.pc = "idle"
      BY <1>13 DEF Interrupted, Ended, Run
  <2>2. run'.pc \notin Paging /\ ~ReadAll'
      BY <2>1 DEF ReadAll, Paging, Swept
  <2>3. remote' = remote /\ steady' = steady
      BY <1>13 DEF Interrupted, discogs
  <2>4. steady' \subseteq Held'
      BY <2>3 DEF ReadInv, Held
  <2> QED
      BY <2>2, <2>4 DEF ReadInv, PagesRead, AllRead
<1>14. CASE UNCHANGED runVars
  <2>1. /\ run' = run /\ rows' = rows /\ edges' = edges /\ remote' = remote
        /\ steady' = steady /\ shrunk' = shrunk
      BY <1>14 DEF runVars
  <2>2. Reached' = Reached /\ ReadAll' = ReadAll
      BY <2>1 DEF Reached, ReadAll
  <2> QED
      BY <1>0, <2>1, <2>2, ReadKept
<1> QED
    BY <1>1, <1>2, <1>3, <1>4, <1>5, <1>6, <1>7, <1>8, <1>9, <1>10, <1>11, <1>12, <1>13, <1>14
       DEF RunNext

-----------------------------------------------------------------------------
(* While the list does not change.                                         *)

LEMMA QuietInit == RunInit => QuietInv
    BY DEF RunInit, QuietInv, NotStarted, Run, Absent

(* A step that stamps only entries of its page keeps the run's stamp on    *)
(* entries of the list.                                                    *)
LEMMA QuietKept ==
    ASSUME QuietInv, remote' = remote, steady' = steady, shrunk' = shrunk, changed' = changed,
           run'.started = run.started,
           run.pc = "idle" => run'.pc = "idle",
           run'.batch \subseteq run.batch \cup Held,
           \A e \in Entries :
              /\ rows'[e] \in {Absent, rows[e]} \/ (rows'[e] = run.started /\ e \in run.batch)
              /\ edges'[e] \in {Absent, edges[e]} \/ (edges'[e] = run.started /\ e \in run.batch)
    PROVE  QuietInv'
<1>1. Held' = Held
    BY DEF Held
<1>2. ASSUME ~changed, NEW e \in Entries
      PROVE  /\ rows'[e] = run'.started /\ rows'[e] # Absent => e \in Held'
             /\ edges'[e] = run'.started /\ edges'[e] # Absent => e \in Held'
    BY <1>1, <1>2 DEF QuietInv
<1> QED
    BY <1>1, <1>2 DEF QuietInv

LEMMA QuietNext == RunTypeOK /\ StampsFromThePast /\ QuietInv /\ [RunNext]_runVars => QuietInv'
<1> SUFFICES ASSUME RunTypeOK, StampsFromThePast, QuietInv, [RunNext]_runVars
             PROVE  QuietInv'
    OBVIOUS
<1>0. /\ run \in RunTypes /\ run.started \in Nat /\ runs \in Nat /\ run.started = runs
      /\ remote \in Seq(Entries)
      /\ rows \in [Entries -> 0..MaxRuns] /\ edges \in [Entries -> 0..MaxRuns]
      /\ \A e \in Entries : rows[e] \in Nat /\ edges[e] \in Nat
      /\ \A e \in Entries : rows[e] <= runs /\ edges[e] <= runs
    BY RunBounds DEF RunTypeOK, RunTypes, StampsFromThePast
<1>1. ASSUME changed'
      PROVE  QuietInv'
    BY <1>1 DEF QuietInv
<1>2. CASE StartSync
  <2>1. /\ run'.started = runs + 1 /\ run'.batch = {} /\ steady' = Held /\ ~shrunk'
        /\ rows' = rows /\ edges' = edges /\ remote' = remote
      BY <1>2 DEF StartSync, Run, stored
  <2>2. Held' = Held
      BY <2>1 DEF Held
  <2>3. \A e \in Entries : rows'[e] # run'.started /\ edges'[e] # run'.started
      BY <1>0, <2>1
  <2> QED
      BY <2>1, <2>2, <2>3 DEF QuietInv
<1>3. ASSUME UNCHANGED discogs, rows' = rows, edges' = edges, run'.started = run.started,
             run.pc = "idle" => run'.pc = "idle", run'.batch \subseteq run.batch
      PROVE  QuietInv'
    BY <1>3, QuietKept DEF discogs
<1>4. CASE RateLimited
  <2>1. CASE run.retries < MaxRetries
      BY <1>0, <1>3, <1>4, <2>1 DEF RateLimited, stored, RunTypes
  <2>2. CASE ~(run.retries < MaxRetries)
      BY <1>0, <1>3, <1>4, <2>2 DEF RateLimited, stored, Ended, Run
  <2> QED
      BY <2>1, <2>2
<1>5. CASE FetchPage
  <2>1. PageEntries(run.page) \subseteq Held
      BY <1>0, HeldFacts DEF PageEntries
  <2>2. run.pc = "fetch" /\ run'.started = run.started /\ run'.batch \subseteq Held
    <3>1. CASE PageEntries(run.page) = {}
        BY <1>5, <3>1 DEF FetchPage, Run
    <3>2. CASE PageEntries(run.page) # {}
        BY <1>5, <2>1, <3>2 DEF FetchPage, Run
    <3> QED
        BY <3>1, <3>2
  <2> QED
      BY <1>5, <2>2, QuietKept DEF FetchPage, discogs, stored
<1>6. CASE PersistPage
  <2>1. run.pc = "persist" /\ run'.started = run.started /\ run'.batch = run.batch
      BY <1>0, <1>6 DEF PersistPage, RunTypes
  <2>2. \A e \in Entries : rows'[e] \in {Absent, rows[e]}
                           \/ (rows'[e] = run.started /\ e \in run.batch)
      BY <1>6 DEF PersistPage, Stamped
  <2> QED
      BY <1>6, <2>1, <2>2, QuietKept DEF PersistPage, discogs
<1>7. CASE EmitAdded
    BY <1>0, <1>3, <1>7 DEF EmitAdded, stored, RunTypes
<1>8. CASE GraphPage
  <2>1. run.pc = "graph" /\ run'.started = run.started /\ run'.batch = {}
    <3>1. CASE run.last
        BY <1>8, <3>1 DEF GraphPage, Run
    <3>2. CASE ~run.last
        BY <1>8, <3>2 DEF GraphPage, Run
    <3> QED
        BY <3>1, <3>2
  <2>2. \A e \in Entries : edges'[e] \in {Absent, edges[e]}
                           \/ (edges'[e] = run.started /\ e \in run.batch)
      BY <1>8 DEF GraphPage, Stamped
  <2> QED
      BY <1>8, <2>1, <2>2, QuietKept DEF GraphPage, discogs
<1>9. CASE SweepRows
  <2>1. run.pc = "sweep" /\ run'.started = run.started /\ run'.batch = run.batch
      BY <1>0, <1>9 DEF SweepRows, RunTypes
  <2>2. \A e \in Entries : rows'[e] \in {Absent, rows[e]}
      BY <1>9 DEF SweepRows, Without
  <2> QED
      BY <1>9, <2>1, <2>2, QuietKept DEF SweepRows, discogs
<1>10. CASE SweepGraph
  <2>1. run.pc = "sweep_graph" /\ run'.started = run.started /\ run'.batch = run.batch
      BY <1>0, <1>10 DEF SweepGraph, RunTypes
  <2>2. \A e \in Entries : edges'[e] \in {Absent, edges[e]}
      BY <1>10 DEF SweepGraph, Without
  <2> QED
      BY <1>10, <2>1, <2>2, QuietKept DEF SweepGraph, discogs
<1>11. CASE EmitRemoved
  <2>1. CASE list = "collection"
      BY <1>0, <1>3, <1>11, <2>1 DEF EmitRemoved, stored, RunTypes
  <2>2. CASE list # "collection"
      BY <1>0, <1>3, <1>11, <2>2 DEF EmitRemoved, stored, Ended, Run
  <2> QED
      BY <2>1, <2>2
<1>12. CASE WriteSnapshot
    BY <1>3, <1>12 DEF WriteSnapshot, Ended, Run
<1>13. CASE Interrupted
    BY <1>3, <1>13 DEF Interrupted, stored, Ended, Run
<1>14. CASE UNCHANGED runVars
    BY <1>3, <1>14 DEF runVars, discogs
<1> QED
    BY <1>1, <1>2, <1>4, <1>5, <1>6, <1>7, <1>8, <1>9, <1>10, <1>11, <1>12, <1>13, <1>14
       DEF RunNext, AddRemote, RemoveRemote

-----------------------------------------------------------------------------
(* What a run achieves.                                                    *)

RunInv ==
    /\ RunTypeOK
    /\ StampsFromThePast
    /\ ReadInv
    /\ QuietInv
    /\ SweptInv

(* The inductive invariant of the mirror: every entry that was in the list *)
(* all along and lies on a page already read carries the run's stamp, even *)
(* though additions shift the pages under the run.                         *)
THEOREM RunInvariant == RunSpec => []RunInv
<1>1. RunInit => RunInv
    BY TypesInit, StampsInit, ReadInit, QuietInit, SweptInit DEF RunInv
<1>2. RunInv /\ [RunNext]_runVars => RunInv'
    BY TypesNext, StampsNext, ReadNext, QuietNext, SweptNext DEF RunInv
<1> QED
    BY <1>1, <1>2, PTL DEF RunSpec

(* A run that completes over a list that did not change meanwhile leaves   *)
(* exactly that list in PostgreSQL, in Neo4j and in the snapshot, whatever *)
(* earlier runs left half done and however the list divides into pages.    *)
THEOREM RunMirrors == RunSpec => []CompletedRunMirrors
<1>1. RunInv => CompletedRunMirrors
  <2> SUFFICES ASSUME RunInv, run.pc = "done", ~changed
               PROVE  /\ Present = Held
                      /\ Linked = Held \cap InGraph
                      /\ list = "collection" => snapshot = Held
      BY DEF CompletedRunMirrors
  <2>1. run.started # Absent /\ Held \subseteq Entries /\ Linked \subseteq InGraph
      BY HeldFacts DEF RunInv, RunTypeOK, StampsFromThePast, Absent
  <2>2. ~shrunk /\ steady = Held /\ ReadAll
      BY DEF RunInv, QuietInv, ReadAll, Swept
  <2>3. \A e \in Held : rows[e] = run.started /\ (e \in InGraph => edges[e] = run.started)
    <3>1. \A e \in steady : Seen(e)
        BY <2>2 DEF RunInv, ReadInv, AllRead
    <3> QED
        BY <2>2, <3>1 DEF Seen, RowSeen, EdgeSeen
  <2>4. \A e \in Entries : rows[e] \in {Absent, run.started} /\ edges[e] \in {Absent, run.started}
      BY DEF RunInv, SweptInv, Swept
  <2>5. \A e \in Entries : /\ rows[e] = run.started /\ rows[e] # Absent => e \in Held
                           /\ edges[e] = run.started /\ edges[e] # Absent => e \in Held
      BY DEF RunInv, QuietInv
  <2>6. Present = Held
      BY <2>1, <2>3, <2>4, <2>5 DEF Present
  <2>7. Linked = Held \cap InGraph
      BY <2>1, <2>3, <2>4, <2>5 DEF Linked
  <2> QED
      BY <2>6, <2>7 DEF RunInv, SweptInv
<1> QED
    BY <1>1, RunInvariant, PTL

(* No entry that was on Discogs all along loses its row because entries    *)
(* added between two page requests shifted the pages: it takes a removal.  *)
THEOREM AdditionsDoNotSweep == RunSpec => AdditionsAreSafe
<1>1. RunInv /\ [RunNext]_runVars => [\A e \in Present \ Present' : e \in steady => shrunk]_runVars
  <2> SUFFICES ASSUME RunInv, RunNext, NEW e \in Present \ Present', e \in steady, ~shrunk
               PROVE  FALSE
      BY DEF runVars
  <2>0. /\ run.pc # "idle" => run.started # Absent
        /\ e \in Entries /\ rows[e] # Absent /\ rows'[e] = Absent
      BY DEF RunInv, RunTypeOK, StampsFromThePast, Present, Absent
  <2>1. CASE rows' = rows
      BY <2>0, <2>1
  <2>2. CASE PersistPage
      BY <2>0, <2>2 DEF PersistPage, Stamped
  <2>3. CASE SweepRows
    <3>1. e \in Stale(rows)
        BY <2>0, <2>3 DEF SweepRows, Without
    <3>2. run.pc = "sweep" /\ ReadAll
        BY <2>3 DEF SweepRows, ReadAll
    <3>3. Seen(e)
        BY <3>2 DEF RunInv, ReadInv, AllRead
    <3>4. rows[e] = run.started
        BY <3>2, <3>3 DEF Seen, RowSeen
    <3>5. run.started \in Nat
        BY RunBounds DEF RunInv, RunTypeOK
    <3> QED
        BY <3>1, <3>4, <3>5 DEF Stale
  <2> QED
      BY <2>1, <2>2, <2>3
         DEF RunNext, AddRemote, RemoveRemote, StartSync, RateLimited, FetchPage, EmitAdded,
             GraphPage, SweepGraph, EmitRemoved, WriteSnapshot, Interrupted, stored
<1> QED
    BY <1>1, RunInvariant, PTL DEF RunSpec, AdditionsAreSafe
=============================================================================
