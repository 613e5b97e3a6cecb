----------------------------- MODULE MCProgress -----------------------------
(* Instances of the components that work in the background: the genre tree *)
(* builds, the tracked extractions, the re-attachment runs and the scans   *)
(* of an extraction's flagged records. They share no state with each       *)
(* other, so a behaviour runs one of them, chosen initially, and their     *)
(* products are left out.                                                  *)
EXTENDS GenreTree, ExtractionTracking, Reattach, ExtractionAnalysis

CONSTANT Parts      \* the components this instance runs

(* Which replica runs a re-attachment is all a run is known by.            *)
ASSUME RunsAssumption == Runs = TreeReplicas

VARIABLE part       \* the one this behaviour runs

progressVars == <<part, treeVars, trackingVars, reattachVars, analysisVars>>

Line(f, e, r, s, x, j) == [file |-> f, entity |-> e, rule |-> r, severity |-> s, xml |-> x, json |-> j]
Violation == Line("violations", "a", "r", "error", "value", "empty")
Unreadable == Line("violations", "b", "r", "warning", "none", "empty")
MCLines == {Violation, Unreadable}
MCEntities == <<"a", "b">>
MCPlans == {PlanOf("parsing", 1, 1), PlanOf("compare", 1, 2)}

(* An extraction that flagged two records of one kind and one of another,  *)
(* and a second that has flagged one of the first kind so far.             *)
MCRecorded == {<<<<Violation, Unreadable, Violation>>, <<Violation>>>>}

-----------------------------------------------------------------------------
Init == part \in Parts /\ TreeInit /\ TrackingInit /\ ReattachInit /\ AnalysisInit

RestOf(p) ==
    /\ UNCHANGED part
    /\ IF p = "tree" THEN TRUE ELSE UNCHANGED treeVars
    /\ IF p = "tracking" THEN TRUE ELSE UNCHANGED trackingVars
    /\ IF p = "reattach" THEN TRUE ELSE UNCHANGED reattachVars
    /\ IF p = "analysis" THEN TRUE ELSE UNCHANGED analysisVars

Tree(A) == part = "tree" /\ A /\ RestOf("tree")
Tracking(A) == part = "tracking" /\ A /\ RestOf("tracking")
Reattachment(A) == part = "reattach" /\ A /\ RestOf("reattach")
Analysis(A) == part = "analysis" /\ A /\ RestOf("analysis")

Next ==
    \/ Tree(TreeNext)
    \/ Tracking(TrackingNext)
    \/ Reattachment(ReattachNext)
    \/ Analysis(AnalysisNext)

(* The loops of the live replicas go on and a run that is started          *)
(* continues; a lock with a TTL lapses, a message that was resolved is     *)
(* upserted, and a tracker's task and the event loop of a scan are         *)
(* scheduled. One part runs, so a disjunction over the parts is as fair    *)
(* to each as a conjunct of its own.                                       *)
Progress ==
    /\ \A w \in TreeReplicas : WF_progressVars(Tree(TreeStep(w)) \/ Reattachment(RunStep(w)))
    /\ WF_progressVars(\/ Tree(TreeLockLapses)
                       \/ Reattachment(MusicBrainzUpserts)
                       \/ Tracking(\E x \in Extractions : Track(x))
                       \/ Analysis((\E p \in Admins \cup Tasks : ReaderStep(p)) \/ ScanStep))

Spec == Init /\ [][Next]_progressVars /\ Progress

-----------------------------------------------------------------------------
(* What is written is never wrong on the way: no tree is signed with newer *)
(* counts than it was scanned from, no extraction is recorded as completed *)
(* that did not run, and the flagged files are scanned once per window.    *)
BuildsAndScansAreSafe ==
    CASE part = "tree" -> SignatureIsNotNewer
      [] part = "tracking" -> TrackingTypeOK /\ NoPhantomSuccess
      [] part = "analysis" -> OneScanPerWindow
      [] OTHER -> TRUE

(* What is begun in the background comes to its end: the replicas serve    *)
(* the tree of the last counts, a tracked row settles, split items are     *)
(* healed or stay for a reason, every reader of a scan is answered and     *)
(* every scan leaves the registry, whatever crashed, failed or was left    *)
(* locked before.                                                          *)
BackgroundWorkSettles ==
    /\ <>[](CASE part = "tree" -> TreeIsCurrent
              [] part = "reattach" -> NoSplitLeft
              [] OTHER -> TRUE)
    /\ \A c \in Admins : []<>(part = "analysis" => Answered(c))
    /\ \A x \in Extractions, k \in UNION {ToSet(plan) : plan \in Plans} :
          []<>(CASE part = "tracking" -> RowSettled(x)
                 [] part = "analysis" -> flight[k].pc = "none"
                 [] OTHER -> TRUE)
=============================================================================
