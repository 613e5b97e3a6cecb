------------------------- MODULE ExtractionAnalysis -------------------------
(***************************************************************************)
(* The admin's extraction analysis (api/routers/extraction_analysis.py):   *)
(* requests that read the flagged records of an extraction through three   *)
(* read-through memos, _violations_cache, _skipped_cache and               *)
(* _parsing_error_cache, each a _SingleFlightTTLCache.                     *)
(*                                                                         *)
(* A memo entry is <<memo, version>>.  A scan is an asyncio task: it reads *)
(* in a worker thread, so the event loop serves other requests meanwhile,  *)
(* and its owner, the request that created it, pops it from _inflight and  *)
(* stores its result only when the loop gets round to the owner.  The task *)
(* of _parsing_error_cache is itself a reader of _violations_cache.        *)
(***************************************************************************)
EXTENDS Integers, Sequences, FiniteSets, SequencesExt, FiniteSetsExt

CONSTANTS
    Versions,           \* extraction versions with a flagged/ directory
    Admins,             \* concurrent requests
    Plans,              \* the requests made: sequences of memo entries, see PlanOf
    Lines,              \* lines an extractor may write: [file, entity, rule, severity, xml, json]
    Recorded,           \* what earlier extractions may have flagged, by version
    Entities,           \* entity directories, in the order sorted() gives them
    MemoTtl,            \* _JSONL_CACHE_TTL and _PARSING_ERROR_CACHE_TTL
    MaxJsonlRecords,    \* _MAX_JSONL_RECORDS
    PageLength,         \* page_size of the listing
    MaxLines,           \* bound: lines in all
    MaxAsks,            \* bound: requests
    MaxAnalysisTime,    \* bound: the clock
    MaxScanFaults       \* bound: scans that raise

VARIABLES
    flagged,    \* flagged[v]: the JSONL lines of version v, oldest first
    memo,       \* memo[k]: [until, data], _cache
    flight,     \* flight[k]: the task in _inflight, or NoTask
    reader,     \* what each request, and each parsing-error task, is awaiting
    scans,      \* scans[k]: scans of k that are running in a worker thread
    asked, analysisTime, scanFaults

analysisVars == <<flagged, memo, flight, reader, scans, asked, analysisTime, scanFaults>>

-----------------------------------------------------------------------------
Memos == {"violations", "skipped", "parsing"}
Entry == Memos \X Versions
Task(v) == <<"task", v>>
Tasks == {Task(v) : v \in Versions}

(* A request is no task, and awaits at least one entry; what was flagged   *)
(* before are lines an extractor may write.                                *)
ASSUME RequestsAssumption ==
    /\ Plans \subseteq Seq(Entry) \ {<<>>}
    /\ Recorded \subseteq [Versions -> Seq(Lines)]
    /\ Admins \cap Tasks = {}
    /\ MemoTtl \in Nat

(* Entity directories are read in order, each once; a page has a record.   *)
ASSUME ListingAssumption ==
    /\ Entities \in Seq({Entities[n] : n \in DOMAIN Entities})
    /\ \A m, n \in DOMAIN Entities : Entities[m] = Entities[n] => m = n
    /\ PageLength \in Nat \ {0}

NoMemo == [until |-> 0, data |-> <<>>]
NoTask == [pc |-> "none", data |-> <<>>]    \* an empty list before there is a result
NotReading == [todo |-> <<>>, pc |-> "idle", owns |-> FALSE, data |-> <<>>]

AnalysisInit ==
    /\ flagged \in Recorded
    /\ memo = [k \in Entry |-> NoMemo]
    /\ flight = [k \in Entry |-> NoTask]
    /\ reader = [p \in Admins \cup Tasks |-> NotReading]
    /\ scans = [k \in Entry |-> 0]
    /\ asked = 0 /\ analysisTime = 0 /\ scanFaults = 0

(* External: an extraction flags one more record.                          *)
FlagRecord(v, l) ==
    /\ FoldFunction(LAMBDA s, n : Len(s) + n, 0, flagged) < MaxLines
    /\ flagged' = [flagged EXCEPT ![v] = Append(@, l)]
    /\ UNCHANGED <<memo, flight, reader, scans, asked, analysisTime, scanFaults>>

AnalysisClock ==
    /\ analysisTime < MaxAnalysisTime
    /\ analysisTime' = analysisTime + 1
    /\ UNCHANGED <<flagged, memo, flight, reader, scans, asked, scanFaults>>

(* _read_violations and _read_skipped: directory by directory and line by  *)
(* line, a corrupt line skipped, no further than the record cap.           *)
Appended(read, file, e, l) ==
    IF l.file = file /\ l.entity = e /\ l.rule # "corrupt" /\ Len(read) < MaxJsonlRecords
    THEN Append(read, l) ELSE read
ReadFile(read, file, e, lines) == FoldLeft(LAMBDA r, l : Appended(r, file, e, l), read, lines)
ReadJsonl(file, v) == FoldLeft(LAMBDA read, e : ReadFile(read, file, e, flagged[v]), <<>>, Entities)

(* _load_record_files finds the record's XML and JSON, unless they are     *)
(* missing or too long ("none").                                           *)
Readable(l) == l.xml # "none" /\ l.json # "none"

(* _classify_violation: whether each of them has the field, "value", or    *)
(* lacks it, "empty".                                                      *)
ClassOf(l) ==
    CASE ~Readable(l) -> "indeterminate"
      [] l.xml = "value" /\ l.json = "empty" -> "parsing_error"
      [] OTHER -> "source_issue"

(* _classify_all_violations.                                               *)
Classes == {"parsing_error", "source_issue", "indeterminate"}
Classify(violations) == [c \in Classes |-> SelectSeq(violations, LAMBDA l : ClassOf(l) = c)]

(* The handlers: the memo entries each endpoint awaits, in order.          *)
PlanOf(kind, v, w) ==
    CASE kind = "summary" -> <<<<"violations", v>>, <<"skipped", v>>>>
      [] kind = "compare" -> <<<<"violations", v>>, <<"violations", w>>, <<"skipped", v>>, <<"skipped", w>>>>
      [] kind = "parsing" -> <<<<"parsing", v>>>>
      [] kind = "skipped" -> <<<<"skipped", v>>>>
      [] OTHER -> <<<<"violations", v>>>>    \* violations, a record's detail, prompt contexts

Request(c, plan) ==
    /\ asked < MaxAsks /\ reader[c].todo = <<>>
    /\ asked' = asked + 1
    /\ reader' = [reader EXCEPT ![c] = [NotReading EXCEPT !.todo = plan, !.pc = "ask"]]
    /\ UNCHANGED <<flagged, memo, flight, scans, analysisTime, scanFaults>>

(* get_or_compute returns to p: its next await, or its end.                *)
Receive(p, data) ==
    LET rest == Tail(reader[p].todo) IN
    [NotReading EXCEPT !.todo = rest,
                       !.pc = IF rest # <<>> THEN "ask" ELSE IF p \in Tasks THEN "classify" ELSE "idle",
                       !.data = IF p \in Tasks THEN data ELSE <<>>]

(* get_or_compute: the memo while it is fresh, else the task in flight,    *)
(* else a new task.                                                        *)
Fresh(k) == analysisTime < memo[k].until

Hit(p) ==
    /\ reader[p].pc = "ask" /\ Fresh(Head(reader[p].todo))
    /\ reader' = [reader EXCEPT ![p] = Receive(p, memo[Head(reader[p].todo)].data)]
    /\ UNCHANGED <<flagged, memo, flight, scans, asked, analysisTime, scanFaults>>

InFlight(k) == flight[k].pc # "none"

Join(p) ==
    /\ reader[p].pc = "ask"
    /\ ~Fresh(Head(reader[p].todo)) /\ InFlight(Head(reader[p].todo))
    /\ LET k == Head(reader[p].todo)
           pc == IF flight[k].pc = "running" THEN "wait" ELSE flight[k].pc
       IN  reader' = [reader EXCEPT ![p].pc = pc, ![p].data = flight[k].data]
    /\ UNCHANGED <<flagged, memo, flight, scans, asked, analysisTime, scanFaults>>

Launch(p) ==
    /\ reader[p].pc = "ask"
    /\ ~Fresh(Head(reader[p].todo)) /\ ~InFlight(Head(reader[p].todo))
    /\ LET k == Head(reader[p].todo)
           mine == [reader EXCEPT ![p].pc = "wait", ![p].owns = TRUE]
       IN  /\ flight' = [flight EXCEPT ![k].pc = "running"]
           /\ scans' = [scans EXCEPT ![k] = @ + 1]
           /\ reader' = IF k[1] = "parsing"
                        THEN [mine EXCEPT ![Task(k[2])] =
                                [NotReading EXCEPT !.todo = <<<<"violations", k[2]>>>>, !.pc = "ask"]]
                        ELSE mine
    /\ UNCHANGED <<flagged, memo, asked, analysisTime, scanFaults>>

(* The task of k ends, and everything awaiting it is scheduled.            *)
TaskEnds(k, pc, data, readers) ==
    /\ flight' = [flight EXCEPT ![k] = [pc |-> pc, data |-> data]]
    /\ scans' = [scans EXCEPT ![k] = @ - 1]
    /\ reader' = [p \in DOMAIN readers |->
                    IF readers[p].pc = "wait" /\ Head(readers[p].todo) = k
                    THEN [readers[p] EXCEPT !.pc = pc, !.data = data] ELSE readers[p]]

(* The worker thread has read the files, or raised.                        *)
ScanEnds(k) ==
    /\ k[1] # "parsing" /\ flight[k].pc = "running"
    /\ \/ TaskEnds(k, "done", ReadJsonl(k[1], k[2]), reader) /\ UNCHANGED scanFaults
       \/ /\ scanFaults < MaxScanFaults
          /\ scanFaults' = scanFaults + 1
          /\ TaskEnds(k, "failed", <<>>, reader)
    /\ UNCHANGED <<flagged, memo, asked, analysisTime>>

(* _analyze_parsing_errors, once it has the violations.                    *)
ClassifyEnds(v) ==
    /\ reader[Task(v)].pc = "classify"
    /\ TaskEnds(<<"parsing", v>>, "done", Classify(reader[Task(v)].data),
                [reader EXCEPT ![Task(v)] = NotReading])
    /\ UNCHANGED <<flagged, memo, asked, analysisTime, scanFaults>>

(* get_or_compute's finally clause.                                        *)
Dropped(k, failed) == [flight EXCEPT ![k] = NoTask]

(* The loop resumes a reader whose task has ended: the owner drops the     *)
(* task and stores its result, and a failure is every reader's.            *)
Resume(p) ==
    LET k == Head(reader[p].todo)
        failed == reader[p].pc = "failed"
        left == IF reader[p].owns THEN Dropped(k, failed) ELSE flight
    IN  /\ reader[p].pc \in {"done", "failed"}
        /\ memo' = IF reader[p].owns /\ ~failed
                   THEN [memo EXCEPT ![k] = [until |-> analysisTime + MemoTtl, data |-> reader[p].data]]
                   ELSE memo
        /\ \/ /\ ~failed
              /\ flight' = left
              /\ reader' = [reader EXCEPT ![p] = Receive(p, @.data)]
              /\ UNCHANGED scans
           \/ /\ failed /\ p \notin Tasks
              /\ flight' = left
              /\ reader' = [reader EXCEPT ![p] = NotReading]
              /\ UNCHANGED scans
           \/ /\ failed /\ p \in Tasks        \* the exception ends the task as well
              /\ flight' = [left EXCEPT ![<<"parsing", p[2]>>] = [pc |-> "failed", data |-> <<>>]]
              /\ scans' = [scans EXCEPT ![<<"parsing", p[2]>>] = @ - 1]
              /\ reader' = [q \in DOMAIN reader |->
                    IF q = p THEN NotReading
                    ELSE IF reader[q].pc = "wait" /\ Head(reader[q].todo) = <<"parsing", p[2]>>
                    THEN [reader[q] EXCEPT !.pc = "failed"] ELSE reader[q]]
        /\ UNCHANGED <<flagged, asked, analysisTime, scanFaults>>

ReaderStep(p) == Hit(p) \/ Join(p) \/ Launch(p) \/ Resume(p)
ScanStep == (\E k \in Entry : ScanEnds(k)) \/ (\E v \in Versions : ClassifyEnds(v))

AnalysisNext ==
    \/ \E v \in Versions, l \in Lines : FlagRecord(v, l)
    \/ AnalysisClock
    \/ \E c \in Admins, plan \in Plans : Request(c, plan)
    \/ \E p \in Admins \cup Tasks : ReaderStep(p)
    \/ ScanStep

-----------------------------------------------------------------------------
(* The pure functions over a list of violations.                           *)
CountIf(list, Test(_)) == Cardinality({i \in DOMAIN list : Test(list[i])})

(* _build_violation_summary, _count_violations and _count_by_entity.       *)
RuleKey(l) == <<l.rule, l.severity, l.entity>>
RuleKeys(list) == {RuleKey(list[i]) : i \in DOMAIN list}
ByRule(list, key) == CountIf(list, LAMBDA l : RuleKey(l) = key)
ByEntity(list, e, severity) ==
    CountIf(list, LAMBDA l : l.entity = e /\ (severity = "any" \/ l.severity = severity))

(* _Page.slice and _violations_response.                                   *)
Page(list, n) ==
    SubSeq(list, (n - 1) * PageLength + 1, IF n * PageLength < Len(list) THEN n * PageLength ELSE Len(list))
TotalPages(list) == IF list = <<>> THEN 1 ELSE (Len(list) + PageLength - 1) \div PageLength

(* _compare_violation_counts.                                              *)
Direction(a, b, key) ==
    LET m == ByRule(a, key)  n == ByRule(b, key) IN
    CASE m = 0 -> "worsened" [] n = 0 -> "improved" [] n < m -> "improved"
      [] n > m -> "worsened" [] OTHER -> "unchanged"

(* Mutant: a rule that only the second version violates is left out.       *)
ComparedFirst(a, b, direction) == Cardinality({key \in RuleKeys(a) : Direction(a, b, key) = direction})

Compared(a, b, direction) ==
    Cardinality({key \in RuleKeys(a) \cup RuleKeys(b) : Direction(a, b, key) = direction})

-----------------------------------------------------------------------------
(* One scan of a version's files at a time, and none while its memo is     *)
(* fresh, whatever requests arrive together and whichever of them fail     *)
(* ("at most once per version per TTL window", and "at most once per cold  *)
(* miss even under concurrent requests").                                  *)
OneScanPerWindow == \A k \in Entry : scans[k] <= 1 /\ (Fresh(k) => scans[k] = 0)

(* Every request is answered, by data or by an error, and every task       *)
(* leaves the registry, so that a failed scan wedges no later caller       *)
(* behind a dead task.                                                     *)
Answered(c) == reader[c].todo = <<>>
EveryReaderIsAnswered ==
    /\ \A c \in Admins : []<>Answered(c)
    /\ \A k \in Entry : []<>(flight[k].pc = "none")

(* Whatever a scan read adds up: the totals by rule and by entity are the  *)
(* total, and the pages are the list.  Comparing two versions one way      *)
(* round or the other tells the same story, and where no rule has worsened *)
(* the second version has no more violations than the first.               *)
AnalysisAddsUp ==
    \A v \in Versions : LET list == memo[<<"violations", v>>].data IN
        /\ MapThenSumSet(LAMBDA key : ByRule(list, key), RuleKeys(list)) = Len(list)
        /\ FoldLeft(LAMBDA n, e : n + ByEntity(list, e, "any"), 0, Entities) = Len(list)
        /\ FlattenSeq([n \in 1..TotalPages(list) |-> Page(list, n)]) = list
        /\ \A w \in Versions : LET other == memo[<<"violations", w>>].data IN
              /\ Compared(list, other, "worsened") = Compared(other, list, "improved")
              /\ Compared(list, other, "unchanged") = Compared(other, list, "unchanged")
              /\ Compared(list, other, "worsened") = 0 => Len(other) <= Len(list)
=============================================================================
