-------------------------------- MODULE Nlq ---------------------------------
(***************************************************************************)
(* Natural-language queries: the endpoint (api/routers/nlq.py), the tool   *)
(* loop (api/nlq/engine.py) and the tool runner (api/nlq/tools.py,         *)
(* api/nlq/actions.py).                                                    *)
(*                                                                         *)
(* The language model is external: it may end its turn, or call any tool   *)
(* by any name, offered or not, with a payload that validates or not.  A   *)
(* streaming request runs the engine in a task of its own, so its events,  *)
(* the tool loop and the client's disconnect interleave.  A question is    *)
(* <<query, entity>>: the normalised text and the entity in focus.         *)
(***************************************************************************)
EXTENDS Integers, Sequences, FiniteSets

CONSTANTS
    Askers,         \* requests
    People,         \* users with a token
    Questions,      \* <<query, entity>>
    ModelCalls,     \* the tool calls the model may make in one turn: sequences of names
    NlqFound,          \* entities a tool may return
    MaxIterations,  \* NLQConfig.max_iterations
    MaxNlqFaults    \* bound: failures of Valkey, of a tool or of the model

ASSUME ToolNames == ModelCalls \subseteq Seq(STRING)
ASSUME NlqBounds == MaxIterations \in Nat /\ MaxNlqFaults \in Nat

VARIABLES
    ask,            \* the requests
    nlqCache,       \* answers in Valkey, by _cache_key
    nlqRevoked,        \* people whose token was revoked
    nlqFaults

nlqVars == <<ask, nlqCache, nlqRevoked, nlqFaults>>

-----------------------------------------------------------------------------
Anonymous == "anonymous"
Invalid == "invalid"        \* an empty or an overlong query

(* get_public_tool_schemas, get_action_tool_schemas and                    *)
(* get_authenticated_tool_schemas.                                         *)
PublicTools == {"search", "autocomplete", "explore_entity", "find_path", "get_collaborators",
    "get_similar_artists", "get_label_dna", "get_trends", "get_genre_tree", "get_graph_stats"}
ActionTools == {"ui_seed_graph", "ui_highlight_path", "ui_focus_node", "ui_filter_graph",
    "ui_find_path", "ui_show_credits", "ui_switch_pane", "ui_open_insight_tile",
    "ui_set_trend_range", "ui_suggest_followups"}
AuthTools == {"get_collection_gaps", "get_taste_fingerprint", "get_taste_blindspots",
    "get_collection_stats"}

(* What an answer is about: the question it answers, and whose collection  *)
(* it draws on.                                                            *)
NoAnswer == [q |-> Invalid, private |-> {}, tools |-> <<>>, entities |-> <<>>, actions |-> <<>>]

NoAsk == [pc |-> "idle", token |-> Anonymous, user |-> Anonymous, stream |-> FALSE, q |-> Invalid,
          engine |-> "none", round |-> 0, calls |-> <<>>, answer |-> NoAnswer,
          queue |-> <<>>, events |-> <<>>, counted |-> 0, got |-> NoAnswer]

NlqInit ==
    /\ ask = [a \in Askers |-> NoAsk]
    /\ nlqCache = {}
    /\ nlqRevoked = {}
    /\ nlqFaults = 0

NlqFault == nlqFaults < MaxNlqFaults /\ nlqFaults' = nlqFaults + 1
Set(a, r) == ask' = [ask EXCEPT ![a] = r]

(* _cache_key.                                                             *)
CacheKey(q) == q

-----------------------------------------------------------------------------
(* POST /api/nlq/query: the queries the engine must never see are refused. *)
Submit(a, token, stream, q) ==
    /\ ask[a].pc = "idle"
    /\ Set(a, [NoAsk EXCEPT !.token = token, !.stream = stream, !.q = q, !.pc = "resolve"])
    /\ UNCHANGED <<nlqCache, nlqRevoked, nlqFaults>>

Refuse(a) ==
    /\ ask[a].pc = "idle"
    /\ Set(a, [NoAsk EXCEPT !.pc = "closed", !.counted = 1])
    /\ UNCHANGED <<nlqCache, nlqRevoked, nlqFaults>>

(* _extract_user_id: the token of a live session, or anonymous, and        *)
(* anonymous when Valkey cannot be asked.                                  *)
ResolveAsker(a) ==
    LET user == IF ask[a].token \in nlqRevoked THEN Anonymous ELSE ask[a].token IN
    /\ ask[a].pc = "resolve"
    /\ \/ Set(a, [ask[a] EXCEPT !.user = user, !.pc = "lookup"]) /\ UNCHANGED nlqFaults
       \/ NlqFault /\ Set(a, [ask[a] EXCEPT !.user = Anonymous, !.pc = "lookup"])
    /\ UNCHANGED <<nlqCache, nlqRevoked>>

(* The cache, for an anonymous question; otherwise, and when the read      *)
(* fails, the engine starts.                                               *)
Started(r) == [r EXCEPT !.pc = "engine", !.engine = "running", !.answer = [NoAnswer EXCEPT !.q = r.q]]
Cached(q) == {e \in nlqCache : e.key = CacheKey(q)}

Lookup(a) ==
    LET r == ask[a] IN
    /\ r.pc = "lookup"
    /\ \/ /\ r.user = Anonymous
          /\ \E e \in Cached(r.q) :
                Set(a, [r EXCEPT !.pc = "replay", !.answer = e.answer, !.counted = @ + 1])
          /\ UNCHANGED nlqFaults
       \/ (r.user # Anonymous \/ Cached(r.q) = {}) /\ Set(a, Started(r)) /\ UNCHANGED nlqFaults
       \/ NlqFault /\ r.user = Anonymous /\ Cached(r.q) # {} /\ Set(a, Started(r))
    /\ UNCHANGED <<nlqCache, nlqRevoked>>

-----------------------------------------------------------------------------
(* NLQEngine.run: a turn of the model.  It ends the loop by end_turn or by *)
(* a stop without a tool call; the iteration limit ends it after the tools *)
(* of the last turn have run.                                              *)
ModelReplies(a) ==
    LET r == ask[a] IN
    /\ r.engine = "running" /\ r.calls = <<>>
    /\ r.round < MaxIterations
    /\ \/ Set(a, [r EXCEPT !.engine = "done"])
       \/ \E calls \in ModelCalls : Set(a, [r EXCEPT !.round = @ + 1, !.calls = calls])
    /\ UNCHANGED <<nlqCache, nlqRevoked, nlqFaults>>

IterationsExhausted(a) ==
    /\ ask[a].engine = "running" /\ ask[a].calls = <<>> /\ ask[a].round = MaxIterations
    /\ Set(a, [ask[a] EXCEPT !.engine = "done"])
    /\ UNCHANGED <<nlqCache, nlqRevoked, nlqFaults>>

ModelFails(a) ==
    /\ ask[a].engine = "running" /\ ask[a].calls = <<>> /\ ask[a].round < MaxIterations
    /\ NlqFault
    /\ Set(a, [ask[a] EXCEPT !.engine = "failed"])
    /\ UNCHANGED <<nlqCache, nlqRevoked>>

(* extract_entities and _deduplicate_entities.                             *)
HasEntities(tool) == tool \in {"search", "autocomplete", "explore_entity", "find_path"}
WithEntity(entities, e) ==
    IF \E i \in DOMAIN entities : entities[i] = e THEN entities ELSE Append(entities, e)

(* NLQToolRunner.execute and execute_action: what the tool adds to the     *)
(* answer.  An unknown tool, a tool that needs a user when there is none,  *)
(* an invalid payload and a handler that raises are all results with an    *)
(* error, which add nothing.                                               *)
ToolErrs(answer) == answer

DataTool(answer, tool) ==
    IF HasEntities(tool)
    THEN {[answer EXCEPT !.entities = WithEntity(@, e)] : e \in NlqFound} \cup {answer}
    ELSE {answer}

ToolRan(r, tool) ==
    LET answer == [r.answer EXCEPT !.tools = Append(@, tool)] IN
    CASE tool \in ActionTools -> {ToolErrs(answer), [answer EXCEPT !.actions = Append(@, tool)]}
      [] tool \in AuthTools /\ r.user # Anonymous ->
            {ToolErrs(answer), [answer EXCEPT !.private = @ \cup {r.user}]}
      [] tool \in PublicTools -> {ToolErrs(answer)} \cup DataTool(answer, tool)
      [] OTHER -> {ToolErrs(answer)}

(* One tool_use block of a turn, announced to a streaming client first.    *)
RunTool(a) ==
    LET r == ask[a]  tool == Head(r.calls) IN
    /\ r.engine = "running" /\ r.calls # <<>>
    /\ \E answer \in ToolRan(r, tool) :
          Set(a, [r EXCEPT !.calls = Tail(@), !.answer = answer,
                           !.queue = IF r.stream THEN Append(@, tool) ELSE @])
    /\ UNCHANGED <<nlqCache, nlqRevoked, nlqFaults>>

-----------------------------------------------------------------------------
(* The answer of a public question is stored before it is sent.            *)
Stored(r) ==
    IF r.user = Anonymous
    THEN {e \in nlqCache : e.key # CacheKey(r.q)} \cup {[key |-> CacheKey(r.q), answer |-> r.answer]}
    ELSE nlqCache

StoreAnswer(r) ==
    \/ nlqCache' = Stored(r) /\ UNCHANGED nlqFaults
    \/ NlqFault /\ r.user = Anonymous /\ UNCHANGED nlqCache

(* The JSON branch.                                                        *)
AnswerJson(a) ==
    LET r == ask[a] IN
    /\ ~r.stream
    /\ \/ /\ r.pc = "replay"
          /\ Set(a, [r EXCEPT !.pc = "closed", !.got = r.answer])
          /\ UNCHANGED <<nlqCache, nlqFaults>>
       \/ /\ r.pc = "engine" /\ r.engine = "done"
          /\ StoreAnswer(r)
          /\ Set(a, [r EXCEPT !.pc = "closed", !.got = r.answer, !.counted = @ + 1])
       \/ /\ r.pc = "engine" /\ r.engine = "failed"
          /\ Set(a, [r EXCEPT !.pc = "closed", !.counted = @ + 1])
          /\ UNCHANGED <<nlqCache, nlqFaults>>
    /\ UNCHANGED nlqRevoked

(* _stream_response: the status events as they arrive.                     *)
SendStatus(a) ==
    LET r == ask[a] IN
    /\ r.pc = "engine" /\ r.queue # <<>>
    /\ Set(a, [r EXCEPT !.queue = Tail(@), !.events = Append(@, Head(r.queue))])
    /\ UNCHANGED <<nlqCache, nlqRevoked, nlqFaults>>

(* Mutant: without the drain after the engine's end.                       *)
DrainedAnyway(r) == TRUE

Drained(r) == r.queue = <<>>

(* Once the engine has ended and the queue is drained: an error, or the    *)
(* actions and then the result.                                            *)
SendOutcome(a) ==
    LET r == ask[a] IN
    /\ r.stream /\ r.pc = "engine" /\ Drained(r)
    /\ \/ /\ r.engine = "failed"
          /\ Set(a, [r EXCEPT !.pc = "closed", !.events = Append(@, "error"), !.counted = @ + 1])
       \/ /\ r.engine = "done"
          /\ Set(a, [r EXCEPT !.pc = "result", !.events = Append(@, "actions"), !.counted = @ + 1])
    /\ UNCHANGED <<nlqCache, nlqRevoked, nlqFaults>>

SendResult(a) ==
    LET r == ask[a] IN
    /\ r.pc = "result"
    /\ StoreAnswer(r)
    /\ Set(a, [r EXCEPT !.pc = "closed", !.events = Append(@, "result"), !.got = r.answer])
    /\ UNCHANGED nlqRevoked

(* A cached answer is replayed as the two events of a live one.            *)
Replay(a) ==
    LET r == ask[a] IN
    /\ r.stream /\ r.pc = "replay"
    /\ IF r.events = <<>> THEN Set(a, [r EXCEPT !.events = <<"actions">>])
       ELSE Set(a, [r EXCEPT !.pc = "closed", !.events = Append(@, "result"), !.got = r.answer])
    /\ UNCHANGED <<nlqCache, nlqRevoked, nlqFaults>>

(* The client goes: GeneratorExit, and the finally clause cancels the      *)
(* engine.                                                                 *)
Disconnect(a) ==
    LET r == ask[a] IN
    /\ r.stream /\ r.pc \in {"engine", "result", "replay"}
    /\ Set(a, [r EXCEPT !.pc = "closed", !.calls = <<>>,
                        !.engine = IF @ = "running" THEN "cancelled" ELSE @])
    /\ UNCHANGED <<nlqCache, nlqRevoked, nlqFaults>>

(* External: a session ends; a cached answer reaches its TTL.              *)
Revoke(u) ==
    /\ u \notin nlqRevoked
    /\ nlqRevoked' = nlqRevoked \cup {u}
    /\ UNCHANGED <<ask, nlqCache, nlqFaults>>

AnswerExpires ==
    /\ \E e \in nlqCache : nlqCache' = nlqCache \ {e}
    /\ UNCHANGED <<ask, nlqRevoked, nlqFaults>>

NlqNext ==
    \/ \E a \in Askers, token \in People \cup {Anonymous}, stream \in BOOLEAN, q \in Questions :
          Submit(a, token, stream, q)
    \/ \E a \in Askers : \/ Refuse(a) \/ ResolveAsker(a) \/ Lookup(a)
                         \/ ModelReplies(a) \/ IterationsExhausted(a) \/ ModelFails(a) \/ RunTool(a)
                         \/ AnswerJson(a) \/ SendStatus(a) \/ SendOutcome(a) \/ SendResult(a)
                         \/ Replay(a) \/ Disconnect(a)
    \/ \E u \in People : Revoke(u)
    \/ AnswerExpires

-----------------------------------------------------------------------------
(* Whoever gets an answer gets one to the question asked, about the entity *)
(* in focus, drawing on nobody's collection but the asker's own; and an    *)
(* answer in the shared cache draws on nobody's.                           *)
AnswersAreTheAskers ==
    /\ \A a \in Askers : ask[a].got # NoAnswer =>
          /\ ask[a].got.q = ask[a].q
          /\ ask[a].got.private \subseteq {ask[a].token} \ {Anonymous}
    /\ \A e \in nlqCache : e.answer.private = {} /\ CacheKey(e.answer.q) = e.key

(* A stream that reaches its result has shown every tool that ran, in      *)
(* order, then the actions, then the result; its outcome is counted once;  *)
(* and no closed request leaves an engine running.                         *)
StreamIsWellFormed ==
    \A a \in Askers : LET r == ask[a] IN
        /\ r.counted <= 1
        /\ r.pc = "closed" => r.engine # "running"
        /\ r.got # NoAnswer =>
              /\ r.counted = 1
              /\ r.stream => r.events = (IF r.engine = "none" THEN <<>> ELSE r.answer.tools)
                                        \o <<"actions", "result">>
=============================================================================
