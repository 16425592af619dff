------------------------------ MODULE AgentWorkflow ------------------------------
(******************************************************************************)
(* One call of the Python Agent after the other: AgentService takes it, the   *)
(* agents of ArticleWorkflow work on it one after the other, each going       *)
(* through its items, and the answer goes back.  What is followed is where    *)
(* the text of a post comes from: which article, which phase of the LLM,      *)
(* which answer of an MCP server.                                             *)
(******************************************************************************)
EXTENDS Naturals, Sequences, FiniteSets, SequencesExt

CONSTANTS
  Configs,   \* settings the agent may be started with
  Requests,  \* [kind, known, run, items, policy]: "articles" or "feedback"; has
             \*   it the API token; has it a run_id; what it brings, by id;
             \*   the servers that its mcp_policy enables
  MaxItems   \* max_articles_per_request, max_feedback_per_request

(* An item brings a url or not, a text or not, and a phrase that no output    *)
(* may hold, in its title, in its text or nowhere.                            *)
Shape   == [url : BOOLEAN, text : BOOLEAN, phrase : {"title", "text", "none"}]
Servers == {"embedding", "fetch", "milvus", "neo4j"}

WorkflowAssumption ==
  /\ MaxItems \in Nat \ {0}
  /\ \A r \in Requests :
       /\ r.kind \in {"articles", "feedback"} /\ r.policy \subseteq Servers
       /\ \A id \in DOMAIN r.items : r.items[id] \in Shape

VARIABLES
  config,   \* Settings, read once
  request,  \* the call that is worked on or has been answered
  stage,    \* which agent is at it, or what became of it
  todo,     \* articles that this agent has not reached
  work      \* article_results, by article, with the article's text as it is now

vars == <<config, request, stage, todo, work>>

Nothing == [by |-> "none", of |-> "none", safe |-> TRUE]
Fresh(shape) ==
  [keep |-> FALSE, passed |-> FALSE, text |-> IF shape.text THEN "own" ELSE "none",
   summary |-> Nothing, post |-> Nothing, issues |-> {}, calls |-> <<>>]

NoRequest ==
  [kind |-> "none", known |-> FALSE, run |-> FALSE, items |-> << >>, policy |-> {}]

Init ==
  /\ config \in Configs
  /\ stage = "idle" /\ request = NoRequest /\ todo = {} /\ work = << >>

--------------------------------------------------------------------------------
(* _load_mcp_servers: a transport that the file lists for a server stands,    *)
(* whatever MOCK_MCP says.  _load_llm_settings: MOCK_LLM goes before the      *)
(* provider.  build_llm_client: no key, no model.                             *)
Memory   == config.listed = "memory" \/ (config.listed = "none" /\ config.mockMcp)
Provider == IF config.mockLlm THEN "mock" ELSE config.llm
Mocking  == ~(Provider \in {"openai", "claude"} /\ config.key)

(* AuthInterceptor, then what the handlers refuse.                            *)
Unauthorized(r) == config.guarded /\ ~r.known
Invalid(r)      == ~r.run \/ Cardinality(DOMAIN r.items) \notin 1..MaxItems
Refusal(r) ==
  IF Unauthorized(r) THEN {"unauthenticated"} ELSE {why \in {"invalid"} : Invalid(r)}

(* Articles are worked on one by one, the feedback of a request as one batch. *)
Units(r) ==
  IF r.kind = "articles" THEN r.items
  ELSE LET odd == \E id \in DOMAIN r.items : r.items[id].phrase # "none"
       IN [batch |-> [url |-> FALSE, text |-> TRUE, phrase |-> IF odd THEN "text" ELSE "none"]]
First(r) == IF r.kind = "articles" THEN "filter" ELSE "feedback"
After    == [filter |-> "summary", summary |-> "rewrite", rewrite |-> "check",
             check |-> "answered", feedback |-> "memory", memory |-> "answered"]

Receive(r) ==
  /\ stage \notin DOMAIN After
  /\ request' = r
  /\ IF Refusal(r) # {}
     THEN stage' \in Refusal(r) /\ todo' = {} /\ work' = << >>
     ELSE /\ stage' = First(r)
          /\ todo' = DOMAIN Units(r)
          /\ work' = [id \in DOMAIN Units(r) |-> Fresh(Units(r)[id])]
  /\ UNCHANGED config

(* The agent is through with an item: after the last one, the next agent.     *)
Finish(id, result) ==
  /\ id \in todo
  /\ work' = [work EXCEPT ![id] = result]
  /\ IF todo = {id}
     THEN stage' = After[stage] /\ todo' = DOMAIN work
     ELSE stage' = stage /\ todo' = todo \ {id}
  /\ UNCHANGED <<config, request>>

--------------------------------------------------------------------------------
(* DEFAULT_AGENT_TOOL_PERMISSIONS.                                            *)
PermissionsSlip ==
  [filter  |-> {"embed_text", "search_similar_memory", "query_user_interest_graph"},
   summary |-> {"fetch_webpage"},
   memory  |-> {"embed_text", "search_similar_memory", "update_user_interest_graph"}]
Permissions ==
  [filter   |-> {"embed_text", "embed_batch", "search_similar_memory",
                 "query_user_interest_graph", "get_related_topics"},
   summary  |-> {"fetch_webpage", "extract_main_content", "search_articles"},
   check    |-> {"fetch_webpage", "check_url_alive", "search_similar_memory", "semantic_deduplicate"},
   feedback |-> {"embed_text", "search_similar_memory"},
   memory   |-> {"embed_text", "insert_memory_vector", "batch_insert_memory_vectors",
                 "delete_memory_vectors", "search_similar_memory",
                 "update_user_interest_graph", "query_user_interest_graph", "get_related_topics"},
   output   |-> {}]
HighRisk == {"send_email", "save_markdown", "write_file", "read_file", "delete_file",
             "generate_daily_report", "generate_weekly_report"}
Allowed(agent, tool) ==
  agent \in DOMAIN Permissions /\ tool \in Permissions[agent] \ HighRisk

Server == [embed_text |-> "embedding", search_similar_memory |-> "milvus",
           insert_memory_vector |-> "milvus", query_user_interest_graph |-> "neo4j",
           update_user_interest_graph |-> "neo4j", fetch_webpage |-> "fetch"]

(* call_tool: how a call may end (McpClient says when).                       *)
Statuses(tool) ==
  IF ~Allowed(stage, tool) THEN {"denied"}
  ELSE IF Memory THEN {"success"}
  ELSE {"success", "failed"} \cup {s \in {"degraded"} : config.fallback}

(* The logs of the call that an agent makes if it wants to and may.           *)
Try(tool, wanted) ==
  IF wanted /\ Server[tool] \in request.policy
  THEN {<<[agent |-> stage, tool |-> tool, status |-> s]>> : s \in Statuses(tool)}
  ELSE {<<>>}
Answered(calls) == \E c \in Range(calls) : c.status \in {"success", "degraded"}

--------------------------------------------------------------------------------
(* Generation over a text and whether it holds the phrase.  A model's answer, *)
(* or its answer to the repair prompt, counts when _complete_and_validate     *)
(* finds it safe.  The mock as a model repeats what it is given; the repair   *)
(* prompt is no JSON, so it repairs out of nothing.  The fallback repeats     *)
(* what it is given too, and its output is not looked at.                     *)
Out(by, of, safe, issues) == [output |-> [by |-> by, of |-> of, safe |-> safe], issues |-> issues]
ModelAnswers(of) ==
  {Out(by, of, TRUE, issues) : by \in {"primary", "repair"}, issues \in {{}, {"own"}}}
MockAnswer(of, phrase) ==
  IF phrase THEN Out("repair", "nothing", TRUE, {}) ELSE Out("primary", of, TRUE, {})
FallbackAnswer(of, phrase) == Out("fallback", of, ~phrase, {"llm_fallback"})
Generate(of, phrase) ==
  IF Mocking THEN {MockAnswer(of, phrase)}
  ELSE ModelAnswers(of) \cup {FallbackAnswer(of, phrase)}

(* FilterAgent.run: the calls for one article, and the ranker's judgement,    *)
(* which rejects an article with neither text nor url.                        *)
Filter(id) ==
  LET shape == request.items[id]
  IN /\ stage = "filter"
     /\ \E graph \in Try("query_user_interest_graph", TRUE), embedded \in Try("embed_text", TRUE) :
        \E found \in Try("search_similar_memory", Answered(embedded)) :
        \E keep \in {k \in BOOLEAN : k => shape.url \/ shape.text} :
          Finish(id, [work[id] EXCEPT !.keep = keep, !.calls = graph \o embedded \o found])

(* What fetch-mcp answers: the page's text, which may be empty, or, as a      *)
(* mock, a text made up.  The memory transport makes one up, as a transport   *)
(* and as a fallback.                                                         *)
Page == IF config.mockFetch THEN {"invented"} ELSE {"own", "none"}
Fetched(calls) ==
  IF ~Answered(calls) THEN {"none"}
  ELSE IF Memory \/ \E c \in Range(calls) : c.status = "degraded" THEN {"invented"}
  ELSE Page
TextOr(text, other) == IF text = "none" THEN other ELSE text

(* SummaryAgent.run.                                                          *)
Summarize(id) ==
  LET w == work[id] shape == request.items[id]
  IN /\ stage = "summary"
     /\ IF ~w.keep THEN Finish(id, w)
        ELSE \E fetch \in Try("fetch_webpage", w.text = "none" /\ shape.url) :
             \E text \in IF fetch = <<>> THEN {w.text} ELSE Fetched(fetch) :
             \E out \in Generate(TextOr(text, "title"),
                                 shape.phrase = "title" \/ (shape.phrase = "text" /\ text = "own")) :
               Finish(id, [w EXCEPT
                 !.text = text, !.summary = out.output, !.calls = @ \o fetch,
                 !.issues = out.issues \cup {i \in {"summary_fetch_failed"} :
                                              fetch # <<>> /\ ~Answered(fetch)}])

(* RewriteAgent.run: out of the title and the summary.                        *)
Rewrite(id) ==
  LET w == work[id]
  IN /\ stage = "rewrite"
     /\ IF ~w.keep THEN Finish(id, w)
        ELSE \E out \in Generate(w.summary.of,
                                 request.items[id].phrase = "title" \/ ~w.summary.safe) :
               Finish(id, [w EXCEPT !.post = out.output, !.issues = @ \cup out.issues])

Missing(id) ==
  {i \in {"missing_summary", "missing_post_text", "missing_url"} :
     \/ i = "missing_summary" /\ work[id].summary.by = "none"
     \/ i = "missing_post_text" /\ work[id].post.by = "none"
     \/ i = "missing_url" /\ ~request.items[id].url}

CheckSlip(id) ==
  /\ stage = "check"
  /\ Finish(id, [work[id] EXCEPT
       !.passed = work[id].keep /\ Missing(id) = {}, !.issues = @ \cup Missing(id)])

(* CheckAgent.run: what the agents before it found counts as well.            *)
Check(id) ==
  LET w == work[id]
  IN /\ stage = "check"
     /\ IF ~w.keep THEN Finish(id, w)
        ELSE Finish(id, [w EXCEPT !.issues = @ \cup Missing(id),
                                  !.passed = w.issues \cup Missing(id) = {}])

(* FeedbackAgent.run; its issues stay behind in the state.                    *)
Extract(id) ==
  /\ stage = "feedback"
  /\ \E out \in Generate("own", Units(request)[id].phrase # "none") :
       Finish(id, [work[id] EXCEPT !.summary = out.output])

(* MemoryAgent.run (what it writes: MemoryWrites, ProfileMerge).              *)
Remember(id) ==
  /\ stage = "memory"
  /\ \E embedded \in Try("embed_text", TRUE), update \in Try("update_user_interest_graph", TRUE) :
     \E insert \in Try("insert_memory_vector", Answered(embedded)) :
       Finish(id, [work[id] EXCEPT !.calls = embedded \o insert \o update])

Next ==
  \/ \E r \in Requests : Receive(r)
  \/ \E id \in todo :
       Filter(id) \/ Summarize(id) \/ Rewrite(id) \/ Check(id) \/ Extract(id) \/ Remember(id)
Spec == Init /\ [][Next]_vars

--------------------------------------------------------------------------------
(* A post that passes the check can be traced: the article was kept, has a    *)
(* url, and nothing went wrong on the way; summary and post were written by   *)
(* the configured model and went through the check for unsafe phrases (the    *)
(* fallback's do not); a text that was made up comes from a call that is      *)
(* logged as degraded, or from a mock; and a post about nothing at all comes  *)
(* from a mock only.                                                          *)
Written(output) ==
  /\ output.by \in {"primary", "repair"} /\ output.safe
  /\ output.of = "nothing" => Mocking
Traceable(id) ==
  LET w == work[id]
  IN /\ w.keep /\ request.items[id].url /\ w.issues = {}
     /\ Written(w.summary) /\ Written(w.post)
     /\ w.text = "invented" =>
          \/ Memory \/ config.mockFetch
          \/ \E c \in Range(w.calls) : c.tool = "fetch_webpage" /\ c.status = "degraded"
PassedIsTraceable == \A id \in DOMAIN work : work[id].passed => Traceable(id)

(* Agents keep to two policies that are written in different places, the      *)
(* table of tools per agent and the request's own: no call is ever denied,    *)
(* none goes to a server that the request disables, none asks the vector      *)
(* store without a vector, an article that was filtered out causes no more    *)
(* calls, and a refused request causes none.                                  *)
CallsPermitted ==
  \A id \in DOMAIN work :
    LET calls == work[id].calls
    IN \A n \in 1..Len(calls) :
         /\ calls[n].status # "denied"
         /\ Server[calls[n].tool] \in request.policy
         /\ Server[calls[n].tool] = "milvus" =>
              \E m \in 1..n - 1 : calls[m].tool = "embed_text" /\ calls[m].status # "failed"
         /\ calls[n].agent = "summary" => work[id].keep
         /\ Refusal(request) = {}
================================================================================
