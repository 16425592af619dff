--------------------------- MODULE AgentFlow_proofs ----------------------------
(******************************************************************************)
(* What the parts of the agent do, for all values of their constants: the     *)
(* client and the connections it calls tools through, the agents that work on *)
(* an article or a feedback one after another, and the ranking.               *)
(******************************************************************************)
EXTENDS AgentParts, Integers, SequenceTheorems, FiniteSetTheorems, TLAPS

(* The client and the connections, with what McpClient_proofs and             *)
(* McpConnections_proofs prove of them.                                       *)
Breaker   == INSTANCE McpClient_proofs WITH
  Threads <- Callers, Threshold <- Failing, thread <- caller
Transport == INSTANCE McpConnections_proofs WITH Threads <- Serving

(* For any number of threads, any threshold and any number of retries, a call *)
(* that begins while the circuit is open does not reach the server unless its *)
(* time is up or another thread closes it meanwhile (McpClient.call_tool).    *)
THEOREM FailsFastAlways ==
  ASSUME Breaker!McpAssumption PROVE Breaker!Spec => []FailsFast
<1>1. Breaker!FailsFast => FailsFast
  BY DEF FailsFast, Client!FailsFast, Breaker!FailsFast, Client!At, Breaker!At
<1> QED BY <1>1, Breaker!FailsFastAlways, PTL

(* However calls fail, are cancelled or come in, no child process is lost     *)
(* (_connect, _drop_connection) but those that the clear() of _close_all      *)
(* drops, and those of a loop that was stopped and started again.             *)
THEOREM NoLeakAlways ==
  ASSUME Transport!ConnectionsAssumption PROVE Transport!Spec => []NoLeak
<1>1. Transport!NoLeak => NoLeak
  BY DEF NoLeak, Connections!NoLeak, Transport!NoLeak, Connections!Holds, Transport!Holds,
         Connections!Opening, Transport!Opening
<1> QED BY <1>1, Transport!NoLeakAlways, PTL

(* However many tasks find no connection, a server has one, apart from those  *)
(* that are being closed, or that close() or a restart have forgotten.        *)
THEOREM OneConnectionAlways ==
  ASSUME Transport!ConnectionsAssumption PROVE Transport!Spec => []OneConnection
<1>1. Transport!OneConnection => OneConnection
  BY DEF OneConnection, Connections!OneConnection, Transport!OneConnection,
         Connections!Retiring, Transport!Retiring
<1> QED BY <1>1, Transport!OneConnectionAlways, PTL

--------------------------------------------------------------------------------
(* The agents (AgentWorkflow).                                                *)
LEMMA AfterFacts ==
  /\ DOMAIN Flow!After = {"filter", "summary", "rewrite", "check", "feedback", "memory"}
  /\ Flow!After["filter"] = "summary" /\ Flow!After["summary"] = "rewrite"
  /\ Flow!After["rewrite"] = "check"
  /\ Flow!After["check"] = "answered" /\ Flow!After["feedback"] = "memory"
  /\ Flow!After["memory"] = "answered"
BY DEF Flow!After

LEMMA ServerFacts ==
  /\ Flow!Server["embed_text"] = "embedding" /\ Flow!Server["search_similar_memory"] = "milvus"
  /\ Flow!Server["insert_memory_vector"] = "milvus"
  /\ Flow!Server["query_user_interest_graph"] = "neo4j"
  /\ Flow!Server["update_user_interest_graph"] = "neo4j" /\ Flow!Server["fetch_webpage"] = "fetch"
BY DEF Flow!Server

(* Every agent's tools are in its permissions.                                *)
LEMMA AllowedFacts ==
  /\ \A tool \in {"embed_text", "search_similar_memory", "query_user_interest_graph"} :
       Flow!Allowed("filter", tool)
  /\ Flow!Allowed("summary", "fetch_webpage")
  /\ \A tool \in {"embed_text", "insert_memory_vector", "update_user_interest_graph"} :
       Flow!Allowed("memory", tool)
BY DEF Flow!Allowed, Flow!Permissions, Flow!HighRisk

--------------------------------------------------------------------------------
(* The types.                                                                 *)
Tools == {"embed_text", "search_similar_memory", "insert_memory_vector",
          "query_user_interest_graph", "update_user_interest_graph", "fetch_webpage"}
ToolCall == [agent : {"filter", "summary", "memory"}, tool : Tools,
         status : {"success", "failed", "degraded"}]
Origins == {"none", "own", "title", "invented", "nothing"}
Output == [by : {"none", "primary", "repair", "fallback"}, of : Origins, safe : BOOLEAN]
Notes == {"own", "llm_fallback", "summary_fetch_failed",
          "missing_summary", "missing_post_text", "missing_url"}
Work == [keep : BOOLEAN, passed : BOOLEAN, text : {"own", "none", "invented"},
         summary : Output, post : Output, issues : SUBSET Notes, calls : Seq(ToolCall)]

(* What is known of an output, and of the issues that are noted with it.      *)
Sound(output) ==
  /\ output.by \in {"primary", "repair"} => output.safe = TRUE
  /\ output.of = "nothing" => Flow!Mocking
Noted(output, issues) == output.by = "fallback" => "llm_fallback" \in issues

(* What is known of the calls for an item.                                    *)
Vectored(trail) ==
  \A n \in 1..Len(trail) : Flow!Server[trail[n].tool] = "milvus" =>
    \E m \in 1..n - 1 : trail[m].tool = "embed_text" /\ trail[m].status # "failed"
InPolicy(trail, keep) ==
  \A n \in 1..Len(trail) : /\ Flow!Server[trail[n].tool] \in request.policy
                           /\ trail[n].agent = "summary" => keep

Explained(w) ==
  w.text = "invented" =>
    \/ Flow!Memory \/ config.mockFetch
    \/ \E c \in Flow!Range(w.calls) : c.tool = "fetch_webpage" /\ c.status = "degraded"

ItemInv(id, w) ==
  /\ Sound(w.summary) /\ Sound(w.post)
  /\ Explained(w)
  /\ Vectored(w.calls) /\ InPolicy(w.calls, w.keep)
  /\ w.passed => /\ w.keep /\ request.items[id].url /\ w.issues = {}
                 /\ w.summary.by \in {"primary", "repair"}
                 /\ w.post.by \in {"primary", "repair"}

(* What an agent finds.                                                       *)
Found(s, w) ==
  /\ s \in {"filter", "summary", "rewrite", "feedback", "memory"} => w.passed = FALSE
  /\ s \in {"filter", "feedback", "memory"} => w.text # "invented"
  /\ s \in {"filter", "summary"} => w.post = Flow!Nothing
  /\ s \in {"filter", "summary", "rewrite", "check"} =>
       Noted(w.summary, w.issues) /\ Noted(w.post, w.issues)

WorkflowInv ==
  /\ stage \in DOMAIN Flow!After \cup {"idle", "answered", "unauthenticated", "invalid"}
  /\ todo \subseteq DOMAIN work
  /\ work \in [DOMAIN work -> Work]
  /\ DOMAIN work # {} => Flow!Refusal(request) = {}
  /\ \A id \in DOMAIN work : ItemInv(id, work[id]) /\ Found(stage, work[id])

--------------------------------------------------------------------------------
LEMMA NothingFacts ==
  /\ Flow!Nothing \in Output /\ Flow!Nothing.by = "none" /\ Flow!Nothing.of = "none"
  /\ Sound(Flow!Nothing) /\ \A issues : Noted(Flow!Nothing, issues)
BY DEF Flow!Nothing, Output, Origins, Sound, Noted

LEMMA FreshFacts ==
  ASSUME NEW shape, NEW id, NEW s
  PROVE  Flow!Fresh(shape) \in Work /\ ItemInv(id, Flow!Fresh(shape)) /\ Found(s, Flow!Fresh(shape))
<1> DEFINE w == Flow!Fresh(shape)
<1>1. /\ w.keep = FALSE /\ w.passed = FALSE /\ w.text \in {"own", "none"}
      /\ w.summary = Flow!Nothing /\ w.post = Flow!Nothing /\ w.issues = {} /\ w.calls = <<>>
  BY DEF Flow!Fresh
<1>2. w \in Work
  BY NothingFacts, EmptySeq DEF Flow!Fresh, Work
<1>3. Vectored(<<>>) /\ InPolicy(<<>>, FALSE)
  BY DEF Vectored, InPolicy
<1> HIDE DEF w
<1>4. ItemInv(id, w) /\ Found(s, w)
  BY <1>1, <1>3, NothingFacts DEF ItemInv, Found, Explained
<1> QED BY <1>2, <1>4 DEF w

(* One output after another.                                                  *)
LEMMA OutFacts ==
  ASSUME NEW by \in {"primary", "repair", "fallback"}, NEW of \in Origins,
         of = "nothing" => Flow!Mocking, NEW safe \in BOOLEAN, NEW issues \in SUBSET Notes,
         by \in {"primary", "repair"} => safe = TRUE,
         by = "fallback" => "llm_fallback" \in issues,
         NEW out, out = Flow!Out(by, of, safe, issues)
  PROVE  /\ out.output \in Output /\ out.issues \in SUBSET Notes
         /\ Sound(out.output) /\ Noted(out.output, out.issues)
<1>1. /\ out.output \in Output /\ out.issues = issues
      /\ out.output.by = by /\ out.output.of = of /\ out.output.safe = safe
  BY DEF Flow!Out, Output
<1> QED BY <1>1 DEF Sound, Noted

LEMMA GenerateFacts ==
  ASSUME NEW of \in Origins, of = "nothing" => Flow!Mocking, NEW phrase,
         NEW out \in Flow!Generate(of, phrase)
  PROVE  /\ out.output \in Output /\ out.issues \in SUBSET Notes
         /\ Sound(out.output) /\ Noted(out.output, out.issues)
<1>1. {} \in SUBSET Notes /\ {"own"} \in SUBSET Notes /\ {"llm_fallback"} \in SUBSET Notes
  BY DEF Notes
<1>2. "nothing" \in Origins
  BY DEF Origins
<1>3. CASE Flow!Mocking
  <2>1. out = Flow!Out("repair", "nothing", TRUE, {}) \/ out = Flow!Out("primary", of, TRUE, {})
    BY <1>3 DEF Flow!Generate, Flow!MockAnswer
  <2> QED BY <1>1, <1>2, <1>3, <2>1, OutFacts
<1>4. CASE ~Flow!Mocking
  <2>1. CASE out \in Flow!ModelAnswers(of)
    <3>1. PICK by \in {"primary", "repair"}, issues \in {{}, {"own"}} :
            out = Flow!Out(by, of, TRUE, issues)
      BY <2>1, SMTT(30) DEF Flow!ModelAnswers, Flow!Out
    <3> QED BY <1>1, <3>1, OutFacts
  <2>2. CASE out = Flow!FallbackAnswer(of, phrase)
    <3>1. PICK safe \in BOOLEAN : out = Flow!Out("fallback", of, safe, {"llm_fallback"})
      BY <2>2 DEF Flow!FallbackAnswer
    <3> QED BY <1>1, <3>1, OutFacts
  <2> QED BY <1>4, <2>1, <2>2 DEF Flow!Generate
<1> QED BY <1>3, <1>4

(* The calls.                                                                 *)
LEMMA TryFacts ==
  ASSUME NEW tool \in Tools, stage \in {"filter", "summary", "memory"}, Flow!Allowed(stage, tool),
         NEW wanted, NEW trail \in Flow!Try(tool, wanted)
  PROVE  \/ trail = <<>>
         \/ /\ wanted /\ Flow!Server[tool] \in request.policy
            /\ \E c \in ToolCall : trail = <<c>> /\ c.agent = stage /\ c.tool = tool
<1>1. CASE trail = <<>>
  BY <1>1
<1>2. CASE trail # <<>>
  <2>1. wanted /\ Flow!Server[tool] \in request.policy
    BY <1>2 DEF Flow!Try
  <2>2. PICK s \in Flow!Statuses(tool) : trail = <<[agent |-> stage, tool |-> tool, status |-> s]>>
    BY <1>2, <2>1 DEF Flow!Try
  <2>3. s \in {"success", "failed", "degraded"}
    BY DEF Flow!Statuses
  <2> DEFINE c == [agent |-> stage, tool |-> tool, status |-> s]
  <2>4. c \in ToolCall /\ c.agent = stage /\ c.tool = tool
    BY <2>3 DEF ToolCall
  <2> HIDE DEF c
  <2> QED BY <2>1, <2>2, <2>4 DEF c
<1> QED BY <1>1, <1>2

LEMMA OneCall ==
  ASSUME NEW c \in ToolCall
  PROVE  /\ <<c>> \in Seq(ToolCall) /\ Len(<<c>>) = 1 /\ <<c>>[1] = c
         /\ Flow!Range(<<c>>) = {c}
BY DEF Flow!Range

(* Two runs of calls, one after the other.                                    *)
LEMMA AppendedCalls ==
  ASSUME NEW c1 \in Seq(ToolCall), NEW c2 \in Seq(ToolCall), NEW keep,
         InPolicy(c1, keep), InPolicy(c2, keep), Vectored(c1),
         \/ Vectored(c2)
         \/ \E m \in 1..Len(c1) : c1[m].tool = "embed_text" /\ c1[m].status # "failed"
  PROVE  /\ c1 \o c2 \in Seq(ToolCall) /\ InPolicy(c1 \o c2, keep) /\ Vectored(c1 \o c2)
         /\ Flow!Range(c1) \subseteq Flow!Range(c1 \o c2)
         /\ Flow!Range(c2) \subseteq Flow!Range(c1 \o c2)
<1> DEFINE c == c1 \o c2
           Embedded(m, s) == s[m].tool = "embed_text" /\ s[m].status # "failed"
<1>1. /\ Len(c1) \in Nat /\ Len(c2) \in Nat
      /\ c \in Seq(ToolCall) /\ Len(c) = Len(c1) + Len(c2)
      /\ DOMAIN c1 = 1..Len(c1) /\ DOMAIN c2 = 1..Len(c2) /\ DOMAIN c = 1..Len(c)
  BY ConcatProperties, LenProperties
<1>2. \A n \in 1..Len(c1) : n \in 1..Len(c) /\ c[n] = c1[n]
  BY <1>1, ConcatProperties
<1>3. \A n \in 1..Len(c2) : n + Len(c1) \in 1..Len(c) /\ c[n + Len(c1)] = c2[n]
  <2> TAKE n \in 1..Len(c2)
  <2>1. n + Len(c1) \in 1..Len(c1) + Len(c2) /\ ~(n + Len(c1) <= Len(c1))
        /\ (n + Len(c1)) - Len(c1) = n
    BY <1>1
  <2> QED BY <1>1, <2>1, ConcatProperties
<1>4. \A n \in 1..Len(c) : n \in 1..Len(c1) \/ (n > Len(c1) /\ n - Len(c1) \in 1..Len(c2)
                                                 /\ c[n] = c2[n - Len(c1)])
  <2> TAKE n \in 1..Len(c)
  <2>1. CASE n <= Len(c1)
    BY <1>1, <2>1
  <2>2. CASE ~(n <= Len(c1))
    <3>1. n - Len(c1) \in 1..Len(c2) /\ n \in 1..Len(c1) + Len(c2) /\ n > Len(c1)
      BY <1>1, <2>2
    <3> QED BY <2>2, <3>1, ConcatProperties
  <2> QED BY <2>1, <2>2
<1> HIDE DEF c
<1>5. InPolicy(c, keep)
  BY <1>2, <1>4 DEF InPolicy
<1>6. Vectored(c)
  <2> SUFFICES ASSUME NEW n \in 1..Len(c), Flow!Server[c[n].tool] = "milvus"
               PROVE  \E m \in 1..n - 1 : Embedded(m, c)
    BY DEF Vectored
  <2>1. CASE n \in 1..Len(c1)
    <3>1. PICK m \in 1..n - 1 : Embedded(m, c1)
      BY <1>2, <2>1 DEF Vectored
    <3>2. m \in 1..Len(c1)
      BY <1>1, <2>1
    <3> QED BY <1>2, <3>1, <3>2
  <2>2. CASE n > Len(c1) /\ n - Len(c1) \in 1..Len(c2) /\ c[n] = c2[n - Len(c1)]
    <3>1. CASE Vectored(c2)
      <4>1. PICK m \in 1..(n - Len(c1)) - 1 : Embedded(m, c2)
        BY <2>2, <3>1 DEF Vectored
      <4>2. m \in 1..Len(c2) /\ m + Len(c1) \in 1..n - 1
        BY <1>1, <2>2
      <4>3. Embedded(m + Len(c1), c)
        BY <1>3, <4>1, <4>2
      <4> QED BY <4>2, <4>3
    <3>2. CASE \E m \in 1..Len(c1) : Embedded(m, c1)
      <4>1. PICK m \in 1..Len(c1) : Embedded(m, c1)
        BY <3>2
      <4>2. m \in 1..n - 1
        BY <1>1, <2>2
      <4> QED BY <1>2, <4>1, <4>2
    <3> QED BY <3>1, <3>2
  <2> QED BY <1>4, <2>1, <2>2
<1>7. Flow!Range(c1) \subseteq Flow!Range(c) /\ Flow!Range(c2) \subseteq Flow!Range(c)
  BY <1>1, <1>2, <1>3 DEF Flow!Range
<1> QED BY <1>1, <1>5, <1>6, <1>7 DEF c

LEMMA NoCalls ==
  ASSUME NEW keep
  PROVE  <<>> \in Seq(ToolCall) /\ InPolicy(<<>>, keep) /\ Vectored(<<>>) /\ Len(<<>>) = 0
BY EmptySeq DEF InPolicy, Vectored

(* What one agent's call for an item is worth.                                *)
LEMMA CallFacts ==
  ASSUME NEW tool \in Tools, stage \in {"filter", "summary", "memory"}, Flow!Allowed(stage, tool),
         NEW wanted, NEW trail \in Flow!Try(tool, wanted), NEW keep,
         stage = "summary" => keep
  PROVE  /\ trail \in Seq(ToolCall) /\ InPolicy(trail, keep)
         /\ Flow!Server[tool] # "milvus" => Vectored(trail)
         /\ trail # <<>> => wanted
         /\ \A c \in Flow!Range(trail) : c.tool = tool
<1>1. CASE trail = <<>>
  <2>1. Flow!Range(<<>>) = {}
    BY DEF Flow!Range
  <2> QED BY <1>1, <2>1, NoCalls
<1>2. CASE trail # <<>>
  <2>1. wanted /\ Flow!Server[tool] \in request.policy
    BY <1>2, TryFacts
  <2>2. PICK c \in ToolCall : trail = <<c>> /\ c.agent = stage /\ c.tool = tool
    BY <1>2, TryFacts
  <2>3. trail \in Seq(ToolCall) /\ Len(trail) = 1 /\ trail[1] = c /\ Flow!Range(trail) = {c}
    BY <2>2, OneCall
  <2>4. InPolicy(trail, keep)
    BY <2>1, <2>2, <2>3 DEF InPolicy
  <2>5. Flow!Server[tool] # "milvus" => Vectored(trail)
    BY <2>2, <2>3 DEF Vectored
  <2> QED BY <2>1, <2>2, <2>3, <2>4, <2>5
<1> QED BY <1>1, <1>2

LEMMA EmbeddedFacts ==
  ASSUME stage \in {"filter", "memory"}, NEW trail \in Flow!Try("embed_text", TRUE),
         Flow!Answered(trail)
  PROVE  \E m \in 1..Len(trail) : trail[m].tool = "embed_text" /\ trail[m].status # "failed"
<1>1. "embed_text" \in Tools /\ Flow!Allowed(stage, "embed_text")
  BY AllowedFacts DEF Tools
<1>2. trail # <<>>
  BY DEF Flow!Answered, Flow!Range
<1>3. PICK c \in ToolCall : trail = <<c>> /\ c.tool = "embed_text"
  BY <1>1, <1>2, TryFacts
<1>4. Len(trail) = 1 /\ trail[1] = c /\ Flow!Range(trail) = {c}
  BY <1>3, OneCall
<1>5. c.status # "failed"
  BY <1>4 DEF Flow!Answered
<1> QED BY <1>3, <1>4, <1>5

--------------------------------------------------------------------------------
(* Every agent leaves an item that the next one may find.                     *)
LEMMA FinishStep ==
  ASSUME WorkflowInv, NEW id \in todo, NEW w \in Work, Flow!Finish(id, w),
         stage \in DOMAIN Flow!After,
         ItemInv(id, w), Found(stage, w)
  PROVE  WorkflowInv'
<1>1. /\ work' = [work EXCEPT ![id] = w] /\ UNCHANGED <<config, request>>
      /\ stage' \in {stage, Flow!After[stage]} /\ todo' \subseteq DOMAIN work
  BY DEF Flow!Finish, WorkflowInv
<1>2. /\ DOMAIN work' = DOMAIN work /\ work' \in [DOMAIN work -> Work]
      /\ \A i \in DOMAIN work : work'[i] = IF i = id THEN w ELSE work[i]
  BY <1>1 DEF WorkflowInv
<1>3. \A i, v : ItemInv(i, v)' <=> ItemInv(i, v)
  BY <1>1 DEF ItemInv, Sound, Explained, InPolicy, Vectored, Flow!Memory,
         Flow!Mocking, Flow!Provider
<1>4. Flow!Refusal(request)' = Flow!Refusal(request)
  BY <1>1 DEF Flow!Refusal, Flow!Unauthorized, Flow!Invalid
<1>5. \A v : Found(stage, v) => Found(stage', v)
  BY <1>1, AfterFacts DEF Found
<1>6. ASSUME NEW i \in DOMAIN work, NEW v, v = work'[i]
      PROVE  ItemInv(i, v)' /\ Found(stage', v)
  <2>1. CASE i = id
    BY <1>2, <1>3, <1>5, <1>6, <2>1
  <2>2. CASE i # id
    BY <1>2, <1>3, <1>5, <1>6, <2>2 DEF WorkflowInv
  <2> QED BY <2>1, <2>2
<1>7. \A i \in DOMAIN work' : ItemInv(i, work[i])' /\ Found(stage, work[i])'
  BY <1>2, <1>6
<1>8. stage' \in DOMAIN Flow!After \cup {"idle", "answered", "unauthenticated", "invalid"}
  BY <1>1, AfterFacts DEF WorkflowInv
<1> QED BY <1>1, <1>2, <1>4, <1>7, <1>8 DEF WorkflowInv

LEMMA ReceiveStep ==
  ASSUME WorkflowInv, NEW r, Flow!Receive(r)
  PROVE  WorkflowInv'
<1>1. request' = r /\ config' = config
  BY DEF Flow!Receive
<1>2. Flow!Refusal(request)' = Flow!Refusal(r)
  BY <1>1 DEF Flow!Refusal, Flow!Unauthorized, Flow!Invalid
<1>3. CASE Flow!Refusal(r) # {}
  <2>1. stage' \in Flow!Refusal(r) /\ todo' = {} /\ work' = << >>
    BY <1>3 DEF Flow!Receive
  <2>2. stage' \in {"unauthenticated", "invalid"}
    BY <2>1 DEF Flow!Refusal
  <2>3. DOMAIN work' = {} /\ work' \in [DOMAIN work' -> Work]
    BY <2>1
  <2> QED BY <2>1, <2>2, <2>3 DEF WorkflowInv
<1>4. CASE Flow!Refusal(r) = {}
  <2> DEFINE D == DOMAIN Flow!Units(r)
  <2>1. stage' = Flow!First(r) /\ todo' = D /\ work' = [id \in D |-> Flow!Fresh(Flow!Units(r)[id])]
    BY <1>4 DEF Flow!Receive
  <2>2. stage' \in DOMAIN Flow!After
    BY <2>1, AfterFacts DEF Flow!First
  <2> HIDE DEF D
  <2>3. DOMAIN work' = D /\ \A id \in D : work'[id] = Flow!Fresh(Flow!Units(r)[id])
    BY <2>1
  <2>4. work' \in [D -> Work]
    BY <2>1, FreshFacts
  <2>5. ASSUME NEW id \in D, NEW v, v = work'[id]
        PROVE  ItemInv(id, v)' /\ Found(stage', v)
    <3>1. PICK shape : v = Flow!Fresh(shape)
      BY <2>3, <2>5
    <3>2. Found(stage', v)
      BY <3>1, FreshFacts
    <3>3. ItemInv(id, v)'
      <4>1. /\ v.keep = FALSE /\ v.passed = FALSE /\ v.text \in {"own", "none"}
            /\ v.summary = Flow!Nothing /\ v.post = Flow!Nothing /\ v.issues = {}
            /\ v.calls = <<>>
        BY <3>1 DEF Flow!Fresh
      <4>2. Flow!Nothing.by = "none" /\ Flow!Nothing.of = "none"
        BY NothingFacts
      <4> QED BY <4>1, <4>2 DEF ItemInv, Sound, Explained, Vectored, InPolicy
    <3> QED BY <3>2, <3>3
  <2>6. \A id \in DOMAIN work' : ItemInv(id, work[id])' /\ Found(stage, work[id])'
    BY <2>3, <2>5
  <2> QED BY <1>2, <1>4, <2>1, <2>2, <2>3, <2>4, <2>6 DEF WorkflowInv
<1> QED BY <1>3, <1>4

LEMMA ItemFacts ==
  ASSUME WorkflowInv, NEW id \in todo
  PROVE  work[id] \in Work /\ ItemInv(id, work[id]) /\ Found(stage, work[id])
BY DEF WorkflowInv

LEMMA FilterStep ==
  ASSUME WorkflowInv, NEW id \in todo, Flow!Filter(id) PROVE WorkflowInv'
<1>1. stage = "filter" /\ work[id] \in Work /\ ItemInv(id, work[id]) /\ Found(stage, work[id])
  BY ItemFacts DEF Flow!Filter
<1>2. PICK queried \in Flow!Try("query_user_interest_graph", TRUE),
           embedded \in Flow!Try("embed_text", TRUE) :
      \E found \in Flow!Try("search_similar_memory", Flow!Answered(embedded)) :
      \E keep \in BOOLEAN :
        Flow!Finish(id, [work[id] EXCEPT !.keep = keep, !.calls = queried \o embedded \o found])
  BY DEF Flow!Filter
<1>3. PICK found \in Flow!Try("search_similar_memory", Flow!Answered(embedded)), keep \in BOOLEAN :
        Flow!Finish(id, [work[id] EXCEPT !.keep = keep, !.calls = queried \o embedded \o found])
  BY <1>2
<1> DEFINE trail == queried \o embedded \o found
           w == [work[id] EXCEPT !.keep = keep, !.calls = trail]
<1>4. /\ trail \in Seq(ToolCall) /\ InPolicy(trail, keep) /\ Vectored(trail)
  <2>1. \A tool \in {"embed_text", "search_similar_memory", "query_user_interest_graph"} :
          tool \in Tools /\ Flow!Allowed(stage, tool)
    BY <1>1, AllowedFacts DEF Tools
  <2>2. queried \in Seq(ToolCall) /\ InPolicy(queried, keep) /\ Vectored(queried)
    BY <1>1, <2>1, CallFacts, ServerFacts
  <2>3. embedded \in Seq(ToolCall) /\ InPolicy(embedded, keep) /\ Vectored(embedded)
    BY <1>1, <2>1, CallFacts, ServerFacts
  <2>4. /\ found \in Seq(ToolCall) /\ InPolicy(found, keep)
        /\ found # <<>> => Flow!Answered(embedded)
    BY <1>1, <2>1, CallFacts
  <2>5. Flow!Answered(embedded) => \E m \in 1..Len(embedded) :
          embedded[m].tool = "embed_text" /\ embedded[m].status # "failed"
    BY <1>1, EmbeddedFacts
  <2>6. found = <<>> => Vectored(found)
    BY NoCalls
  <2>7. /\ embedded \o found \in Seq(ToolCall) /\ InPolicy(embedded \o found, keep)
        /\ Vectored(embedded \o found)
    BY <2>3, <2>4, <2>5, <2>6, AppendedCalls
  <2>8. trail = queried \o (embedded \o found)
    <3>1. queried \in Seq(ToolCall) /\ embedded \in Seq(ToolCall) /\ found \in Seq(ToolCall)
      BY <2>2, <2>3, <2>4
    <3>2. (queried \o embedded) \o found = queried \o (embedded \o found)
      BY <3>1, ConcatAssociative
    <3> QED BY <3>2
  <2> HIDE DEF trail
  <2> QED BY <2>2, <2>7, <2>8, AppendedCalls
<1> HIDE DEF trail
<1>5. /\ w \in Work /\ w.keep = keep /\ w.calls = trail /\ w.passed = work[id].passed
      /\ w.text = work[id].text /\ w.summary = work[id].summary /\ w.post = work[id].post
      /\ w.issues = work[id].issues
  BY <1>1, <1>4 DEF Work
<1>6. Flow!Finish(id, w)
  BY <1>3 DEF trail
<1> HIDE DEF w
<1>7. ItemInv(id, w) /\ Found(stage, w)
  BY <1>1, <1>4, <1>5 DEF ItemInv, Found, Explained
<1> QED BY <1>1, <1>5, <1>6, <1>7, AfterFacts, FinishStep

LEMMA RememberStep ==
  ASSUME WorkflowInv, NEW id \in todo, Flow!Remember(id) PROVE WorkflowInv'
<1>1. stage = "memory" /\ work[id] \in Work /\ ItemInv(id, work[id]) /\ Found(stage, work[id])
  BY ItemFacts DEF Flow!Remember
<1>2. PICK embedded \in Flow!Try("embed_text", TRUE),
           update \in Flow!Try("update_user_interest_graph", TRUE) :
      \E insert \in Flow!Try("insert_memory_vector", Flow!Answered(embedded)) :
        Flow!Finish(id, [work[id] EXCEPT !.calls = embedded \o insert \o update])
  BY DEF Flow!Remember
<1>3. PICK insert \in Flow!Try("insert_memory_vector", Flow!Answered(embedded)) :
        Flow!Finish(id, [work[id] EXCEPT !.calls = embedded \o insert \o update])
  BY <1>2
<1> DEFINE keep == work[id].keep
           trail == embedded \o insert \o update
           w == [work[id] EXCEPT !.calls = trail]
<1>4. /\ trail \in Seq(ToolCall) /\ InPolicy(trail, keep) /\ Vectored(trail)
  <2> HIDE DEF keep
  <2>1. \A tool \in {"embed_text", "insert_memory_vector", "update_user_interest_graph"} :
          tool \in Tools /\ Flow!Allowed(stage, tool)
    BY <1>1, AllowedFacts DEF Tools
  <2>2. update \in Seq(ToolCall) /\ InPolicy(update, keep) /\ Vectored(update)
    BY <1>1, <2>1, CallFacts, ServerFacts
  <2>3. embedded \in Seq(ToolCall) /\ InPolicy(embedded, keep) /\ Vectored(embedded)
    BY <1>1, <2>1, CallFacts, ServerFacts
  <2>4. /\ insert \in Seq(ToolCall) /\ InPolicy(insert, keep)
        /\ insert # <<>> => Flow!Answered(embedded)
    BY <1>1, <2>1, CallFacts
  <2>5. Flow!Answered(embedded) => \E m \in 1..Len(embedded) :
          embedded[m].tool = "embed_text" /\ embedded[m].status # "failed"
    BY <1>1, EmbeddedFacts
  <2>6. insert = <<>> => Vectored(insert)
    BY NoCalls
  <2>7. /\ embedded \o insert \in Seq(ToolCall) /\ InPolicy(embedded \o insert, keep)
        /\ Vectored(embedded \o insert)
    BY <2>3, <2>4, <2>5, <2>6, AppendedCalls
  <2> QED BY <2>2, <2>7, AppendedCalls
<1> HIDE DEF trail
<1>5. /\ w \in Work /\ w.keep = keep /\ w.calls = trail /\ w.passed = work[id].passed
      /\ w.text = work[id].text /\ w.summary = work[id].summary /\ w.post = work[id].post
      /\ w.issues = work[id].issues
  BY <1>1, <1>4 DEF Work
<1>6. Flow!Finish(id, w)
  BY <1>3 DEF trail
<1> HIDE DEF w
<1>7. ItemInv(id, w) /\ Found(stage, w)
  BY <1>1, <1>4, <1>5 DEF ItemInv, Found, Explained
<1> QED BY <1>1, <1>5, <1>6, <1>7, AfterFacts, FinishStep

LEMMA ExtractStep ==
  ASSUME WorkflowInv, NEW id \in todo, Flow!Extract(id) PROVE WorkflowInv'
<1>1. stage = "feedback" /\ work[id] \in Work /\ ItemInv(id, work[id]) /\ Found(stage, work[id])
  BY ItemFacts DEF Flow!Extract
<1>2. PICK out \in Flow!Generate("own", Flow!Units(request)[id].phrase # "none") :
        Flow!Finish(id, [work[id] EXCEPT !.summary = out.output])
  BY DEF Flow!Extract
<1>3. out.output \in Output /\ Sound(out.output)
  BY <1>2, GenerateFacts DEF Origins
<1> DEFINE w == [work[id] EXCEPT !.summary = out.output]
<1>4. /\ w \in Work /\ w.keep = work[id].keep /\ w.calls = work[id].calls
      /\ w.passed = work[id].passed /\ w.text = work[id].text /\ w.summary = out.output
      /\ w.post = work[id].post /\ w.issues = work[id].issues
  BY <1>1, <1>3 DEF Work
<1> HIDE DEF w
<1>5. ItemInv(id, w) /\ Found(stage, w)
  BY <1>1, <1>3, <1>4 DEF ItemInv, Found, Explained
<1> QED BY <1>1, <1>2, <1>4, <1>5, AfterFacts, FinishStep DEF w

LEMMA SummarizeStep ==
  ASSUME WorkflowInv, NEW id \in todo, Flow!Summarize(id) PROVE WorkflowInv'
<1> DEFINE old == work[id]
           shape == request.items[id]
<1>1. stage = "summary" /\ old \in Work /\ ItemInv(id, old) /\ Found(stage, old)
  BY ItemFacts DEF Flow!Summarize
<1>2. CASE ~old.keep
  BY <1>1, <1>2, AfterFacts, FinishStep DEF Flow!Summarize
<1>3. CASE old.keep
  <2>1. PICK fetch \in Flow!Try("fetch_webpage", old.text = "none" /\ shape.url) :
        \E text \in IF fetch = <<>> THEN {old.text} ELSE Flow!Fetched(fetch) :
        \E out \in Flow!Generate(Flow!TextOr(text, "title"),
                            shape.phrase = "title" \/ (shape.phrase = "text" /\ text = "own")) :
          Flow!Finish(id, [old EXCEPT
            !.text = text, !.summary = out.output, !.calls = @ \o fetch,
            !.issues = out.issues \cup {i \in {"summary_fetch_failed"} :
                                         fetch # <<>> /\ ~Flow!Answered(fetch)}])
    BY <1>3 DEF Flow!Summarize
  <2>2. PICK text \in IF fetch = <<>> THEN {old.text} ELSE Flow!Fetched(fetch) :
        \E out \in Flow!Generate(Flow!TextOr(text, "title"),
                            shape.phrase = "title" \/ (shape.phrase = "text" /\ text = "own")) :
          Flow!Finish(id, [old EXCEPT
            !.text = text, !.summary = out.output, !.calls = @ \o fetch,
            !.issues = out.issues \cup {i \in {"summary_fetch_failed"} :
                                         fetch # <<>> /\ ~Flow!Answered(fetch)}])
    BY <2>1
  <2>3. text \in {"own", "none", "invented"}
    BY <1>1, <2>2 DEF Work, Flow!Fetched, Flow!Page
  <2>4. Flow!TextOr(text, "title") \in Origins /\ Flow!TextOr(text, "title") # "nothing"
    BY <2>3 DEF Flow!TextOr, Origins
  <2>5. PICK out : /\ out.output \in Output /\ out.issues \in SUBSET Notes
                   /\ Sound(out.output) /\ Noted(out.output, out.issues)
                   /\ Flow!Finish(id, [old EXCEPT
                        !.text = text, !.summary = out.output, !.calls = @ \o fetch,
                        !.issues = out.issues \cup {i \in {"summary_fetch_failed"} :
                                                     fetch # <<>> /\ ~Flow!Answered(fetch)}])
    BY <2>2, <2>4, GenerateFacts
  <2> DEFINE trail == old.calls \o fetch
             issues == out.issues \cup {i \in {"summary_fetch_failed"} :
                                          fetch # <<>> /\ ~Flow!Answered(fetch)}
             w == [old EXCEPT !.text = text, !.summary = out.output, !.calls = trail,
                              !.issues = issues]
  <2>6. Flow!Finish(id, w)
    BY <2>5
  <2>7. issues \in SUBSET Notes /\ Noted(out.output, issues)
    BY <2>5 DEF Notes, Noted
  <2>8. /\ fetch \in Seq(ToolCall) /\ InPolicy(fetch, old.keep) /\ Vectored(fetch)
        /\ \A c \in Flow!Range(fetch) : c.tool = "fetch_webpage"
    <3>1. "fetch_webpage" \in Tools /\ Flow!Allowed(stage, "fetch_webpage")
      BY <1>1, AllowedFacts DEF Tools
    <3> QED BY <1>1, <1>3, <3>1, CallFacts, ServerFacts
  <2>9. /\ trail \in Seq(ToolCall) /\ InPolicy(trail, old.keep) /\ Vectored(trail)
        /\ Flow!Range(old.calls) \subseteq Flow!Range(trail)
        /\ Flow!Range(fetch) \subseteq Flow!Range(trail)
    BY <1>1, <2>8, AppendedCalls DEF ItemInv, Work
  <2>10. text = "invented" =>
           \/ Flow!Memory \/ config.mockFetch
           \/ \E c \in Flow!Range(trail) : c.tool = "fetch_webpage" /\ c.status = "degraded"
    <3>1. CASE fetch = <<>>
      BY <1>1, <2>2, <2>9, <3>1 DEF ItemInv, Explained
    <3>2. CASE fetch # <<>>
      BY <2>2, <2>8, <2>9, <3>2 DEF Flow!Fetched, Flow!Page
    <3> QED BY <3>1, <3>2
  <2> HIDE DEF trail, issues
  <2>11. /\ w \in Work /\ w.keep = old.keep /\ w.calls = trail /\ w.passed = old.passed
         /\ w.text = text /\ w.summary = out.output /\ w.post = old.post /\ w.issues = issues
    BY <1>1, <2>3, <2>5, <2>7, <2>9 DEF Work
  <2> HIDE DEF w, old
  <2>12. ItemInv(id, w)
    BY <1>1, <2>5, <2>9, <2>10, <2>11 DEF ItemInv, Explained, Found
  <2>13. Found(stage, w)
    BY <1>1, <2>7, <2>11, NothingFacts DEF Found
  <2> QED BY <1>1, <2>6, <2>11, <2>12, <2>13, AfterFacts, FinishStep
<1> QED BY <1>2, <1>3

LEMMA RewriteStep ==
  ASSUME WorkflowInv, NEW id \in todo, Flow!Rewrite(id) PROVE WorkflowInv'
<1> DEFINE old == work[id]
<1>1. stage = "rewrite" /\ old \in Work /\ ItemInv(id, old) /\ Found(stage, old)
  BY ItemFacts DEF Flow!Rewrite
<1>2. CASE ~old.keep
  BY <1>1, <1>2, AfterFacts, FinishStep DEF Flow!Rewrite
<1>3. CASE old.keep
  <2>1. PICK out \in Flow!Generate(old.summary.of,
                              request.items[id].phrase = "title" \/ ~old.summary.safe) :
          Flow!Finish(id, [old EXCEPT !.post = out.output, !.issues = @ \cup out.issues])
    BY <1>3 DEF Flow!Rewrite
  <2>2. old.summary.of \in Origins /\ (old.summary.of = "nothing" => Flow!Mocking)
    BY <1>1 DEF Work, Output, ItemInv, Sound
  <2>3. /\ out.output \in Output /\ out.issues \in SUBSET Notes
        /\ Sound(out.output) /\ Noted(out.output, out.issues)
    BY <2>1, <2>2, GenerateFacts
  <2> DEFINE issues == old.issues \cup out.issues
             w == [old EXCEPT !.post = out.output, !.issues = issues]
  <2>4. Flow!Finish(id, w)
    BY <2>1
  <2>5. /\ issues \in SUBSET Notes /\ Noted(out.output, issues)
        /\ Noted(old.summary, issues)
    BY <1>1, <2>3 DEF Noted, Work, Found
  <2> HIDE DEF issues
  <2>6. /\ w \in Work /\ w.keep = old.keep /\ w.calls = old.calls /\ w.passed = old.passed
        /\ w.text = old.text /\ w.summary = old.summary /\ w.post = out.output
        /\ w.issues = issues
    BY <1>1, <2>3, <2>5 DEF Work
  <2> HIDE DEF w, old
  <2>7. ItemInv(id, w)
    BY <1>1, <2>3, <2>6 DEF ItemInv, Explained, Found
  <2>8. Found(stage, w)
    BY <1>1, <2>5, <2>6 DEF Found
  <2> QED BY <1>1, <2>4, <2>6, <2>7, <2>8, AfterFacts, FinishStep
<1> QED BY <1>2, <1>3

LEMMA CheckStep ==
  ASSUME WorkflowInv, NEW id \in todo, Flow!Check(id) PROVE WorkflowInv'
<1> DEFINE old == work[id]
<1>1. stage = "check" /\ old \in Work /\ ItemInv(id, old) /\ Found(stage, old)
  BY ItemFacts DEF Flow!Check
<1>2. CASE ~old.keep
  BY <1>1, <1>2, AfterFacts, FinishStep DEF Flow!Check
<1>3. CASE old.keep
  <2> DEFINE issues == old.issues \cup Flow!Missing(id)
             passed == issues = {}
             w == [old EXCEPT !.issues = issues, !.passed = passed]
  <2>1. Flow!Finish(id, w)
    BY <1>3 DEF Flow!Check
  <2>2. issues \in SUBSET Notes /\ passed \in BOOLEAN
    BY <1>1 DEF Notes, Flow!Missing, Work
  <2>3. Noted(old.summary, issues) /\ Noted(old.post, issues)
    BY <1>1 DEF Found, Noted
  <2>4. issues = {} => /\ request.items[id].url
                       /\ old.summary.by # "none" /\ old.post.by # "none"
    BY DEF Flow!Missing
  <2>5. issues = {} => /\ old.summary.by \in {"primary", "repair"}
                       /\ old.post.by \in {"primary", "repair"}
    BY <1>1, <2>3, <2>4 DEF Noted, Work, Output
  <2>6. passed => issues = {}
    OBVIOUS
  <2> HIDE DEF issues, passed
  <2>7. /\ w \in Work /\ w.keep = old.keep /\ w.calls = old.calls /\ w.passed = passed
        /\ w.text = old.text /\ w.summary = old.summary /\ w.post = old.post
        /\ w.issues = issues
    BY <1>1, <2>2 DEF Work
  <2> HIDE DEF w, old
  <2>8. ItemInv(id, w)
    BY <1>1, <1>3, <2>4, <2>5, <2>6, <2>7 DEF ItemInv, Explained
  <2>9. Found(stage, w)
    BY <1>1, <2>3, <2>7 DEF Found
  <2> QED BY <1>1, <2>1, <2>7, <2>8, <2>9, AfterFacts, FinishStep
<1> QED BY <1>2, <1>3

LEMMA WorkflowStep == WorkflowInv /\ [Flow!Next]_(Flow!vars) => WorkflowInv'
<1> SUFFICES ASSUME WorkflowInv, [Flow!Next]_(Flow!vars) PROVE WorkflowInv'
  OBVIOUS
<1>1. CASE UNCHANGED Flow!vars
  <2>1. UNCHANGED <<config, request, stage, todo, work>>
    BY <1>1 DEF Flow!vars
  <2>2. \A i, v : ItemInv(i, v)' <=> ItemInv(i, v)
    BY <2>1 DEF ItemInv, Sound, Explained, InPolicy, Vectored, Flow!Memory,
           Flow!Mocking, Flow!Provider
  <2>3. Flow!Refusal(request)' = Flow!Refusal(request)
    BY <2>1 DEF Flow!Refusal, Flow!Unauthorized, Flow!Invalid
  <2> QED BY <2>1, <2>2, <2>3 DEF WorkflowInv
<1> QED BY <1>1, ReceiveStep, FilterStep, SummarizeStep, RewriteStep, CheckStep, ExtractStep,
           RememberStep DEF Flow!Next

(* What each agent finds and leaves, for any settings and requests, and any   *)
(* number of articles.                                                        *)
THEOREM WorkflowCorrect == Flow!Spec => []WorkflowInv
<1>1. Flow!Init => WorkflowInv
  <2> SUFFICES ASSUME Flow!Init PROVE WorkflowInv
    OBVIOUS
  <2>1. DOMAIN work = {} /\ work \in [DOMAIN work -> Work]
    BY DEF Flow!Init
  <2> QED BY <2>1 DEF Flow!Init, WorkflowInv
<1>2. WorkflowInv /\ [Flow!Next]_(Flow!vars) => WorkflowInv'
  BY WorkflowStep
<1> QED BY <1>1, <1>2, PTL DEF Flow!Spec

(* The two places that say what an agent may do agree: whatever the settings  *)
(* and the policy of a request, no call of an agent is denied, none goes to a *)
(* server that is disabled, and none is made for a refused request or an      *)
(* article that was filtered out.                                             *)
THEOREM CallsAlwaysPermitted == Flow!Spec => []CallsPermitted
<1>1. WorkflowInv => CallsPermitted
  <2> SUFFICES ASSUME WorkflowInv, NEW id \in DOMAIN work, NEW n \in 1..Len(work[id].calls)
               PROVE  /\ work[id].calls[n].status # "denied"
                      /\ Flow!Server[work[id].calls[n].tool] \in request.policy
                      /\ Flow!Server[work[id].calls[n].tool] = "milvus" =>
                           \E m \in 1..n - 1 : /\ work[id].calls[m].tool = "embed_text"
                                               /\ work[id].calls[m].status # "failed"
                      /\ work[id].calls[n].agent = "summary" => work[id].keep
                      /\ Flow!Refusal(request) = {}
    BY DEF CallsPermitted, Flow!CallsPermitted
  <2>1. work[id].calls \in Seq(ToolCall) /\ ItemInv(id, work[id]) /\ Flow!Refusal(request) = {}
    BY DEF WorkflowInv, Work
  <2>2. work[id].calls[n] \in ToolCall
    BY <2>1
  <2>3. work[id].calls[n].status # "denied"
    BY <2>2 DEF ToolCall
  <2> QED BY <2>1, <2>3 DEF ItemInv, Vectored, InPolicy
<1> QED BY <1>1, WorkflowCorrect, PTL

(* No settings, no failing server and no answer of a model lets a post pass   *)
(* the check whose text cannot be traced.                                     *)
THEOREM PassedAlwaysTraceable == Flow!Spec => []PassedIsTraceable
<1>1. WorkflowInv => PassedIsTraceable
  <2> SUFFICES ASSUME WorkflowInv, NEW id \in DOMAIN work, work[id].passed PROVE Flow!Traceable(id)
    BY DEF PassedIsTraceable, Flow!PassedIsTraceable
  <2>1. ItemInv(id, work[id])
    BY DEF WorkflowInv
  <2> QED BY <2>1 DEF ItemInv, Flow!Traceable, Flow!Written, Sound, Explained
<1> QED BY <1>1, WorkflowCorrect, PTL

--------------------------------------------------------------------------------
(* The ranker (Ranking).                                                      *)
Alike(a, b) == Ranker!TopicOf(a) = Ranker!TopicOf(b) /\ a.source = b.source

(* Two articles of one topic and one source break the same rules and are      *)
(* equally scarce, so that only the score is left to choose by.               *)
LEMMA CountType ==
  ASSUME NEW n \in Int, NEW S, S \subseteq 1..n
  PROVE  Ranker!Cardinality(S) \in Nat
<1>1. IsFiniteSet(1..n)
  BY FS_Interval
<1>2. IsFiniteSet(S)
  BY <1>1, FS_Subset
<1>3. Cardinality(S) \in Nat
  BY <1>2, FS_CardinalityType
<1> QED BY <1>3 DEF Cardinality, Ranker!Cardinality

LEMMA RecentType ==
  ASSUME NEW A, NEW s \in Seq(A), NEW n \in Nat
  PROVE  \E m \in Nat : DOMAIN Ranker!Recent(s, n) = 1..m
<1> DEFINE b == Len(s) - n + 1
           low == Ranker!Max({1, b})
<1>1. Len(s) \in Nat /\ b \in Int
  BY LenProperties
<1>2. low \in {1, b} /\ low >= 1
  <2>1. \E x \in {1, b} : \A y \in {1, b} : x >= y
    BY <1>1
  <2>2. low \in {1, b} /\ \A y \in {1, b} : low >= y
    BY <2>1, Zenon DEF Ranker!Max
  <2> QED BY <2>2
<1>3. low \in 1..Len(s) + 1
  BY <1>1, <1>2
<1> HIDE DEF low, b
<1>4. SubSeq(s, low, Len(s)) \in Seq(A)
  BY <1>1, <1>3, SubSeqProperties
<1>5. Ranker!Recent(s, n) = SubSeq(s, low, Len(s))
  BY DEF Ranker!Recent, low, b
<1> QED BY <1>4, <1>5, LenProperties

LEMMA AlikeFacts ==
  ASSUME Ranker!RankingAssumption, NEW A, selected \in Seq(A), NEW a, NEW b, Alike(a, b)
  PROVE  /\ Ranker!Violations(a) = Ranker!Violations(b) /\ Ranker!Violations(a) \in Nat
         /\ Ranker!Scarcity(a) = Ranker!Scarcity(b) /\ Ranker!Scarcity(a) \in Nat
<1>1. PICK m \in Nat : DOMAIN Ranker!Window(selected) = 1..m
  BY RecentType DEF Ranker!Window, Ranker!RankingAssumption
<1>2. Ranker!InTopic(selected, a) = Ranker!InTopic(selected, b)
  BY DEF Alike, Ranker!InTopic, Ranker!Count
<1>3. Ranker!InSource(selected, a) = Ranker!InSource(selected, b)
  BY DEF Alike, Ranker!InSource, Ranker!Count
<1>4. Ranker!RunsOn(selected, a) = Ranker!RunsOn(selected, b)
  BY DEF Alike, Ranker!RunsOn
<1>5. Ranker!InTopic(selected, a) \in Nat
  BY <1>1, CountType DEF Ranker!InTopic, Ranker!Count
<1>6. Ranker!InSource(selected, a) \in Nat
  BY <1>1, CountType DEF Ranker!InSource, Ranker!Count
<1>7. Ranker!Broken(selected, a) = Ranker!Broken(selected, b)
  BY <1>2, <1>3, <1>4 DEF Ranker!Broken
<1>8. Ranker!Cardinality(Ranker!Broken(selected, a)) \in Nat
  <2>1. Ranker!Broken(selected, a) \subseteq {"consecutive", "topic", "source"}
    BY DEF Ranker!Broken
  <2>2. IsFiniteSet({"consecutive", "topic", "source"})
    <3>1. IsFiniteSet({"consecutive"}) /\ IsFiniteSet({"topic"}) /\ IsFiniteSet({"source"})
      BY FS_Singleton
    <3>2. IsFiniteSet({"consecutive"} \cup {"topic"})
      BY <3>1, FS_Union
    <3>3. IsFiniteSet(({"consecutive"} \cup {"topic"}) \cup {"source"})
      BY <3>1, <3>2, FS_Union
    <3>4. {"consecutive", "topic", "source"} = ({"consecutive"} \cup {"topic"}) \cup {"source"}
      OBVIOUS
    <3> QED BY <3>3, <3>4
  <2>3. Cardinality(Ranker!Broken(selected, a)) \in Nat
    BY <2>1, <2>2, FS_Subset, FS_CardinalityType
  <2> QED BY <2>3 DEF Cardinality, Ranker!Cardinality
<1>9. Ranker!Violations(a) = Ranker!Violations(b) /\ Ranker!Violations(a) \in Nat
  BY <1>7, <1>8 DEF Ranker!Violations
<1>10. Ranker!Scarcity(a) = Ranker!Scarcity(b) /\ Ranker!Scarcity(a) \in Nat
  BY <1>2, <1>3, <1>5, <1>6 DEF Ranker!Scarcity
<1> QED BY <1>9, <1>10

(* Whatever is selected comes before everything like it that remains.         *)
OrderInv ==
  /\ \E A : selected \in Seq(A) /\ remaining \subseteq A
  /\ \A m \in DOMAIN selected, b \in remaining :
       Alike(selected[m], b) => Ranker!Before(selected[m], b)
  /\ Ranker!OrderKept

LEMMA OrderStep ==
  ASSUME Ranker!RankingAssumption, OrderInv, [Ranker!Next]_(Ranker!vars)
  PROVE  OrderInv'
<1>1. CASE UNCHANGED Ranker!vars
  <2>1. UNCHANGED <<batch, profile, selected, remaining>>
    BY <1>1 DEF Ranker!vars
  <2>2. \A a, b : /\ Alike(a, b)' <=> Alike(a, b)
                  /\ Ranker!Before(a, b)' <=> Ranker!Before(a, b)
                  /\ Ranker!TopicOf(a)' = Ranker!TopicOf(a)
    BY <2>1 DEF Alike, Ranker!Before, Ranker!TopicOf
  <2> QED BY <2>1, <2>2 DEF OrderInv, Ranker!OrderKept
<1>2. ASSUME NEW a \in remaining, Ranker!Select(a) PROVE OrderInv'
  <2>1. /\ \A b \in remaining \ {a} : Ranker!Precedes(a, b)
        /\ selected' = Append(selected, a) /\ remaining' = remaining \ {a}
        /\ UNCHANGED <<batch, profile>>
    BY <1>2 DEF Ranker!Select
  <2>2. PICK A : selected \in Seq(A) /\ remaining \subseteq A
    BY DEF OrderInv
  <2>3. \A x, y : /\ Alike(x, y)' <=> Alike(x, y)
                  /\ Ranker!Before(x, y)' <=> Ranker!Before(x, y)
    BY <2>1 DEF Alike, Ranker!Before, Ranker!TopicOf
  <2>4. ASSUME NEW b \in remaining', Alike(a, b) PROVE Ranker!Before(a, b)
    <3>1. Ranker!Precedes(a, b)
      BY <2>1, <2>4
    <3>2. /\ Ranker!Violations(a) = Ranker!Violations(b) /\ Ranker!Violations(a) \in Nat
          /\ Ranker!Scarcity(a) = Ranker!Scarcity(b) /\ Ranker!Scarcity(a) \in Nat
      BY <2>2, <2>4, AlikeFacts
    <3>3. /\ ~(Ranker!Violations(a) < Ranker!Violations(b))
          /\ ~(Ranker!Scarcity(a) < Ranker!Scarcity(b))
      BY <3>2
    <3> QED BY <3>1, <3>3 DEF Ranker!Precedes
  <2>5. /\ selected' \in Seq(A) /\ Len(selected) \in Nat
        /\ DOMAIN selected = 1..Len(selected) /\ DOMAIN selected' = 1..Len(selected) + 1
        /\ \A n \in 1..Len(selected) : selected'[n] = selected[n]
        /\ selected'[Len(selected) + 1] = a
    BY <1>2, <2>1, <2>2, AppendProperties, LenProperties
  <2>6. ASSUME NEW m \in DOMAIN selected', NEW x, x = selected'[m],
               NEW b \in remaining', Alike(x, b)
        PROVE  Ranker!Before(x, b)
    <3>1. CASE m \in DOMAIN selected
      BY <2>1, <2>5, <2>6, <3>1 DEF OrderInv
    <3>2. CASE m = Len(selected) + 1
      BY <2>4, <2>5, <2>6, <3>2
    <3> QED BY <2>5, <3>1, <3>2
  <2>7. ASSUME NEW m \in DOMAIN selected', NEW n \in DOMAIN selected', m < n,
               NEW x, x = selected'[m], NEW y, y = selected'[n], Alike(x, y)
        PROVE  Ranker!Before(x, y)
    <3>1. m \in DOMAIN selected /\ x = selected[m]
      BY <2>5, <2>7
    <3>2. CASE n \in DOMAIN selected
      <4>1. y = selected[n]
        BY <2>5, <2>7, <3>2
      <4> QED BY <2>7, <3>1, <3>2, <4>1 DEF OrderInv, Ranker!OrderKept, Alike
    <3>3. CASE n = Len(selected) + 1
      <4>1. y = a
        BY <2>5, <2>7, <3>3
      <4> QED BY <1>2, <2>7, <3>1, <4>1 DEF OrderInv
    <3> QED BY <2>5, <3>2, <3>3
  <2>8. \A m \in DOMAIN selected', b \in remaining' :
          Alike(selected[m], b)' => Ranker!Before(selected[m], b)'
    BY <2>3, <2>6
  <2>9. Ranker!OrderKept'
    <3>1. \A m \in DOMAIN selected', n \in DOMAIN selected' : m < n =>
            (Alike(selected[m], selected[n])' => Ranker!Before(selected[m], selected[n])')
      BY <2>3, <2>7
    <3> QED BY <3>1 DEF Ranker!OrderKept, Alike
  <2>10. (\E B : selected \in Seq(B) /\ remaining \subseteq B)'
    BY <2>1, <2>2, <2>5
  <2> QED BY <2>8, <2>9, <2>10 DEF OrderInv
<1> QED BY <1>1, <1>2 DEF Ranker!Next

(* For every batch, profile and settings: diversity, which looks at a window  *)
(* of what is selected and counts broken rules, never turns around two        *)
(* articles of one topic and one source.                                      *)
THEOREM OrderAlwaysKept ==
  ASSUME Ranker!RankingAssumption PROVE Ranker!Spec => []OrderKept
<1>1. Ranker!Init => OrderInv
  <2> SUFFICES ASSUME Ranker!Init PROVE OrderInv
    OBVIOUS
  <2>1. selected = <<>>
    BY DEF Ranker!Init
  <2>2. selected \in Seq(remaining) /\ DOMAIN selected = {}
    BY <2>1, EmptySeq
  <2> QED BY <2>2 DEF OrderInv, Ranker!OrderKept
<1>2. OrderInv /\ [Ranker!Next]_(Ranker!vars) => OrderInv'
  BY OrderStep
<1>3. OrderInv => OrderKept
  BY DEF OrderInv, OrderKept
<1> QED BY <1>1, <1>2, <1>3, PTL DEF Ranker!Spec

--------------------------------------------------------------------------------
(* What feedback does to the scores of the ranker.  First, sums: all terms of *)
(* a finite set, added in an order that nothing is known of.                  *)
Pick(s) == CHOOSE x \in s : TRUE

(* f gives every subset of s what F adds up to on it, in the order in which   *)
(* SumFunction goes through it.                                               *)
IsSum(f, F, s) ==
  f = [t \in SUBSET s |-> IF t = {} THEN 0 ELSE F[Pick(t)] + f[t \ {Pick(t)}]]
SumOf(F, s) == CHOOSE f : IsSum(f, F, s)

(* Of sets that go wrong, one has no smaller one that does.                   *)
LEMMA Least ==
  ASSUME NEW s, IsFiniteSet(s), NEW odd, odd \subseteq SUBSET s, odd # {}
  PROVE  \E t \in odd : \A u \in SUBSET t : u # t => u \notin odd
<1>1. IsWellFoundedOn(StrictSubsetOrdering(s), SUBSET s)
  BY FS_FiniteSubsetsOfFinite, FS_StrictSubsetOrderingWellFounded
<1>2. PICK t \in odd : \A u \in odd : ~(<<u, t>> \in StrictSubsetOrdering(s))
  BY <1>1, WFMin
<1>3. ASSUME NEW u \in SUBSET t, u # t, u \in odd PROVE FALSE
  BY <1>2, <1>3 DEF StrictSubsetOrdering
<1> QED BY <1>3

LEMMA SumFolds ==
  ASSUME NEW F PROVE Ranker!SumFunction(F) = SumOf(F, DOMAIN F)[DOMAIN F]
BY DEF Ranker!SumFunction, Ranker!SumFunctionOnSet, Ranker!FoldFunctionOnSet,
       Ranker!MapThenFoldSet, SumOf, IsSum, Pick

LEMMA PickFacts == ASSUME NEW s, s # {} PROVE Pick(s) \in s
BY DEF Pick

Summed(f, F, s) ==
  /\ f[{}] = 0
  /\ \A t \in SUBSET s : t # {} =>
       Pick(t) \in t /\ f[t] = F[Pick(t)] + f[t \ {Pick(t)}]

LEMMA SumFacts == ASSUME NEW f, NEW F, NEW s, IsSum(f, F, s) PROVE Summed(f, F, s)
<1>1. \A t \in SUBSET s : f[t] = IF t = {} THEN 0 ELSE F[Pick(t)] + f[t \ {Pick(t)}]
  BY DEF IsSum
<1> QED BY <1>1, PickFacts DEF Summed

LEMMA SumAgrees ==
  ASSUME NEW f, NEW F, NEW s, IsSum(f, F, s), NEW g, NEW G, NEW z, IsSum(g, G, z),
         IsFiniteSet(s), s \subseteq z, \A r \in s : F[r] = G[r]
  PROVE  \A t \in SUBSET s : f[t] = g[t]
<1> DEFINE odd == {t \in SUBSET s : f[t] # g[t]}
<1> SUFFICES ASSUME odd # {} PROVE FALSE
  OBVIOUS
<1>1. PICK t \in odd : \A u \in SUBSET t : u # t => u \notin odd
  <2> HIDE DEF odd
  <2>1. odd \subseteq SUBSET s
    BY DEF odd
  <2> QED BY <2>1, Least
<1>8. Summed(f, F, s) /\ Summed(g, G, z)
  BY SumFacts
<1>2. t \in SUBSET s /\ t \in SUBSET z /\ f[t] # g[t] /\ t # {}
  BY <1>8 DEF Summed
<1>3. Pick(t) \in t /\ t \ {Pick(t)} \in SUBSET t /\ t \ {Pick(t)} # t
  BY <1>2, PickFacts
<1>4. f[t \ {Pick(t)}] = g[t \ {Pick(t)}]
  BY <1>1, <1>2, <1>3
<1>5. f[t] = F[Pick(t)] + f[t \ {Pick(t)}]
  BY <1>2, <1>8 DEF Summed
<1>6. g[t] = G[Pick(t)] + g[t \ {Pick(t)}]
  BY <1>2, <1>8 DEF Summed
<1>7. F[Pick(t)] = G[Pick(t)]
  BY <1>2, <1>3
<1> QED BY <1>2, <1>4, <1>5, <1>6, <1>7

LEMMA SumExists ==
  ASSUME NEW F, NEW s, IsFiniteSet(s)
  PROVE  IsSum(SumOf(F, s), F, s)
<1> DEFINE odd == {t \in SUBSET s : \A f : ~IsSum(f, F, t)}
<1>1. ASSUME NEW t \in odd, \A u \in SUBSET t : u # t => u \notin odd PROVE FALSE
  <2>1. \A u \in SUBSET t : u # t => IsSum(SumOf(F, u), F, u)
    <3>1. ASSUME NEW u \in SUBSET t, u # t PROVE \E f : IsSum(f, F, u)
      BY <1>1, <3>1
    <3> QED BY <3>1 DEF SumOf
  <2> DEFINE v(u) == SumOf(F, u)[u]
             f == [u \in SUBSET t |->
                     IF u = {} THEN 0 ELSE F[Pick(u)] + v(u \ {Pick(u)})]
  <2>2. ASSUME NEW u \in SUBSET t, u # t PROVE f[u] = v(u)
    <3>3. Summed(SumOf(F, u), F, u)
      BY <2>1, <2>2, SumFacts
    <3>1. CASE u = {}
      BY <3>1, <3>3 DEF Summed
    <3>2. CASE u # {}
      <4> DEFINE w == u \ {Pick(u)}
      <4>1. Pick(u) \in u /\ w \in SUBSET t /\ w # t /\ w \in SUBSET u
        BY <2>2, <3>2, PickFacts
      <4>2. v(u) = F[Pick(u)] + SumOf(F, u)[w]
        BY <3>2, <3>3 DEF Summed
      <4>3. IsSum(SumOf(F, w), F, w) /\ IsSum(SumOf(F, u), F, u)
        BY <2>1, <2>2, <4>1
      <4>4. IsFiniteSet(w)
        BY <4>1, FS_Subset
      <4>5. SumOf(F, u)[w] = v(w)
        <5> HIDE DEF w
        <5> QED BY <4>1, <4>3, <4>4, SumAgrees
      <4>6. f[u] = F[Pick(u)] + v(w)
        BY <2>2, <3>2
      <4> QED BY <4>2, <4>5, <4>6
    <3> QED BY <3>1, <3>2
  <2>3. \A u \in SUBSET t : u # {} => f[u \ {Pick(u)}] = v(u \ {Pick(u)})
    <3>1. ASSUME NEW u \in SUBSET t, u # {}
          PROVE  u \ {Pick(u)} \in SUBSET t /\ u \ {Pick(u)} # t
      BY <3>1, PickFacts
    <3> HIDE DEF f, v
    <3> QED BY <2>2, <3>1
  <2>4. f = [u \in SUBSET t |-> IF u = {} THEN 0 ELSE F[Pick(u)] + f[u \ {Pick(u)}]]
    <3>1. \A u \in SUBSET t :
            f[u] = IF u = {} THEN 0 ELSE F[Pick(u)] + v(u \ {Pick(u)})
      OBVIOUS
    <3>2. f = [u \in SUBSET t |-> f[u]]
      OBVIOUS
    <3> HIDE DEF f, v
    <3>3. \A u \in SUBSET t :
            f[u] = IF u = {} THEN 0 ELSE F[Pick(u)] + f[u \ {Pick(u)}]
      BY <2>3, <3>1
    <3> QED BY <3>2, <3>3
  <2>5. IsSum(f, F, t)
    BY <2>4 DEF IsSum
  <2> QED BY <1>1, <2>5
<1>2. odd = {}
  <2>1. odd \subseteq SUBSET s
    OBVIOUS
  <2> HIDE DEF odd
  <2> QED BY <1>1, <2>1, Least
<1>3. \E f : IsSum(f, F, s)
  BY <1>2
<1> QED BY <1>3 DEF SumOf

(* The order in which the fold goes through the set does not show.            *)
LEMMA SumAdds ==
  ASSUME NEW f, NEW F, NEW s, IsSum(f, F, s), IsFiniteSet(s), \A r \in s : F[r] \in Nat
  PROVE  \A t \in SUBSET s : /\ f[t] \in Nat
                             /\ \A r \in s \ t : f[t \cup {r}] = f[t] + F[r]
<1>4. Summed(f, F, s)
  BY SumFacts
<1>1. \A t \in SUBSET s : f[t] \in Nat
  <2> DEFINE odd == {t \in SUBSET s : f[t] \notin Nat}
  <2>1. ASSUME NEW t \in odd, \A u \in SUBSET t : u # t => u \notin odd PROVE FALSE
    <3>0. f[{}] = 0
      BY <1>4 DEF Summed
    <3>1. t \in SUBSET s /\ t # {}
      BY <3>0
    <3>2. Pick(t) \in t /\ f[t] = F[Pick(t)] + f[t \ {Pick(t)}]
      BY <1>4, <3>1 DEF Summed
    <3>3. f[t \ {Pick(t)}] \in Nat /\ F[Pick(t)] \in Nat
      BY <2>1, <3>1, <3>2
    <3> QED BY <3>2, <3>3
  <2>2. odd \subseteq SUBSET s
    OBVIOUS
  <2>3. odd = {}
    <3> HIDE DEF odd
    <3> QED BY <2>1, <2>2, Least
  <2> QED BY <2>3
<1> DEFINE odd == {t \in SUBSET s : \E r \in s \ t : f[t \cup {r}] # f[t] + F[r]}
<1>2. ASSUME NEW t \in odd, \A u \in SUBSET t : u # t => u \notin odd PROVE FALSE
  <2>1. PICK r \in s \ t : f[t \cup {r}] # f[t] + F[r]
    OBVIOUS
  <2>2. t \in SUBSET s
    OBVIOUS
  <2> HIDE DEF odd
  <2> DEFINE x == Pick(t \cup {r})
             u == t \ {x}
  <2>3. x \in t \cup {r} /\ f[t \cup {r}] = F[x] + f[(t \cup {r}) \ {x}]
    <3>1. t \cup {r} \in SUBSET s /\ t \cup {r} # {}
      BY <2>1, <2>2
    <3> QED BY <1>4, <3>1 DEF Summed
  <2> HIDE DEF x
  <2>4. CASE x = r
    <3>1. (t \cup {r}) \ {x} = t
      BY <2>1, <2>4
    <3>2. f[t] \in Nat /\ F[r] \in Nat
      BY <1>1, <2>1, <2>2
    <3>3. f[t \cup {r}] = F[r] + f[t]
      BY <2>3, <2>4, <3>1
    <3> HIDE DEF u
    <3> QED BY <2>1, <3>2, <3>3
  <2>5. CASE x # r
    <3>1. x \in t /\ u \in SUBSET t /\ u # t /\ (t \cup {r}) \ {x} = u \cup {r} /\ u \cup {x} = t
      BY <2>1, <2>3, <2>5
    <3>2. u \in SUBSET s /\ r \in s \ u /\ x \in s \ u /\ u \notin odd
      BY <1>2, <2>1, <2>2, <3>1
    <3> HIDE DEF u
    <3>3. f[u \cup {r}] = f[u] + F[r] /\ f[u \cup {x}] = f[u] + F[x]
      BY <3>2 DEF odd
    <3>4. f[u] \in Nat /\ F[x] \in Nat /\ F[r] \in Nat
      BY <1>1, <3>2
    <3>5. f[t] = f[u] + F[x]
      BY <3>1, <3>3
    <3>6. f[t \cup {r}] = F[x] + (f[u] + F[r])
      BY <2>3, <3>1, <3>3
    <3> HIDE DEF odd
    <3> QED BY <2>1, <3>4, <3>5, <3>6
  <2> QED BY <2>4, <2>5
<1>3. odd = {}
  <2>1. odd \subseteq SUBSET s
    OBVIOUS
  <2> HIDE DEF odd
  <2> QED BY <1>2, <2>1, Least
<1> QED BY <1>1, <1>3

(* Larger terms do not add up to less.                                        *)
LEMMA SumGrows ==
  ASSUME NEW s, IsFiniteSet(s), NEW F \in [s -> Nat], NEW G \in [s -> Nat],
         \A x \in s : F[x] =< G[x]
  PROVE  /\ Ranker!SumFunction(F) \in Nat /\ Ranker!SumFunction(G) \in Nat
         /\ Ranker!SumFunction(F) =< Ranker!SumFunction(G)
<1> DEFINE f == SumOf(F, s)
           g == SumOf(G, s)
<1>1. Ranker!SumFunction(F) = f[s] /\ Ranker!SumFunction(G) = g[s]
  BY SumFolds
<1>2. IsSum(f, F, s) /\ IsSum(g, G, s)
  BY SumExists
<1> HIDE DEF f, g
<1>3. Summed(f, F, s) /\ Summed(g, G, s)
  BY <1>2, SumFacts
<1>4. \A t \in SUBSET s : f[t] \in Nat /\ g[t] \in Nat
  <2>1. \A x \in s : F[x] \in Nat /\ G[x] \in Nat
    OBVIOUS
  <2> QED BY <1>2, <2>1, SumAdds
<1> DEFINE odd == {t \in SUBSET s : ~(f[t] =< g[t])}
<1>5. ASSUME NEW t \in odd, \A u \in SUBSET t : u # t => u \notin odd PROVE FALSE
  <2>1. f[{}] = 0 /\ g[{}] = 0
    BY <1>3 DEF Summed
  <2>2. t \in SUBSET s /\ t # {} /\ ~(f[t] =< g[t])
    BY <2>1
  <2> DEFINE x == Pick(t)
             u == t \ {x}
  <2>3. x \in t /\ f[t] = F[x] + f[u] /\ g[t] = G[x] + g[u]
    BY <1>3, <2>2 DEF Summed
  <2> HIDE DEF x
  <2>4. u \in SUBSET t /\ u # t /\ u \in SUBSET s /\ x \in s
    BY <2>2, <2>3
  <2> HIDE DEF u
  <2>5. f[u] =< g[u]
    BY <1>5, <2>4
  <2>6. F[x] \in Nat /\ G[x] \in Nat /\ F[x] =< G[x] /\ f[u] \in Nat /\ g[u] \in Nat
    BY <1>4, <2>4
  <2> QED BY <2>2, <2>3, <2>5, <2>6
<1>6. odd = {}
  <2>1. odd \subseteq SUBSET s
    OBVIOUS
  <2> HIDE DEF odd
  <2> QED BY <1>5, <2>1, Least
<1> QED BY <1>1, <1>4, <1>6

(* The seven dimensions, added up one by one.                                 *)
Dims == {"keyword", "topic", "milvus", "neo4j", "source", "freshness", "content"}

LEMMA SumOfSeven ==
  ASSUME NEW F \in [Dims -> Nat]
  PROVE  Ranker!SumFunction(F) = F["keyword"] + F["topic"] + F["milvus"] + F["neo4j"]
                                 + F["source"] + F["freshness"] + F["content"]
<1> DEFINE f == SumOf(F, Dims)
           s1 == {"keyword"}
           s2 == s1 \cup {"topic"}
           s3 == s2 \cup {"milvus"}
           s4 == s3 \cup {"neo4j"}
           s5 == s4 \cup {"source"}
           s6 == s5 \cup {"freshness"}
           s7 == s6 \cup {"content"}
<1>1. s7 = Dims
  BY DEF Dims
<1>2. IsFiniteSet(s7)
  <2>1. IsFiniteSet(s1) /\ \A s, x : IsFiniteSet(s) => IsFiniteSet(s \cup {x})
    BY FS_Singleton, FS_AddElement
  <2> QED BY <2>1
<1>3. Ranker!SumFunction(F) = f[Dims]
  BY SumFolds
<1>10. IsFiniteSet(Dims)
  BY <1>1, <1>2
<1>4. IsSum(f, F, Dims)
  BY <1>10, SumExists
<1> HIDE DEF f
<1>5. \A r \in Dims : F[r] \in Nat
  OBVIOUS
<1>6. \A t \in SUBSET Dims : /\ f[t] \in Nat
                             /\ \A r \in Dims \ t : f[t \cup {r}] = f[t] + F[r]
  <2> HIDE DEF s1, s2, s3, s4, s5, s6, s7
  <2>1. \A t \in SUBSET Dims : f[t] \in Nat
    BY <1>4, <1>5, <1>10, SumAdds
  <2>2. ASSUME NEW t \in SUBSET Dims, NEW r \in Dims \ t PROVE f[t \cup {r}] = f[t] + F[r]
    BY <1>4, <1>5, <1>10, SumAdds
  <2> QED BY <2>1, <2>2
<1>7. f[{}] = 0
  BY <1>4, SumFacts DEF Summed
<1>8. /\ f[s1] = 0 + F["keyword"] /\ f[s2] = f[s1] + F["topic"]
      /\ f[s3] = f[s2] + F["milvus"] /\ f[s4] = f[s3] + F["neo4j"]
      /\ f[s5] = f[s4] + F["source"] /\ f[s6] = f[s5] + F["freshness"]
      /\ f[s7] = f[s6] + F["content"]
  <2>1. f[{} \cup {"keyword"}] = f[{}] + F["keyword"]
    BY <1>6 DEF Dims
  <2>2. {} \cup {"keyword"} = s1
    OBVIOUS
  <2>3. f[s2] = f[s1] + F["topic"]
    BY <1>6 DEF Dims
  <2>4. f[s3] = f[s2] + F["milvus"]
    BY <1>6 DEF Dims
  <2>5. f[s4] = f[s3] + F["neo4j"]
    BY <1>6 DEF Dims
  <2>6. f[s5] = f[s4] + F["source"]
    BY <1>6 DEF Dims
  <2>7. f[s6] = f[s5] + F["freshness"]
    BY <1>6 DEF Dims
  <2>8. f[s7] = f[s6] + F["content"]
    BY <1>6 DEF Dims
  <2> QED BY <1>7, <2>1, <2>2, <2>3, <2>4, <2>5, <2>6, <2>7, <2>8
<1>9. /\ F["keyword"] \in Nat /\ F["topic"] \in Nat /\ F["milvus"] \in Nat
      /\ F["neo4j"] \in Nat /\ F["source"] \in Nat /\ F["freshness"] \in Nat
      /\ F["content"] \in Nat
  BY <1>5 DEF Dims
<1> HIDE DEF s1, s2, s3, s4, s5, s6, s7
<1> QED BY <1>1, <1>3, <1>8, <1>9

LEMMA SumAtLeast ==
  ASSUME NEW s, IsFiniteSet(s), NEW F \in [s -> Nat], NEW x \in s
  PROVE  Ranker!SumFunction(F) >= F[x]
<1> DEFINE f == SumOf(F, s)
           t == s \ {x}
<1>1. Ranker!SumFunction(F) = f[s]
  BY SumFolds
<1>2. IsSum(f, F, s)
  BY SumExists
<1> HIDE DEF f
<1>3. t \in SUBSET s /\ x \in s \ t /\ t \cup {x} = s
  OBVIOUS
<1> HIDE DEF t
<1>4. \A r \in s : F[r] \in Nat
  OBVIOUS
<1>5. f[t] \in Nat /\ f[t \cup {x}] = f[t] + F[x]
  BY <1>2, <1>3, <1>4, SumAdds
<1>6. f[s] = f[t] + F[x]
  BY <1>3, <1>5, Zenon
<1> QED BY <1>1, <1>4, <1>5, <1>6

LEMMA SumZero ==
  ASSUME NEW s, IsFiniteSet(s), NEW F \in [s -> {0}]
  PROVE  Ranker!SumFunction(F) = 0
<1> DEFINE f == SumOf(F, s)
<1>1. Ranker!SumFunction(F) = f[s]
  BY SumFolds
<1>2. IsSum(f, F, s)
  BY SumExists
<1> HIDE DEF f
<1>3. Summed(f, F, s)
  BY <1>2, SumFacts
<1> DEFINE odd == {t \in SUBSET s : f[t] # 0}
<1>4. ASSUME NEW t \in odd, \A u \in SUBSET t : u # t => u \notin odd PROVE FALSE
  <2>1. f[{}] = 0
    BY <1>3 DEF Summed
  <2>2. t \in SUBSET s /\ t # {} /\ f[t] # 0
    BY <2>1
  <2> DEFINE x == Pick(t)
             u == t \ {x}
  <2>3. x \in t /\ f[t] = F[x] + f[u]
    BY <1>3, <2>2 DEF Summed
  <2> HIDE DEF x
  <2>4. u \in SUBSET t /\ u # t /\ u \in SUBSET s /\ x \in s
    BY <2>2, <2>3
  <2> HIDE DEF u
  <2>5. f[u] = 0
    BY <1>4, <2>4
  <2> QED BY <2>2, <2>3, <2>4, <2>5
<1>5. odd = {}
  <2>1. odd \subseteq SUBSET s
    OBVIOUS
  <2> HIDE DEF odd
  <2> QED BY <1>4, <2>1, Least
<1> QED BY <1>1, <1>5

(* Bounds and rounding.                                                       *)
LEMMA PairFacts ==
  ASSUME NEW m \in Int, NEW n \in Int
  PROVE  /\ Ranker!Max({m, n}) = IF m >= n THEN m ELSE n
         /\ Ranker!Min({m, n}) = IF m =< n THEN m ELSE n
<1>1. \E x \in {m, n} : \A y \in {m, n} : x >= y
  OBVIOUS
<1>2. \E x \in {m, n} : \A y \in {m, n} : x =< y
  OBVIOUS
<1>3. Ranker!Max({m, n}) \in {m, n} /\ \A y \in {m, n} : Ranker!Max({m, n}) >= y
  BY <1>1, Zenon DEF Ranker!Max
<1>4. Ranker!Min({m, n}) \in {m, n} /\ \A y \in {m, n} : Ranker!Min({m, n}) =< y
  BY <1>2, Zenon DEF Ranker!Min
<1> QED BY <1>3, <1>4

LEMMA CappedFacts ==
  ASSUME NEW n \in Int
  PROVE  Ranker!Capped(n) = IF n =< 0 THEN 0 ELSE IF n >= 100 THEN 100 ELSE n
<1> DEFINE low == Ranker!Max({0, n})
<1>1. low = IF 0 >= n THEN 0 ELSE n
  BY PairFacts
<1> HIDE DEF low
<1>2. Ranker!Min({100, low}) = IF 100 =< low THEN 100 ELSE low
  BY <1>1, PairFacts
<1> QED BY <1>1, <1>2 DEF Ranker!Capped, low

LEMMA DivFacts ==
  ASSUME NEW n \in Nat, NEW d \in Nat \ {0}
  PROVE  n \div d \in Nat /\ d * (n \div d) =< n /\ n < d * (n \div d) + d
<1> DEFINE q == n \div d
<1>1. q \in Int /\ d * q =< n /\ n < d * (q + 1)
  OBVIOUS
<1> HIDE DEF q
<1>2. d * (q + 1) = d * q + d /\ q >= 0
  BY <1>1
<1> QED BY <1>1, <1>2 DEF q

LEMMA DivGrows ==
  ASSUME NEW n \in Nat, NEW m \in Nat, n =< m, NEW d \in Nat \ {0}
  PROVE  n \div d =< m \div d
<1> DEFINE q == n \div d
           r == m \div d
<1>1. q \in Nat /\ r \in Nat /\ d * q =< n /\ m < d * r + d
  BY DivFacts
<1> HIDE DEF q, r
<1>2. d * q < d * (r + 1)
  BY <1>1
<1>3. q < r + 1
  BY <1>1, <1>2
<1> QED BY <1>1, <1>3 DEF q, r

LEMMA DivFalls ==
  ASSUME NEW n \in Nat, NEW d \in Nat \ {0}, NEW e \in Nat
  PROVE  n \div (d + e) =< n \div d
<1> DEFINE q == n \div (d + e)
           r == n \div d
<1>1. q \in Nat /\ r \in Nat /\ (d + e) * q =< n /\ n < d * r + d
  BY DivFacts
<1> HIDE DEF q, r
<1>2. (d + e) * q = d * q + e * q /\ e * q >= 0
  BY <1>1
<1>3. d * q < d * (r + 1)
  BY <1>1, <1>2
<1>4. q < r + 1
  BY <1>1, <1>3
<1> QED BY <1>1, <1>4 DEF q, r

(* Who was not behind after rounding is not behind once both divisors are     *)
(* larger and it alone has got more than the rounding hid.                    *)
LEMMA DivOvertakes ==
  ASSUME NEW n \in Nat, NEW m \in Nat, NEW d \in Nat \ {0}, NEW e \in Nat, NEW k \in Nat,
         d =< k, n \div d >= m \div d
  PROVE  (n + k) \div (d + e) >= m \div (d + e)
<1> DEFINE q == n \div d
           r == m \div d
<1>1. q \in Nat /\ r \in Nat /\ q >= r /\ d * q =< n /\ m < d * r + d
  BY DivFacts
<1> HIDE DEF q, r
<1>2. d * r =< d * q
  BY <1>1
<1>3. m =< n + k
  BY <1>1, <1>2
<1> QED BY <1>3, DivGrows

--------------------------------------------------------------------------------
LEMMA WordsFinite == ASSUME NEW a, Ranker!Article(a) PROVE IsFiniteSet(Ranker!Words(a))
BY DEF Ranker!Article, IsFiniteSet, Ranker!IsFiniteSet

(* Every dimension that there is goes from 0 to 100.                          *)
LEMMA KeywordType ==
  ASSUME NEW a, NEW p, Ranker!Profile(p) PROVE Ranker!Keyword(a, p) \in 0..100
<1> DEFINE F == [w \in p.keywords |-> IF w \in a.title THEN 50 ELSE IF w \in a.tags THEN 25
                                      ELSE IF w \in a.text THEN 15 ELSE 0]
<1>1. IsFiniteSet(p.keywords)
  BY DEF Ranker!Profile, IsFiniteSet, Ranker!IsFiniteSet
<1>2. F \in [p.keywords -> Nat] /\ \A w \in p.keywords : F[w] =< F[w]
  OBVIOUS
<1>3. Ranker!Keyword(a, p) = Ranker!Capped(Ranker!SumFunction(F))
  BY DEF Ranker!Keyword
<1> HIDE DEF F
<1>4. Ranker!SumFunction(F) \in Nat
  BY <1>1, <1>2, SumGrows
<1> QED BY <1>3, <1>4, CappedFacts

(* What the profile's topics give an article, word by word.                   *)
Hits(p, s) ==
  [w \in s |-> IF w \in DOMAIN p.topics
                 THEN 10 * Ranker!Min({10, Ranker!Max({0, p.topics[w]})}) ELSE 0]

LEMMA HitType ==
  ASSUME NEW p, Ranker!Profile(p), NEW w
  PROVE  /\ w \in DOMAIN p.topics =>
              10 * Ranker!Min({10, Ranker!Max({0, p.topics[w]})})
                = IF p.topics[w] =< 0 THEN 0 ELSE IF p.topics[w] >= 10 THEN 100
                  ELSE 10 * p.topics[w]
         /\ w \in DOMAIN p.topics => p.topics[w] \in Int
<1> SUFFICES ASSUME w \in DOMAIN p.topics
             PROVE  /\ 10 * Ranker!Min({10, Ranker!Max({0, p.topics[w]})})
                          = IF p.topics[w] =< 0 THEN 0 ELSE IF p.topics[w] >= 10 THEN 100
                            ELSE 10 * p.topics[w]
                    /\ p.topics[w] \in Int
  OBVIOUS
<1> DEFINE n == p.topics[w]
           low == Ranker!Max({0, n})
<1>1. n \in Int
  BY DEF Ranker!Profile
<1> HIDE DEF n
<1>2. low = IF 0 >= n THEN 0 ELSE n
  BY <1>1, PairFacts
<1> HIDE DEF low
<1>5. low \in Int /\ 10 \in Int
  BY <1>1, <1>2
<1>3. Ranker!Min({10, low}) = IF 10 =< low THEN 10 ELSE low
  BY <1>5, PairFacts
<1>4. 10 * Ranker!Min({10, low}) = IF n =< 0 THEN 0 ELSE IF n >= 10 THEN 100 ELSE 10 * n
  BY <1>1, <1>2, <1>3
<1> QED BY <1>1, <1>4 DEF low, n

Hit(n) == 10 * Ranker!Min({10, Ranker!Max({0, n})})

LEMMA HitsOf ==
  ASSUME NEW p, NEW s, NEW w \in s
  PROVE  Hits(p, s)[w] = IF w \in DOMAIN p.topics THEN Hit(p.topics[w]) ELSE 0
BY DEF Hits, Hit

LEMMA HitsType ==
  ASSUME NEW p, Ranker!Profile(p), NEW s PROVE Hits(p, s) \in [s -> Nat]
<1>1. ASSUME NEW w \in s PROVE Hits(p, s)[w] \in Nat
  <2>1. CASE w \in DOMAIN p.topics
    <3>1. Hits(p, s)[w] = 10 * Ranker!Min({10, Ranker!Max({0, p.topics[w]})})
      BY <2>1 DEF Hits
    <3> QED BY <2>1, <3>1, HitType
  <2>2. CASE w \notin DOMAIN p.topics
    BY <2>2 DEF Hits
  <2> QED BY <2>1, <2>2
<1>2. Hits(p, s) = [w \in s |-> Hits(p, s)[w]]
  BY DEF Hits
<1> QED BY <1>1, <1>2

LEMMA TopicFacts ==
  ASSUME NEW a, Ranker!Article(a), NEW p, Ranker!Profile(p), DOMAIN p.topics # {},
         NEW n, n = Ranker!SumFunction(Hits(p, Ranker!Words(a)))
  PROVE  n \in Nat /\ Ranker!Topic(a, p) = IF n >= 100 THEN 100 ELSE n
<1> DEFINE F == Hits(p, Ranker!Words(a))
<1>1. Ranker!Topic(a, p) = Ranker!Capped(Ranker!SumFunction(F))
  BY DEF Ranker!Topic, Hits
<1>2. F \in [Ranker!Words(a) -> Nat]
  BY HitsType
<1> HIDE DEF F
<1>3. \A w \in Ranker!Words(a) : F[w] =< F[w]
  BY <1>2
<1>4. n \in Nat
  BY <1>2, <1>3, WordsFinite, SumGrows DEF F
<1> QED BY <1>1, <1>4, CappedFacts DEF F

LEMMA Neo4jType ==
  ASSUME NEW a, Ranker!Article(a), a.graph # None PROVE Ranker!Neo4j(a) \in 0..100
<1> DEFINE F == [w \in Ranker!Words(a) |-> IF w \in a.graph THEN 70 ELSE 0]
<1>1. Ranker!Neo4j(a) = Ranker!Capped(Ranker!SumFunction(F))
  BY DEF Ranker!Neo4j
<1>2. F \in [Ranker!Words(a) -> Nat]
  OBVIOUS
<1> HIDE DEF F
<1>3. \A w \in Ranker!Words(a) : F[w] =< F[w]
  BY <1>2
<1>4. Ranker!SumFunction(F) \in Nat
  BY <1>2, <1>3, WordsFinite, SumGrows
<1> QED BY <1>1, <1>4, CappedFacts

LEMMA FreshnessType ==
  ASSUME None \notin Int, NEW a, Ranker!Article(a) PROVE Ranker!Freshness(a) \in 0..100
<1>1. CASE a.age = None \/ a.age > 6
  BY <1>1 DEF Ranker!Freshness, Ranker!Article
<1>2. CASE a.age \in 0..6
  <2>1. \A n \in 1..7 : <<100, 50, 25, 12, 6, 3, 1>>[n] \in 0..100
    OBVIOUS
  <2>2. a.age + 1 \in 1..7 /\ a.age # None
    BY <1>2
  <2>3. Ranker!Freshness(a) = <<100, 50, 25, 12, 6, 3, 1>>[a.age + 1]
    BY <1>2, <2>2 DEF Ranker!Freshness
  <2> QED BY <2>1, <2>2, <2>3
<1> QED BY <1>1, <1>2 DEF Ranker!Article

LEMMA ContentType == ASSUME NEW a PROVE Ranker!Content(a) \in 0..100
<1> DEFINE size == CASE a.length = "long" -> 40 [] a.length = "enough" -> 25
                     [] a.length = "short" -> 20 [] OTHER -> 0
           n == (IF a.title # {} THEN 25 ELSE 0) + (IF a.url # None THEN 15 ELSE 0)
                  + size + (IF a.tags # {} THEN 10 ELSE 0) - (IF a.fetched THEN 0 ELSE 30)
<1>1. size \in Int
  OBVIOUS
<1>2. Ranker!Content(a) = Ranker!Capped(n)
  BY DEF Ranker!Content
<1> HIDE DEF size
<1>3. n \in Int
  BY <1>1
<1> HIDE DEF n
<1> QED BY <1>2, <1>3, CappedFacts

(* The penalties.                                                             *)
LEMMA DuplicateFacts ==
  ASSUME NEW a, NEW p
  PROVE  /\ Ranker!Duplicate(a, p) \in 0..100
         /\ a.url \in p.seen => Ranker!Duplicate(a, p) = 100
<1> DEFINE s == {0} \cup {100 : u \in {a.url} \cap p.seen} \cup {70 : t \in {a.title} \cap p.titles}
                \cup {80 : m \in {a.match} \cap 92..100}
<1>1. s \subseteq {0, 70, 80, 100} /\ 0 \in s /\ (a.url \in p.seen => 100 \in s)
  OBVIOUS
<1>2. Ranker!Duplicate(a, p) = Ranker!Max(s)
  BY DEF Ranker!Duplicate
<1> HIDE DEF s
<1>3. \E x \in s : \A y \in s : x >= y
  <2>1. CASE 100 \in s
    BY <1>1, <2>1
  <2>2. CASE 100 \notin s /\ 80 \in s
    BY <1>1, <2>2
  <2>3. CASE 100 \notin s /\ 80 \notin s /\ 70 \in s
    BY <1>1, <2>3
  <2>4. CASE 100 \notin s /\ 80 \notin s /\ 70 \notin s
    BY <1>1, <2>4
  <2> QED BY <2>1, <2>2, <2>3, <2>4
<1>4. Ranker!Max(s) \in s /\ \A y \in s : Ranker!Max(s) >= y
  BY <1>3, Zenon DEF Ranker!Max
<1> DEFINE n == Ranker!Max(s)
<1>5. n \in {0, 70, 80, 100} /\ (100 \in s => n >= 100)
  BY <1>1, <1>4
<1> HIDE DEF n
<1>6. n \in 0..100 /\ (100 \in s => n = 100)
  BY <1>5
<1> QED BY <1>1, <1>2, <1>6 DEF n

Dislikes(a, p) ==
  [w \in Ranker!Words(a) \cup {a.source} |-> IF w \in p.dislikes THEN 1 ELSE 0]

LEMMA NegativeFacts ==
  ASSUME NEW a, Ranker!Article(a), NEW p, NEW n, n = Ranker!SumFunction(Dislikes(a, p))
  PROVE  n \in Nat /\ Ranker!Negative(a, p) = IF n >= 3 THEN 60 ELSE 20 * n
<1> DEFINE F == Dislikes(a, p)
           s == Ranker!Words(a) \cup {a.source}
<1>1. Ranker!Negative(a, p) = Ranker!Min({60, 20 * n})
  BY DEF Ranker!Negative, Dislikes
<1>2. F \in [s -> Nat] /\ \A w \in s : F[w] =< F[w]
  BY DEF Dislikes
<1>3. IsFiniteSet(s)
  BY WordsFinite, FS_AddElement
<1> HIDE DEF s
<1>4. n \in Nat
  <2> HIDE DEF F
  <2>1. Ranker!SumFunction(F) \in Nat
    BY <1>2, <1>3, SumGrows
  <2> QED BY <2>1 DEF F
<1> DEFINE m == 20 * n
<1>5. m \in Int /\ 60 \in Int
  BY <1>4
<1> HIDE DEF m
<1>6. Ranker!Min({60, m}) = IF 60 =< m THEN 60 ELSE m
  BY <1>5, PairFacts
<1> QED BY <1>1, <1>4, <1>6 DEF m

(* What a dimension counts for: nothing when it is not available.             *)
There(a, p, d) == d \in Ranker!Available(a, p)
Worth(a, p, d) == IF There(a, p, d) THEN Ranker!Values(a, p)[d] ELSE 0

LEMMA ThereFacts ==
  ASSUME None \notin Int, NEW a, Ranker!Article(a), NEW p, Ranker!Profile(p)
  PROVE  /\ \A d \in Dims : Worth(a, p, d) \in 0..100
         /\ \A d \in {"keyword", "source", "freshness", "content"} : There(a, p, d)
         /\ There(a, p, "topic") <=> DOMAIN p.topics # {}
<1> DEFINE v == Ranker!Values(a, p)
<1>1. DOMAIN Ranker!Weights = Dims
  BY DEF Ranker!Weights, Dims
<1>2. /\ v["keyword"] = Ranker!Keyword(a, p) /\ v["topic"] = Ranker!Topic(a, p)
      /\ v["milvus"] = Ranker!Milvus(a) /\ v["neo4j"] = Ranker!Neo4j(a)
      /\ v["source"] = a.quality /\ v["freshness"] = Ranker!Freshness(a)
      /\ v["content"] = Ranker!Content(a)
  BY DEF Ranker!Values
<1> HIDE DEF v
<1>3. \A d \in Dims : There(a, p, d) <=> v[d] # None
  BY <1>1 DEF There, Ranker!Available, v
<1>4. /\ v["keyword"] \in 0..100 /\ v["source"] \in 0..100 /\ v["freshness"] \in 0..100
      /\ v["content"] \in 0..100
  BY <1>2, KeywordType, FreshnessType, ContentType DEF Ranker!Article
<1>5. /\ DOMAIN p.topics # {} => v["topic"] \in 0..100
      /\ DOMAIN p.topics = {} => v["topic"] = None
  <2>1. CASE DOMAIN p.topics # {}
    BY <1>2, <2>1, TopicFacts
  <2>2. CASE DOMAIN p.topics = {}
    BY <1>2, <2>2 DEF Ranker!Topic
  <2> QED BY <2>1, <2>2
<1>6. v["milvus"] \in 0..100 \cup {None}
  <2>1. CASE a.match = None
    BY <1>2, <2>1 DEF Ranker!Milvus
  <2>2. CASE a.match # None
    <3>1. a.match \in Int
      BY <2>2 DEF Ranker!Article
    <3>2. v["milvus"] = Ranker!Capped(a.match)
      BY <1>2, <2>2 DEF Ranker!Milvus
    <3> QED BY <3>1, <3>2, CappedFacts
  <2> QED BY <2>1, <2>2
<1>7. v["neo4j"] \in 0..100 \cup {None}
  <2>1. CASE a.graph = None
    BY <1>2, <2>1 DEF Ranker!Neo4j
  <2>2. CASE a.graph # None
    BY <1>2, <2>2, Neo4jType
  <2> QED BY <2>1, <2>2
<1>8. \A d \in Dims : v[d] \in 0..100 \cup {None}
  BY <1>4, <1>5, <1>6, <1>7 DEF Dims
<1>9. \A d \in Dims : Worth(a, p, d) \in 0..100
  <2>1. ASSUME NEW d \in Dims PROVE Worth(a, p, d) \in 0..100
    <3>1. CASE There(a, p, d)
      BY <1>3, <1>8, <2>1, <3>1 DEF Worth, v
    <3>2. CASE ~There(a, p, d)
      BY <3>2 DEF Worth
    <3> QED BY <3>1, <3>2
  <2> QED BY <2>1
<1>10. {"keyword", "source", "freshness", "content", "topic"} \subseteq Dims
  BY DEF Dims
<1>11. \A d \in {"keyword", "source", "freshness", "content"} : There(a, p, d)
  <2>1. ASSUME NEW d \in {"keyword", "source", "freshness", "content"} PROVE There(a, p, d)
    <3>1. v[d] \in Int /\ d \in Dims
      BY <1>4, <1>10
    <3> QED BY <1>3, <3>1
  <2> QED BY <2>1
<1>12. There(a, p, "topic") <=> DOMAIN p.topics # {}
  <2>1. v["topic"] = None <=> DOMAIN p.topics = {}
    BY <1>5
  <2>2. There(a, p, "topic") <=> v["topic"] # None
    BY <1>3, <1>10
  <2> QED BY <2>1, <2>2
<1> QED BY <1>9, <1>11, <1>12

Rest(a, p) ==
  36 + (IF There(a, p, "milvus") THEN 10 ELSE 0) + (IF There(a, p, "neo4j") THEN 9 ELSE 0)
Others(a, p) ==
  10 * Worth(a, p, "keyword") + 10 * Worth(a, p, "milvus") + 9 * Worth(a, p, "neo4j")
    + 8 * Worth(a, p, "source") + 7 * Worth(a, p, "freshness") + 11 * Worth(a, p, "content")

LEMMA TotalFacts ==
  ASSUME None \notin Int, NEW a, Ranker!Article(a), NEW p, Ranker!Profile(p)
  PROVE  /\ Others(a, p) \in Nat /\ Rest(a, p) \in 36..55
         /\ Worth(a, p, "topic") \in 0..100
         /\ Ranker!Total(a, p) = Others(a, p) + 12 * Worth(a, p, "topic")
         /\ Ranker!Divisor(a, p) = Rest(a, p) + IF There(a, p, "topic") THEN 12 ELSE 0
         /\ Ranker!Total(a, p) =< 100 * Ranker!Divisor(a, p)
<1> DEFINE w == Ranker!Weights
           F == [d \in Dims |-> IF There(a, p, d) THEN Ranker!Values(a, p)[d] * w[d] ELSE 0]
           G == [d \in Dims |-> IF There(a, p, d) THEN w[d] ELSE 0]
<1>1. DOMAIN w = Dims
  BY DEF Ranker!Weights, Dims
<1>2. Ranker!Total(a, p) = Ranker!SumFunction(F)
  BY <1>1 DEF Ranker!Total, There
<1>3. Ranker!Divisor(a, p) = Ranker!SumFunction(G)
  BY <1>1 DEF Ranker!Divisor, There
<1>4. /\ w["keyword"] = 10 /\ w["topic"] = 12 /\ w["milvus"] = 10 /\ w["neo4j"] = 9
      /\ w["source"] = 8 /\ w["freshness"] = 7 /\ w["content"] = 11
  BY DEF Ranker!Weights
<1>5. \A d \in Dims : w[d] \in Nat
  <2> HIDE DEF w
  <2> QED BY <1>4 DEF Dims
<1> HIDE DEF w
<1>6. \A d \in Dims : Worth(a, p, d) \in 0..100
  BY ThereFacts
<1>7. \A d \in Dims : F[d] = Worth(a, p, d) * w[d]
  <2>1. ASSUME NEW d \in Dims PROVE F[d] = Worth(a, p, d) * w[d]
    <3>1. CASE There(a, p, d)
      BY <3>1 DEF Worth
    <3>2. CASE ~There(a, p, d)
      <4>1. F[d] = 0 /\ Worth(a, p, d) = 0 /\ w[d] \in Nat
        BY <1>5, <3>2 DEF Worth
      <4> QED BY <4>1
    <3> QED BY <3>1, <3>2
  <2> QED BY <2>1
<1>8. \A d \in Dims : G[d] = IF There(a, p, d) THEN w[d] ELSE 0
  OBVIOUS
<1>9. F = [d \in Dims |-> F[d]] /\ G = [d \in Dims |-> G[d]]
  OBVIOUS
<1> HIDE DEF F, G
<1>10. F \in [Dims -> Nat] /\ G \in [Dims -> Nat]
  <2>1. ASSUME NEW d \in Dims PROVE F[d] \in Nat /\ G[d] \in Nat
    <3> DEFINE m == Worth(a, p, d)
               n == w[d]
    <3>1. m \in Nat /\ n \in Nat /\ F[d] = m * n /\ G[d] \in {0, n}
      BY <1>5, <1>6, <1>7, <1>8
    <3> HIDE DEF m, n
    <3> QED BY <3>1
  <2> QED BY <1>9, <2>1
<1>11. Ranker!SumFunction(F) = F["keyword"] + F["topic"] + F["milvus"] + F["neo4j"]
                               + F["source"] + F["freshness"] + F["content"]
  BY <1>10, SumOfSeven
<1>12. Ranker!SumFunction(G) = G["keyword"] + G["topic"] + G["milvus"] + G["neo4j"]
                               + G["source"] + G["freshness"] + G["content"]
  BY <1>10, SumOfSeven
<1> DEFINE k == Worth(a, p, "keyword")
           t == Worth(a, p, "topic")
           m == Worth(a, p, "milvus")
           n == Worth(a, p, "neo4j")
           s == Worth(a, p, "source")
           f == Worth(a, p, "freshness")
           c == Worth(a, p, "content")
<1>13. /\ k \in 0..100 /\ t \in 0..100 /\ m \in 0..100 /\ n \in 0..100 /\ s \in 0..100
       /\ f \in 0..100 /\ c \in 0..100
  BY <1>6 DEF Dims
<1>14. /\ F["keyword"] = k * 10 /\ F["topic"] = t * 12 /\ F["milvus"] = m * 10
       /\ F["neo4j"] = n * 9 /\ F["source"] = s * 8 /\ F["freshness"] = f * 7
       /\ F["content"] = c * 11
  BY <1>4, <1>7 DEF Dims
<1>15. /\ G["keyword"] = 10 /\ G["source"] = 8 /\ G["freshness"] = 7 /\ G["content"] = 11
       /\ G["topic"] = IF There(a, p, "topic") THEN 12 ELSE 0
       /\ G["milvus"] = IF There(a, p, "milvus") THEN 10 ELSE 0
       /\ G["neo4j"] = IF There(a, p, "neo4j") THEN 9 ELSE 0
  BY <1>4, <1>8, ThereFacts DEF Dims
<1>16. /\ ~There(a, p, "topic") => t = 0
       /\ ~There(a, p, "milvus") => m = 0
       /\ ~There(a, p, "neo4j") => n = 0
  BY DEF Worth
<1>17. Others(a, p) = 10 * k + 10 * m + 9 * n + 8 * s + 7 * f + 11 * c
  BY DEF Others
<1> HIDE DEF k, t, m, n, s, f, c
<1>18. Others(a, p) \in Nat
  BY <1>13, <1>17
<1>19. Rest(a, p) \in 36..55
  BY DEF Rest
<1>20. Ranker!Total(a, p) = Others(a, p) + 12 * t
  BY <1>2, <1>11, <1>13, <1>14, <1>17
<1>21. Ranker!Divisor(a, p) = Rest(a, p) + IF There(a, p, "topic") THEN 12 ELSE 0
  BY <1>3, <1>12, <1>15 DEF Rest
<1>22. Ranker!Total(a, p) =< 100 * Ranker!Divisor(a, p)
  BY <1>13, <1>16, <1>17, <1>20, <1>21 DEF Rest
<1> QED BY <1>13, <1>18, <1>19, <1>20, <1>21, <1>22 DEF t

(* The score, of the average and the penalty.                                 *)
Average(a, p) == (10 * Ranker!Total(a, p)) \div Ranker!Divisor(a, p)

LEMMA ScoreFacts ==
  ASSUME None \notin Int, NEW a, Ranker!Article(a), NEW p, Ranker!Profile(p)
  PROVE  /\ Average(a, p) \in 0..1000 /\ Ranker!Penalty(a, p) \in Nat
         /\ Ranker!Score(a, p) = IF Average(a, p) =< Ranker!Penalty(a, p) THEN 0
                                 ELSE Average(a, p) - Ranker!Penalty(a, p)
<1> DEFINE n == 10 * Ranker!Total(a, p)
           d == Ranker!Divisor(a, p)
           q == Average(a, p)
           c == Ranker!Penalty(a, p)
<1>1. n \in Nat /\ d \in Nat \ {0} /\ n =< 1000 * d
  BY TotalFacts
<1>2. q = n \div d
  BY DEF Average
<1>3. c = 5 * (Ranker!Duplicate(a, p) + Ranker!Negative(a, p))
  BY DEF Ranker!Penalty
<1>4. Ranker!Score(a, p) = Ranker!Min({1000, Ranker!Max({0, q - c})})
  BY DEF Ranker!Score, Average
<1> HIDE DEF n, d, q, c
<1>5. q \in Nat /\ d * q =< n
  BY <1>1, <1>2, DivFacts
<1>6. q =< 1000
  <2>1. d * q < d * 1001
    BY <1>1, <1>5
  <2>2. q < 1001
    BY <1>1, <1>5, <2>1
  <2> QED BY <1>5, <2>2
<1>7. c \in Nat
  <2>1. Ranker!Duplicate(a, p) \in Nat
    BY DuplicateFacts
  <2>2. Ranker!Negative(a, p) \in Nat
    BY NegativeFacts
  <2> QED BY <1>3, <2>1, <2>2
<1> DEFINE low == Ranker!Max({0, q - c})
<1>8. q - c \in Int
  BY <1>5, <1>7
<1>9. low = IF 0 >= q - c THEN 0 ELSE q - c
  BY <1>8, PairFacts
<1> HIDE DEF low
<1>10. low \in Int /\ low =< 1000
  BY <1>5, <1>6, <1>7, <1>9
<1>11. Ranker!Min({1000, low}) = low
  <2>1. 1000 \in Int /\ (1000 =< low => low = 1000)
    BY <1>10
  <2>2. Ranker!Min({1000, low}) = IF 1000 =< low THEN 1000 ELSE low
    BY <1>10, <2>1, PairFacts
  <2> QED BY <2>1, <2>2
<1> QED BY <1>4, <1>5, <1>6, <1>7, <1>9, <1>11 DEF q, c, low

--------------------------------------------------------------------------------
(* A topic that gains weight: nothing but the topic's dimension changes.      *)
LEMMA LearntFacts ==
  ASSUME Ranker!Profile(profile), NEW t, NEW q, q = Ranker!Learnt(t)
  PROVE  /\ Ranker!Profile(q) /\ q.keywords = profile.keywords /\ q.dislikes = profile.dislikes
         /\ q.seen = profile.seen /\ q.titles = profile.titles
         /\ DOMAIN q.topics = DOMAIN profile.topics \cup {t}
         /\ \A w \in DOMAIN profile.topics :
              q.topics[w] = IF w = t THEN profile.topics[w] + 1 ELSE profile.topics[w]
         /\ t \notin DOMAIN profile.topics => q.topics[t] = 1
<1> DEFINE T == profile.topics
           U == [w \in DOMAIN T \cup {t} |-> IF w \notin DOMAIN T THEN 1
                                             ELSE IF w = t THEN T[w] + 1 ELSE T[w]]
<1>1. q = [profile EXCEPT !.topics = U]
  BY DEF Ranker!Learnt
<1>2. DOMAIN profile = {"keywords", "topics", "dislikes", "seen", "titles"}
  BY DEF Ranker!Profile
<1>3. T \in [DOMAIN T -> Int]
  BY DEF Ranker!Profile
<1>4. U \in [DOMAIN T \cup {t} -> Int] /\ DOMAIN U = DOMAIN T \cup {t}
  <2> HIDE DEF T
  <2>1. \A w \in DOMAIN T : T[w] \in Int
    BY <1>3
  <2>2. \A w \in DOMAIN T \cup {t} : (IF w \notin DOMAIN T THEN 1
                                       ELSE IF w = t THEN T[w] + 1 ELSE T[w]) \in Int
    BY <2>1
  <2> QED BY <2>2
<1>5. /\ \A w \in DOMAIN T : U[w] = IF w = t THEN T[w] + 1 ELSE T[w]
      /\ t \notin DOMAIN T => U[t] = 1
  OBVIOUS
<1> HIDE DEF U
<1>6. /\ DOMAIN q = DOMAIN profile /\ q.topics = U /\ q.keywords = profile.keywords
      /\ q.dislikes = profile.dislikes /\ q.seen = profile.seen /\ q.titles = profile.titles
  BY <1>1, <1>2
<1>7. Ranker!Profile(q)
  BY <1>2, <1>4, <1>6 DEF Ranker!Profile
<1> QED BY <1>4, <1>5, <1>6, <1>7

LEMMA SameOthers ==
  ASSUME NEW a, NEW p, NEW q, q.keywords = p.keywords, q.dislikes = p.dislikes,
         q.seen = p.seen, q.titles = p.titles
  PROVE  /\ Ranker!Penalty(a, q) = Ranker!Penalty(a, p)
         /\ \A d \in Dims \ {"topic"} :
              (There(a, q, d) <=> There(a, p, d)) /\ Worth(a, q, d) = Worth(a, p, d)
         /\ Others(a, q) = Others(a, p) /\ Rest(a, q) = Rest(a, p)
<1>1. Ranker!Penalty(a, q) = Ranker!Penalty(a, p)
  BY DEF Ranker!Penalty, Ranker!Duplicate, Ranker!Negative
<1>2. \A d \in Dims \ {"topic"} : Ranker!Values(a, q)[d] = Ranker!Values(a, p)[d]
  <2>1. Ranker!Keyword(a, q) = Ranker!Keyword(a, p)
    BY DEF Ranker!Keyword
  <2> QED BY <2>1 DEF Ranker!Values, Dims
<1>3. \A d \in Dims \ {"topic"} :
        (There(a, q, d) <=> There(a, p, d)) /\ Worth(a, q, d) = Worth(a, p, d)
  BY <1>2 DEF There, Worth, Ranker!Available
<1>4. {"keyword", "milvus", "neo4j", "source", "freshness", "content"} \subseteq Dims \ {"topic"}
  BY DEF Dims
<1>5. Rest(a, q) = Rest(a, p)
  BY <1>3, <1>4 DEF Rest
<1>6. Others(a, q) = Others(a, p)
  <2>1. /\ Worth(a, q, "keyword") = Worth(a, p, "keyword")
        /\ Worth(a, q, "milvus") = Worth(a, p, "milvus")
        /\ Worth(a, q, "neo4j") = Worth(a, p, "neo4j")
        /\ Worth(a, q, "source") = Worth(a, p, "source")
        /\ Worth(a, q, "freshness") = Worth(a, p, "freshness")
        /\ Worth(a, q, "content") = Worth(a, p, "content")
    BY <1>3, <1>4
  <2> QED BY <2>1 DEF Others
<1> QED BY <1>1, <1>3, <1>5, <1>6

(* The dimension of an article about the topic does not fall, and is not 0    *)
(* once there is no other topic; that of another article stays, or is 0.      *)
LEMMA TopicGrows ==
  ASSUME None \notin Int, Ranker!Profile(profile), NEW a, Ranker!Article(a),
         NEW t \in Ranker!Words(a)
  PROVE  /\ Worth(a, Ranker!Learnt(t), "topic") >= Worth(a, profile, "topic")
         /\ DOMAIN profile.topics = {} => Worth(a, Ranker!Learnt(t), "topic") >= 10
<1> DEFINE q == Ranker!Learnt(t)
           s == Ranker!Words(a)
           F == Hits(profile, s)
           G == Hits(q, s)
           m == Ranker!SumFunction(F)
           n == Ranker!SumFunction(G)
<1>1. /\ Ranker!Profile(q) /\ DOMAIN q.topics = DOMAIN profile.topics \cup {t}
      /\ \A w \in DOMAIN profile.topics :
           q.topics[w] = IF w = t THEN profile.topics[w] + 1 ELSE profile.topics[w]
      /\ t \notin DOMAIN profile.topics => q.topics[t] = 1
  BY LearntFacts
<1> HIDE DEF q
<1>2. IsFiniteSet(s) /\ F \in [s -> Nat] /\ G \in [s -> Nat]
  BY <1>1, WordsFinite, HitsType
<1>3. ASSUME NEW w \in s PROVE F[w] =< G[w]
  <2>1. CASE w \notin DOMAIN profile.topics
    <3>1. F[w] = 0
      BY <2>1 DEF Hits
    <3>2. G[w] \in Nat
      BY <1>2
    <3> QED BY <3>1, <3>2
  <2>2. CASE w \in DOMAIN profile.topics
    <3> DEFINE i == profile.topics[w]
               j == q.topics[w]
    <3>1. w \in DOMAIN q.topics /\ j = IF w = t THEN i + 1 ELSE i
      BY <1>1, <2>2
    <3>2. F[w] = IF i =< 0 THEN 0 ELSE IF i >= 10 THEN 100 ELSE 10 * i
      <4>1. F[w] = 10 * Ranker!Min({10, Ranker!Max({0, i})})
        BY <2>2 DEF Hits
      <4> QED BY <2>2, <4>1, HitType
    <3>3. G[w] = IF j =< 0 THEN 0 ELSE IF j >= 10 THEN 100 ELSE 10 * j
      <4>1. G[w] = 10 * Ranker!Min({10, Ranker!Max({0, j})})
        BY <3>1 DEF Hits
      <4> QED BY <1>1, <3>1, <4>1, HitType
    <3>4. i \in Int
      BY <2>2, HitType
    <3> HIDE DEF i, j, F, G
    <3> QED BY <3>1, <3>2, <3>3, <3>4
  <2> QED BY <2>1, <2>2
<1>4. DOMAIN profile.topics = {} => G[t] = 10
  <2> SUFFICES ASSUME DOMAIN profile.topics = {} PROVE G[t] = 10
    OBVIOUS
  <2>1. t \in DOMAIN q.topics /\ q.topics[t] = 1
    BY <1>1
  <2>2. G[t] = 10 * Ranker!Min({10, Ranker!Max({0, q.topics[t]})})
    BY <2>1 DEF Hits
  <2> DEFINE i == q.topics[t]
  <2>3. 10 * Ranker!Min({10, Ranker!Max({0, i})})
          = IF i =< 0 THEN 0 ELSE IF i >= 10 THEN 100 ELSE 10 * i
    BY <1>1, <2>1, HitType
  <2> HIDE DEF i, G
  <2> QED BY <2>1, <2>2, <2>3 DEF i
<1>5. n = Ranker!SumFunction(Hits(q, Ranker!Words(a)))
  OBVIOUS
<1>6. n \in Nat /\ Worth(a, q, "topic") = IF n >= 100 THEN 100 ELSE n
  <2>1. DOMAIN q.topics # {}
    BY <1>1
  <2>2. n \in Nat /\ Ranker!Topic(a, q) = IF n >= 100 THEN 100 ELSE n
    BY <1>1, <1>5, <2>1, TopicFacts
  <2>3. There(a, q, "topic") /\ Ranker!Values(a, q)["topic"] = Ranker!Topic(a, q)
    BY <1>1, <2>1, ThereFacts DEF Ranker!Values
  <2> HIDE DEF n
  <2> QED BY <2>2, <2>3 DEF Worth
<1>7. CASE DOMAIN profile.topics # {}
  <2>1. m \in Nat /\ Ranker!Topic(a, profile) = IF m >= 100 THEN 100 ELSE m
    BY <1>7, TopicFacts
  <2>2. There(a, profile, "topic") /\ Ranker!Values(a, profile)["topic"] = Ranker!Topic(a, profile)
    BY <1>7, ThereFacts DEF Ranker!Values
  <2>3. m =< n
    <3> HIDE DEF F, G, s
    <3> QED BY <1>2, <1>3, SumGrows
  <2>4. Worth(a, profile, "topic") = IF m >= 100 THEN 100 ELSE m
    <3> HIDE DEF m
    <3> QED BY <2>1, <2>2 DEF Worth
  <2> HIDE DEF m, n
  <2> QED BY <1>6, <1>7, <2>1, <2>3, <2>4 DEF q
<1>8. CASE DOMAIN profile.topics = {}
  <2>1. Worth(a, profile, "topic") = 0
    BY <1>8, ThereFacts DEF Worth
  <2>2. n >= G[t]
    <3> HIDE DEF G
    <3> QED BY <1>2, SumAtLeast
  <2>3. G[t] = 10
    BY <1>4, <1>8
  <2> HIDE DEF n, G
  <2> QED BY <1>6, <2>1, <2>2, <2>3 DEF q
<1> QED BY <1>7, <1>8

LEMMA TopicStays ==
  ASSUME None \notin Int, Ranker!Profile(profile), NEW a, Ranker!Article(a),
         NEW t, t \notin Ranker!Words(a)
  PROVE  Worth(a, Ranker!Learnt(t), "topic") = Worth(a, profile, "topic")
<1> DEFINE q == Ranker!Learnt(t)
           s == Ranker!Words(a)
           F == Hits(profile, s)
           G == Hits(q, s)
<1>1. /\ Ranker!Profile(q) /\ DOMAIN q.topics = DOMAIN profile.topics \cup {t}
      /\ \A w \in DOMAIN profile.topics :
           q.topics[w] = IF w = t THEN profile.topics[w] + 1 ELSE profile.topics[w]
  BY LearntFacts
<1> HIDE DEF q
<1>2. F = G
  <2>1. \A w \in s : /\ w \in DOMAIN profile.topics <=> w \in DOMAIN q.topics
                     /\ w \in DOMAIN profile.topics => q.topics[w] = profile.topics[w]
    BY <1>1
  <2>2. ASSUME NEW w \in s PROVE F[w] = G[w]
    <3>1. /\ F[w] = IF w \in DOMAIN profile.topics THEN Hit(profile.topics[w]) ELSE 0
          /\ G[w] = IF w \in DOMAIN q.topics THEN Hit(q.topics[w]) ELSE 0
      BY HitsOf
    <3>2. /\ w \in DOMAIN profile.topics <=> w \in DOMAIN q.topics
          /\ w \in DOMAIN profile.topics => q.topics[w] = profile.topics[w]
      BY <2>1, <2>2
    <3> HIDE DEF F, G
    <3> QED BY <3>1, <3>2
  <2>3. F = [w \in s |-> F[w]] /\ G = [w \in s |-> G[w]]
    BY DEF Hits
  <2> HIDE DEF F, G, s
  <2> QED BY <2>2, <2>3
<1>3. There(a, q, "topic")
  BY <1>1, ThereFacts
<1>4. Worth(a, q, "topic") = Ranker!Topic(a, q)
  BY <1>3 DEF Worth, Ranker!Values
<1> DEFINE n == Ranker!SumFunction(G)
<1>5. Ranker!Topic(a, q) = IF n >= 100 THEN 100 ELSE n
  <2>1. DOMAIN q.topics # {}
    BY <1>1
  <2> QED BY <1>1, <2>1, TopicFacts
<1>6. CASE DOMAIN profile.topics # {}
  <2>1. There(a, profile, "topic")
    BY <1>6, ThereFacts
  <2>2. Worth(a, profile, "topic") = Ranker!Topic(a, profile)
    BY <2>1 DEF Worth, Ranker!Values
  <2>3. Ranker!Topic(a, profile) = IF n >= 100 THEN 100 ELSE n
    BY <1>2, <1>6, TopicFacts
  <2> HIDE DEF n
  <2> QED BY <1>4, <1>5, <2>2, <2>3 DEF q
<1>7. CASE DOMAIN profile.topics = {}
  <2>1. Worth(a, profile, "topic") = 0
    BY <1>7, ThereFacts DEF Worth
  <2>2. F \in [s -> {0}] /\ IsFiniteSet(s)
    BY <1>7, WordsFinite DEF Hits
  <2>3. n = 0
    <3> HIDE DEF F, G, s
    <3> QED BY <1>2, <2>2, SumZero
  <2> HIDE DEF n
  <2> QED BY <1>4, <1>5, <2>1, <2>3 DEF q
<1> QED BY <1>6, <1>7

(* Who was not behind is not behind when its average has not been overtaken,  *)
(* or that of the other has not grown past the penalty they share.            *)
LEMMA Favours ==
  ASSUME None \notin Int, Ranker!Profile(profile), NEW a, Ranker!Article(a),
         NEW b, Ranker!Article(b), NEW t \in Ranker!Words(a), t \notin Ranker!Words(b),
         Ranker!Penalty(a, profile) = Ranker!Penalty(b, profile),
         Ranker!Available(a, profile) = Ranker!Available(b, profile),
         Ranker!Score(a, profile) >= Ranker!Score(b, profile)
  PROVE  Ranker!Score(a, Ranker!Learnt(t)) >= Ranker!Score(b, Ranker!Learnt(t))
<1> DEFINE p == profile
           q == Ranker!Learnt(t)
           c == Ranker!Penalty(a, p)
<1>1. /\ Ranker!Profile(q) /\ DOMAIN q.topics # {}
      /\ q.keywords = p.keywords /\ q.dislikes = p.dislikes
      /\ q.seen = p.seen /\ q.titles = p.titles
  BY LearntFacts
<1>2. Ranker!Penalty(a, q) = c /\ Ranker!Penalty(b, q) = c
  BY <1>1, SameOthers
<1>3. /\ Others(a, q) = Others(a, p) /\ Rest(a, q) = Rest(a, p)
      /\ Others(b, q) = Others(b, p) /\ Rest(b, q) = Rest(b, p)
  BY <1>1, SameOthers
<1>4. Rest(a, p) = Rest(b, p) /\ (There(a, p, "topic") <=> There(b, p, "topic"))
  BY DEF Rest, There
<1>5. There(a, q, "topic") /\ There(b, q, "topic")
  BY <1>1, ThereFacts
<1> DEFINE x == Others(a, p)
           y == Others(b, p)
           k == Worth(a, p, "topic")
           l == Worth(a, q, "topic")
           m == Worth(b, p, "topic")
           d == Rest(a, p)
<1>6. /\ x \in Nat /\ y \in Nat /\ d \in 36..55
      /\ k \in 0..100 /\ l \in 0..100 /\ m \in 0..100
  <2>1. x \in Nat /\ d \in 36..55 /\ k \in 0..100
    BY TotalFacts
  <2>2. y \in Nat /\ m \in 0..100
    BY TotalFacts
  <2>3. l \in 0..100
    BY <1>1, TotalFacts
  <2> QED BY <2>1, <2>2, <2>3
<1>7. /\ l >= k /\ (~There(a, p, "topic") => l >= 10)
      /\ Worth(b, q, "topic") = m
  <2>1. l >= k /\ (DOMAIN p.topics = {} => l >= 10)
    BY TopicGrows
  <2>2. There(a, p, "topic") <=> DOMAIN p.topics # {}
    BY ThereFacts
  <2>3. Worth(b, q, "topic") = m
    BY TopicStays
  <2> QED BY <2>1, <2>2, <2>3
<1>8. /\ Ranker!Total(a, p) = x + 12 * k /\ Ranker!Total(b, p) = y + 12 * m
      /\ Ranker!Divisor(a, p) = d + IF There(a, p, "topic") THEN 12 ELSE 0
      /\ Ranker!Divisor(b, p) = d + IF There(a, p, "topic") THEN 12 ELSE 0
  BY <1>4, TotalFacts
<1>9. /\ Ranker!Total(a, q) = x + 12 * l /\ Ranker!Total(b, q) = y + 12 * m
      /\ Ranker!Divisor(a, q) = d + 12 /\ Ranker!Divisor(b, q) = d + 12
  BY <1>1, <1>3, <1>4, <1>5, <1>7, TotalFacts
<1> DEFINE oa == Average(a, p)
           ob == Average(b, p)
           na == Average(a, q)
           nb == Average(b, q)
<1>10. /\ oa \in 0..1000 /\ ob \in 0..1000 /\ na \in 0..1000 /\ nb \in 0..1000 /\ c \in Nat
       /\ Ranker!Score(a, p) = IF oa =< c THEN 0 ELSE oa - c
       /\ Ranker!Score(b, p) = IF ob =< c THEN 0 ELSE ob - c
       /\ Ranker!Score(a, q) = IF na =< c THEN 0 ELSE na - c
       /\ Ranker!Score(b, q) = IF nb =< c THEN 0 ELSE nb - c
  <2>1. /\ oa \in 0..1000 /\ c \in Nat
        /\ Ranker!Score(a, p) = IF oa =< c THEN 0 ELSE oa - c
    BY ScoreFacts
  <2>2. ob \in 0..1000 /\ Ranker!Score(b, p) = IF ob =< c THEN 0 ELSE ob - c
    BY ScoreFacts
  <2>3. na \in 0..1000 /\ Ranker!Score(a, q) = IF na =< c THEN 0 ELSE na - c
    BY <1>1, <1>2, ScoreFacts
  <2>4. nb \in 0..1000 /\ Ranker!Score(b, q) = IF nb =< c THEN 0 ELSE nb - c
    BY <1>1, <1>2, ScoreFacts
  <2> QED BY <2>1, <2>2, <2>3, <2>4
<1>11. (ob =< c /\ nb =< ob) \/ na >= nb => Ranker!Score(a, q) >= Ranker!Score(b, q)
  <2> HIDE DEF p, q, c, oa, ob, na, nb
  <2> QED BY <1>10
<1>12. oa >= ob \/ ob =< c
  <2>1. Ranker!Score(a, p) >= Ranker!Score(b, p)
    OBVIOUS
  <2> HIDE DEF p, q, c, oa, ob, na, nb
  <2> QED BY <1>10, <2>1
<1>13. CASE There(a, p, "topic")
  <2> DEFINE e == d + 12
             i == 10 * (x + 12 * k)
             j == 10 * (x + 12 * l)
             h == 10 * (y + 12 * m)
  <2>1. oa = i \div e /\ na = j \div e /\ ob = h \div e /\ nb = h \div e
    BY <1>8, <1>9, <1>13 DEF Average
  <2>2. i \in Nat /\ j \in Nat /\ i =< j /\ e \in Nat \ {0}
    <3> HIDE DEF x, y, k, l, m, d
    <3> QED BY <1>6, <1>7
  <2> HIDE DEF e, i, j, h, c, oa, ob, na, nb
  <2>3. oa =< na
    BY <2>1, <2>2, DivGrows
  <2>4. nb = ob
    BY <2>1
  <2>5. (ob =< c /\ nb =< ob) \/ na >= nb
    BY <1>10, <1>12, <2>3, <2>4
  <2> QED BY <1>11, <2>5
<1>14. CASE ~There(a, p, "topic")
  <2>1. k = 0 /\ m = 0
    BY <1>4, <1>14 DEF Worth
  <2> DEFINE i == 10 * x
             j == 10 * (x + 12 * l)
             h == 10 * y
             z == 120 * l
  <2>2. oa = i \div d /\ ob = h \div d /\ na = j \div (d + 12) /\ nb = h \div (d + 12)
    <3>1. x + 12 * 0 = x /\ y + 12 * 0 = y /\ d + 0 = d
      <4> HIDE DEF x, y, d
      <4> QED BY <1>6
    <3> QED BY <1>8, <1>9, <1>14, <2>1, <3>1 DEF Average
  <2>3. /\ i \in Nat /\ h \in Nat /\ z \in Nat /\ j = i + z /\ d \in Nat \ {0}
        /\ 12 \in Nat /\ d =< z
    <3>1. l >= 10
      BY <1>7, <1>14
    <3> HIDE DEF x, y, k, l, m, d
    <3> QED BY <1>6, <3>1
  <2> HIDE DEF i, j, h, z, d, c, oa, ob, na, nb
  <2>4. nb =< ob
    BY <2>2, <2>3, DivFalls
  <2>5. oa >= ob => na >= nb
    BY <2>2, <2>3, DivOvertakes
  <2>6. (ob =< c /\ nb =< ob) \/ na >= nb
    BY <1>12, <2>4, <2>5
  <2> QED BY <1>11, <2>6
<1> QED BY <1>13, <1>14

(* One more dislike is one more penalty at most, and changes nothing else.    *)
LEMMA Lowers ==
  ASSUME None \notin Int, Ranker!Profile(profile), NEW a, Ranker!Article(a), NEW w
  PROVE  Ranker!Score(a, [profile EXCEPT !.dislikes = @ \cup {w}]) =< Ranker!Score(a, profile)
<1> DEFINE p == profile
           q == [profile EXCEPT !.dislikes = @ \cup {w}]
<1>1. /\ DOMAIN q = DOMAIN p /\ q.dislikes = p.dislikes \cup {w} /\ q.keywords = p.keywords
      /\ q.topics = p.topics /\ q.seen = p.seen /\ q.titles = p.titles
  BY DEF Ranker!Profile
<1> HIDE DEF q
<1>2. Ranker!Profile(q)
  BY <1>1 DEF Ranker!Profile
<1>3. Average(a, q) = Average(a, p)
  <2>1. Ranker!Keyword(a, q) = Ranker!Keyword(a, p) /\ Ranker!Topic(a, q) = Ranker!Topic(a, p)
    BY <1>1 DEF Ranker!Keyword, Ranker!Topic
  <2>2. Ranker!Values(a, q) = Ranker!Values(a, p)
    BY <2>1 DEF Ranker!Values
  <2>3. Ranker!Available(a, q) = Ranker!Available(a, p)
    BY <2>2 DEF Ranker!Available
  <2>4. Ranker!Total(a, q) = Ranker!Total(a, p) /\ Ranker!Divisor(a, q) = Ranker!Divisor(a, p)
    BY <2>2, <2>3 DEF Ranker!Total, Ranker!Divisor
  <2> QED BY <2>4 DEF Average
<1>4. Ranker!Penalty(a, p) =< Ranker!Penalty(a, q)
  <2> DEFINE s == Ranker!Words(a) \cup {a.source}
             F == Dislikes(a, p)
             G == Dislikes(a, q)
             m == Ranker!SumFunction(F)
             n == Ranker!SumFunction(G)
  <2>1. IsFiniteSet(s)
    BY WordsFinite, FS_AddElement
  <2>2. F \in [s -> Nat] /\ G \in [s -> Nat]
    BY DEF Dislikes
  <2>3. \A v \in s : F[v] =< G[v]
    BY <1>1 DEF Dislikes
  <2>4. m \in Nat /\ n \in Nat /\ m =< n
    <3> HIDE DEF s, F, G
    <3> QED BY <2>1, <2>2, <2>3, SumGrows
  <2>5. /\ Ranker!Negative(a, p) = IF m >= 3 THEN 60 ELSE 20 * m
        /\ Ranker!Negative(a, q) = IF n >= 3 THEN 60 ELSE 20 * n
    BY NegativeFacts
  <2>6. Ranker!Duplicate(a, p) = Ranker!Duplicate(a, q) /\ Ranker!Duplicate(a, p) \in 0..100
    BY <1>1, DuplicateFacts DEF Ranker!Duplicate
  <2>7. Ranker!Negative(a, p) =< Ranker!Negative(a, q) /\ Ranker!Negative(a, p) \in Nat
        /\ Ranker!Negative(a, q) \in Nat
    <3> HIDE DEF m, n, p
    <3> QED BY <2>4, <2>5
  <2> HIDE DEF p
  <2> QED BY <2>6, <2>7 DEF Ranker!Penalty
<1>5. /\ Average(a, p) \in 0..1000 /\ Ranker!Penalty(a, p) \in Nat
      /\ Ranker!Score(a, p) = IF Average(a, p) =< Ranker!Penalty(a, p) THEN 0
                              ELSE Average(a, p) - Ranker!Penalty(a, p)
  BY ScoreFacts
<1>6. /\ Ranker!Penalty(a, q) \in Nat
      /\ Ranker!Score(a, q) = IF Average(a, q) =< Ranker!Penalty(a, q) THEN 0
                              ELSE Average(a, q) - Ranker!Penalty(a, q)
  BY <1>2, ScoreFacts
<1>7. Ranker!Score(a, q) =< Ranker!Score(a, p)
  <2> HIDE DEF p
  <2> QED BY <1>3, <1>4, <1>5, <1>6
<1> QED BY <1>7 DEF q

(* For every batch, profile and settings: learning a topic keeps an article   *)
(* about it ahead of one that is not, a dislike raises no score, and what was *)
(* seen is not kept.                                                          *)
THEOREM FeedbackAlwaysCounts ==
  ASSUME Ranker!RankingAssumption
  PROVE  Ranker!Spec => []LearningFavours
<1> DEFINE Given == batch \in Rankable /\ profile \in Profiles
<1>1. Ranker!Init => Given
  BY DEF Ranker!Init
<1>2. Given /\ [Ranker!Next]_(Ranker!vars) => Given'
  BY DEF Ranker!vars, Ranker!Next, Ranker!Select
<1>3. Given => LearningFavours
  <2> SUFFICES ASSUME batch \in Rankable, profile \in Profiles
               PROVE  Ranker!LearningFavours /\ Ranker!DislikesLower
    BY DEF LearningFavours
  <2>1. /\ None \notin Int /\ Ranker!Profile(profile)
        /\ \A a \in Ranker!Range(batch) : Ranker!Article(a)
    BY DEF Ranker!RankingAssumption
  <2>2. Ranker!LearningFavours
    BY <2>1, Favours DEF Ranker!LearningFavours
  <2>3. ASSUME NEW a \in Ranker!Range(batch), a.url \in profile.seen
        PROVE  ~Ranker!Keep(a, profile)
    <3>1. Ranker!Duplicate(a, profile) = 100
      BY <2>3, DuplicateFacts
    <3>2. "seen" \in Ranker!Rejections(a, profile)
      BY <3>1 DEF Ranker!Rejections
    <3> QED BY <3>2 DEF Ranker!Keep
  <2>4. Ranker!DislikesLower
    BY <2>1, <2>3, Lowers DEF Ranker!DislikesLower
  <2> QED BY <2>2, <2>4
<1> QED BY <1>1, <1>2, <1>3, PTL DEF Ranker!Spec

================================================================================
