------------------------------ MODULE MCAgentParts ------------------------------
(* AgentParts with small values of its constants, and a specification of all  *)
(* parts, each by itself: a behaviour is one of the part that Started has     *)
(* picked, and the variables of the others keep an initial value.             *)
EXTENDS AgentParts, Integers, Sequences, FiniteSets, TLC

CONSTANTS
  t1, t2, t3, k1, k2, k3, l1, l2, c1, c2,               \* threads, requests, tasks, connections
  i1, i2, x, y, z, bad, s1, s2,                         \* items, vectors, scopes
  u, e1, e2, e3, a, b, c                                \* user, events, topics or texts

VARIABLE part

WorkerThreads == {t1, t2, t3}
KeysOfThree   == {k1, k2, k3}

OfClient      == <<failures, opened, caller, answers, blocked>>
OfConnections == <<task, waits, failed, registered, lock, conn, forgotten, phase, mood>>
OfVectors     == <<items, collection, reply, swept>>
OfInterests   == <<graph, events, relations, nodes, edges>>
OfEmbeddings  == <<cache, answer>>
OfProfiles    == <<merged, history>>
OfRanking     == <<batch, profile, selected, remaining>>
OfWorkflow    == <<config, request, stage, todo, work>>
all == <<part, vars, OfClient, OfConnections, OfVectors, OfInterests, OfEmbeddings,
         OfProfiles, OfRanking, OfWorkflow>>

--------------------------------------------------------------------------------
(* The client: two threads, one retry, a circuit that opens at the second     *)
(* failure. The connections: one thread; two tasks, which may outlive their   *)
(* calls; two processes.                                                      *)
TwoCallers == {t1, t2}
OneThread  == {t1}
TwoTasks   == {l1, l2}
TwoConns   == {c1, c2}

(* The vector stores: two items, three vectors, two of which are unlike, and  *)
(* one misfit.                                                                *)
Degree(v, w)  == IF v = w THEN 100 ELSE IF {v, w} = {x, z} THEN 40 ELSE 90
TwoIds        == {i1, i2}
ThreeVectors  == {x, y, z}
OneMisfit     == {bad}
TwoScopes     == {s1, s2}
Similarity    == [p \in ThreeVectors \X ThreeVectors |-> Degree(p[1], p[2])]

(* The interest stores: an explicit weight below zero, one of zero, interests *)
(* and mentions.                                                              *)
OneUser      == {u}
ThreeEvents  == {e1, e2, e3}
ThreeTopics  == {"a", "b", "c"}
Plainly      == [t \in {} |-> 0]
FourPayloads ==
  {[topics |-> "a" :> -15, interests |-> {}, mentions |-> {"b"}],
   [topics |-> Plainly, interests |-> {"a"}, mentions |-> {}],
   [topics |-> Plainly, interests |-> {"b"}, mentions |-> {"a", "c"}],
   [topics |-> "b" :> 0, interests |-> {}, mentions |-> {"a"}]}
Relations    == <<"a", "b">> :> 90 @@ <<"b", "c">> :> 82 @@ <<"a", "c">> :> 86

(* Texts of one, two and more chunks than fit; batches of two.                *)
ThreeTexts == {a, b, c}
Lengths    == a :> 1 @@ b :> 2 @@ c :> 4

(* Signals below and beyond the cap, without a weight, without a topic; and   *)
(* the ties they lead to, which Go rounds up and Python up but for two.       *)
Says(topic, evidence, delta) == [topic |-> topic, evidence |-> evidence, delta |-> delta]
FiveItems ==
  {Says("a", {}, 35), Says("a", {}, None), Says("b", {}, -1500),
   Says("general", {"a"}, None), Says("", {}, None)}
GoTies     == {<<35, 0>>, <<35, 35>>, <<35, 1000>>, <<855, 0>>, <<935, 35>>, <<935, 1000>>,
               <<1565, 0>>, <<2145, 0>>}
PythonTies == GoTies \ {<<35, 35>>, <<2145, 0>>}

(* Five articles of two topics and two sources, and pairs of odd ones.        *)
Plain == [id |-> 1, title |-> {"w"}, text |-> {}, tags |-> {"x"}, source |-> "s", url |-> "u1",
          length |-> "long", age |-> 0, fetched |-> TRUE, match |-> None, graph |-> None,
          quality |-> 60]
Crowds == {[k \in 1..5 |-> [Plain EXCEPT !.id = k, !.tags = {f[k][1]}, !.source = f[k][2],
                                         !.age = k % 3]] :
             f \in [1..5 -> {"x", "y"} \X {"s", "t"}]}
Odd(k) == {[Plain EXCEPT !.id = k, !.title = title, !.tags = tags, !.url = url, !.match = m,
                         !.graph = g, !.length = "short"] :
             title \in {{}, {"x"}}, tags \in {{}, {"y"}}, url \in {"u1", "u2"},
             m \in {None, 95}, g \in {None, {"x"}}}
CrowdsAndPairs == Crowds \cup {<<v, w>> : v \in Odd(1), w \in Odd(2)}
TwoProfiles ==
  {[keywords |-> {"w"}, topics |-> << >>, dislikes |-> {}, seen |-> {}, titles |-> {{"x"}}],
   [keywords |-> {}, topics |-> "x" :> 9 @@ "y" :> 3, dislikes |-> {"y"}, seen |-> {"u2"},
    titles |-> {}]}
Defaults == [minKeep |-> 500, consecutive |-> 2, window |-> 5, topicRatio |-> 50,
             sourceRatio |-> 50]

(* Every kind of article by itself, two of them, too many, none; feedback.    *)
Deployed == [llm |-> "claude", key |-> TRUE, mockLlm |-> FALSE, listed |-> "none", mockMcp |-> FALSE,
             fallback |-> TRUE, mockFetch |-> FALSE, guarded |-> TRUE]
Ask(kind, what, policy) ==
  [kind |-> kind, known |-> TRUE, run |-> TRUE, items |-> what, policy |-> policy]
Bare(phrase) == [url |-> TRUE, text |-> FALSE, phrase |-> phrase]
Everywhere == {"embedding", "fetch", "milvus", "neo4j"}
FourConfigs ==
  {Deployed, [Deployed EXCEPT !.fallback = FALSE, !.guarded = FALSE],
   [Deployed EXCEPT !.key = FALSE, !.listed = "memory"],
   [Deployed EXCEPT !.mockLlm = TRUE, !.mockFetch = TRUE]}
EveryRequest ==
  {Ask("articles", [a1 |-> [url |-> r, text |-> h, phrase |-> p]], policy) :
     r \in BOOLEAN, h \in BOOLEAN, p \in {"title", "text", "none"},
     policy \in {Everywhere, {"milvus", "fetch"}}}
  \cup {Ask("articles", [a1 |-> Bare("none"), a2 |-> Bare("title")], {"fetch"}),
        Ask("articles", [a1 |-> Bare("none"), a2 |-> Bare("none"), a3 |-> Bare("none")], {}),
        Ask("articles", << >>, {})}
  \cup {Ask("feedback", [f |-> Bare(p)], Everywhere) : p \in {"none", "text"}}
  \cup {[Ask("feedback", [f |-> Bare("none"), g |-> Bare("none")], {"milvus"})
           EXCEPT !.known = known] : known \in BOOLEAN}

ASSUME PartsAssumption ==
  /\ Client!McpAssumption /\ Connections!ConnectionsAssumption
  /\ Stores!VectorsAssumption /\ Embeddings!EmbeddingAssumption
  /\ Flow!WorkflowAssumption /\ Ranker!RankingAssumption
  /\ Interests!InterestAssumption /\ Merging!ProfileAssumption

--------------------------------------------------------------------------------
Parts == {"cache", "client", "connections", "vectors", "interests", "embeddings", "profiles",
          "ranking", "workflow"}

Started ==
  /\ part \in Parts
  /\ Init
  /\ Client!Init /\ (part # "client" => answers = Client!Working)
  /\ Connections!Init /\ (part # "connections" => mood = "healthy")
  /\ Interests!Init /\ (part # "interests" => edges = Interests!NoEdges)
  /\ Stores!Init /\ Embeddings!Init /\ Merging!Init
  /\ IF part = "ranking" THEN Ranker!Init
     ELSE batch = << >> /\ profile = "none" /\ selected = << >> /\ remaining = {}
  /\ IF part = "workflow" THEN Flow!Init
     ELSE /\ config = Deployed
          /\ request = Flow!NoRequest /\ stage = "idle" /\ todo = {} /\ work = << >>

Only(p, others) == part = p /\ UNCHANGED <<part, others>>
Moves ==
  \/ /\ Only("cache", <<OfClient, OfConnections, OfVectors, OfInterests,
                        OfEmbeddings, OfProfiles, OfRanking, OfWorkflow>>)
     /\ Next
  \/ /\ Only("client", <<vars, OfConnections, OfVectors, OfInterests,
                         OfEmbeddings, OfProfiles, OfRanking, OfWorkflow>>)
     /\ Client!Next
  \/ /\ Only("connections", <<vars, OfClient, OfVectors, OfInterests,
                              OfEmbeddings, OfProfiles, OfRanking, OfWorkflow>>)
     /\ Connections!Next
  \/ /\ Only("vectors", <<vars, OfClient, OfConnections, OfInterests,
                          OfEmbeddings, OfProfiles, OfRanking, OfWorkflow>>)
     /\ Stores!Next
  \/ /\ Only("interests", <<vars, OfClient, OfConnections, OfVectors,
                            OfEmbeddings, OfProfiles, OfRanking, OfWorkflow>>)
     /\ Interests!Next
  \/ /\ Only("embeddings", <<vars, OfClient, OfConnections, OfVectors,
                             OfInterests, OfProfiles, OfRanking, OfWorkflow>>)
     /\ Embeddings!Next
  \/ /\ Only("profiles", <<vars, OfClient, OfConnections, OfVectors,
                           OfInterests, OfEmbeddings, OfRanking, OfWorkflow>>)
     /\ Merging!Next
  \/ /\ Only("ranking", <<vars, OfClient, OfConnections, OfVectors,
                          OfInterests, OfEmbeddings, OfProfiles, OfWorkflow>>)
     /\ Ranker!Next
  \/ /\ Only("workflow", <<vars, OfClient, OfConnections, OfVectors,
                           OfInterests, OfEmbeddings, OfProfiles, OfRanking>>)
     /\ Flow!Next

(* The fairness of ResponseCache, McpClient and McpConnections, each for its  *)
(* behaviours.                                                                *)
PartsSpec ==
  /\ Started /\ [][Moves]_all
  /\ \A t \in Threads : WF_vars(part = "cache" /\ Step(t))
  /\ WF_OfClient(part = "client" /\ Client!Elapse)
  /\ \A t \in {t1, t2} : WF_OfClient(part = "client" /\ Client!Step(t))
  /\ WF_OfConnections(part = "connections" /\ Connections!Serve)
  /\ \A k \in {l1, l2} : WF_OfConnections(part = "connections" /\ Connections!Step(k))
  /\ \A t \in {t1} : WF_OfConnections(part = "connections" /\ Connections!Timeout(t))

--------------------------------------------------------------------------------
(* Liveness, of the behaviours of the part that it is about. The invariants   *)
(* are AgentParts', and those of the cache, like EveryCallReturns,            *)
(* ResponseCache's: other parts leave their variables as they are.            *)
Trips         == part = "client" => Client!Trips
Recovers      == part = "client" => Client!Recovers
EveryCallEnds == part = "client" => Client!EveryCallEnds
Heals         == part = "connections" => Connections!Heals
================================================================================
