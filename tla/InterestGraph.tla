------------------------------ MODULE InterestGraph ------------------------------
(******************************************************************************)
(* The two stores behind neo4j-mcp, MemoryInterestGraphStore and              *)
(* Neo4jInterestGraphStore, given the same calls.  Weights are in twentieths: *)
(* 0.7, 0.05 and the clamping at 1 are multiples of 0.05.  A topic an event   *)
(* does not name has no entry, which is not the same as weight 0.             *)
(******************************************************************************)
EXTENDS Integers, FiniteSets, FiniteSetsExt, Functions

CONSTANTS
  Users, Topics,
  Events,    \* event ids
  Payloads,  \* what callers send: [topics, interests, mentions]; topics gives
             \*   explicit weights, the other two are sets of topics
  Related    \* RELATED of the memory store: pairs of topics to weights, in hundredths

(* No topic is related to itself.                                             *)
InterestAssumption == DOMAIN Related \subseteq {p \in Topics \X Topics : p[1] # p[2]}

VARIABLES
  graph,     \* MemoryInterestGraphStore.graph
  events,    \* MemoryInterestGraphStore.events
  relations, \* Neo4j: the INTERESTED_IN relationships
  nodes,     \* Neo4j: the InterestEvent nodes that are applied
  edges      \* Neo4j: the RELATED_TO relationships, like Related

vars == <<graph, events, relations, nodes, edges>>

NoTopics == [t \in {} |-> 0]
One  == 20
Clamp(low, n) == IF n < low THEN low ELSE IF n > One THEN One ELSE n
Weight(g, t)  == IF t \in DOMAIN g THEN g[t] ELSE 0

(* No query, seed or migration of the repository creates an edge: Neo4j has   *)
(* none, or those of RELATED that someone has loaded.                         *)
NoEdges == [e \in {} |-> 0]
Loaded  == {[e \in some |-> Related[e]] : some \in SUBSET DOMAIN Related}

Init ==
  /\ graph = [u \in Users |-> NoTopics] /\ events = {}
  /\ relations = [u \in Users |-> NoTopics] /\ nodes = {}
  /\ edges \in Loaded

--------------------------------------------------------------------------------
(* normalize_interest_event: explicit weights (0 stands for 0.1), at least    *)
(* 0.7 for each of the snapshot's interests, 0.05 for a keyword of the        *)
(* feedback, whatever its sentiment.                                          *)
Normalize(p) ==
  LET explicit(t) == IF t \notin DOMAIN p.topics THEN 0
                     ELSE IF p.topics[t] = 0 THEN 2 ELSE p.topics[t]
      held(t)     == IF t \in p.interests THEN Max({explicit(t), 14}) ELSE explicit(t)
      said(t)     == IF t \in p.mentions THEN held(t) + 1 ELSE held(t)
  IN [t \in DOMAIN p.topics \cup p.interests \cup p.mentions |-> Clamp(-One, said(t))]

(* A store's weights after an event.                                          *)
Add(g, w) == [t \in DOMAIN g \cup DOMAIN w |-> Clamp(0, Weight(g, t) + Weight(w, t))]

MemoryUpdateSlip(id, u, w) ==
  /\ events' = events \cup {id}
  /\ graph' = [graph EXCEPT ![u] = Add(@, w)]

MemoryUpdate(id, u, w) ==
  IF id \in events THEN UNCHANGED <<graph, events>>
  ELSE /\ events' = events \cup {id}
       /\ graph' = [graph EXCEPT ![u] = Add(@, w)]

(* UPDATE_QUERY, one transaction: merge the event, apply it unless it is      *)
(* applied, mark it.                                                          *)
Neo4jUpdate(id, u, w) ==
  /\ nodes' = nodes \cup {id}
  /\ relations' = IF id \in nodes THEN relations
                  ELSE [relations EXCEPT ![u] = Add(@, w)]

(* handle, for update_user_interest_graph.                                    *)
Update(id, u, p) ==
  /\ MemoryUpdate(id, u, Normalize(p))
  /\ Neo4jUpdate(id, u, Normalize(p))
  /\ UNCHANGED edges

Next == \E id \in Events, u \in Users, p \in Payloads : Update(id, u, p)
Spec == Init /\ [][Next]_vars

--------------------------------------------------------------------------------
(* query_user_interests: the weights it lists, heaviest first; the stores     *)
(* order topics of the same weight differently.                               *)
Heavier(g, t) == {s \in DOMAIN g : g[s] > g[t]}
Listings(g, limit) ==
  {s \in SUBSET DOMAIN g :
     /\ Cardinality(s) = Min({Cardinality(DOMAIN g), Max({1, Min({limit, 100})})})
     /\ \A t \in s : Heavier(g, t) \subseteq s}
Listed(g, limit) == {[t \in s |-> g[t]] : s \in Listings(g, limit)}

(* explain_recommendation, in memory: the topics of the article that the user *)
(* is interested in, and those related to an interest.                        *)
MemoryMatched(u, article) == article \cap DOMAIN graph[u]
MemoryPaths(u, article) ==
  {e \in DOMAIN Related : e[1] \in DOMAIN graph[u] /\ e[2] \in article}
MemoryScores(u, article) ==
  {graph[u][t] * 100 : t \in MemoryMatched(u, article)}
    \cup {graph[u][e[1]] * Related[e] : e \in MemoryPaths(u, article)}
MemoryScore(u, article) == Max({0} \cup MemoryScores(u, article))

(* EXPLAIN_QUERY: one row per interest and topic of the article where they    *)
(* are the same or related by an edge, the best 20 of them.                   *)
Rows(u, article) ==
  {r \in (DOMAIN relations[u]) \X article : r[1] = r[2] \/ r \in DOMAIN edges}
RowScore(u, r) ==
  relations[u][r[1]] * (IF r \in DOMAIN edges THEN edges[r] ELSE 100)
Neo4jScores(u, article) == {RowScore(u, r) : r \in Rows(u, article)}
Neo4jScore(u, article)  == Max({0} \cup Neo4jScores(u, article))

--------------------------------------------------------------------------------
TypeOK ==
  /\ \A u \in Users : /\ DOMAIN graph[u] \subseteq Topics
                      /\ \A t \in DOMAIN graph[u] : graph[u][t] \in 0..One
  /\ events \subseteq Events /\ nodes \subseteq Events

(* What is learnt with the store in memory is what Neo4j would know: the same *)
(* topics with the same weights, and so the same answers to                   *)
(* query_user_interest_graph, however often events are repeated.              *)
SameInterests ==
  \A u \in Users, limit \in 0..2 : Listed(graph[u], limit) = Listed(relations[u], limit)

(* Two loops in Python and one Cypher query with an optional match explain a  *)
(* recommendation. Whatever Neo4j's query finds the memory store finds, with  *)
(* the same weight; and the score is the same unless memory gets to the       *)
(* article by a relation that is no edge of Neo4j: as the repository leaves   *)
(* Neo4j, without edges, by any relation.                                     *)
SameScore ==
  \A u \in Users, article \in SUBSET Topics :
    /\ Neo4jScores(u, article) \subseteq MemoryScores(u, article)
    /\ MemoryPaths(u, article) \subseteq DOMAIN edges =>
         MemoryScore(u, article) = Neo4jScore(u, article)
================================================================================
