------------------------------- MODULE AgentParts -------------------------------
(******************************************************************************)
(* The parts of the Python agent and of its MCP servers that are modelled     *)
(* each by itself, because none reads what another writes: the response cache *)
(* of the gRPC server, which this module extends, and an instance of each of  *)
(* the others; with the safety properties that are checked and proved of them *)
(* (MCAgentParts, AgentFlow_proofs, AgentStores_proofs). What a property means, and which code   *)
(* it is about, is said in the part's own module.                             *)
(******************************************************************************)
EXTENDS ResponseCache

CONSTANTS
  Callers, MaxRetries, Failing,                        \* McpClient
  Serving, Tasks, Conns,                               \* McpConnections
  Ids, Vectors, Misfits, Scopes, Sim, MaxBatch,        \* VectorStores
  Threshold, Unfiltered, NoFilter,
  Users, Topics, Events, Payloads, Related,            \* InterestGraph
  Texts, Length, MaxChunks, BatchSize, CacheSize,      \* EmbeddingCache
  MaxTexts,
  Items, MaxHistory, AgentUp, BackendUp,               \* ProfileMerge, for the same Topics
  Rankable, Profiles, Settings,                        \* Ranking
  Configs, Requests, MaxItems                          \* AgentWorkflow

VARIABLES
  failures, opened, caller, answers, blocked,                \* McpClient
  task, waits, failed, registered, lock, conn, forgotten, phase,  \* McpConnections
    mood,
  items, collection, reply, swept,                           \* VectorStores
  graph, events, relations, nodes, edges,                    \* InterestGraph
  cache, answer,                                             \* EmbeddingCache
  merged, history,                                           \* ProfileMerge
  batch, profile, selected, remaining,                       \* Ranking
  config, request, stage, todo, work                         \* AgentWorkflow

Client == INSTANCE McpClient WITH
  Threads <- Callers, Threshold <- Failing, thread <- caller
Connections == INSTANCE McpConnections WITH Threads <- Serving
Stores      == INSTANCE VectorStores WITH MaxItems <- MaxBatch
Interests   == INSTANCE InterestGraph
Embeddings  == INSTANCE EmbeddingCache WITH reply <- answer
Merging     == INSTANCE ProfileMerge WITH profile <- merged
Ranker      == INSTANCE Ranking
Flow        == INSTANCE AgentWorkflow

--------------------------------------------------------------------------------
(* McpClient: while the circuit is open, a call that begins does not reach    *)
(* the server unless time or another thread has closed the circuit meanwhile. *)
FailsFast == Client!FailsFast

(* McpConnections: no child process is lost, and a server has one, but for    *)
(* what close() forgets.                                                      *)
NoLeak        == Connections!NoLeak
OneConnection == Connections!OneConnection

(* VectorStores: the store in memory and the one in Milvus hold the same and  *)
(* their answers agree; what deduplication keeps is unlike. It is said of     *)
(* stores that have been called, empty ones included.                         *)
Called            == reply.call # "none"
VectorStoresAgree == Called => Stores!SameItems /\ Stores!SameAnswers
UniqueApart       == Called => Stores!UniqueApart

(* InterestGraph: the two stores hold the same interests and, but for what    *)
(* only one of them knows to be related, give an article the same score.      *)
InterestStoresAgree == Interests!SameInterests /\ Interests!SameScore

(* EmbeddingCache: a text gets its own vector, and the cache holds such.      *)
EmbeddingsOwn == Embeddings!OwnVectors /\ Embeddings!CacheSound

(* ProfileMerge: merging feedback by feedback gives what the rebuild gives,   *)
(* but for a ten-thousandth.                                                  *)
RebuildAgrees == Merging!RebuildAgrees

(* Ranking: articles that are alike stay in the order of their scores, and    *)
(* feedback counts the right way. The latter is about the batch and the       *)
(* profile, which no step changes: it is said before the first one.           *)
OrderKept       == Ranker!OrderKept
LearningFavours == selected = <<>> => Ranker!LearningFavours /\ Ranker!DislikesLower

(* AgentWorkflow: what passes the check can be traced; no call is forbidden.  *)
PassedIsTraceable == Flow!PassedIsTraceable
CallsPermitted    == Flow!CallsPermitted
================================================================================
