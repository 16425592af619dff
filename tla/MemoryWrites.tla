------------------------------- MODULE MemoryWrites -------------------------------
(******************************************************************************)
(* The external memory written for a feedback run: MemoryAgent.run in the     *)
(* agent calls embedding-mcp, milvus-mcp and neo4j-mcp; the servers write     *)
(* through a ManagedProvider; the backend settles the run with the logs it    *)
(* is given, and records a compensation task for each write that failed.      *)
(*                                                                            *)
(* A call's answer can be lost, its request can arrive after the call was     *)
(* given up, and a run is delivered again after its deadline or a restart     *)
(* while the agent still works on it; the model then extracts something else. *)
(* The circuit breaker is module McpClient's: here a call may go unattempted. *)
(******************************************************************************)
EXTENDS Integers, FiniteSets, Functions

CONSTANTS
  Runs,          \* feedback runs; a run's id is the event id in Neo4j, and
                 \*   the id of its vector in Milvus
  Workers,       \* threads of the agent's gRPC server
  Contents,      \* what the LLM may extract from a feedback
  Gain, Limit,   \* the weight a content adds, in twentieths; 1.0 is the most
  MaxRetries,    \* mcp.max_retries
  Fallback,      \* mcp.memory_fallback, true as the repository has it
  MaxDeliveries, \* bound: how often runs are given to the agent, in all
  MaxLate,       \* bound: requests under way whose calls were given up
  None

ASSUME WritesAssumption ==
  /\ None \notin Runs \cup Workers \cup Contents
  /\ Gain \in [Contents -> Nat] /\ Limit \in Nat /\ MaxRetries \in Nat
  /\ Fallback \in BOOLEAN

Servers == {"milvus", "neo4j"}

VARIABLES
  exec,          \* per worker: its run, where it is, what it has; at "record" the
                 \*   backend has its response and goes on with it
  late,          \* requests of calls given up that the servers may still get
  vectors,       \* Milvus: the runs whose vector is stored
  counted,       \* Neo4j: per run the content of its InterestEvent, or None
  weight,        \* Neo4j: the weight of the user's INTERESTED_IN relationship
  job,           \* per run: its task, as the backend has it
  deliveries,    \* per run: how often it was given to the agent
  compensation,  \* memory_compensation_tasks, as <<run, server>>
  excused        \* history: unstored writes with the reason, which the code does
                 \*   not keep: its tables say nothing of them

stores  == <<vectors, counted, weight>>
backend == <<job, deliveries, compensation, excused>>
vars    == <<exec, late, stores, backend>>

Results == {"none", "success", "degraded", "failed"}
Idle == [pc |-> "idle", run |-> None, content |-> None, vec |-> "none", tries |-> 0,
         log |-> [s \in Servers |-> "none"]]

Init ==
  /\ exec = [w \in Workers |-> Idle]
  /\ late = {}
  /\ vectors = {} /\ counted = [r \in Runs |-> None] /\ weight = 0
  /\ job = [r \in Runs |-> "waiting"] /\ deliveries = [r \in Runs |-> 0]
  /\ compensation = {} /\ excused = {}

--------------------------------------------------------------------------------
(* The servers.  Upsert by id; UPDATE_QUERY applies an event once.            *)
ExecuteSlip(s, r, content) ==
  IF s = "milvus" THEN vectors' = vectors \cup {r} /\ UNCHANGED <<counted, weight>>
  ELSE /\ counted' = [counted EXCEPT ![r] = content]
       /\ weight' = IF weight + Gain[content] > Limit THEN Limit ELSE weight + Gain[content]
       /\ UNCHANGED vectors

Execute(s, r, content) ==
  \/ s = "milvus" /\ vectors' = vectors \cup {r} /\ UNCHANGED <<counted, weight>>
  \/ s = "neo4j" /\ counted[r] # None /\ UNCHANGED stores
  \/ /\ s = "neo4j" /\ counted[r] = None
     /\ counted' = [counted EXCEPT ![r] = content]
     /\ weight' = IF weight + Gain[content] > Limit THEN Limit ELSE weight + Gain[content]
     /\ UNCHANGED vectors

(* The server has its provider and its database, the calls that need them     *)
(* succeed, and the vector has the collection's dimension; or the call fails. *)
Serves(s, vec) == s = "milvus" => vec = "right"

Arrive(q) ==
  /\ late' = late \ {q}
  /\ \/ Serves(q.server, q.vec) /\ Execute(q.server, q.run, q.content)
     \/ UNCHANGED stores
  /\ UNCHANGED <<exec, backend>>

--------------------------------------------------------------------------------
(* The agent.                                                                 *)
At(w, pc) == exec[w].pc = pc
Current(w) ==
  IF At(w, "milvus") THEN [server |-> "milvus", run |-> exec[w].run, content |-> None, vec |-> exec[w].vec]
  ELSE [server |-> "neo4j", run |-> exec[w].run, content |-> exec[w].content, vec |-> "none"]

(* What follows in MemoryAgent.run: without a vector nothing is inserted.     *)
After(pc, vec) ==
  IF pc = "embed" THEN (IF vec = "none" THEN "neo4j" ELSE "milvus")
  ELSE IF pc = "milvus" THEN "neo4j" ELSE "done"

(* embed_text: the fallback's vectors have three numbers.                     *)
Embed(w) ==
  /\ At(w, "embed")
  /\ \E vec \in {"right", "none"} \cup {v \in {"short"} : Fallback} :
       exec' = [exec EXCEPT ![w].vec = vec, ![w].pc = After("embed", vec)]
  /\ UNCHANGED <<late, stores, backend>>

Logged(w, result) ==
  exec' = [exec EXCEPT ![w].log[exec[w].pc] = result, ![w].tries = 0,
                       ![w].pc = After(exec[w].pc, exec[w].vec)]

(* The call is answered: a success, or a failure that is not tried again when *)
(* the answer does not match the tool's schema.                               *)
Answer(w) ==
  /\ exec[w].pc \in Servers /\ exec[w].tries =< MaxRetries
  /\ Serves(exec[w].pc, exec[w].vec)
  /\ Execute(exec[w].pc, exec[w].run, exec[w].content)
  /\ \E result \in {"success", "failed"} : Logged(w, result)
  /\ UNCHANGED <<late, backend>>

(* A try fails: it is refused, its answer is lost, or it is still under way.  *)
Fail(w) ==
  /\ exec[w].pc \in Servers /\ exec[w].tries =< MaxRetries
  /\ exec' = [exec EXCEPT ![w].tries = @ + 1]
  /\ \/ UNCHANGED <<stores, late>>
     \/ /\ Serves(exec[w].pc, exec[w].vec)
        /\ Execute(exec[w].pc, exec[w].run, exec[w].content)
        /\ UNCHANGED late
     \/ /\ Cardinality(late) < MaxLate
        /\ late' = late \cup {Current(w)} /\ UNCHANGED stores
  /\ UNCHANGED backend

GiveUpSlip(w) ==
  /\ exec[w].pc \in Servers
  /\ exec[w].tries \in {0, MaxRetries + 1}
  /\ Logged(w, IF Fallback THEN "degraded" ELSE IF exec[w].tries = 0 THEN "success" ELSE "failed")
  /\ UNCHANGED <<late, stores, backend>>

(* call_tool after the last try, or with the circuit open: the memory         *)
(* transport answers, or the call has failed.                                 *)
GiveUp(w) ==
  /\ exec[w].pc \in Servers
  /\ exec[w].tries \in {0, MaxRetries + 1}
  /\ Logged(w, IF Fallback THEN "degraded" ELSE "failed")
  /\ UNCHANGED <<late, stores, backend>>

(* The agent's process ends; a response the backend has by then stays there.  *)
AgentCrash ==
  /\ exec' = [w \in Workers |-> IF At(w, "record") THEN exec[w] ELSE Idle]
  /\ UNCHANGED <<late, stores, backend>>

--------------------------------------------------------------------------------
(* The backend: ProcessFeedback, again after a deadline or a restart.         *)
Deliver(r) ==
  /\ job[r] = "waiting" /\ FoldFunction(+, 0, deliveries) < MaxDeliveries
  /\ \E w \in Workers, content \in Contents :
       /\ At(w, "idle")
       /\ exec' = [exec EXCEPT ![w] = [Idle EXCEPT !.pc = "embed", !.run = r, !.content = content]]
  /\ deliveries' = [deliveries EXCEPT ![r] = @ + 1]
  /\ UNCHANGED <<late, stores, job, compensation, excused>>

DueSlip(w) == {s \in {"milvus"} : exec[w].log[s] = "failed"}

Due(w) == {s \in Servers : exec[w].log[s] = "failed"}
Excuses(w, missing) ==
  {<<exec[w].run, s, "degraded">> : s \in {t \in Servers : exec[w].log[t] = "degraded"}}
  \cup {<<exec[w].run, s, "unembedded">> : s \in {t \in Servers : exec[w].log[t] = "none"}}
  \cup {<<exec[w].run, s, "unrecorded">> : s \in missing}

(* The response reaches a goroutine that waits for it, one of them if the run *)
(* was retried meanwhile.  From now on a retry of the run ends with its       *)
(* idempotency key, before the agent.                                         *)
MarkFeedbackCompleted(w) ==
  /\ At(w, "done")
  /\ job' = [job EXCEPT ![exec[w].run] = "completed"]
  /\ exec' = [exec EXCEPT ![w].pc = "record"]
  /\ UNCHANGED <<late, stores, deliveries, compensation, excused>>

(* A compensation task for each log that is no success.  An INSERT that fails *)
(* is passed over; or the backend stops, before or between the INSERTs.       *)
RecordCompensation(w) ==
  /\ At(w, "record")
  /\ \E recorded \in SUBSET Due(w) :
       /\ compensation' = compensation \cup {<<exec[w].run, s>> : s \in recorded}
       /\ excused' = excused \cup Excuses(w, Due(w) \ recorded)
  /\ exec' = [exec EXCEPT ![w] = Idle]
  /\ UNCHANGED <<late, stores, job, deliveries>>

(* No one waits for the response any more, or the backend stops or fails      *)
(* before MarkFeedbackCompleted: nothing is recorded, the run may be retried. *)
Discard(w) ==
  /\ At(w, "done")
  /\ exec' = [exec EXCEPT ![w] = Idle]
  /\ UNCHANGED <<late, stores, backend>>

Next ==
  \/ \E w \in Workers : Embed(w) \/ Answer(w) \/ Fail(w) \/ GiveUp(w)
                   \/ MarkFeedbackCompleted(w) \/ RecordCompensation(w) \/ Discard(w)
  \/ \E r \in Runs : Deliver(r)
  \/ \E q \in late : Arrive(q)
  \/ AgentCrash

Spec == Init /\ [][Next]_vars

--------------------------------------------------------------------------------
Requests == [server : Servers, run : Runs, content : Contents \cup {None}, vec : {"none", "short", "right"}]
Reasons == {"degraded", "unembedded", "unrecorded"}

TypeOK ==
  /\ exec \in [Workers -> [pc : {"idle", "embed", "done", "record"} \cup Servers,
                           run : Runs \cup {None}, content : Contents \cup {None},
                           vec : {"none", "short", "right"}, tries : 0..MaxRetries + 1,
                           log : [Servers -> Results]]]
  /\ \A w \in Workers : ~At(w, "idle") => exec[w].run \in Runs /\ exec[w].content \in Contents
  /\ late \subseteq Requests
  /\ \A q \in late : q.server = "neo4j" => q.content \in Contents
  /\ vectors \subseteq Runs
  /\ counted \in [Runs -> Contents \cup {None}] /\ weight \in 0..Limit
  /\ job \in [Runs -> {"waiting", "completed"}] /\ deliveries \in [Runs -> Nat]
  /\ compensation \subseteq Runs \X Servers
  /\ excused \subseteq Runs \X Servers \X Reasons

Stored(r, s) == IF s = "milvus" THEN r \in vectors ELSE counted[r] # None

(* What a completed feedback has left out of the external memory has a        *)
(* compensation task, once the backend has gone through the logs, with three  *)
(* exceptions: a call that the fallback answered, a vector that could not be  *)
(* made, and a task that was due and not written, as its INSERT failed or the *)
(* backend stopped after MarkFeedbackCompleted: a retry changes nothing then. *)
LossesExplained ==
  \A r \in Runs, s \in Servers :
    job[r] = "completed" =>
      \/ Stored(r, s) \/ <<r, s>> \in compensation
      \/ \E why \in Reasons : <<r, s, why>> \in excused
      \/ \E w \in Workers : At(w, "record") /\ exec[w].run = r

(* An execution that reports success has written, or someone else has; and    *)
(* what the graph counts for a run that was delivered once is what the        *)
(* profile was given for it.                                                  *)
SuccessIsStored ==
  \A w \in Workers, s \in Servers :
    exec[w].log[s] = "success" =>
      /\ Stored(exec[w].run, s)
      /\ s = "neo4j" /\ deliveries[exec[w].run] = 1 => counted[exec[w].run] = exec[w].content

(* However often calls are repeated, requests arrive late and runs are        *)
(* delivered again, the graph is a ledger that counts every run once.         *)
Ledger == INSTANCE InterestLedger
ImplementsLedger == Ledger!Spec
WeightIsTotal    == Ledger!WeightIsTotal
================================================================================
