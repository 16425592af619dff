-------------------------- MODULE MemoryWrites_proofs --------------------------
(******************************************************************************)
(* What holds of MemoryWrites for any number of runs, workers, retries and    *)
(* deliveries: nothing is left out of the external memory without a trace,    *)
(* success means stored, and the graph counts a run once.                     *)
(******************************************************************************)
EXTENDS MemoryWrites, FiniteSetTheorems, TLAPS

Execs == [pc : {"idle", "embed", "done", "record"} \cup Servers,
          run : Runs \cup {None}, content : Contents \cup {None},
          vec : {"none", "short", "right"}, tries : 0..MaxRetries + 1,
          log : [Servers -> Results]]

(* A worker that is not idle has a run and a content.                         *)
Working(g) == g.pc # "idle" => g.run \in Runs /\ g.content \in Contents

(* What an action of worker w does to its record.                             *)
Becomes(w, g) == exec' = [exec EXCEPT ![w] = g]

(* A call's result in the log.                                                *)
LEMMA LoggedRecord ==
  ASSUME TypeOK, NEW w \in Workers, exec[w].pc \in Servers, NEW result \in Results,
         Logged(w, result)
  PROVE  \E g \in Execs :
           /\ Becomes(w, g)
           /\ g.pc \in {"neo4j", "done"} /\ g.run = exec[w].run /\ g.content = exec[w].content
           /\ \A s \in Servers : g.log[s] = IF s = exec[w].pc THEN result ELSE exec[w].log[s]
<1> DEFINE g == exec[w]
           l == [g.log EXCEPT ![g.pc] = result]
           h == [g EXCEPT !.log = l, !.tries = 0, !.pc = After(g.pc, g.vec)]
<1>1. g \in Execs
  BY DEF TypeOK, Execs
<1>2. g.log \in [Servers -> Results]
  BY <1>1 DEF Execs
<1>3. l \in [Servers -> Results] /\ \A s \in Servers : l[s] = IF s = g.pc THEN result ELSE g.log[s]
  BY <1>2
<1>4. After(g.pc, g.vec) \in {"neo4j", "done"} /\ 0 \in 0..MaxRetries + 1
  BY WritesAssumption DEF After, Servers
<1>5. Becomes(w, h)
  BY DEF Logged, Becomes
<1> HIDE DEF l
<1>6. h \in Execs
  BY <1>1, <1>3, <1>4 DEF Execs, Servers
<1>7. h.pc = After(g.pc, g.vec) /\ h.run = g.run /\ h.content = g.content /\ h.log = l
  BY <1>1 DEF Execs
<1> HIDE DEF h
<1> QED
  BY <1>3, <1>4, <1>5, <1>6, <1>7

(* A typed record for a worker keeps the types of all.                        *)
LEMMA ExecType ==
  ASSUME TypeOK, NEW w \in Workers, NEW g \in Execs, Working(g), Becomes(w, g)
  PROVE  /\ exec' \in [Workers -> Execs]
         /\ \A v \in Workers : exec'[v].pc # "idle" => exec'[v].run \in Runs /\ exec'[v].content \in Contents
         /\ exec'[w] = g /\ \A v \in Workers \ {w} : exec'[v] = exec[v]
  BY DEF TypeOK, Execs, Becomes, Working, At

(* A write keeps the types, takes nothing back, and stores.                   *)
LEMMA Written ==
  ASSUME TypeOK, NEW s \in Servers, NEW r \in Runs, NEW content,
         s = "neo4j" => content \in Contents, Execute(s, r, content)
  PROVE  /\ vectors' \subseteq Runs /\ vectors \subseteq vectors'
         /\ counted' \in [Runs -> Contents \cup {None}] /\ weight' \in 0..Limit
         /\ \A q \in Runs : counted'[q] = counted[q] \/ (q = r /\ s = "neo4j" /\ counted[q] = None
                                                           /\ counted'[q] = content)
         /\ Stored(r, s)'
<1>1. CASE s = "milvus"
  BY <1>1 DEF TypeOK, Execute, Stored, stores
<1>2. CASE s = "neo4j"
  <2>1. content \in Contents /\ content # None
    BY <1>2, WritesAssumption
  <2>2. CASE counted[r] # None
    BY <1>2, <2>2 DEF TypeOK, Execute, Stored, stores
  <2>3. CASE counted[r] = None
    <3>1. vectors' = vectors /\ counted' = [counted EXCEPT ![r] = content]
      BY <1>2, <2>3 DEF Execute
    <3>2. weight' \in 0..Limit
      BY <1>2, <2>1, <2>3, WritesAssumption DEF TypeOK, Execute
    <3> QED
      BY <1>2, <2>1, <2>3, <3>1, <3>2 DEF TypeOK, Stored
  <2> QED
    BY <2>2, <2>3
<1> QED
  BY <1>1, <1>2 DEF Servers

--------------------------------------------------------------------------------
(* Per action: the types, one record per proof step.                          *)
LEMMA LoggedType ==
  ASSUME TypeOK, NEW w \in Workers, exec[w].pc \in Servers, NEW result \in Results,
         Logged(w, result)
  PROVE  /\ exec' \in [Workers -> Execs]
         /\ \A v \in Workers : exec'[v].pc # "idle" => exec'[v].run \in Runs /\ exec'[v].content \in Contents
         /\ \A v \in Workers \ {w} : exec'[v] = exec[v]
         /\ exec'[w].run = exec[w].run /\ exec'[w].content = exec[w].content
         /\ \A s \in Servers : exec'[w].log[s] = IF s = exec[w].pc THEN result ELSE exec[w].log[s]
<1>1. PICK g \in Execs :
        /\ Becomes(w, g)
        /\ g.pc \in {"neo4j", "done"} /\ g.run = exec[w].run /\ g.content = exec[w].content
        /\ \A s \in Servers : g.log[s] = IF s = exec[w].pc THEN result ELSE exec[w].log[s]
  BY LoggedRecord
<1>2. Working(g)
  BY <1>1 DEF Working, TypeOK, At, Servers
<1> QED
  BY <1>1, <1>2, ExecType

LEMMA InitType == Init => TypeOK
<1> SUFFICES ASSUME Init PROVE TypeOK
  OBVIOUS
<1>1. Idle \in Execs
  BY WritesAssumption DEF Idle, Execs, Results
<1>2. exec \in [Workers -> Execs] /\ \A w \in Workers : At(w, "idle")
  BY <1>1 DEF Init, At, Idle
<1> QED
  BY <1>2, WritesAssumption DEF Init, TypeOK, Execs

LEMMA EmbedType ==
  ASSUME TypeOK, NEW w \in Workers, Embed(w)
  PROVE  /\ TypeOK'
         /\ \A v \in Workers : /\ exec'[v].run = exec[v].run /\ exec'[v].content = exec[v].content
                               /\ exec'[v].log = exec[v].log
<1>1. PICK vec \in {"right", "short", "none"} :
        exec' = [exec EXCEPT ![w].vec = vec, ![w].pc = After("embed", vec)]
  BY DEF Embed
<1> DEFINE g == [exec[w] EXCEPT !.vec = vec, !.pc = After("embed", vec)]
<1>2. exec[w] \in Execs /\ exec[w].run \in Runs /\ exec[w].content \in Contents
  BY DEF Embed, TypeOK, Execs, At
<1>3. After("embed", vec) \in Servers
  BY DEF After, Servers
<1>4. g \in Execs /\ g.run = exec[w].run /\ g.content = exec[w].content /\ g.log = exec[w].log
  BY <1>2, <1>3 DEF Execs
<1>5. Becomes(w, g)
  BY <1>1 DEF Becomes
<1> HIDE DEF g
<1>6. Working(g)
  BY <1>2, <1>4 DEF Working
<1>7. /\ exec' \in [Workers -> Execs]
      /\ \A v \in Workers : exec'[v].pc # "idle" => exec'[v].run \in Runs /\ exec'[v].content \in Contents
      /\ exec'[w] = g /\ \A v \in Workers \ {w} : exec'[v] = exec[v]
  BY <1>4, <1>5, <1>6, ExecType
<1> QED
  BY <1>4, <1>7 DEF Embed, TypeOK, Execs, At, stores, backend

LEMMA AnswerType == ASSUME TypeOK, NEW w \in Workers, Answer(w) PROVE TypeOK'
<1>1. exec[w].pc \in Servers /\ exec[w].run \in Runs /\ exec[w].content \in Contents
  BY DEF Answer, TypeOK, At, Servers
<1>2. PICK result \in Results : Logged(w, result)
  BY DEF Answer, Results
<1>3. /\ exec' \in [Workers -> Execs]
      /\ \A v \in Workers : exec'[v].pc # "idle" => exec'[v].run \in Runs /\ exec'[v].content \in Contents
  BY <1>1, <1>2, LoggedType
<1>4. vectors' \subseteq Runs /\ counted' \in [Runs -> Contents \cup {None}] /\ weight' \in 0..Limit
  BY <1>1, Written DEF Answer
<1> QED
  BY <1>3, <1>4 DEF Answer, TypeOK, Execs, At, backend

LEMMA GiveUpType == ASSUME TypeOK, NEW w \in Workers, GiveUp(w) PROVE TypeOK'
<1>1. PICK result \in {"degraded", "failed"} : Logged(w, result)
  BY DEF GiveUp
<1>2. result \in Results /\ exec[w].pc \in Servers
  BY <1>1 DEF Results, GiveUp
<1>3. /\ exec' \in [Workers -> Execs]
      /\ \A v \in Workers : exec'[v].pc # "idle" => exec'[v].run \in Runs /\ exec'[v].content \in Contents
  BY <1>1, <1>2, LoggedType
<1> QED
  BY <1>3 DEF GiveUp, TypeOK, Execs, At, stores, backend

LEMMA FailType ==
  ASSUME TypeOK, NEW w \in Workers, Fail(w)
  PROVE  /\ TypeOK'
         /\ \A v \in Workers : /\ exec'[v].run = exec[v].run /\ exec'[v].content = exec[v].content
                               /\ exec'[v].log = exec[v].log
<1> DEFINE g == [exec[w] EXCEPT !.tries = @ + 1]
<1>1. /\ exec[w] \in Execs /\ exec[w].pc \in Servers
      /\ exec[w].run \in Runs /\ exec[w].content \in Contents
  BY DEF Fail, TypeOK, Execs, At, Servers
<1>2. exec[w].tries + 1 \in 0..MaxRetries + 1
  BY <1>1, WritesAssumption DEF Fail, Execs
<1>3. g \in Execs /\ g.run = exec[w].run /\ g.content = exec[w].content /\ g.log = exec[w].log
  BY <1>1, <1>2 DEF Execs
<1>4. Becomes(w, g)
  BY DEF Fail, Becomes
<1> HIDE DEF g
<1>5. Working(g)
  BY <1>1, <1>3 DEF Working
<1>6. /\ exec' \in [Workers -> Execs]
      /\ \A v \in Workers : exec'[v].pc # "idle" => exec'[v].run \in Runs /\ exec'[v].content \in Contents
      /\ exec'[w] = g /\ \A v \in Workers \ {w} : exec'[v] = exec[v]
  BY <1>3, <1>4, <1>5, ExecType
<1>7. Current(w) \in Requests /\ (Current(w).server = "neo4j" => Current(w).content \in Contents)
  BY <1>1 DEF Current, Requests, Execs, At, Servers
<1>8. late' \subseteq Requests /\ \A q \in late' : q.server = "neo4j" => q.content \in Contents
  BY <1>7 DEF Fail, TypeOK
<1>9. vectors' \subseteq Runs /\ counted' \in [Runs -> Contents \cup {None}] /\ weight' \in 0..Limit
  <2>1. CASE UNCHANGED stores
    BY <2>1 DEF TypeOK, stores
  <2>2. CASE Execute(exec[w].pc, exec[w].run, exec[w].content)
    BY <1>1, <2>2, Written
  <2> QED
    BY <2>1, <2>2 DEF Fail
<1>10. UNCHANGED backend
  BY DEF Fail
<1> QED
  BY <1>3, <1>6, <1>8, <1>9, <1>10 DEF TypeOK, Execs, At, backend

LEMMA ArriveType == ASSUME TypeOK, NEW q \in late, Arrive(q) PROVE TypeOK'
<1>1. q \in Requests /\ (q.server = "neo4j" => q.content \in Contents)
  BY DEF TypeOK
<1>2. vectors' \subseteq Runs /\ counted' \in [Runs -> Contents \cup {None}] /\ weight' \in 0..Limit
  <2>1. CASE UNCHANGED stores
    BY <2>1 DEF TypeOK, stores
  <2>2. CASE Execute(q.server, q.run, q.content)
    <3>1. q.server \in Servers /\ q.run \in Runs
      BY <1>1 DEF Requests
    <3> QED
      BY <1>1, <2>2, <3>1, Written
  <2> QED
    BY <2>1, <2>2 DEF Arrive
<1>3. UNCHANGED <<exec, backend>> /\ late' \subseteq late
  BY DEF Arrive
<1> QED
  BY <1>2, <1>3 DEF TypeOK, At, backend

LEMMA IdleType == Idle \in Execs /\ Working(Idle)
  BY WritesAssumption DEF Idle, Execs, Results, Working

LEMMA CrashType ==
  ASSUME TypeOK, AgentCrash
  PROVE  TypeOK' /\ \A v \in Workers : exec'[v] = exec[v] \/ exec'[v] = Idle
<1>1. \A v \in Workers : exec'[v] = exec[v] \/ exec'[v] = Idle
  BY DEF AgentCrash
<1>2. exec' \in [Workers -> Execs] /\ \A v \in Workers : Working(exec'[v])
  BY <1>1, IdleType DEF AgentCrash, TypeOK, Execs, Working, At
<1>3. UNCHANGED <<late, stores, backend>>
  BY DEF AgentCrash
<1> QED
  BY <1>1, <1>2, <1>3 DEF TypeOK, Execs, Working, At, stores, backend

(* What Deliver gives the worker that takes the run.                          *)
Given(r, content) == [Idle EXCEPT !.pc = "embed", !.run = r, !.content = content]

LEMMA GivenType ==
  ASSUME NEW r \in Runs, NEW content \in Contents
  PROVE  /\ Given(r, content) \in Execs /\ Working(Given(r, content))
         /\ Given(r, content).run = r /\ Given(r, content).content = content
         /\ \A s \in Servers : Given(r, content).log[s] = "none"
<1>1. Idle \in Execs /\ Idle.log = [s \in Servers |-> "none"]
  BY IdleType DEF Idle
<1> HIDE DEF Idle
<1>2. Given(r, content) \in Execs
  BY <1>1 DEF Given, Execs
<1> QED
  BY <1>1, <1>2 DEF Given, Execs, Working

LEMMA DeliverType == ASSUME TypeOK, NEW r \in Runs, Deliver(r) PROVE TypeOK'
<1>1. PICK w \in Workers, content \in Contents : Becomes(w, Given(r, content))
  BY DEF Deliver, Becomes, Given
<1>2. /\ exec' \in [Workers -> Execs]
      /\ \A v \in Workers : exec'[v].pc # "idle" => exec'[v].run \in Runs /\ exec'[v].content \in Contents
  BY <1>1, GivenType, ExecType
<1>3. deliveries' = [deliveries EXCEPT ![r] = @ + 1]
  BY DEF Deliver
<1>4. deliveries' \in [Runs -> Nat]
  BY <1>3 DEF TypeOK
<1>5. UNCHANGED <<late, stores, job, compensation, excused>>
  BY DEF Deliver
<1> QED
  BY <1>2, <1>4, <1>5 DEF TypeOK, Execs, At, stores

(* A worker that has finished is idle again.                                  *)
LEMMA FinishType ==
  ASSUME TypeOK, NEW w \in Workers, exec' = [exec EXCEPT ![w] = Idle]
  PROVE  /\ exec' \in [Workers -> Execs]
         /\ \A v \in Workers : exec'[v].pc # "idle" => exec'[v].run \in Runs /\ exec'[v].content \in Contents
         /\ exec'[w] = Idle /\ \A v \in Workers \ {w} : exec'[v] = exec[v]
<1>1. Becomes(w, Idle)
  BY DEF Becomes
<1> QED
  BY <1>1, IdleType, ExecType

(* The backend takes the response: nothing else of the worker changes.        *)
LEMMA MarkType ==
  ASSUME TypeOK, NEW w \in Workers, MarkFeedbackCompleted(w)
  PROVE  /\ TypeOK'
         /\ exec'[w].pc = "record"
         /\ \A v \in Workers : /\ exec'[v].run = exec[v].run /\ exec'[v].content = exec[v].content
                               /\ exec'[v].log = exec[v].log
<1> DEFINE g == [exec[w] EXCEPT !.pc = "record"]
<1>1. exec[w] \in Execs /\ exec[w].run \in Runs /\ exec[w].content \in Contents
  BY DEF MarkFeedbackCompleted, TypeOK, Execs, At
<1>2. /\ g \in Execs /\ g.pc = "record" /\ g.run = exec[w].run
      /\ g.content = exec[w].content /\ g.log = exec[w].log
  BY <1>1 DEF Execs
<1>3. Becomes(w, g)
  BY DEF MarkFeedbackCompleted, Becomes
<1> HIDE DEF g
<1>4. Working(g)
  BY <1>1, <1>2 DEF Working
<1>5. /\ exec' \in [Workers -> Execs]
      /\ \A v \in Workers : exec'[v].pc # "idle" => exec'[v].run \in Runs /\ exec'[v].content \in Contents
      /\ exec'[w] = g /\ \A v \in Workers \ {w} : exec'[v] = exec[v]
  BY <1>2, <1>3, <1>4, ExecType
<1>6. job' \in [Runs -> {"waiting", "completed"}]
  BY DEF MarkFeedbackCompleted, TypeOK
<1>7. UNCHANGED <<late, stores, deliveries, compensation, excused>>
  BY DEF MarkFeedbackCompleted
<1> QED
  BY <1>2, <1>5, <1>6, <1>7 DEF TypeOK, Execs, At, stores

LEMMA RecordType == ASSUME TypeOK, NEW w \in Workers, RecordCompensation(w) PROVE TypeOK'
<1>1. PICK recorded \in SUBSET Due(w) :
        /\ compensation' = compensation \cup {<<exec[w].run, s>> : s \in recorded}
        /\ excused' = excused \cup Excuses(w, Due(w) \ recorded)
  BY DEF RecordCompensation
<1>2. exec[w].run \in Runs /\ Due(w) \subseteq Servers
  BY DEF RecordCompensation, TypeOK, At, Due
<1>3. compensation' \subseteq Runs \X Servers
  BY <1>1, <1>2 DEF TypeOK
<1>4. excused' \subseteq Runs \X Servers \X Reasons
  BY <1>1, <1>2 DEF TypeOK, Excuses, Reasons
<1>5. /\ exec' \in [Workers -> Execs]
      /\ \A v \in Workers : exec'[v].pc # "idle" => exec'[v].run \in Runs /\ exec'[v].content \in Contents
  BY FinishType DEF RecordCompensation
<1>6. UNCHANGED <<late, stores, job, deliveries>>
  BY DEF RecordCompensation
<1> QED
  BY <1>3, <1>4, <1>5, <1>6 DEF TypeOK, Execs, At, stores

LEMMA DiscardType == ASSUME TypeOK, NEW w \in Workers, Discard(w) PROVE TypeOK'
<1>1. /\ exec' \in [Workers -> Execs]
      /\ \A v \in Workers : exec'[v].pc # "idle" => exec'[v].run \in Runs /\ exec'[v].content \in Contents
  BY FinishType DEF Discard
<1>2. UNCHANGED <<late, stores, backend>>
  BY DEF Discard
<1> QED
  BY <1>1, <1>2 DEF TypeOK, Execs, At, stores, backend

(* Every variable keeps its type; tries stay within max_retries + 1, and the  *)
(* weight within its limit.                                                   *)
LEMMA TypeNext == TypeOK /\ [Next]_vars => TypeOK'
<1> SUFFICES ASSUME TypeOK, [Next]_vars PROVE TypeOK'
  OBVIOUS
<1>1. ASSUME NEW w \in Workers,
             \/ Embed(w) \/ Answer(w) \/ Fail(w) \/ GiveUp(w)
             \/ MarkFeedbackCompleted(w) \/ RecordCompensation(w) \/ Discard(w)
      PROVE  TypeOK'
  BY <1>1, EmbedType, AnswerType, FailType, GiveUpType, MarkType, RecordType, DiscardType
<1>2. ASSUME NEW r \in Runs, Deliver(r)  PROVE TypeOK'
  BY <1>2, DeliverType
<1>3. ASSUME NEW q \in late, Arrive(q)  PROVE TypeOK'
  BY <1>3, ArriveType
<1>4. CASE UNCHANGED vars
  BY <1>4 DEF TypeOK, At, vars, stores, backend
<1> QED
  BY <1>1, <1>2, <1>3, <1>4, CrashType DEF Next

(* Every variable of agent, servers and backend keeps its type: a call makes  *)
(* at most max_retries + 1 tries, the interest's weight stays in its limit.   *)
THEOREM TypeCorrect == Spec => []TypeOK
  BY InitType, TypeNext, PTL DEF Spec

--------------------------------------------------------------------------------
(* Nothing that was written, recorded or excused is taken back.               *)
Grows ==
  /\ vectors \subseteq vectors'
  /\ \A r \in Runs : counted[r] # None => counted'[r] = counted[r]
  /\ compensation \subseteq compensation' /\ excused \subseteq excused'

(* What a write, or none, does to the stores.                                 *)
LEMMA WrittenGrows ==
  ASSUME TypeOK, NEW s \in Servers, NEW r \in Runs, NEW content,
         s = "neo4j" => content \in Contents,
         Execute(s, r, content) \/ UNCHANGED stores, UNCHANGED backend
  PROVE  Grows
<1>1. CASE Execute(s, r, content)
  BY <1>1, Written DEF Grows, backend
<1>2. CASE UNCHANGED stores
  BY <1>2 DEF Grows, stores, backend
<1> QED
  BY <1>1, <1>2

LEMMA Growth ==
  ASSUME TypeOK, [Next]_vars  PROVE Grows
<1>1. CASE UNCHANGED stores /\ UNCHANGED backend
  BY <1>1 DEF Grows, stores, backend
<1>2. ASSUME NEW w \in Workers, Answer(w) \/ Fail(w)  PROVE Grows
  <2>1. exec[w].pc \in Servers /\ exec[w].run \in Runs /\ exec[w].content \in Contents
    BY <1>2 DEF Answer, Fail, TypeOK, At, Servers
  <2>2. Execute(exec[w].pc, exec[w].run, exec[w].content) \/ UNCHANGED stores
    BY <1>2 DEF Answer, Fail
  <2>3. UNCHANGED backend
    BY <1>2 DEF Answer, Fail
  <2> QED
    BY <2>1, <2>2, <2>3, WrittenGrows
<1>3. ASSUME NEW q \in late, Arrive(q)  PROVE Grows
  <2>1. q.server \in Servers /\ q.run \in Runs /\ (q.server = "neo4j" => q.content \in Contents)
    BY DEF TypeOK, Requests
  <2>2. Execute(q.server, q.run, q.content) \/ UNCHANGED stores
    BY <1>3 DEF Arrive
  <2>3. UNCHANGED backend
    BY <1>3 DEF Arrive
  <2> QED
    BY <2>1, <2>2, <2>3, WrittenGrows
<1>4. ASSUME NEW w \in Workers, Embed(w) \/ GiveUp(w)  PROVE Grows
  BY <1>1, <1>4 DEF Embed, GiveUp
<1>5. ASSUME NEW w \in Workers, MarkFeedbackCompleted(w) \/ RecordCompensation(w) \/ Discard(w)
      PROVE  Grows
  <2>1. UNCHANGED stores /\ compensation \subseteq compensation' /\ excused \subseteq excused'
    BY <1>5 DEF MarkFeedbackCompleted, RecordCompensation, Discard, backend
  <2> QED
    BY <2>1 DEF Grows, stores
<1>6. ASSUME NEW r \in Runs, Deliver(r)  PROVE Grows
  <2>1. UNCHANGED <<stores, compensation, excused>>
    BY <1>6 DEF Deliver
  <2> QED
    BY <2>1 DEF Grows, stores
<1>7. CASE AgentCrash \/ UNCHANGED vars
  BY <1>1, <1>7 DEF AgentCrash, vars
<1> QED
  BY <1>2, <1>3, <1>4, <1>5, <1>6, <1>7 DEF Next

LEMMA StoredStays ==
  ASSUME Grows, NEW r \in Runs, NEW s \in Servers, Stored(r, s)
  PROVE  Stored(r, s)'
  BY DEF Grows, Stored

--------------------------------------------------------------------------------
(* Success in an execution's log means that the write is in the store.        *)
SuccessStored ==
  \A w \in Workers, s \in Servers :
    exec[w].log[s] = "success" => exec[w].run \in Runs /\ Stored(exec[w].run, s)

(* A worker whose run and log are kept, or whose log is empty.                *)
LEMMA KeptSuccess ==
  ASSUME SuccessStored, Grows, NEW w \in Workers, NEW s \in Servers,
         \/ exec'[w].run = exec[w].run /\ exec'[w].log[s] = exec[w].log[s]
         \/ exec'[w].log[s] # "success"
  PROVE  (exec[w].log[s] = "success" => exec[w].run \in Runs /\ Stored(exec[w].run, s))'
<1> SUFFICES ASSUME exec'[w].log[s] = "success"
             PROVE  (exec[w].run \in Runs /\ Stored(exec[w].run, s))'
  OBVIOUS
<1>1. exec[w].run \in Runs /\ Stored(exec[w].run, s) /\ exec'[w].run = exec[w].run
  BY DEF SuccessStored
<1>2. vectors \subseteq vectors' /\ (counted[exec[w].run] # None => counted'[exec[w].run] # None)
  BY <1>1 DEF Grows
<1> QED
  BY <1>1, <1>2 DEF Stored

LEMMA SuccessNext == TypeOK /\ SuccessStored /\ [Next]_vars => SuccessStored'
<1> SUFFICES ASSUME TypeOK, SuccessStored, [Next]_vars,
                    NEW v \in Workers, NEW s \in Servers
             PROVE  (exec[v].log[s] = "success" => exec[v].run \in Runs /\ Stored(exec[v].run, s))'
  BY DEF SuccessStored
<1> DEFINE Same  == exec'[v].run = exec[v].run /\ exec'[v].log[s] = exec[v].log[s]
           Clear == exec'[v].log[s] # "success"
<1>0. Grows
  BY Growth
<1>k. CASE Same \/ Clear
  BY <1>0, <1>k, KeptSuccess
<1>1. ASSUME NEW w \in Workers, Answer(w)  PROVE Same \/ (exec[v].run \in Runs /\ Stored(exec[v].run, s))'
  <2>1. exec[w].pc \in Servers /\ exec[w].run \in Runs /\ exec[w].content \in Contents
    BY <1>1 DEF Answer, TypeOK, At, Servers
  <2>2. PICK result \in Results : Logged(w, result)
    BY <1>1 DEF Answer, Results
  <2>3. /\ \A u \in Workers \ {w} : exec'[u] = exec[u]
        /\ exec'[w].run = exec[w].run
        /\ exec'[w].log[s] = IF s = exec[w].pc THEN result ELSE exec[w].log[s]
    BY <2>1, <2>2, LoggedType
  <2>4. PICK r \in Runs, t \in Servers : r = exec[w].run /\ t = exec[w].pc
    BY <2>1
  <2>5. Execute(t, r, exec[w].content)
    BY <1>1, <2>4 DEF Answer
  <2>6. Stored(r, t)'
    BY <2>1, <2>5, Written
  <2>7. IF t = "milvus" THEN r \in vectors' ELSE counted'[r] # None
    BY <2>6 DEF Stored
  <2>8. CASE v = w /\ s = t
    BY <2>3, <2>4, <2>7, <2>8 DEF Stored
  <2>9. CASE ~(v = w /\ s = t)
    BY <2>3, <2>4, <2>9
  <2> QED
    BY <2>8, <2>9
<1>2. ASSUME NEW w \in Workers, GiveUp(w)  PROVE Same \/ Clear
  <2>1. PICK result \in {"degraded", "failed"} : Logged(w, result)
    BY <1>2 DEF GiveUp
  <2>2. result \in Results /\ exec[w].pc \in Servers
    BY <1>2 DEF GiveUp, Results
  <2>3. /\ \A u \in Workers \ {w} : exec'[u] = exec[u]
        /\ exec'[w].run = exec[w].run
        /\ exec'[w].log[s] = IF s = exec[w].pc THEN result ELSE exec[w].log[s]
    BY <2>1, <2>2, LoggedType
  <2> QED
    BY <2>3
<1>3. ASSUME NEW w \in Workers, Embed(w) \/ Fail(w) \/ MarkFeedbackCompleted(w)  PROVE Same
  BY <1>3, EmbedType, FailType, MarkType
<1>4. ASSUME NEW w \in Workers, RecordCompensation(w) \/ Discard(w)  PROVE Same \/ Clear
  <2>1. exec' = [exec EXCEPT ![w] = Idle]
    BY <1>4 DEF RecordCompensation, Discard
  <2>2. exec'[w] = Idle /\ \A u \in Workers \ {w} : exec'[u] = exec[u]
    BY <2>1, FinishType
  <2>3. Idle.log[s] = "none"
    BY DEF Idle
  <2> QED
    BY <2>2, <2>3
<1>5. ASSUME NEW r \in Runs, Deliver(r)  PROVE Same \/ Clear
  <2>1. PICK w \in Workers, content \in Contents : Becomes(w, Given(r, content))
    BY <1>5 DEF Deliver, Becomes, Given
  <2>2. exec'[w] = Given(r, content) /\ \A u \in Workers \ {w} : exec'[u] = exec[u]
    BY <2>1, GivenType, ExecType
  <2> QED
    BY <2>2, GivenType
<1>6. ASSUME AgentCrash  PROVE Same \/ Clear
  <2>1. exec'[v] = exec[v] \/ exec'[v] = Idle
    BY <1>6, CrashType
  <2>2. Idle.log[s] = "none"
    BY DEF Idle
  <2> QED
    BY <2>1, <2>2
<1>7. ASSUME NEW q \in late, Arrive(q)  PROVE Same
  BY <1>7 DEF Arrive
<1>8. CASE UNCHANGED vars
  BY <1>8, <1>k DEF vars
<1> HIDE DEF Same, Clear
<1> QED
  BY <1>k, <1>1, <1>2, <1>3, <1>4, <1>5, <1>6, <1>7, <1>8 DEF Next

--------------------------------------------------------------------------------
Explained(r, s) ==
  \/ Stored(r, s) \/ <<r, s>> \in compensation
  \/ \E why \in Reasons : <<r, s, why>> \in excused

LEMMA ExplainedStays ==
  ASSUME Grows, NEW r \in Runs, NEW s \in Servers, Explained(r, s)
  PROVE  Explained(r, s)'
  BY StoredStays DEF Explained, Grows

(* Each of the four results that a log can hold leaves its trace.             *)
LEMMA RecordExplains ==
  ASSUME TypeOK, SuccessStored, NEW w \in Workers, RecordCompensation(w), NEW s \in Servers
  PROVE  \E r \in Runs : r = exec[w].run /\ Explained(r, s)'
<1>1. PICK recorded \in SUBSET Due(w) :
        /\ compensation' = compensation \cup {<<exec[w].run, t>> : t \in recorded}
        /\ excused' = excused \cup Excuses(w, Due(w) \ recorded)
  BY DEF RecordCompensation
<1>2. PICK r \in Runs : r = exec[w].run
  BY DEF RecordCompensation, TypeOK, At
<1>3. exec[w].log[s] \in {"none", "success", "degraded", "failed"}
  BY DEF TypeOK, Results
<1>4. CASE exec[w].log[s] = "success"
  <2>1. Stored(r, s) /\ UNCHANGED stores
    BY <1>2, <1>4 DEF SuccessStored, RecordCompensation
  <2>2. Stored(r, s)'
    BY <2>1 DEF Stored, stores
  <2> QED
    BY <1>2, <2>2 DEF Explained, Reasons
<1>5. CASE exec[w].log[s] = "failed"
  <2>1. s \in Due(w)
    BY <1>5 DEF Due
  <2>2. <<r, s>> \in compensation' \/ <<r, s, "unrecorded">> \in excused'
    BY <1>1, <1>2, <2>1 DEF Excuses
  <2> QED
    BY <1>2, <2>2 DEF Explained, Reasons
<1>6. CASE exec[w].log[s] = "degraded"
  <2>1. <<r, s, "degraded">> \in excused'
    BY <1>1, <1>2, <1>6 DEF Excuses
  <2> QED
    BY <1>2, <2>1 DEF Explained, Reasons
<1>7. CASE exec[w].log[s] = "none"
  <2>1. <<r, s, "unembedded">> \in excused'
    BY <1>1, <1>2, <1>7 DEF Excuses
  <2> QED
    BY <1>2, <2>1 DEF Explained, Reasons
<1> QED
  BY <1>3, <1>4, <1>5, <1>6, <1>7

(* The backend goes on with a response for r.                                 *)
Recording(r) == \E w \in Workers : At(w, "record") /\ exec[w].run = r

AllExplained ==
  \A r \in Runs, s \in Servers : job[r] = "completed" => Explained(r, s) \/ Recording(r)

(* No one but the backend ends a worker whose response it has.                *)
LEMMA RecordStays ==
  ASSUME TypeOK, NEW w \in Workers, At(w, "record"), [Next]_vars, ~RecordCompensation(w)
  PROVE  exec'[w].pc = "record" /\ exec'[w].run = exec[w].run
<1>1. CASE exec'[w] = exec[w]
  BY <1>1 DEF At
<1>2. ASSUME NEW v \in Workers, \/ Embed(v) \/ Answer(v) \/ Fail(v) \/ GiveUp(v)
                                \/ MarkFeedbackCompleted(v) \/ RecordCompensation(v) \/ Discard(v)
      PROVE  exec'[w] = exec[w]
  <2>1. v # w
    BY <1>2 DEF Embed, Answer, Fail, GiveUp, MarkFeedbackCompleted, Discard, At, Servers
  <2>2. \A h : (exec' = [exec EXCEPT ![v] = h]) => exec'[w] = exec[w]
    BY <2>1 DEF TypeOK
  <2> QED
    BY <1>2, <2>2 DEF Embed, Answer, Fail, GiveUp, MarkFeedbackCompleted, RecordCompensation,
                      Discard, Logged
<1>3. ASSUME NEW r \in Runs, Deliver(r)  PROVE exec'[w] = exec[w]
  <2>1. PICK v \in Workers, content \in Contents : At(v, "idle") /\ Becomes(v, Given(r, content))
    BY <1>3 DEF Deliver, Becomes, Given
  <2>2. v # w
    BY <2>1 DEF At
  <2> QED
    BY <2>1, <2>2 DEF Becomes, TypeOK
<1>4. CASE AgentCrash
  BY <1>1, <1>4 DEF AgentCrash
<1>5. ASSUME NEW q \in late, Arrive(q)  PROVE exec'[w] = exec[w]
  BY <1>5 DEF Arrive
<1> QED
  BY <1>1, <1>2, <1>3, <1>4, <1>5 DEF Next, vars

LEMMA ExplainedNext == TypeOK /\ SuccessStored /\ AllExplained /\ [Next]_vars => AllExplained'
<1> SUFFICES ASSUME TypeOK, SuccessStored, AllExplained, [Next]_vars,
                    NEW r \in Runs, NEW s \in Servers, job'[r] = "completed"
             PROVE  Explained(r, s)' \/ Recording(r)'
  BY DEF AllExplained
<1>1. CASE Explained(r, s)
  BY <1>1, Growth, ExplainedStays
<1>2. CASE Recording(r)
  <2>1. PICK w \in Workers : At(w, "record") /\ exec[w].run = r
    BY <1>2 DEF Recording
  <2>2. CASE RecordCompensation(w)
    BY <2>1, <2>2, RecordExplains
  <2>3. CASE ~RecordCompensation(w)
    BY <2>1, <2>3, RecordStays DEF Recording, At
  <2> QED
    BY <2>2, <2>3
<1>3. CASE job[r] # "completed"
  <2>1. PICK w \in Workers : MarkFeedbackCompleted(w)
    BY <1>3 DEF Next, Embed, Answer, Fail, GiveUp, RecordCompensation, Discard, Deliver, Arrive,
                AgentCrash, vars, backend
  <2>2. exec[w].run = r
    BY <1>3, <2>1 DEF MarkFeedbackCompleted, TypeOK
  <2> QED
    BY <2>1, <2>2, MarkType DEF Recording, At
<1> QED
  BY <1>1, <1>2, <1>3 DEF AllExplained

MemoryInv == TypeOK /\ SuccessStored /\ AllExplained

(* The inductive invariant: a call logged as a success has its write in the   *)
(* store, and every run that the backend has completed is accounted for, or   *)
(* the backend goes on with its response.                                     *)
THEOREM MemoryCorrect == Spec => []MemoryInv
<1>1. Init => SuccessStored /\ AllExplained
  BY DEF Init, Idle, SuccessStored, AllExplained
<1> QED
  BY <1>1, InitType, TypeNext, SuccessNext, ExplainedNext, PTL DEF Spec, MemoryInv

(* A completed feedback that is not in the external memory has left a trace,  *)
(* for any interleaving of executions, redeliveries and late requests.        *)
THEOREM LossesAlwaysExplained == Spec => []LossesExplained
<1>1. MemoryInv => LossesExplained
  BY DEF MemoryInv, AllExplained, Explained, Recording, LossesExplained
<1> QED
  BY <1>1, MemoryCorrect, PTL

--------------------------------------------------------------------------------
(* The graph implements the ledger: a step counts a run that did not count,   *)
(* or does not concern the graph.                                             *)
LEMMA ExecuteCounts ==
  ASSUME NEW s \in Servers, NEW r \in Runs, NEW content,
         s = "neo4j" => content \in Contents,
         Execute(s, r, content) \/ UNCHANGED stores
  PROVE  Ledger!Next \/ UNCHANGED <<counted, weight>>
<1>1. CASE UNCHANGED stores
  BY <1>1 DEF stores
<1>2. CASE Execute(s, r, content) /\ ~UNCHANGED stores /\ s = "neo4j"
  <2>1. Ledger!Count(r, content)
    BY <1>2 DEF Execute, Ledger!Count, Ledger!Capped
  <2> QED
    BY <1>2, <2>1 DEF Ledger!Next
<1>3. CASE Execute(s, r, content) /\ s = "milvus"
  BY <1>3 DEF Execute
<1> QED
  BY <1>1, <1>2, <1>3 DEF Servers

LEMMA StepCounts ==
  ASSUME TypeOK, [Next]_vars
  PROVE  [Ledger!Next]_<<counted, weight>>
<1>1. ASSUME NEW w \in Workers, Answer(w) \/ Fail(w)
      PROVE  Ledger!Next \/ UNCHANGED <<counted, weight>>
  <2>1. exec[w].pc \in Servers /\ exec[w].run \in Runs /\ exec[w].content \in Contents
    BY <1>1 DEF Answer, Fail, TypeOK, At, Servers
  <2>2. Execute(exec[w].pc, exec[w].run, exec[w].content) \/ UNCHANGED stores
    BY <1>1 DEF Answer, Fail
  <2> QED
    BY <2>1, <2>2, ExecuteCounts
<1>2. ASSUME NEW q \in late, Arrive(q)
      PROVE  Ledger!Next \/ UNCHANGED <<counted, weight>>
  <2>1. q.server \in Servers /\ q.run \in Runs /\ (q.server = "neo4j" => q.content \in Contents)
    BY DEF TypeOK, Requests
  <2>2. Execute(q.server, q.run, q.content) \/ UNCHANGED stores
    BY <1>2 DEF Arrive
  <2> QED
    BY <2>1, <2>2, ExecuteCounts
<1>3. ASSUME \/ \E w \in Workers : \/ Embed(w) \/ GiveUp(w)
                                \/ MarkFeedbackCompleted(w) \/ RecordCompensation(w) \/ Discard(w)
             \/ \E r \in Runs : Deliver(r)
             \/ AgentCrash
             \/ UNCHANGED vars
      PROVE  UNCHANGED <<counted, weight>>
  BY <1>3 DEF Embed, GiveUp, MarkFeedbackCompleted, RecordCompensation, Discard, Deliver,
              AgentCrash, vars, stores
<1> QED
  BY <1>1, <1>2, <1>3 DEF Next

(* Agent, servers and backend, with late requests and repeated deliveries,    *)
(* implement UPDATE_QUERY's promise: a ledger that counts every run once.     *)
THEOREM ImplementsLedgerAlways == Spec => ImplementsLedger
<1>1. Init => Ledger!Init
  BY DEF Init, Ledger!Init
<1> QED
  BY <1>1, StepCounts, TypeCorrect, PTL DEF Spec, ImplementsLedger, Ledger!Spec

--------------------------------------------------------------------------------
(* A run that was delivered once has one content, in its execution, in its    *)
(* late requests and in the graph; one not delivered is nowhere.              *)
Holds(r, content) ==
  /\ \A w \in Workers : exec[w].run = r => exec[w].content = content
  /\ \A q \in late : q.run = r /\ q.server = "neo4j" => q.content = content
  /\ counted[r] \in {None, content}
Nowhere(r) ==
  /\ \A w \in Workers : exec[w].run # r
  /\ \A q \in late : q.run # r
  /\ counted[r] = None
OneContent ==
  \A r \in Runs : /\ deliveries[r] = 0 => Nowhere(r)
                  /\ deliveries[r] = 1 => \E content \in Contents : Holds(r, content)

(* A step of a worker that holds the run, or that does not: nothing that it   *)
(* writes or leaves under way was not there before.                           *)
Spreads ==
  /\ \A w \in Workers : \/ exec'[w].run = exec[w].run /\ exec'[w].content = exec[w].content
                        \/ exec'[w].run = None
  /\ \A q \in late' \ late : \E w \in Workers :
       q.run = exec[w].run /\ (q.server = "neo4j" => q.content = exec[w].content)
  /\ \A r \in Runs : \/ counted'[r] = counted[r]
                     \/ \E w \in Workers : exec[w].run = r /\ counted'[r] = exec[w].content
                     \/ \E q \in late : q.run = r /\ q.server = "neo4j" /\ counted'[r] = q.content
  /\ UNCHANGED deliveries

LEMMA SpreadsKeeps ==
  ASSUME OneContent, Spreads, None \notin Runs  PROVE OneContent'
<1> SUFFICES ASSUME NEW r \in Runs
             PROVE  /\ deliveries[r] = 0 => Nowhere(r)'
                    /\ deliveries[r] = 1 => \E content \in Contents : Holds(r, content)'
  BY DEF OneContent, Spreads
<1>1. ASSUME Nowhere(r)  PROVE Nowhere(r)'
  BY <1>1 DEF Nowhere, Spreads
<1>2. ASSUME NEW content \in Contents, Holds(r, content)  PROVE Holds(r, content)'
  BY <1>2 DEF Holds, Spreads
<1> QED
  BY <1>1, <1>2 DEF OneContent

(* A write brings the content it was asked to count.                          *)
LEMMA WrittenContent ==
  ASSUME TypeOK, NEW s \in Servers, NEW q \in Runs, NEW content,
         s = "neo4j" => content \in Contents,
         Execute(s, q, content) \/ UNCHANGED stores
  PROVE  \A r \in Runs : counted'[r] = counted[r] \/ (r = q /\ s = "neo4j" /\ counted'[r] = content)
<1>1. CASE Execute(s, q, content)
  BY <1>1, Written
<1>2. CASE UNCHANGED stores
  BY <1>2 DEF stores
<1> QED
  BY <1>1, <1>2

LEMMA WorkerSpreads ==
  ASSUME TypeOK, NEW w \in Workers,
         \/ Embed(w) \/ Answer(w) \/ Fail(w) \/ GiveUp(w)
         \/ MarkFeedbackCompleted(w) \/ RecordCompensation(w) \/ Discard(w)
  PROVE  Spreads
<1>1. CASE Embed(w)
  <2>1. UNCHANGED <<late, counted, deliveries>>
    BY <1>1 DEF Embed, stores, backend
  <2> QED
    BY <1>1, <2>1, EmbedType DEF Spreads
<1>2. CASE Answer(w)
  <2>1. exec[w].pc \in Servers /\ exec[w].run \in Runs /\ exec[w].content \in Contents
    BY <1>2 DEF Answer, TypeOK, At, Servers
  <2>2. PICK result \in Results : Logged(w, result)
    BY <1>2 DEF Answer, Results
  <2>3. /\ \A u \in Workers \ {w} : exec'[u] = exec[u]
        /\ exec'[w].run = exec[w].run /\ exec'[w].content = exec[w].content
    BY <2>1, <2>2, LoggedType
  <2>4. Execute(exec[w].pc, exec[w].run, exec[w].content)
    BY <1>2 DEF Answer
  <2>5. \A r \in Runs : counted'[r] = counted[r] \/ (r = exec[w].run /\ counted'[r] = exec[w].content)
    BY <2>1, <2>4, WrittenContent
  <2>6. UNCHANGED <<late, deliveries>>
    BY <1>2 DEF Answer, backend
  <2> QED
    BY <2>3, <2>5, <2>6 DEF Spreads
<1>3. CASE Fail(w)
  <2>1. exec[w].pc \in Servers /\ exec[w].run \in Runs /\ exec[w].content \in Contents
    BY <1>3 DEF Fail, TypeOK, At, Servers
  <2>2. Execute(exec[w].pc, exec[w].run, exec[w].content) \/ UNCHANGED stores
    BY <1>3 DEF Fail
  <2>3. \A r \in Runs : counted'[r] = counted[r] \/ (r = exec[w].run /\ counted'[r] = exec[w].content)
    BY <2>1, <2>2, WrittenContent
  <2>4. late' \subseteq late \cup {Current(w)}
    BY <1>3 DEF Fail
  <2>5. Current(w).run = exec[w].run /\ (Current(w).server = "neo4j" => Current(w).content = exec[w].content)
    BY DEF Current
  <2>6. UNCHANGED deliveries
    BY <1>3 DEF Fail, backend
  <2> QED
    BY <1>3, <2>3, <2>4, <2>5, <2>6, FailType DEF Spreads
<1>4. CASE GiveUp(w)
  <2>1. PICK result \in {"degraded", "failed"} : Logged(w, result)
    BY <1>4 DEF GiveUp
  <2>2. result \in Results /\ exec[w].pc \in Servers
    BY <1>4 DEF GiveUp, Results
  <2>3. /\ \A u \in Workers \ {w} : exec'[u] = exec[u]
        /\ exec'[w].run = exec[w].run /\ exec'[w].content = exec[w].content
    BY <2>1, <2>2, LoggedType
  <2>4. UNCHANGED <<late, counted, deliveries>>
    BY <1>4 DEF GiveUp, stores, backend
  <2> QED
    BY <2>3, <2>4 DEF Spreads
<1>5. CASE RecordCompensation(w) \/ Discard(w)
  <2>1. exec' = [exec EXCEPT ![w] = Idle] /\ UNCHANGED <<late, counted, deliveries>>
    BY <1>5 DEF RecordCompensation, Discard, stores, backend
  <2>2. exec'[w] = Idle /\ \A u \in Workers \ {w} : exec'[u] = exec[u]
    BY <2>1, FinishType
  <2>3. Idle.run = None
    BY DEF Idle
  <2> QED
    BY <2>1, <2>2, <2>3 DEF Spreads
<1>6. CASE MarkFeedbackCompleted(w)
  <2>1. UNCHANGED <<late, counted, deliveries>>
    BY <1>6 DEF MarkFeedbackCompleted, stores
  <2> QED
    BY <1>6, <2>1, MarkType DEF Spreads
<1> QED
  BY <1>1, <1>2, <1>3, <1>4, <1>5, <1>6

LEMMA ArriveSpreads ==
  ASSUME TypeOK, NEW q \in late, Arrive(q)  PROVE Spreads
<1>1. q.server \in Servers /\ q.run \in Runs /\ (q.server = "neo4j" => q.content \in Contents)
  BY DEF TypeOK, Requests
<1>2. Execute(q.server, q.run, q.content) \/ UNCHANGED stores
  BY DEF Arrive
<1>3. \A r \in Runs : counted'[r] = counted[r]
                      \/ (r = q.run /\ q.server = "neo4j" /\ counted'[r] = q.content)
  BY <1>1, <1>2, WrittenContent
<1>4. late' \subseteq late /\ UNCHANGED <<exec, deliveries>>
  BY DEF Arrive, backend
<1> QED
  BY <1>3, <1>4 DEF Spreads

LEMMA CrashSpreads ==
  ASSUME TypeOK, AgentCrash \/ UNCHANGED vars  PROVE Spreads
<1>1. CASE AgentCrash
  <2>1. \A w \in Workers : exec'[w] = exec[w] \/ exec'[w] = Idle
    BY <1>1, CrashType
  <2>2. UNCHANGED <<late, counted, deliveries>>
    BY <1>1 DEF AgentCrash, stores, backend
  <2> QED
    BY <2>1, <2>2 DEF Spreads, Idle
<1>2. CASE UNCHANGED vars
  BY <1>2 DEF vars, stores, backend, Spreads
<1> QED
  BY <1>1, <1>2

LEMMA DeliverOne ==
  ASSUME TypeOK, OneContent, NEW q \in Runs, Deliver(q)  PROVE OneContent'
<1>1. PICK w \in Workers, content \in Contents : Becomes(w, Given(q, content))
  BY DEF Deliver, Becomes, Given
<1>2. exec'[w] = Given(q, content) /\ \A u \in Workers \ {w} : exec'[u] = exec[u]
  BY <1>1, GivenType, ExecType
<1>3. exec'[w].run = q /\ exec'[w].content = content
  BY <1>2, GivenType
<1>4. deliveries' = [deliveries EXCEPT ![q] = @ + 1]
  BY DEF Deliver
<1>5. UNCHANGED <<late, counted>>
  BY DEF Deliver, stores
<1>6. deliveries \in [Runs -> Nat]
  BY DEF TypeOK
<1> SUFFICES ASSUME NEW r \in Runs
             PROVE  /\ (deliveries[r] = 0 => Nowhere(r))'
                    /\ (deliveries[r] = 1 => \E c \in Contents : Holds(r, c))'
  BY DEF OneContent
<1>7. CASE r = q
  <2>1. deliveries'[r] = deliveries[r] + 1
    BY <1>4, <1>6, <1>7
  <2>2. deliveries'[r] # 0
    BY <1>6, <2>1
  <2>3. ASSUME deliveries'[r] = 1  PROVE Holds(r, content)'
    <3>1. Nowhere(r)
      BY <1>6, <2>1, <2>3 DEF OneContent
    <3> QED
      BY <1>2, <1>3, <1>5, <1>7, <3>1 DEF Nowhere, Holds
  <2> QED
    BY <2>2, <2>3
<1>8. CASE r # q
  <2>1. deliveries'[r] = deliveries[r]
    BY <1>4, <1>6, <1>8
  <2>2. Nowhere(r) => Nowhere(r)'
    BY <1>2, <1>3, <1>5, <1>8 DEF Nowhere
  <2>3. \A c \in Contents : Holds(r, c) => Holds(r, c)'
    BY <1>2, <1>3, <1>5, <1>8 DEF Holds
  <2> QED
    BY <2>1, <2>2, <2>3 DEF OneContent
<1> QED
  BY <1>7, <1>8

LEMMA OneContentNext == TypeOK /\ OneContent /\ [Next]_vars => OneContent'
<1> SUFFICES ASSUME TypeOK, OneContent, [Next]_vars PROVE OneContent'
  OBVIOUS
<1>1. None \notin Runs
  BY WritesAssumption
<1>2. (\E r \in Runs : Deliver(r)) \/ Spreads
  BY WorkerSpreads, ArriveSpreads, CrashSpreads DEF Next
<1> QED
  BY <1>1, <1>2, DeliverOne, SpreadsKeeps

(* An execution that reports success has its write in the store; and for a    *)
(* run that was delivered once, the graph has counted what the execution has. *)
THEOREM SuccessAlwaysStored == Spec => []SuccessIsStored
<1>1. Init => OneContent
  BY WritesAssumption DEF Init, Idle, OneContent, Nowhere
<1>2. Spec => []OneContent
  BY <1>1, OneContentNext, TypeCorrect, PTL DEF Spec
<1>3. MemoryInv /\ OneContent => SuccessIsStored
  <2> SUFFICES ASSUME MemoryInv, OneContent, NEW w \in Workers, NEW s \in Servers,
                      exec[w].log[s] = "success"
               PROVE  /\ Stored(exec[w].run, s)
                      /\ s = "neo4j" /\ deliveries[exec[w].run] = 1
                           => counted[exec[w].run] = exec[w].content
    BY DEF SuccessIsStored
  <2>1. exec[w].run \in Runs /\ Stored(exec[w].run, s)
    BY DEF MemoryInv, SuccessStored
  <2>2. ASSUME s = "neo4j", deliveries[exec[w].run] = 1
        PROVE  counted[exec[w].run] = exec[w].content
    <3>1. PICK content \in Contents : Holds(exec[w].run, content)
      BY <2>1, <2>2 DEF OneContent
    <3> QED
      BY <2>1, <2>2, <3>1 DEF Holds, Stored
  <2> QED
    BY <2>1, <2>2
<1> QED
  BY <1>2, <1>3, MemoryCorrect, PTL

--------------------------------------------------------------------------------
(* The sum of what counted (InterestLedger), as the fold has it.              *)
Known(c) == {r \in Runs : c[r] # None}
Pick(s)  == CHOOSE x \in s : TRUE

(* f gives every subset of s what its runs add up to, in the order in which   *)
(* the fold of InterestLedger goes through them.                              *)
IsSum(f, c, s) ==
  f = [t \in SUBSET s |-> IF t = {} THEN 0 ELSE f[t \ {Pick(t)}] + Gain[c[Pick(t)]]]
SumOf(c, s) == CHOOSE f : IsSum(f, c, s)

LEMMA TotalFolds ==
  ASSUME NEW c PROVE Ledger!Total(c) = SumOf(c, Known(c))[Known(c)]
BY DEF Ledger!Total, Ledger!FoldSet, Ledger!MapThenFoldSet, SumOf, IsSum, Known, Pick

LEMMA PickFacts == ASSUME NEW s, s # {} PROVE Pick(s) \in s
BY DEF Pick

Steps(f, c, s) ==
  /\ f[{}] = 0
  /\ \A t \in SUBSET s : t # {} =>
       Pick(t) \in t /\ f[t] = f[t \ {Pick(t)}] + Gain[c[Pick(t)]]

LEMMA SumFacts == ASSUME NEW f, NEW c, NEW s, IsSum(f, c, s) PROVE Steps(f, c, s)
<1>1. \A t \in SUBSET s : f[t] = IF t = {} THEN 0 ELSE f[t \ {Pick(t)}] + Gain[c[Pick(t)]]
  BY DEF IsSum
<1> QED BY <1>1, PickFacts DEF Steps

(* Of the subsets of a finite set that a set holds, one has no other below    *)
(* it: what the proofs below do instead of an induction.                      *)
LEMMA Least ==
  ASSUME NEW s, IsFiniteSet(s), NEW odd, odd \subseteq SUBSET s, odd # {}
  PROVE  \E t \in odd : \A u \in SUBSET t : u # t => u \notin odd
<1>1. IsWellFoundedOn(StrictSubsetOrdering(s), SUBSET s)
  BY FS_FiniteSubsetsOfFinite, FS_StrictSubsetOrderingWellFounded
<1>2. PICK t \in odd : \A u \in odd : ~(<<u, t>> \in StrictSubsetOrdering(s))
  BY <1>1, WFMin
<1>3. ASSUME NEW u \in SUBSET t, u # t, u \in odd PROVE FALSE
  BY <1>2, <1>3 DEF StrictSubsetOrdering
<1> QED BY <1>3

LEMMA SumAgrees ==
  ASSUME NEW f, NEW c, NEW s, IsSum(f, c, s), NEW g, NEW d, NEW z, IsSum(g, d, z),
         IsFiniteSet(s), s \subseteq z, \A r \in s : c[r] = d[r]
  PROVE  \A t \in SUBSET s : f[t] = g[t]
<1> DEFINE odd == {t \in SUBSET s : f[t] # g[t]}
<1> SUFFICES ASSUME odd # {} PROVE FALSE
  OBVIOUS
<1>1. PICK t \in odd : \A u \in SUBSET t : u # t => u \notin odd
  <2> HIDE DEF odd
  <2>1. odd \subseteq SUBSET s
    BY DEF odd
  <2> QED BY <2>1, Least
<1>8. Steps(f, c, s) /\ Steps(g, d, z)
  BY SumFacts
<1>2. t \in SUBSET s /\ t \in SUBSET z /\ f[t] # g[t] /\ t # {}
  BY <1>8 DEF Steps
<1>3. Pick(t) \in t /\ t \ {Pick(t)} \in SUBSET t /\ t \ {Pick(t)} # t
  BY <1>2, PickFacts
<1>4. f[t \ {Pick(t)}] = g[t \ {Pick(t)}]
  BY <1>1, <1>2, <1>3
<1>5. f[t] = f[t \ {Pick(t)}] + Gain[c[Pick(t)]]
  BY <1>2, <1>8 DEF Steps
<1>6. g[t] = g[t \ {Pick(t)}] + Gain[d[Pick(t)]]
  BY <1>2, <1>8 DEF Steps
<1>7. c[Pick(t)] = d[Pick(t)]
  BY <1>2, <1>3
<1> QED BY <1>2, <1>4, <1>5, <1>6, <1>7

LEMMA SumExists ==
  ASSUME NEW c, NEW s, IsFiniteSet(s)
  PROVE  IsSum(SumOf(c, s), c, s)
<1> DEFINE odd == {t \in SUBSET s : \A f : ~IsSum(f, c, t)}
<1>1. ASSUME NEW t \in odd, \A u \in SUBSET t : u # t => u \notin odd PROVE FALSE
  <2>1. \A u \in SUBSET t : u # t => IsSum(SumOf(c, u), c, u)
    <3>1. ASSUME NEW u \in SUBSET t, u # t PROVE \E f : IsSum(f, c, u)
      BY <1>1, <3>1
    <3> QED BY <3>1 DEF SumOf
  <2> DEFINE v(u) == SumOf(c, u)[u]
             f == [u \in SUBSET t |->
                     IF u = {} THEN 0 ELSE v(u \ {Pick(u)}) + Gain[c[Pick(u)]]]
  <2>2. ASSUME NEW u \in SUBSET t, u # t PROVE f[u] = v(u)
    <3>3. Steps(SumOf(c, u), c, u)
      BY <2>1, <2>2, SumFacts
    <3>1. CASE u = {}
      BY <3>1, <3>3 DEF Steps
    <3>2. CASE u # {}
      <4> DEFINE w == u \ {Pick(u)}
      <4>1. Pick(u) \in u /\ w \in SUBSET t /\ w # t /\ w \in SUBSET u
        BY <2>2, <3>2, PickFacts
      <4>2. v(u) = SumOf(c, u)[w] + Gain[c[Pick(u)]]
        BY <3>2, <3>3 DEF Steps
      <4>3. IsSum(SumOf(c, w), c, w) /\ IsSum(SumOf(c, u), c, u)
        BY <2>1, <2>2, <4>1
      <4>4. IsFiniteSet(w)
        BY <4>1, FS_Subset
      <4>5. SumOf(c, u)[w] = v(w)
        <5> HIDE DEF w
        <5> QED BY <4>1, <4>3, <4>4, SumAgrees
      <4>6. f[u] = v(w) + Gain[c[Pick(u)]]
        BY <2>2, <3>2
      <4> QED BY <4>2, <4>5, <4>6
    <3> QED BY <3>1, <3>2
  <2>3. \A u \in SUBSET t : u # {} => f[u \ {Pick(u)}] = v(u \ {Pick(u)})
    <3>1. ASSUME NEW u \in SUBSET t, u # {}
          PROVE  u \ {Pick(u)} \in SUBSET t /\ u \ {Pick(u)} # t
      BY <3>1, PickFacts
    <3> HIDE DEF f, v
    <3> QED BY <2>2, <3>1
  <2>4. f = [u \in SUBSET t |-> IF u = {} THEN 0 ELSE f[u \ {Pick(u)}] + Gain[c[Pick(u)]]]
    <3>1. \A u \in SUBSET t :
            f[u] = IF u = {} THEN 0 ELSE v(u \ {Pick(u)}) + Gain[c[Pick(u)]]
      OBVIOUS
    <3>2. f = [u \in SUBSET t |-> f[u]]
      OBVIOUS
    <3> HIDE DEF f, v
    <3>3. \A u \in SUBSET t :
            f[u] = IF u = {} THEN 0 ELSE f[u \ {Pick(u)}] + Gain[c[Pick(u)]]
      BY <2>3, <3>1
    <3> QED BY <3>2, <3>3
  <2>5. IsSum(f, c, t)
    BY <2>4 DEF IsSum
  <2> QED BY <1>1, <2>5
<1>2. odd = {}
  <2>1. odd \subseteq SUBSET s
    OBVIOUS
  <2> HIDE DEF odd
  <2> QED BY <1>1, <2>1, Least
<1>3. \E f : IsSum(f, c, s)
  BY <1>2
<1> QED BY <1>3 DEF SumOf

(* The order in which the fold goes through the runs does not show.           *)
LEMMA SumAdds ==
  ASSUME NEW f, NEW c, NEW s, IsSum(f, c, s), IsFiniteSet(s), \A r \in s : Gain[c[r]] \in Nat
  PROVE  \A t \in SUBSET s : /\ f[t] \in Nat
                             /\ \A r \in s \ t : f[t \cup {r}] = f[t] + Gain[c[r]]
<1>4. Steps(f, c, s)
  BY SumFacts
<1>1. \A t \in SUBSET s : f[t] \in Nat
  <2> DEFINE odd == {t \in SUBSET s : f[t] \notin Nat}
  <2>1. ASSUME NEW t \in odd, \A u \in SUBSET t : u # t => u \notin odd PROVE FALSE
    <3>1. t \in SUBSET s /\ t # {}
      BY <1>4 DEF Steps
    <3>2. Pick(t) \in t /\ f[t] = f[t \ {Pick(t)}] + Gain[c[Pick(t)]]
      BY <1>4, <3>1 DEF Steps
    <3>3. f[t \ {Pick(t)}] \in Nat /\ Gain[c[Pick(t)]] \in Nat
      BY <2>1, <3>1, <3>2
    <3> QED BY <3>2, <3>3
  <2>2. odd \subseteq SUBSET s
    OBVIOUS
  <2>3. odd = {}
    <3> HIDE DEF odd
    <3> QED BY <2>1, <2>2, Least
  <2> QED BY <2>3
<1> DEFINE odd == {t \in SUBSET s : \E r \in s \ t : f[t \cup {r}] # f[t] + Gain[c[r]]}
<1>2. ASSUME NEW t \in odd, \A u \in SUBSET t : u # t => u \notin odd PROVE FALSE
  <2>1. PICK r \in s \ t : f[t \cup {r}] # f[t] + Gain[c[r]]
    OBVIOUS
  <2>2. t \in SUBSET s
    OBVIOUS
  <2> HIDE DEF odd
  <2> DEFINE x == Pick(t \cup {r})
             u == t \ {x}
  <2>3. x \in t \cup {r} /\ f[t \cup {r}] = f[(t \cup {r}) \ {x}] + Gain[c[x]]
    <3>1. t \cup {r} \in SUBSET s /\ t \cup {r} # {}
      BY <2>1, <2>2
    <3> QED BY <1>4, <3>1 DEF Steps
  <2> HIDE DEF x
  <2>4. CASE x = r
    <3>1. (t \cup {r}) \ {x} = t
      BY <2>1, <2>4
    <3> QED BY <2>1, <2>3, <2>4, <3>1
  <2>5. CASE x # r
    <3>1. x \in t /\ u \in SUBSET t /\ u # t /\ (t \cup {r}) \ {x} = u \cup {r} /\ u \cup {x} = t
      BY <2>1, <2>3, <2>5
    <3>2. u \in SUBSET s /\ r \in s \ u /\ x \in s \ u /\ u \notin odd
      BY <1>2, <2>1, <2>2, <3>1
    <3> HIDE DEF u
    <3>3. f[u \cup {r}] = f[u] + Gain[c[r]] /\ f[u \cup {x}] = f[u] + Gain[c[x]]
      BY <3>2 DEF odd
    <3>4. f[u] \in Nat /\ Gain[c[x]] \in Nat /\ Gain[c[r]] \in Nat
      BY <1>1, <3>2
    <3>5. f[t] = f[u] + Gain[c[x]]
      BY <3>1, <3>3
    <3>6. f[t \cup {r}] = (f[u] + Gain[c[r]]) + Gain[c[x]]
      BY <2>3, <3>1, <3>3
    <3> HIDE DEF odd
    <3> QED BY <2>1, <3>4, <3>5, <3>6
  <2> QED BY <2>4, <2>5
<1>3. odd = {}
  <2>1. odd \subseteq SUBSET s
    OBVIOUS
  <2> HIDE DEF odd
  <2> QED BY <1>2, <2>1, Least
<1> QED BY <1>1, <1>3

(* Counting one more run adds what it gains.                                  *)
LEMMA TotalCounts ==
  ASSUME NEW c \in [Runs -> Contents \cup {None}], IsFiniteSet(Known(c)),
         NEW r \in Runs, c[r] = None, NEW content \in Contents
  PROVE  /\ Ledger!Total(c) \in Nat
         /\ Ledger!Total([c EXCEPT ![r] = content]) = Ledger!Total(c) + Gain[content]
         /\ IsFiniteSet(Known([c EXCEPT ![r] = content]))
<1> DEFINE d == [c EXCEPT ![r] = content]
           s == Known(c)
           z == Known(d)
<1>1. None \notin Contents /\ \A x \in Contents : Gain[x] \in Nat
  BY WritesAssumption
<1>2. d[r] = content /\ \A q \in Runs : q # r => d[q] = c[q]
  OBVIOUS
<1> HIDE DEF d
<1>3. z = s \cup {r} /\ r \notin s /\ s \subseteq Runs
  BY <1>1, <1>2 DEF Known
<1>4. IsFiniteSet(z)
  BY <1>3, FS_AddElement
<1>5. /\ \A q \in s : c[q] = d[q] /\ Gain[c[q]] \in Nat
      /\ \A q \in z : Gain[d[q]] \in Nat
  BY <1>1, <1>2, <1>3 DEF Known
<1> HIDE DEF s, z
<1>6. IsSum(SumOf(c, s), c, s) /\ IsSum(SumOf(d, z), d, z)
  BY <1>4, SumExists DEF s
<1>7. SumOf(c, s)[s] = SumOf(d, z)[s]
  BY <1>3, <1>5, <1>6, SumAgrees DEF s
<1>8. SumOf(d, z)[s \cup {r}] = SumOf(d, z)[s] + Gain[d[r]]
  BY <1>3, <1>4, <1>5, <1>6, SumAdds
<1>9. SumOf(c, s)[s] \in Nat
  BY <1>5, <1>6, SumAdds DEF s
<1>10. Ledger!Total(c) = SumOf(c, s)[s] /\ Ledger!Total(d) = SumOf(d, z)[z]
  BY TotalFolds DEF s, z
<1> QED BY <1>2, <1>3, <1>4, <1>7, <1>8, <1>9, <1>10 DEF d, z

LEMMA NothingCounted == Init => IsFiniteSet(Known(counted)) /\ WeightIsTotal
<1> SUFFICES ASSUME Init PROVE IsFiniteSet(Known(counted)) /\ WeightIsTotal
  OBVIOUS
<1>1. Known(counted) = {} /\ weight = 0
  BY DEF Init, Known
<1>2. IsSum(SumOf(counted, {}), counted, {})
  BY SumExists, FS_EmptySet
<1>3. SumOf(counted, {})[{}] = 0
  BY <1>2, SumFacts DEF Steps
<1>4. Ledger!Total(counted) = 0
  BY <1>1, <1>3, TotalFolds
<1>5. Limit \in Nat
  BY WritesAssumption
<1> QED
  BY <1>1, <1>4, <1>5, FS_EmptySet DEF WeightIsTotal, Ledger!WeightIsTotal, Ledger!Capped

(* A limit that is applied at every step is a limit of the sum.               *)
LEMMA CountKeepsTotal ==
  ASSUME TypeOK, IsFiniteSet(Known(counted)), WeightIsTotal,
         [Ledger!Next]_<<counted, weight>>
  PROVE  IsFiniteSet(Known(counted))' /\ WeightIsTotal'
<1>1. CASE UNCHANGED <<counted, weight>>
  <2>1. counted' = counted /\ weight' = weight
    BY <1>1
  <2>2. weight = Ledger!Capped(Ledger!Total(counted))
    BY DEF WeightIsTotal, Ledger!WeightIsTotal
  <2>3. weight' = Ledger!Capped(Ledger!Total(counted'))
    BY <2>1, <2>2
  <2>4. IsFiniteSet(Known(counted'))
    BY <2>1
  <2> QED BY <2>3, <2>4 DEF WeightIsTotal, Ledger!WeightIsTotal
<1>2. ASSUME NEW r \in Runs, NEW content \in Contents, Ledger!Count(r, content)
      PROVE  IsFiniteSet(Known(counted))' /\ WeightIsTotal'
  <2>1. /\ counted[r] = None /\ counted' = [counted EXCEPT ![r] = content]
        /\ weight' = Ledger!Capped(weight + Gain[content])
    BY <1>2 DEF Ledger!Count
  <2>2. counted \in [Runs -> Contents \cup {None}]
    BY DEF TypeOK
  <2>3. /\ Ledger!Total(counted) \in Nat
        /\ Ledger!Total(counted') = Ledger!Total(counted) + Gain[content]
        /\ IsFiniteSet(Known(counted'))
    BY <2>1, <2>2, TotalCounts
  <2>4. Gain[content] \in Nat /\ Limit \in Nat
    BY WritesAssumption
  <2>5. weight = Ledger!Capped(Ledger!Total(counted))
    BY DEF WeightIsTotal, Ledger!WeightIsTotal
  <2>6. weight' = Ledger!Capped(Ledger!Total(counted'))
    BY <2>1, <2>3, <2>4, <2>5 DEF Ledger!Capped
  <2> QED BY <2>3, <2>6 DEF WeightIsTotal, Ledger!WeightIsTotal, Known
<1> QED BY <1>1, <1>2 DEF Ledger!Next

(* What the graph knows is what counted, each run once, up to the limit, for  *)
(* any number of runs and in whatever order they arrive.                      *)
THEOREM WeightAlwaysTotal == Spec => []WeightIsTotal
<1>1. TypeOK /\ IsFiniteSet(Known(counted)) /\ WeightIsTotal /\ [Next]_vars
        => IsFiniteSet(Known(counted))' /\ WeightIsTotal'
  BY StepCounts, CountKeepsTotal
<1> QED
  BY <1>1, NothingCounted, TypeCorrect, PTL DEF Spec
================================================================================
