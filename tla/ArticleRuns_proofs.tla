--------------------------- MODULE ArticleRuns_proofs ---------------------------
(******************************************************************************)
(* What holds of ArticleRuns for any number of goroutines, runs and articles: *)
(* an article belongs to one run, the agent never gets one that has a post    *)
(* unless two executions of its run overlapped, and an article is lost only   *)
(* for the reasons that the model names.                                      *)
(******************************************************************************)
EXTENDS ArticleRuns, TLAPS

Snapshot(w) == runs[worker[w].run].snapshot

(* A goroutine whose run no other has executed, between what the row says and *)
(* what it holds.                                                             *)
Undisturbed(w) ==
  /\ Snapshot(w) \subseteq InHand(w) \cup settled \cup excused
  /\ worker[w].pc \in StartPCs => worker[w].existing \subseteq Snapshot(w)
  /\ worker[w].read.saved => worker[w].read.snapshot = Snapshot(w)
  /\ worker[w].pc \in {"save", "agent"} => worker[w].batch \cap posts = {}
  /\ worker[w].pc \in {"agent", "posts"} => worker[w].batch \subseteq Snapshot(w) \cup excused

(* A goroutine at work.                                                       *)
InvW(w) ==
  \/ worker[w] = Idle
  \/ /\ worker[w].pc # "idle" /\ worker[w].run \in Runs
     /\ runs[worker[w].run].status # "absent"
     /\ worker[w].new \ worker[w].good \subseteq settled
     /\ worker[w].pc \notin {"retry", "claim"} => worker[w].read = NoPartial
     /\ worker[w].pc \notin StartPCs \cup {"fetch", "insert", "resume"} => worker[w].existing = {}
     /\ worker[w].pc \notin {"insert", "resume", "filter"} => worker[w].new = {}
     /\ worker[w].pc \notin {"save", "agent", "posts"} => worker[w].batch = {}
     /\ worker[w].run \notin overlapped => Undisturbed(w)

(* Two goroutines execute one run only if it was retried meanwhile.           *)
Distinct ==
  \A v, w \in Workers :
    v # w /\ worker[v].run = worker[w].run /\ worker[v].run \in Runs
      => worker[v].run \in overlapped

(* A snapshot is in the row of a run that can be retried.                     *)
Resumable == \A r \in Runs : runs[r].snapshot # {} => Recoverable(r)

Known(w) == InHand(w) \cup worker[w].read.snapshot

(* Run r answers for article b, or a goroutine may write b into its row:      *)
(* more than membership in Held(r).                                           *)
Holds(r, b) ==
  \/ b \in runs[r].snapshot
  \/ \E w \in Workers : worker[w].run = r /\ b \in Known(w)

Owned ==
  /\ \A r \in Runs, b \in Articles : Holds(r, b) => b \in stored
  /\ \A q, r \in Runs, b \in Articles : Holds(q, b) /\ Holds(r, b) => q = r

RunsInv ==
  /\ TypeOK
  /\ posts \subseteq settled
  /\ \A w \in Workers : InvW(w)
  /\ Distinct /\ Resumable /\ Owned /\ LossExplained

--------------------------------------------------------------------------------
(* Type correctness.                                                          *)
LEMMA IdleType == Idle \in Goroutine
BY DEF Idle, Goroutine, PCs, StartPCs, Partial, NoPartial

LEMMA TypeInit == Init => TypeOK
BY RunsAssumption, IdleType DEF Init, TypeOK, Idle, Row, Statuses, At

LEMMA SetRunType ==
  ASSUME TypeOK, NEW r \in Runs, NEW status \in Statuses, NEW S \in SUBSET Articles,
         SetRun(r, status, S)
  PROVE  runs' \in [Runs -> Row]
BY DEF TypeOK, SetRun, Row

LEMMA InHandType ==
  ASSUME TypeOK, NEW w \in Workers  PROVE InHand(w) \subseteq Articles
BY DEF TypeOK, InHand, Goroutine

LEMMA OverwrittenType ==
  ASSUME TypeOK, NEW w \in Workers, worker[w].run \in Runs, NEW S
  PROVE  Overwritten(w, S) \subseteq Articles
BY DEF TypeOK, Overwritten, Row

LEMMA WriteBackType ==
  ASSUME TypeOK, NEW w \in Workers, worker[w].run \in Runs, NEW status \in Statuses,
         WriteBack(w, status)
  PROVE  runs' \in [Runs -> Row] /\ excused' \subseteq Articles
<1>. DEFINE S == IF worker[w].read.saved THEN worker[w].read.snapshot
                 ELSE runs[worker[w].run].snapshot
<1>1. worker[w].read \in Partial /\ runs[worker[w].run] \in Row
  BY DEF TypeOK, Goroutine
<1>2. S \in SUBSET Articles
  BY <1>1 DEF Partial, Row
<1>3. runs' = [runs EXCEPT ![worker[w].run] =
                 [status |-> status,
                  saved |-> runs[worker[w].run].saved \/ worker[w].read.saved,
                  snapshot |-> S]]
  BY DEF WriteBack
<1>4. runs' \in [Runs -> Row]
  BY <1>1, <1>2, <1>3 DEF TypeOK, Row, Partial
<1>5. excused' \subseteq Articles
  BY OverwrittenType DEF WriteBack, TypeOK
<1>. QED  BY <1>4, <1>5

LEMMA LeaveType ==
  ASSUME TypeOK, NEW w \in Workers, Leave(w)
  PROVE  /\ runs' \in [Runs -> Row] /\ excused' \subseteq Articles
         /\ worker' \in [Workers -> Goroutine]
         /\ \A v \in Workers : ~At(v, "idle")' => worker'[v].run \in Runs
<1>1. excused' \subseteq Articles /\ runs' \in [Runs -> Row]
  BY InHandType DEF Leave, TypeOK
<1>2. worker' = [worker EXCEPT ![w] = Idle]
  BY DEF Leave, Become
<1>3. /\ worker' \in [Workers -> Goroutine]
      /\ \A v \in Workers : ~At(v, "idle")' => worker'[v].run \in Runs
  BY <1>2, IdleType DEF TypeOK, At, Idle
<1>. QED  BY <1>1, <1>3

LEMMA BecomeType ==
  ASSUME TypeOK, NEW w \in Workers, NEW g \in Goroutine, Become(w, g),
         g.pc # "idle" => g.run \in Runs
  PROVE  /\ worker' \in [Workers -> Goroutine]
         /\ \A v \in Workers : ~At(v, "idle")' => worker'[v].run \in Runs
BY DEF TypeOK, Become, At

(* Every variable keeps its type.                                             *)
THEOREM TypeCorrect == Spec => []TypeOK
<1>1. TypeOK /\ [Next]_vars => TypeOK'
  <2>. SUFFICES ASSUME TypeOK, [Next]_vars  PROVE TypeOK'
    OBVIOUS
  <2>. USE DEF At
  <2>f. ASSUME NEW w \in Workers, NEW status \in Statuses, NEW S \in SUBSET Articles,
               worker[w].run \in Runs, Finish(w, status, S)
        PROVE  /\ runs' \in [Runs -> Row]
               /\ excused' \subseteq Articles
    BY <2>f, SetRunType, InHandType, OverwrittenType DEF Finish, TypeOK
  <2>a. ASSUME NEW w \in Workers, NEW status \in Statuses, worker[w].run \in Runs,
               Abandon(w, status)
        PROVE  /\ runs' \in [Runs -> Row]
               /\ excused' \subseteq Articles
    BY <2>a, SetRunType, InHandType, OverwrittenType DEF Abandon, TypeOK
  <2>s. ASSUME NEW w \in Workers, NEW S \in SUBSET Articles, worker[w].run \in Runs,
               SavePartial(w, S)
        PROVE  /\ runs' \in [Runs -> Row]
               /\ excused' \subseteq Articles
    BY <2>s, SetRunType, InHandType, OverwrittenType DEF SavePartial, TypeOK, Statuses
  <2>b. ASSUME NEW w \in Workers  PROVE worker[w].batch \in SUBSET Articles
    BY DEF TypeOK, Goroutine
  <2>1. ASSUME NEW w \in Workers, NEW r \in Runs, RunArticles(w, r)  PROVE TypeOK'
    <3>1. worker' \in [Workers -> Goroutine] /\ \A v \in Workers : ~At(v, "idle")' => worker'[v].run \in Runs
      BY <2>1, IdleType DEF TypeOK, Goroutine, PCs, StartPCs, Idle, Become, RunArticles
    <3>2. runs' \in [Runs -> Row]
      BY <2>1 DEF TypeOK, RunArticles, Row, Statuses
    <3>. QED  BY <2>1, <3>1, <3>2 DEF TypeOK, RunArticles
  <2>2. ASSUME NEW w \in Workers, NEW r \in Runs, RetryTask(w, r)  PROVE TypeOK'
    <3>. DEFINE read == [saved |-> runs[r].saved, snapshot |-> runs[r].snapshot]
                g == [Idle EXCEPT !.pc = "retry", !.run = r, !.existing = runs[r].snapshot,
                                  !.read = read]
    <3>1. runs[r].snapshot \in SUBSET Articles /\ read \in Partial
      BY DEF TypeOK, Row, Partial
    <3>2. g \in Goroutine /\ g.run = r
      BY <3>1, IdleType DEF Goroutine, PCs, StartPCs, Idle
    <3>3. retries' \in 0..MaxRetries
      BY <2>2, RunsAssumption DEF RetryTask, TypeOK
    <3>4. worker' \in [Workers -> Goroutine] /\ \A v \in Workers : ~At(v, "idle")' => worker'[v].run \in Runs
      BY <2>2, <3>2, BecomeType DEF RetryTask
    <3>. QED  BY <2>2, <3>3, <3>4 DEF RetryTask, TypeOK
  <2>b1. ASSUME NEW w \in Workers, worker[w].run \in Runs, NEW pc \in PCs, NEW p \in Partial,
                Become(w, [worker[w] EXCEPT !.pc = pc, !.read = p])
         PROVE  worker' \in [Workers -> Goroutine] /\ \A v \in Workers : ~At(v, "idle")' => worker'[v].run \in Runs
    <3>. DEFINE g == [worker[w] EXCEPT !.pc = pc, !.read = p]
    <3>1. g \in Goroutine /\ g.run = worker[w].run
      BY DEF TypeOK, Goroutine
    <3>. QED  BY <2>b1, <3>1, BecomeType
  <2>p. NoPartial \in Partial
    BY DEF NoPartial, Partial
  <2>18. ASSUME NEW w \in Workers, RetryToPending(w)  PROVE TypeOK'
    <3>1. worker[w].run \in Runs /\ "select" \in PCs /\ "pending" \in Statuses
      BY <2>18 DEF RetryToPending, TypeOK, PCs, StartPCs, Statuses
    <3>. QED  BY <2>18, <3>1, <2>b1, <2>p, WriteBackType DEF RetryToPending, TypeOK
  <2>19. ASSUME NEW w \in Workers, Refused(w)  PROVE TypeOK'
    BY <2>19, LeaveType DEF Refused, TypeOK
  <2>20. ASSUME NEW w \in Workers, ReadRun(w)  PROVE TypeOK'
    <3>. DEFINE p == [saved |-> runs[worker[w].run].saved,
                      snapshot |-> runs[worker[w].run].snapshot]
    <3>1. worker[w].run \in Runs /\ "claim" \in PCs
      BY <2>20 DEF ReadRun, TypeOK, PCs, StartPCs
    <3>2. p \in Partial
      BY <3>1 DEF TypeOK, Row, Partial
    <3>3. CASE Leave(w)
      BY <2>20, <3>3, LeaveType DEF ReadRun, TypeOK
    <3>4. CASE ~Leave(w)
      <4>1. /\ Become(w, [worker[w] EXCEPT !.pc = "claim", !.read = p])
            /\ UNCHANGED <<runs, excused>>
        BY <2>20, <3>4 DEF ReadRun
      <4>2. worker' \in [Workers -> Goroutine] /\ \A v \in Workers : ~At(v, "idle")' => worker'[v].run \in Runs
        BY <4>1, <3>1, <3>2, <2>b1
      <4>. QED  BY <2>20, <4>1, <4>2 DEF ReadRun, TypeOK
    <3>. QED  BY <3>3, <3>4
  <2>21. ASSUME NEW w \in Workers, Claim(w)  PROVE TypeOK'
    <3>1. worker[w].run \in Runs /\ "fetch" \in PCs /\ "running" \in Statuses
      BY <2>21 DEF Claim, TypeOK, PCs, StartPCs, Statuses
    <3>. QED  BY <2>21, <3>1, <2>b1, <2>p, WriteBackType DEF Claim, TypeOK
  <2>3. ASSUME NEW w \in Workers, Cancelled(w)  PROVE TypeOK'
    <3>1. worker' \in [Workers -> Goroutine] /\ \A v \in Workers : ~At(v, "idle")' => worker'[v].run \in Runs
      BY <2>3, IdleType DEF TypeOK, Goroutine, PCs, Idle, Become, Cancelled, Abandon, Statuses
    <3>. QED  BY <2>3, <3>1, <2>a DEF TypeOK, Goroutine, Cancelled, Abandon, Statuses
  <2>4. ASSUME NEW w \in Workers, StatementFails(w)  PROVE TypeOK'
    <3>1. worker' \in [Workers -> Goroutine] /\ \A v \in Workers : ~At(v, "idle")' => worker'[v].run \in Runs
      BY <2>4, IdleType DEF TypeOK, Goroutine, PCs, Idle, Become, StatementFails, Abandon, Statuses
    <3>. QED  BY <2>4, <3>1, <2>a DEF TypeOK, Goroutine, StatementFails, Abandon, Statuses
  <2>5. ASSUME NEW w \in Workers, FetchArticles(w)  PROVE TypeOK'
    <3>. PICK S \in SUBSET Articles :
           Become(w, [worker[w] EXCEPT !.pc = "insert", !.todo = S])
      BY <2>5 DEF FetchArticles
    <3>. DEFINE g == [worker[w] EXCEPT !.pc = "insert", !.todo = S]
    <3>1. g \in Goroutine /\ g.run = worker[w].run
      BY DEF TypeOK, Goroutine, PCs
    <3>. QED  BY <2>5, <3>1, BecomeType DEF FetchArticles, TypeOK
  <2>6. ASSUME NEW w \in Workers, NEW a \in Articles, InsertArticle(w, a)  PROVE TypeOK'
    <3>. DEFINE g1 == [worker[w] EXCEPT !.todo = @ \ {a}]
                g2 == [worker[w] EXCEPT !.todo = @ \ {a}, !.new = @ \cup {a}]
                g3 == [worker[w] EXCEPT !.todo = @ \ {a}, !.new = @ \cup {a},
                                        !.good = @ \cup {a}]
    <3>1. worker[w] \in Goroutine /\ worker[w].run \in Runs
      BY <2>6 DEF TypeOK, InsertArticle
    <3>2. /\ g1 \in Goroutine /\ g1.run = worker[w].run
          /\ g2 \in Goroutine /\ g2.run = worker[w].run
          /\ g3 \in Goroutine /\ g3.run = worker[w].run
      BY <3>1 DEF Goroutine
    <3>3. /\ Become(w, g1) \/ Become(w, g2) \/ Become(w, g3)
          /\ settled' \in {settled, settled \cup {a}}
      BY <2>6 DEF InsertArticle, TakeArticle
    <3>4. worker' \in [Workers -> Goroutine] /\ \A v \in Workers : ~At(v, "idle")' => worker'[v].run \in Runs
      BY <3>1, <3>2, <3>3, BecomeType
    <3>. QED  BY <2>6, <3>3, <3>4 DEF InsertArticle, TypeOK
  <2>7. ASSUME NEW w \in Workers, SaveArticles(w)  PROVE TypeOK'
    <3>1. worker' \in [Workers -> Goroutine] /\ \A v \in Workers : ~At(v, "idle")' => worker'[v].run \in Runs
      BY <2>7, IdleType DEF TypeOK, Goroutine, PCs, Idle, Become, SaveArticles
    <3>. QED  BY <2>7, <3>1, <2>s DEF TypeOK, Goroutine, SaveArticles
  <2>8. ASSUME NEW w \in Workers, Resume(w)  PROVE TypeOK'
    <3>. DEFINE use == IF worker[w].new = {} THEN worker[w].existing ELSE worker[w].new
                good == IF worker[w].new = {} THEN worker[w].existing ELSE worker[w].good
                g == [worker[w] EXCEPT !.pc = "filter", !.new = use, !.existing = {}, !.good = good]
    <3>1. worker[w] \in Goroutine /\ worker[w].run \in Runs
      BY <2>8 DEF TypeOK, Resume
    <3>2. use \in SUBSET Articles /\ good \in SUBSET Articles
      BY <3>1 DEF Goroutine
    <3>3. g \in Goroutine /\ g.run = worker[w].run
      BY <3>1, <3>2 DEF Goroutine, PCs
    <3>4. Become(w, g)
      BY <2>8, <3>1 DEF Resume, Goroutine
    <3>5. worker' \in [Workers -> Goroutine] /\ \A v \in Workers : ~At(v, "idle")' => worker'[v].run \in Runs
      BY <3>1, <3>3, <3>4, BecomeType
    <3>6. excused' \subseteq Articles
      BY <2>8, <3>1 DEF Resume, TypeOK, Goroutine
    <3>. QED  BY <2>8, <3>5, <3>6 DEF Resume, TypeOK
  <2>9. ASSUME NEW w \in Workers, Filter(w)  PROVE TypeOK'
    <3>1. worker' \in [Workers -> Goroutine] /\ \A v \in Workers : ~At(v, "idle")' => worker'[v].run \in Runs
      BY <2>9, IdleType DEF TypeOK, Goroutine, PCs, Idle, Become, Filter
    <3>. QED  BY <2>9, <3>1 DEF TypeOK, Goroutine, Filter
  <2>10. ASSUME NEW w \in Workers, NothingToDo(w)  PROVE TypeOK'
    <3>1. PICK status \in {"completed", "failed"} : Finish(w, status, {})
      BY <2>10 DEF NothingToDo
    <3>2. worker[w].run \in Runs
      BY <2>10 DEF NothingToDo, TypeOK
    <3>3. worker' \in [Workers -> Goroutine] /\ \A v \in Workers : ~At(v, "idle")' => worker'[v].run \in Runs
      BY <3>1, IdleType, BecomeType DEF Finish, Idle
    <3>. QED  BY <2>10, <3>1, <3>2, <3>3, <2>f DEF NothingToDo, TypeOK, Statuses
  <2>11. ASSUME NEW w \in Workers, SaveSnapshot(w)  PROVE TypeOK'
    <3>1. worker' \in [Workers -> Goroutine] /\ \A v \in Workers : ~At(v, "idle")' => worker'[v].run \in Runs
      BY <2>11, IdleType DEF TypeOK, Goroutine, PCs, Idle, Become, SaveSnapshot
    <3>. QED  BY <2>11, <3>1, <2>s, <2>b DEF TypeOK, Goroutine, SaveSnapshot
  <2>12. ASSUME NEW w \in Workers, ProcessArticles(w)  PROVE TypeOK'
    <3>. PICK keep \in SUBSET worker[w].batch :
           /\ Become(w, [worker[w] EXCEPT !.pc = "posts", !.batch = keep])
           /\ settled' = settled \cup (worker[w].batch \ keep)
      BY <2>12 DEF ProcessArticles
    <3>. DEFINE g == [worker[w] EXCEPT !.pc = "posts", !.batch = keep]
    <3>1. g \in Goroutine /\ g.run = worker[w].run
      BY DEF TypeOK, Goroutine, PCs
    <3>2. settled' \subseteq Articles
      BY <2>b DEF TypeOK
    <3>. QED  BY <2>12, <3>1, <3>2, BecomeType DEF ProcessArticles, TypeOK
  <2>13. ASSUME NEW w \in Workers, AgentFails(w)  PROVE TypeOK'
    <3>1. worker' \in [Workers -> Goroutine] /\ \A v \in Workers : ~At(v, "idle")' => worker'[v].run \in Runs
      BY <2>13, IdleType DEF TypeOK, Goroutine, PCs, Idle, Become, AgentFails, Finish, Statuses
    <3>. QED  BY <2>13, <3>1, <2>f, <2>b DEF TypeOK, Goroutine, AgentFails, Finish, Statuses
  <2>14. ASSUME NEW w \in Workers, NEW a \in Articles, InsertPost(w, a)  PROVE TypeOK'
    <3>1. worker' \in [Workers -> Goroutine] /\ \A v \in Workers : ~At(v, "idle")' => worker'[v].run \in Runs
      BY <2>14, IdleType DEF TypeOK, Goroutine, PCs, Idle, Become, InsertPost
    <3>. QED  BY <2>14, <3>1 DEF TypeOK, Goroutine, InsertPost
  <2>15. ASSUME NEW w \in Workers, SavePosts(w)  PROVE TypeOK'
    <3>1. worker' \in [Workers -> Goroutine] /\ \A v \in Workers : ~At(v, "idle")' => worker'[v].run \in Runs
      BY <2>15, IdleType DEF TypeOK, Goroutine, PCs, Idle, Become, SavePosts
    <3>. QED  BY <2>15, <3>1, <2>s DEF TypeOK, Goroutine, SavePosts
  <2>16. ASSUME NEW w \in Workers, WriteMarkdown(w)  PROVE TypeOK'
    <3>1. PICK status \in {"completed", "partially_completed"} : Finish(w, status, {})
      BY <2>16 DEF WriteMarkdown
    <3>2. worker[w].run \in Runs
      BY <2>16 DEF WriteMarkdown, TypeOK
    <3>3. worker' \in [Workers -> Goroutine] /\ \A v \in Workers : ~At(v, "idle")' => worker'[v].run \in Runs
      BY <3>1, IdleType, BecomeType DEF Finish, Idle
    <3>. QED  BY <2>16, <3>1, <3>2, <3>3, <2>f DEF WriteMarkdown, TypeOK, Statuses
  <2>17. CASE Crash
    <3>1. excused' \subseteq Articles
      BY <2>17, InHandType DEF Crash, Unsaved, TypeOK
    <3>2. runs' \in [Runs -> Row]
      BY <2>17 DEF Crash, Recovered, TypeOK, Row, Statuses
    <3>. QED  BY <2>17, <3>1, <3>2, IdleType DEF TypeOK, Crash, Idle
  <2>22. CASE UNCHANGED vars
    BY <2>22 DEF TypeOK, vars
  <2>. QED  BY <2>1, <2>2, <2>3, <2>4, <2>5, <2>6, <2>7, <2>8, <2>9, <2>10, <2>11, <2>12, <2>13, <2>14, <2>15, <2>16, <2>17, <2>18, <2>19, <2>20, <2>21, <2>22 DEF Next, Step
<1>. QED  BY <1>1, TypeInit, PTL DEF Spec

--------------------------------------------------------------------------------
(* A step of one goroutine, as the other goroutines and runs see it.          *)
LocalStep(w) ==
  /\ \A v \in Workers : v # w => worker'[v] = worker[v]
  /\ worker'[w].run \in {worker[w].run, None}
  /\ InHand(w)' \subseteq InHand(w)
  /\ worker'[w].read.snapshot \subseteq Snapshot(w)
  /\ \A r \in Runs : r # worker[w].run => runs'[r] = runs[r]
  /\ runs'[worker[w].run].status # "absent"
  /\ runs'[worker[w].run].snapshot \subseteq Snapshot(w) \cup Known(w)
  /\ runs'[worker[w].run].snapshot # {} =>
       runs'[worker[w].run].status \in RetryableStatuses \cup {"running"}
  /\ settled \subseteq settled' /\ excused \subseteq excused'
  /\ UNCHANGED <<stored, overlapped>>
  /\ posts' \subseteq posts \cup InHand(w)

(* No article in hand gets out of sight.                                      *)
Carried(w) ==
  \A b \in InHand(w) :
    \/ b \in settled' \cup excused' \cup InHand(w)'
    \/ b \in runs'[worker[w].run].snapshot

(* Nor one of the snapshot, where another goroutine may have put it.          *)
Rewritten(w) ==
  worker[w].run \in overlapped =>
    Snapshot(w) \subseteq excused' \cup InHand(w) \cup runs'[worker[w].run].snapshot

LEMMA LocalHolds ==
  ASSUME TypeOK, NEW w \in Workers, worker[w].run \in Runs, LocalStep(w),
         NEW r \in Runs, NEW b \in Articles, Holds(r, b)'
  PROVE  Holds(r, b)
<1>1. CASE b \in runs'[r].snapshot
  <2>1. CASE r # worker[w].run
    BY <1>1, <2>1 DEF LocalStep, Holds
  <2>2. CASE r = worker[w].run
    BY <1>1, <2>2 DEF LocalStep, Holds, Snapshot
  <2>. QED  BY <2>1, <2>2
<1>2. ASSUME NEW v \in Workers, worker'[v].run = r, b \in Known(v)'  PROVE Holds(r, b)
  <2>1. CASE v # w
    BY <1>2, <2>1 DEF LocalStep, Holds, Known, InHand
  <2>2. CASE v = w
    BY <1>2, <2>2, RunsAssumption DEF LocalStep, Holds, Known, Snapshot
  <2>. QED  BY <2>1, <2>2
<1>. QED  BY <1>1, <1>2 DEF Holds

LEMMA LocalOthers ==
  ASSUME RunsInv, NEW w \in Workers, worker[w].run \in Runs, LocalStep(w)
  PROVE  /\ Distinct' /\ Owned' /\ Resumable'
         /\ \A v \in Workers : v # w => InvW(v)'
<1>1. Distinct'
  BY RunsAssumption DEF RunsInv, Distinct, LocalStep
<1>2. Owned'
  BY LocalHolds DEF RunsInv, Owned, LocalStep
<1>3. Resumable'
  BY DEF RunsInv, Resumable, LocalStep, Recoverable
<1>4. ASSUME NEW v \in Workers, v # w  PROVE InvW(v)'
  <2>1. worker'[v] = worker[v]
    BY <1>4 DEF LocalStep
  <2>2. InHand(v)' = InHand(v)
    BY <2>1 DEF InHand
  <2>3. CASE worker[v] = Idle
    BY <2>1, <2>3 DEF InvW, Idle, NoPartial
  <2>4. CASE worker[v] # Idle
    <3>1. /\ worker[v].run \in Runs /\ InvW(v)
          /\ worker[v].run = worker[w].run => worker[v].run \in overlapped
      BY <1>4, <2>4 DEF RunsInv, InvW, Distinct
    <3>2. runs'[worker[v].run].status # "absent"
      BY <2>4, <3>1 DEF InvW, LocalStep
    <3>3. ASSUME worker[v].run \notin overlapped  PROVE Undisturbed(v)'
      <4>1. worker[v].run # worker[w].run /\ runs'[worker[v].run] = runs[worker[v].run]
        BY <3>1, <3>3 DEF LocalStep
      <4>2. ASSUME NEW b \in worker[v].batch  PROVE b \notin InHand(w)
        <5>1. b \in Articles
          BY DEF RunsInv, TypeOK, Goroutine
        <5>2. Holds(worker[v].run, b)
          BY DEF Holds, Known, InHand
        <5>3. b \in InHand(w) => Holds(worker[w].run, b)
          BY DEF Holds, Known
        <5>. QED  BY <3>1, <4>1, <5>1, <5>2, <5>3 DEF RunsInv, Owned
      <4>3. worker[v].batch \cap posts = {} => worker[v].batch \cap posts' = {}
        BY <4>2 DEF LocalStep
      <4>4. Undisturbed(v) /\ settled \subseteq settled' /\ excused \subseteq excused'
        BY <2>4, <3>1, <3>3 DEF InvW, LocalStep
      <4>5. Snapshot(v)' = Snapshot(v)
        BY <2>1, <4>1 DEF Snapshot
      <4>. QED  BY <2>1, <2>2, <4>3, <4>4, <4>5 DEF Undisturbed
    <3>4. /\ settled \subseteq settled' /\ overlapped' = overlapped
      BY DEF LocalStep
    <3>. QED  BY <2>1, <2>4, <3>1, <3>2, <3>3, <3>4 DEF InvW
  <2>. QED  BY <2>3, <2>4
<1>. QED  BY <1>1, <1>2, <1>3, <1>4

LEMMA LocalLoss ==
  ASSUME RunsInv, NEW w \in Workers, worker[w].run \in Runs, worker[w] # Idle,
         LocalStep(w), Carried(w), Rewritten(w)
  PROVE  LossExplained'
<1>. SUFFICES ASSUME NEW b \in Articles, b \in stored, b \notin excused'
              PROVE  Kept(b)'
  BY DEF LossExplained, LocalStep, RunsInv, TypeOK
<1>1. Kept(b)
  BY DEF RunsInv, LossExplained, LocalStep
<1>2. CASE b \in settled
  BY <1>2 DEF Kept, LocalStep
<1>3. b \in runs'[worker[w].run].snapshot => Kept(b)'
  BY DEF LocalStep, Kept, Recoverable
<1>4. CASE b \in InHand(w)
  BY <1>3, <1>4 DEF Kept, Carried
<1>5. ASSUME NEW v \in Workers, v # w, b \in InHand(v)  PROVE Kept(b)'
  BY <1>5 DEF Kept, LocalStep, InHand
<1>6. ASSUME NEW r \in Runs, Recoverable(r), b \in runs[r].snapshot  PROVE Kept(b)'
  <2>1. CASE r # worker[w].run
    BY <1>6, <2>1 DEF Kept, LocalStep, Recoverable
  <2>2. CASE r = worker[w].run /\ r \in overlapped
    BY <1>3, <1>4, <1>6, <2>2 DEF Rewritten, Snapshot
  <2>3. CASE r = worker[w].run /\ r \notin overlapped
    <3>1. b \in InHand(w) \cup settled \cup excused
      BY <1>6, <2>3 DEF RunsInv, InvW, Undisturbed, Snapshot
    <3>. QED  BY <3>1, <1>2, <1>4 DEF LocalStep
  <2>. QED  BY <2>1, <2>2, <2>3
<1>. QED  BY <1>1, <1>2, <1>4, <1>5, <1>6 DEF Kept

(* Together: what remains to be shown of a step.                              *)
LEMMA LocalInv ==
  ASSUME RunsInv, TypeOK', NEW w \in Workers, worker[w].run \in Runs, worker[w] # Idle,
         LocalStep(w), Carried(w), Rewritten(w), InvW(w)', posts' \subseteq settled'
  PROVE  RunsInv'
BY LocalOthers, LocalLoss DEF RunsInv

(* A goroutine that ends, whatever it wrote.                                  *)
LEMMA IdleInv ==
  ASSUME RunsInv, TypeOK', NEW w \in Workers, worker[w].run \in Runs, worker[w] # Idle,
         Become(w, Idle), UNCHANGED <<stored, posts, settled, overlapped>>,
         excused \subseteq excused',
         \A r \in Runs : r # worker[w].run => runs'[r] = runs[r],
         runs'[worker[w].run].status # "absent",
         runs'[worker[w].run].snapshot \subseteq Snapshot(w) \cup InHand(w),
         runs'[worker[w].run].snapshot # {} =>
       runs'[worker[w].run].status \in RetryableStatuses \cup {"running"},
         InHand(w) \subseteq settled \cup excused' \cup runs'[worker[w].run].snapshot,
         Rewritten(w)
  PROVE  RunsInv'
<1>1. worker'[w] = Idle /\ \A v \in Workers : v # w => worker'[v] = worker[v]
  BY DEF Become, RunsInv, TypeOK
<1>2. InHand(w)' = {} /\ worker'[w].read.snapshot = {} /\ worker'[w].run = None
  BY <1>1 DEF InHand, Idle, NoPartial
<1>3. LocalStep(w) /\ Carried(w)
  BY <1>1, <1>2 DEF LocalStep, Carried, Known
<1>4. InvW(w)' /\ posts' \subseteq settled'
  BY <1>1 DEF InvW, RunsInv
<1>. QED  BY <1>3, <1>4, LocalInv

--------------------------------------------------------------------------------
LEMMA SetRunEffect ==
  ASSUME TypeOK, NEW r \in Runs, NEW status, NEW S, SetRun(r, status, S)
  PROVE  /\ runs'[r].status = status /\ runs'[r].snapshot = S
         /\ \A q \in Runs : q # r => runs'[q] = runs[q]
BY DEF TypeOK, SetRun

(* finishTask with everything in hand as its snapshot, if it is retryable.    *)
LEMMA FinishInv ==
  ASSUME RunsInv, TypeOK', NEW w \in Workers, worker[w].run \in Runs, worker[w] # Idle,
         NEW status, status # "absent", NEW S, Finish(w, status, S), InHand(w) = S,
         S = {} \/ status \in RetryableStatuses,
         UNCHANGED <<stored, posts, settled, overlapped>>
  PROVE  RunsInv'
<1>1. Become(w, Idle)
  BY DEF Finish
<1>2. CASE SetRun(worker[w].run, status, S) /\ excused' = excused \cup Overwritten(w, S)
  <2>1. /\ runs'[worker[w].run].status = status /\ runs'[worker[w].run].snapshot = S
        /\ \A q \in Runs : q # worker[w].run => runs'[q] = runs[q]
    BY <1>2, SetRunEffect DEF RunsInv
  <2>2. S # {} => status \in RetryableStatuses \cup {"running"}
    OBVIOUS
  <2>3. Rewritten(w)
    BY <1>2, <2>1 DEF Rewritten, Overwritten, Snapshot
  <2>. QED  BY <1>1, <1>2, <2>1, <2>2, <2>3, IdleInv
<1>3. CASE runs' = runs /\ excused' = excused \cup InHand(w)
  <2>1. /\ runs[worker[w].run].status # "absent"
        /\ runs[worker[w].run].snapshot # {} =>
             runs[worker[w].run].status \in RetryableStatuses \cup {"running"}
    BY <1>3 DEF RunsInv, InvW, Resumable, Recoverable
  <2>2. Rewritten(w)
    BY <1>3 DEF Rewritten, Snapshot
  <2>. QED  BY <1>1, <1>3, <2>1, <2>2, IdleInv DEF Snapshot
<1>. QED  BY <1>2, <1>3 DEF Finish

LEMMA AbandonInv ==
  ASSUME RunsInv, TypeOK', NEW w \in Workers, worker[w].run \in Runs, worker[w] # Idle,
         NEW status, status # "absent", Abandon(w, status),
         UNCHANGED <<stored, posts, settled, overlapped>>
  PROVE  RunsInv'
<1>1. Become(w, Idle) /\ excused' = excused \cup InHand(w) \cup Overwritten(w, {})
  BY DEF Abandon
<1>2. CASE SetRun(worker[w].run, status, {})
  <2>1. /\ runs'[worker[w].run].status = status /\ runs'[worker[w].run].snapshot = {}
        /\ \A q \in Runs : q # worker[w].run => runs'[q] = runs[q]
    BY <1>2, SetRunEffect DEF RunsInv
  <2>2. Rewritten(w)
    BY <1>1, <2>1 DEF Rewritten, Overwritten, Snapshot
  <2>. QED  BY <1>1, <1>2, <2>1, <2>2, IdleInv
<1>3. CASE runs' = runs
  <2>1. /\ runs[worker[w].run].status # "absent"
        /\ runs[worker[w].run].snapshot # {} =>
             runs[worker[w].run].status \in RetryableStatuses \cup {"running"}
    BY <1>3 DEF RunsInv, InvW, Resumable, Recoverable
  <2>2. Rewritten(w)
    BY <1>3 DEF Rewritten, Snapshot
  <2>. QED  BY <1>1, <1>3, <2>1, <2>2, IdleInv DEF Snapshot
<1>. QED  BY <1>2, <1>3 DEF Abandon

(* startTask gives up: the row has what the goroutine has.                    *)
LEMMA LeaveInv ==
  ASSUME RunsInv, TypeOK', NEW w \in Workers, worker[w].pc \in StartPCs, Leave(w),
         UNCHANGED <<stored, posts, settled, overlapped>>
  PROVE  RunsInv'
<1>1. /\ worker[w] # Idle /\ worker[w].run \in Runs /\ InvW(w)
      /\ worker[w].new = {} /\ worker[w].batch = {}
  BY DEF RunsInv, InvW, Idle, StartPCs
<1>2. /\ Become(w, Idle) /\ runs' = runs
      /\ excused' = excused \cup (IF worker[w].run \in overlapped
                                  THEN InHand(w) \ Snapshot(w) ELSE {})
  BY DEF Leave, Snapshot
<1>3. InHand(w) \subseteq excused' \cup Snapshot(w)
  <2>1. CASE worker[w].run \in overlapped
    BY <1>2, <2>1
  <2>2. CASE worker[w].run \notin overlapped
    BY <1>1, <2>2 DEF InvW, Undisturbed, InHand
  <2>. QED  BY <2>1, <2>2
<1>4. /\ runs[worker[w].run].status # "absent"
      /\ runs[worker[w].run].snapshot # {} =>
             runs[worker[w].run].status \in RetryableStatuses \cup {"running"}
  BY <1>1, <1>2 DEF RunsInv, InvW, Resumable, Recoverable
<1>5. Rewritten(w)
  BY <1>2 DEF Rewritten, Snapshot
<1>. QED  BY <1>1, <1>2, <1>3, <1>4, <1>5, IdleInv DEF Snapshot

(* A stale partial result is written back, and the start goes on.             *)
LEMMA WriteBackInv ==
  ASSUME RunsInv, TypeOK', NEW w \in Workers, worker[w].pc \in {"retry", "claim"},
         NEW status \in {"pending", "running"}, WriteBack(w, status),
         NEW pc \in {"select", "fetch"},
         pc = "fetch" \/ worker[w].pc = "retry",
         Become(w, [worker[w] EXCEPT !.pc = pc, !.read = NoPartial]),
         UNCHANGED <<stored, posts, settled, overlapped>>
  PROVE  RunsInv'
<1>1. /\ worker[w] # Idle /\ worker[w].run \in Runs /\ InvW(w)
      /\ worker[w].new = {} /\ worker[w].batch = {}
      /\ worker[w] \in Goroutine
  BY DEF RunsInv, InvW, Idle, TypeOK
<1>2. /\ \A v \in Workers : v # w => worker'[v] = worker[v]
      /\ worker'[w].run = worker[w].run /\ worker'[w].pc = pc
      /\ worker'[w].read = NoPartial /\ worker'[w].existing = worker[w].existing
      /\ worker'[w].new = {} /\ worker'[w].batch = {}
  BY <1>1 DEF Become, RunsInv, TypeOK, Goroutine
<1>3. InHand(w)' = InHand(w) /\ InHand(w) = worker[w].existing
  BY <1>1, <1>2 DEF InHand
<1>. DEFINE S == IF worker[w].read.saved THEN worker[w].read.snapshot ELSE Snapshot(w)
<1>4. /\ runs'[worker[w].run].status = status /\ runs'[worker[w].run].snapshot = S
      /\ \A r \in Runs : r # worker[w].run => runs'[r] = runs[r]
      /\ excused' = excused \cup Overwritten(w, S)
  BY <1>1 DEF WriteBack, RunsInv, TypeOK, Snapshot
<1>. HIDE DEF S
<1>5. S \subseteq Snapshot(w) \cup Known(w)
  BY DEF S, Known
<1>6. LocalStep(w)
  BY <1>2, <1>3, <1>4, <1>5 DEF LocalStep, NoPartial, Recoverable, RetryableStatuses
<1>7. Carried(w)
  BY <1>3 DEF Carried
<1>8. Rewritten(w)
  BY <1>4 DEF Rewritten, Overwritten, Snapshot
<1>9. ASSUME worker[w].run \notin overlapped  PROVE Undisturbed(w)'
  <2>1. Undisturbed(w) /\ S = Snapshot(w)
    BY <1>1, <1>9 DEF InvW, Undisturbed, S
  <2>2. Snapshot(w)' = Snapshot(w)
    BY <1>2, <1>4, <2>1 DEF Snapshot
  <2>3. pc = "select" => worker[w].existing \subseteq Snapshot(w)
    BY <2>1 DEF Undisturbed, StartPCs
  <2>4. pc \notin {"save", "agent", "posts"} /\ "fetch" \notin StartPCs
    BY DEF StartPCs
  <2>5. settled' = settled /\ excused \subseteq excused' /\ ~NoPartial.saved
    BY <1>4 DEF NoPartial
  <2>6. Snapshot(w) \subseteq InHand(w) \cup settled \cup excused
    BY <2>1 DEF Undisturbed
  <2>. QED  BY <1>2, <1>3, <2>2, <2>3, <2>4, <2>5, <2>6 DEF Undisturbed
<1>10. InvW(w)'
  BY <1>1, <1>2, <1>4, <1>9 DEF InvW, StartPCs
<1>. QED  BY <1>1, <1>6, <1>7, <1>8, <1>10, LocalInv DEF RunsInv

LEMMA ReadRunInv ==
  ASSUME RunsInv, TypeOK', NEW w \in Workers, ReadRun(w)
  PROVE  RunsInv'
<1>1. CASE Leave(w)
  BY <1>1, LeaveInv DEF ReadRun, StartPCs
<1>2. CASE ~Leave(w)
  <2>. DEFINE p == [saved |-> runs[worker[w].run].saved, snapshot |-> Snapshot(w)]
  <2>1. /\ worker[w] # Idle /\ worker[w].run \in Runs /\ InvW(w)
        /\ worker[w].pc \in {"select", "reread"} /\ worker[w] \in Goroutine
        /\ worker[w].new = {} /\ worker[w].batch = {}
    BY DEF RunsInv, InvW, Idle, TypeOK, ReadRun
  <2>2. /\ Become(w, [worker[w] EXCEPT !.pc = "claim", !.read = p])
        /\ UNCHANGED <<runs, excused, stored, posts, settled, overlapped>>
    BY <1>2 DEF ReadRun, Snapshot
  <2>3. /\ \A v \in Workers : v # w => worker'[v] = worker[v]
        /\ worker'[w].run = worker[w].run /\ worker'[w].pc = "claim"
        /\ worker'[w].read = p /\ worker'[w].existing = worker[w].existing
        /\ worker'[w].new = {} /\ worker'[w].batch = {}
    BY <2>1, <2>2 DEF Become, RunsInv, TypeOK, Goroutine
  <2>4. InHand(w)' = InHand(w)
    BY <2>1, <2>3 DEF InHand
  <2>5. LocalStep(w) /\ Carried(w) /\ Rewritten(w)
    BY <2>1, <2>2, <2>3, <2>4
    DEF LocalStep, Carried, Rewritten, RunsInv, InvW, Resumable, Recoverable, Snapshot
  <2>6. worker[w].run \notin overlapped => Undisturbed(w)'
    <3>1. Snapshot(w)' = Snapshot(w)
      BY <2>2, <2>3 DEF Snapshot
    <3>. QED  BY <2>1, <2>2, <2>3, <2>4, <3>1 DEF InvW, Undisturbed, StartPCs
  <2>7. InvW(w)'
    BY <2>1, <2>2, <2>3, <2>6 DEF InvW, StartPCs
  <2>. QED  BY <2>1, <2>2, <2>5, <2>7, LocalInv DEF RunsInv
<1>. QED  BY <1>1, <1>2

--------------------------------------------------------------------------------
LEMMA RunArticlesInv ==
  ASSUME RunsInv, TypeOK', NEW w \in Workers, NEW r \in Runs, RunArticles(w, r)
  PROVE  RunsInv'
<1>1. worker[w] = Idle /\ runs[r].status = "absent" /\ runs[r].snapshot = {}
  BY DEF RunArticles, At, RunsInv, InvW, Resumable, Recoverable, RetryableStatuses
<1>2. \A v \in Workers : worker[v].run # r
  BY <1>1, RunsAssumption DEF RunsInv, InvW, Idle
<1>3. /\ worker'[w].pc = "reread" /\ worker'[w].run = r /\ worker'[w].existing = {}
      /\ worker'[w].new = {} /\ worker'[w].batch = {} /\ worker'[w].read = NoPartial
      /\ \A v \in Workers : v # w => worker'[v] = worker[v]
  BY DEF RunArticles, Become, RunsInv, TypeOK, Idle
<1>4. /\ runs'[r].status = "pending" /\ runs'[r].snapshot = {}
      /\ \A q \in Runs : q # r => runs'[q] = runs[q]
  BY <1>1 DEF RunArticles, RunsInv, TypeOK, Row
<1>5. InHand(w) = {} /\ InHand(w)' = {} /\ Known(w)' = {}
  BY <1>1, <1>3 DEF InHand, Known, Idle, NoPartial
<1>6. \A v \in Workers : v # w => InHand(v)' = InHand(v) /\ Known(v)' = Known(v)
  BY <1>3 DEF InHand, Known
<1>7. UNCHANGED <<stored, posts, settled, excused, overlapped>>
  BY DEF RunArticles
<1>8. Distinct' /\ Resumable'
  BY <1>2, <1>3, <1>4, <1>7, RunsAssumption DEF RunsInv, Distinct, Resumable, Recoverable
<1>9. Owned'
  <2>1. ASSUME NEW q \in Runs, NEW b \in Articles, Holds(q, b)'  PROVE Holds(q, b)
    BY <2>1, <1>3, <1>4, <1>5, <1>6 DEF Holds
  <2>. QED  BY <2>1, <1>7 DEF RunsInv, Owned
<1>10. ASSUME NEW v \in Workers  PROVE InvW(v)'
  <2>1. CASE v = w
    <3>1. Undisturbed(w)'
      BY <1>3, <1>4 DEF Undisturbed, Snapshot, NoPartial
    <3>. QED  BY <2>1, <3>1, <1>3, <1>4 DEF InvW
  <2>2. CASE v # w
    <3>1. worker'[v] = worker[v] /\ InHand(v)' = InHand(v) /\ InvW(v)
      BY <2>2, <1>3, <1>6 DEF RunsInv
    <3>2. CASE worker[v] = Idle
      BY <3>1, <3>2 DEF InvW, Idle, NoPartial
    <3>3. CASE worker[v] # Idle
      <4>1. runs'[worker[v].run] = runs[worker[v].run]
        BY <1>2, <1>4, <3>1, <3>3 DEF InvW
      <4>2. Undisturbed(v) => Undisturbed(v)'
        BY <3>1, <4>1, <1>7 DEF Undisturbed, Snapshot
      <4>. QED  BY <3>1, <3>3, <4>1, <4>2, <1>7 DEF InvW
    <3>. QED  BY <3>2, <3>3
  <2>. QED  BY <2>1, <2>2
<1>11. LossExplained'
  <2>. SUFFICES ASSUME NEW b \in Articles, Kept(b)  PROVE Kept(b)'
    BY <1>7 DEF RunsInv, LossExplained
  <2>1. CASE b \in settled
    BY <2>1, <1>7 DEF Kept
  <2>2. ASSUME NEW v \in Workers, b \in InHand(v)  PROVE Kept(b)'
    BY <2>2, <1>5, <1>6 DEF Kept
  <2>3. ASSUME NEW q \in Runs, Recoverable(q), b \in runs[q].snapshot  PROVE Kept(b)'
    <3>1. q # r
      BY <2>3, <1>1
    <3>. QED  BY <2>3, <3>1, <1>4 DEF Kept, Recoverable
  <2>. QED  BY <2>1, <2>2, <2>3 DEF Kept
<1>. QED  BY <1>7, <1>8, <1>9, <1>10, <1>11 DEF RunsInv

LEMMA RetryTaskInv ==
  ASSUME RunsInv, TypeOK', NEW w \in Workers, NEW r \in Runs, RetryTask(w, r)
  PROVE  RunsInv'
<1>1. worker[w] = Idle /\ runs[r].status # "absent"
  BY DEF RetryTask, At, RunsInv, InvW, RetryableStatuses
<1>2. /\ worker'[w].pc = "retry" /\ worker'[w].run = r
      /\ worker'[w].existing = runs[r].snapshot
      /\ worker'[w].read.snapshot = runs[r].snapshot
      /\ worker'[w].new = {} /\ worker'[w].batch = {}
      /\ \A v \in Workers : v # w => worker'[v] = worker[v]
  BY DEF RetryTask, Become, RunsInv, TypeOK, Idle
<1>3. UNCHANGED <<runs, stored, posts, settled, excused>>
  BY DEF RetryTask
<1>4. InHand(w) = {} /\ InHand(w)' = runs[r].snapshot /\ Known(w)' = runs[r].snapshot
  BY <1>1, <1>2 DEF InHand, Known, Idle
<1>5. \A v \in Workers : v # w => InHand(v)' = InHand(v) /\ Known(v)' = Known(v)
  BY <1>2 DEF InHand, Known
<1>6. /\ overlapped \subseteq overlapped'
      /\ \A v \in Workers : worker[v].run = r => r \in overlapped'
  BY DEF RetryTask
<1>7. Distinct'
  BY <1>2, <1>6 DEF RunsInv, Distinct
<1>8. Owned'
  <2>1. ASSUME NEW q \in Runs, NEW b \in Articles, Holds(q, b)'  PROVE Holds(q, b)
    BY <2>1, <1>2, <1>3, <1>4, <1>5 DEF Holds
  <2>. QED  BY <2>1, <1>3 DEF RunsInv, Owned
<1>9. ASSUME NEW v \in Workers  PROVE InvW(v)'
  <2>1. CASE v = w
    <3>1. Undisturbed(w)'
      BY <1>2, <1>3, <1>4 DEF Undisturbed, Snapshot
    <3>. QED  BY <2>1, <3>1, <1>1, <1>2, <1>3 DEF InvW, StartPCs
  <2>2. CASE v # w
    <3>1. worker'[v] = worker[v] /\ InHand(v)' = InHand(v) /\ InvW(v)
      BY <2>2, <1>2, <1>5 DEF RunsInv
    <3>2. Undisturbed(v) => Undisturbed(v)'
      BY <3>1, <1>3 DEF Undisturbed, Snapshot
    <3>. QED  BY <3>1, <3>2, <1>3, <1>6 DEF InvW
  <2>. QED  BY <2>1, <2>2
<1>10. LossExplained' /\ Resumable'
  <2>1. ASSUME NEW b \in Articles, Kept(b)  PROVE Kept(b)'
    BY <2>1, <1>3, <1>4, <1>5 DEF Kept, Recoverable
  <2>. QED  BY <2>1, <1>3 DEF RunsInv, LossExplained, Resumable, Recoverable
<1>. QED  BY <1>3, <1>7, <1>8, <1>9, <1>10 DEF RunsInv

LEMMA CrashInv == RunsInv /\ TypeOK' /\ Crash => RunsInv'
<1>. SUFFICES ASSUME RunsInv, TypeOK', Crash  PROVE RunsInv'
  OBVIOUS
<1>1. \A w \in Workers : worker'[w] = Idle
  BY DEF Crash
<1>2. \A w \in Workers : InHand(w)' = {} /\ Known(w)' = {}
  BY <1>1 DEF InHand, Known, Idle, NoPartial
<1>3. \A r \in Runs : /\ runs'[r].snapshot = runs[r].snapshot
                      /\ Recoverable(r) => Recoverable(r)'
  BY DEF Crash, Recovered, Recoverable, RetryableStatuses, RunsInv, TypeOK, Row
<1>4. UNCHANGED <<stored, posts, settled, overlapped>>
  BY DEF Crash
<1>5. /\ Distinct' /\ Resumable'
      /\ \A w \in Workers : InvW(w)'
  <2>1. Distinct'
    BY <1>1, RunsAssumption DEF Distinct, Idle
  <2>2. Resumable'
    BY <1>3 DEF RunsInv, Resumable
  <2>. QED  BY <1>1, <2>1, <2>2 DEF InvW
<1>6. Owned'
  BY <1>2, <1>3, <1>4 DEF RunsInv, Owned, Holds
<1>7. LossExplained'
  <2>. SUFFICES ASSUME NEW b \in Articles, Kept(b), b \notin excused'  PROVE Kept(b)'
    BY <1>4 DEF RunsInv, LossExplained, Crash, TypeOK
  <2>1. CASE b \in settled
    BY <2>1, <1>4 DEF Kept
  <2>2. ASSUME NEW w \in Workers, b \in InHand(w)  PROVE Kept(b)'
    <3>1. b \notin Unsaved(w) /\ b \notin excused
      BY DEF Crash
    <3>2. worker[w] # Idle /\ worker[w].pc # "idle" /\ InvW(w)
      BY <2>2 DEF InHand, Idle, RunsInv, InvW
    <3>3. b \in Snapshot(w)
      <4>1. CASE worker[w].pc \in {"agent", "posts"} /\ worker[w].run \notin overlapped
        <5>1. InHand(w) = worker[w].batch
          BY <3>2, <4>1 DEF InvW, InHand, StartPCs
        <5>. QED  BY <2>2, <3>1, <3>2, <4>1, <5>1 DEF InvW, Undisturbed
      <4>2. CASE ~(worker[w].pc \in {"agent", "posts"} /\ worker[w].run \notin overlapped)
        BY <2>2, <3>1, <3>2, <4>2 DEF Unsaved, Snapshot, At
      <4>. QED  BY <4>1, <4>2
    <3>4. worker[w].run \in Runs /\ Recoverable(worker[w].run)
      BY <3>2, <3>3 DEF RunsInv, InvW, Resumable, Snapshot
    <3>5. PICK r \in Runs : Recoverable(r) /\ b \in runs[r].snapshot
      BY <3>3, <3>4 DEF Snapshot
    <3>. QED  BY <3>5, <1>3 DEF Kept
  <2>3. ASSUME NEW r \in Runs, Recoverable(r), b \in runs[r].snapshot  PROVE Kept(b)'
    BY <2>3, <1>3 DEF Kept
  <2>. QED  BY <2>1, <2>2, <2>3 DEF Kept
<1>. QED  BY <1>4, <1>5, <1>6, <1>7 DEF RunsInv

(* A new row: from now on w's run answers for the article, and no other can,  *)
(* since what runs answer for was stored before.                              *)
LEMMA InsertArticleInv ==
  ASSUME RunsInv, TypeOK', NEW w \in Workers, NEW a \in Articles, InsertArticle(w, a)
  PROVE  RunsInv'
<1>1. worker[w] # Idle /\ worker[w].run \in Runs
  BY DEF InsertArticle, At, Idle, RunsInv, InvW
<1>2. /\ \A v \in Workers : v # w => worker'[v] = worker[v]
      /\ worker'[w].run = worker[w].run /\ worker'[w].pc = "insert"
      /\ worker'[w].existing = worker[w].existing /\ worker'[w].batch = worker[w].batch
      /\ worker'[w].read = worker[w].read
      /\ worker'[w].good \in {worker[w].good, worker[w].good \cup {a}}
      /\ worker'[w].new = IF a \in stored THEN worker[w].new ELSE worker[w].new \cup {a}
      /\ a \in stored \/ a \in worker'[w].good \/ a \in settled'
  <2>1. worker[w] \in Goroutine /\ worker[w].pc = "insert"
    BY DEF InsertArticle, At, RunsInv, TypeOK
  <2>. DEFINE g1 == [worker[w] EXCEPT !.todo = @ \ {a}]
              g2 == [worker[w] EXCEPT !.todo = @ \ {a}, !.new = @ \cup {a}]
              g3 == [worker[w] EXCEPT !.todo = @ \ {a}, !.new = @ \cup {a},
                                      !.good = @ \cup {a}]
  <2>2. \/ a \in stored /\ worker' = [worker EXCEPT ![w] = g1]
        \/ a \notin stored /\ worker' = [worker EXCEPT ![w] = g2] /\ a \in settled'
        \/ a \notin stored /\ worker' = [worker EXCEPT ![w] = g3]
    BY DEF InsertArticle, TakeArticle, Become
  <2>3. \A g \in {g1, g2, g3} : /\ g.pc = "insert" /\ g.run = worker[w].run
                               /\ g.existing = worker[w].existing /\ g.read = worker[w].read
                               /\ g.batch = worker[w].batch
    BY <2>1 DEF Goroutine
  <2>4. /\ g1.new = worker[w].new /\ g2.new = worker[w].new \cup {a}
        /\ g3.new = worker[w].new \cup {a}
        /\ g1.good = worker[w].good /\ g2.good = worker[w].good
        /\ g3.good = worker[w].good \cup {a}
    BY <2>1 DEF Goroutine
  <2>. HIDE DEF g1, g2, g3
  <2>5. /\ \A v \in Workers : v # w => worker'[v] = worker[v]
        /\ \/ a \in stored /\ worker'[w] = g1
           \/ a \notin stored /\ worker'[w] = g2 /\ a \in settled'
           \/ a \notin stored /\ worker'[w] = g3
    BY <2>2 DEF RunsInv, TypeOK
  <2>. QED  BY <2>3, <2>4, <2>5
<1>3. /\ UNCHANGED <<posts, runs, excused, overlapped>> /\ settled \subseteq settled'
      /\ stored' = stored \cup {a}
  BY DEF InsertArticle, TakeArticle
<1>4. /\ InHand(w)' = IF a \in stored THEN InHand(w) ELSE InHand(w) \cup {a}
      /\ Known(w)' = IF a \in stored THEN Known(w) ELSE Known(w) \cup {a}
  BY <1>2 DEF InHand, Known
<1>5. \A v \in Workers : v # w => InHand(v)' = InHand(v) /\ Known(v)' = Known(v)
  BY <1>2 DEF InHand, Known
<1>6. Distinct' /\ Resumable'
  BY <1>2, <1>3 DEF RunsInv, Distinct, Resumable, Recoverable
<1>7. Owned'
  <2>1. ASSUME NEW q \in Runs, NEW b \in Articles, Holds(q, b)'
        PROVE  Holds(q, b) \/ (b = a /\ a \notin stored /\ q = worker[w].run)
    <3>1. CASE b \in runs'[q].snapshot
      BY <3>1, <1>3 DEF Holds
    <3>2. ASSUME NEW v \in Workers, worker'[v].run = q, b \in Known(v)'
          PROVE  Holds(q, b) \/ (b = a /\ a \notin stored /\ q = worker[w].run)
      <4>1. CASE v = w
        BY <3>2, <4>1, <1>2, <1>4 DEF Holds
      <4>2. CASE v # w
        BY <3>2, <4>2, <1>2, <1>5 DEF Holds
      <4>. QED  BY <4>1, <4>2
    <3>. QED  BY <2>1, <3>1, <3>2 DEF Holds
  <2>. QED  BY <2>1, <1>3 DEF RunsInv, Owned
<1>8. ASSUME NEW v \in Workers  PROVE InvW(v)'
  <2>1. CASE v = w
    <3>1. InvW(w) /\ worker[w].pc = "insert"
      BY DEF RunsInv, InsertArticle, At
    <3>2. worker[w].run \notin overlapped => Undisturbed(w)'
      BY <1>1, <1>2, <1>3, <1>4, <3>1 DEF InvW, Undisturbed, Snapshot, StartPCs
    <3>. QED  BY <2>1, <1>1, <1>2, <1>3, <1>4, <3>1, <3>2 DEF InvW
  <2>2. CASE v # w
    <3>1. worker'[v] = worker[v] /\ InHand(v)' = InHand(v) /\ InvW(v)
      BY <2>2, <1>2, <1>5 DEF RunsInv
    <3>2. Undisturbed(v) => Undisturbed(v)'
      BY <3>1, <1>3 DEF Undisturbed, Snapshot
    <3>. QED  BY <3>1, <3>2, <1>3 DEF InvW
  <2>. QED  BY <2>1, <2>2
<1>9. LossExplained'
  <2>. SUFFICES ASSUME NEW b \in Articles, b \in stored', b \notin excused  PROVE Kept(b)'
    BY <1>3 DEF LossExplained, TypeOK
  <2>1. CASE b \notin stored
    BY <2>1, <1>3, <1>4 DEF Kept
  <2>2. CASE b \in stored
    <3>1. Kept(b)
      BY <2>2 DEF RunsInv, LossExplained
    <3>. QED  BY <3>1, <1>3, <1>4, <1>5 DEF Kept, Recoverable
  <2>. QED  BY <2>1, <2>2
<1>. QED  BY <1>3, <1>6, <1>7, <1>8, <1>9 DEF RunsInv

--------------------------------------------------------------------------------
(* The other steps of runArticles are local.                                  *)
(* A step that goes on with the same run and leaves what was read alone.      *)
LEMMA OnInv ==
  ASSUME RunsInv, TypeOK', NEW w \in Workers, worker[w].pc \notin StartPCs \cup {"idle"},
         \A v \in Workers : v # w => worker'[v] = worker[v],
         worker'[w].run = worker[w].run, worker'[w].read = worker[w].read,
         worker'[w].pc \notin StartPCs \cup {"idle"}, InHand(w)' \subseteq InHand(w),
         \A r \in Runs : r # worker[w].run => runs'[r] = runs[r],
         \/ runs'[worker[w].run] = runs[worker[w].run]
         \/ runs'[worker[w].run].status = "running",
         runs'[worker[w].run].snapshot \subseteq Snapshot(w) \cup InHand(w),
         UNCHANGED <<stored, overlapped>>, settled \subseteq settled', excused \subseteq excused',
         posts' \subseteq posts \cup InHand(w), posts' \subseteq settled',
         InHand(w) \subseteq InHand(w)' \cup settled' \cup excused',
         Rewritten(w),
         worker'[w].new \ worker'[w].good \subseteq settled',
         worker'[w].pc \notin {"fetch", "insert", "resume"} => worker'[w].existing = {},
         worker'[w].pc \notin {"insert", "resume", "filter"} => worker'[w].new = {},
         worker'[w].pc \notin {"save", "agent", "posts"} => worker'[w].batch = {},
         worker[w].run \notin overlapped =>
           /\ runs'[worker[w].run].snapshot \subseteq InHand(w)' \cup settled' \cup excused'
           /\ worker'[w].pc \in {"save", "agent"} => worker'[w].batch \cap posts' = {}
           /\ worker'[w].pc \in {"agent", "posts"} =>
                worker'[w].batch \subseteq runs'[worker[w].run].snapshot \cup excused'
  PROVE  RunsInv'
<1>1. /\ worker[w] # Idle /\ worker[w].run \in Runs /\ InvW(w)
      /\ worker[w].read = NoPartial /\ runs[worker[w].run].status # "absent"
  BY DEF RunsInv, InvW, Idle, StartPCs
<1>2. /\ runs'[worker[w].run].status # "absent"
      /\ runs'[worker[w].run].snapshot # {} =>
           runs'[worker[w].run].status \in RetryableStatuses \cup {"running"}
  BY <1>1 DEF RunsInv, Resumable, Recoverable
<1>3. LocalStep(w)
  BY <1>1, <1>2 DEF LocalStep, Known, NoPartial
<1>4. Carried(w)
  BY DEF Carried
<1>5. worker[w].run \notin overlapped => Undisturbed(w)'
  BY <1>1 DEF Undisturbed, Snapshot, NoPartial
<1>6. InvW(w)'
  BY <1>1, <1>2, <1>5 DEF InvW
<1>. QED  BY <1>1, <1>3, <1>4, <1>6, LocalInv DEF RunsInv

LEMMA FetchArticlesInv ==
  ASSUME RunsInv, TypeOK', NEW w \in Workers, FetchArticles(w)
  PROVE  RunsInv'
<1>1. InvW(w) /\ worker[w].pc = "fetch" /\ worker[w] \in Goroutine /\ worker[w].run \in Runs
  BY DEF FetchArticles, At, RunsInv, TypeOK
<1>2. PICK S : worker' = [worker EXCEPT ![w] =
                    [worker[w] EXCEPT !.pc = "insert", !.todo = S]]
  BY DEF FetchArticles, Become
<1>3. /\ \A v \in Workers : v # w => worker'[v] = worker[v]
      /\ worker'[w].run = worker[w].run /\ worker'[w].pc = "insert"
      /\ worker'[w].existing = worker[w].existing /\ worker'[w].batch = worker[w].batch
      /\ worker'[w].new = worker[w].new /\ worker'[w].read = worker[w].read
  BY <1>1, <1>2 DEF RunsInv, TypeOK, Goroutine
<1>4. InHand(w)' = InHand(w)
      /\ UNCHANGED <<stored, posts, runs, settled, excused, overlapped>>
  BY <1>3 DEF InHand, FetchArticles
<1>5. worker[w].new = {} /\ worker[w].batch = {} /\ posts \subseteq settled
  BY <1>1 DEF InvW, Idle, StartPCs, RunsInv
<1>6. worker[w].run \notin overlapped => Undisturbed(w)
  BY <1>1 DEF InvW, Idle
<1>. QED  BY <1>1, <1>3, <1>4, <1>5, <1>6, OnInv DEF Rewritten, Snapshot, Undisturbed, StartPCs

(* What updateTaskPartial writes.                                             *)
LEMMA SavePartialEffect ==
  ASSUME RunsInv, NEW w \in Workers, worker[w].run \in Runs, NEW S,
         SavePartial(w, S), S \subseteq InHand(w)
  PROVE  /\ \A r \in Runs : r # worker[w].run => runs'[r] = runs[r]
         /\ \/ runs'[worker[w].run] = runs[worker[w].run]
            \/ runs'[worker[w].run].status = "running"
         /\ runs'[worker[w].run].snapshot \subseteq Snapshot(w) \cup InHand(w)
         /\ excused \subseteq excused' /\ Rewritten(w)
         /\ \/ runs'[worker[w].run].snapshot = S
            \/ runs'[worker[w].run].snapshot = Snapshot(w) /\ InHand(w) \subseteq excused'
<1>1. CASE SetRun(worker[w].run, "running", S) /\ excused' = excused \cup Overwritten(w, S)
  <2>1. /\ runs'[worker[w].run].status = "running" /\ runs'[worker[w].run].snapshot = S
        /\ \A q \in Runs : q # worker[w].run => runs'[q] = runs[q]
    BY <1>1, SetRunEffect DEF RunsInv
  <2>. QED  BY <1>1, <2>1 DEF Rewritten, Overwritten, Snapshot
<1>2. CASE runs' = runs /\ excused' = excused \cup InHand(w)
  BY <1>2 DEF Rewritten, Snapshot
<1>. QED  BY <1>1, <1>2 DEF SavePartial

LEMMA SaveArticlesInv ==
  ASSUME RunsInv, TypeOK', NEW w \in Workers, SaveArticles(w)
  PROVE  RunsInv'
<1>1. InvW(w) /\ worker[w].pc = "insert" /\ worker[w] \in Goroutine /\ worker[w].run \in Runs
  BY DEF SaveArticles, At, RunsInv, TypeOK
<1>2. /\ \A v \in Workers : v # w => worker'[v] = worker[v]
      /\ worker'[w].run = worker[w].run /\ worker'[w].pc = "resume"
      /\ worker'[w].existing = worker[w].existing /\ worker'[w].batch = worker[w].batch
      /\ worker'[w].new = worker[w].new /\ worker'[w].good = worker[w].good
      /\ worker'[w].read = worker[w].read
  BY <1>1 DEF SaveArticles, Become, RunsInv, TypeOK, Goroutine
<1>3. InHand(w)' = InHand(w) /\ UNCHANGED <<stored, posts, settled, overlapped>>
  BY <1>2 DEF InHand, SaveArticles
<1>4. SavePartial(w, {})
  BY DEF SaveArticles
<1>5. worker[w].batch = {} /\ worker[w].new \ worker[w].good \subseteq settled /\ posts \subseteq settled
  BY <1>1 DEF InvW, Idle, RunsInv
<1>6. worker[w].run \notin overlapped => Snapshot(w) \subseteq InHand(w) \cup settled \cup excused
  BY <1>1 DEF InvW, Idle, Undisturbed
<1>. QED  BY <1>1, <1>2, <1>3, <1>4, <1>5, <1>6, SavePartialEffect, OnInv DEF StartPCs

LEMMA ResumeInv ==
  ASSUME RunsInv, TypeOK', NEW w \in Workers, Resume(w)
  PROVE  RunsInv'
<1>1. InvW(w) /\ worker[w].pc = "resume" /\ worker[w] \in Goroutine /\ worker[w].run \in Runs
  BY DEF Resume, At, RunsInv, TypeOK
<1>. DEFINE use == IF worker[w].new = {} THEN worker[w].existing ELSE worker[w].new
<1>2. /\ \A v \in Workers : v # w => worker'[v] = worker[v]
      /\ worker'[w].run = worker[w].run /\ worker'[w].pc = "filter"
      /\ worker'[w].existing = {} /\ worker'[w].batch = worker[w].batch
      /\ worker'[w].new = use /\ worker'[w].read = worker[w].read
      /\ worker'[w].good = IF worker[w].new = {} THEN worker[w].existing ELSE worker[w].good
  BY <1>1 DEF Resume, Become, RunsInv, TypeOK, Goroutine
<1>3. excused' = excused \cup (worker[w].existing \ use)
      /\ UNCHANGED <<stored, posts, runs, settled, overlapped>>
  BY DEF Resume
<1>4. /\ worker[w].batch = {} /\ worker[w].new \ worker[w].good \subseteq settled
      /\ posts \subseteq settled
  BY <1>1 DEF RunsInv, InvW, Idle
<1>5. InHand(w)' = use /\ InHand(w) = worker[w].existing \cup worker[w].new
  BY <1>2, <1>4 DEF InHand
<1>6. worker[w].run \notin overlapped => Snapshot(w) \subseteq InHand(w) \cup settled \cup excused
  BY <1>1 DEF InvW, Idle, Undisturbed
<1>. QED  BY <1>1, <1>2, <1>3, <1>4, <1>5, <1>6, OnInv DEF Rewritten, Snapshot, StartPCs

LEMMA FilterInv ==
  ASSUME RunsInv, TypeOK', NEW w \in Workers, Filter(w)
  PROVE  RunsInv'
<1>1. InvW(w) /\ worker[w].pc = "filter" /\ worker[w] \in Goroutine /\ worker[w].run \in Runs
  BY DEF Filter, At, RunsInv, TypeOK
<1>2. /\ \A v \in Workers : v # w => worker'[v] = worker[v]
      /\ worker'[w].run = worker[w].run /\ worker'[w].pc = "save"
      /\ worker'[w].existing = worker[w].existing /\ worker'[w].new = {}
      /\ worker'[w].batch = (worker[w].new \cap worker[w].good) \ posts
      /\ worker'[w].read = worker[w].read
  BY <1>1 DEF Filter, Become, RunsInv, TypeOK, Goroutine
<1>3. UNCHANGED <<stored, posts, runs, settled, excused, overlapped>>
  BY DEF Filter
<1>4. /\ worker[w].existing = {} /\ worker[w].batch = {}
      /\ worker[w].new \ worker[w].good \subseteq settled
      /\ posts \subseteq settled
  BY <1>1 DEF RunsInv, InvW, Idle, StartPCs
<1>5. InHand(w) = worker[w].new /\ InHand(w)' = (worker[w].new \cap worker[w].good) \ posts
  BY <1>2, <1>4 DEF InHand
<1>6. worker[w].run \notin overlapped => Snapshot(w) \subseteq InHand(w) \cup settled \cup excused
  BY <1>1 DEF InvW, Idle, Undisturbed
<1>. QED  BY <1>1, <1>2, <1>3, <1>4, <1>5, <1>6, OnInv DEF Rewritten, Snapshot, StartPCs

LEMMA SaveSnapshotInv ==
  ASSUME RunsInv, TypeOK', NEW w \in Workers, SaveSnapshot(w)
  PROVE  RunsInv'
<1>1. InvW(w) /\ worker[w].pc = "save" /\ worker[w] \in Goroutine /\ worker[w].run \in Runs
  BY DEF SaveSnapshot, At, RunsInv, TypeOK
<1>2. /\ \A v \in Workers : v # w => worker'[v] = worker[v]
      /\ worker'[w].run = worker[w].run /\ worker'[w].pc = "agent"
      /\ worker'[w].existing = worker[w].existing /\ worker'[w].new = worker[w].new
      /\ worker'[w].batch = worker[w].batch /\ worker'[w].good = worker[w].good
      /\ worker'[w].read = worker[w].read
  BY <1>1 DEF SaveSnapshot, Become, RunsInv, TypeOK, Goroutine
<1>3. InHand(w)' = InHand(w) /\ UNCHANGED <<stored, posts, settled, overlapped>>
  BY <1>2 DEF SaveSnapshot, InHand
<1>4. worker[w].existing = {} /\ worker[w].new = {} /\ posts \subseteq settled
  BY <1>1 DEF RunsInv, InvW, Idle, StartPCs
<1>5. InHand(w) = worker[w].batch /\ SavePartial(w, worker[w].batch)
  BY <1>4 DEF InHand, SaveSnapshot
<1>6. worker[w].run \notin overlapped =>
        /\ Snapshot(w) \subseteq InHand(w) \cup settled \cup excused
        /\ worker[w].batch \cap posts = {}
  BY <1>1 DEF InvW, Idle, Undisturbed
<1>7. /\ \A r \in Runs : r # worker[w].run => runs'[r] = runs[r]
      /\ \/ runs'[worker[w].run] = runs[worker[w].run]
         \/ runs'[worker[w].run].status = "running"
      /\ runs'[worker[w].run].snapshot \subseteq Snapshot(w) \cup InHand(w)
      /\ excused \subseteq excused' /\ Rewritten(w)
      /\ \/ runs'[worker[w].run].snapshot = worker[w].batch
         \/ runs'[worker[w].run].snapshot = Snapshot(w) /\ InHand(w) \subseteq excused'
  BY <1>1, <1>5, SavePartialEffect
<1>. QED  BY <1>1, <1>2, <1>3, <1>4, <1>5, <1>6, <1>7, OnInv DEF StartPCs

LEMMA ProcessArticlesInv ==
  ASSUME RunsInv, TypeOK', NEW w \in Workers, ProcessArticles(w)
  PROVE  RunsInv'
<1>1. InvW(w) /\ worker[w].pc = "agent" /\ worker[w] \in Goroutine /\ worker[w].run \in Runs
  BY DEF ProcessArticles, At, RunsInv, TypeOK
<1>2. PICK keep \in SUBSET worker[w].batch :
        /\ worker' = [worker EXCEPT ![w] = [worker[w] EXCEPT !.pc = "posts", !.batch = keep]]
        /\ settled' = settled \cup (worker[w].batch \ keep)
  BY DEF ProcessArticles, Become
<1>3. /\ \A v \in Workers : v # w => worker'[v] = worker[v]
      /\ worker'[w].run = worker[w].run /\ worker'[w].pc = "posts"
      /\ worker'[w].existing = worker[w].existing /\ worker'[w].new = worker[w].new
      /\ worker'[w].batch = keep /\ worker'[w].read = worker[w].read
  BY <1>1, <1>2 DEF RunsInv, TypeOK, Goroutine
<1>4. UNCHANGED <<stored, posts, runs, excused, overlapped>>
  BY DEF ProcessArticles
<1>5. worker[w].existing = {} /\ worker[w].new = {} /\ posts \subseteq settled
  BY <1>1 DEF RunsInv, InvW, Idle, StartPCs
<1>6. InHand(w) = worker[w].batch /\ InHand(w)' = keep
  BY <1>3, <1>5 DEF InHand
<1>7. worker[w].run \notin overlapped =>
        /\ Snapshot(w) \subseteq InHand(w) \cup settled \cup excused
        /\ worker[w].batch \subseteq Snapshot(w) \cup excused
  BY <1>1 DEF InvW, Idle, Undisturbed
<1>. QED  BY <1>1, <1>2, <1>3, <1>4, <1>5, <1>6, <1>7, OnInv DEF Rewritten, Snapshot, StartPCs

LEMMA InsertPostInv ==
  ASSUME RunsInv, TypeOK', NEW w \in Workers, NEW a \in Articles, InsertPost(w, a)
  PROVE  RunsInv'
<1>1. InvW(w) /\ worker[w].pc = "posts" /\ worker[w] \in Goroutine /\ worker[w].run \in Runs
  BY DEF InsertPost, At, RunsInv, TypeOK
<1>2. /\ \A v \in Workers : v # w => worker'[v] = worker[v]
      /\ worker'[w].run = worker[w].run /\ worker'[w].pc = "posts"
      /\ worker'[w].existing = worker[w].existing /\ worker'[w].new = worker[w].new
      /\ worker'[w].batch = worker[w].batch \ {a} /\ worker'[w].read = worker[w].read
  BY <1>1 DEF InsertPost, Become, RunsInv, TypeOK, Goroutine
<1>3. /\ UNCHANGED <<stored, runs, overlapped>> /\ a \in worker[w].batch
      /\ \/ posts' = posts \cup {a} /\ settled' = settled \cup {a} /\ excused' = excused
         \/ excused' = excused \cup {a} /\ posts' = posts /\ settled' = settled
  BY DEF InsertPost
<1>4. worker[w].existing = {} /\ worker[w].new = {} /\ posts \subseteq settled
  BY <1>1 DEF RunsInv, InvW, Idle, StartPCs
<1>5. InHand(w) = worker[w].batch /\ InHand(w)' = worker[w].batch \ {a}
  BY <1>2, <1>4 DEF InHand
<1>6. worker[w].run \notin overlapped =>
        /\ Snapshot(w) \subseteq InHand(w) \cup settled \cup excused
        /\ worker[w].batch \subseteq Snapshot(w) \cup excused
  BY <1>1 DEF InvW, Idle, Undisturbed
<1>. QED  BY <1>1, <1>2, <1>3, <1>4, <1>5, <1>6, OnInv DEF Rewritten, Snapshot, StartPCs

LEMMA SavePostsInv ==
  ASSUME RunsInv, TypeOK', NEW w \in Workers, SavePosts(w)
  PROVE  RunsInv'
<1>1. InvW(w) /\ worker[w].pc = "posts" /\ worker[w] \in Goroutine /\ worker[w].run \in Runs
  BY DEF SavePosts, At, RunsInv, TypeOK
<1>2. /\ \A v \in Workers : v # w => worker'[v] = worker[v]
      /\ worker'[w].run = worker[w].run /\ worker'[w].pc = "markdown"
      /\ worker'[w].existing = worker[w].existing /\ worker'[w].batch = worker[w].batch
      /\ worker'[w].new = worker[w].new /\ worker'[w].read = worker[w].read
  BY <1>1 DEF SavePosts, Become, RunsInv, TypeOK, Goroutine
<1>3. /\ InHand(w)' = InHand(w) /\ UNCHANGED <<stored, posts, settled, overlapped>>
      /\ worker[w].batch = {} /\ SavePartial(w, {})
  BY <1>2 DEF InHand, SavePosts
<1>4. worker[w].new = {} /\ worker[w].existing = {} /\ posts \subseteq settled
  BY <1>1 DEF RunsInv, InvW, Idle, StartPCs
<1>5. worker[w].run \notin overlapped => Snapshot(w) \subseteq InHand(w) \cup settled \cup excused
  BY <1>1 DEF InvW, Idle, Undisturbed
<1>. QED  BY <1>1, <1>2, <1>3, <1>4, <1>5, SavePartialEffect, OnInv DEF StartPCs

--------------------------------------------------------------------------------
(* The inductive invariant: the articles of the snapshots and of the          *)
(* goroutines belong to one run each and are stored; a goroutine that no      *)
(* retry joined finds its run's row as it left it; and no article is          *)
(* forgotten without a reason.                                                *)
THEOREM RunsCorrect == Spec => []RunsInv
<1>1. Init => RunsInv
  <2>. SUFFICES ASSUME Init  PROVE RunsInv
    OBVIOUS
  <2>1. \A w \in Workers : worker[w] = Idle /\ Known(w) = {}
    BY DEF Init, InHand, Known, Idle, NoPartial
  <2>2. \A r \in Runs, b \in Articles : ~Holds(r, b)
    BY <2>1 DEF Holds, Init
  <2>3. Distinct /\ Resumable
    BY <2>1, RunsAssumption DEF Distinct, Resumable, Idle, Init
  <2>. QED  BY TypeInit, <2>1, <2>2, <2>3 DEF RunsInv, InvW, Owned, LossExplained, Init
<1>2. RunsInv /\ TypeOK' /\ [Next]_vars => RunsInv'
  <2>. SUFFICES ASSUME RunsInv, TypeOK', [Next]_vars  PROVE RunsInv'
    OBVIOUS
  <2>w. ASSUME NEW w \in Workers, worker[w].pc # "idle"
        PROVE  worker[w] # Idle /\ worker[w].run \in Runs /\ InvW(w)
    BY <2>w DEF RunsInv, InvW, Idle
  <2>1. ASSUME NEW w \in Workers, Step(w)  PROVE RunsInv'
    <3>1. ASSUME NothingToDo(w)  PROVE RunsInv'
      <4>1. InHand(w) = {} /\ worker[w].pc # "idle"
        BY <3>1, <2>w DEF NothingToDo, At, InvW, InHand, StartPCs
      <4>. QED  BY <3>1, <4>1, <2>w, FinishInv DEF NothingToDo
    <3>2. ASSUME AgentFails(w)  PROVE RunsInv'
      <4>1. InHand(w) = worker[w].batch /\ worker[w].pc # "idle"
        BY <3>2, <2>w DEF AgentFails, At, InvW, InHand, StartPCs
      <4>. QED  BY <3>2, <4>1, <2>w, FinishInv DEF AgentFails, RetryableStatuses
    <3>3. ASSUME WriteMarkdown(w)  PROVE RunsInv'
      <4>1. InHand(w) = {} /\ worker[w].pc # "idle"
        BY <3>3, <2>w DEF WriteMarkdown, At, InvW, InHand, StartPCs
      <4>. QED  BY <3>3, <4>1, <2>w, FinishInv DEF WriteMarkdown
    <3>4. ASSUME Refused(w)  PROVE RunsInv'
      BY <3>4, LeaveInv DEF Refused, At, StartPCs
    <3>5. ASSUME RetryToPending(w)  PROVE RunsInv'
      BY <3>5, WriteBackInv DEF RetryToPending, At
    <3>6. ASSUME Claim(w)  PROVE RunsInv'
      BY <3>6, WriteBackInv DEF Claim, At
    <3>. QED  BY <2>1, <3>1, <3>2, <3>3, <3>4, <3>5, <3>6, ReadRunInv, FetchArticlesInv,
                 SaveArticlesInv, ResumeInv, FilterInv, SaveSnapshotInv, ProcessArticlesInv,
                 SavePostsInv, InsertArticleInv, InsertPostInv DEF Step
  <2>2. ASSUME NEW w \in Workers, Cancelled(w)  PROVE RunsInv'
    BY <2>2, <2>w, AbandonInv DEF Cancelled
  <2>3. ASSUME NEW w \in Workers, StatementFails(w)  PROVE RunsInv'
    BY <2>3, <2>w, AbandonInv DEF StatementFails, At
  <2>4. CASE UNCHANGED vars
    <3>1. /\ \A w \in Workers : InHand(w)' = InHand(w) /\ Known(w)' = Known(w)
          /\ \A w \in Workers : Undisturbed(w) => Undisturbed(w)'
      BY <2>4 DEF vars, InHand, Known, Undisturbed, Snapshot
    <3>2. /\ \A w \in Workers : InvW(w) => InvW(w)'
          /\ \A r \in Runs, b \in Articles : Holds(r, b)' <=> Holds(r, b)
          /\ \A b \in Articles : Kept(b) <=> Kept(b)'
      BY <2>4, <3>1 DEF vars, InvW, Holds, Kept, Recoverable
    <3>3. Distinct' /\ Resumable'
      BY <2>4 DEF vars, RunsInv, Distinct, Resumable, Recoverable
    <3>. QED  BY <2>4, <3>2, <3>3 DEF vars, RunsInv, Owned, LossExplained
  <2>. QED  BY <2>1, <2>2, <2>3, <2>4, RunArticlesInv, RetryTaskInv, CrashInv DEF Next
<1>. QED  BY <1>1, <1>2, TypeCorrect, PTL DEF Spec

(* However runs overlap and are retried, an article belongs to one of them.   *)
THEOREM OneRunAlways == Spec => []OneRunPerArticle
<1>1. RunsInv => OneRunPerArticle
  <2>. SUFFICES ASSUME RunsInv, NEW q \in Runs, NEW r \in Runs, q # r,
                       NEW b \in Held(q), b \in Held(r)
                PROVE  FALSE
    BY DEF OneRunPerArticle
  <2>1. \A p \in Runs : b \in Held(p) => Holds(p, b)
    BY DEF Held, Holds, Known
  <2>2. b \in Articles
    BY InHandType DEF Held, RunsInv, TypeOK, Row
  <2>. QED  BY <2>1, <2>2 DEF RunsInv, Owned
<1>. QED  BY <1>1, RunsCorrect, PTL

(* Only a run whose executions overlapped sends the agent an article that has *)
(* a post.                                                                    *)
THEOREM NoSecondPostAlways == Spec => []NoSecondPost
<1>1. RunsInv => NoSecondPost
  BY DEF RunsInv, InvW, Undisturbed, NoSecondPost, At, Idle
<1>. QED  BY <1>1, RunsCorrect, PTL

(* A stored article is processed, or in hand, or in the snapshot of a run     *)
(* that can be retried, or one of the named failures took it.                 *)
THEOREM LossAlwaysExplained == Spec => []LossExplained
<1>1. RunsInv => LossExplained
  BY DEF RunsInv
<1>. QED  BY <1>1, RunsCorrect, PTL
================================================================================
