------------------------------ MODULE TaskControl ------------------------------
(******************************************************************************)
(* Task control of the GoFrame Harness: what the tasks of every type share.   *)
(* Replicas of the backend serve requests, each in a goroutine of its own (a  *)
(* Handler).  A request starts a run or retries one; it takes a slot of its   *)
(* replica's channel Harness.running, finds or creates a row of task_runs,    *)
(* claims it, walks through the steps of its task type and writes the final   *)
(* status.  Every statement on the database is an action of its own.          *)
(*                                                                            *)
(* The steps are those of runArticles, processFeedback and rebuildProfile     *)
(* that touch task_runs; what they do to the other tables is in the modules   *)
(* ArticleRuns and ProfileUpdates.                                            *)
(******************************************************************************)
EXTENDS TaskStore, FiniteSets, Sequences

CONSTANTS
  Replicas,            \* backend processes sharing the database
  Handlers,            \* request goroutines
  None,                \* no replica, no run
  Runs,                \* run ids
  Users,
  Contents,            \* what a feedback says (its idempotency key)
  UserOf,              \* the user, task type and content of the request that
  TypeOf,              \*   newRunID made the id for
  ContentOf,
  MaxConcurrentTasks,  \* capacity of Harness.running
  Environment          \* what the environment may do, out of:
                       \*   "crash"  a replica stops, and starts again
                       \*   "expire" a request's context ends (client gone, task timeout)
                       \*   "cancel" POST /runs/{id}/cancel
                       \*   "retry"  POST /runs/{id}/retry
                       \*   "dbError" a single statement fails

ASSUME ConstantsAssumption ==
  /\ IsFiniteSet(Handlers) /\ IsFiniteSet(Runs)
  /\ None \notin Replicas \cup Runs
  /\ UserOf \in [Runs -> Users]
  /\ TypeOf \in [Runs -> TaskTypes]
  /\ ContentOf \in [Runs -> Contents]
  /\ MaxConcurrentTasks \in Nat \ {0}
  /\ Environment \subseteq {"crash", "expire", "cancel", "retry", "dbError"}

VARIABLES
  rows,     \* the table task_runs
  records,  \* feedback_logs by idempotency key: the run that inserted the row, and
            \*   whether its process_status is completed
  slots,    \* tokens in each replica's channel
  up,       \* whether a replica's process runs
  handler,  \* the request goroutines
  acked,    \* history: runs whose cancellation was answered to its client
  lost,     \* history: runs whose final status, or whose recovery, was not written
            \*   to their row (a duplicate's goes to the row of another run)
  overlapped \* history: runs that had two writers: retried while a goroutine had
            \*   them, recovered while one executed them, or ended by a duplicate

vars == <<rows, records, slots, up, handler, acked, lost, overlapped>>

--------------------------------------------------------------------------------
(* Steps of a task.  "check" is taskCancelled, "save" updateTaskPartial,      *)
(* "upsert" UpsertFeedbackReceived, "mark" MarkFeedbackProcessing, "effect"   *)
(* the agent call and the writes of its results.  exits: the statuses the     *)
(* task may end with instead of taking the step, on an error or when there is *)
(* nothing to do.                                                             *)
Step(do, exits) == [do |-> do, exits |-> exits]

ArticleSteps ==
  << Step("check", {}),
     Step("save", {"failed"}),                          \* InsertArticle
     Step("save", {"failed", "completed"}),             \* nothing to process
     Step("check", {}),
     Step("effect", {"failed", "partially_completed"}),
     Step("save", {}) >>

FeedbackSteps ==
  << Step("upsert", {"failed"}),
     Step("save", {}),
     Step("mark", {"failed"}),
     Step("check", {}),
     Step("effect", {"failed"}) >>

RebuildSteps ==
  << Step("save", {"failed"}),                          \* ListCompletedStructuredFeedback
     Step("check", {}),
     Step("effect", {"failed", "completed"}) >>         \* dry_run completes here

Steps(type) ==
  IF type = "articles" THEN ArticleSteps
  ELSE IF type = "feedback" THEN FeedbackSteps ELSE RebuildSteps

(* Once the steps are done; writing the Markdown file may still fail.         *)
Outcomes(type) ==
  IF type = "articles"
  THEN {"completed", "failed", "partially_completed"}
  ELSE {"completed"}

(* A goroutine: where it is, its replica and run, the next step, whether its  *)
(* context lives, and (history) whether the run's cancellation had been       *)
(* answered when it last passed a checkpoint.                                 *)
Goroutine(pc, p, r) ==
  [pc |-> pc, home |-> p, run |-> r, step |-> 1, live |-> TRUE, sawCancel |-> FALSE]
Idle == Goroutine("idle", None, None)

(* Where a goroutine holds a token of its replica's channel.                  *)
EndPCs  == {"cancelled", "duplicate", "failed"}
SlotPCs == {"select", "insert", "reread", "claim", "work", "return"} \cup EndPCs
PCs     == {"idle", "retryRead", "retryPend", "acquire"} \cup SlotPCs

HandlerRecord ==
  {g \in [pc : PCs, home : Replicas \cup {None}, run : Runs \cup {None}, step : 1..7,
          live : BOOLEAN, sawCancel : BOOLEAN] :
     /\ g.pc # "idle" => g.home \in Replicas
     /\ g.pc \notin {"idle", "return"} => g.run \in Runs}

Init ==
  /\ rows = [r \in Runs |-> NoRow]
  /\ records = [c \in Contents |-> [owner |-> None, done |-> FALSE]]
  /\ slots = [p \in Replicas |-> 0]
  /\ up = [p \in Replicas |-> TRUE]
  /\ handler = [h \in Handlers |-> Idle]
  /\ acked = {} /\ lost = {} /\ overlapped = {}

--------------------------------------------------------------------------------
Goto(h, pc) == handler' = [handler EXCEPT ![h].pc = pc]
Stop(h)     == handler' = [handler EXCEPT ![h] = Idle]

RunOf(h) == handler[h].run
StepOf(h) == Steps(TypeOf[RunOf(h)])[handler[h].step]
Executes(h, r) == handler[h].run = r /\ handler[h].pc \in {"work"} \cup EndPCs
AtStep(h, do) ==
  /\ handler[h].pc = "work"
  /\ handler[h].step \in DOMAIN Steps(TypeOf[RunOf(h)])
  /\ StepOf(h).do = do

(* Whether h's next statement succeeds: never once its context has ended.     *)
Succeeds(h) ==
  IF ~handler[h].live THEN {FALSE}
  ELSE IF "dbError" \in Environment THEN BOOLEAN ELSE {TRUE}

(* releaseTaskSlot receives without blocking: on an empty channel it does     *)
(* nothing.                                                                   *)
ReleaseTaskSlot(p) ==
  slots' = [slots EXCEPT ![p] = IF @ > 0 THEN @ - 1 ELSE @]

GiveUpSlip(h) == Stop(h) /\ UNCHANGED slots

(* The returns of startTask that give the slot back.                          *)
GiveUp(h) == ReleaseTaskSlot(handler[h].home) /\ Stop(h)

Begin(h, p, r, pc) ==
  /\ handler[h].pc = "idle" /\ up[p]
  /\ handler' = [handler EXCEPT ![h] = Goroutine(pc, p, r)]
  /\ overlapped' = IF \E g \in Handlers : RunOf(g) = r THEN overlapped \cup {r} ELSE overlapped
  /\ UNCHANGED <<rows, records, slots, up, acked, lost>>

(* POST /run/articles, /feedback, /profile/rebuild: a fresh run id.           *)
Request(h, p, r) ==
  /\ rows[r].status = "absent"
  /\ \A g \in Handlers : RunOf(g) # r
  /\ Begin(h, p, r, "acquire")

(* POST /runs/{id}/retry: RetryTaskRun reads the row; an article task is read *)
(* and judged once more by RetryTask, a task of another type starts over.     *)
RetryTaskRun(h, p, r) ==
  /\ "retry" \in Environment
  /\ rows[r].status \in RetryableStatuses
  /\ Begin(h, p, r, IF TypeOf[r] = "articles" THEN "retryRead" ELSE "acquire")

RetryTask(h) ==
  /\ handler[h].pc = "retryRead"
  /\ \E ok \in Succeeds(h) :
       IF ok /\ rows[RunOf(h)].status \in RetryableStatuses
       THEN Goto(h, "retryPend")
       ELSE Stop(h)
  /\ UNCHANGED <<rows, records, slots, up, acked, lost, overlapped>>

(* RetryTask's UpdateTaskRun, with status pending and cancel_requested FALSE. *)
RetryToPending(h) ==
  /\ handler[h].pc = "retryPend"
  /\ \E ok \in Succeeds(h) :
       IF ok
       THEN /\ rows' = [rows EXCEPT ![RunOf(h)] = Updated(@, "pending", FALSE)]
            /\ Goto(h, "acquire")
       ELSE Stop(h) /\ UNCHANGED rows
  /\ UNCHANGED <<records, slots, up, acked, lost, overlapped>>

(* startTask: a slot, or "concurrent task limit reached".  When the context   *)
(* has ended and a slot is free, select takes either branch.                  *)
AcquireSlot(h) ==
  LET p == handler[h].home IN
  /\ handler[h].pc = "acquire"
  /\ \/ /\ slots[p] < MaxConcurrentTasks
        /\ slots' = [slots EXCEPT ![p] = @ + 1]
        /\ Goto(h, "select")
     \/ /\ slots[p] = MaxConcurrentTasks \/ ~handler[h].live
        /\ Stop(h) /\ UNCHANGED slots
  /\ UNCHANGED <<rows, records, up, acked, lost, overlapped>>

(* The active rows of r's user and task type, and the one with the last id.   *)
SameTask(q, r) == UserOf[q] = UserOf[r] /\ TypeOf[q] = TypeOf[r]
ActiveRunsSlip(r) == {q \in Runs : SameTask(q, r) /\ rows[q].status = "running"}
ActiveRuns(r)  == {q \in Runs : SameTask(q, r) /\ IsActive(rows[q])}
IsLatest(q, S) == q \in S /\ \A o \in S : rows[o].id <= rows[q].id

SelectActiveSlip(h) ==
  /\ handler[h].pc = "select"
  /\ \E ok \in Succeeds(h) :
       \/ ~ok /\ GiveUp(h)
       \/ /\ ok /\ ActiveRuns(RunOf(h)) = {}
          /\ Goto(h, "insert") /\ UNCHANGED slots
       \/ /\ ok
          /\ \E q \in Runs : /\ IsLatest(q, ActiveRuns(RunOf(h)))
                             /\ handler' = [handler EXCEPT ![h].pc = "claim", ![h].run = q]
                             /\ UNCHANGED slots
  /\ UNCHANGED <<rows, records, up, acked, lost, overlapped>>

(* CreateTaskRun, first statement: an active row is returned as it is, and    *)
(* unless it is the run's own (a retry), startTask gives the slot back.       *)
SelectActive(h) ==
  /\ handler[h].pc = "select"
  /\ \E ok \in Succeeds(h) :
       \/ ~ok /\ GiveUp(h)
       \/ /\ ok /\ ActiveRuns(RunOf(h)) = {}
          /\ Goto(h, "insert") /\ UNCHANGED slots
       \/ /\ ok
          /\ \E q \in Runs : /\ IsLatest(q, ActiveRuns(RunOf(h)))
                             /\ IF q = RunOf(h)
                                THEN Goto(h, "claim") /\ UNCHANGED slots
                                ELSE GiveUp(h)
  /\ UNCHANGED <<rows, records, up, acked, lost, overlapped>>

NextId == Cardinality({r \in Runs : rows[r].status # "absent"}) + 1

(* CreateTaskRun, second statement.                                           *)
InsertRow(h) ==
  /\ handler[h].pc = "insert"
  /\ \E ok \in Succeeds(h) :
       IF ok
       THEN /\ rows' = [rows EXCEPT ![RunOf(h)] = Inserted(@, NextId)]
            /\ Goto(h, "reread") /\ UNCHANGED slots
       ELSE GiveUp(h) /\ UNCHANGED rows
  /\ UNCHANGED <<records, up, acked, lost, overlapped>>

(* CreateTaskRun, third statement: the row as it is now.  startTask goes on   *)
(* with it unless it is cancelled; what else became of it does not matter.    *)
Reread(h) ==
  /\ handler[h].pc = "reread"
  /\ \E ok \in Succeeds(h) :
       IF ok /\ rows[RunOf(h)].status # "cancelled"
       THEN Goto(h, "claim") /\ UNCHANGED slots
       ELSE GiveUp(h)
  /\ UNCHANGED <<rows, records, up, acked, lost, overlapped>>

(* startTask's UpdateTaskRun: the row is running from here on.                *)
Claim(h) ==
  /\ handler[h].pc = "claim"
  /\ \E ok \in Succeeds(h) :
       IF ok
       THEN /\ rows' = [rows EXCEPT ![RunOf(h)] = Updated(@, "running", FALSE)]
            /\ Goto(h, "work") /\ UNCHANGED slots
       ELSE GiveUp(h) /\ UNCHANGED rows
  /\ UNCHANGED <<records, up, acked, lost, overlapped>>

--------------------------------------------------------------------------------
(* The steps.                                                                 *)
NextStep(h) == handler' = [handler EXCEPT ![h].step = @ + 1]

(* taskCancelled: a row that cannot be read counts as not cancelled.          *)
CheckCancelled(h) ==
  /\ AtStep(h, "check")
  /\ \E ok \in Succeeds(h) :
       IF ok /\ TaskCancelled(rows[RunOf(h)])
       THEN Goto(h, "cancelled")
       ELSE handler' = [handler EXCEPT ![h].step = @ + 1,
                                       ![h].sawCancel = RunOf(h) \in acked]
  /\ UNCHANGED <<rows, records, slots, up, acked, lost, overlapped>>

(* updateTaskPartial: writes status running, and ignores an error.            *)
SavePartial(h) ==
  /\ AtStep(h, "save")
  /\ \E ok \in Succeeds(h) :
       rows' = IF ok THEN [rows EXCEPT ![RunOf(h)] = Updated(@, "running", FALSE)]
                     ELSE rows
  /\ NextStep(h)
  /\ UNCHANGED <<records, slots, up, acked, lost, overlapped>>

(* UpsertFeedbackReceived.  A duplicate of a feedback that is processed ends  *)
(* the task at once, under the run id of the feedback's first run.            *)
UpsertFeedback(h) ==
  LET c     == ContentOf[RunOf(h)]
      owner == records[c].owner
  IN /\ AtStep(h, "upsert")
     /\ TRUE \in Succeeds(h)
     /\ \/ /\ owner = None
           /\ records' = [records EXCEPT ![c].owner = RunOf(h)]
           /\ NextStep(h) /\ UNCHANGED overlapped
        \/ /\ owner # None /\ ~records[c].done
           /\ NextStep(h) /\ UNCHANGED <<records, overlapped>>
        \/ /\ owner # None /\ records[c].done
           /\ overlapped' = overlapped \cup ({owner} \ {RunOf(h)})
           /\ Goto(h, "duplicate") /\ UNCHANGED records
     /\ UNCHANGED <<rows, slots, up, acked, lost>>

(* MarkFeedbackProcessing and MarkFeedbackFailed, whatever the status was.    *)
Unprocessed(h) == records' = [records EXCEPT ![ContentOf[RunOf(h)]].done = FALSE]

MarkFeedbackProcessing(h) ==
  /\ AtStep(h, "mark")
  /\ TRUE \in Succeeds(h)
  /\ Unprocessed(h) /\ NextStep(h)
  /\ UNCHANGED <<rows, slots, up, acked, lost, overlapped>>

(* The agent, or the new version of the profile, failed; when this statement  *)
(* fails too, the task ends all the same (the exit of step "effect").         *)
MarkFeedbackFailed(h) ==
  /\ AtStep(h, "effect") /\ TypeOf[RunOf(h)] = "feedback"
  /\ TRUE \in Succeeds(h)
  /\ Unprocessed(h) /\ Goto(h, "failed")
  /\ UNCHANGED <<rows, slots, up, acked, lost, overlapped>>

(* The agent call and the writes of its results; MarkFeedbackCompleted.       *)
Effect(h) ==
  /\ AtStep(h, "effect")
  /\ TRUE \in Succeeds(h)
  /\ NextStep(h)
  /\ records' = IF TypeOf[RunOf(h)] = "feedback"
                THEN [records EXCEPT ![ContentOf[RunOf(h)]].done = TRUE]
                ELSE records
  /\ UNCHANGED <<rows, slots, up, acked, lost, overlapped>>

EndingsSlip(h) ==
  IF handler[h].pc = "duplicate" THEN {"completed"}
  ELSE IF handler[h].pc = "failed" THEN {"failed"}
  ELSE IF handler[h].pc # "work" THEN {}
  ELSE IF handler[h].step \in DOMAIN Steps(TypeOf[RunOf(h)]) THEN StepOf(h).exits
  ELSE Outcomes(TypeOf[RunOf(h)])

(* How the task may end now: cancelled, as a duplicate, failed, early in      *)
(* place of its next step, or after the last one.                             *)
Endings(h) ==
  LET type == TypeOf[RunOf(h)] IN
  IF handler[h].pc = "cancelled" THEN {"cancelled"}
  ELSE IF handler[h].pc = "duplicate" THEN {"completed"}
  ELSE IF handler[h].pc = "failed" THEN {"failed"}
  ELSE IF handler[h].pc # "work" THEN {}
  ELSE IF handler[h].step \in DOMAIN Steps(type) THEN StepOf(h).exits
  ELSE Outcomes(type)

FinishTaskSlip(h) ==
  /\ \E status \in Endings(h), ok \in Succeeds(h) :
       rows' = IF ok /\ status # "failed"
               THEN [rows EXCEPT ![RunOf(h)] = Marked(@, status)]
               ELSE rows
  /\ handler' = [handler EXCEPT ![h] = Goroutine("return", handler[h].home, None)]
  /\ UNCHANGED <<records, slots, up, acked, lost, overlapped>>

(* finishTask ignores the error of MarkTaskRunStatus.  For a duplicate it is  *)
(* given the run id of the feedback's first run.                              *)
Finished(h) ==
  IF handler[h].pc = "duplicate" THEN records[ContentOf[RunOf(h)]].owner ELSE RunOf(h)

FinishTask(h) ==
  /\ \E status \in Endings(h), ok \in Succeeds(h) :
       /\ rows' = IF ok THEN [rows EXCEPT ![Finished(h)] = Marked(@, status)] ELSE rows
       /\ lost' = IF ok /\ Finished(h) = RunOf(h) THEN lost ELSE lost \cup {RunOf(h)}
  /\ overlapped' = IF Finished(h) = RunOf(h) THEN overlapped ELSE overlapped \cup {Finished(h)}
  /\ handler' = [handler EXCEPT ![h] = Goroutine("return", handler[h].home, None)]
  /\ UNCHANGED <<records, slots, up, acked, overlapped>>

(* The deferred releaseTaskSlot.                                              *)
Return(h) ==
  /\ handler[h].pc = "return"
  /\ GiveUp(h)
  /\ UNCHANGED <<rows, records, up, acked, lost, overlapped>>

HandlerStep(h) ==
  \/ RetryTask(h) \/ RetryToPending(h)
  \/ AcquireSlot(h) \/ SelectActive(h) \/ InsertRow(h) \/ Reread(h) \/ Claim(h)
  \/ CheckCancelled(h) \/ SavePartial(h) \/ UpsertFeedback(h)
  \/ MarkFeedbackProcessing(h) \/ MarkFeedbackFailed(h) \/ Effect(h)
  \/ FinishTask(h) \/ Return(h)

--------------------------------------------------------------------------------
(* The environment.                                                           *)

(* The client goes away, or the task's timeout elapses: from now on every     *)
(* statement and call made with the request's context fails.                  *)
Expire(h) ==
  /\ "expire" \in Environment
  /\ handler[h].pc # "idle" /\ handler[h].live
  /\ handler' = [handler EXCEPT ![h].live = FALSE]
  /\ UNCHANGED <<rows, records, slots, up, acked, lost, overlapped>>

(* RequestTaskCancellation, from any replica.                                 *)
CancelTask(r) ==
  /\ "cancel" \in Environment
  /\ \E p \in Replicas : up[p]
  /\ rows[r].status # "absent"
  /\ rows' = [rows EXCEPT ![r] = CancelledByRequest(@)]
  /\ acked' = acked \cup {r}
  /\ UNCHANGED <<records, slots, up, handler, lost, overlapped>>

Crash(p) ==
  /\ "crash" \in Environment
  /\ up[p]
  /\ up' = [up EXCEPT ![p] = FALSE]
  /\ slots' = [slots EXCEPT ![p] = 0]
  /\ handler' = [h \in Handlers |-> IF handler[h].home = p THEN Idle ELSE handler[h]]
  /\ UNCHANGED <<rows, records, acked, lost, overlapped>>

(* main: recovery runs before the server listens; it touches the rows of      *)
(* every replica.  When it fails the server starts all the same.              *)
Restart(p) ==
  /\ ~up[p]
  /\ up' = [up EXCEPT ![p] = TRUE]
  /\ \/ /\ rows' = [r \in Runs |-> Recovered(rows[r])]
        /\ overlapped' = overlapped \cup {r \in Runs : \E h \in Handlers : Executes(h, r)}
        /\ UNCHANGED lost
     \/ /\ "dbError" \in Environment
        /\ lost' = lost \cup {r \in Runs : rows[r].status = "running"}
        /\ UNCHANGED <<rows, overlapped>>
  /\ UNCHANGED <<records, slots, handler, acked>>

Next ==
  \/ \E h \in Handlers, p \in Replicas, r \in Runs :
       Request(h, p, r) \/ RetryTaskRun(h, p, r)
  \/ \E h \in Handlers : HandlerStep(h) \/ Expire(h)
  \/ \E r \in Runs : CancelTask(r)
  \/ \E p \in Replicas : Crash(p) \/ Restart(p)

(* A goroutine that can take a step takes it: every call it makes returns, at *)
(* the latest when its context ends.  A stopped replica is started again      *)
(* (restart: unless-stopped, Kubernetes Deployment).                          *)
Fairness ==
  /\ \A h \in Handlers : WF_vars(HandlerStep(h))
  /\ \A p \in Replicas : WF_vars(Restart(p))

Spec     == Init /\ [][Next]_vars
FairSpec == Spec /\ Fairness

--------------------------------------------------------------------------------
TypeOK ==
  /\ rows \in [Runs -> Row]
  /\ records \in [Contents -> [owner : Runs \cup {None}, done : BOOLEAN]]
  /\ slots \in [Replicas -> Nat]
  /\ up \in [Replicas -> BOOLEAN]
  /\ handler \in [Handlers -> HandlerRecord]
  /\ acked \subseteq Runs
  /\ lost \subseteq Runs
  /\ overlapped \subseteq Runs

HoldsSlot(h, p) == handler[h].home = p /\ handler[h].pc \in SlotPCs
Holders(p)      == {h \in Handlers : HoldsSlot(h, p)}

(* The tokens in a replica's channel are those of the goroutines between      *)
(* startTask's send and the matching receive: none leaks on an error path and *)
(* none is taken back twice, so at most max_concurrent_tasks tasks execute.   *)
SlotsAccounted ==
  \A p \in Replicas :
    /\ slots[p] = Cardinality(Holders(p))
    /\ slots[p] <= MaxConcurrentTasks

(* A cancellation a client was told of stays in the row, whatever the task,   *)
(* its retries and the recovery write into the row afterwards.                *)
CancellationSticks == \A r \in acked : rows[r].cancel

(* A task whose cancellation was answered before its last checkpoint never    *)
(* gets to the agent call or to writing results.                              *)
NoEffectAfterCancel ==
  \A h \in Handlers : AtStep(h, "effect") /\ handler[h].live => ~handler[h].sawCancel

(* A row is left running with no goroutine executing it only while a replica  *)
(* is down, or when its final status was not written to it, or the task was   *)
(* cancelled while it ran.                                                    *)
OrphansExplained ==
  \A r \in Runs :
    rows[r].status = "running" /\ (\A h \in Handlers : ~Executes(h, r))
      => \/ \E p \in Replicas : ~up[p]
         \/ r \in lost \cup acked

(* One pending or running task per user and task type.                        *)
OneActiveTask ==
  \A q, r \in Runs :
    SameTask(q, r) /\ IsActive(rows[q]) /\ IsActive(rows[r]) => q = r

(* A request that got past the limit gets its answer and gives its slot back. *)
EveryRequestReturns ==
  \A h \in Handlers : handler[h].pc # "idle" ~> handler[h].pc = "idle"

(* A running task reaches another status, with the exceptions above.          *)
RunningSettles ==
  \A r \in Runs :
    rows[r].status = "running"
      ~> (rows[r].status # "running" \/ r \in lost \cup acked)

(* Task control takes a run through the abstract life cycle of its status     *)
(* until it is cancelled or gets a second writer, whatever the tasks of other *)
(* runs do in between.                                                        *)
StatusOf == [r \in Runs |-> rows[r].status]
Lifecycle ==
  INSTANCE TaskLifecycle WITH status <- StatusOf, disturbed <- acked \cup overlapped
KeepsLifecycle == Lifecycle!Spec

(* What the harness states of every run: canTransitionTaskStatus.             *)
Stated == INSTANCE TaskLifecycle WITH status <- StatusOf, disturbed <- {}
ImplementsLifecycle == Stated!Spec
================================================================================
