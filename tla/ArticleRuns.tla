------------------------------ MODULE ArticleRuns ------------------------------
(******************************************************************************)
(* runArticles: what becomes of each article on its way from the crawler      *)
(* through table articles, the agent and table posts, when statements fail,   *)
(* tasks are cancelled, the process dies, and runs are retried.               *)
(*                                                                            *)
(* INSERT IGNORE makes a run the one that handles an article: no later crawl  *)
(* hands it out again.  From then on the article is in that run's memory,     *)
(* or in the snapshot "processable_articles" of its partial_result_json, or   *)
(* it is done with, or it is lost.                                            *)
(*                                                                            *)
(* Task control is in module TaskControl.  Here runs may overlap (run         *)
(* task_two_active), and so may the executions of one run: RetryTask judges   *)
(* the status it has read, and what two requests read is the same.            *)
(******************************************************************************)
EXTENDS Naturals, FiniteSets

CONSTANTS
  Workers,     \* request goroutines
  Runs,        \* run ids
  Articles,
  None,
  MaxRetries,  \* bound: retries in all
  Environment  \* what goes wrong, out of "crash", "cancel", "dbError",
               \*   "agentError", "badFetch"

ASSUME RunsAssumption ==
  /\ None \notin Runs \cup Workers \cup Articles
  /\ MaxRetries \in Nat
  /\ Environment \subseteq {"crash", "cancel", "dbError", "agentError", "badFetch"}

VARIABLES
  stored,   \* the rows of articles
  posts,    \* the articles that have a row in posts
  runs,     \* per run: status, whether a partial result was saved, its snapshot
  worker,   \* the goroutines
  retries,
  settled,  \* history: articles stored without a text to process, dropped by
            \*   the agent, or with a post
  excused,  \* history: articles whose loss a failure explains
  overlapped \* history: runs that were retried while a goroutine executed them

vars == <<stored, posts, runs, worker, retries, settled, excused, overlapped>>

RetryableStatuses == {"failed", "partially_completed", "pending"}

(* A goroutine: the run, the partial result in the row as it last read it and *)
(* will write it back, the candidates still to be inserted and those of them  *)
(* with a text, existing.PartialResult's snapshot (of a retry), newArticles,  *)
(* and the articles sent to the agent, later those it keeps.                  *)
NoPartial == [saved |-> FALSE, snapshot |-> {}]
Idle == [pc |-> "idle", run |-> None, read |-> NoPartial, todo |-> {}, good |-> {},
         existing |-> {}, new |-> {}, batch |-> {}]
StartPCs == {"retry", "select", "reread", "claim"}
PCs == StartPCs \cup {"idle", "fetch", "insert", "resume", "filter", "save", "agent",
                      "posts", "markdown"}

Init ==
  /\ stored = {} /\ posts = {}
  /\ runs = [r \in Runs |-> [status |-> "absent", saved |-> FALSE, snapshot |-> {}]]
  /\ worker = [w \in Workers |-> Idle]
  /\ retries = 0
  /\ settled = {} /\ excused = {} /\ overlapped = {}

--------------------------------------------------------------------------------
At(w, pc) == worker[w].pc = pc

(* What is in w's memory and nowhere decided yet.                             *)
InHand(w) == worker[w].existing \cup worker[w].new \cup worker[w].batch

Become(w, g) == worker' = [worker EXCEPT ![w] = g]
SetRun(r, status, snapshot) ==
  runs' = [runs EXCEPT ![r] = [status |-> status, saved |-> TRUE, snapshot |-> snapshot]]

(* What another execution of w's run saved, and w has not got, when w writes  *)
(* its own snapshot over it.                                                  *)
Overwritten(w, snapshot) ==
  IF worker[w].run \in overlapped
  THEN runs[worker[w].run].snapshot \ (snapshot \cup InHand(w))
  ELSE {}

(* finishTask: MarkTaskRunStatus writes the snapshot it is given, mostly none; *)
(* when it fails, the row stays as it was.                                    *)
Finish(w, status, snapshot) ==
  /\ Become(w, Idle)
  /\ \/ /\ SetRun(worker[w].run, status, snapshot)
        /\ excused' = excused \cup Overwritten(w, snapshot)
     \/ /\ "dbError" \in Environment
        /\ excused' = excused \cup InHand(w)
        /\ UNCHANGED runs

(* The task fails before it got to the agent: the articles in hand are lost.  *)
Abandon(w, status) ==
  /\ Become(w, Idle)
  /\ excused' = excused \cup InHand(w) \cup Overwritten(w, {})
  /\ \/ SetRun(worker[w].run, status, {})
     \/ "dbError" \in Environment /\ UNCHANGED runs

(* updateTaskPartial: its error is ignored.                                   *)
SavePartial(w, snapshot) ==
  \/ /\ SetRun(worker[w].run, "running", snapshot)
     /\ excused' = excused \cup Overwritten(w, snapshot)
  \/ /\ "dbError" \in Environment
     /\ excused' = excused \cup InHand(w)
     /\ UNCHANGED runs

(* UpdateTaskRun with the row as w read it: its partial result is written     *)
(* back, unless there was none.                                               *)
WriteBack(w, status) ==
  LET r == worker[w].run
      snapshot == IF worker[w].read.saved THEN worker[w].read.snapshot
                  ELSE runs[r].snapshot
  IN /\ runs' = [runs EXCEPT ![r] = [status |-> status,
                                     saved |-> @.saved \/ worker[w].read.saved,
                                     snapshot |-> snapshot]]
     /\ excused' = excused \cup Overwritten(w, snapshot)

(* startTask gives up: what the row no longer has is gone with the goroutine. *)
Leave(w) ==
  /\ Become(w, Idle)
  /\ excused' = excused \cup
       (IF worker[w].run \in overlapped
        THEN InHand(w) \ runs[worker[w].run].snapshot ELSE {})
  /\ UNCHANGED runs

--------------------------------------------------------------------------------
(* The row is inserted by CreateTaskRun, which then reads it again.           *)
RunArticles(w, r) ==
  /\ At(w, "idle") /\ runs[r].status = "absent"
  /\ runs' = [runs EXCEPT ![r].status = "pending"]
  /\ Become(w, [Idle EXCEPT !.pc = "reread", !.run = r])
  /\ UNCHANGED <<stored, posts, retries, settled, excused, overlapped>>

(* RetryTask reads the row and judges its status.                             *)
RetryTask(w, r) ==
  /\ At(w, "idle") /\ retries < MaxRetries
  /\ runs[r].status \in RetryableStatuses
  /\ retries' = retries + 1
  /\ Become(w, [Idle EXCEPT
       !.pc = "retry", !.run = r, !.existing = runs[r].snapshot,
       !.read = [saved |-> runs[r].saved, snapshot |-> runs[r].snapshot]])
  /\ overlapped' = IF \E v \in Workers : worker[v].run = r
                   THEN overlapped \cup {r} ELSE overlapped
  /\ UNCHANGED <<stored, posts, runs, settled, excused>>

(* RetryTask's UpdateTaskRun, whatever became of the row since.               *)
RetryToPending(w) ==
  /\ At(w, "retry")
  /\ WriteBack(w, "pending")
  /\ Become(w, [worker[w] EXCEPT !.pc = "select", !.read = NoPartial])
  /\ UNCHANGED <<stored, posts, retries, settled, overlapped>>

(* startTask: no slot is free, another run of the user is active, or one of   *)
(* its statements or RetryTask's fails.                                       *)
Refused(w) ==
  /\ \/ At(w, "select")
     \/ "dbError" \in Environment /\ worker[w].pc \in StartPCs
  /\ Leave(w)
  /\ UNCHANGED <<stored, posts, retries, settled, overlapped>>

(* CreateTaskRun returns the row of the run as it is now; startTask stops     *)
(* when it is cancelled.                                                      *)
ReadRun(w) ==
  LET row == runs[worker[w].run] IN
  /\ worker[w].pc \in {"select", "reread"}
  /\ \/ row.status = "cancelled" /\ Leave(w)
     \/ /\ row.status # "cancelled"
        /\ Become(w, [worker[w] EXCEPT
             !.pc = "claim", !.read = [saved |-> row.saved, snapshot |-> row.snapshot]])
        /\ UNCHANGED <<runs, excused>>
  /\ UNCHANGED <<stored, posts, retries, settled, overlapped>>

(* startTask's UpdateTaskRun.                                                 *)
Claim(w) ==
  /\ At(w, "claim")
  /\ WriteBack(w, "running")
  /\ Become(w, [worker[w] EXCEPT !.pc = "fetch", !.read = NoPartial])
  /\ UNCHANGED <<stored, posts, retries, settled, overlapped>>

(* The checkpoint taskCancelled; a cancelled run is not retried.              *)
Cancelled(w) ==
  /\ "cancel" \in Environment
  /\ worker[w].pc \in {"fetch", "agent"}
  /\ Abandon(w, "cancelled")
  /\ UNCHANGED <<stored, posts, retries, settled, overlapped>>

(* fetchArticles and Deduplicate: any articles.                               *)
FetchArticles(w) ==
  /\ At(w, "fetch")
  /\ \E S \in SUBSET Articles :
       Become(w, [worker[w] EXCEPT !.pc = "insert", !.todo = S])
  /\ UNCHANGED <<stored, posts, runs, retries, settled, excused, overlapped>>

(* A new row: the article is w's.  Whether the crawl got its text matters     *)
(* only from here on; without one there is nothing to process.                *)
TakeArticle(w, a) ==
  \/ /\ Become(w, [worker[w] EXCEPT !.todo = @ \ {a}, !.new = @ \cup {a},
                                   !.good = @ \cup {a}])
     /\ UNCHANGED settled
  \/ /\ "badFetch" \in Environment
     /\ Become(w, [worker[w] EXCEPT !.todo = @ \ {a}, !.new = @ \cup {a}])
     /\ settled' = settled \cup {a}

InsertArticleSlip(w, a) ==
  /\ At(w, "insert") /\ a \in worker[w].todo
  /\ stored' = stored \cup {a}
  /\ TakeArticle(w, a)
  /\ UNCHANGED <<posts, runs, retries, excused, overlapped>>

(* InsertArticle: INSERT IGNORE; a row that was there is not ours.            *)
InsertArticle(w, a) ==
  /\ At(w, "insert") /\ a \in worker[w].todo
  /\ stored' = stored \cup {a}
  /\ \/ a \notin stored /\ TakeArticle(w, a)
     \/ /\ a \in stored
        /\ Become(w, [worker[w] EXCEPT !.todo = @ \ {a}])
        /\ UNCHANGED settled
  /\ UNCHANGED <<posts, runs, retries, excused, overlapped>>

(* After the loop: updateTaskPartial("save_articles") writes no snapshot.     *)
SaveArticles(w) ==
  /\ At(w, "insert") /\ worker[w].todo = {}
  /\ SavePartial(w, {})
  /\ Become(w, [worker[w] EXCEPT !.pc = "resume"])
  /\ UNCHANGED <<stored, posts, retries, settled, overlapped>>

(* A retry goes on with the snapshot, unless the crawl brought new articles.  *)
Resume(w) ==
  LET use == IF worker[w].new = {} THEN worker[w].existing ELSE worker[w].new IN
  /\ At(w, "resume")
  /\ Become(w, [worker[w] EXCEPT
       !.pc = "filter", !.new = use, !.existing = {},
       !.good = IF worker[w].new = {} THEN worker[w].existing ELSE @])
  /\ excused' = excused \cup (worker[w].existing \ use)
  /\ UNCHANGED <<stored, posts, runs, retries, settled, overlapped>>

FilterSlip(w) ==
  /\ At(w, "filter")
  /\ Become(w, [worker[w] EXCEPT !.pc = "save", !.new = {}, !.good = {},
                                !.batch = worker[w].new \cap worker[w].good])
  /\ UNCHANGED <<stored, posts, runs, retries, settled, excused, overlapped>>

(* Processable and filterArticlesWithoutPosts (posts of these articles are    *)
(* only written here, so that the queries may be one step).                   *)
Filter(w) ==
  /\ At(w, "filter")
  /\ Become(w, [worker[w] EXCEPT !.pc = "save", !.new = {}, !.good = {},
                                !.batch = (worker[w].new \cap worker[w].good) \ posts])
  /\ UNCHANGED <<stored, posts, runs, retries, settled, excused, overlapped>>

(* Nothing to process: completed, or failed when every source failed.         *)
NothingToDo(w) ==
  /\ At(w, "save") /\ worker[w].batch = {}
  /\ \E status \in {"completed", "failed"} : Finish(w, status, {})
  /\ UNCHANGED <<stored, posts, retries, settled, overlapped>>

(* updateTaskPartial("process_articles"), with the snapshot.                  *)
SaveSnapshot(w) ==
  /\ At(w, "save") /\ worker[w].batch # {}
  /\ SavePartial(w, worker[w].batch)
  /\ Become(w, [worker[w] EXCEPT !.pc = "agent"])
  /\ UNCHANGED <<stored, posts, retries, settled, overlapped>>

(* callProcessArticles: the agent keeps some articles and drops the others.   *)
ProcessArticles(w) ==
  /\ At(w, "agent")
  /\ \E keep \in SUBSET worker[w].batch :
       /\ Become(w, [worker[w] EXCEPT !.pc = "posts", !.batch = keep])
       /\ settled' = settled \cup (worker[w].batch \ keep)
  /\ UNCHANGED <<stored, posts, runs, retries, excused, overlapped>>

AgentFailsSlip(w) ==
  /\ "agentError" \in Environment
  /\ At(w, "agent")
  /\ Finish(w, "partially_completed", {})
  /\ UNCHANGED <<stored, posts, retries, settled, overlapped>>

(* All its attempts failed.  partialStatus: there are new articles.           *)
AgentFails(w) ==
  /\ "agentError" \in Environment
  /\ At(w, "agent")
  /\ Finish(w, "partially_completed", worker[w].batch)
  /\ UNCHANGED <<stored, posts, retries, settled, overlapped>>

(* persistAgentResults: InsertPost; a result without text, like one whose     *)
(* statement fails, is skipped, and the task goes on.                         *)
InsertPost(w, a) ==
  /\ At(w, "posts") /\ a \in worker[w].batch
  /\ Become(w, [worker[w] EXCEPT !.batch = @ \ {a}])
  /\ \/ posts' = posts \cup {a} /\ settled' = settled \cup {a} /\ UNCHANGED excused
     \/ /\ "dbError" \in Environment
        /\ excused' = excused \cup {a}
        /\ UNCHANGED <<posts, settled>>
  /\ UNCHANGED <<stored, runs, retries, overlapped>>

(* updateTaskPartial("save_posts") writes no snapshot.                        *)
SavePosts(w) ==
  /\ At(w, "posts") /\ worker[w].batch = {}
  /\ SavePartial(w, {})
  /\ Become(w, [worker[w] EXCEPT !.pc = "markdown"])
  /\ UNCHANGED <<stored, posts, retries, settled, overlapped>>

WriteMarkdown(w) ==
  /\ At(w, "markdown")
  /\ \E status \in {"completed", "partially_completed"} : Finish(w, status, {})
  /\ UNCHANGED <<stored, posts, retries, settled, overlapped>>

(* InsertArticle or ArticleHasPost fails.                                     *)
StatementFails(w) ==
  /\ "dbError" \in Environment
  /\ \/ At(w, "insert") /\ worker[w].todo # {}
     \/ At(w, "filter") /\ worker[w].new \cap worker[w].good # {}
  /\ Abandon(w, "failed")
  /\ UNCHANGED <<stored, posts, retries, settled, overlapped>>

(* RecoverInterruptedTaskRuns.                                                *)
Recovered(r) ==
  IF runs[r].status = "running" THEN [runs[r] EXCEPT !.status = "pending"] ELSE runs[r]

(* What w alone knows: nothing, between its snapshot and the end of its       *)
(* posts, unless another execution of the run wrote over that snapshot.       *)
Unsaved(w) ==
  IF \/ At(w, "idle")
     \/ worker[w].pc \in {"agent", "posts"} /\ worker[w].run \notin overlapped
  THEN {}
  ELSE InHand(w) \ runs[worker[w].run].snapshot

(* The process stops and is started again.                                    *)
Crash ==
  /\ "crash" \in Environment
  /\ excused' = excused \cup UNION {Unsaved(w) : w \in Workers}
  /\ worker' = [w \in Workers |-> Idle]
  /\ runs' = [r \in Runs |-> Recovered(r)]
  /\ UNCHANGED <<stored, posts, retries, settled, overlapped>>

Step(w) ==
  \/ RetryToPending(w) \/ Refused(w) \/ ReadRun(w) \/ Claim(w)
  \/ FetchArticles(w) \/ SaveArticles(w) \/ Resume(w) \/ Filter(w) \/ NothingToDo(w)
  \/ SaveSnapshot(w) \/ ProcessArticles(w) \/ AgentFails(w)
  \/ SavePosts(w) \/ WriteMarkdown(w)
  \/ \E a \in Articles : InsertArticle(w, a) \/ InsertPost(w, a)

Next ==
  \/ \E w \in Workers :
       \/ \E r \in Runs : RunArticles(w, r) \/ RetryTask(w, r)
       \/ Step(w) \/ Cancelled(w) \/ StatementFails(w)
  \/ Crash

Spec == Init /\ [][Next]_vars

--------------------------------------------------------------------------------
Statuses == {"absent", "pending", "running", "completed", "failed",
             "partially_completed", "cancelled"}

Row     == [status : Statuses, saved : BOOLEAN, snapshot : SUBSET Articles]
Partial == [saved : BOOLEAN, snapshot : SUBSET Articles]

Goroutine ==
  [pc : PCs, run : Runs \cup {None}, read : Partial, todo : SUBSET Articles, good : SUBSET Articles,
   existing : SUBSET Articles, new : SUBSET Articles, batch : SUBSET Articles]

TypeOK ==
  /\ stored \subseteq Articles /\ posts \subseteq Articles
  /\ settled \subseteq Articles /\ excused \subseteq Articles
  /\ overlapped \subseteq Runs
  /\ runs \in [Runs -> Row]
  /\ worker \in [Workers -> Goroutine]
  /\ \A w \in Workers : ~At(w, "idle") => worker[w].run \in Runs
  /\ retries \in 0..MaxRetries

(* The articles a run answers for: in its snapshot or its goroutine's memory. *)
Held(r) == runs[r].snapshot \cup UNION {InHand(w) : w \in {v \in Workers : worker[v].run = r}}

(* No two runs answer for the same article, whatever is crawled and retried   *)
(* in which order.                                                            *)
OneRunPerArticle == \A q, r \in Runs : q # r => Held(q) \cap Held(r) = {}

(* The agent is asked for an article that has a post already only by a run    *)
(* that was retried while it was executed.                                    *)
NoSecondPost ==
  \A w \in Workers :
    At(w, "agent") /\ worker[w].run \notin overlapped => worker[w].batch \cap posts = {}

(* README.md:91 promises it of every run: articles that have a post are       *)
(* skipped before the agent is called, so that nothing is generated twice.    *)
PostedSkipped == \A w \in Workers : At(w, "agent") => worker[w].batch \cap posts = {}

Recoverable(r) == runs[r].status \in RetryableStatuses \cup {"running"}

(* Every stored article is done with, or in a goroutine's memory, or in the   *)
(* snapshot of a run that can be retried.                                     *)
Kept(a) ==
  \/ a \in settled
  \/ \E w \in Workers : a \in InHand(w)
  \/ \E r \in Runs : Recoverable(r) /\ a \in runs[r].snapshot

NoArticleLost == stored \subseteq {a \in Articles : Kept(a)}

(* An article is lost only to a failing statement, a cancellation, a crash    *)
(* before its snapshot was written, a retry whose crawl found new ones, or    *)
(* another execution of its run that wrote over its snapshot.                 *)
LossExplained == stored \subseteq {a \in Articles : Kept(a)} \cup excused
================================================================================
