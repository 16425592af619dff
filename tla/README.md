# KnowMate: specification and verification

KnowMate crawls articles, lets a Python agent turn some of them into posts, and
learns a user's profile from feedback. This directory specifies what makes that
work under concurrency and failure, checks it with TLC on small instances, and
proves every safety property of those checks with TLAPS, for instances of any size.

    cd tla
    tlc -config task_faults.cfg MCTaskControl      # a run: <name>.cfg, module in PROJECT.json
    tlapm McpClient_proofs.tla                     # a proof module

`PROJECT.json` lists the components, the runs, the source lines of every
definition, the hazards and which property covers each, the disagreements
found between the code and its documents, and the theorems.

Paths below are relative to the repository; `harness.go` is
`goframe-backend/internal/logic/harness/harness.go`, `mysql.go` is
`goframe-backend/internal/store/mysql.go`.

## 1. The system

    Web Admin --HTTP--> GoFrame backend --SQL--> MySQL
                           |  (1..n replicas)
                           +--gRPC--> Python Agent --MCP/HTTP--> embedding, fetch,
                                      (thread pool)              milvus, neo4j servers

| component | state | operations | how it interacts |
|---|---|---|---|
| Harness, task control (`harness.go` 331-416, 612-680) | channel `running` of slots per process; rows of `task_runs` | `startTask`, `finishTask`, `updateTaskPartial`, `taskCancelled`, `CancelTask`, `RetryTaskRun`, `RecoverInterruptedTasks` | goroutines of all replicas share the database; nothing else coordinates them |
| Harness, article runs (`runArticles`, `harness.go` 703-883) | `articles`, `posts`, `partial_result_json`, the goroutine's memory | crawl, insert, resume, filter, call the agent, insert posts, write Markdown | task control around it; crawler; agent over gRPC |
| Harness, profiles (`processFeedback`, `rebuildProfile`, `RollbackUserProfileSnapshot`) | `feedback_logs`, `user_profile_snapshot` | apply a feedback, rebuild from all, roll back | task control around the first two; rollback is no task; transactions of InnoDB |
| Harness, agent client (`callProcessArticles`, `callProcessFeedback`, `retryDelay`) | none kept | gRPC with exponential backoff | Python Agent; a call that timed out may still be running there |
| External memory of a feedback run (`memory_agent.py`, `mcp-servers/`, `harness.go` 1074-1096) | vectors in Milvus, interests in Neo4j, `memory_compensation_tasks` | embed, insert a vector, update the graph; a compensation task per failed write | harness, agent and MCP servers, over calls that may be lost, late or repeated |
| Profile weights (`_merge_profile`, `rebuildProfileFromFeedback`) | topic weights | merge one feedback; rebuild from all | the same rules, once in Python and once in Go |
| HTTP handlers, security | none | decode, authorise, call the harness | Web Admin |
| Crawler (`internal/crawler`) | robots.txt cache, worker pool, retries | fetch, parse, normalise, deduplicate | web sites; called by `runArticles` |
| Python Agent, response cache (`grpc_server.py` 83-120) | `OrderedDict` of responses, register of computations under way, lock, events | `get_or_compute` | the threads of the gRPC server |
| Python Agent, MCP client (`mcp/base_client.py`) | `_consecutive_failures`, `_circuit_opened_at` | `call_tool`: policy, schema, breaker, retries, fallback | one per MCP server, shared by the threads without a lock |
| Python Agent, MCP transport (`mcp/sdk_transport.py`) | connections, their locks, tool lists | start, connect, call, drop, close | one event loop for all clients; MCP servers as child processes or over HTTP |
| Python Agent, workflow and agents (`workflow/`, `agents/`, `tools/llm_tool.py`) | the state of one request | filter, summarise, rewrite, check, learn, remember | LLM, MCP clients |
| Python Agent, ranker (`recommendation/ranker.py`) | none kept | score, reject, order, diversify a batch | the filter agent |
| milvus-mcp, neo4j-mcp (`milvus_store.py`, `neo4j_store.py`) | vectors; interests of users. Each server has two stores, one in memory and one in a database | upsert, delete, search, deduplicate; update, query | Python Agent |
| embedding-mcp (`embedding_provider.py`) | cache of vectors with expiry | embed one or many texts | an embedding service |
| fetch-mcp | none kept | fetch a page | the summary agent |
| Web Admin | what the page shows | queries and commands | backend |

What is hard here:

* **Concurrency between replicas through one table.** No statement on
  `task_runs` is in a transaction with another, none looks at the status before
  it overwrites it, and recovery of one replica touches the rows of all.
* **Cancellation** is a flag that a task polls at checkpoints, while its own
  writes race with it.
* **Crashes** leave rows `running`, articles stored but not processed, versions
  written but feedback not marked.
* **Expired contexts.** A client that goes away, or a timeout, makes every
  later statement of the request fail, `finishTask`'s too.
* **Retries** repeat what was already done: a crawl, an agent call, a profile
  version.
* **Transactions** on profile versions overlap: a SELECT that takes no lock,
  row locks, gap locks, deadlocks.
* **Shared caches and connections** between Python threads, and between the
  tasks of one event loop, which interleave at every `await`.
* **Calls that were given up** and are carried out all the same, after the
  caller has tried again or gone on.
* **Two programs for one thing**: profile weights in Go and Python, every MCP
  store in memory and in a database.

What makes each part correct:

* task control: slots are never leaked nor given back twice; an answered
  cancellation stays; a cancelled task does no work after its next checkpoint;
  a row stays `running` without a goroutine only for known reasons; one active
  task per user and type; every request returns; statuses follow the machine of
  `canTransitionTaskStatus` as long as one goroutine writes them and nobody cancels;
* article runs: an article belongs to one run; it is not sent to the agent
  when it has a post, unless its run was retried while it was executed; once stored
  it is processed, or recoverable, or lost for a known reason;
* profiles: versions form a history; a completed feedback has its version;
  transactions end; a feedback counts once and for its own user;
* response cache: one computation at a time per request; none repeated without
  a failure or an eviction; bounded size; no lost wakeup;
* MCP client: an open circuit keeps calls from the server; it opens on a dead
  server and closes on a healthy one, whatever increments get lost; calls end.
* MCP transport: until the service closes, no child process is forgotten; one per
  server, however many tasks find none; a broken connection gives way in the end.
* external memory: what a completed feedback did not store is known for a
  reason; a success that is reported was stored; the graph counts a run once.
* profile weights, stores: the two programs agree on the same inputs, as far as
  rounding and what Neo4j has been loaded with allow; deduplication leaves nothing
  alike, in the batch or beside the store.
* embeddings: every text gets its own vector, whatever came from the cache.
* workflow: a post that passes the check comes from the article, by way of the
  model; no call leaves the tool policy or the request's.
* ranker: diversity keeps the order of what is alike; learning a topic never
  puts its articles back.

## 2. The modules

    TaskStore                the statements on a row of task_runs
      TaskControl            replicas, goroutines, slots, requests, steps, crashes
        MCTaskControl        instances for TLC
        TaskControl_proofs
      TaskLifecycle          abstract: the status machine of a run
    ArticleRuns              what becomes of each article
      MCArticleRuns, ArticleRuns_proofs
    ProfileUpdates           feedback, rebuilds, rollbacks on profile versions
      MCProfileUpdates, ProfileUpdates_proofs
    VersionHistory           abstract: a user's profile versions
    MemoryWrites             a feedback's external memory: agent, servers, backend
      MCMemoryWrites, MemoryWrites_proofs
    InterestLedger           abstract: what the interest graph counts
    ResponseCache            get_or_compute
    McpClient                call_tool: retries, circuit breaker, fallback
      McpClient_proofs
    McpConnections           the event loop's connection to a server over stdio
      McpConnections_proofs
    AgentWorkflow            one request through the agents
    Ranking                  rank: scores, rejections, order, diversity
    ProfileMerge             profile weights, in the agent and in the backend
    VectorStores             milvus-mcp's two stores
    InterestGraph            neo4j-mcp's two stores
    EmbeddingCache           embedding-mcp's cache and batches
    AgentParts               the last nine side by side, with their properties
      MCAgentParts             each by itself
      AgentFlow_proofs         the client, the connections, the agents, the ranking
      AgentStores_proofs       the caches, the stores, the profile

`TaskControl` composes `TaskStore` and is shown to implement `TaskLifecycle`;
`ProfileUpdates` is shown to implement `VersionHistory`, and `MemoryWrites`,
which composes backend, agent and servers, `InterestLedger`. `ArticleRuns` and
`ProfileUpdates` take of task control what they need: a run may be started,
retried and interrupted, and two tasks may overlap, because
`TaskControl` shows that they do (`task_two_active`).

One run may be executed twice at once: `RetryTask` writes `pending` on a status that it
has read before, and a recovery resets the runs of other replicas. Both modules have
a history variable `overlapped` for the runs to which this has happened. Nothing in the
code prevents it, and what depends on a single execution is stated for the
other runs (`KeepsLifecycle`, `NoSecondPost`), or names it as a reason (`LossExplained`).

Operators whose names end in `Slip` are plausible mistakes in the definition
below them: a dropped guard, a missing reset, a swapped order. No specification
uses them; `PROJECT.json` pairs each with the property that must fail when it
replaces the right one, which is how we know that the property says something.

### TaskStore, TaskControl

A row keeps its auto-increment id, the status and `cancel_requested`.
`TaskStore` has one operator per statement (`CreateTaskRun`'s INSERT,
`UpdateTaskRun`, `MarkTaskRunStatus`, `RequestTaskCancellation`,
`RecoverInterruptedTaskRuns`), and `TaskControl` one action per statement, so
that any two goroutines interleave between any two statements.
A goroutine (`handler[h]`) is a request on its way through `RetryTask`,
`startTask` (`AcquireSlot`, `SelectActive`, `InsertRow`, `Reread`, `Claim`), the
steps of its task type, `FinishTask` and `Return`. The steps of the three task
types are given as sequences (`ArticleSteps`, `FeedbackSteps`, `RebuildSteps`)
of what they do to `task_runs` and of the statuses they may exit with.
`records` holds the part of `feedback_logs` on which a task's end depends: a
second task with the same feedback finishes *the first one's run id*.
`handler[h].live` is the request's context. `acked`, `lost` and `overlapped` are history
variables, read by properties only; `overlapped` holds the runs that got a second
writer: retried while a goroutine had them, recovered while one executed them, or
ended by a duplicate.

`TaskLifecycle` is the status machine, and promises nothing of a run that is `disturbed`.
The code implements it with the cancelled and the overlapped runs as the disturbed ones
(`KeepsLifecycle`); with none (`ImplementsLifecycle`), as the harness states it,
the code does not.

The environment may stop and start replicas, end contexts, cancel, retry, and
make a single statement fail; the constant `Environment` says which of these
a run allows.

### ArticleRuns

One goroutine carries the candidates of the crawl (`todo`), `newArticles`
(`new`), the snapshot of a retry (`existing`) and `processableArticles`
(`batch`), from statement to statement. `stored` and `posts` are the two tables,
`runs[r].snapshot` is the article list in `partial_result_json`. What the crawl
finds and what the agent keeps are choices. A retry (`RetryTask`) reads the row and
writes it back as `pending` (`RetryToPending`) with what it has read, whatever became
of it in between and whoever executes the run. `settled` and `excused` are history
variables: articles that need no more work, and those whose loss a failure
explains. Each action that can lose an article on a failure says so by adding to
`excused`, and an action that adds nothing must not lose any: that is what
`LossExplained` checks. Of a run that is executed twice, the execution that writes its
snapshot over the other's excuses what the other had saved (`Overwritten`). An overlapped
run may also send an article with a post to the agent, which README.md:91 of
the repository excludes for every run: `PostedSkipped` is that promise, which the run
`article_twice` refutes, and `NoSecondPost` what is left of it.

### ProfileUpdates

A profile is abstracted to how often each feedback has been applied to it: that
is what tells a lost update, a double application and a foreign profile apart.
`InsertUserProfileSnapshotVersion` is four actions (`TxSelect`, `TxUpdate`,
`TxInsert`, `TxCommit`) over InnoDB's locks as the statements take them: the
SELECT none, the UPDATE the user's rows, or a shareable gap lock when there are
none, and the INSERT an exclusive place in the gap; a cycle of waiting makes one
transaction the victim (`TxInsertFails`). The unique key
`uk_profile_user_version` is `Repeated`. Locks end with COMMIT, ROLLBACK, or
the connection.

### ResponseCache

`get_or_compute` with one action per critical section of its lock: `Look`
(cached, wait, or compute), `Store` (insert and evict), `Raise` and `Release`.
The order of the `OrderedDict` is a rank per key. Whether a computation succeeds
is a choice. `undone` counts failures and evictions, `computed` the
computations, for `OnceUnlessUndone` only.

### McpClient

The breaker of one server, shared by threads. Every read and write of its two
attributes is an action, `+=` three of them (`Load`, `Add` and the new read in
`Test`): CPython may switch threads between any two. Time is abstracted to
whether `circuit_reset_seconds` have passed since the circuit opened
(`opened` is `"fresh"` or `"elapsed"`); the counter stops at the threshold,
beyond which no code tells its values apart. `answers` is what the server can do
at present, and changes at any time. What a call returns to the agent, a
degraded result or an error, is not told apart: no state depends on it. `blocked`
is a history variable for `FailsFast`.

### McpConnections

`OfficialMcpTransport` runs an event loop in a thread of its own. A coroutine on
it is a task (`task[k]`) with the await it is at (`pc`) and the connection it
has in hand; an action is what the loop does from one await to the next.
`Look` and `Acquire` are the two checks of `_connect`, before and with the
server's lock; `Opened` registers the connection *before* `_discover` has
returned, as the code does, so that `Abort` closes a connection that others may
have found. `Fail` is `_drop_connection`: it takes out whatever connection is
registered by then, which need not be the one whose call failed. `Timeout` is
the thread that gives up its future; the task is cancelled and hears of it at
its next await (`Cancelled`). `mood` is the environment: when `"faulty"`, child
processes end, requests go unanswered and timeouts expire.

`Pop` and `Clear` are `_close_all`. Handlers that outlive the grace period of the gRPC
server go on calling: one may register a connection after `Pop` has looked, and
`Clear` drops it without closing it. After `Stop` a call finds no thread and starts another
loop (`Restart`): `_connections` and the locks stay, the tasks and connections of the
first loop are dead; a lock that was held then is free if Python collects
its task, or is never free again (`phase = "wedged"`). `forgotten` is a history variable:
the processes that `Clear` and `Restart` have left to nobody. The code does lose them;
`NoLeak` and `OneConnection` say that it loses no others, and none before `close()`. Two
threads that go through the unlocked `start()` at the same time, and start two
loops, are not modelled.

### MemoryWrites, InterestLedger

A worker of the agent goes through `MemoryAgent.run` (`embed`, `milvus`,
`neo4j`, `done`). A call's try is answered (`Answer`), or fails (`Fail`): before
the server did anything, after it, or with the request still under way
(`late`), to `Arrive` whenever it likes. `Execute` is what the servers do:
an upsert by id, and Neo4j's `UPDATE_QUERY`, which applies an event once. The
backend delivers a run again after a deadline or a restart (`Deliver`), while the
agent may still be at the delivery before. `MarkFeedbackCompleted` completes the run,
and `RecordCompensation`, a step later, writes the compensation tasks: any of their
INSERTs may fail, or the backend stops before them, and no retry repeats them, since
it ends with its idempotency key. A stop *before* `MarkFeedbackCompleted` is `Discard`: the
run is delivered again. `excused` is a history variable: the writes that were not made,
with the reason: the fallback answered (`degraded`), there was no vector
(`unembedded`), or the task that was due was not written (`unrecorded`). The last
leaves no trace in the database; it is the model that remembers it. `InterestLedger` is
what is promised of `counted` and `weight`.

### ProfileMerge, VectorStores, InterestGraph

Each of them gives the same calls to two programs and compares them.
`ProfileMerge` has the agent's merge, which takes one feedback after the other, and
the backend's rebuild over the history; weights are integers at the precision
to which both round, four decimals, and so are the deltas. Python rounds a tie by the
binary value of the sum, Go by that of the product with 10000, and the two may differ
(0.0035 * 0.90 + 0.0035 is 0.0066 in one and 0.0067 in the other), so that each program
has a constant of its own for the ties that it rounds up. `VectorStores` has the
in-memory store and Milvus behind
`milvus-mcp`; a vector is a model value, and the cosine of two vectors a given
function. The two stores do the same things in another order: one filters,
compares and cuts, the other filters, cuts and then compares. `InterestGraph` has the
in-memory graph and Neo4j behind `neo4j-mcp`, both after
`normalize_interest_event`. For explanations one follows the constant `RELATED`, the
other the `RELATED_TO` relationships in Neo4j (`edges`), which no query, seed or
migration of the repository creates: they start as any part of `RELATED`, none
included. As the repository leaves it, a topic that is only related to an
interest scores in memory and not in Neo4j.

What a delete answers is not the same: the memory store names what it has taken out,
Milvus the ids it was given, none when it was given a filter. `SameReplies` asks what a
caller can rely on with both: calls are refused alike, and nothing that is named
after a delete is still stored in either. The counts that stand beside the ids
are left out.

One more difference showed up while modelling: a delete by id for which the client
sends the empty filter `{}` empties the in-memory store, and deletes only the
ids in Milvus. None of the agents calls `delete_memory_vectors`; `swept` remembers such a
call, and the stores are compared for equality until it happens.

### EmbeddingCache

`_embed_many`: `LookedUp` (with expiry and order of use), the chunks of the missed
positions in one flat list, cut into batches across texts (`Received`), dealt out
again by `Cursor`, position by position, and put into the cache, which keeps
nothing when its size is 0. A vector is represented by what was embedded,
which is what `OwnVectors` needs in order to tell right from wrong.

### AgentWorkflow

One request at a time goes through the agents; `todo` holds the items the
current agent has not reached, `work` what is known of each. Text is abstracted to where it
comes from (`"own"` of the article, `"title"`, `"invented"` by a mock or a
fallback), who wrote it (the model, its repair, the fallback) and whether it is safe.
`Try` is a call through `ToolPolicy` and the MCP client. `Generate` has the
phases of `LlmTool`: the model, the repair, the fallback.

### Ranking

`Score` and its nine dimensions, `Rejections` and the order as operators over
records; `_apply_diversity` picks one article after the other (`Select`).
Integers replace floating-point numbers, at the resolution of the weights. `Total`
and `Divisor` give a dimension that is not available 0, which is what skipping it
comes to.

## 3. The runs

Runs that must pass:

| run | instance | shows |
|---|---|---|
| `task_faults` | 2 replicas, 2 goroutines, 2 article runs of one user; crash, cancel, retry; 272 000 states | no slot leaks; an answered cancellation sticks; no agent call after a checkpoint that saw it; orphans only for named reasons; the statements, none of which checks the old status, implement `TaskLifecycle` for every run that is neither cancelled nor overlapped, whatever becomes of the other |
| `task_serial` | 1 replica, 1 slot, the same feedback sent twice; crash, expire, cancel, failing statements; 6 100 states, liveness | one active task when requests are serialised by the slot; every request returns; a running task settles |
| `article_runs` | 2 goroutines, 2 runs, 2 articles, 2 retries, of a run under way as well; every failure; 1 200 000 states | an article belongs to one run; no second post of a run that is executed once; losses explained |
| `profile_versions` | 2 goroutines, 1 feedback, 4 jobs; rebuilds, rollbacks, interruptions, failing statements; 124 000 states, liveness | the table implements `VersionHistory`; a completed feedback has its version; jobs end in spite of deadlocks |
| `memory_writes` | 2 runs of feedback, 2 workers, 3 deliveries, 1 retry, 1 late request; crashes, lost answers, failing INSERTs, a backend that stops in the middle of its logs; 3 080 000 states | what is not stored has a compensation task or a named reason; a reported success is stored; `InterestLedger` is implemented |
| `agent_parts` | nine parts of the agent and its servers, each by itself; 180 000 states, liveness | below |

`agent_parts` checks `ResponseCache`, `McpClient`, `McpConnections`,
`VectorStores`, `InterestGraph`, `EmbeddingCache`, `ProfileMerge`, `Ranking` and
`AgentWorkflow`. They share no state, so that one behaviour is a behaviour of one of
them: the variable `part` says of which, the others' variables keep their initial values,
and each property is asked of its own part. Together they take two and a half
minutes, and the liveness properties of the first three stay independent of the
others, because fairness is stated per part.

| part | instance | shows |
|---|---|---|
| cache | 3 threads, 3 requests, room for 2, 4 calls | single flight; bounded; nothing computed twice without cause; every call returns |
| client | 2 threads, 1 retry, threshold 2; the server breaks, recovers, wavers | no call reaches the server through an open circuit, unless another thread closes it meanwhile; the circuit opens again and again on a dead server, and stays closed on a healthy one; every call ends |
| connections | 1 thread, 2 tasks (a call and one that outlived its call, the startup or the shutdown), 2 child processes, a second loop after the shutdown | no process is forgotten and one per server, but for what `clear()` and a stopped loop leave; when things stay healthy, calls succeed in the end, after a restart too |
| vectors | 2 ids, 3 vectors of which 2 are unlike, 1 of the wrong dimension, 2 scopes | the two stores hold the same, and their answers agree; deduplication leaves nothing alike |
| interests | 1 user, 3 topics, 3 events, 4 kinds of payload, every part of the relations as edges in Neo4j | the two graphs hold the same interests; Neo4j gives no score that memory does not; the same scores where the edges are there |
| embeddings | 3 texts of 1, 2 and more chunks than allowed, batches of 2, room for 2 | every text gets its own vector; the cache is sound |
| profiles | 3 topics, 3 feedbacks, signals below and above the cap, one that leads to a tie which Go and Python round differently | a rebuild gives the merged profile but for one ten-thousandth, when every feedback names its topic |
| ranking | all batches of 5 articles over 2 topics and 2 sources; pairs of odd articles; 2 profiles | diversity keeps the order of what is alike; learning a topic favours it; dislikes lower |
| workflow | every shape of article, two, three, none; feedback; 4 configurations, several policies | a passed post is traceable; calls keep to both policies |

Runs in which TLC must find a violation: what a document says and the code does
not do. Each states one property, in the smallest instance that shows it.

| run | property | what happens |
|---|---|---|
| `task_two_active` | `OneActiveTask` | two requests pass `CreateTaskRun`'s SELECT before either INSERT (README.md:89) |
| `task_cancel_undone` | `ImplementsLifecycle` | `updateTaskPartial` writes `running` over `cancelled`, a transition that `TestTaskStatusMachineTransitions` rejects; recovery then skips the row because of its flag |
| `article_lost` | `NoArticleLost` | a retry overwrites the snapshot of the failed run and drops its copy because the crawl found something new (README.md:88) |
| `article_twice` | `PostedSkipped` | a run is retried while it is executed; both executions look for posts before either has written one, and the agent is asked for an article that has a post (README.md:91) |
| `feedback_twice` | `AppliedOnce` | the process stops between the commit of a version and `MarkFeedbackCompleted`; the retry applies the feedback again |
| `profile_foreign` | `ProfilesOwn` | `loadProfile` reads the configured user's profile for a feedback of another user |

### Bounds, and why they are enough

* *Two goroutines* are what every race here needs: one that has read, and
  one that writes in between. Three would add a bystander. In `ResponseCache` a
  third thread matters, as a second waiter for one event.
* *Two replicas*: one that crashes and recovers, one whose rows are reset.
  With two goroutines, a retry or a recovery can meet an execution; one slot each
  is enough for that.
* *Runs, feedbacks, articles, keys*: two of a kind make "another one"
  possible; three keys with room for two make evictions happen.
* *Connections*: with two tasks, one of them cancelled by its timeout, and two
  processes, a connection can be dropped by the call that did not open it. More
  tasks need no new case of `_connect`: whoever waits for the lock waits alone
  with its holder.
* *`memory_writes`*: three deliveries of two runs give one of them two
  executions at once, or one after a crash, beside another run. `Fallback` is
  `FALSE` there: with the repository's `TRUE`, a call given up counts as degraded and
  is excused, and nothing is left for `LossesExplained` to catch. The theorems
  hold for both values.
* `MaxRetries` (`ArticleRuns`), `MaxStarts` (`ProfileUpdates`), `MaxCalls`
  (`ResponseCache`) bound counters that would otherwise grow for ever; each
  lets a failed job be repeated once or twice while another runs. `MaxLate`
  and `MaxDeliveries` (`MemoryWrites`) bound messages and repetitions, `MaxHistory`
  (`ProfileMerge`) feedbacks. The number of
  run ids bounds `TaskControl`. `McpClient` needs no such bound.
* `task_faults` leaves feedback, expiring contexts and failing statements to
  `task_serial`, and `task_serial` leaves retries to `task_faults`: only article runs
  can be retried. The proofs have them all, in any number.
* Symmetry is used for safety only, over goroutines, replicas, runs and articles
  that the module treats alike; never in a run with a liveness property.
* `CHECK_DEADLOCK FALSE` stands in the runs whose bounds let the system come to
  rest with nothing left to do. `TaskControl`'s other runs check deadlock.

### Fairness

`TaskControl`: every goroutine that can take a step takes it (weak fairness per
goroutine): the Go scheduler runs it, and every call it blocks in has the
request's context, which ends at `timeout_seconds` at the latest. A stopped
replica is started again (`restart: unless-stopped` in the compose file, a
Deployment in `deploy/kubernetes`). No fairness for clients, cancellations,
crashes. `AcquireSlot` needs no strong fairness in `task_serial`: a goroutine
that finds no slot waits while a slot is taken, and with the bounded number of
requests it is not overtaken for ever. `ProfileUpdates`: the same per goroutine;
a lock wait is not a step, so `JobsEnd` really depends on locks being released.
`ResponseCache`: weak fairness per thread; a computation ends because LLM and
MCP calls have timeouts. `event.wait()` has no timeout of its own, which is why
`EveryCallReturns` is worth checking. `McpClient`: weak fairness per thread inside
a call (the transport's timeout, the backoff's end), and time passes (`Elapse`).
Nothing makes threads call, so `Trips` assumes that calls keep coming, and
nothing makes the server change. `McpConnections`: the loop runs every task that can
go on, a request that is not answered ends with its read timeout, and futures
are waited for with a timeout (`sdk_transport.py:100`); `Heals` assumes in
addition that faults have stopped, that calls do not overlap, and that a restart, if
there was one, did not find the lock held.

## 4. The proofs

| module | theorems |
|---|---|
| `TaskControl_proofs` | `TypeCorrect`, `CancellationKept` (`CancellationSticks`), `SlotsAlwaysAccounted` (`SlotsAccounted`), `OneActiveTaskAlone`, `NoEffectAfterCancelAlways`, `OrphansAlwaysExplained`, `LifecycleKept` (`KeepsLifecycle`, a refinement) |
| `ProfileUpdates_proofs` | `UpdatesCorrect` (the invariant), `TypeCorrect`, `CompletedAlwaysHasVersion`, `ImplementsHistoryAlways` (a refinement) |
| `ArticleRuns_proofs` | `TypeCorrect`, `RunsCorrect` (the invariant), `OneRunAlways`, `NoSecondPostAlways`, `LossAlwaysExplained` |
| `McpClient_proofs` | `TypeCorrect`, `BreakerCorrect` (the invariant), `FailsFastAlways` |
| `McpConnections_proofs` | `ConnectionsCorrect` (the invariant), `TypeCorrect`, `NoLeakAlways`, `OneConnectionAlways` |
| `MemoryWrites_proofs` | `TypeCorrect`, `MemoryCorrect` (the invariant), `LossesAlwaysExplained`, `SuccessAlwaysStored`, `ImplementsLedgerAlways` (a refinement), `WeightAlwaysTotal` |
| `AgentFlow_proofs` | `FailsFastAlways`, `NoLeakAlways`, `OneConnectionAlways` (from the two above); `WorkflowCorrect` (the invariant), `CallsAlwaysPermitted`, `PassedAlwaysTraceable` (`AgentWorkflow`); `OrderAlwaysKept`, `FeedbackAlwaysCounts` (`Ranking`) |
| `AgentStores_proofs` | `TypeCorrect`, `CacheCorrect` (the invariant), `SingleFlightAlways`, `OnceAlways`, `WithinMaxSizeAlways` (`ResponseCache`); `StoresCorrect` (the invariant), `StoresAlwaysAgree`, `UniqueAlwaysApart` (`VectorStores`); `InterestsAlwaysAgree` (`InterestGraph`); `EmbeddingsAlwaysOwn` (`EmbeddingCache`); `RebuildAlwaysAgrees` (`ProfileMerge`) |

They hold for any number of replicas, goroutines, threads, runs, articles,
requests, workers, late messages, texts, vectors, topics, any capacity, and every
subset of the environment, except where a theorem names what it leaves out; the
assumptions are the named `ASSUME`s of the modules (finite sets of goroutines and
runs where cardinalities are counted, `None` different from everything else, settings
and inputs of the kind the code takes), which TLC evaluates for the instances of
the runs. `AgentParts` extends `ResponseCache` and makes instances of the other parts,
with constants of their own; it names the safety properties, which `MCAgentParts`
checks and `AgentFlow_proofs` and `AgentStores_proofs` prove, each of its
part's specification. What is proved of the client and of the connections in their own
modules is taken over through `Breaker` and `Transport`, instances of those.
Two of these properties are said where they can tell something: `LearningFavours`
before the first article is selected, since it is about batch and profile, which no
step changes; `VectorStoresAgree` and `UniqueApart` of stores that have been called.

Two theorems have a condition of their own, and each says something about the code.
`NoEffectAfterCancelAlways` wants no failing statement, because `taskCancelled`
takes an error for "no". `OneActiveTaskAlone` wants one replica with one slot and no
retries; several requests at once refute it otherwise (`task_two_active`).
Several properties have an exception instead, named by a history variable, which is
something that the code does and a reader should know: `overlapped`
(`KeepsLifecycle`, `NoSecondPost`, `LossExplained`), `forgotten` (`NoLeak`,
`OneConnection`), `unrecorded` (`LossesExplained`), `swept` (`VectorStoresAgree`).
The theorems hold whether or not these things happen.

* **Slots.** `SlotsAccounted` is inductive together with the type invariant: a
  replica's tokens are the cardinality of its holders, and every action moves
  one goroutine in or out of the holders together with one token, or all of
  them at a crash.
* **Cancellation.** `CancellationSticks` is inductive: no statement lowers the
  flag (`Updated` and `Marked` take the disjunction with it, recovery leaves
  the row alone).
* **After a cancellation.** `CheckedInTime`: no goroutine with a live context has gone
  past a checkpoint of a run whose cancellation had been answered. The checkpoint
  reads the flag, and `CancellationSticks` says that the flag is still there.
* **Orphans.** Each action is shown to leave a row at `running` only with a goroutine
  that has it, or with a name in `lost`. The one that needs history is recovery, which
  skips rows with the flag: `CancelKnown` says that a flag was set by a client.
* **The life cycle.** `LifecycleInv` gives each program counter the statuses
  its row can have (`Expected`), unless the run is disturbed; then each of the
  statements, none of which looks at the status it overwrites, makes a transition that
  `CanTransition` allows (`OwnRun`). Two goroutines have the same run, and a duplicate
  writes to another run than its own, only when that run is overlapped (`PairsKnown`,
  `DuplicatesKnown`), so that nobody else writes to an undisturbed row (`OtherRuns`).
* **Profile versions.** `UpdatesInv` has four parts beside the types. `TableInv`: a
  user's versions are 1 to their number, and the last is active. `JobsInv`: what a
  goroutine holds at each step. `LocksInv`: who is in a transaction has the rows' lock
  or a share of the gap, so that one transaction of a user at most gets to COMMIT.
  `VersionsInv`: the number that a SELECT without a lock computed is at most the
  next one, since versions are only added, and that it is the next when the INSERT
  was not refused by the unique key. COMMIT then adds the next version of
  `VersionHistory`, and nothing else touches the table (`TableSteps`), from which the
  refinement follows; that a completed feedback points to its own version is kept because
  versions are never changed.
* **Response cache.** `SingleFlight` alone is not inductive: it needs that the
  register's event of a key is the one of its owner, that an owner computes a key
  that is not cached, and that a thread past its `Store` still owns the
  entry it is going to remove. `OnceUnlessUndone` needs in addition that the
  computations of a key are exactly those undone, plus one if it is cached,
  plus those under way.
* **Article runs.** `RunsInv` consists of the type invariant; `Distinct` (two
  goroutines have the same run only if it was retried meanwhile); `Owned` (what a run
  answers for, or a goroutine may write back into its row, is stored, and no other run
  answers for it: this is why a new row can be given to the inserting run, and it
  holds of overlapping executions too); `InvW` (where a goroutine is says which of its
  fields are empty, and, if nobody has retried its run, what of the row's snapshot it
  has in hand: `Undisturbed`); `Resumable` (a snapshot is in the row of a run
  that can be retried); and `LossExplained`.
  Most steps are *local* (`LocalStep`: they touch one goroutine and its run's
  row, and take no article from elsewhere); `LocalInv` shows once that a local
  step that loses nothing in hand (`Carried`) keeps the invariant, so that an
  action's proof is about its own goroutine. Starting, retrying, inserting a row
  and crashing are not local and have lemmas of their own.
* **MCP client.** `FailsFast` needs `Shut`: a blocked thread finds the circuit open
  wherever it looks, so it is never itself about to close it.

* **The cache's size.** `Places`: the ranks of the cached keys are distinct and
  fill `1..Size`. Moving a key to the end keeps that, adding one and evicting
  the first keep it too; `Size` is a cardinality, for which the
  lemmas of the library are cited.
* **MCP connections.** `NoLeak` needs `Found`: when a task leaves `_connect` with a
  live connection, that is still registered, or somebody who dropped it is
  closing it, or `clear()` has forgotten it; otherwise giving back the lock would
  forget the process. `Found` needs
  `Locked` (the lock is the opener's) and `Registers` (nothing else is registered while
  one is opened), from which `OneConnection` follows as well. Most steps
  are taken aside by `AsideTask`: they touch no task that opens or closes.
* **Memory writes.** `MemoryInv` adds two things to the types. `SuccessStored`: a success
  in the log of an execution is in the store; nothing is ever taken back
  (`Growth`: vectors, events, compensation tasks and excuses only grow), so that it
  stays true while other workers, late requests and crashes go on. `AllExplained`: a run
  that is completed is explained, or the backend is still between
  `MarkFeedbackCompleted` and the compensation tasks, and then `RecordCompensation` turns
  each of the four results a log can hold into a trace (`RecordExplains`). The second
  half of `SuccessIsStored` needs `OneContent`: of a run delivered once, worker,
  late requests and graph hold one and the same content.
* **The ledger.** Each step of `MemoryWrites` is a `Count` or leaves `counted` and
  `weight` alone: of all actions only `Execute` touches them, and only when the
  event has not been applied yet.

* **The weight.** `WeightIsTotal` compares a number that is kept, with a limit at
  each step, with a sum over all runs. `SumAdds`: a fold over a finite set does not
  depend on the order in which `CHOOSE` goes through it, so that one more run adds one
  more gain; and a limit at each step comes to a limit of the sum.
* **Workflow.** `WorkflowInv` says for each agent what it finds (`Found`) and for each
  item what has been done to it (`ItemInv`): a text that is not the article's or was not
  written by the model leaves an issue (`Noted`), and an item with an issue does
  not pass. Every call that is made was allowed by both policies (`InPolicy`), which
  reads the two tables of the code side by side. One lemma per agent.
* **Ranking, the order.** Two articles with one topic and one source break the same
  rules and are equally scarce, whatever was selected before (`AlikeFacts`), so
  that only the score is left to decide.
* **Ranking, the scores.** An average is a sum of products divided by a sum of
  weights and rounded. When the profile has topics already, the divisor stays and a term
  grows. When it had none, the topic becomes a dimension of both articles:
  the divisors grow by 12, which takes from both, and the article about the
  topic gains 120 or more, which is more than rounding can have hidden
  (`DivOvertakes`: at most the old divisor, 55). A penalty that swallows the whole average
  hides a difference as well, but then the other article stays at 0.
* **Vector stores.** `StoresInv`: equal contents and agreeing answers until `swept`.
  One store cuts its hits to the limit before it drops those below the minimum, the
  other after: whatever is
  better than a hit is above the minimum as well (`SameHits`, `SomeBest`).
  Deduplication is a fold: each step keeps the result apart from itself and from the
  store (`UniquesApart`).
* **Interest stores.** The relations and the graph hold the same (`SameStores`); the rows
  of Cypher's OPTIONAL MATCHes are then the matches and paths of the Python code
  (`RowsFound`), unless a topic is related to itself, which
  `InterestAssumption` excludes: the in-memory store adds such an edge to the match,
  Neo4j puts it in its place. Neo4j's edges are part of the relations for ever, which
  makes its scores part of the memory store's; when no path lacks its edge, they are all.
* **Embeddings.** The batches, joined, are all the chunks (`AllReceived`); the slice at a
  text's cursor holds its own (`OwnDealt`); looking up, inserting, evicting and expiring
  keep a cache sound (`GetCaches`, `PutCaches`, `ExpiredCaches`), and so do folds
  of them.
* **Rebuild.** `Rebuild` is a fold over the history; of a history with one more
  feedback it is one merge more (`RebuildAppend`), and that merge is the agent's but for
  the rounding. Each program rounds to one of the nearest numbers, whatever it does with
  ties (`RetainNearest`). A difference of one ten-thousandth shrinks to 0.90 or 0.92 of
  it before two roundings add half each: less than two, so at most one again
  (`RetainNear`).

Folds and recursive functions occur in many of these. The library's induction theorems cannot
be used (they take an operator as a parameter), but its theorem on well-founded
sets can: `Least` takes a smallest counterexample among the subsets of
a finite set, and `UpTo`, `RunExists`, `SumExists`, `JoinExists` and others are built on it.

Only model-checked: the liveness properties `EveryRequestReturns`, `RunningSettles`,
`JobsEnd`, `EveryCallReturns`, `Trips`, `Recovers`, `EveryCallEnds` and `Heals`, which
need fairness and ENABLED, out of the prover's reach. Each safety property that a passing
run checks is proved.

## 5. Not modelled

* What articles, posts, profiles and prompts say; style preferences;
  `run_logs`, `task_steps`, metrics and MCP logs, which nothing reads back.
* The crawler: mostly parsing. Its HTTP retries, robots.txt cache and worker pool
  keep state and wait for a module; `ArticleRuns` takes what a crawl
  brings as a choice.
* The gRPC retry loop of the harness; `ArticleRuns` and `ProfileUpdates`
  take its outcome as a choice: an answer, an error, or an answer that comes too late.
* HTTP handlers (no state of their own), Web Admin (`useAsync` shows an answer
  that comes after a newer one, at worst), configuration, observability, generated code,
  deployment.
* MCP servers' provider life cycle (`ManagedProvider`): `MemoryWrites` and
  `McpConnections` let a call fail at any time, which is what it can cause.
* Of `OfficialMcpTransport`: sessions over Streamable HTTP, which live within
  one call, the lists of tools, and what anyio says to a stack that is closed by
  another task than the one that opened it: `aclose` closes, which is external
  to the repository.
* MySQL is modelled from how the code uses it: atomic statements, transactions
  with the locks named above, no replication. Milvus and Neo4j likewise: a call is
  atomic, a search exact.
* Time: a timeout may fire at any moment (`Expire`, `Timeout`), never must, except
  where fairness is stated.

* Weights of more than four decimals: what callers send to the interest graph is
  taken in twentieths, and `weight_delta` in ten-thousandths.

Hazards without a property are listed in `PROJECT.json` with the reason. The main ones: a
recovery that resets the rows of another replica's tasks, and a retry of a run under
way; a final status that is not written; a feedback task that
writes a version on top of one that it has not read; a rebuild that counts
again what the active profile contains already. Others have properties that
leave out part of what can happen, with a note: a compensation task that is never written,
a circuit that is closed while fresh, made-up text that is logged as degraded,
processes that `clear()` drops.

## 6. Plan

Done, in the order of what matters most: `TaskStore`, `TaskControl`,
`TaskLifecycle`; `ProfileUpdates`, `VersionHistory`; `ArticleRuns`;
`ResponseCache`; `McpClient`; `McpConnections`; `MemoryWrites`, `InterestLedger`;
`VectorStores`, `InterestGraph`, `EmbeddingCache`; `ProfileMerge`;
`AgentWorkflow`; `Ranking`.

Left, in order:

1. `AgentRetry`: `callProcessArticles` with `retryDelay`, `waitForRetry` and a
   server that still works on the call before; composed with `ResponseCache`;
   `retryDelay` against a reference definition over bounded inputs.
2. `Crawler`: HTTP retries, robots.txt cache, worker pool, `Deduplicate` and
   `normalize` as operators.
3. `ManagedProvider`'s life cycle; `stepRecorder`; `useAsync` of Web Admin.

4. Two threads in `start()` at once (`McpConnections`); `OneActiveTask` under weaker
   conditions (several slots, users apart); what cancellation may still do to a run's
   status; the theorems of what 1 to 3 add.
