----------------------------- MODULE McpConnections -----------------------------
(******************************************************************************)
(* OfficialMcpTransport of the Python agent: the session it keeps with one    *)
(* MCP server over stdio, which all threads of the gRPC server share.  The    *)
(* threads submit coroutines to one event loop and wait for their futures; on *)
(* the loop, tasks interleave at every await.  Calls over Streamable HTTP     *)
(* open a session of their own and leave nothing behind.                      *)
(******************************************************************************)
EXTENDS FiniteSets

CONSTANTS
  Threads,  \* threads of the gRPC server
  Tasks,    \* identities of tasks on the event loop, to be used again
  Conns,    \* identities of connections: child process, streams and session
  None

ConnectionsAssumption == None \notin Conns /\ None \notin Tasks

VARIABLES
  task,        \* per task: what for, at which await, the connection in hand,
               \*   whether it has been cancelled
  waits,       \* per thread: the task whose future it waits for, or None
  failed,      \* the threads whose last call failed
  registered,  \* _connections[server], or None
  lock,        \* the task that holds _connection_locks[server], or None
  conn,        \* per connection: its state; "dead" is one that never answers,
               \*   as its process has ended or its loop has been stopped
  forgotten,   \* history: what _close_all's clear() dropped from _connections,
               \*   and what a stopped loop has left when another one starts
  phase,       \* of the service: start(), calls, close(), loop stopped; a call
               \*   starts the loop again, with the lock free or never free
  mood         \* "healthy": processes live and answer in time; or "faulty"

vars == <<task, waits, failed, registered, lock, conn, forgotten, phase, mood>>

Kinds  == {"call", "startup", "shutdown"}
PCs    == {"none", "look", "lock", "open", "discover", "abort", "use", "pop", "close", "clear"}
States == {"opening", "open", "dead", "closed"}
Phases == {"starting", "serving", "closing", "stopped", "restarted", "wedged"}
Ended  == [kind |-> "call", pc |-> "none", conn |-> None, cancelled |-> FALSE]
New(kind, pc) == [Ended EXCEPT !.kind = kind, !.pc = pc]

(* start() has submitted _start_all.                                          *)
Init ==
  /\ task = [[k \in Tasks |-> Ended] EXCEPT ![CHOOSE k \in Tasks : TRUE] = New("startup", "look")]
  /\ waits = [t \in Threads |-> None] /\ failed = {}
  /\ registered = None /\ lock = None
  /\ conn = [c \in Conns |-> "closed"] /\ forgotten = {}
  /\ phase = "starting"
  /\ mood \in {"healthy", "faulty"}

--------------------------------------------------------------------------------
At(k, pc)    == task[k].pc = pc /\ phase # "stopped"
Free         == {k \in Tasks : task[k].pc = "none"}
InHand(c)    == \E k \in Tasks : task[k].conn = c
(* The identity of a closed connection, or of a forgotten one, is free again. *)
Unused == {c \in Conns : conn[c] = "closed" \/ c \in forgotten}
            \ ({registered} \cup {c \in Conns : InHand(c)})
Move(k, pc)  == task' = [task EXCEPT ![k].pc = pc]
Environs     == <<phase, mood>>
Futures      == <<waits, failed>>
Sessions     == <<registered, lock, conn, forgotten>>
Restarted    == phase \in {"restarted", "wedged"}

(* A task ends; a thread that still waits for it has its result.              *)
End(k, result) ==
  /\ task' = [task EXCEPT ![k] = Ended]
  /\ waits' = [t \in Threads |-> IF waits[t] = k THEN None ELSE waits[t]]
  /\ failed' = LET done == {t \in Threads : waits[t] = k}
               IN IF result = "ok" THEN failed \ done ELSE failed \cup done

(* _connect has a connection: startup is content, a call goes on to use it.   *)
Got(k, c) ==
  IF task[k].kind = "startup" THEN End(k, "ok")
  ELSE task' = [task EXCEPT ![k].pc = "use", ![k].conn = c] /\ UNCHANGED Futures

(* call: start() finds its thread alive, the coroutine goes to the loop, one  *)
(* that is being stopped included.                                            *)
Call(t) ==
  /\ phase # "starting"
  /\ waits[t] = None
  /\ \E k \in Free : /\ k = CHOOSE j \in Free : TRUE
                     /\ task' = [task EXCEPT ![k] = New("call", "look")]
                     /\ waits' = [waits EXCEPT ![t] = k]
  /\ UNCHANGED <<failed, Sessions, Environs>>

(* future.result(timeout_seconds + 1) gives up and cancels the task.          *)
Timeout(t) ==
  /\ waits[t] # None
  /\ mood = "faulty" \/ phase \in {"stopped", "wedged"}
  /\ task' = [task EXCEPT ![waits[t]].cancelled = TRUE]
  /\ waits' = [waits EXCEPT ![t] = None]
  /\ failed' = failed \cup {t}
  /\ UNCHANGED <<Sessions, Environs>>

(* _connect, before the lock.                                                 *)
Look(k) ==
  /\ At(k, "look")
  /\ \/ registered # None /\ Got(k, registered)
     \/ registered = None /\ Move(k, "lock") /\ UNCHANGED Futures
  /\ UNCHANGED <<Sessions, Environs>>

AcquireSlip(k) ==
  /\ At(k, "lock") /\ lock = None /\ phase # "wedged"
  /\ \E c \in Unused :
       /\ task' = [task EXCEPT ![k].pc = "open", ![k].conn = c]
       /\ conn' = [conn EXCEPT ![c] = "opening"]
       /\ forgotten' = forgotten \ {c}
       /\ lock' = k
  /\ UNCHANGED <<registered, Futures, Environs>>

(* With the lock: look again, or open the process, the streams, the session.  *)
Acquire(k) ==
  /\ At(k, "lock") /\ lock = None /\ phase # "wedged"
  /\ \/ registered # None /\ Got(k, registered) /\ UNCHANGED Sessions
     \/ /\ registered = None
        /\ \E c \in Unused : /\ c = CHOOSE d \in Unused : TRUE
                             /\ task' = [task EXCEPT ![k].pc = "open", ![k].conn = c]
                             /\ conn' = [conn EXCEPT ![c] = "opening"]
                             /\ forgotten' = forgotten \ {c}
        /\ lock' = k
        /\ UNCHANGED <<registered, Futures>>
  /\ UNCHANGED Environs

(* session.initialize() has returned: the connection is registered before its *)
(* tools are known.                                                           *)
Opened(k) ==
  /\ At(k, "open")
  /\ conn' = [conn EXCEPT ![task[k].conn] = "open"]
  /\ registered' = task[k].conn
  /\ Move(k, "discover")
  /\ UNCHANGED <<lock, forgotten, Futures, Environs>>

OpenFails(k) ==
  /\ At(k, "open") /\ mood = "faulty"
  /\ Move(k, "abort")
  /\ UNCHANGED <<Futures, Sessions, Environs>>

Discovered(k) ==
  /\ At(k, "discover") /\ conn[task[k].conn] = "open"
  /\ lock' = None
  /\ IF task[k].kind = "startup" THEN End(k, "ok") ELSE Move(k, "use") /\ UNCHANGED Futures
  /\ UNCHANGED <<registered, conn, forgotten, Environs>>

DiscoverFails(k) ==
  /\ At(k, "discover")
  /\ mood = "faulty" \/ conn[task[k].conn] # "open"
  /\ Move(k, "abort")
  /\ UNCHANGED <<Futures, Sessions, Environs>>

AbortSlip(k) ==
  /\ At(k, "abort")
  /\ lock' = None
  /\ End(k, "failed")
  /\ UNCHANGED <<registered, conn, forgotten, Environs>>

(* stack.aclose() and raise; a connection that was registered stays so.       *)
Abort(k) ==
  /\ At(k, "abort")
  /\ conn' = [conn EXCEPT ![task[k].conn] = "closed"]
  /\ lock' = None
  /\ End(k, "failed")
  /\ UNCHANGED <<registered, forgotten, Environs>>

(* session.call_tool returns a result that is no error.                       *)
Respond(k) ==
  /\ At(k, "use") /\ conn[task[k].conn] = "open"
  /\ End(k, "ok")
  /\ UNCHANGED <<Sessions, Environs>>

FailSlip(k) ==
  /\ At(k, "use")
  /\ mood = "faulty" \/ conn[task[k].conn] # "open"
  /\ End(k, "failed")
  /\ UNCHANGED <<Sessions, Environs>>

(* The call, or the tool, fails: _drop_connection takes out whatever          *)
(* connection is registered by now.                                           *)
Fail(k) ==
  /\ At(k, "use")
  /\ mood = "faulty" \/ conn[task[k].conn] # "open"
  /\ registered' = None
  /\ \/ registered = None /\ End(k, "failed")
     \/ /\ registered # None
        /\ task' = [task EXCEPT ![k].pc = "close", ![k].conn = registered]
        /\ UNCHANGED Futures
  /\ UNCHANGED <<lock, conn, forgotten, Environs>>

(* _drop_connection: connection.stack.aclose(); then a call raises its error, *)
(* and _close_all goes on, with the connections of other servers first.       *)
Closed(k) ==
  /\ At(k, "close")
  /\ conn' = [conn EXCEPT ![task[k].conn] = "closed"]
  /\ \/ task[k].kind # "shutdown" /\ End(k, "failed")
     \/ /\ task[k].kind = "shutdown"
        /\ task' = [task EXCEPT ![k].pc = "clear", ![k].conn = None]
        /\ UNCHANGED Futures
  /\ UNCHANGED <<registered, lock, forgotten, Environs>>

(* CancelledError arrives at the await: _connect closes what it has opened; a *)
(* call that was cancelled keeps the connection.                              *)
Cancelled(k) ==
  /\ task[k].cancelled
  /\ \/ /\ At(k, "look") \/ At(k, "lock") \/ At(k, "use")
        /\ End(k, "failed")
     \/ /\ At(k, "open") \/ At(k, "discover")
        /\ Move(k, "abort") /\ UNCHANGED Futures
  /\ UNCHANGED <<Sessions, Environs>>

(* start(): discovery is over, or its time is up.                             *)
Serve ==
  /\ phase = "starting"
  /\ \A k \in Tasks : task[k].pc = "none"
  /\ phase' = "serving"
  /\ UNCHANGED <<task, Futures, Sessions, mood>>

GiveUp(k) ==
  /\ (phase = "starting" /\ mood = "faulty") \/ Restarted
  /\ task[k].kind = "startup" /\ task[k].pc # "none"
  /\ task' = [task EXCEPT ![k].cancelled = TRUE]
  /\ phase' \in IF phase = "starting" THEN {"starting", "serving"} ELSE {phase}
  /\ UNCHANGED <<Futures, Sessions, mood>>

(* close(): _close_all on the loop, while calls may be under way.             *)
Close ==
  /\ phase = "serving"
  /\ phase' = "closing"
  /\ \E k \in Free : /\ k = CHOOSE j \in Free : TRUE
                     /\ task' = [task EXCEPT ![k] = New("shutdown", "pop")]
  /\ UNCHANGED <<Futures, Sessions, mood>>

Pop(k) ==
  /\ At(k, "pop")
  /\ registered' = None
  /\ IF registered = None THEN Move(k, "clear")
     ELSE task' = [task EXCEPT ![k].pc = "close", ![k].conn = registered]
  /\ UNCHANGED <<lock, conn, forgotten, Futures, Environs>>

(* The last line of _close_all: what calls have registered meanwhile goes out *)
(* of _connections, and nobody closes it.                                     *)
Clear(k) ==
  /\ At(k, "clear")
  /\ registered' = None
  /\ forgotten' = forgotten \cup ({registered} \ {None})
  /\ End(k, "ok")
  /\ UNCHANGED <<lock, conn, Environs>>

(* loop.stop, when _close_all has ended or has taken too long.                *)
Stop ==
  /\ phase = "closing"
  /\ mood = "faulty" \/ \A k \in Tasks : task[k].pc = "none" \/ task[k].kind # "shutdown"
  /\ phase' = "stopped"
  /\ UNCHANGED <<task, Futures, Sessions, mood>>

(* A call of a handler that has outlived the grace period starts another loop *)
(* and thread. Tasks of the first loop never run again, threads that wait for *)
(* them time out, its connections do not answer any more; _connections stays, *)
(* and so do the locks: one that was held is released if Python collects the  *)
(* task that held it, or never.                                               *)
Restart ==
  /\ phase = "stopped"
  /\ phase' \in IF lock = None THEN {"restarted"} ELSE {"restarted", "wedged"}
  /\ task' = [[k \in Tasks |-> Ended] EXCEPT ![CHOOSE k \in Tasks : TRUE] = New("startup", "look")]
  /\ waits' = [t \in Threads |-> None]
  /\ failed' = failed \cup {t \in Threads : waits[t] # None}
  /\ lock' = None
  /\ conn' = [c \in Conns |-> IF conn[c] = "closed" THEN "closed" ELSE "dead"]
  /\ forgotten' = forgotten \cup {c \in Conns : conn[c] # "closed"}
  /\ UNCHANGED <<registered, mood>>

Step(k) ==
  \/ Look(k) \/ Acquire(k) \/ Opened(k) \/ OpenFails(k) \/ Discovered(k) \/ DiscoverFails(k)
  \/ Abort(k) \/ Respond(k) \/ Fail(k) \/ Closed(k) \/ Cancelled(k) \/ Pop(k) \/ Clear(k)

(* A child process ends.                                                      *)
Die(c) ==
  /\ mood = "faulty" /\ conn[c] = "open"
  /\ conn' = [conn EXCEPT ![c] = "dead"]
  /\ UNCHANGED <<task, Futures, registered, lock, forgotten, Environs>>

Change ==
  /\ mood' = IF mood = "healthy" THEN "faulty" ELSE "healthy"
  /\ UNCHANGED <<task, Futures, Sessions, phase>>

Next ==
  \/ \E k \in Tasks : Step(k) \/ GiveUp(k)
  \/ \E t \in Threads : Call(t) \/ Timeout(t)
  \/ Serve \/ Close \/ Stop \/ Restart \/ Change
  \/ \E c \in Conns : Die(c)

(* The loop runs its tasks; a request that is not answered raises after its   *)
(* read timeout; futures are waited for with a timeout.                       *)
Fairness ==
  /\ WF_vars(Serve)
  /\ \A k \in Tasks : WF_vars(Step(k))
  /\ \A t \in Threads : WF_vars(Timeout(t))
Spec     == Init /\ [][Next]_vars
FairSpec == Spec /\ Fairness

--------------------------------------------------------------------------------
(* Types, and: a task has a connection in hand exactly where it needs one.    *)
TypeOK ==
  /\ task \in [Tasks -> [kind : Kinds, pc : PCs, conn : Conns \cup {None}, cancelled : BOOLEAN]]
  /\ \A k \in Tasks : task[k].conn = None <=> task[k].pc \in {"none", "look", "lock", "pop", "clear"}
  /\ waits \in [Threads -> Tasks \cup {None}]
  /\ failed \subseteq Threads
  /\ registered \in Conns \cup {None}
  /\ lock \in Tasks \cup {None}
  /\ conn \in [Conns -> States] /\ forgotten \subseteq Conns
  /\ phase \in Phases
  /\ mood \in {"healthy", "faulty"}

(* Until the service closes, no child process is lost: what is not closed can *)
(* be found in _connections, or a task is about to register or to close it.   *)
(* Later it is so but for the processes that clear() has dropped, which a     *)
(* call registered while _close_all waited, and those of a stopped loop.      *)
Opening(k) == task[k].pc \in {"open", "discover", "abort"}
Holds(k, c) == task[k].conn = c /\ (Opening(k) \/ task[k].pc = "close")
NoLeak ==
  \A c \in Conns : conn[c] # "closed" =>
    registered = c \/ c \in forgotten \/ \E k \in Tasks : Holds(k, c)

(* The agent keeps one process per server, however many threads find none:    *)
(* any other is being closed, or, after close(), has been forgotten.          *)
Retiring(c) == \E k \in Tasks : task[k].conn = c /\ task[k].pc = "close"
OneConnection ==
  \A c, d \in Conns :
    conn[c] # "closed" /\ conn[d] # "closed" /\ c # d
      => \E e \in {c, d} : Retiring(e) \/ e \in forgotten

(* When processes have stopped failing and calls come one at a time, whatever *)
(* dead or closed connection is registered gives way: calls return, and, in   *)
(* the end, they succeed. So it is after a restart, unless it found the lock  *)
(* held.                                                                      *)
Quiet == mood = "healthy" /\ \A s, t \in Threads : waits[s] # None /\ waits[t] # None => s = t
Heals ==
  <>[](Quiet /\ phase \in {"serving", "restarted"}) =>
    \A t \in Threads : /\ []<>(waits[t] = None)
                       /\ []<>(waits[t] # None) => <>[](t \notin failed)
================================================================================
