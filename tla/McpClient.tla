------------------------------- MODULE McpClient -------------------------------
(******************************************************************************)
(* BaseMcpClient.call_tool of the Python agent: retries, circuit breaker and  *)
(* fallback in front of one MCP server.  The threads of the gRPC server share *)
(* the client, whose counter and opening time no lock protects: every read    *)
(* and every write of them is a step of its own here, which is finer than     *)
(* what CPython makes of them.                                                *)
(******************************************************************************)
EXTENDS Naturals

CONSTANTS
  Threads,     \* threads that call the server's tools
  MaxRetries,  \* mcp_max_retries: attempts after the first
  Threshold    \* mcp_circuit_failure_threshold

McpAssumption == MaxRetries \in Nat /\ Threshold \in Nat \ {0}

VARIABLES
  failures,  \* _consecutive_failures, up to Threshold: beyond it nothing changes
  opened,    \* _circuit_opened_at: "no" (0.0), "fresh" or, when
             \*   circuit_reset_seconds have passed since, "elapsed"
  thread,    \* per thread: where its call is, its attempts, what += has read
  answers,   \* what the server does with a call: a set of outcomes
  blocked    \* history: the threads since whose call began the circuit has been
             \*   open, within its time, and closed by no other thread

vars == <<failures, opened, thread, answers, blocked>>

Idle == [pc |-> "idle", attempts |-> 0, seen |-> 0]
PCs  == {"idle", "check", "age", "close", "clear", "attempt", "succeed", "load", "add",
         "test", "open", "fallback", "rejected"}

(* A server that works, one that does not, and one in between; "invalid" is a *)
(* result that the output schema refuses.                                     *)
Working == {"ok"}
Broken  == {"error"}
Moods   == {Working, Broken, {"ok", "error", "invalid"}}

Init ==
  /\ failures = 0 /\ opened = "no"
  /\ thread = [t \in Threads |-> Idle]
  /\ answers \in Moods
  /\ blocked = {}

--------------------------------------------------------------------------------
At(t, pc)   == thread[t].pc = pc
Goto(t, pc) == thread' = [thread EXCEPT ![t].pc = pc]
Stop(t)     == thread' = [thread EXCEPT ![t] = Idle]

(* Permission and input schema are checked first; a call they refuse ends     *)
(* there and leaves no trace in the client.                                   *)
CallTool(t) ==
  /\ At(t, "idle")
  /\ Goto(t, "check")
  /\ blocked' = IF opened = "fresh" THEN blocked \cup {t} ELSE blocked \ {t}
  /\ UNCHANGED <<failures, opened, answers>>

Proceed(t) ==
  /\ thread' = [thread EXCEPT ![t].pc = "attempt", ![t].attempts = 1]
  /\ UNCHANGED <<failures, opened, answers, blocked>>

(* _is_circuit_open: the first read of _circuit_opened_at.                    *)
Check(t) ==
  /\ At(t, "check")
  /\ \/ opened = "no" /\ Proceed(t)
     \/ /\ opened # "no" /\ Goto(t, "age")
        /\ UNCHANGED <<failures, opened, answers, blocked>>

AgeSlip(t) ==
  /\ At(t, "age")
  /\ Goto(t, "close")
  /\ UNCHANGED <<failures, opened, answers, blocked>>

(* The second: after another thread's reset it reads 0.0, long ago.           *)
Age(t) ==
  /\ At(t, "age")
  /\ Goto(t, IF opened = "fresh" THEN "rejected" ELSE "close")
  /\ UNCHANGED <<failures, opened, answers, blocked>>

(* The reset, in two writes.                                                  *)
Close(t) ==
  /\ At(t, "close")
  /\ opened' = "no" /\ blocked' = blocked \cap {t}
  /\ Goto(t, "clear")
  /\ UNCHANGED <<failures, answers>>

Clear(t) ==
  /\ At(t, "clear")
  /\ failures' = 0
  /\ thread' = [thread EXCEPT ![t].pc = "attempt", ![t].attempts = 1]
  /\ UNCHANGED <<opened, answers, blocked>>

RejectSlip(t) ==
  /\ At(t, "rejected")
  /\ opened' = "fresh"
  /\ Stop(t)
  /\ UNCHANGED <<failures, answers, blocked>>

(* The circuit is open: the fallback's result, if any, or MCP_CIRCUIT_OPEN.   *)
Reject(t) ==
  /\ At(t, "rejected")
  /\ Stop(t)
  /\ UNCHANGED <<failures, opened, answers, blocked>>

AttemptSlip(t) ==
  /\ At(t, "attempt")
  /\ \/ "ok" \in answers /\ Goto(t, "succeed")
     \/ "error" \in answers /\ UNCHANGED thread
     \/ "invalid" \in answers /\ Stop(t)
  /\ UNCHANGED <<failures, opened, answers, blocked>>

(* transport.call and _validate_output; an invalid result ends the call, the  *)
(* other exceptions are retried.                                              *)
Attempt(t) ==
  /\ At(t, "attempt")
  /\ \/ "ok" \in answers /\ Goto(t, "succeed")
     \/ "invalid" \in answers /\ Stop(t)
     \/ /\ "error" \in answers
        /\ IF thread[t].attempts <= MaxRetries
           THEN thread' = [thread EXCEPT ![t].attempts = @ + 1]
           ELSE Goto(t, "load")
  /\ UNCHANGED <<failures, opened, answers, blocked>>

Succeed(t) ==
  /\ At(t, "succeed")
  /\ failures' = 0
  /\ Stop(t)
  /\ UNCHANGED <<opened, answers, blocked>>

(* _record_failure: += reads, adds and writes; then the counter is read again *)
(* and the time stored.                                                       *)
Load(t) ==
  /\ At(t, "load")
  /\ thread' = [thread EXCEPT ![t].pc = "add", ![t].seen = failures]
  /\ UNCHANGED <<failures, opened, answers, blocked>>

Add(t) ==
  /\ At(t, "add")
  /\ failures' = IF thread[t].seen < Threshold THEN thread[t].seen + 1 ELSE Threshold
  /\ thread' = [thread EXCEPT ![t].pc = "test", ![t].seen = 0]
  /\ UNCHANGED <<opened, answers, blocked>>

Test(t) ==
  /\ At(t, "test")
  /\ Goto(t, IF failures >= Threshold THEN "open" ELSE "fallback")
  /\ UNCHANGED <<failures, opened, answers, blocked>>

Open(t) ==
  /\ At(t, "open")
  /\ opened' = "fresh"
  /\ Goto(t, "fallback")
  /\ UNCHANGED <<failures, answers, blocked>>

FallbackSlip(t) ==
  /\ At(t, "fallback")
  /\ failures' = 0
  /\ Stop(t)
  /\ UNCHANGED <<opened, answers, blocked>>

(* A degraded result, or MCP_CALL_FAILED.                                     *)
Fallback(t) ==
  /\ At(t, "fallback")
  /\ Stop(t)
  /\ UNCHANGED <<failures, opened, answers, blocked>>

Step(t) ==
  \/ Check(t) \/ Age(t) \/ Close(t) \/ Clear(t) \/ Reject(t) \/ Attempt(t) \/ Succeed(t)
  \/ Load(t) \/ Add(t) \/ Test(t) \/ Open(t) \/ Fallback(t)

(* circuit_reset_seconds pass.                                                *)
Elapse ==
  /\ opened = "fresh"
  /\ opened' = "elapsed" /\ blocked' = {}
  /\ UNCHANGED <<failures, thread, answers>>

(* The server breaks down, is repaired, becomes unreliable.                   *)
Change ==
  /\ answers' \in Moods \ {answers}
  /\ UNCHANGED <<failures, opened, thread, blocked>>

Next == Elapse \/ Change \/ \E t \in Threads : CallTool(t) \/ Step(t)

(* Threads run, calls of the transport time out, backoffs end, time passes.   *)
Fairness == WF_vars(Elapse) /\ \A t \in Threads : WF_vars(Step(t))
Spec     == Init /\ [][Next]_vars
FairSpec == Spec /\ Fairness

--------------------------------------------------------------------------------
TypeOK ==
  /\ failures \in 0..Threshold
  /\ opened \in {"no", "fresh", "elapsed"}
  /\ thread \in [Threads -> [pc : PCs, attempts : 0..(MaxRetries + 1), seen : 0..Threshold]]
  /\ answers \in Moods
  /\ blocked \subseteq Threads

(* A call made while the circuit is open does not reach the server, unless    *)
(* the circuit's time runs out, or another thread closes it, meanwhile.       *)
FailsFast == \A t \in blocked : ~At(t, "attempt")

(* A server that stays broken is left alone again and again, as long as there *)
(* are calls: no race of resets and lost increments keeps the circuit closed. *)
Trips ==
  <>[](answers = Broken) /\ []<>(\E t \in Threads : At(t, "check"))
    => []<>(opened # "no")

(* Once a server works for good, calls are no longer turned away.             *)
Recovers == <>[](answers = Working) => <>[](\A t \in Threads : ~At(t, "rejected"))

(* Every call returns after finitely many attempts.                           *)
EveryCallEnds == \A t \in Threads : thread[t].pc # "idle" ~> thread[t].pc = "idle"
================================================================================
