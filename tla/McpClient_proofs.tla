---------------------------- MODULE McpClient_proofs ----------------------------
(* Proofs about the circuit breaker, for any number of threads, any threshold *)
(* and any number of retries.                                                 *)
EXTENDS McpClient, TLAPS

(* A blocked thread's call finds the circuit open, within its time, wherever  *)
(* it looks.                                                                  *)
Shut == \A t \in blocked :
  opened = "fresh" /\ thread[t].pc \in {"idle", "check", "age", "rejected"}

BreakerInv == TypeOK /\ Shut

LEMMA InitInv == ASSUME McpAssumption PROVE Init => BreakerInv
  BY DEF McpAssumption, Init, BreakerInv, TypeOK, Shut, Idle, PCs, Moods

Calls == [pc : PCs, attempts : 0..(MaxRetries + 1), seen : 0..Threshold]

(* The first attempt leaves a call a call.                                    *)
LEMMA AttemptType ==
  ASSUME McpAssumption, TypeOK, NEW t \in Threads,
         thread' = [thread EXCEPT ![t].pc = "attempt", ![t].attempts = 1]
  PROVE  thread' \in [Threads -> Calls]
<1> DEFINE first == [thread[t] EXCEPT !.pc = "attempt", !.attempts = 1]
<1>1. thread \in [Threads -> Calls]
  BY DEF TypeOK, Calls
<1>2. 1 \in 0..(MaxRetries + 1)
  BY DEF McpAssumption
<1>3. first \in Calls
  BY <1>1, <1>2 DEF Calls, PCs
<1>4. thread' = [thread EXCEPT ![t] = first]
  BY <1>1
<1> QED
  BY <1>1, <1>3, <1>4

(* The variables keep their types in every step of a thread.                  *)
LEMMA StepType ==
  ASSUME McpAssumption, TypeOK, NEW t \in Threads, CallTool(t) \/ Step(t)
  PROVE  TypeOK'
<1> USE DEF McpAssumption, TypeOK, PCs, At, Goto, Stop, Idle
<1>1. CASE CallTool(t)
  BY <1>1 DEF CallTool
<1>2. CASE Check(t)
  BY <1>2, AttemptType DEF Check, Proceed, Calls
<1>3. CASE Age(t)
  BY <1>3 DEF Age
<1>4. CASE Close(t)
  BY <1>4 DEF Close
<1>5. CASE Clear(t)
  <2>1. thread' \in [Threads -> Calls]
    BY <1>5, AttemptType DEF Clear
  <2> QED
    BY <1>5, <2>1 DEF Clear, Calls
<1>6. CASE Reject(t)
  BY <1>6 DEF Reject
<1>7. CASE Attempt(t)
  BY <1>7 DEF Attempt
<1>8. CASE Succeed(t)
  BY <1>8 DEF Succeed
<1>9. CASE Load(t)
  BY <1>9 DEF Load
<1>10. CASE Add(t)
  <2> DEFINE added == [thread[t] EXCEPT !.pc = "test", !.seen = 0]
  <2>1. thread[t] \in Calls
    BY DEF Calls
  <2>2. added \in Calls
    <3>1. 0 \in 0..Threshold
      BY DEF McpAssumption
    <3> HIDE DEF At, Goto, Stop, Idle, TypeOK
    <3> QED
      BY <2>1, <3>1 DEF Calls
  <2>3. thread' = [thread EXCEPT ![t] = added]
    BY <1>10 DEF Add
  <2>4. thread' \in [Threads -> Calls]
    BY <2>2, <2>3 DEF Calls
  <2>5. failures' \in 0..Threshold
    <3>1. thread[t].seen \in 0..Threshold
      BY <2>1 DEF Calls
    <3> QED
      BY <1>10, <3>1 DEF Add
  <2> QED
    BY <1>10, <2>4, <2>5 DEF Add, Calls
<1>11. CASE Test(t)
  BY <1>11 DEF Test
<1>12. CASE Open(t)
  BY <1>12 DEF Open
<1>13. CASE Fallback(t)
  BY <1>13 DEF Fallback
<1> QED
  BY <1>1, <1>2, <1>3, <1>4, <1>5, <1>6, <1>7, <1>8, <1>9, <1>10, <1>11, <1>12, <1>13 DEF Step

(* No step of a thread lets a blocked call past the breaker: only a thread    *)
(* that is not blocked can be about to close the circuit.                     *)
LEMMA StepShut ==
  ASSUME TypeOK, Shut, NEW t \in Threads, CallTool(t) \/ Step(t)
  PROVE  Shut'
<1> USE DEF TypeOK, Shut, At, Goto, Stop, Idle
<1>1. CASE CallTool(t)
  BY <1>1 DEF CallTool
<1>2. CASE Check(t)
  BY <1>2 DEF Check, Proceed
<1>3. CASE Age(t)
  BY <1>3 DEF Age
<1>4. CASE Close(t)
  <2>1. t \notin blocked
    BY <1>4 DEF Close
  <2> QED
    BY <1>4, <2>1 DEF Close
<1>5. CASE Clear(t)
  BY <1>5 DEF Clear
<1>6. CASE Reject(t)
  BY <1>6 DEF Reject
<1>7. CASE Attempt(t)
  BY <1>7 DEF Attempt
<1>8. CASE Succeed(t)
  BY <1>8 DEF Succeed
<1>9. CASE Load(t)
  BY <1>9 DEF Load
<1>10. CASE Add(t)
  BY <1>10 DEF Add
<1>11. CASE Test(t)
  BY <1>11 DEF Test
<1>12. CASE Open(t)
  BY <1>12 DEF Open
<1>13. CASE Fallback(t)
  BY <1>13 DEF Fallback
<1> QED
  BY <1>1, <1>2, <1>3, <1>4, <1>5, <1>6, <1>7, <1>8, <1>9, <1>10, <1>11, <1>12, <1>13 DEF Step

LEMMA NextInv == ASSUME McpAssumption PROVE BreakerInv /\ [Next]_vars => BreakerInv'
<1> SUFFICES ASSUME BreakerInv, [Next]_vars PROVE BreakerInv'
  OBVIOUS
<1>1. CASE Elapse
  BY <1>1 DEF Elapse, BreakerInv, TypeOK, Shut
<1>2. CASE Change
  BY <1>2 DEF Change, BreakerInv, TypeOK, Shut
<1>3. ASSUME NEW t \in Threads, CallTool(t) \/ Step(t) PROVE BreakerInv'
  BY <1>3, StepType, StepShut DEF BreakerInv
<1>4. CASE UNCHANGED vars
  BY <1>4 DEF vars, BreakerInv, TypeOK, Shut
<1> QED
  BY <1>1, <1>2, <1>3, <1>4 DEF Next

(* The types hold, and a blocked call finds the circuit open until it ends.   *)
THEOREM BreakerCorrect == ASSUME McpAssumption PROVE Spec => []BreakerInv
  BY InitInv, NextInv, PTL DEF Spec

(* Every variable keeps its type; the attempts of a call are never more than  *)
(* max_retries + 1.                                                           *)
THEOREM TypeCorrect == ASSUME McpAssumption PROVE Spec => []TypeOK
<1>1. BreakerInv => TypeOK
  BY DEF BreakerInv
<1> QED
  BY <1>1, BreakerCorrect, PTL

(* A call that begins while the circuit is open never reaches the server,     *)
(* unless the circuit's time runs out or another thread closes it meanwhile.  *)
THEOREM FailsFastAlways == ASSUME McpAssumption PROVE Spec => []FailsFast
<1>1. BreakerInv => FailsFast
  BY DEF BreakerInv, Shut, FailsFast, At
<1> QED
  BY <1>1, BreakerCorrect, PTL
================================================================================
