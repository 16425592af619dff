--------------------------- MODULE TaskControl_proofs ---------------------------
(******************************************************************************)
(* What holds of task control for any number of replicas, requests, runs and  *)
(* slots, and whatever the environment does.                                  *)
(******************************************************************************)
EXTENDS TaskControl, FiniteSetTheorems, TLAPS

(* The number of a step is at most 6, and a task ends with a final status.    *)
LEMMA StepsFacts ==
  ASSUME NEW t \in TaskTypes, NEW i \in DOMAIN Steps(t)
  PROVE  /\ i \in 1..6
         /\ Steps(t)[i].exits \subseteq FinalStatuses
<1>1. /\ DOMAIN ArticleSteps = 1..6
      /\ \A k \in DOMAIN ArticleSteps : ArticleSteps[k].exits \subseteq FinalStatuses
  BY DEF ArticleSteps, Step, FinalStatuses
<1>2. /\ DOMAIN FeedbackSteps = 1..5
      /\ \A k \in DOMAIN FeedbackSteps : FeedbackSteps[k].exits \subseteq FinalStatuses
  BY DEF FeedbackSteps, Step, FinalStatuses
<1>3. /\ DOMAIN RebuildSteps = 1..3
      /\ \A k \in DOMAIN RebuildSteps : RebuildSteps[k].exits \subseteq FinalStatuses
  BY DEF RebuildSteps, Step, FinalStatuses
<1> QED BY <1>1, <1>2, <1>3 DEF Steps

(* The statements on a row yield rows.                                        *)
LEMMA RowFacts ==
  ASSUME NEW row \in Row
  PROVE  /\ \A id \in Nat : Inserted(row, id) \in Row
         /\ \A s \in Statuses, c \in BOOLEAN : Updated(row, s, c) \in Row
         /\ \A s \in FinalStatuses : Marked(row, s) \in Row
         /\ CancelledByRequest(row) \in Row
         /\ Recovered(row) \in Row
BY DEF Row, Inserted, Updated, Marked, CancelledByRequest, Recovered, IsActive,
       Statuses, ActiveStatuses, FinalStatuses

LEMMA NextIdFact == ASSUME ConstantsAssumption PROVE NextId \in Nat
<1>1. IsFiniteSet({r \in Runs : rows[r].status # "absent"})
  BY FS_Subset DEF ConstantsAssumption
<1> QED BY <1>1, FS_CardinalityType DEF NextId

(* What an action may make of a goroutine's record.                           *)
LEMMA HandlerFacts ==
  ASSUME NEW g \in HandlerRecord
  PROVE  /\ g.pc \in PCs /\ g.live \in BOOLEAN
         /\ g.pc # "idle" => g.home \in Replicas
         /\ g.pc \notin {"idle", "return"} => g.run \in Runs
BY DEF HandlerRecord

LEMMA GotoFact ==
  ASSUME NEW g \in HandlerRecord, g.pc \notin {"idle", "return"}, NEW pc \in PCs
  PROVE  [g EXCEPT !.pc = pc] \in HandlerRecord
BY DEF HandlerRecord

LEMMA NextStepFact ==
  ASSUME NEW g \in HandlerRecord, g.step \in 1..6
  PROVE  [g EXCEPT !.step = @ + 1] \in HandlerRecord
BY DEF HandlerRecord

LEMMA PassCheckFact ==
  ASSUME NEW g \in HandlerRecord, g.step \in 1..6, NEW b \in BOOLEAN
  PROVE  [g EXCEPT !.step = @ + 1, !.sawCancel = b] \in HandlerRecord
<1>1. [g EXCEPT !.step = @ + 1] \in HandlerRecord
  BY NextStepFact
<1>2. \A f \in HandlerRecord : [f EXCEPT !.sawCancel = b] \in HandlerRecord
  BY DEF HandlerRecord
<1> QED BY <1>1, <1>2

LEMMA ExpireFact ==
  ASSUME NEW g \in HandlerRecord
  PROVE  [g EXCEPT !.live = FALSE] \in HandlerRecord
BY DEF HandlerRecord

LEMMA EndingsFact ==
  ASSUME TypeOK, ConstantsAssumption, NEW h \in Handlers
  PROVE  Endings(h) \subseteq FinalStatuses
<1>1. CASE handler[h].pc = "work"
  <2>1. RunOf(h) \in Runs
    BY <1>1, HandlerFacts DEF TypeOK, RunOf
  <2>2. TypeOf[RunOf(h)] \in TaskTypes
    BY <2>1 DEF ConstantsAssumption
  <2> QED BY <1>1, <2>2, StepsFacts DEF Endings, Outcomes, StepOf, FinalStatuses
<1> QED BY <1>1 DEF Endings, FinalStatuses

LEMMA NewHandlers ==
  /\ Idle \in HandlerRecord
  /\ \A p \in Replicas : Goroutine("return", p, None) \in HandlerRecord
  /\ \A p \in Replicas, r \in Runs, pc \in {"acquire", "retryRead"} :
       Goroutine(pc, p, r) \in HandlerRecord
BY DEF HandlerRecord, Idle, Goroutine, PCs, SlotPCs, EndPCs

LEMMA PCFacts ==
  /\ SlotPCs \subseteq PCs
  /\ {"retryPend", "acquire", "idle"} \subseteq PCs
  /\ {"select", "insert", "claim", "reread", "work", "cancelled", "duplicate", "failed",
      "return"} \subseteq SlotPCs
BY DEF PCs, SlotPCs, EndPCs

(* The goroutines of TypeOK after a step of one of them.                      *)
LEMMA StepType ==
  ASSUME ConstantsAssumption, TypeOK, NEW h \in Handlers, HandlerStep(h) \/ Expire(h)
  PROVE  handler' \in [Handlers -> HandlerRecord]
<1> DEFINE g == handler[h]
<1> USE DEF Goto, Stop, GiveUp, RunOf, NextStep
<1>1. g \in HandlerRecord /\ handler \in [Handlers -> HandlerRecord]
  BY DEF TypeOK
<1>2. g.pc \notin {"idle", "return"} /\ (\E pc \in PCs : Goto(h, pc)) =>
        handler' \in [Handlers -> HandlerRecord]
  BY <1>1, GotoFact
<1>3. Stop(h) => handler' \in [Handlers -> HandlerRecord]
  BY <1>1, NewHandlers
<1>4. \A do : AtStep(h, do) => g.pc = "work" /\ g.step \in 1..6 /\ g.run \in Runs
  BY <1>1, HandlerFacts, StepsFacts DEF AtStep, ConstantsAssumption
<1>5. NextStep(h) /\ (\E do : AtStep(h, do)) => handler' \in [Handlers -> HandlerRecord]
  BY <1>1, <1>4, NextStepFact
<1> HIDE DEF Goto, Stop
<1>6. CASE RetryTask(h)
  BY <1>2, <1>3, <1>6, PCFacts DEF RetryTask
<1>7. CASE RetryToPending(h)
  BY <1>2, <1>3, <1>7, PCFacts DEF RetryToPending
<1>8. CASE AcquireSlot(h)
  BY <1>2, <1>3, <1>8, PCFacts DEF AcquireSlot
<1>9. CASE SelectActive(h)
  BY <1>2, <1>3, <1>9, PCFacts DEF SelectActive
<1>10. CASE InsertRow(h)
  BY <1>2, <1>3, <1>10, PCFacts DEF InsertRow
<1>11. CASE Reread(h)
  BY <1>2, <1>3, <1>11, PCFacts DEF Reread
<1>12. CASE Claim(h)
  BY <1>2, <1>3, <1>12, PCFacts DEF Claim
<1>13. CASE CheckCancelled(h)
  <2>1. CASE Goto(h, "cancelled")
    BY <1>2, <1>4, <1>13, <2>1, PCFacts DEF CheckCancelled
  <2>2. CASE handler' = [handler EXCEPT ![h].step = @ + 1,
                                        ![h].sawCancel = RunOf(h) \in acked]
    <3>1. (RunOf(h) \in acked) \in BOOLEAN
      OBVIOUS
    <3>2. [g EXCEPT !.step = @ + 1, !.sawCancel = RunOf(h) \in acked] \in HandlerRecord
      BY <1>1, <1>4, <1>13, <3>1, PassCheckFact DEF CheckCancelled
    <3> QED BY <1>1, <2>2, <3>2
  <2> QED BY <1>13, <2>1, <2>2 DEF CheckCancelled
<1>14. CASE SavePartial(h)
  BY <1>5, <1>14 DEF SavePartial
<1>15. CASE UpsertFeedback(h)
  BY <1>2, <1>4, <1>5, <1>15, PCFacts DEF UpsertFeedback
<1>16. CASE Effect(h)
  BY <1>5, <1>16 DEF Effect
<1>20. CASE MarkFeedbackProcessing(h)
  BY <1>5, <1>20 DEF MarkFeedbackProcessing
<1>21. CASE MarkFeedbackFailed(h)
  BY <1>2, <1>4, <1>21, PCFacts DEF MarkFeedbackFailed
<1>17. CASE FinishTask(h)
  <2>1. g.home \in Replicas
    BY <1>1, <1>17, HandlerFacts DEF FinishTask, Endings
  <2> QED BY <1>1, <1>17, <2>1, NewHandlers DEF FinishTask
<1>18. CASE Return(h)
  BY <1>3, <1>18 DEF Return
<1>19. CASE Expire(h)
  BY <1>1, <1>19, ExpireFact DEF Expire
<1> QED
  BY <1>6, <1>7, <1>8, <1>9, <1>10, <1>11, <1>12, <1>13, <1>14, <1>15, <1>16, <1>17,
     <1>18, <1>19, <1>20, <1>21 DEF HandlerStep

--------------------------------------------------------------------------------
(* Type correctness.                                                          *)
LEMMA TypeInit == Init => TypeOK
BY ConstantsAssumption, NewHandlers
   DEF ConstantsAssumption, Init, TypeOK, NoRow, Row

(* A statement on the row of h's run.                                         *)
LEMMA OneRow ==
  ASSUME rows \in [Runs -> Row], NEW r, NEW row,
         rows' = [rows EXCEPT ![r] = row], r \in Runs => row \in Row
  PROVE  rows' \in [Runs -> Row]
OBVIOUS

LEMMA StepRows ==
  ASSUME ConstantsAssumption, TypeOK, NEW h \in Handlers, HandlerStep(h)
  PROVE  rows' \in [Runs -> Row]
<1> DEFINE r == RunOf(h)
<1>1. rows \in [Runs -> Row] /\ {"pending", "running"} \subseteq Statuses
  BY DEF TypeOK, Statuses, ActiveStatuses
<1>2. \A q \in Runs, s \in {"pending", "running"} : Updated(rows[q], s, FALSE) \in Row
  BY <1>1, RowFacts
<1>3. \A q \in Runs, s \in FinalStatuses : Marked(rows[q], s) \in Row
  BY <1>1, RowFacts
<1>4. \A q \in Runs : Inserted(rows[q], NextId) \in Row
  BY <1>1, RowFacts, NextIdFact
<1>5. CASE RetryToPending(h)
  BY <1>1, <1>2, <1>5, OneRow DEF RetryToPending
<1>6. CASE InsertRow(h)
  BY <1>1, <1>4, <1>6, OneRow DEF InsertRow
<1>7. CASE Claim(h)
  BY <1>1, <1>2, <1>7, OneRow DEF Claim
<1>8. CASE SavePartial(h)
  BY <1>1, <1>2, <1>8, OneRow DEF SavePartial
<1>9. CASE FinishTask(h)
  <2>1. PICK status \in Endings(h) :
          rows' = [rows EXCEPT ![Finished(h)] = Marked(@, status)] \/ UNCHANGED rows
    BY <1>9 DEF FinishTask
  <2>2. status \in FinalStatuses
    BY EndingsFact
  <2> QED BY <1>1, <1>3, <2>1, <2>2
<1> QED
  BY <1>1, <1>5, <1>6, <1>7, <1>8, <1>9 DEF HandlerStep, RetryTask, AcquireSlot,
     SelectActive, Reread, CheckCancelled, UpsertFeedback,
     MarkFeedbackProcessing, MarkFeedbackFailed, Effect, Return

LEMMA StepRest ==
  ASSUME ConstantsAssumption, TypeOK, NEW h \in Handlers, HandlerStep(h)
  PROVE  /\ records' \in [Contents -> [owner : Runs \cup {None}, done : BOOLEAN]]
         /\ slots' \in [Replicas -> Nat]
         /\ up' \in [Replicas -> BOOLEAN]
         /\ acked' \subseteq Runs
         /\ lost' \subseteq Runs
         /\ overlapped' \subseteq Runs
<1> DEFINE Record == [owner : Runs \cup {None}, done : BOOLEAN]
<1>1. /\ handler[h] \in HandlerRecord
      /\ records \in [Contents -> Record] /\ slots \in [Replicas -> Nat]
      /\ up \in [Replicas -> BOOLEAN] /\ acked \subseteq Runs /\ lost \subseteq Runs
      /\ overlapped \subseteq Runs
  BY DEF TypeOK
<1>2. ASSUME NEW do, AtStep(h, do) PROVE RunOf(h) \in Runs
  BY <1>1, <1>2, HandlerFacts DEF AtStep, RunOf
<1>3. slots' \in [Replicas -> Nat]
  <2>1. ASSUME NEW p, ReleaseTaskSlot(p) PROVE slots' \in [Replicas -> Nat]
    <3>1. \A n \in Nat : (IF n > 0 THEN n - 1 ELSE n) \in Nat
      OBVIOUS
    <3>2. p \in Replicas => (IF slots[p] > 0 THEN slots[p] - 1 ELSE slots[p]) \in Nat
      BY <1>1, <3>1
    <3> QED BY <1>1, <2>1, <3>2 DEF ReleaseTaskSlot
  <2>2. AcquireSlot(h) => slots' \in [Replicas -> Nat]
    BY <1>1 DEF AcquireSlot
  <2> QED
    BY <1>1, <2>1, <2>2 DEF HandlerStep, RetryTask, RetryToPending, SelectActive, InsertRow,
       Reread, Claim, CheckCancelled, SavePartial, UpsertFeedback, MarkFeedbackProcessing,
       MarkFeedbackFailed, Effect, FinishTask, Return, GiveUp
<1>4. records' \in [Contents -> Record]
  <2>1. CASE UpsertFeedback(h)
    <3> DEFINE c == ContentOf[RunOf(h)]
    <3>1. RunOf(h) \in Runs /\ c \in Contents
      BY <1>2, <2>1 DEF UpsertFeedback, ConstantsAssumption
    <3>2. [records[c] EXCEPT !.owner = RunOf(h)] \in Record
      BY <1>1, <3>1
    <3> QED BY <1>1, <2>1, <3>2 DEF UpsertFeedback
  <2>2. CASE Effect(h)
    <3> DEFINE c == ContentOf[RunOf(h)]
    <3>1. \A rec \in Record : [rec EXCEPT !.done = TRUE] \in Record
      OBVIOUS
    <3>2. RunOf(h) \in Runs /\ c \in Contents
      BY <1>2, <2>2 DEF Effect, ConstantsAssumption
    <3> QED BY <1>1, <2>2, <3>1, <3>2 DEF Effect
  <2>3. CASE MarkFeedbackProcessing(h) \/ MarkFeedbackFailed(h)
    <3> DEFINE c == ContentOf[RunOf(h)]
    <3>1. \A rec \in Record : [rec EXCEPT !.done = FALSE] \in Record
      OBVIOUS
    <3>2. RunOf(h) \in Runs /\ c \in Contents
      BY <1>2, <2>3 DEF MarkFeedbackProcessing, MarkFeedbackFailed, ConstantsAssumption
    <3>3. records' = [records EXCEPT ![c].done = FALSE]
      BY <2>3 DEF MarkFeedbackProcessing, MarkFeedbackFailed, Unprocessed
    <3> QED BY <1>1, <3>1, <3>2, <3>3
  <2> QED
    BY <1>1, <2>1, <2>2, <2>3 DEF HandlerStep, RetryTask, RetryToPending, AcquireSlot,
       SelectActive, InsertRow, Reread, Claim, CheckCancelled, SavePartial, FinishTask, Return
<1>5. lost' \subseteq Runs
  <2>1. FinishTask(h) => RunOf(h) \in Runs
    BY <1>1, HandlerFacts DEF FinishTask, Endings, RunOf
  <2> QED
    BY <1>1, <2>1 DEF HandlerStep, RetryTask, RetryToPending, AcquireSlot, SelectActive,
       InsertRow, Reread, Claim, CheckCancelled, SavePartial, UpsertFeedback,
     MarkFeedbackProcessing, MarkFeedbackFailed, Effect,
       FinishTask, Return
<1>7. overlapped' \subseteq Runs
  <2>1. CASE UpsertFeedback(h)
    <3> DEFINE c == ContentOf[RunOf(h)]
    <3>1. c \in Contents
      BY <1>2, <2>1 DEF UpsertFeedback, ConstantsAssumption
    <3>2. records[c].owner # None => records[c].owner \in Runs
      BY <1>1, <3>1
    <3> QED BY <1>1, <2>1, <3>2 DEF UpsertFeedback
  <2> QED
    BY <1>1, <2>1 DEF HandlerStep, RetryTask, RetryToPending, AcquireSlot, SelectActive,
       InsertRow, Reread, Claim, CheckCancelled, SavePartial, MarkFeedbackProcessing,
       MarkFeedbackFailed, Effect, FinishTask, Return
<1>6. up' = up /\ acked' = acked
  BY DEF HandlerStep, RetryTask, RetryToPending, AcquireSlot, SelectActive,
     InsertRow, Reread, Claim, CheckCancelled, SavePartial, UpsertFeedback,
     MarkFeedbackProcessing, MarkFeedbackFailed, Effect,
     FinishTask, Return
<1> QED BY <1>1, <1>3, <1>4, <1>5, <1>6, <1>7

LEMMA TypeStep == TypeOK /\ [Next]_vars => TypeOK'
<1> SUFFICES ASSUME TypeOK, [Next]_vars PROVE TypeOK'
  OBVIOUS
<1> USE ConstantsAssumption
<1>1. ASSUME NEW h \in Handlers, NEW p \in Replicas, NEW r \in Runs,
             Request(h, p, r) \/ RetryTaskRun(h, p, r)
      PROVE  TypeOK'
  BY <1>1, NewHandlers DEF Request, RetryTaskRun, Begin, TypeOK
<1>2. ASSUME NEW h \in Handlers, HandlerStep(h) PROVE TypeOK'
  BY <1>2, StepType, StepRows, StepRest DEF TypeOK
<1>3. ASSUME NEW h \in Handlers, Expire(h) PROVE TypeOK'
  BY <1>3, StepType DEF Expire, TypeOK
<1>4. ASSUME NEW r \in Runs, CancelTask(r) PROVE TypeOK'
  BY <1>4, RowFacts DEF CancelTask, TypeOK
<1>5. ASSUME NEW p \in Replicas, Crash(p) PROVE TypeOK'
  BY <1>5, NewHandlers DEF Crash, TypeOK
<1>6. ASSUME NEW p \in Replicas, Restart(p) PROVE TypeOK'
  BY <1>6, RowFacts DEF Restart, TypeOK
<1>7. CASE UNCHANGED vars
  BY <1>7 DEF vars, TypeOK
<1> QED BY <1>1, <1>2, <1>3, <1>4, <1>5, <1>6, <1>7 DEF Next

(* Every variable keeps its type: in particular a status outside Statuses is  *)
(* never written, and a goroutine that works has a replica and a run.         *)
THEOREM TypeCorrect == Spec => []TypeOK
BY TypeInit, TypeStep, PTL DEF Spec
--------------------------------------------------------------------------------
(* A cancellation that was answered sticks.                                   *)

(* The statements on a row that is there keep it there, and keep its flag.    *)
LEMMA CancelKept ==
  ASSUME NEW row \in Row, row.status # "absent", row.cancel
  PROVE  /\ \A id \in Nat : Inserted(row, id) = row
         /\ \A s \in Statuses : /\ Updated(row, s, FALSE).status # "absent"
                               /\ Updated(row, s, FALSE).cancel
         /\ \A s \in FinalStatuses : /\ Marked(row, s).status # "absent"
                                    /\ Marked(row, s).cancel
         /\ Recovered(row) = row
BY DEF Row, Inserted, Updated, Marked, Recovered, Statuses, ActiveStatuses, FinalStatuses

LEMMA CancelRaised ==
  ASSUME NEW row \in Row, row.status # "absent"
  PROVE  CancelledByRequest(row).status # "absent" /\ CancelledByRequest(row).cancel
BY DEF Row, CancelledByRequest

(* What a step of a goroutine makes of each row.                              *)
LEMMA RowSteps ==
  ASSUME TypeOK, NEW h \in Handlers, HandlerStep(h), NEW r \in Runs
  PROVE  \/ rows'[r] = rows[r]
         \/ rows'[r] = Inserted(rows[r], NextId)
         \/ \E s \in {"pending", "running"} : rows'[r] = Updated(rows[r], s, FALSE)
         \/ \E s \in FinalStatuses : rows'[r] = Marked(rows[r], s)
<1>1. rows \in [Runs -> Row]
  BY DEF TypeOK
<1>2. CASE RetryToPending(h)
  BY <1>1, <1>2 DEF RetryToPending
<1>3. CASE InsertRow(h)
  BY <1>1, <1>3 DEF InsertRow
<1>4. CASE Claim(h)
  BY <1>1, <1>4 DEF Claim
<1>5. CASE SavePartial(h)
  BY <1>1, <1>5 DEF SavePartial
<1>6. CASE FinishTask(h)
  <2>1. PICK status \in Endings(h) :
          \E q : rows' = [rows EXCEPT ![q] = Marked(@, status)] \/ UNCHANGED rows
    BY <1>6 DEF FinishTask
  <2>2. status \in FinalStatuses
    BY EndingsFact, ConstantsAssumption
  <2> QED BY <1>1, <2>1, <2>2
<1> QED
  BY <1>2, <1>3, <1>4, <1>5, <1>6 DEF HandlerStep, RetryTask, AcquireSlot,
     SelectActive, Reread, CheckCancelled, UpsertFeedback,
     MarkFeedbackProcessing, MarkFeedbackFailed, Effect, Return

CancelInv == \A r \in acked : rows[r].status # "absent" /\ rows[r].cancel

LEMMA CancelStep == TypeOK /\ CancelInv /\ [Next]_vars => CancelInv'
<1> SUFFICES ASSUME TypeOK, CancelInv, [Next]_vars PROVE CancelInv'
  OBVIOUS
<1>1. rows \in [Runs -> Row] /\ acked \subseteq Runs
  BY DEF TypeOK
<1>2. ASSUME NEW h \in Handlers, HandlerStep(h) PROVE CancelInv'
  <2>1. acked' = acked
    BY <1>2 DEF HandlerStep, RetryTask, RetryToPending, AcquireSlot, SelectActive,
       InsertRow, Reread, Claim, CheckCancelled, SavePartial, UpsertFeedback,
     MarkFeedbackProcessing, MarkFeedbackFailed, Effect,
       FinishTask, Return
  <2>2. NextId \in Nat /\ {"pending", "running"} \subseteq Statuses
    BY NextIdFact, ConstantsAssumption DEF Statuses, ActiveStatuses
  <2>3. ASSUME NEW r \in acked PROVE rows'[r].status # "absent" /\ rows'[r].cancel
    <3>1. r \in Runs /\ rows[r] \in Row /\ rows[r].status # "absent" /\ rows[r].cancel
      BY <1>1 DEF CancelInv
    <3> QED BY <1>2, <2>2, <3>1, RowSteps, CancelKept
  <2> QED BY <2>1, <2>3 DEF CancelInv
<1>3. ASSUME NEW r \in Runs, CancelTask(r) PROVE CancelInv'
  BY <1>1, <1>3, CancelRaised DEF CancelTask, CancelInv
<1>4. ASSUME NEW p \in Replicas, Restart(p) PROVE CancelInv'
  BY <1>1, <1>4, CancelKept DEF Restart, CancelInv
<1> QED
  BY <1>2, <1>3, <1>4 DEF Next, vars, CancelInv, Request, RetryTaskRun, Begin, Expire, Crash

(* A cancellation a client was told of stays in the row of its run: by        *)
(* CancelInv, which adds that the row exists (CreateTaskRun's INSERT would    *)
(* otherwise clear the flag).                                                 *)
THEOREM CancellationKept == Spec => []CancellationSticks
<1>1. Init => CancelInv
  BY DEF Init, CancelInv
<1>2. CancelInv => CancellationSticks
  BY DEF CancelInv, CancellationSticks
<1> QED BY <1>1, <1>2, TypeCorrect, CancelStep, PTL DEF Spec
--------------------------------------------------------------------------------
(* The slots are accounted for.                                               *)

(* Which fields a change of one field leaves alone.                           *)
LEMMA FieldFacts ==
  ASSUME NEW g \in HandlerRecord
  PROVE  /\ \A x : /\ [g EXCEPT !.pc = x].pc = x
                  /\ [g EXCEPT !.pc = x].home = g.home
                  /\ [g EXCEPT !.pc = x].run = g.run
         /\ \A x : /\ [g EXCEPT !.live = x].pc = g.pc
                  /\ [g EXCEPT !.live = x].home = g.home
                  /\ [g EXCEPT !.live = x].run = g.run
         /\ /\ [g EXCEPT !.step = @ + 1].pc = g.pc
            /\ [g EXCEPT !.step = @ + 1].home = g.home
            /\ [g EXCEPT !.step = @ + 1].run = g.run
         /\ \A x : /\ [g EXCEPT !.step = @ + 1, !.sawCancel = x].pc = g.pc
                  /\ [g EXCEPT !.step = @ + 1, !.sawCancel = x].home = g.home
                  /\ [g EXCEPT !.step = @ + 1, !.sawCancel = x].run = g.run
BY DEF HandlerRecord

(* What a jump, a return and the next step make of the goroutines.            *)
LEMMA GotoDone ==
  ASSUME TypeOK, NEW h \in Handlers, NEW pc, Goto(h, pc)
  PROVE  /\ handler'[h].pc = pc /\ handler'[h].run = handler[h].run
         /\ \A o \in Handlers : o # h => handler'[o] = handler[o]
<1>1. handler[h] \in HandlerRecord /\ handler \in [Handlers -> HandlerRecord]
  BY DEF TypeOK
<1>2. handler' = [handler EXCEPT ![h] = [handler[h] EXCEPT !.pc = pc]]
  BY DEF Goto
<1> QED BY <1>1, <1>2, FieldFacts

LEMMA StopDone ==
  ASSUME TypeOK, NEW h \in Handlers, Stop(h)
  PROVE  /\ handler'[h].pc = "idle"
         /\ \A o \in Handlers : o # h => handler'[o] = handler[o]
BY DEF TypeOK, Stop, Idle, Goroutine

LEMMA NextStepDone ==
  ASSUME TypeOK, NEW h \in Handlers, NextStep(h)
  PROVE  /\ handler'[h].pc = handler[h].pc /\ handler'[h].run = handler[h].run
         /\ \A o \in Handlers : o # h => handler'[o] = handler[o]
<1>1. handler[h] \in HandlerRecord /\ handler \in [Handlers -> HandlerRecord]
  BY DEF TypeOK
<1>2. handler' = [handler EXCEPT ![h] = [handler[h] EXCEPT !.step = @ + 1]]
  BY DEF NextStep
<1> QED BY <1>1, <1>2, FieldFacts

LEMMA HoldersFinite ==
  ASSUME NEW p
  PROVE  IsFiniteSet(Holders(p)) /\ IsFiniteSet(Holders(p)')
<1>1. Holders(p) \in SUBSET Handlers /\ Holders(p)' \in SUBSET Handlers
  BY DEF Holders
<1> QED BY <1>1, FS_Subset, ConstantsAssumption DEF ConstantsAssumption

(* Steps that neither take nor give back a slot.                              *)
LEMMA SlotsUntouched ==
  ASSUME SlotsAccounted, UNCHANGED slots,
         \A h \in Handlers, p \in Replicas : HoldsSlot(h, p)' <=> HoldsSlot(h, p)
  PROVE  SlotsAccounted'
<1>1. \A p \in Replicas : Holders(p)' = Holders(p)
  BY DEF Holders
<1> QED BY <1>1 DEF SlotsAccounted

(* The same, when only h changes.                                             *)
LEMMA SlotsUntouchedBy ==
  ASSUME TypeOK, SlotsAccounted, UNCHANGED slots, NEW h \in Handlers, NEW g,
         handler' = [handler EXCEPT ![h] = g],
         \/ g.pc \notin SlotPCs /\ handler[h].pc \notin SlotPCs
         \/ g.pc \in SlotPCs /\ handler[h].pc \in SlotPCs /\ g.home = handler[h].home
  PROVE  SlotsAccounted'
<1>1. handler'[h] = g /\ \A o \in Handlers : o # h => handler'[o] = handler[o]
  BY DEF TypeOK
<1>2. \A o \in Handlers, p \in Replicas : HoldsSlot(o, p)' <=> HoldsSlot(o, p)
  BY <1>1 DEF HoldsSlot
<1> QED BY <1>2, SlotsUntouched

(* A goroutine that holds a slot gives it back.                               *)
LEMMA SlotGivenBack ==
  ASSUME TypeOK, SlotsAccounted, NEW h \in Handlers, handler[h].pc \in SlotPCs, GiveUp(h)
  PROVE  SlotsAccounted'
<1>1. PICK p \in Replicas : p = handler[h].home
  BY HandlerFacts DEF TypeOK, SlotPCs, EndPCs
<1>2. handler'[h] = Idle /\ \A o \in Handlers : o # h => handler'[o] = handler[o]
  BY DEF GiveUp, Stop, TypeOK
<1>3. ~HoldsSlot(h, p)' /\ HoldsSlot(h, p)
  BY <1>1, <1>2 DEF HoldsSlot, Idle, Goroutine, SlotPCs, EndPCs
<1>4. Holders(p)' = Holders(p) \ {h} /\ h \in Holders(p)
  BY <1>2, <1>3 DEF Holders, HoldsSlot
<1>5. Cardinality(Holders(p)') = Cardinality(Holders(p)) - 1
  BY <1>4, HoldersFinite, FS_RemoveElement
<1>6. Cardinality(Holders(p)) > 0
  <2>1. Cardinality(Holders(p)) \in Nat /\ Cardinality(Holders(p)) # 0
    BY <1>4, HoldersFinite, FS_CardinalityType, FS_EmptySet
  <2> QED BY <2>1
<1>7. slots' = [slots EXCEPT ![p] = slots[p] - 1]
  BY <1>1, <1>6 DEF GiveUp, ReleaseTaskSlot, SlotsAccounted
<1>8. \A q \in Replicas : q # p => Holders(q)' = Holders(q)
  BY <1>2, <1>3 DEF Holders, HoldsSlot, Idle, Goroutine, SlotPCs, EndPCs
<1>9. slots \in [Replicas -> Nat]
  BY DEF TypeOK
<1>10. MaxConcurrentTasks \in Nat
  BY ConstantsAssumption DEF ConstantsAssumption
<1>11. slots'[p] = slots[p] - 1 /\ \A q \in Replicas : q # p => slots'[q] = slots[q]
  BY <1>1, <1>7, <1>9
<1>12. slots[p] \in Nat /\ slots[p] = Cardinality(Holders(p)) /\ slots[p] <= MaxConcurrentTasks
  BY <1>9 DEF SlotsAccounted
<1>13. slots'[p] = Cardinality(Holders(p)') /\ slots'[p] <= MaxConcurrentTasks
  BY <1>5, <1>10, <1>11, <1>12
<1> QED BY <1>8, <1>11, <1>13 DEF SlotsAccounted

LEMMA SlotTaken ==
  ASSUME TypeOK, SlotsAccounted, NEW h \in Handlers, AcquireSlot(h)
  PROVE  SlotsAccounted'
<1>1. PICK p \in Replicas : p = handler[h].home /\ handler[h].pc = "acquire"
  BY HandlerFacts DEF TypeOK, AcquireSlot
<1>2. CASE Stop(h) /\ UNCHANGED slots
  BY <1>1, <1>2, SlotsUntouchedBy DEF Stop, Idle, Goroutine, SlotPCs, EndPCs
<1>3. CASE /\ slots[p] < MaxConcurrentTasks
           /\ slots' = [slots EXCEPT ![p] = @ + 1]
           /\ Goto(h, "select")
  <2>1. handler'[h].pc = "select" /\ handler'[h].home = p
    BY <1>1, <1>3, FieldFacts DEF Goto, TypeOK
  <2>2. \A o \in Handlers : o # h => handler'[o] = handler[o]
    BY <1>3 DEF Goto, TypeOK
  <2>3. Holders(p)' = Holders(p) \cup {h} /\ h \notin Holders(p)
    BY <1>1, <2>1, <2>2 DEF Holders, HoldsSlot, SlotPCs, EndPCs
  <2>4. Cardinality(Holders(p)') = Cardinality(Holders(p)) + 1
    BY <2>3, HoldersFinite, FS_AddElement
  <2>5. \A q \in Replicas : q # p => Holders(q)' = Holders(q)
    BY <1>1, <2>1, <2>2 DEF Holders, HoldsSlot, SlotPCs, EndPCs
  <2>6. slots \in [Replicas -> Nat] /\ MaxConcurrentTasks \in Nat
    BY ConstantsAssumption DEF TypeOK, ConstantsAssumption
  <2>7. slots'[p] = slots[p] + 1 /\ \A q \in Replicas : q # p => slots'[q] = slots[q]
    BY <1>3, <2>6
  <2>8. slots'[p] = Cardinality(Holders(p)')
    BY <2>4, <2>7 DEF SlotsAccounted
  <2>9. slots'[p] <= MaxConcurrentTasks
    BY <1>1, <1>3, <2>6, <2>7
  <2> QED BY <2>5, <2>7, <2>8, <2>9 DEF SlotsAccounted
<1> QED BY <1>1, <1>2, <1>3 DEF AcquireSlot

LEMMA SlotStep ==
  ASSUME TypeOK, SlotsAccounted, NEW h \in Handlers, HandlerStep(h)
  PROVE  SlotsAccounted'
<1> DEFINE g == handler[h]
<1>1. g \in HandlerRecord
  BY DEF TypeOK
<1>2. ASSUME NEW pc, Goto(h, pc), UNCHANGED slots, g.pc \in SlotPCs <=> pc \in SlotPCs
      PROVE  SlotsAccounted'
  <2>1. handler' = [handler EXCEPT ![h] = [g EXCEPT !.pc = pc]]
    BY <1>2 DEF Goto
  <2>2. [g EXCEPT !.pc = pc].pc = pc /\ [g EXCEPT !.pc = pc].home = g.home
    BY <1>1, FieldFacts
  <2> QED BY <1>2, <2>1, <2>2, SlotsUntouchedBy
<1>3. ASSUME Stop(h), UNCHANGED slots, g.pc \notin SlotPCs PROVE SlotsAccounted'
  BY <1>3, SlotsUntouchedBy DEF Stop, Idle, Goroutine, SlotPCs, EndPCs
<1>4. ASSUME NextStep(h), UNCHANGED slots PROVE SlotsAccounted'
  BY <1>1, <1>4, FieldFacts, SlotsUntouchedBy DEF NextStep
<1>5. "retryRead" \notin SlotPCs /\ "retryPend" \notin SlotPCs /\ "acquire" \notin SlotPCs
  BY DEF SlotPCs, EndPCs
<1>6. CASE RetryTask(h)
  BY <1>2, <1>3, <1>5, <1>6 DEF RetryTask
<1>7. CASE RetryToPending(h)
  BY <1>2, <1>3, <1>5, <1>7 DEF RetryToPending
<1>8. CASE SelectActive(h)
  BY <1>2, <1>8, SlotGivenBack, PCFacts DEF SelectActive
<1>9. CASE InsertRow(h)
  BY <1>2, <1>9, SlotGivenBack, PCFacts DEF InsertRow
<1>10. CASE Reread(h)
  BY <1>2, <1>10, SlotGivenBack, PCFacts DEF Reread
<1>11. CASE Claim(h)
  BY <1>2, <1>11, SlotGivenBack, PCFacts DEF Claim
<1>12. CASE CheckCancelled(h)
  <2>1. CASE Goto(h, "cancelled")
    BY <1>2, <1>12, <2>1, PCFacts DEF CheckCancelled, AtStep
  <2>2. CASE handler' = [handler EXCEPT ![h].step = @ + 1,
                                        ![h].sawCancel = RunOf(h) \in acked]
    <3>1. handler' = [handler EXCEPT ![h] =
                        [g EXCEPT !.step = @ + 1, !.sawCancel = RunOf(h) \in acked]]
      BY <2>2
    <3> QED BY <1>1, <1>12, <3>1, FieldFacts, SlotsUntouchedBy DEF CheckCancelled
  <2> QED BY <1>12, <2>1, <2>2 DEF CheckCancelled
<1>13. CASE SavePartial(h)
  BY <1>4, <1>13 DEF SavePartial
<1>14. CASE UpsertFeedback(h)
  BY <1>2, <1>4, <1>14, PCFacts DEF UpsertFeedback, AtStep
<1>15. CASE Effect(h)
  BY <1>4, <1>15 DEF Effect
<1>18. CASE MarkFeedbackProcessing(h)
  BY <1>4, <1>18 DEF MarkFeedbackProcessing
<1>19. CASE MarkFeedbackFailed(h)
  BY <1>2, <1>19, PCFacts DEF MarkFeedbackFailed, AtStep
<1>16. CASE FinishTask(h)
  <2>1. g.pc \in SlotPCs
    BY <1>16, PCFacts DEF FinishTask, Endings
  <2> QED BY <1>16, <2>1, SlotsUntouchedBy, PCFacts DEF FinishTask, Goroutine
<1>17. CASE Return(h)
  BY <1>17, SlotGivenBack, PCFacts DEF Return
<1> QED
  BY <1>6, <1>7, SlotTaken, <1>8, <1>9, <1>10, <1>11, <1>12, <1>13, <1>14, <1>15, <1>16,
     <1>17, <1>18, <1>19 DEF HandlerStep

LEMMA SlotsNext == TypeOK /\ SlotsAccounted /\ [Next]_vars => SlotsAccounted'
<1> SUFFICES ASSUME TypeOK, SlotsAccounted, [Next]_vars PROVE SlotsAccounted'
  OBVIOUS
<1>1. ASSUME NEW h \in Handlers, NEW p \in Replicas, NEW r \in Runs,
             Request(h, p, r) \/ RetryTaskRun(h, p, r)
      PROVE  SlotsAccounted'
  <2>1. PICK pc \in {"acquire", "retryRead"} : Begin(h, p, r, pc)
    BY <1>1 DEF Request, RetryTaskRun
  <2> QED BY <2>1, SlotsUntouchedBy DEF Begin, Goroutine, SlotPCs, EndPCs
<1>2. ASSUME NEW h \in Handlers, Expire(h) PROVE SlotsAccounted'
  <2>1. handler[h] \in HandlerRecord
    BY DEF TypeOK
  <2> QED BY <1>2, <2>1, FieldFacts, SlotsUntouchedBy DEF Expire
<1>3. ASSUME NEW p \in Replicas, Crash(p) PROVE SlotsAccounted'
  <2>1. \A h \in Handlers : handler'[h] = IF handler[h].home = p THEN Idle ELSE handler[h]
    BY <1>3 DEF Crash
  <2>2. Holders(p)' = {}
    BY <2>1 DEF Holders, HoldsSlot, Idle, Goroutine, SlotPCs, EndPCs
  <2>3. \A q \in Replicas : q # p => Holders(q)' = Holders(q)
    BY <2>1 DEF Holders, HoldsSlot, Idle, Goroutine, SlotPCs, EndPCs
  <2>4. slots \in [Replicas -> Nat] /\ MaxConcurrentTasks \in Nat
    BY ConstantsAssumption DEF TypeOK, ConstantsAssumption
  <2>5. slots'[p] = 0 /\ \A q \in Replicas : q # p => slots'[q] = slots[q]
    BY <1>3, <2>4 DEF Crash
  <2>6. slots'[p] = Cardinality(Holders(p)') /\ slots'[p] <= MaxConcurrentTasks
    BY <2>2, <2>4, <2>5, FS_EmptySet
  <2> QED BY <2>3, <2>5, <2>6 DEF SlotsAccounted
<1>4. CASE UNCHANGED <<slots, handler>>
  BY <1>4, SlotsUntouched DEF HoldsSlot
<1> QED
  BY <1>1, <1>2, <1>3, <1>4, SlotStep DEF Next, vars, CancelTask, Restart

(* The channel of a replica holds one token for each task it executes, and no *)
(* more than max_concurrent_tasks: with any number of requests, and whatever  *)
(* statement fails.  releaseTaskSlot never meets an empty channel.            *)
THEOREM SlotsAlwaysAccounted == Spec => []SlotsAccounted
<1>1. Init => SlotsAccounted
  <2> SUFFICES ASSUME Init PROVE SlotsAccounted
    OBVIOUS
  <2>1. \A p \in Replicas : Holders(p) = {} /\ slots[p] = 0
    BY DEF Init, Holders, HoldsSlot, Idle, Goroutine, SlotPCs, EndPCs
  <2> QED BY <2>1, FS_EmptySet, ConstantsAssumption DEF SlotsAccounted, ConstantsAssumption
<1> QED BY <1>1, TypeCorrect, SlotsNext, PTL DEF Spec
--------------------------------------------------------------------------------
(* One active task per user and task type: with one replica, one slot and no  *)
(* retries, whatever crashes, expires, fails or is cancelled.                 *)

(* From the SELECT of CreateTaskRun on, a task owns its user and task type.   *)
OwnerPCs == {"insert", "reread", "claim", "work"} \cup EndPCs

Alone(h) ==
  handler[h].pc \in OwnerPCs =>
    \A q \in Runs : q # RunOf(h) /\ SameTask(q, RunOf(h)) => ~IsActive(rows[q])

Retrying(h) == handler[h].pc \in {"retryRead", "retryPend"}

OneActiveInv ==
  /\ OneActiveTask
  /\ \A h \in Handlers : Alone(h) /\ ~Retrying(h)

LEMMA OneHolder ==
  ASSUME TypeOK, SlotsAccounted, MaxConcurrentTasks = 1, NEW p, Replicas = {p},
         NEW g \in Handlers, NEW h \in Handlers,
         handler[g].pc \in SlotPCs, handler[h].pc \in SlotPCs
  PROVE  g = h
<1>1. g \in Holders(p) /\ h \in Holders(p)
  BY HandlerFacts DEF TypeOK, Holders, HoldsSlot, SlotPCs, EndPCs
<1>2. Cardinality(Holders(p)) = 1
  <2>1. Cardinality(Holders(p)) \in Nat /\ Cardinality(Holders(p)) # 0
    BY <1>1, HoldersFinite, FS_CardinalityType, FS_EmptySet
  <2> QED BY <2>1 DEF SlotsAccounted
<1>3. \E x : Holders(p) = {x}
  BY <1>2, HoldersFinite, FS_Singleton
<1> QED BY <1>1, <1>3

(* A step of a goroutine changes rows only while it owns its task (a retry    *)
(* aside), and makes no row active but that of its run.                       *)
LEMMA RowsOwned ==
  ASSUME TypeOK, NEW h \in Handlers, HandlerStep(h), ~Retrying(h)
  PROVE  /\ rows' = rows \/ handler[h].pc \in OwnerPCs
         /\ \A q \in Runs : q # RunOf(h) /\ IsActive(rows'[q]) => IsActive(rows[q])
<1>1. rows \in [Runs -> Row]
  BY DEF TypeOK
<1>2. CASE InsertRow(h)
  BY <1>1, <1>2 DEF InsertRow, OwnerPCs, EndPCs
<1>3. CASE Claim(h)
  BY <1>1, <1>3 DEF Claim, OwnerPCs, EndPCs
<1>4. CASE SavePartial(h)
  BY <1>1, <1>4 DEF SavePartial, AtStep, OwnerPCs, EndPCs
<1>5. CASE FinishTask(h)
  <2>1. handler[h].pc \in OwnerPCs
    BY <1>5 DEF FinishTask, Endings, OwnerPCs, EndPCs
  <2>2. PICK status \in Endings(h) :
          \E q : rows' = [rows EXCEPT ![q] = Marked(@, status)] \/ UNCHANGED rows
    BY <1>5 DEF FinishTask
  <2>3. status \in FinalStatuses
    BY EndingsFact, ConstantsAssumption
  <2>4. \A row \in Row : ~IsActive(Marked(row, status))
    BY <2>3 DEF Row, Marked, IsActive, ActiveStatuses, FinalStatuses
  <2> QED BY <1>1, <2>1, <2>2, <2>4
<1>6. CASE UNCHANGED rows
  BY <1>6
<1> QED
  BY <1>2, <1>3, <1>4, <1>5, <1>6 DEF HandlerStep, RetryTask, RetryToPending, Retrying,
     AcquireSlot, SelectActive, Reread, CheckCancelled, UpsertFeedback,
     MarkFeedbackProcessing, MarkFeedbackFailed, Effect, Return

(* Where a goroutine may be after its step.                                   *)
LEMMA PCStep ==
  ASSUME TypeOK, NEW h \in Handlers, HandlerStep(h), ~Retrying(h)
  PROVE  /\ \A o \in Handlers : o # h => handler'[o] = handler[o]
         /\ handler'[h].pc \notin {"retryRead", "retryPend"}
         /\ handler'[h].pc \in OwnerPCs =>
              /\ handler'[h].run = handler[h].run
              /\ handler[h].pc \in OwnerPCs \/ SelectActive(h)
<1> DEFINE g == handler[h]
<1>1. g \in HandlerRecord /\ handler \in [Handlers -> HandlerRecord]
  BY DEF TypeOK
<1>2. ASSUME NEW f, handler' = [handler EXCEPT ![h] = f]
      PROVE  handler'[h] = f /\ \A o \in Handlers : o # h => handler'[o] = handler[o]
  BY <1>1, <1>2
<1>3. ASSUME NEW pc, Goto(h, pc)
      PROVE  /\ handler'[h].pc = pc /\ handler'[h].run = g.run
             /\ \A o \in Handlers : o # h => handler'[o] = handler[o]
  BY <1>3, GotoDone
<1>4. ASSUME Stop(h)
      PROVE  /\ handler'[h].pc = "idle"
             /\ \A o \in Handlers : o # h => handler'[o] = handler[o]
  BY <1>4, StopDone
<1>5. ASSUME NextStep(h)
      PROVE  /\ handler'[h].pc = g.pc /\ handler'[h].run = g.run
             /\ \A o \in Handlers : o # h => handler'[o] = handler[o]
  BY <1>5, NextStepDone
<1>6. ASSUME NEW do, AtStep(h, do) PROVE g.pc = "work"
  BY <1>6 DEF AtStep
<1> USE DEF OwnerPCs, EndPCs
<1>7. CASE AcquireSlot(h)
  BY <1>3, <1>4, <1>7 DEF AcquireSlot
<1>8. CASE SelectActive(h)
  BY <1>3, <1>4, <1>8 DEF SelectActive, GiveUp
<1>9. CASE InsertRow(h)
  BY <1>3, <1>4, <1>9 DEF InsertRow, GiveUp
<1>10. CASE Reread(h)
  BY <1>3, <1>4, <1>10 DEF Reread, GiveUp
<1>11. CASE Claim(h)
  <2>1. g.pc = "claim" /\ (Goto(h, "work") \/ Stop(h))
    BY <1>11 DEF Claim, GiveUp
  <2> QED BY <1>3, <1>4, <2>1
<1>12. CASE CheckCancelled(h)
  <2>1. CASE Goto(h, "cancelled")
    BY <1>3, <1>6, <1>12, <2>1 DEF CheckCancelled
  <2>2. CASE handler' = [handler EXCEPT ![h].step = @ + 1,
                                        ![h].sawCancel = RunOf(h) \in acked]
    <3>1. handler' = [handler EXCEPT ![h] =
                        [g EXCEPT !.step = @ + 1, !.sawCancel = RunOf(h) \in acked]]
      BY <2>2
    <3> QED BY <1>1, <1>2, <1>6, <1>12, <3>1, FieldFacts DEF CheckCancelled
  <2> QED BY <1>12, <2>1, <2>2 DEF CheckCancelled
<1>13. CASE SavePartial(h)
  BY <1>5, <1>6, <1>13 DEF SavePartial
<1>14. CASE UpsertFeedback(h)
  BY <1>3, <1>5, <1>6, <1>14 DEF UpsertFeedback
<1>15. CASE Effect(h)
  BY <1>5, <1>6, <1>15 DEF Effect
<1>18. CASE MarkFeedbackProcessing(h)
  BY <1>5, <1>6, <1>18 DEF MarkFeedbackProcessing
<1>19. CASE MarkFeedbackFailed(h)
  BY <1>3, <1>6, <1>19 DEF MarkFeedbackFailed
<1>16. CASE FinishTask(h)
  <2>1. handler' = [handler EXCEPT ![h] = Goroutine("return", g.home, None)]
    BY <1>16 DEF FinishTask
  <2>2. Goroutine("return", g.home, None).pc = "return"
    BY DEF Goroutine
  <2> QED BY <1>2, <2>1, <2>2
<1>17. CASE Return(h)
  BY <1>4, <1>17 DEF Return, GiveUp
<1> QED
  BY <1>7, <1>8, <1>9, <1>10, <1>11, <1>12, <1>13, <1>14, <1>15, <1>16, <1>17,
     <1>18, <1>19 DEF HandlerStep, RetryTask, RetryToPending, Retrying

LEMMA OneActiveStep ==
  ASSUME "retry" \notin Environment, MaxConcurrentTasks = 1, NEW p, Replicas = {p}
  PROVE  TypeOK /\ SlotsAccounted /\ OneActiveInv /\ [Next]_vars => OneActiveInv'
<1> SUFFICES ASSUME TypeOK, SlotsAccounted, OneActiveInv, [Next]_vars PROVE OneActiveInv'
  OBVIOUS
<1>1. rows \in [Runs -> Row] /\ handler \in [Handlers -> HandlerRecord]
  BY DEF TypeOK
<1>2. ASSUME NEW h \in Handlers, HandlerStep(h) PROVE OneActiveInv'
  <2>1. ~Retrying(h) /\ Alone(h) /\ OneActiveTask
    BY DEF OneActiveInv
  <2>2. OneActiveTask'
    <3> SUFFICES ASSUME NEW q \in Runs, NEW r \in Runs, SameTask(q, r),
                        IsActive(rows'[q]), IsActive(rows'[r]), q # r
                 PROVE  FALSE
      BY DEF OneActiveTask, SameTask
    <3>1. CASE rows' = rows
      BY <2>1, <3>1 DEF OneActiveTask
    <3>2. CASE handler[h].pc \in OwnerPCs
      <4>1. \A x \in Runs : x # RunOf(h) /\ IsActive(rows'[x]) => IsActive(rows[x])
        BY <1>2, <2>1, RowsOwned
      <4>2. \A x \in Runs : x # RunOf(h) /\ SameTask(x, RunOf(h)) => ~IsActive(rows[x])
        BY <2>1, <3>2 DEF Alone
      <4> QED BY <2>1, <4>1, <4>2 DEF OneActiveTask, SameTask
    <3> QED BY <1>2, <2>1, <3>1, <3>2, RowsOwned
  <2>3. ASSUME NEW o \in Handlers PROVE Alone(o)' /\ ~Retrying(o)'
    <3>1. ~Retrying(o) /\ Alone(o)
      BY DEF OneActiveInv
    <3>2. CASE o = h
      <4>1. ASSUME NEW q \in Runs, handler'[h].pc \in OwnerPCs, q # handler'[h].run,
                   SameTask(q, handler'[h].run)
            PROVE  ~IsActive(rows'[q])
        <5>1. /\ handler'[h].run = handler[h].run
              /\ handler[h].pc \in OwnerPCs \/ SelectActive(h)
          BY <1>2, <2>1, <4>1, PCStep
        <5>2. CASE handler[h].pc \in OwnerPCs
          BY <1>2, <2>1, <4>1, <5>1, <5>2, RowsOwned DEF Alone, RunOf
        <5>3. CASE SelectActive(h) /\ handler[h].pc \notin OwnerPCs
          <6>1. rows' = rows /\ handler[h].run \in Runs
            BY <1>1, <5>3, HandlerFacts DEF SelectActive
          <6>2. \/ ActiveRuns(RunOf(h)) = {}
                \/ RunOf(h) \in ActiveRuns(RunOf(h))
                \/ GiveUp(h)
            BY <5>3 DEF SelectActive, IsLatest
          <6>3. ~GiveUp(h)
            BY <1>1, <4>1 DEF GiveUp, Stop, Idle, Goroutine, OwnerPCs, EndPCs
          <6> QED
            BY <2>1, <4>1, <5>1, <6>1, <6>2, <6>3
               DEF ActiveRuns, OneActiveTask, SameTask, RunOf
        <5> QED BY <5>1, <5>2, <5>3
      <4>2. ~Retrying(h)'
        BY <1>2, <2>1, PCStep DEF Retrying
      <4> QED BY <3>2, <4>1, <4>2 DEF Alone, RunOf, SameTask
    <3>3. CASE o # h
      <4>1. handler'[o] = handler[o]
        BY <1>2, <2>1, <3>3, PCStep
      <4>2. handler[o].pc \in OwnerPCs => rows' = rows
        <5>1. OwnerPCs \subseteq SlotPCs
          BY DEF OwnerPCs, EndPCs, SlotPCs
        <5> QED BY <1>2, <2>1, <3>3, <5>1, RowsOwned, OneHolder
      <4> QED BY <3>1, <4>1, <4>2 DEF Alone, Retrying, RunOf, SameTask
    <3> QED BY <3>2, <3>3
  <2> QED BY <2>2, <2>3 DEF OneActiveInv
<1>3. ASSUME NEW h \in Handlers, NEW r \in Runs, Request(h, p, r) PROVE OneActiveInv'
  <2>1. UNCHANGED rows /\ handler' = [handler EXCEPT ![h] = Goroutine("acquire", p, r)]
    BY <1>3 DEF Request, Begin
  <2>2. \A o \in Handlers : handler'[o] = handler[o] \/ handler'[o].pc = "acquire"
    BY <1>1, <2>1 DEF Goroutine
  <2> QED
    BY <2>1, <2>2 DEF OneActiveInv, OneActiveTask, Alone, Retrying, RunOf, SameTask,
       OwnerPCs, EndPCs
<1>4. ASSUME NEW h \in Handlers, Expire(h) PROVE OneActiveInv'
  <2>1. UNCHANGED rows /\ handler' = [handler EXCEPT ![h] = [@ EXCEPT !.live = FALSE]]
    BY <1>4 DEF Expire
  <2>2. \A o \in Handlers :
          handler'[o].pc = handler[o].pc /\ handler'[o].run = handler[o].run
    BY <1>1, <2>1, FieldFacts
  <2> QED BY <2>1, <2>2 DEF OneActiveInv, OneActiveTask, Alone, Retrying, RunOf, SameTask
<1>5. ASSUME UNCHANGED handler,
             \A r \in Runs : IsActive(rows'[r]) => IsActive(rows[r])
      PROVE  OneActiveInv'
  BY <1>5 DEF OneActiveInv, OneActiveTask, Alone, Retrying, RunOf, SameTask
<1>6. ASSUME NEW r \in Runs, CancelTask(r) PROVE OneActiveInv'
  <2>1. \A row \in Row : IsActive(CancelledByRequest(row)) => IsActive(row)
    BY DEF Row, IsActive, ActiveStatuses, CancelledByRequest
  <2> QED BY <1>1, <1>5, <1>6, <2>1 DEF CancelTask
<1>7. CASE Restart(p)
  <2>1. \A row \in Row : IsActive(Recovered(row)) => IsActive(row)
    BY DEF Recovered
  <2> QED BY <1>1, <1>5, <1>7, <2>1 DEF Restart
<1>8. CASE Crash(p)
  <2>1. UNCHANGED rows /\ \A o \in Handlers : handler'[o] \in {handler[o], Idle}
    BY <1>8 DEF Crash
  <2> QED
    BY <2>1 DEF OneActiveInv, OneActiveTask, Alone, Retrying, RunOf, SameTask,
       OwnerPCs, EndPCs,
       Idle, Goroutine
<1>9. CASE UNCHANGED vars
  BY <1>5, <1>9 DEF vars
<1>10. \A h \in Handlers, r \in Runs : ~RetryTaskRun(h, p, r)
  BY DEF RetryTaskRun
<1> QED
  BY <1>2, <1>3, <1>4, <1>6, <1>7, <1>8, <1>9, <1>10 DEF Next

(* README.md:89: at any time a user has at most one pending or running task   *)
(* of a task type.  It takes one replica, one slot and no retry: run          *)
(* task_two_active shows two requests getting past the SELECT together.       *)
THEOREM OneActiveTaskAlone ==
  ASSUME "retry" \notin Environment, MaxConcurrentTasks = 1, NEW p, Replicas = {p}
  PROVE  Spec => []OneActiveTask
<1>1. Init => OneActiveInv
  BY DEF Init, NoRow, Idle, Goroutine, OneActiveInv, OneActiveTask, IsActive, ActiveStatuses,
     Alone, Retrying, OwnerPCs, EndPCs
<1>2. OneActiveInv => OneActiveTask
  BY DEF OneActiveInv
<1>3. TypeOK /\ SlotsAccounted /\ OneActiveInv /\ [Next]_vars => OneActiveInv'
  BY OneActiveStep
<1> QED BY <1>1, <1>2, <1>3, TypeCorrect, SlotsAlwaysAccounted, PTL DEF Spec
--------------------------------------------------------------------------------
(* A cancelled task has no effect.                                            *)

LEMMA SavedFields ==
  ASSUME NEW g \in HandlerRecord
  PROVE  /\ \A x : /\ [g EXCEPT !.pc = x].live = g.live
                  /\ [g EXCEPT !.pc = x].sawCancel = g.sawCancel
         /\ [g EXCEPT !.live = FALSE].live = FALSE
         /\ /\ [g EXCEPT !.step = @ + 1].live = g.live
            /\ [g EXCEPT !.step = @ + 1].sawCancel = g.sawCancel
         /\ \A x : /\ [g EXCEPT !.step = @ + 1, !.sawCancel = x].live = g.live
                  /\ [g EXCEPT !.step = @ + 1, !.sawCancel = x].sawCancel = x
BY DEF HandlerRecord

(* No goroutine with a live context has passed a checkpoint of a run whose    *)
(* cancellation had been answered.                                            *)
CheckedInTime == \A h \in Handlers : handler[h].sawCancel => ~handler[h].live

(* A step of a goroutine, but for the checkpoint.                             *)
LEMMA KeepsWhatItSaw ==
  ASSUME TypeOK, NEW h \in Handlers, HandlerStep(h), ~CheckCancelled(h)
  PROVE  \E g :
           /\ handler' = [handler EXCEPT ![h] = g]
           /\ \/ g.sawCancel = FALSE
              \/ g.sawCancel = handler[h].sawCancel /\ g.live = handler[h].live
<1>1. handler[h] \in HandlerRecord
  BY DEF TypeOK
<1> DEFINE Kept == \E g :
              /\ handler' = [handler EXCEPT ![h] = g]
              /\ \/ g.sawCancel = FALSE
                 \/ g.sawCancel = handler[h].sawCancel /\ g.live = handler[h].live
<1>2. ASSUME NEW pc, Goto(h, pc) PROVE Kept
  <2> DEFINE g == [handler[h] EXCEPT !.pc = pc]
  <2>1. handler' = [handler EXCEPT ![h] = g]
    BY <1>2 DEF Goto
  <2>2. g.sawCancel = handler[h].sawCancel /\ g.live = handler[h].live
    BY <1>1, SavedFields
  <2> HIDE DEF g
  <2> QED BY <2>1, <2>2
<1>3. Stop(h) => Kept
  <2>1. Idle.sawCancel = FALSE
    BY DEF Idle, Goroutine
  <2> QED BY <2>1 DEF Stop
<1>4. ASSUME NextStep(h) PROVE Kept
  <2>1. handler' = [handler EXCEPT ![h] = [handler[h] EXCEPT !.step = @ + 1]]
    BY <1>4 DEF NextStep
  <2> QED BY <1>1, <2>1, SavedFields
<1>5. FinishTask(h) => Kept
  <2>1. \A p : Goroutine("return", p, None).sawCancel = FALSE
    BY DEF Goroutine
  <2> QED BY <2>1 DEF FinishTask
<1> HIDE DEF Kept
<1>6. RetryTask(h) \/ RetryToPending(h) => Kept
  BY <1>2, <1>3 DEF RetryTask, RetryToPending
<1>7. AcquireSlot(h) => Kept
  BY <1>2, <1>3 DEF AcquireSlot
<1>8. SelectActive(h) => Kept
  BY <1>2, <1>3 DEF SelectActive, GiveUp
<1>9. InsertRow(h) \/ Reread(h) \/ Claim(h) => Kept
  BY <1>2, <1>3 DEF InsertRow, Reread, Claim, GiveUp
<1>10. SavePartial(h) \/ Effect(h) \/ MarkFeedbackProcessing(h) => Kept
  BY <1>4 DEF SavePartial, Effect, MarkFeedbackProcessing
<1>11. UpsertFeedback(h) \/ MarkFeedbackFailed(h) => Kept
  BY <1>2, <1>4 DEF UpsertFeedback, MarkFeedbackFailed
<1>12. Return(h) => Kept
  BY <1>3 DEF Return, GiveUp
<1> QED
  BY <1>5, <1>6, <1>7, <1>8, <1>9, <1>10, <1>11, <1>12 DEF HandlerStep, Kept

LEMMA CheckedStep ==
  ASSUME "dbError" \notin Environment
  PROVE  TypeOK /\ CancellationSticks /\ CheckedInTime /\ [Next]_vars => CheckedInTime'
<1> SUFFICES ASSUME TypeOK, CancellationSticks, CheckedInTime, [Next]_vars
             PROVE  CheckedInTime'
  OBVIOUS
<1>1. handler \in [Handlers -> HandlerRecord]
  BY DEF TypeOK
<1>2. ASSUME NEW h \in Handlers, NEW g, handler' = [handler EXCEPT ![h] = g],
             g.sawCancel => ~g.live
      PROVE  CheckedInTime'
  <2>1. \A o \in Handlers : handler'[o] = IF o = h THEN g ELSE handler[o]
    BY <1>1, <1>2
  <2> QED BY <1>2, <2>1 DEF CheckedInTime
<1>3. ASSUME NEW h \in Handlers, HandlerStep(h), ~CheckCancelled(h) PROVE CheckedInTime'
  BY <1>2, <1>3, KeepsWhatItSaw DEF CheckedInTime
<1>4. ASSUME NEW h \in Handlers, CheckCancelled(h) PROVE CheckedInTime'
  <2>1. PICK ok \in Succeeds(h) :
          IF ok /\ TaskCancelled(rows[RunOf(h)])
          THEN Goto(h, "cancelled")
          ELSE handler' = [handler EXCEPT ![h].step = @ + 1,
                                          ![h].sawCancel = RunOf(h) \in acked]
    BY <1>4 DEF CheckCancelled
  <2>2. CASE ok /\ TaskCancelled(rows[RunOf(h)])
    <3>1. handler' = [handler EXCEPT ![h] = [handler[h] EXCEPT !.pc = "cancelled"]]
      BY <2>1, <2>2 DEF Goto
    <3> QED BY <1>1, <1>2, <3>1, SavedFields DEF CheckedInTime
  <2>3. CASE ~(ok /\ TaskCancelled(rows[RunOf(h)]))
    <3>1. handler' = [handler EXCEPT ![h] =
                        [handler[h] EXCEPT !.step = @ + 1,
                                           !.sawCancel = RunOf(h) \in acked]]
      BY <2>1, <2>3
    <3>2. handler[h].live => RunOf(h) \notin acked
      BY <2>3 DEF Succeeds, TaskCancelled, CancellationSticks
    <3> DEFINE g == [handler[h] EXCEPT !.step = @ + 1, !.sawCancel = RunOf(h) \in acked]
    <3>3. g.live = handler[h].live /\ g.sawCancel = (RunOf(h) \in acked)
      BY <1>1, SavedFields
    <3> HIDE DEF g
    <3> QED BY <1>2, <3>1, <3>2, <3>3 DEF g
  <2> QED BY <2>2, <2>3
<1>5. ASSUME NEW h \in Handlers, Expire(h) PROVE CheckedInTime'
  <2>1. handler' = [handler EXCEPT ![h] = [handler[h] EXCEPT !.live = FALSE]]
    BY <1>5 DEF Expire
  <2> QED BY <1>1, <1>2, <2>1, SavedFields
<1>6. ASSUME NEW h \in Handlers, NEW p \in Replicas, NEW r \in Runs,
             Request(h, p, r) \/ RetryTaskRun(h, p, r)
      PROVE  CheckedInTime'
  BY <1>2, <1>6 DEF Request, RetryTaskRun, Begin, Goroutine
<1>7. ASSUME NEW p \in Replicas, Crash(p) PROVE CheckedInTime'
  <2>1. \A h \in Handlers : handler'[h] = Idle \/ handler'[h] = handler[h]
    BY <1>7 DEF Crash
  <2> QED BY <2>1 DEF CheckedInTime, Idle, Goroutine
<1>8. CASE UNCHANGED handler
  BY <1>8 DEF CheckedInTime
<1> QED
  BY <1>3, <1>4, <1>5, <1>6, <1>7, <1>8 DEF Next, vars, CancelTask, Restart

(* A task whose cancellation a client was told of before the task's last      *)
(* checkpoint never calls the agent and never writes results, as long as the  *)
(* checkpoint can read the row: taskCancelled takes an error for "no".        *)
THEOREM NoEffectAfterCancelAlways ==
  ASSUME "dbError" \notin Environment
  PROVE  Spec => []NoEffectAfterCancel
<1>1. Init => CheckedInTime
  BY DEF Init, CheckedInTime, Idle, Goroutine
<1>2. CheckedInTime => NoEffectAfterCancel
  BY DEF CheckedInTime, NoEffectAfterCancel
<1>3. TypeOK /\ CancellationSticks /\ CheckedInTime /\ [Next]_vars => CheckedInTime'
  BY CheckedStep
<1> QED BY <1>1, <1>2, <1>3, TypeCorrect, CancellationKept, PTL DEF Spec
--------------------------------------------------------------------------------
(* No row stays running unexplained.                                          *)

ExecPCs == {"work"} \cup EndPCs

(* A goroutine that executes a run goes on with it until it finishes it.      *)
LEMMA GoesOn ==
  ASSUME TypeOK, NEW h \in Handlers, HandlerStep(h)
  PROVE  /\ \A o \in Handlers : o # h => handler'[o] = handler[o]
         /\ handler[h].pc \in ExecPCs =>
              \/ FinishTask(h)
              \/ handler'[h].pc \in ExecPCs /\ handler'[h].run = handler[h].run
         /\ Claim(h) => \/ handler'[h].pc = "work" /\ handler'[h].run = handler[h].run
                        \/ UNCHANGED rows
         /\ handler'[h].pc = "cancelled" =>
              CheckCancelled(h) /\ handler'[h].run = handler[h].run
         /\ handler'[h].pc = "duplicate" => UpsertFeedback(h)
<1> DEFINE g == handler[h]
<1>1. g \in HandlerRecord /\ handler \in [Handlers -> HandlerRecord]
  BY DEF TypeOK
<1>2. ASSUME NEW f, handler' = [handler EXCEPT ![h] = f]
      PROVE  handler'[h] = f /\ \A o \in Handlers : o # h => handler'[o] = handler[o]
  BY <1>1, <1>2
<1>3. ASSUME NEW pc, Goto(h, pc)
      PROVE  /\ handler'[h].pc = pc /\ handler'[h].run = g.run
             /\ \A o \in Handlers : o # h => handler'[o] = handler[o]
  BY <1>3, GotoDone
<1>4. ASSUME Stop(h)
      PROVE  /\ handler'[h].pc = "idle"
             /\ \A o \in Handlers : o # h => handler'[o] = handler[o]
  BY <1>4, StopDone
<1>5. ASSUME NextStep(h)
      PROVE  /\ handler'[h].pc = g.pc /\ handler'[h].run = g.run
             /\ \A o \in Handlers : o # h => handler'[o] = handler[o]
  BY <1>5, NextStepDone
<1>6. ASSUME NEW do, AtStep(h, do) PROVE g.pc = "work"
  BY <1>6 DEF AtStep
<1>15. Claim(h) => g.pc = "claim"
  BY DEF Claim
<1> USE DEF ExecPCs, EndPCs
<1>7. CASE RetryTask(h) \/ RetryToPending(h) \/ AcquireSlot(h)
  <2>1. \/ g.pc = "retryRead" /\ (Goto(h, "retryPend") \/ Stop(h))
        \/ g.pc = "retryPend" /\ (Goto(h, "acquire") \/ Stop(h))
        \/ g.pc = "acquire" /\ (Goto(h, "select") \/ Stop(h))
    BY <1>7 DEF RetryTask, RetryToPending, AcquireSlot
  <2> QED BY <1>3, <1>4, <1>15, <2>1
<1>8. CASE SelectActive(h) \/ InsertRow(h) \/ Reread(h)
  <2>1. /\ g.pc \in {"select", "insert", "reread"}
        /\ \/ Goto(h, "insert") \/ Goto(h, "claim") \/ Goto(h, "reread")
           \/ Stop(h)
    BY <1>8 DEF SelectActive, InsertRow, Reread, GiveUp
  <2> QED BY <1>3, <1>4, <1>15, <2>1
<1>9. CASE Claim(h)
  <2>1. g.pc = "claim" /\ (Goto(h, "work") \/ (Stop(h) /\ UNCHANGED rows))
    BY <1>9 DEF Claim, GiveUp
  <2> QED BY <1>3, <1>4, <2>1
<1>10. CASE CheckCancelled(h)
  <2>1. CASE Goto(h, "cancelled")
    BY GotoDone, <1>6, <1>10, <2>1 DEF CheckCancelled, Claim
  <2>2. CASE handler' = [handler EXCEPT ![h].step = @ + 1,
                                        ![h].sawCancel = RunOf(h) \in acked]
    <3> DEFINE f == [g EXCEPT !.step = @ + 1, !.sawCancel = RunOf(h) \in acked]
    <3>1. handler' = [handler EXCEPT ![h] = f]
      BY <2>2
    <3>2. f.pc = g.pc /\ f.run = g.run
      BY <1>1, FieldFacts
    <3>3. g.pc = "work"
      BY <1>6, <1>10 DEF CheckCancelled
    <3> HIDE DEF f
    <3> QED BY <1>2, <3>1, <3>2, <3>3 DEF Claim
  <2> QED BY <1>10, <2>1, <2>2 DEF CheckCancelled
<1>11. CASE SavePartial(h) \/ MarkFeedbackProcessing(h) \/ Effect(h)
  BY NextStepDone, <1>6, <1>11 DEF SavePartial, MarkFeedbackProcessing, Effect, Claim
<1>12. CASE UpsertFeedback(h)
  <2>1. g.pc = "work" /\ (NextStep(h) \/ Goto(h, "duplicate"))
    BY <1>6, <1>12 DEF UpsertFeedback
  <2> QED BY <1>3, <1>5, <1>12, <1>15, <2>1
<1>16. CASE MarkFeedbackFailed(h)
  <2>1. g.pc = "work" /\ Goto(h, "failed")
    BY <1>6, <1>16 DEF MarkFeedbackFailed
  <2> QED BY <1>3, <1>15, <2>1
<1>13. CASE FinishTask(h)
  <2>1. handler' = [handler EXCEPT ![h] = Goroutine("return", g.home, None)]
    BY <1>13 DEF FinishTask
  <2>2. Goroutine("return", g.home, None).pc = "return"
    BY DEF Goroutine
  <2>3. g.pc # "claim"
    BY <1>13 DEF FinishTask, Endings
  <2> QED BY <1>2, <1>13, <2>1, <2>2, <2>3 DEF Claim
<1>14. CASE Return(h)
  BY StopDone, <1>14 DEF Return, GiveUp, Claim
<1> QED
  BY <1>7, <1>8, <1>9, <1>10, <1>11, <1>12, <1>13, <1>14, <1>16 DEF HandlerStep

(* Only a task that has passed a checkpoint of a cancelled run ends as        *)
(* cancelled.                                                                 *)
LEMMA CancelledEnding ==
  ASSUME TypeOK, NEW h \in Handlers, "cancelled" \in Endings(h)
  PROVE  handler[h].pc = "cancelled"
<1> SUFFICES ASSUME handler[h].pc = "work" PROVE FALSE
  BY DEF Endings
<1>1. \A k \in DOMAIN ArticleSteps : "cancelled" \notin ArticleSteps[k].exits
  BY DEF ArticleSteps, Step
<1>2. \A k \in DOMAIN FeedbackSteps : "cancelled" \notin FeedbackSteps[k].exits
  BY DEF FeedbackSteps, Step
<1>3. \A k \in DOMAIN RebuildSteps : "cancelled" \notin RebuildSteps[k].exits
  BY DEF RebuildSteps, Step
<1> QED BY <1>1, <1>2, <1>3 DEF Endings, Outcomes, Steps, StepOf

(* A row, or a goroutine, that is cancelled belongs to a run whose            *)
(* cancellation a client was told of.                                         *)
CancelKnown ==
  /\ \A r \in Runs : TaskCancelled(rows[r]) => r \in acked
  /\ \A h \in Handlers : handler[h].pc = "cancelled" => handler[h].run \in acked

LEMMA CancelledRows ==
  ASSUME NEW row \in Row
  PROVE  /\ \A id \in Nat : TaskCancelled(Inserted(row, id)) => TaskCancelled(row)
         /\ \A s \in {"pending", "running"} :
              TaskCancelled(Updated(row, s, FALSE)) => TaskCancelled(row)
         /\ \A s \in FinalStatuses :
              TaskCancelled(Marked(row, s)) => s = "cancelled" \/ TaskCancelled(row)
         /\ TaskCancelled(Recovered(row)) => TaskCancelled(row)
BY DEF Row, TaskCancelled, Inserted, Updated, Marked, Recovered, FinalStatuses

(* What a step of a goroutine makes of each row, but for the final status.    *)
LEMMA RowsUnfinished ==
  ASSUME TypeOK, NEW h \in Handlers, HandlerStep(h), ~FinishTask(h), NEW r \in Runs
  PROVE  \/ rows'[r] = rows[r]
         \/ rows'[r] = Inserted(rows[r], NextId)
         \/ rows'[r] = Updated(rows[r], "pending", FALSE)
         \/ /\ rows'[r] = Updated(rows[r], "running", FALSE)
            /\ r = handler[h].run
            /\ (Claim(h) /\ rows' # rows) \/ SavePartial(h)
<1>1. rows \in [Runs -> Row]
  BY DEF TypeOK
<1>2. CASE RetryToPending(h)
  BY <1>1, <1>2 DEF RetryToPending
<1>3. CASE InsertRow(h)
  BY <1>1, <1>3 DEF InsertRow
<1>4. CASE Claim(h)
  BY <1>1, <1>4 DEF Claim, RunOf
<1>5. CASE SavePartial(h)
  BY <1>1, <1>5 DEF SavePartial, RunOf
<1> QED
  BY <1>1, <1>2, <1>3, <1>4, <1>5 DEF HandlerStep, RetryTask, AcquireSlot,
     SelectActive, Reread, CheckCancelled, UpsertFeedback,
     MarkFeedbackProcessing, MarkFeedbackFailed, Effect, Return

LEMMA CancelKnownStep == TypeOK /\ CancelKnown /\ [Next]_vars => CancelKnown'
<1> SUFFICES ASSUME TypeOK, CancelKnown, [Next]_vars PROVE CancelKnown'
  OBVIOUS
<1>1. rows \in [Runs -> Row] /\ handler \in [Handlers -> HandlerRecord]
  BY DEF TypeOK
<1>2. ASSUME NEW h \in Handlers, HandlerStep(h) PROVE CancelKnown'
  <2>1. acked' = acked
    BY <1>2 DEF HandlerStep, RetryTask, RetryToPending, AcquireSlot, SelectActive,
       InsertRow, Reread, Claim, CheckCancelled, SavePartial, UpsertFeedback,
       MarkFeedbackProcessing, MarkFeedbackFailed, Effect, FinishTask, Return
  <2>2. ASSUME NEW r \in Runs, TaskCancelled(rows'[r]) PROVE r \in acked
    <3>1. NextId \in Nat /\ rows[r] \in Row
      BY <1>1, NextIdFact, ConstantsAssumption
    <3>2. CASE ~FinishTask(h)
      BY <1>2, <2>2, <3>1, <3>2, RowsUnfinished, CancelledRows DEF CancelKnown
    <3>3. CASE FinishTask(h)
      <4>1. PICK s \in Endings(h) :
              rows' = [rows EXCEPT ![Finished(h)] = Marked(@, s)] \/ UNCHANGED rows
        BY <3>3 DEF FinishTask
      <4>2. CASE s = "cancelled"
        <5>1. handler[h].pc = "cancelled" /\ Finished(h) = handler[h].run
          BY <4>1, <4>2, CancelledEnding DEF Finished, RunOf
        <5> QED BY <1>1, <2>2, <4>1, <5>1 DEF CancelKnown
      <4>3. CASE s # "cancelled"
        <5>1. s \in FinalStatuses
          BY <4>1, EndingsFact, ConstantsAssumption
        <5>2. rows'[r] = rows[r] \/ rows'[r] = Marked(rows[r], s)
          BY <1>1, <4>1
        <5> QED BY <2>2, <3>1, <4>3, <5>1, <5>2, CancelledRows DEF CancelKnown
      <4> QED BY <4>2, <4>3
    <3> QED BY <3>2, <3>3
  <2>3. ASSUME NEW o \in Handlers, handler'[o].pc = "cancelled"
        PROVE  handler'[o].run \in acked
    <3>1. CASE o # h
      BY <1>2, <2>3, <3>1, GoesOn DEF CancelKnown
    <3>2. CASE o = h
      <4>1. CheckCancelled(h) /\ handler'[h].run = handler[h].run
        BY <1>2, <2>3, <3>2, GoesOn
      <4>2. CASE TaskCancelled(rows[RunOf(h)])
        <5>1. RunOf(h) \in Runs
          BY <1>1, <4>1, HandlerFacts DEF CheckCancelled, AtStep, RunOf
        <5> QED BY <3>2, <4>1, <4>2, <5>1 DEF CancelKnown, RunOf
      <4>3. CASE ~TaskCancelled(rows[RunOf(h)])
        <5>1. handler[h].pc = "work"
          BY <4>1 DEF CheckCancelled, AtStep
        <5>2. handler' = [handler EXCEPT ![h] =
                [handler[h] EXCEPT !.step = @ + 1, !.sawCancel = RunOf(h) \in acked]]
          BY <4>1, <4>3 DEF CheckCancelled
        <5>3. handler'[h].pc = handler[h].pc
          BY <1>1, <5>2, FieldFacts
        <5> QED BY <2>3, <3>2, <5>1, <5>3
      <4> QED BY <4>2, <4>3
    <3> QED BY <3>1, <3>2
  <2> QED BY <2>1, <2>2, <2>3 DEF CancelKnown
<1>3. ASSUME NEW r \in Runs, CancelTask(r) PROVE CancelKnown'
  BY <1>1, <1>3 DEF CancelTask, CancelKnown
<1>4. ASSUME NEW p \in Replicas, Restart(p) PROVE CancelKnown'
  <2>1. \A r \in Runs : rows'[r] = rows[r] \/ rows'[r] = Recovered(rows[r])
    BY <1>4 DEF Restart
  <2>2. UNCHANGED <<handler, acked>>
    BY <1>4 DEF Restart
  <2> QED BY <1>1, <2>1, <2>2, CancelledRows DEF CancelKnown
<1>5. ASSUME UNCHANGED <<rows, acked>>,
             \A h \in Handlers :
               \/ handler'[h].pc # "cancelled"
               \/ handler'[h].pc = handler[h].pc /\ handler'[h].run = handler[h].run
      PROVE  CancelKnown'
  BY <1>5 DEF CancelKnown
<1>6. ASSUME NEW h \in Handlers, NEW p \in Replicas, NEW r \in Runs,
             Request(h, p, r) \/ RetryTaskRun(h, p, r)
      PROVE  CancelKnown'
  <2>1. UNCHANGED <<rows, acked>>
    BY <1>6 DEF Request, RetryTaskRun, Begin
  <2>2. \A o \in Handlers : handler'[o] = handler[o] \/ handler'[o].pc # "cancelled"
    BY <1>1, <1>6 DEF Request, RetryTaskRun, Begin, Goroutine
  <2> QED BY <1>5, <2>1, <2>2
<1>7. ASSUME NEW h \in Handlers, Expire(h) PROVE CancelKnown'
  <2>1. /\ UNCHANGED <<rows, acked>>
        /\ handler' = [handler EXCEPT ![h] = [handler[h] EXCEPT !.live = FALSE]]
    BY <1>7 DEF Expire
  <2>2. \A o \in Handlers : handler'[o].pc = handler[o].pc /\ handler'[o].run = handler[o].run
    BY <1>1, <2>1, FieldFacts
  <2> QED BY <1>5, <2>1, <2>2
<1>8. ASSUME NEW p \in Replicas, Crash(p) PROVE CancelKnown'
  BY <1>5, <1>8 DEF Crash, Idle, Goroutine
<1>9. CASE UNCHANGED vars
  BY <1>5, <1>9 DEF vars
<1> QED BY <1>2, <1>3, <1>4, <1>6, <1>7, <1>8, <1>9 DEF Next

LEMMA OrphansStep ==
  TypeOK /\ CancelKnown /\ OrphansExplained /\ [Next]_vars => OrphansExplained'
<1> SUFFICES ASSUME TypeOK, CancelKnown, OrphansExplained, [Next]_vars,
                    NEW r \in Runs, rows'[r].status = "running",
                    \A h \in Handlers : ~Executes(h, r)'
             PROVE  (\E p \in Replicas : ~up'[p]) \/ r \in lost' \cup acked'
  BY DEF OrphansExplained
<1>1. rows \in [Runs -> Row] /\ handler \in [Handlers -> HandlerRecord] /\ rows[r] \in Row
  BY DEF TypeOK
<1>2. ASSUME rows[r].status = "running", \A h \in Handlers : ~Executes(h, r), UNCHANGED up,
             lost \subseteq lost', acked \subseteq acked'
      PROVE  (\E p \in Replicas : ~up'[p]) \/ r \in lost' \cup acked'
  BY <1>2 DEF OrphansExplained
<1>3. ASSUME NEW h \in Handlers, HandlerStep(h)
      PROVE  (\E p \in Replicas : ~up'[p]) \/ r \in lost' \cup acked'
  <2>1. UNCHANGED <<up, acked>> /\ lost \subseteq lost'
    BY <1>3 DEF HandlerStep, RetryTask, RetryToPending, AcquireSlot, SelectActive,
       InsertRow, Reread, Claim, CheckCancelled, SavePartial, UpsertFeedback,
       MarkFeedbackProcessing, MarkFeedbackFailed, Effect, FinishTask, Return
  <2>2. handler[h].pc \in ExecPCs /\ handler[h].run = r => FinishTask(h)
    BY <1>3, GoesOn DEF Executes, ExecPCs
  <2>3. ASSUME \A o \in Handlers : ~Executes(o, r), rows[r].status # "running" PROVE FALSE
    <3>1. CASE FinishTask(h)
      <4>1. PICK s \in Endings(h) :
              rows' = [rows EXCEPT ![Finished(h)] = Marked(@, s)] \/ UNCHANGED rows
        BY <3>1 DEF FinishTask
      <4>2. s # "running"
        BY EndingsFact, ConstantsAssumption DEF FinalStatuses
      <4>3. Marked(rows[r], s).status # "running"
        BY <1>1, <4>2 DEF Marked, Row
      <4> QED BY <1>1, <2>3, <4>1, <4>3
    <3>2. CASE ~FinishTask(h)
      <4>1. /\ Inserted(rows[r], NextId).status # "running"
            /\ Updated(rows[r], "pending", FALSE).status # "running"
        BY <1>1, <2>3 DEF Inserted, Updated, Row
      <4>2. r = handler[h].run /\ ((Claim(h) /\ rows' # rows) \/ SavePartial(h))
        BY <1>3, <2>3, <3>2, <4>1, RowsUnfinished
      <4>3. ~SavePartial(h)
        BY <2>3, <4>2 DEF SavePartial, AtStep, Executes
      <4>4. handler'[h].pc = "work" /\ handler'[h].run = r
        BY <1>3, <4>2, <4>3, GoesOn
      <4> QED BY <4>4 DEF Executes
    <3> QED BY <3>1, <3>2
  <2>4. ASSUME NEW o \in Handlers, Executes(o, r) PROVE r \in lost'
    <3>1. o = h
      BY <1>3, <2>4, GoesOn DEF Executes
    <3>2. FinishTask(h) /\ RunOf(h) = r
      BY <2>2, <2>4, <3>1 DEF Executes, ExecPCs, RunOf
    <3>3. PICK s \in Endings(h), ok \in Succeeds(h) :
            /\ rows' = IF ok THEN [rows EXCEPT ![Finished(h)] = Marked(@, s)] ELSE rows
            /\ lost' = IF ok /\ Finished(h) = RunOf(h) THEN lost ELSE lost \cup {RunOf(h)}
      BY <3>2 DEF FinishTask
    <3>4. CASE ok /\ Finished(h) = RunOf(h)
      <4>1. s # "running"
        BY EndingsFact, ConstantsAssumption DEF FinalStatuses
      <4>2. rows'[r] = Marked(rows[r], s)
        BY <1>1, <3>2, <3>3, <3>4
      <4> QED BY <1>1, <4>1, <4>2 DEF Marked, Row
    <3> QED BY <3>2, <3>3, <3>4
  <2> QED BY <1>2, <2>1, <2>3, <2>4
<1>4. ASSUME NEW p \in Replicas, Restart(p)
      PROVE  (\E q \in Replicas : ~up'[q]) \/ r \in lost' \cup acked'
  <2>1. CASE rows' = [q \in Runs |-> Recovered(rows[q])]
    <3>1. rows'[r] = Recovered(rows[r])
      BY <2>1
    <3>2. TaskCancelled(rows[r])
      BY <1>1, <3>1 DEF Recovered, Row, TaskCancelled, IsActive, ActiveStatuses
    <3> QED BY <1>4, <3>2 DEF CancelKnown, Restart
  <2>2. CASE lost' = lost \cup {q \in Runs : rows[q].status = "running"} /\ UNCHANGED rows
    BY <2>2
  <2> QED BY <1>4, <2>1, <2>2 DEF Restart
<1>5. ASSUME NEW p \in Replicas, Crash(p) PROVE \E q \in Replicas : ~up'[q]
  BY <1>5 DEF Crash, TypeOK
<1>6. ASSUME NEW q \in Runs, CancelTask(q)
      PROVE  (\E p \in Replicas : ~up'[p]) \/ r \in lost' \cup acked'
  <2>1. r = q \/ rows'[r] = rows[r]
    BY <1>1, <1>6 DEF CancelTask
  <2> QED BY <1>2, <1>6, <2>1 DEF CancelTask, Executes
<1>7. ASSUME NEW h \in Handlers, NEW p \in Replicas, NEW q \in Runs,
             Request(h, p, q) \/ RetryTaskRun(h, p, q)
      PROVE  (\E o \in Replicas : ~up'[o]) \/ r \in lost' \cup acked'
  <2>1. /\ handler[h].pc = "idle" /\ UNCHANGED <<rows, up, lost, acked>>
        /\ \A o \in Handlers : o # h => handler'[o] = handler[o]
    BY <1>1, <1>7 DEF Request, RetryTaskRun, Begin
  <2>2. \A o \in Handlers : ~Executes(o, r)
    BY <2>1 DEF Executes, EndPCs
  <2> QED BY <1>2, <2>1, <2>2
<1>8. ASSUME NEW h \in Handlers, Expire(h)
      PROVE  (\E p \in Replicas : ~up'[p]) \/ r \in lost' \cup acked'
  <2>1. /\ UNCHANGED <<rows, up, lost, acked>>
        /\ handler' = [handler EXCEPT ![h] = [handler[h] EXCEPT !.live = FALSE]]
    BY <1>8 DEF Expire
  <2>2. \A o \in Handlers : handler'[o].pc = handler[o].pc /\ handler'[o].run = handler[o].run
    BY <1>1, <2>1, FieldFacts
  <2> QED BY <1>2, <2>1, <2>2 DEF Executes
<1>9. CASE UNCHANGED vars
  BY <1>2, <1>9 DEF vars, Executes
<1> QED BY <1>3, <1>4, <1>5, <1>6, <1>7, <1>8, <1>9 DEF Next

(* A row is left running with no goroutine at work on it only while a replica *)
(* is down, or when a statement that the code does not repeat (the final      *)
(* status, the recovery at a restart) did not reach the row, or when a client *)
(* had cancelled the run, which the recovery then leaves alone.               *)
THEOREM OrphansAlwaysExplained == Spec => []OrphansExplained
<1>1. Init => CancelKnown /\ OrphansExplained
  BY DEF Init, CancelKnown, OrphansExplained, NoRow, TaskCancelled, Idle, Goroutine
<1> QED
  BY <1>1, TypeCorrect, CancelKnownStep, OrphansStep, PTL DEF Spec
--------------------------------------------------------------------------------
(* The life cycle of a run that is not disturbed.                             *)
Disturbed == acked \cup overlapped

(* What the status of such a run may be where its goroutine is.               *)
Expected(pc) ==
  IF pc \in {"retryRead", "retryPend"} THEN RetryableStatuses
  ELSE IF pc \in {"acquire", "select"} THEN RetryableStatuses \cup {"absent"}
  ELSE IF pc = "insert" THEN {"absent", "failed", "partially_completed"}
  ELSE IF pc \in {"reread", "claim"} THEN RetryableStatuses
  ELSE IF pc \in {"work"} \cup EndPCs THEN {"running"}
  ELSE Statuses \cup {"absent"}

AsExpected(h) ==
  handler[h].pc \notin {"idle", "return"} /\ RunOf(h) \notin Disturbed
    => rows[RunOf(h)].status \in Expected(handler[h].pc)

(* Two goroutines on one run, and a duplicate's other run, are known of.      *)
PairsKnown ==
  \A g, h \in Handlers :
    g # h /\ RunOf(g) = RunOf(h) /\ RunOf(h) # None => RunOf(h) \in overlapped

DuplicatesKnown ==
  \A h \in Handlers : handler[h].pc = "duplicate" => Finished(h) \in {RunOf(h)} \cup overlapped

LifecycleInv ==
  /\ PairsKnown
  /\ DuplicatesKnown
  /\ \A h \in Handlers : AsExpected(h)

(* What the abstract specification allows the status of a run.                *)
CanGo(from, to) ==
  \/ from = "absent" /\ to = "pending"
  \/ Lifecycle!CanTransition(from, to)
  \/ from \in ActiveStatuses /\ to = "pending"

LifecycleStep ==
  /\ Disturbed \subseteq Disturbed'
  /\ \A r \in Runs : r \notin Disturbed' => CanGo(rows[r].status, rows'[r].status)

LEMMA UpdatedFacts ==
  ASSUME NEW row \in Row
  PROVE  /\ \A s \in {"pending", "running"} :
              Updated(row, s, FALSE) \in Row /\ Updated(row, s, FALSE).status = s
         /\ \A s \in FinalStatuses : Marked(row, s) \in Row /\ Marked(row, s).status = s
<1>1. \A s : Updated(row, s, FALSE).status = s /\ Marked(row, s).status = s
  BY DEF Row, Updated, Marked
<1>2. {"pending", "running"} \subseteq Statuses
  BY DEF Statuses, ActiveStatuses
<1> QED BY <1>1, <1>2, RowFacts

(* A goroutine keeps its run as long as it has one.                           *)
LEMMA RunKept ==
  ASSUME TypeOK, NEW h \in Handlers, HandlerStep(h)
  PROVE  \/ handler'[h].run = handler[h].run
         \/ handler'[h].run = None /\ handler'[h].pc \in {"idle", "return"}
<1>1. ASSUME NEW pc, Goto(h, pc) PROVE handler'[h].run = handler[h].run
  BY <1>1, GotoDone
<1>2. Stop(h) => handler'[h].run = None /\ handler'[h].pc = "idle"
  BY DEF TypeOK, Stop, Idle, Goroutine
<1>3. NextStep(h) => handler'[h].run = handler[h].run
  BY NextStepDone
<1>4. CASE CheckCancelled(h)
  <2>1. CASE Goto(h, "cancelled")
    BY <1>1, <2>1
  <2>2. CASE handler' = [handler EXCEPT ![h].step = @ + 1,
                                        ![h].sawCancel = RunOf(h) \in acked]
    BY <2>2, FieldFacts DEF TypeOK
  <2> QED BY <1>4, <2>1, <2>2 DEF CheckCancelled
<1>5. CASE FinishTask(h)
  BY <1>5 DEF FinishTask, Goroutine, TypeOK
<1>6. CASE RetryTask(h) \/ RetryToPending(h) \/ AcquireSlot(h)
  BY <1>1, <1>2, <1>6 DEF RetryTask, RetryToPending, AcquireSlot
<1>7. CASE SelectActive(h)
  BY <1>1, <1>2, <1>7 DEF SelectActive, GiveUp
<1>8. CASE InsertRow(h) \/ Reread(h) \/ Claim(h) \/ Return(h)
  BY <1>1, <1>2, <1>8 DEF InsertRow, Reread, Claim, Return, GiveUp
<1>9. CASE SavePartial(h) \/ UpsertFeedback(h) \/ MarkFeedbackProcessing(h)
             \/ MarkFeedbackFailed(h) \/ Effect(h)
  BY <1>1, <1>3, <1>9 DEF SavePartial, UpsertFeedback, MarkFeedbackProcessing,
     MarkFeedbackFailed, Effect
<1> QED BY <1>4, <1>5, <1>6, <1>7, <1>8, <1>9 DEF HandlerStep

LEMMA DisturbedGrows ==
  ASSUME NEW h \in Handlers, HandlerStep(h)
  PROVE  /\ overlapped \subseteq overlapped' /\ acked' = acked
         /\ overlapped' = overlapped \/ UpsertFeedback(h)
BY DEF HandlerStep, RetryTask, RetryToPending, AcquireSlot, SelectActive, InsertRow, Reread,
   Claim, CheckCancelled, SavePartial, UpsertFeedback, MarkFeedbackProcessing,
   MarkFeedbackFailed, Effect, FinishTask, Return

(* A goroutine writes to the row of its own run, or of a run known to have    *)
(* two writers.                                                               *)
LEMMA OtherRuns ==
  ASSUME TypeOK, LifecycleInv, NEW h \in Handlers, HandlerStep(h),
         NEW q \in Runs, q # RunOf(h), q \notin Disturbed
  PROVE  rows'[q] = rows[q]
<1>1. rows \in [Runs -> Row]
  BY DEF TypeOK
<1>2. CASE FinishTask(h)
  <2>1. Finished(h) # q
    BY DEF LifecycleInv, DuplicatesKnown, Disturbed, Finished
  <2> QED BY <1>1, <1>2, <2>1 DEF FinishTask
<1> QED
  BY <1>1, <1>2 DEF HandlerStep, RetryTask, RetryToPending, AcquireSlot, SelectActive,
     InsertRow, Reread, Claim, CheckCancelled, SavePartial, UpsertFeedback,
     MarkFeedbackProcessing, MarkFeedbackFailed, Effect, Return

(* What becomes of the row of a goroutine's run.                              *)
LEMMA OwnRun ==
  ASSUME TypeOK, LifecycleInv, NEW h \in Handlers, HandlerStep(h),
         RunOf(h) \notin Disturbed
  PROVE  /\ AsExpected(h)'
         /\ RunOf(h) \in Runs => CanGo(rows[RunOf(h)].status, rows'[RunOf(h)].status)
<1> DEFINE g == handler[h]
           r == RunOf(h)
           Good == /\ AsExpected(h)'
                   /\ r \in Runs => CanGo(rows[r].status, rows'[r].status)
<1>1. g \in HandlerRecord /\ rows \in [Runs -> Row]
  BY DEF TypeOK
<1>2. g.pc \notin {"idle", "return"} =>
        r \in Runs /\ rows[r] \in Row /\ rows[r].status \in Expected(g.pc)
  BY <1>1, HandlerFacts DEF LifecycleInv, AsExpected, RunOf
<1>3. ASSUME NEW s PROVE CanGo(s, s)
  BY DEF CanGo, Lifecycle!CanTransition
<1>4. ASSUME NEW pc, Goto(h, pc), UNCHANGED rows, rows[r].status \in Expected(pc) PROVE Good
  BY <1>3, <1>4, GotoDone DEF AsExpected, RunOf
<1>5. ASSUME Stop(h), UNCHANGED rows PROVE Good
  BY <1>3, <1>5, StopDone DEF AsExpected, RunOf
<1>6. ASSUME NextStep(h), UNCHANGED rows, g.pc = "work" PROVE Good
  BY <1>2, <1>3, <1>6, NextStepDone DEF AsExpected, RunOf
<1>7. ASSUME NEW row \in Row, rows' = [rows EXCEPT ![r] = row], r \in Runs,
             CanGo(rows[r].status, row.status), NEW pc, handler'[h].pc = pc,
             handler'[h].run = g.run, row.status \in Expected(pc)
      PROVE  Good
  <2>1. rows'[r] = row
    BY <1>1, <1>7
  <2> QED BY <1>7, <2>1 DEF AsExpected, RunOf
<1> SUFFICES Good
  OBVIOUS
<1> HIDE DEF Good
<1> USE DEF Expected
<1>8. CASE RetryTask(h)
  BY <1>2, <1>4, <1>5, <1>8 DEF RetryTask
<1>9. CASE RetryToPending(h)
  <2> DEFINE row == Updated(rows[r], "pending", FALSE)
  <2>1. CASE Stop(h) /\ UNCHANGED rows
    BY <1>5, <2>1
  <2>2. CASE rows' = [rows EXCEPT ![r] = row] /\ Goto(h, "acquire")
    <3>1. row \in Row /\ row.status = "pending"
      BY <1>2, <1>9, UpdatedFacts DEF RetryToPending
    <3>2. CanGo(rows[r].status, "pending")
      BY <1>2, <1>9 DEF RetryToPending, RetryableStatuses, CanGo, Lifecycle!CanTransition
    <3>3. row.status \in Expected("acquire") /\ CanGo(rows[r].status, row.status)
      BY <3>1, <3>2 DEF RetryableStatuses
    <3> HIDE DEF row
    <3> QED BY <1>2, <1>7, <1>9, <2>2, <3>1, <3>3, GotoDone DEF RetryToPending
  <2> QED BY <1>9, <2>1, <2>2 DEF RetryToPending
<1>10. CASE AcquireSlot(h)
  BY <1>2, <1>4, <1>5, <1>10 DEF AcquireSlot
<1>11. CASE SelectActive(h)
  <2>1. CASE Stop(h) /\ UNCHANGED rows
    BY <1>5, <2>1
  <2>2. CASE ActiveRuns(r) = {} /\ Goto(h, "insert")
    <3>1. ~IsActive(rows[r])
      BY <1>2, <1>11, <2>2 DEF SelectActive, ActiveRuns, SameTask
    <3>2. rows[r].status \in Expected("insert")
      BY <1>2, <1>11, <3>1 DEF SelectActive, IsActive, ActiveStatuses, RetryableStatuses
    <3> QED BY <1>4, <1>11, <2>2, <3>2 DEF SelectActive
  <2>3. CASE r \in ActiveRuns(r) /\ Goto(h, "claim")
    <3>1. IsActive(rows[r])
      BY <2>3 DEF ActiveRuns
    <3>2. rows[r].status \in Expected("claim")
      BY <1>2, <1>11, <3>1 DEF SelectActive, IsActive, ActiveStatuses, RetryableStatuses
    <3> QED BY <1>4, <1>11, <2>3, <3>2 DEF SelectActive
  <2> QED BY <1>11, <2>1, <2>2, <2>3 DEF SelectActive, GiveUp, IsLatest
<1>12. CASE InsertRow(h)
  <2> DEFINE row == Inserted(rows[r], NextId)
  <2>1. CASE Stop(h) /\ UNCHANGED rows
    BY <1>5, <2>1
  <2>2. CASE rows' = [rows EXCEPT ![r] = row] /\ Goto(h, "reread")
    <3>1. row \in Row
      BY <1>2, <1>12, RowFacts, NextIdFact, ConstantsAssumption DEF InsertRow
    <3>2. CanGo(rows[r].status, row.status) /\ row.status \in Expected("reread")
      BY <1>2, <1>3, <1>12 DEF InsertRow, Inserted, RetryableStatuses, CanGo
    <3> HIDE DEF row
    <3> QED BY <1>2, <1>7, <1>12, <2>2, <3>1, <3>2, GotoDone DEF InsertRow
  <2> QED BY <1>12, <2>1, <2>2 DEF InsertRow, GiveUp
<1>13. CASE Reread(h)
  BY <1>2, <1>4, <1>5, <1>13 DEF Reread, GiveUp
<1>14. CASE Claim(h)
  <2> DEFINE row == Updated(rows[r], "running", FALSE)
  <2>1. CASE Stop(h) /\ UNCHANGED rows
    BY <1>5, <2>1
  <2>2. CASE rows' = [rows EXCEPT ![r] = row] /\ Goto(h, "work")
    <3>1. row \in Row /\ row.status = "running"
      BY <1>2, <1>14, UpdatedFacts DEF Claim
    <3>2. CanGo(rows[r].status, "running")
      BY <1>2, <1>14 DEF Claim, RetryableStatuses, CanGo, Lifecycle!CanTransition
    <3>3. row.status \in Expected("work") /\ CanGo(rows[r].status, row.status)
      BY <3>1, <3>2
    <3> HIDE DEF row
    <3> QED BY <1>2, <1>7, <1>14, <2>2, <3>1, <3>3, GotoDone DEF Claim
  <2> QED BY <1>14, <2>1, <2>2 DEF Claim, GiveUp
<1>15. ASSUME NEW do, AtStep(h, do) PROVE g.pc = "work" /\ r \in Runs
  BY <1>2, <1>15 DEF AtStep
<1>16. CASE CheckCancelled(h)
  <2> DEFINE f == [g EXCEPT !.step = @ + 1, !.sawCancel = r \in acked]
  <2>1. g.pc = "work" /\ UNCHANGED rows
    BY <1>15, <1>16 DEF CheckCancelled
  <2>2. CASE Goto(h, "cancelled")
    BY <1>2, <1>4, <2>1, <2>2 DEF EndPCs
  <2>3. CASE handler' = [handler EXCEPT ![h] = f]
    <3>1. f.pc = "work" /\ f.run = g.run
      BY <1>1, <2>1, FieldFacts
    <3> HIDE DEF f
    <3>2. handler'[h] = f
      BY <2>3 DEF TypeOK
    <3> QED BY <1>2, <1>3, <2>1, <3>1, <3>2 DEF AsExpected, RunOf, Good
  <2> QED BY <1>16, <2>2, <2>3 DEF CheckCancelled
<1>17. CASE SavePartial(h)
  <2> DEFINE row == Updated(rows[r], "running", FALSE)
  <2>1. g.pc = "work" /\ r \in Runs /\ rows[r].status = "running"
    BY <1>2, <1>15, <1>17 DEF SavePartial
  <2>2. CASE rows' = [rows EXCEPT ![r] = row]
    <3>1. row \in Row /\ row.status = "running"
      BY <1>1, <2>1, UpdatedFacts
    <3>2. CanGo(rows[r].status, row.status) /\ row.status \in Expected("work")
      BY <1>3, <2>1, <3>1
    <3> HIDE DEF row
    <3> QED BY <1>7, <1>17, <2>1, <2>2, <3>1, <3>2, NextStepDone DEF SavePartial
  <2> QED BY <1>6, <1>17, <2>1, <2>2 DEF SavePartial
<1>18. CASE UpsertFeedback(h)
  <2>1. UNCHANGED rows /\ (NextStep(h) \/ Goto(h, "duplicate"))
    BY <1>18 DEF UpsertFeedback
  <2>2. g.pc = "work"
    BY <1>15, <1>18 DEF UpsertFeedback
  <2> QED BY <1>2, <1>4, <1>6, <2>1, <2>2 DEF EndPCs
<1>19. CASE MarkFeedbackProcessing(h) \/ Effect(h)
  BY <1>6, <1>15, <1>19 DEF MarkFeedbackProcessing, Effect
<1>20. CASE MarkFeedbackFailed(h)
  <2>1. g.pc = "work" /\ UNCHANGED rows /\ Goto(h, "failed")
    BY <1>15, <1>20 DEF MarkFeedbackFailed
  <2> QED BY <1>2, <1>4, <2>1 DEF EndPCs
<1>21. CASE FinishTask(h)
  <2>1. g.pc \in {"work"} \cup EndPCs
    BY <1>21 DEF FinishTask, Endings, EndPCs
  <2>2. r \in Runs /\ rows[r].status = "running"
    BY <1>2, <2>1 DEF EndPCs
  <2>3. handler'[h].pc = "return"
    BY <1>21 DEF FinishTask, Goroutine, TypeOK
  <2>4. PICK s \in Endings(h) :
          rows' = [rows EXCEPT ![Finished(h)] = Marked(@, s)] \/ UNCHANGED rows
    BY <1>21 DEF FinishTask
  <2>5. s \in FinalStatuses
    BY EndingsFact, ConstantsAssumption
  <2>6. Marked(rows[r], s).status = s
    BY <1>1, <2>2, <2>5, UpdatedFacts
  <2>7. rows'[r] = rows[r] \/ rows'[r] = Marked(rows[r], s)
    BY <1>1, <2>2, <2>4
  <2>8. CanGo(rows[r].status, s)
    BY <2>2, <2>5 DEF CanGo, Lifecycle!CanTransition, Lifecycle!FinalStatuses, FinalStatuses
  <2>9. CanGo(rows[r].status, rows'[r].status)
    BY <1>3, <2>6, <2>7, <2>8
  <2> QED BY <2>3, <2>9 DEF Good, AsExpected
<1>22. CASE Return(h)
  BY <1>5, <1>22 DEF Return, GiveUp
<1> QED
  BY <1>8, <1>9, <1>10, <1>11, <1>12, <1>13, <1>14, <1>16, <1>17, <1>18, <1>19,
     <1>20, <1>21, <1>22 DEF HandlerStep, Good

(* Once a feedback belongs to a run, it stays with it.                        *)
LEMMA OwnersStay ==
  ASSUME TypeOK, NEW h \in Handlers, HandlerStep(h), NEW c \in Contents,
         records[c].owner # None
  PROVE  records'[c].owner = records[c].owner
<1> DEFINE Record == [owner : Runs \cup {None}, done : BOOLEAN]
<1>1. records \in [Contents -> Record]
  BY DEF TypeOK
<1>2. ASSUME NEW b, records' = [records EXCEPT ![ContentOf[RunOf(h)]].done = b]
      PROVE  records'[c].owner = records[c].owner
  BY <1>1, <1>2
<1>3. CASE UpsertFeedback(h)
  BY <1>1, <1>3 DEF UpsertFeedback
<1>4. CASE Effect(h)
  BY <1>2, <1>4 DEF Effect
<1>5. CASE MarkFeedbackProcessing(h) \/ MarkFeedbackFailed(h)
  BY <1>2, <1>5 DEF MarkFeedbackProcessing, MarkFeedbackFailed, Unprocessed
<1> QED
  BY <1>3, <1>4, <1>5 DEF HandlerStep, RetryTask, RetryToPending, AcquireSlot, SelectActive,
     InsertRow, Reread, Claim, CheckCancelled, SavePartial, FinishTask, Return

LEMMA DuplicatesStep ==
  ASSUME TypeOK, DuplicatesKnown, NEW h \in Handlers, HandlerStep(h)
  PROVE  DuplicatesKnown'
<1> SUFFICES ASSUME NEW o \in Handlers, handler'[o].pc = "duplicate"
             PROVE  Finished(o)' \in {handler'[o].run} \cup overlapped'
  BY DEF DuplicatesKnown, RunOf
<1>1. CASE o = h
  <2>1. UpsertFeedback(h)
    BY <1>1, GoesOn
  <2>2. handler[h].pc = "work"
    BY <2>1 DEF UpsertFeedback, AtStep
  <2>3. ~NextStep(h)
    BY <1>1, <2>2, NextStepDone
  <2>4. /\ UNCHANGED records /\ handler'[h].run = handler[h].run
        /\ overlapped' = overlapped \cup ({records[ContentOf[RunOf(h)]].owner} \ {RunOf(h)})
    BY <2>1, <2>3, GotoDone DEF UpsertFeedback
  <2> QED BY <1>1, <2>4 DEF Finished, RunOf
<1>2. CASE o # h
  <2>1. handler'[o] = handler[o]
    BY <1>2, GoesOn
  <2>2. RunOf(o) \in Runs /\ ContentOf[RunOf(o)] \in Contents
    BY <2>1, HandlerFacts, ConstantsAssumption DEF TypeOK, RunOf, ConstantsAssumption
  <2>3. Finished(o) \in {RunOf(o)} \cup overlapped
    BY <2>1 DEF DuplicatesKnown
  <2>4. Finished(o) # None
    BY <2>2, <2>3, ConstantsAssumption DEF TypeOK, ConstantsAssumption
  <2>5. Finished(o)' = Finished(o)
    BY <2>1, <2>2, <2>4, OwnersStay DEF Finished, RunOf
  <2> QED BY <2>1, <2>3, <2>5, DisturbedGrows DEF RunOf
<1> QED BY <1>1, <1>2

(* A step of a goroutine.                                                     *)
LEMMA LifecycleOfHandler ==
  ASSUME TypeOK, LifecycleInv, NEW h \in Handlers, HandlerStep(h)
  PROVE  LifecycleInv' /\ LifecycleStep
<1>1. Disturbed \subseteq Disturbed' /\ overlapped \subseteq overlapped'
  BY DisturbedGrows DEF Disturbed
<1>2. \A o \in Handlers : o # h => handler'[o] = handler[o]
  BY GoesOn
<1>3. handler'[h].run \in {handler[h].run, None}
  BY RunKept
<1>4. PairsKnown'
  BY <1>1, <1>2, <1>3 DEF LifecycleInv, PairsKnown, RunOf
<1>5. ASSUME NEW o \in Handlers PROVE AsExpected(o)'
  <2>1. CASE o = h /\ RunOf(h) \notin Disturbed
    BY <2>1, OwnRun
  <2>2. CASE o = h /\ RunOf(h) \in Disturbed
    BY <1>1, <2>2, RunKept DEF AsExpected, RunOf
  <2>3. CASE o # h
    <3>1. SUFFICES ASSUME handler[o].pc \notin {"idle", "return"}, RunOf(o) \notin Disturbed
                   PROVE  rows'[RunOf(o)] = rows[RunOf(o)]
      BY <1>1, <1>2, <2>3 DEF LifecycleInv, AsExpected, RunOf
    <3>2. RunOf(o) \in Runs
      BY <3>1, HandlerFacts DEF TypeOK, RunOf
    <3>3. RunOf(o) # RunOf(h)
      BY <2>3, <3>1, <3>2, ConstantsAssumption
         DEF LifecycleInv, PairsKnown, Disturbed, ConstantsAssumption
    <3> QED BY <3>1, <3>2, <3>3, OtherRuns
  <2> QED BY <2>1, <2>2, <2>3
<1>6. ASSUME NEW r \in Runs, r \notin Disturbed' PROVE CanGo(rows[r].status, rows'[r].status)
  <2>1. CASE r = RunOf(h)
    BY <1>1, <1>6, <2>1, OwnRun
  <2>2. CASE r # RunOf(h)
    BY <1>1, <1>6, <2>2, OtherRuns DEF CanGo, Lifecycle!CanTransition
  <2> QED BY <2>1, <2>2
<1> QED BY <1>1, <1>4, <1>5, <1>6, DuplicatesStep DEF LifecycleInv, LifecycleStep

LEMMA LifecycleNext ==
  ASSUME TypeOK, LifecycleInv, [Next]_vars
  PROVE  LifecycleInv' /\ LifecycleStep
<1>1. /\ rows \in [Runs -> Row] /\ handler \in [Handlers -> HandlerRecord]
      /\ \A r \in Runs : CanGo(rows[r].status, rows[r].status)
  BY DEF TypeOK, CanGo, Lifecycle!CanTransition
(* Nothing but goroutines changes, and those keep their place.                *)
<1>2. ASSUME UNCHANGED <<rows, records>>, overlapped \subseteq overlapped', acked' = acked,
             \A h \in Handlers :
               \/ handler'[h].pc = "idle" /\ handler'[h].run = None
               \/ handler'[h].pc = handler[h].pc /\ handler'[h].run = handler[h].run
      PROVE  LifecycleInv' /\ LifecycleStep
  <2>1. PairsKnown'
    BY <1>2 DEF LifecycleInv, PairsKnown, RunOf
  <2>2. DuplicatesKnown'
    BY <1>2 DEF LifecycleInv, DuplicatesKnown, Finished, RunOf
  <2>3. \A h \in Handlers : AsExpected(h)'
    BY <1>2 DEF LifecycleInv, AsExpected, Disturbed, RunOf
  <2>4. LifecycleStep
    BY <1>1, <1>2 DEF LifecycleStep, Disturbed
  <2> QED BY <2>1, <2>2, <2>3, <2>4 DEF LifecycleInv
<1>3. ASSUME NEW h \in Handlers, HandlerStep(h) PROVE LifecycleInv' /\ LifecycleStep
  BY <1>3, LifecycleOfHandler
<1>4. ASSUME NEW h \in Handlers, NEW p \in Replicas, NEW r \in Runs,
             Request(h, p, r) \/ RetryTaskRun(h, p, r)
      PROVE  LifecycleInv' /\ LifecycleStep
  <2>1. PICK pc \in {"acquire", "retryRead"} :
          /\ Begin(h, p, r, pc)
          /\ rows[r].status \in Expected(pc)
    BY <1>4 DEF Request, RetryTaskRun, Expected
  <2>2. /\ UNCHANGED <<rows, records, acked>>
        /\ handler' = [handler EXCEPT ![h] = Goroutine(pc, p, r)]
        /\ overlapped \subseteq overlapped'
        /\ \A g \in Handlers : RunOf(g) = r => r \in overlapped'
    BY <2>1 DEF Begin
  <2>3. /\ handler'[h].pc = pc /\ handler'[h].run = r
        /\ \A o \in Handlers : o # h => handler'[o] = handler[o]
    BY <1>1, <2>2 DEF Goroutine
  <2>4. PairsKnown'
    BY <2>2, <2>3 DEF LifecycleInv, PairsKnown, RunOf
  <2>5. DuplicatesKnown'
    BY <2>1, <2>2, <2>3 DEF LifecycleInv, DuplicatesKnown, Finished, RunOf
  <2>6. ASSUME NEW o \in Handlers PROVE AsExpected(o)'
    BY <2>1, <2>2, <2>3 DEF LifecycleInv, AsExpected, Disturbed, RunOf
  <2>7. LifecycleStep
    BY <1>1, <2>2 DEF LifecycleStep, Disturbed
  <2> QED BY <2>4, <2>5, <2>6, <2>7 DEF LifecycleInv
<1>5. ASSUME NEW h \in Handlers, Expire(h) PROVE LifecycleInv' /\ LifecycleStep
  <2> DEFINE g == [handler[h] EXCEPT !.live = FALSE]
  <2>1. /\ UNCHANGED <<rows, records, acked, overlapped>>
        /\ handler' = [handler EXCEPT ![h] = g]
    BY <1>5 DEF Expire
  <2>2. g.run = handler[h].run /\ g.pc = handler[h].pc
    BY <1>1, FieldFacts
  <2> HIDE DEF g
  <2> QED BY <1>1, <1>2, <2>1, <2>2
<1>6. ASSUME NEW r \in Runs, CancelTask(r) PROVE LifecycleInv' /\ LifecycleStep
  <2>1. /\ UNCHANGED <<records, handler, overlapped>> /\ acked' = acked \cup {r}
        /\ \A q \in Runs : q # r => rows'[q] = rows[q]
    BY <1>1, <1>6 DEF CancelTask
  <2>2. LifecycleStep
    BY <1>1, <2>1 DEF LifecycleStep, Disturbed
  <2>3. PairsKnown' /\ DuplicatesKnown'
    BY <2>1 DEF LifecycleInv, PairsKnown, DuplicatesKnown, Finished, RunOf
  <2>4. ASSUME NEW o \in Handlers PROVE AsExpected(o)'
    <3>1. handler[o].pc \notin {"idle", "return"} => RunOf(o) \in Runs
      BY <1>1, HandlerFacts DEF RunOf
    <3> QED BY <2>1, <3>1 DEF LifecycleInv, AsExpected, Disturbed, RunOf
  <2> QED BY <2>2, <2>3, <2>4 DEF LifecycleInv
<1>7. ASSUME NEW p \in Replicas, Crash(p) PROVE LifecycleInv' /\ LifecycleStep
  BY <1>1, <1>2, <1>7 DEF Crash, Idle, Goroutine
<1>8. ASSUME NEW p \in Replicas, Restart(p) PROVE LifecycleInv' /\ LifecycleStep
  <2>1. UNCHANGED <<handler, records, acked>> /\ overlapped \subseteq overlapped'
    BY <1>8 DEF Restart
  <2>2. CASE UNCHANGED rows
    BY <1>2, <2>1, <2>2
  <2>3. CASE /\ rows' = [r \in Runs |-> Recovered(rows[r])]
             /\ \A r \in Runs : (\E h \in Handlers : Executes(h, r)) => r \in overlapped'
    <3>1. \A r \in Runs : \/ rows'[r].status = rows[r].status
                          \/ rows[r].status \in ActiveStatuses /\ rows'[r].status = "pending"
      BY <1>1, <2>3 DEF Recovered, IsActive, Row
    <3>2. LifecycleStep
      BY <1>1, <2>1, <3>1 DEF LifecycleStep, CanGo, Disturbed
    <3>3. PairsKnown' /\ DuplicatesKnown'
      BY <2>1 DEF LifecycleInv, PairsKnown, DuplicatesKnown, Finished, RunOf
    <3>4. ASSUME NEW o \in Handlers PROVE AsExpected(o)'
      <4>1. SUFFICES ASSUME handler[o].pc \notin {"idle", "return"}, RunOf(o) \notin Disturbed'
                     PROVE  rows'[RunOf(o)].status \in Expected(handler[o].pc)
        BY <2>1 DEF AsExpected, RunOf
      <4>2. RunOf(o) \in Runs /\ rows[RunOf(o)].status \in Expected(handler[o].pc)
        BY <1>1, <2>1, <4>1, HandlerFacts DEF LifecycleInv, AsExpected, Disturbed, RunOf
      <4>3. handler[o].pc \notin {"work"} \cup EndPCs
        BY <2>3, <4>1, <4>2 DEF Disturbed, Executes, RunOf
      <4>4. CASE rows'[RunOf(o)].status = rows[RunOf(o)].status
        BY <4>2, <4>4
      <4>5. CASE /\ rows[RunOf(o)].status \in ActiveStatuses
                 /\ rows'[RunOf(o)].status = "pending"
        BY <4>2, <4>3, <4>5 DEF Expected, ActiveStatuses, RetryableStatuses, Statuses
      <4> QED BY <3>1, <4>2, <4>4, <4>5
    <3> QED BY <3>2, <3>3, <3>4 DEF LifecycleInv
  <2> QED BY <1>8, <2>2, <2>3 DEF Restart
<1>9. CASE UNCHANGED vars
  BY <1>2, <1>9 DEF vars
<1> QED BY <1>3, <1>4, <1>5, <1>6, <1>7, <1>8, <1>9 DEF Next

(* Whatever crashes, expires, fails, is cancelled or retried, and however     *)
(* many replicas and requests take part: the statements on task_runs take a   *)
(* run through the transitions of canTransitionTaskStatus and recovery, until *)
(* it is cancelled or has a second writer.                                    *)
THEOREM LifecycleKept == Spec => KeepsLifecycle
<1> DEFINE D == acked \cup overlapped
<1>1. Init => Lifecycle!Init /\ LifecycleInv
  BY DEF Init, Lifecycle!Init, StatusOf, NoRow, LifecycleInv, PairsKnown, DuplicatesKnown,
     AsExpected, Idle, Goroutine, RunOf
<1>2. TypeOK /\ LifecycleInv /\ [Next]_vars => LifecycleInv'
  BY LifecycleNext
<1>3. TypeOK /\ TypeOK' /\ LifecycleInv /\ [Next]_vars => [Lifecycle!Next]_<<StatusOf, D>>
  <2> SUFFICES ASSUME TypeOK, TypeOK', LifecycleInv, [Next]_vars PROVE Lifecycle!Next
    OBVIOUS
  <2>1. LifecycleStep
    BY LifecycleNext
  <2>2. D \subseteq D' /\ D' \subseteq Runs
    BY <2>1 DEF LifecycleStep, Disturbed, TypeOK
  <2>3. StatusOf' \in [Runs -> Lifecycle!Statuses \cup {"absent"}]
    BY DEF TypeOK, StatusOf, Row, Statuses, ActiveStatuses, FinalStatuses, Lifecycle!Statuses,
       Lifecycle!ActiveStatuses, Lifecycle!FinalStatuses
  <2>4. ASSUME NEW r \in Runs \ D'
        PROVE  Lifecycle!Create(r) \/ Lifecycle!Move(r) \/ Lifecycle!Recover(r)
    <3>1. CanGo(rows[r].status, rows'[r].status)
      BY <2>1 DEF LifecycleStep, Disturbed
    <3> QED BY <3>1 DEF CanGo, StatusOf, Lifecycle!Create, Lifecycle!Move, Lifecycle!Recover,
               ActiveStatuses, Lifecycle!ActiveStatuses
  <2> QED BY <2>2, <2>3, <2>4 DEF Lifecycle!Next
<1>4. Spec => []TypeOK
  BY TypeCorrect
<1>5. Spec => Lifecycle!Init /\ [][Lifecycle!Next]_<<StatusOf, D>>
  BY <1>1, <1>2, <1>3, <1>4, PTL DEF Spec
<1> QED BY <1>5, PTL DEF KeepsLifecycle, Lifecycle!Spec
================================================================================
