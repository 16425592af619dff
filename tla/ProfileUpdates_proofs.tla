-------------------------- MODULE ProfileUpdates_proofs --------------------------
(******************************************************************************)
(* What holds of the table of profile versions for any number of goroutines,  *)
(* users, feedbacks and jobs, and whatever overlaps, fails or stops.          *)
(******************************************************************************)
EXTENDS ProfileUpdates, FiniteSetTheorems, TLAPS

(* What a jump and a return make of the goroutines.                           *)
LEMMA JobFacts ==
  ASSUME NEW j \in JobRecord, NEW pc \in PCs
  PROVE  /\ [j EXCEPT !.pc = pc] \in JobRecord
         /\ [j EXCEPT !.pc = pc].pc = pc
         /\ [j EXCEPT !.pc = pc].kind = j.kind
         /\ [j EXCEPT !.pc = pc].user = j.user
         /\ [j EXCEPT !.pc = pc].item = j.item
         /\ [j EXCEPT !.pc = pc].profile = j.profile
         /\ [j EXCEPT !.pc = pc].version = j.version
BY DEF JobRecord

LEMMA GotoDone ==
  ASSUME handler \in [Handlers -> JobRecord], NEW h \in Handlers, NEW pc \in PCs, Goto(h, pc)
  PROVE  \E j \in JobRecord :
           /\ handler' = [handler EXCEPT ![h] = j]
           /\ j.pc = pc
           /\ j.kind = handler[h].kind /\ j.user = handler[h].user
           /\ j.item = handler[h].item /\ j.profile = handler[h].profile
           /\ j.version = handler[h].version
<1> DEFINE j == [handler[h] EXCEPT !.pc = pc]
<1>1. handler' = [handler EXCEPT ![h] = j]
  BY DEF Goto
<1>2. /\ j \in JobRecord /\ j.pc = pc
      /\ j.kind = handler[h].kind /\ j.user = handler[h].user
      /\ j.item = handler[h].item /\ j.profile = handler[h].profile
      /\ j.version = handler[h].version
  BY JobFacts
<1> HIDE DEF j
<1> QED BY <1>1, <1>2

LEMMA NewJobs ==
  /\ Idle \in JobRecord /\ Idle.pc = "idle" /\ Idle.kind = "none"
  /\ \A pc \in PCs, kind \in {"feedback", "rebuild", "rollback"},
        u \in Users, item \in Feedbacks \cup {None} :
       /\ Job(pc, kind, u, item) \in JobRecord
       /\ Job(pc, kind, u, item).pc = pc
       /\ Job(pc, kind, u, item).kind = kind
       /\ Job(pc, kind, u, item).user = u
       /\ Job(pc, kind, u, item).item = item
BY DEF Idle, Job, JobRecord, PCs, NoProfile

(* What a job holds at each of its statements.                                *)
HasRow(j) ==
  \E s \in Rows(j.user) : s.version = j.version /\ s.source = j.item /\ s.profile[j.item] > 0

JobOK(j) ==
  /\ j.pc # "idle" => j.user \in Users
  /\ j.pc \in {"upsert", "mark", "complete", "fail"} => j.kind = "feedback"
  /\ j.kind = "feedback" => j.item \in Feedbacks /\ j.user = UserOf[j.item]
  /\ j.kind = "feedback" /\ j.pc \in {"select", "update", "insert", "commit", "complete"} =>
       j.profile[j.item] > 0
  /\ j.pc = "complete" => HasRow(j)

JobsInv == \A h \in Handlers : JobOK(handler[h])

(* The table, user by user.                                                   *)
Count(u) == Cardinality(Versions(u))

RowsInv(u) ==
  /\ IsFiniteSet(Versions(u))
  /\ \A s \in Rows(u) : s.version \in 1..Count(u)
  /\ \A s \in Rows(u) : s.active <=> s.version = Count(u)
  /\ \A v \in 1..Count(u) : \E s \in Rows(u) : s.version = v

TableInv == \A u \in Users : RowsInv(u)

--------------------------------------------------------------------------------
(* Reading the table.                                                         *)
LEMMA CountFact ==
  ASSUME NEW u, RowsInv(u)
  PROVE  Count(u) \in Nat /\ (Rows(u) # {} => Count(u) # 0)
<1>1. Count(u) \in Nat
  BY FS_CardinalityType DEF RowsInv, Count
<1>2. Rows(u) # {} => Versions(u) # {}
  BY DEF Versions
<1> QED BY <1>1, <1>2, FS_EmptySet DEF RowsInv, Count

(* ORDER BY is_active DESC, version DESC finds the newest version.            *)
LEMMA ActiveProfileFact ==
  ASSUME TypeOK, NEW u, RowsInv(u)
  PROVE  ActiveProfile(u) \in [Feedbacks -> Nat]
<1>1. CASE Rows(u) = {}
  BY <1>1 DEF ActiveProfile, NoProfile
<1>2. CASE Rows(u) # {}
  <2> DEFINE P(s) == \A o \in Rows(u) : Precedes(s, o)
  <2>1. PICK s \in Rows(u) : s.version = Count(u)
    BY <1>2, CountFact DEF RowsInv
  <2>2. ASSUME NEW o \in Rows(u) PROVE Precedes(s, o)
    <3>1. s.active /\ o.version \in 1..Count(u) /\ Count(u) \in Nat
      BY <2>1, CountFact DEF RowsInv
    <3>2. s.active \in BOOLEAN /\ o.active \in BOOLEAN
      BY <2>1 DEF Rows, TypeOK, Row
    <3>3. s.version >= o.version
      BY <2>1, <3>1
    <3> QED BY <3>1, <3>2, <3>3 DEF Precedes
  <2>3. (CHOOSE r \in Rows(u) : P(r)) \in Rows(u)
    BY <2>2
  <2>4. \A r \in Rows(u) : r.profile \in [Feedbacks -> Nat]
    BY DEF Rows, TypeOK, Row
  <2> QED BY <1>2, <2>3, <2>4 DEF ActiveProfile
<1> QED BY <1>1, <1>2

(* The version a transaction computes is at most the next one.                *)
LEMMA LatestFact ==
  ASSUME UpdatesAssumption, NEW u, RowsInv(u)
  PROVE  LatestVersion(u) \in Nat /\ LatestVersion(u) <= Count(u)
<1> DEFINE S == {v \in 1..MaxStarts : \E s \in Rows(u) : s.version >= v}
<1>1. Count(u) \in Nat
  BY CountFact
<1>2. S \subseteq 1..Count(u)
  BY <1>1 DEF RowsInv, UpdatesAssumption
<1>3. IsFiniteSet(1..Count(u)) /\ Cardinality(1..Count(u)) = Count(u)
  BY <1>1, FS_Interval
<1>4. IsFiniteSet(S) /\ Cardinality(S) <= Count(u)
  BY <1>2, <1>3, FS_Subset
<1> QED BY <1>4, FS_CardinalityType DEF LatestVersion

--------------------------------------------------------------------------------
(* Type correctness, given the table.                                         *)
LEMMA TypeInit == Init => TypeOK
BY NewJobs, UpdatesAssumption
   DEF UpdatesAssumption, Init, TypeOK, FeedbackRow

LEMMA UnlockType ==
  ASSUME TypeOK, NEW h, Unlock(h)
  PROVE  /\ rowLock' \in [Users -> Handlers \cup {None}]
         /\ gapLock' \in [Users -> SUBSET Handlers]
BY DEF TypeOK, Unlock

(* The goroutine of a step.                                                   *)
LEMMA GotoType ==
  ASSUME TypeOK, NEW h \in Handlers, (\E pc \in PCs : Goto(h, pc)) \/ Stop(h)
  PROVE  handler' \in [Handlers -> JobRecord]
BY GotoDone, NewJobs DEF TypeOK, Stop

LEMMA FeedbackType ==
  ASSUME TypeOK, NEW h \in Handlers,
         \/ \E status \in {"received", "completed"}, v \in Nat : SetFeedback(h, status, v)
         \/ \E status \in {"processing", "failed"} : KeepVersion(h, status)
  PROVE  feedback' \in [Feedbacks -> FeedbackRow]
<1> DEFINE f == handler[h].item
<1>1. feedback \in [Feedbacks -> FeedbackRow]
  BY DEF TypeOK
<1>2. CASE \E status \in {"received", "completed"}, v \in Nat : SetFeedback(h, status, v)
  <2>1. PICK status \in {"received", "completed"}, v \in Nat :
          feedback' = [feedback EXCEPT ![f] = [status |-> status, version |-> v]]
    BY <1>2 DEF SetFeedback
  <2>2. [status |-> status, version |-> v] \in FeedbackRow
    BY DEF FeedbackRow
  <2> QED BY <1>1, <2>1, <2>2
<1>3. CASE \E status \in {"processing", "failed"} : KeepVersion(h, status)
  <2>1. PICK status \in {"processing", "failed"} :
          feedback' = [feedback EXCEPT ![f] = [feedback[f] EXCEPT !.status = status]]
    BY <1>3 DEF KeepVersion
  <2>2. f \in Feedbacks => [feedback[f] EXCEPT !.status = status] \in FeedbackRow
    BY <1>1 DEF FeedbackRow
  <2> QED BY <1>1, <2>1, <2>2
<1> QED BY <1>2, <1>3

LEMMA AppliedType ==
  ASSUME NEW profile \in [Feedbacks -> Nat], NEW S
  PROVE  Applied(profile, S) \in [Feedbacks -> Nat]
BY DEF Applied

LEMMA LoadType ==
  ASSUME UpdatesAssumption, TypeOK, TableInv, JobsInv, NEW h \in Handlers, Load(h)
  PROVE  \/ Stop(h)
         \/ \E j \in JobRecord :
              /\ handler' = [handler EXCEPT ![h] = j]
              /\ j.pc = "select" /\ j.kind = handler[h].kind
              /\ j.user = handler[h].user /\ j.item = handler[h].item
              /\ handler[h].kind = "feedback" => j.profile[j.item] > 0
<1> SUFFICES ASSUME ~Stop(h)
             PROVE  \E j \in JobRecord :
                      /\ handler' = [handler EXCEPT ![h] = j]
                      /\ j.pc = "select" /\ j.kind = handler[h].kind
                      /\ j.user = handler[h].user /\ j.item = handler[h].item
                      /\ handler[h].kind = "feedback" => j.profile[j.item] > 0
  OBVIOUS
<1> DEFINE S == IF handler[h].kind = "feedback" THEN {handler[h].item} ELSE handler[h].todo
<1>1. PICK base \in {ActiveProfile(BaseUser(h)), NoProfile} :
        handler' = [handler EXCEPT ![h].pc = "select", ![h].profile = Applied(base, S)]
  BY DEF Load
<1>2. handler[h] \in JobRecord /\ JobOK(handler[h]) /\ handler[h].pc = "load"
  BY DEF TypeOK, JobsInv, Load, At
<1>3. BaseUser(h) \in Users
  BY <1>2 DEF BaseUser, JobOK, UpdatesAssumption
<1>4. base \in [Feedbacks -> Nat]
  BY <1>3, ActiveProfileFact DEF TableInv, NoProfile
<1>5. Applied(base, S) \in [Feedbacks -> Nat]
  BY <1>4, AppliedType
<1>6. handler[h].kind = "feedback" => Applied(base, S)[handler[h].item] > 0
  BY <1>2, <1>4 DEF JobOK, Applied
<1> DEFINE new == Applied(base, S)
           j == [handler[h] EXCEPT !.pc = "select", !.profile = new]
<1>7. handler' = [handler EXCEPT ![h] = j]
  BY <1>1
<1> HIDE DEF S, new
<1>8. /\ j \in JobRecord /\ j.pc = "select" /\ j.kind = handler[h].kind
      /\ j.user = handler[h].user /\ j.item = handler[h].item /\ j.profile = new
  BY <1>2, <1>5 DEF JobRecord, PCs, new
<1> HIDE DEF j
<1> QED BY <1>6, <1>7, <1>8 DEF new

LEMMA ListDone ==
  ASSUME TypeOK, NEW h \in Handlers, ListCompleted(h)
  PROVE  \E j \in JobRecord :
           /\ handler' = [handler EXCEPT ![h] = j]
           /\ j.pc = "load" /\ j.kind = handler[h].kind
           /\ j.user = handler[h].user /\ j.item = handler[h].item
<1> DEFINE S == {f \in Feedbacks : UserOf[f] = handler[h].user /\ feedback[f].status = "completed"}
           j == [handler[h] EXCEPT !.pc = "load", !.todo = S]
<1>1. handler' = [handler EXCEPT ![h] = j]
  BY DEF ListCompleted
<1>2. handler[h] \in JobRecord /\ S \in SUBSET Feedbacks
  BY DEF TypeOK
<1> HIDE DEF S
<1>3. /\ j \in JobRecord /\ j.pc = "load" /\ j.kind = handler[h].kind
      /\ j.user = handler[h].user /\ j.item = handler[h].item
  BY <1>2 DEF JobRecord, PCs
<1> HIDE DEF j
<1> QED BY <1>1, <1>3

LEMMA SelectDone ==
  ASSUME UpdatesAssumption, TypeOK, TableInv, JobsInv, NEW h \in Handlers, TxSelect(h)
  PROVE  \E j \in JobRecord :
           /\ handler' = [handler EXCEPT ![h] = j]
           /\ j.pc = "update" /\ j.kind = handler[h].kind
           /\ j.user = handler[h].user /\ j.item = handler[h].item
           /\ j.profile = handler[h].profile
           /\ j.version \in 1..(Count(j.user) + 1)
<1> DEFINE v == LatestVersion(handler[h].user) + 1
           j == [handler[h] EXCEPT !.pc = "update", !.version = v]
<1>1. handler' = [handler EXCEPT ![h] = j]
  BY DEF TxSelect
<1>2. handler[h] \in JobRecord /\ handler[h].user \in Users
  BY DEF TypeOK, JobsInv, JobOK, TxSelect, At
<1>3. v \in Nat /\ v \in 1..(Count(handler[h].user) + 1)
  BY <1>2, LatestFact, CountFact DEF TableInv
<1> HIDE DEF v
<1>4. /\ j \in JobRecord /\ j.pc = "update" /\ j.kind = handler[h].kind
      /\ j.user = handler[h].user /\ j.item = handler[h].item
      /\ j.profile = handler[h].profile /\ j.version = v
  BY <1>2, <1>3 DEF JobRecord, PCs
<1> HIDE DEF j
<1> QED BY <1>1, <1>3, <1>4

LEMMA StartDone ==
  ASSUME UpdatesAssumption, TypeOK, NEW h \in Handlers,
         \/ \E f \in Feedbacks : StartFeedback(h, f)
         \/ \E u \in Users : StartRebuild(h, u)
         \/ \E s \in snapshots : StartRollback(h, s)
  PROVE  /\ \E j \in JobRecord :
              /\ handler' = [handler EXCEPT ![h] = j]
              /\ j.pc \in {"upsert", "list", "select"}
              /\ j.user \in Users
              /\ j.pc = "upsert" /\ j.kind = "feedback"
                   => j.item \in Feedbacks /\ j.user = UserOf[j.item]
              /\ j.pc = "upsert" <=> j.kind = "feedback"
         /\ starts' \in 0..MaxStarts
         /\ UNCHANGED <<snapshots, feedback, rowLock, gapLock>>
         /\ handler[h].pc = "idle"
<1>1. starts \in 0..MaxStarts /\ MaxStarts \in Nat
  BY DEF TypeOK, UpdatesAssumption
<1>2. ASSUME NEW job, Start(h, job)
      PROVE  /\ starts' \in 0..MaxStarts
             /\ handler' = [handler EXCEPT ![h] = job]
             /\ UNCHANGED <<snapshots, feedback, rowLock, gapLock>>
             /\ handler[h].pc = "idle"
  BY <1>1, <1>2 DEF Start, At
<1>3. {"upsert", "list", "select"} \subseteq PCs
  BY DEF PCs
<1>4. CASE \E f \in Feedbacks : StartFeedback(h, f)
  <2>1. PICK f \in Feedbacks : Start(h, Job("upsert", "feedback", UserOf[f], f))
    BY <1>4 DEF StartFeedback
  <2>2. UserOf[f] \in Users
    BY DEF UpdatesAssumption
  <2> QED BY <1>2, <1>3, <2>1, <2>2, NewJobs
<1>5. CASE \E u \in Users : StartRebuild(h, u)
  <2>1. PICK u \in Users : Start(h, Job("list", "rebuild", u, None))
    BY <1>5 DEF StartRebuild
  <2> DEFINE j == Job("list", "rebuild", u, None)
  <2>2. j \in JobRecord /\ j.pc = "list" /\ j.kind = "rebuild" /\ j.user = u
    BY <1>3, NewJobs
  <2> HIDE DEF j
  <2> QED BY <1>2, <2>1, <2>2 DEF j
<1>6. CASE \E s \in snapshots : StartRollback(h, s)
  <2>1. PICK s \in snapshots :
          Start(h, [Job("select", "rollback", s.user, None) EXCEPT !.profile = s.profile])
    BY <1>6 DEF StartRollback
  <2>2. s.user \in Users /\ s.profile \in [Feedbacks -> Nat]
    BY DEF TypeOK, Row
  <2> DEFINE base == Job("select", "rollback", s.user, None)
             j == [base EXCEPT !.profile = s.profile]
  <2>3. /\ base \in JobRecord /\ base.pc = "select" /\ base.kind = "rollback"
        /\ base.user = s.user
    BY <1>3, <2>2, NewJobs
  <2> HIDE DEF base
  <2>4. j \in JobRecord /\ j.pc = "select" /\ j.kind = "rollback" /\ j.user = s.user
    BY <2>2, <2>3 DEF JobRecord
  <2> HIDE DEF j
  <2>5. Start(h, j)
    BY <2>1 DEF j, base
  <2> QED BY <1>2, <2>2, <2>4, <2>5
<1> QED BY <1>4, <1>5, <1>6

(* What COMMIT makes of the table.                                            *)
LEMMA CommitFacts ==
  ASSUME TypeOK, JobsInv, NEW h \in Handlers, TxCommit(h), NEW u, u = handler[h].user
  PROVE  /\ u \in Users
         /\ NewRow(h) \in Row /\ NewRow(h).user = u
         /\ snapshots' \subseteq Row
         /\ Rows(u)' = {[s EXCEPT !.active = FALSE] : s \in Rows(u)} \cup {NewRow(h)}
         /\ \A w : w # u => Rows(w)' = Rows(w)
<1> DEFINE Old == {[s EXCEPT !.active = FALSE] : s \in Rows(u)}
<1>1. handler[h] \in JobRecord /\ u \in Users
  BY DEF TypeOK, JobsInv, JobOK, TxCommit, At
<1>2. NewRow(h) \in Row /\ NewRow(h).user = u
  BY <1>1 DEF NewRow, Row, JobRecord
<1>3. \A s \in Row : [s EXCEPT !.active = FALSE] \in Row /\ [s EXCEPT !.active = FALSE].user = s.user
  BY DEF Row
<1>4. snapshots \subseteq Row /\ Rows(u) \subseteq snapshots /\ \A s \in Rows(u) : s.user = u
  BY DEF TypeOK, Rows
<1>5. Old \subseteq Row /\ \A s \in Old : s.user = u
  BY <1>3, <1>4
<1>6. snapshots' = (snapshots \ Rows(u)) \cup Old \cup {NewRow(h)}
  BY DEF TxCommit
<1> HIDE DEF Old
<1>7. snapshots' \subseteq Row
  BY <1>2, <1>4, <1>5, <1>6
<1>8. Rows(u)' = Old \cup {NewRow(h)}
  BY <1>2, <1>4, <1>5, <1>6 DEF Rows
<1>9. \A w : w # u => Rows(w)' = Rows(w)
  BY <1>2, <1>4, <1>5, <1>6 DEF Rows
<1> QED BY <1>1, <1>2, <1>7, <1>8, <1>9 DEF Old

(* Rows lose their flag, and nothing else.                                    *)
LEMMA RowsKept ==
  ASSUME TypeOK, JobsInv,
         UNCHANGED snapshots \/ \E h \in Handlers : TxCommit(h),
         NEW u, NEW s \in Rows(u)
  PROVE  \E t \in Rows(u)' :
           t.version = s.version /\ t.source = s.source /\ t.profile = s.profile
<1>1. CASE UNCHANGED snapshots
  BY <1>1 DEF Rows
<1>2. ASSUME NEW h \in Handlers, TxCommit(h)
      PROVE  \E t \in Rows(u)' :
               t.version = s.version /\ t.source = s.source /\ t.profile = s.profile
  <2>1. CASE u # handler[h].user
    <3>1. \A w : w # handler[h].user => Rows(w)' = Rows(w)
      BY <1>2, CommitFacts
    <3> QED BY <2>1, <3>1
  <2>2. CASE u = handler[h].user
    <3> DEFINE t == [s EXCEPT !.active = FALSE]
    <3>1. t.version = s.version /\ t.source = s.source /\ t.profile = s.profile
      BY DEF TypeOK, Rows, Row
    <3>2. t \in Rows(u)'
      BY <1>2, <2>2, CommitFacts
    <3> HIDE DEF t
    <3> QED BY <3>1, <3>2
  <2> QED BY <2>1, <2>2
<1> QED BY <1>1, <1>2

--------------------------------------------------------------------------------
(* The jobs.                                                                  *)
LEMMA JobsStep ==
  ASSUME UpdatesAssumption, TypeOK, TableInv, JobsInv, [Next]_vars
  PROVE  JobsInv'
<1>1. handler \in [Handlers -> JobRecord]
  BY DEF TypeOK
<1>2. UNCHANGED snapshots \/ \E h \in Handlers : TxCommit(h)
  BY DEF Next, vars, StartFeedback, StartRebuild, StartRollback, Start, Step,
     UpsertFeedbackReceived, MarkFeedbackProcessing, ListCompleted, Load, TxSelect, TxUpdate,
     TxInsert, TxInsertFails, MarkFeedbackCompleted, MarkFeedbackFailed, Fail, Interrupt, GiveUp
<1>3. ASSUME NEW j, HasRow(j) PROVE HasRow(j)'
  BY <1>2, <1>3, RowsKept DEF HasRow
<1>4. ASSUME NEW h \in Handlers, NEW j, handler' = [handler EXCEPT ![h] = j],
             j.pc # "idle" => j.user \in Users,
             j.pc \in {"upsert", "mark", "complete", "fail"} => j.kind = "feedback",
             j.kind = "feedback" => j.item \in Feedbacks /\ j.user = UserOf[j.item],
             j.kind = "feedback" /\ j.pc \in {"select", "update", "insert", "commit", "complete"}
               => j.profile[j.item] > 0,
             j.pc = "complete" => HasRow(j)'
      PROVE  JobsInv'
  <2> SUFFICES ASSUME NEW o \in Handlers PROVE JobOK(handler[o])'
    BY DEF JobsInv
  <2>1. CASE o = h
    <3>1. handler'[o] = j
      BY <1>1, <1>4, <2>1
    <3> QED BY <1>4, <3>1 DEF JobOK
  <2>2. CASE o # h
    <3>1. handler'[o] = handler[o] /\ JobOK(handler[o])
      BY <1>1, <1>4, <2>2 DEF JobsInv
    <3>2. handler[o].pc = "complete" => HasRow(handler[o])
      BY <3>1 DEF JobOK
    <3>3. handler[o].pc = "complete" => HasRow(handler[o])'
      <4>1. \A j0 : HasRow(j0) => \E s \in Rows(j0.user)' :
               s.version = j0.version /\ s.source = j0.item /\ s.profile[j0.item] > 0
        BY <1>3 DEF HasRow
      <4> QED BY <3>1, <3>2, <4>1 DEF HasRow
    <3> QED BY <3>1, <3>3 DEF JobOK
  <2> QED BY <2>1, <2>2
<1>5. ASSUME NEW h \in Handlers, Stop(h) PROVE JobsInv'
  BY <1>4, <1>5, NewJobs DEF Stop
<1>6. ASSUME NEW h \in Handlers, NEW pc \in PCs, Goto(h, pc), pc # "complete",
             handler[h].pc # "idle",
             pc \in {"mark", "fail", "upsert"} => handler[h].kind = "feedback",
             pc \in {"select", "update", "insert", "commit"} =>
               handler[h].pc \in {"select", "update", "insert", "commit"}
      PROVE  JobsInv'
  <2>1. PICK j \in JobRecord :
           /\ handler' = [handler EXCEPT ![h] = j]
           /\ j.pc = pc
           /\ j.kind = handler[h].kind /\ j.user = handler[h].user
           /\ j.item = handler[h].item /\ j.profile = handler[h].profile
           /\ j.version = handler[h].version
    BY <1>1, <1>6, GotoDone
  <2>2. JobOK(handler[h])
    BY DEF JobsInv
  <2> QED BY <1>4, <1>6, <2>1, <2>2 DEF JobOK
<1>7. ASSUME NEW h \in Handlers, GiveUp(h),
             handler[h].pc \in {"load", "select", "update", "insert", "commit"}
      PROVE  JobsInv'
  BY <1>5, <1>6, <1>7 DEF GiveUp, PCs
<1>8. ASSUME NEW h \in Handlers,
             \/ \E f \in Feedbacks : StartFeedback(h, f)
             \/ \E u \in Users : StartRebuild(h, u)
             \/ \E s \in snapshots : StartRollback(h, s)
      PROVE  JobsInv'
  <2>1. PICK j \in JobRecord :
              /\ handler' = [handler EXCEPT ![h] = j]
              /\ j.pc \in {"upsert", "list", "select"}
              /\ j.user \in Users
              /\ j.pc = "upsert" /\ j.kind = "feedback"
                   => j.item \in Feedbacks /\ j.user = UserOf[j.item]
              /\ j.pc = "upsert" <=> j.kind = "feedback"
    BY <1>8, StartDone
  <2> QED BY <1>4, <2>1
<1>9. ASSUME NEW h \in Handlers, UpsertFeedbackReceived(h) PROVE JobsInv'
  <2>1. handler[h].pc = "upsert" /\ JobOK(handler[h])
    BY <1>9 DEF UpsertFeedbackReceived, At, JobsInv
  <2>2. handler[h].kind = "feedback"
    BY <2>1 DEF JobOK
  <2> QED BY <1>5, <1>6, <1>9, <2>1, <2>2 DEF UpsertFeedbackReceived, PCs
<1>10. ASSUME NEW h \in Handlers, MarkFeedbackProcessing(h) PROVE JobsInv'
  BY <1>6, <1>10 DEF MarkFeedbackProcessing, At, PCs
<1>11. ASSUME NEW h \in Handlers, ListCompleted(h) PROVE JobsInv'
  <2>1. PICK j \in JobRecord :
           /\ handler' = [handler EXCEPT ![h] = j]
           /\ j.pc = "load" /\ j.kind = handler[h].kind
           /\ j.user = handler[h].user /\ j.item = handler[h].item
    BY <1>11, ListDone
  <2>2. JobOK(handler[h]) /\ handler[h].pc = "list"
    BY <1>11 DEF JobsInv, ListCompleted, At
  <2> QED BY <1>4, <2>1, <2>2 DEF JobOK
<1>12. ASSUME NEW h \in Handlers, Load(h) PROVE JobsInv'
  <2>1. CASE Stop(h)
    BY <1>5, <2>1
  <2>2. CASE ~Stop(h)
    <3>1. PICK j \in JobRecord :
              /\ handler' = [handler EXCEPT ![h] = j]
              /\ j.pc = "select" /\ j.kind = handler[h].kind
              /\ j.user = handler[h].user /\ j.item = handler[h].item
              /\ handler[h].kind = "feedback" => j.profile[j.item] > 0
      BY <1>12, <2>2, LoadType
    <3>2. JobOK(handler[h]) /\ handler[h].pc = "load"
      BY <1>12 DEF JobsInv, Load, At
    <3> QED BY <1>4, <3>1, <3>2 DEF JobOK
  <2> QED BY <2>1, <2>2
<1>13. ASSUME NEW h \in Handlers, TxSelect(h) PROVE JobsInv'
  <2>1. PICK j \in JobRecord :
           /\ handler' = [handler EXCEPT ![h] = j]
           /\ j.pc = "update" /\ j.kind = handler[h].kind
           /\ j.user = handler[h].user /\ j.item = handler[h].item
           /\ j.profile = handler[h].profile
    BY <1>13, SelectDone
  <2>2. JobOK(handler[h]) /\ handler[h].pc = "select"
    BY <1>13 DEF JobsInv, TxSelect, At
  <2> QED BY <1>4, <2>1, <2>2 DEF JobOK
<1>14. ASSUME NEW h \in Handlers, TxUpdate(h) \/ TxInsert(h) PROVE JobsInv'
  BY <1>6, <1>14 DEF TxUpdate, TxInsert, At, PCs
<1>15. ASSUME NEW h \in Handlers, TxCommit(h) PROVE JobsInv'
  <2>1. CASE Stop(h)
    BY <1>5, <2>1
  <2>2. JobOK(handler[h]) /\ handler[h].pc = "commit"
    BY <1>15 DEF JobsInv, TxCommit, At
  <2>3. CASE handler[h].kind = "feedback" /\ Goto(h, "fail")
    BY <1>6, <2>2, <2>3 DEF PCs
  <2>4. CASE handler[h].kind = "feedback" /\ Goto(h, "complete")
    <3>1. PICK j \in JobRecord :
             /\ handler' = [handler EXCEPT ![h] = j]
             /\ j.pc = "complete"
             /\ j.kind = handler[h].kind /\ j.user = handler[h].user
             /\ j.item = handler[h].item /\ j.profile = handler[h].profile
             /\ j.version = handler[h].version
      BY <1>1, <2>4, GotoDone DEF PCs
    <3>2. NewRow(h) \in Rows(j.user)'
      BY <1>15, <3>1, CommitFacts
    <3>3. /\ NewRow(h).version = j.version /\ NewRow(h).source = j.item
          /\ NewRow(h).profile = j.profile
      BY <3>1 DEF NewRow
    <3>4. j.profile[j.item] > 0
      BY <2>2, <2>4, <3>1 DEF JobOK
    <3>5. HasRow(j)'
      BY <3>2, <3>3, <3>4 DEF HasRow
    <3> QED BY <1>4, <2>2, <2>4, <3>1, <3>4, <3>5 DEF JobOK
  <2> QED BY <1>15, <2>1, <2>3, <2>4 DEF TxCommit
<1>16. ASSUME NEW h \in Handlers, MarkFeedbackCompleted(h) \/ MarkFeedbackFailed(h) \/ Interrupt(h)
       PROVE  JobsInv'
  BY <1>5, <1>16 DEF MarkFeedbackCompleted, MarkFeedbackFailed, Interrupt
<1>17. ASSUME NEW h \in Handlers, TxInsertFails(h) \/ Fail(h) PROVE JobsInv'
  BY <1>7, <1>17 DEF TxInsertFails, Fail, At
<1>18. CASE UNCHANGED vars
  BY <1>18 DEF vars, JobsInv, JobOK, HasRow, Rows
<1> QED
  BY <1>8, <1>9, <1>10, <1>11, <1>12, <1>13, <1>14, <1>15, <1>16, <1>17, <1>18
     DEF Next, Step

--------------------------------------------------------------------------------
(* Types.                                                                     *)
LEMMA TypeStep ==
  ASSUME UpdatesAssumption, TypeOK, TableInv, JobsInv, [Next]_vars
  PROVE  TypeOK'
<1>1. /\ handler \in [Handlers -> JobRecord] /\ snapshots \subseteq Row
      /\ feedback \in [Feedbacks -> FeedbackRow]
      /\ rowLock \in [Users -> Handlers \cup {None}]
      /\ gapLock \in [Users -> SUBSET Handlers]
      /\ starts \in 0..MaxStarts
  BY DEF TypeOK
<1>2. ASSUME NEW h \in Handlers,
             \/ \E f \in Feedbacks : StartFeedback(h, f)
             \/ \E u \in Users : StartRebuild(h, u)
             \/ \E s \in snapshots : StartRollback(h, s)
      PROVE  TypeOK'
  <2>1. /\ starts' \in 0..MaxStarts
        /\ UNCHANGED <<snapshots, feedback, rowLock, gapLock>>
        /\ \E j \in JobRecord : handler' = [handler EXCEPT ![h] = j]
    BY <1>2, StartDone
  <2> QED BY <1>1, <2>1 DEF TypeOK
<1>3. ASSUME NEW h \in Handlers, (\E pc \in PCs : Goto(h, pc)) \/ Stop(h),
             UNCHANGED <<snapshots, starts>>,
             feedback' \in [Feedbacks -> FeedbackRow],
             \/ UNCHANGED <<rowLock, gapLock>>
             \/ Unlock(h)
      PROVE  TypeOK'
  BY <1>1, <1>3, GotoType, UnlockType DEF TypeOK
<1>4. ASSUME NEW h \in Handlers, GiveUp(h) PROVE TypeOK'
  <2>1. "fail" \in PCs
    BY DEF PCs
  <2> QED BY <1>1, <1>3, <1>4, <2>1 DEF GiveUp
<1>5. ASSUME NEW h \in Handlers, UpsertFeedbackReceived(h) PROVE TypeOK'
  <2>1. feedback' \in [Feedbacks -> FeedbackRow]
    BY <1>1, <1>5, FeedbackType DEF UpsertFeedbackReceived
  <2> QED BY <1>3, <1>5, <2>1 DEF UpsertFeedbackReceived, PCs
<1>6. ASSUME NEW h \in Handlers, MarkFeedbackProcessing(h) PROVE TypeOK'
  <2>1. feedback' \in [Feedbacks -> FeedbackRow]
    BY <1>6, FeedbackType DEF MarkFeedbackProcessing
  <2> QED BY <1>3, <1>6, <2>1 DEF MarkFeedbackProcessing, PCs
<1>7. ASSUME NEW h \in Handlers, ListCompleted(h) PROVE TypeOK'
  <2>1. handler' \in [Handlers -> JobRecord]
    BY <1>1, <1>7, ListDone
  <2> QED BY <1>1, <1>7, <2>1 DEF ListCompleted, TypeOK
<1>8. ASSUME NEW h \in Handlers, Load(h) PROVE TypeOK'
  <2>1. handler' \in [Handlers -> JobRecord]
    BY <1>1, <1>8, LoadType, GotoType
  <2> QED BY <1>1, <1>8, <2>1 DEF Load, TypeOK
<1>9. ASSUME NEW h \in Handlers, TxSelect(h) PROVE TypeOK'
  <2>1. handler' \in [Handlers -> JobRecord]
    BY <1>1, <1>9, SelectDone
  <2> QED BY <1>1, <1>9, <2>1 DEF TxSelect, TypeOK
<1>10. ASSUME NEW h \in Handlers, TxUpdate(h) PROVE TypeOK'
  <2>1. handler' \in [Handlers -> JobRecord]
    BY <1>10, GotoType DEF TxUpdate, PCs
  <2>2. gapLock' \in [Users -> SUBSET Handlers] /\ rowLock' \in [Users -> Handlers \cup {None}]
    BY <1>1, <1>10 DEF TxUpdate
  <2> QED BY <1>1, <1>10, <2>1, <2>2 DEF TxUpdate, TypeOK
<1>11. ASSUME NEW h \in Handlers, TxInsert(h) PROVE TypeOK'
  <2>1. handler' \in [Handlers -> JobRecord]
    BY <1>11, GotoType DEF TxInsert, PCs
  <2>2. rowLock' \in [Users -> Handlers \cup {None}]
    BY <1>1, <1>11 DEF TxInsert
  <2> QED BY <1>1, <1>11, <2>1, <2>2 DEF TxInsert, TypeOK
<1>12. ASSUME NEW h \in Handlers, TxCommit(h) PROVE TypeOK'
  <2>1. handler' \in [Handlers -> JobRecord]
    BY <1>12, GotoType DEF TxCommit, PCs
  <2>2. snapshots' \subseteq Row
    BY <1>12, CommitFacts
  <2>3. Unlock(h) /\ UNCHANGED <<feedback, starts>>
    BY <1>12 DEF TxCommit
  <2> QED BY <1>1, <2>1, <2>2, <2>3, UnlockType DEF TypeOK
<1>13. ASSUME NEW h \in Handlers, MarkFeedbackCompleted(h) PROVE TypeOK'
  <2>1. handler[h].version \in Nat
    BY <1>1 DEF JobRecord
  <2>2. feedback' \in [Feedbacks -> FeedbackRow]
    BY <1>13, <2>1, FeedbackType DEF MarkFeedbackCompleted
  <2> QED BY <1>3, <1>13, <2>2 DEF MarkFeedbackCompleted
<1>14. ASSUME NEW h \in Handlers, MarkFeedbackFailed(h) PROVE TypeOK'
  <2>1. feedback' \in [Feedbacks -> FeedbackRow]
    BY <1>14, FeedbackType DEF MarkFeedbackFailed
  <2> QED BY <1>3, <1>14, <2>1 DEF MarkFeedbackFailed
<1>15. ASSUME NEW h \in Handlers, TxInsertFails(h) \/ Fail(h) PROVE TypeOK'
  BY <1>4, <1>15 DEF TxInsertFails, Fail
<1>16. ASSUME NEW h \in Handlers, Interrupt(h) PROVE TypeOK'
  BY <1>1, <1>3, <1>16 DEF Interrupt
<1>17. CASE UNCHANGED vars
  BY <1>1, <1>17 DEF vars, TypeOK
<1> QED
  BY <1>2, <1>5, <1>6, <1>7, <1>8, <1>9, <1>10, <1>11, <1>12, <1>13, <1>14, <1>15,
     <1>16, <1>17 DEF Next, Step

--------------------------------------------------------------------------------
(* The locks of InnoDB.                                                       *)
InTx(h, u) == handler[h].pc \in {"insert", "commit"} /\ handler[h].user = u

LocksInv ==
  /\ \A u \in Users, h \in Handlers : rowLock[u] = h \/ h \in gapLock[u] <=> InTx(h, u)
  /\ \A u \in Users, h \in Handlers :
       handler[h].pc = "commit" /\ handler[h].user = u => rowLock[u] = h
  /\ \A u \in Users : rowLock[u] # None => gapLock[u] \subseteq {rowLock[u]}
  /\ \A u \in Users : gapLock[u] # {} => Rows(u) = {}

(* At most one transaction of a user is about to commit.                      *)
LEMMA OneCommits ==
  ASSUME LocksInv, NEW g \in Handlers, NEW h \in Handlers, NEW u \in Users,
         handler[g].pc = "commit", handler[h].pc = "commit",
         handler[g].user = u, handler[h].user = u
  PROVE  g = h
BY DEF LocksInv

(* A goroutine outside of a transaction moves.                                *)
LEMMA LocksOutside ==
  ASSUME TypeOK, LocksInv, NEW h \in Handlers, NEW j,
         handler' = [handler EXCEPT ![h] = j],
         handler[h].pc \notin {"insert", "commit"}, j.pc \notin {"insert", "commit"},
         UNCHANGED <<snapshots, rowLock, gapLock>>
  PROVE  LocksInv'
<1>1. \A o \in Handlers : handler'[o] = IF o = h THEN j ELSE handler[o]
  BY DEF TypeOK
<1>2. \A o \in Handlers, u \in Users : InTx(o, u)' <=> InTx(o, u)
  BY <1>1 DEF InTx
<1>3. \A o \in Handlers, u \in Users :
        handler'[o].pc = "commit" /\ handler'[o].user = u =>
          handler[o].pc = "commit" /\ handler[o].user = u
  BY <1>1
<1> QED BY <1>2, <1>3 DEF LocksInv, Rows

(* A transaction ends.                                                        *)
LEMMA LocksReleased ==
  ASSUME UpdatesAssumption, TypeOK, LocksInv, NEW h \in Handlers, NEW j,
         handler' = [handler EXCEPT ![h] = j], j.pc \notin {"insert", "commit"},
         Unlock(h),
         \A u \in Users : Rows(u)' = Rows(u) \/ rowLock[u] = h
  PROVE  LocksInv'
<1>1. \A o \in Handlers : handler'[o] = IF o = h THEN j ELSE handler[o]
  BY DEF TypeOK
<1>2. \A u \in Users : /\ rowLock'[u] = IF rowLock[u] = h THEN None ELSE rowLock[u]
                       /\ gapLock'[u] = gapLock[u] \ {h}
  BY DEF Unlock
<1>3. \A o \in Handlers, u \in Users : InTx(o, u)' <=> InTx(o, u) /\ o # h
  BY <1>1 DEF InTx
<1>4. None \notin Handlers
  BY DEF UpdatesAssumption
<1>5. \A u \in Users, o \in Handlers :
        rowLock'[u] = o \/ o \in gapLock'[u] <=> InTx(o, u)'
  BY <1>2, <1>3, <1>4 DEF LocksInv
<1>6. \A u \in Users, o \in Handlers :
        handler'[o].pc = "commit" /\ handler'[o].user = u => rowLock'[u] = o
  BY <1>1, <1>2 DEF LocksInv
<1>7. \A u \in Users : rowLock'[u] # None => gapLock'[u] \subseteq {rowLock'[u]}
  BY <1>2 DEF LocksInv
<1>8. \A u \in Users : gapLock'[u] # {} => Rows(u)' = {}
  BY <1>2, <1>4 DEF LocksInv
<1> QED BY <1>5, <1>6, <1>7, <1>8 DEF LocksInv

LEMMA LocksStep ==
  ASSUME UpdatesAssumption, TypeOK, TableInv, JobsInv, LocksInv, [Next]_vars
  PROVE  LocksInv'
<1>1. handler \in [Handlers -> JobRecord] /\ rowLock \in [Users -> Handlers \cup {None}]
      /\ gapLock \in [Users -> SUBSET Handlers] /\ None \notin Handlers
  BY DEF TypeOK, UpdatesAssumption
<1>2. ASSUME NEW h \in Handlers, Stop(h) \/ \E pc \in PCs \ {"insert", "commit"} : Goto(h, pc)
      PROVE  \E j : handler' = [handler EXCEPT ![h] = j] /\ j.pc \notin {"insert", "commit"}
  BY <1>1, <1>2, GotoDone, NewJobs DEF Stop
<1>3. ASSUME NEW h \in Handlers,
             \E j : handler' = [handler EXCEPT ![h] = j] /\ j.pc \notin {"insert", "commit"},
             handler[h].pc \notin {"insert", "commit"},
             UNCHANGED <<snapshots, rowLock, gapLock>>
      PROVE  LocksInv'
  BY <1>3, LocksOutside
<1>4. ASSUME NEW h \in Handlers,
             \E j : handler' = [handler EXCEPT ![h] = j] /\ j.pc \notin {"insert", "commit"},
             Unlock(h), UNCHANGED snapshots
      PROVE  LocksInv'
  BY <1>4, LocksReleased DEF Rows
<1>5. ASSUME NEW h \in Handlers,
             \/ \E f \in Feedbacks : StartFeedback(h, f)
             \/ \E u \in Users : StartRebuild(h, u)
             \/ \E s \in snapshots : StartRollback(h, s)
      PROVE  LocksInv'
  BY <1>3, <1>5, StartDone
<1>6. ASSUME NEW h \in Handlers,
             \/ UpsertFeedbackReceived(h) \/ MarkFeedbackProcessing(h)
             \/ MarkFeedbackCompleted(h) \/ MarkFeedbackFailed(h)
      PROVE  LocksInv'
  <2>1. Stop(h) \/ \E pc \in PCs \ {"insert", "commit"} : Goto(h, pc)
    BY <1>6 DEF UpsertFeedbackReceived, MarkFeedbackProcessing, MarkFeedbackCompleted,
       MarkFeedbackFailed, PCs
  <2> QED
    BY <1>2, <1>3, <1>6, <2>1 DEF UpsertFeedbackReceived, MarkFeedbackProcessing,
       MarkFeedbackCompleted, MarkFeedbackFailed, At
<1>7. ASSUME NEW h \in Handlers, ListCompleted(h) PROVE LocksInv'
  BY <1>3, <1>7, ListDone DEF ListCompleted, At
<1>8. ASSUME NEW h \in Handlers, Load(h) PROVE LocksInv'
  BY <1>2, <1>3, <1>8, LoadType DEF Load, At
<1>9. ASSUME NEW h \in Handlers, TxSelect(h) PROVE LocksInv'
  BY <1>3, <1>9, SelectDone DEF TxSelect, At
<1>10. ASSUME NEW h \in Handlers, TxInsertFails(h) \/ Fail(h) \/ Interrupt(h) PROVE LocksInv'
  <2>1. Unlock(h) /\ UNCHANGED snapshots
    BY <1>10 DEF TxInsertFails, Fail, GiveUp, Interrupt
  <2>2. Stop(h) \/ \E pc \in PCs \ {"insert", "commit"} : Goto(h, pc)
    BY <1>10 DEF TxInsertFails, Fail, GiveUp, Interrupt, PCs
  <2> QED BY <1>2, <1>4, <2>1, <2>2
<1>11. ASSUME NEW h \in Handlers, TxCommit(h) PROVE LocksInv'
  <2>1. Unlock(h) /\ (Stop(h) \/ \E pc \in PCs \ {"insert", "commit"} : Goto(h, pc))
    BY <1>11 DEF TxCommit, PCs
  <2>2. PICK u : u = handler[h].user
    OBVIOUS
  <2>3. u \in Users /\ \A w : w # u => Rows(w)' = Rows(w)
    BY <1>11, <2>2, CommitFacts
  <2>4. rowLock[u] = h
    BY <1>11, <2>2, <2>3 DEF LocksInv, TxCommit, At
  <2> QED BY <1>2, <1>11, <2>1, <2>3, <2>4, LocksReleased
<1>12. ASSUME NEW h \in Handlers, TxUpdate(h) PROVE LocksInv'
  <2> DEFINE u == handler[h].user
  <2>1. PICK j \in JobRecord :
          handler' = [handler EXCEPT ![h] = j] /\ j.pc = "insert" /\ j.user = u
    <3>1. Goto(h, "insert") /\ "insert" \in PCs
      BY <1>12 DEF TxUpdate, PCs
    <3> QED BY <1>1, <3>1, GotoDone
  <2>2. handler[h].pc = "update" /\ rowLock[u] = None /\ UNCHANGED snapshots
    BY <1>12 DEF TxUpdate, At
  <2>3. u \in Users
    BY <2>2 DEF JobsInv, JobOK
  <2>4. \A o \in Handlers : handler'[o] = IF o = h THEN j ELSE handler[o]
    BY <1>1, <2>1
  <2>5. \A o \in Handlers, w \in Users : InTx(o, w)' <=> InTx(o, w) \/ (o = h /\ w = u)
    BY <2>1, <2>2, <2>4 DEF InTx
  <2>6. \A o \in Handlers, w \in Users :
          handler'[o].pc = "commit" /\ handler'[o].user = w =>
            handler[o].pc = "commit" /\ handler[o].user = w
    BY <2>1, <2>4
  <2>7. \A w : Rows(w)' = Rows(w)
    BY <2>2 DEF Rows
  <2>8. CASE Rows(u) = {}
    <3>1. \A w \in Users : gapLock'[w] = IF w = u THEN gapLock[w] \cup {h} ELSE gapLock[w]
      BY <1>1, <1>12, <2>8 DEF TxUpdate
    <3>2. rowLock' = rowLock
      BY <1>12, <2>8 DEF TxUpdate
    <3>3. \A o \in Handlers, w \in Users : rowLock'[w] = o \/ o \in gapLock'[w] <=> InTx(o, w)'
      <4> TAKE o \in Handlers, w \in Users
      <4>1. rowLock[w] = o \/ o \in gapLock[w] <=> InTx(o, w)
        BY DEF LocksInv
      <4>2. o \in gapLock'[w] <=> o \in gapLock[w] \/ (o = h /\ w = u)
        BY <3>1
      <4> QED BY <2>5, <3>2, <4>1, <4>2
    <3>4. \A o \in Handlers, w \in Users :
            handler'[o].pc = "commit" /\ handler'[o].user = w => rowLock'[w] = o
      BY <2>6, <3>2 DEF LocksInv
    <3>5. \A w \in Users : rowLock'[w] # None => gapLock'[w] \subseteq {rowLock'[w]}
      BY <2>2, <3>1, <3>2 DEF LocksInv
    <3>6. \A w \in Users : gapLock'[w] # {} => Rows(w)' = {}
      BY <2>7, <2>8, <3>1 DEF LocksInv
    <3> QED BY <3>3, <3>4, <3>5, <3>6 DEF LocksInv
  <2>9. CASE Rows(u) # {}
    <3>1. \A w \in Users : rowLock'[w] = IF w = u THEN h ELSE rowLock[w]
      BY <1>1, <1>12, <2>9 DEF TxUpdate
    <3>2. gapLock' = gapLock /\ gapLock[u] = {}
      BY <1>12, <2>3, <2>9 DEF TxUpdate, LocksInv
    <3> QED BY <1>1, <2>2, <2>5, <2>6, <2>7, <2>9, <3>1, <3>2 DEF LocksInv
  <2> QED BY <2>8, <2>9
<1>13. ASSUME NEW h \in Handlers, TxInsert(h) PROVE LocksInv'
  <2> DEFINE u == handler[h].user
  <2>1. PICK j \in JobRecord :
          handler' = [handler EXCEPT ![h] = j] /\ j.pc = "commit" /\ j.user = u
    <3>1. Goto(h, "commit") /\ "commit" \in PCs
      BY <1>13 DEF TxInsert, PCs
    <3> QED BY <1>1, <3>1, GotoDone
  <2>2. handler[h].pc = "insert" /\ gapLock[u] \subseteq {h} /\ UNCHANGED <<snapshots, gapLock>>
    BY <1>13 DEF TxInsert, At, Awaited
  <2>3. u \in Users
    BY <2>2 DEF JobsInv, JobOK
  <2>4. \A o \in Handlers : handler'[o] = IF o = h THEN j ELSE handler[o]
    BY <1>1, <2>1
  <2>5. \A o \in Handlers, w \in Users : InTx(o, w)' <=> InTx(o, w)
    BY <2>1, <2>2, <2>4 DEF InTx
  <2>6. \A w \in Users : rowLock'[w] = IF w = u THEN h ELSE rowLock[w]
    BY <1>1, <1>13 DEF TxInsert
  <2>7. rowLock[u] \in {h, None}
    <3>1. rowLock[u] = h \/ h \in gapLock[u]
      BY <2>2, <2>3 DEF LocksInv, InTx
    <3> QED BY <2>3, <3>1 DEF LocksInv
  <2>8. \A w : Rows(w)' = Rows(w)
    BY <2>2 DEF Rows
  <2>9. \A o \in Handlers, w \in Users : rowLock'[w] = o \/ o \in gapLock'[w] <=> InTx(o, w)'
    BY <1>1, <2>2, <2>3, <2>5, <2>6, <2>7 DEF LocksInv, InTx
  <2>10. \A o \in Handlers, w \in Users :
           handler'[o].pc = "commit" /\ handler'[o].user = w => rowLock'[w] = o
    BY <1>1, <2>1, <2>3, <2>4, <2>6, <2>7 DEF LocksInv
  <2>11. \A w \in Users : rowLock'[w] # None => gapLock'[w] \subseteq {rowLock'[w]}
    BY <2>2, <2>6 DEF LocksInv
  <2>12. \A w \in Users : gapLock'[w] # {} => Rows(w)' = {}
    BY <2>2, <2>8 DEF LocksInv
  <2> QED BY <2>9, <2>10, <2>11, <2>12 DEF LocksInv
<1>14. CASE UNCHANGED vars
  BY <1>14 DEF vars, LocksInv, InTx, Rows
<1> QED
  BY <1>5, <1>6, <1>7, <1>8, <1>9, <1>10, <1>11, <1>12, <1>13, <1>14 DEF Next, Step

--------------------------------------------------------------------------------
(* The versions.                                                              *)
VersionsInv ==
  /\ \A h \in Handlers : handler[h].pc \in {"update", "insert", "commit"} =>
       handler[h].version \in 1..(Count(handler[h].user) + 1)
  /\ \A h \in Handlers : handler[h].pc = "commit" =>
       handler[h].version = Count(handler[h].user) + 1

Projection(s) == [version |-> s.version, profile |-> s.profile, source |-> s.source]

(* COMMIT adds the next version, and leaves no other active.                  *)
LEMMA CommitAdds ==
  ASSUME TypeOK, TableInv, JobsInv, LocksInv, VersionsInv, NEW h \in Handlers, TxCommit(h),
         NEW u, u = handler[h].user
  PROVE  /\ u \in Users
         /\ Versions(u)' = Versions(u) \cup {Projection(NewRow(h))}
         /\ NewRow(h).version = Count(u) + 1
         /\ Count(u)' = Count(u) + 1
         /\ {s.version : s \in {r \in Rows(u) : r.active}}' = {Count(u) + 1}
         /\ RowsInv(u)'
<1> DEFINE Old == {[s EXCEPT !.active = FALSE] : s \in Rows(u)}
<1>1. /\ u \in Users
      /\ NewRow(h) \in Row
      /\ Rows(u)' = Old \cup {NewRow(h)}
  BY CommitFacts
<1>2. RowsInv(u) /\ Count(u) \in Nat
  BY <1>1, CountFact DEF TableInv
<1>3. NewRow(h).version = Count(u) + 1 /\ NewRow(h).active = TRUE
  BY DEF NewRow, VersionsInv, TxCommit, At
<1>4. Rows(u) \subseteq Row
  BY DEF TypeOK, Rows
<1>5. \A s \in Row : /\ [s EXCEPT !.active = FALSE].active = FALSE
                     /\ [s EXCEPT !.active = FALSE].version = s.version
                     /\ Projection([s EXCEPT !.active = FALSE]) = Projection(s)
  BY DEF Row, Projection
<1>6. {Projection(s) : s \in Old} = {Projection(s) : s \in Rows(u)}
  <2>1. \A s \in Rows(u) : Projection([s EXCEPT !.active = FALSE]) = Projection(s)
    BY <1>4, <1>5
  <2> HIDE DEF Projection
  <2> QED BY <2>1
<1>7. Versions(u)' = Versions(u) \cup {Projection(NewRow(h))}
  <2>1. Versions(u) = {Projection(s) : s \in Rows(u)}
    BY DEF Versions, Projection
  <2>2. Versions(u)' = {Projection(s) : s \in Rows(u)'}
    BY DEF Versions, Projection
  <2> HIDE DEF Old
  <2> QED BY <1>1, <1>6, <2>1, <2>2
<1>8. Projection(NewRow(h)) \notin Versions(u)
  <2>1. \A s \in Rows(u) : s.version # Count(u) + 1
    BY <1>2 DEF RowsInv
  <2> QED BY <1>3, <2>1 DEF Versions, Projection
<1>9. IsFiniteSet(Versions(u)') /\ Count(u)' = Count(u) + 1
  BY <1>2, <1>7, <1>8, FS_AddElement DEF RowsInv, Count
<1>10. \A s \in Old : s.active = FALSE /\ \E o \in Rows(u) : s.version = o.version
  <2> TAKE s \in Old
  <2>1. PICK o \in Rows(u) : s = [o EXCEPT !.active = FALSE]
    OBVIOUS
  <2>2. o \in Row
    BY <1>4
  <2> QED BY <1>5, <2>1, <2>2
<1>11. \A o \in Rows(u) : \E s \in Old : s.version = o.version
  BY <1>4, <1>5
<1> HIDE DEF Old
<1>12. {s.version : s \in {r \in Rows(u) : r.active}}' = {Count(u) + 1}
  BY <1>1, <1>3, <1>10
<1>13. /\ \A s \in Old : s.version \in 1..Count(u)
       /\ \A v \in 1..Count(u) : \E s \in Old : s.version = v
  BY <1>2, <1>10, <1>11 DEF RowsInv
<1>14. RowsInv(u)'
  <2>1. \A s \in Rows(u)' : s.version \in 1..Count(u)'
    BY <1>1, <1>2, <1>3, <1>9, <1>13
  <2>2. \A s \in Rows(u)' : s.active <=> s.version = Count(u)'
    BY <1>1, <1>2, <1>3, <1>9, <1>10, <1>13
  <2>3. \A v \in 1..Count(u)' : \E s \in Rows(u)' : s.version = v
    BY <1>1, <1>2, <1>3, <1>9, <1>13
  <2> QED BY <1>9, <2>1, <2>2, <2>3 DEF RowsInv
<1> QED BY <1>1, <1>3, <1>7, <1>9, <1>12, <1>14

(* Every other row of the table keeps its place.                              *)
LEMMA OthersKept ==
  ASSUME NEW u, Rows(u)' = Rows(u)
  PROVE  /\ Versions(u)' = Versions(u) /\ Count(u)' = Count(u)
         /\ RowsInv(u) => RowsInv(u)'
         /\ {s.version : s \in {r \in Rows(u) : r.active}}'
              = {s.version : s \in {r \in Rows(u) : r.active}}
<1>1. Versions(u)' = Versions(u)
  BY DEF Versions
<1>2. Count(u)' = Count(u)
  BY <1>1 DEF Count
<1> QED BY <1>1, <1>2 DEF RowsInv

LEMMA TableStep ==
  ASSUME TypeOK, TableInv, JobsInv, LocksInv, VersionsInv,
         UNCHANGED snapshots \/ \E h \in Handlers : TxCommit(h)
  PROVE  TableInv'
<1>1. CASE UNCHANGED snapshots
  <2>1. \A u : Rows(u)' = Rows(u)
    BY <1>1 DEF Rows
  <2> QED BY <2>1, OthersKept DEF TableInv
<1>2. ASSUME NEW h \in Handlers, TxCommit(h) PROVE TableInv'
  <2>1. PICK u : u = handler[h].user
    OBVIOUS
  <2>2. RowsInv(u)'
    BY <1>2, <2>1, CommitAdds
  <2>3. \A w : w # u => Rows(w)' = Rows(w)
    BY <1>2, <2>1, CommitFacts
  <2>4. ASSUME NEW w \in Users PROVE RowsInv(w)'
    BY <2>2, <2>3, <2>4, OthersKept DEF TableInv
  <2> QED BY <2>4 DEF TableInv
<1> QED BY <1>1, <1>2

(* A transaction that got its number before another one committed may hold    *)
(* an old one, never one past the next.  INSERT tells the difference.         *)
LEMMA VersionsStep ==
  ASSUME UpdatesAssumption, TypeOK, TableInv, JobsInv, LocksInv, VersionsInv, [Next]_vars
  PROVE  VersionsInv'
<1> DEFINE Tx == {"update", "insert", "commit"}
           OK(j) == /\ j.pc \in Tx => j.version \in 1..(Count(j.user) + 1)
                    /\ j.pc = "commit" => j.version = Count(j.user) + 1
<1>1. handler \in [Handlers -> JobRecord]
  BY DEF TypeOK
<1>2. \A u \in Users : Count(u) \in Nat
  BY CountFact DEF TableInv
<1>3. \A h \in Handlers : OK(handler[h])
  BY DEF VersionsInv
<1>4. ASSUME UNCHANGED snapshots PROVE \A u : Count(u)' = Count(u)
  BY <1>4, OthersKept DEF Rows
<1>5. ASSUME NEW h \in Handlers, NEW j, handler' = [handler EXCEPT ![h] = j],
             UNCHANGED snapshots, OK(j)
      PROVE  VersionsInv'
  <2>1. \A o \in Handlers : handler'[o] = IF o = h THEN j ELSE handler[o]
    BY <1>1, <1>5
  <2>2. \A o \in Handlers : OK(handler'[o])
    BY <1>3, <1>5, <2>1
  <2>3. \A u : Count(u)' = Count(u)
    BY <1>4, <1>5
  <2> QED BY <2>2, <2>3 DEF VersionsInv
<1>6. ASSUME NEW h \in Handlers, UNCHANGED snapshots,
             Stop(h) \/ \E pc \in PCs \ Tx : Goto(h, pc)
      PROVE  VersionsInv'
  <2>1. \E j : handler' = [handler EXCEPT ![h] = j] /\ j.pc \notin Tx
    BY <1>1, <1>6, GotoDone, NewJobs DEF Stop
  <2> QED BY <1>5, <1>6, <2>1
<1>7. ASSUME NEW h \in Handlers,
             \/ \E f \in Feedbacks : StartFeedback(h, f)
             \/ \E u \in Users : StartRebuild(h, u)
             \/ \E s \in snapshots : StartRollback(h, s)
      PROVE  VersionsInv'
  <2>1. UNCHANGED snapshots /\ \E j : handler' = [handler EXCEPT ![h] = j] /\ j.pc \notin Tx
    BY <1>7, StartDone
  <2> QED BY <1>5, <2>1
<1>8. ASSUME NEW h \in Handlers, ListCompleted(h) \/ Load(h) PROVE VersionsInv'
  <2>1. UNCHANGED snapshots
    BY <1>8 DEF ListCompleted, Load
  <2>2. \E j : handler' = [handler EXCEPT ![h] = j] /\ j.pc \notin Tx
    BY <1>8, ListDone, LoadType, NewJobs DEF Stop
  <2> QED BY <1>5, <2>1, <2>2
<1>9. ASSUME NEW h \in Handlers, TxSelect(h) PROVE VersionsInv'
  <2>1. UNCHANGED snapshots
    BY <1>9 DEF TxSelect
  <2>2. \E j : /\ handler' = [handler EXCEPT ![h] = j]
               /\ j.pc = "update" /\ j.version \in 1..(Count(j.user) + 1)
    BY <1>9, SelectDone
  <2> QED BY <1>5, <2>1, <2>2
<1>10. ASSUME NEW h \in Handlers, TxUpdate(h) PROVE VersionsInv'
  <2>1. Goto(h, "insert") /\ "insert" \in PCs /\ UNCHANGED snapshots /\ handler[h].pc = "update"
    BY <1>10 DEF TxUpdate, PCs, At
  <2>2. PICK j : /\ handler' = [handler EXCEPT ![h] = j] /\ j.pc = "insert"
                 /\ j.user = handler[h].user /\ j.version = handler[h].version
    BY <1>1, <2>1, GotoDone
  <2>3. OK(j)
    BY <1>3, <2>1, <2>2
  <2> QED BY <1>5, <2>1, <2>2, <2>3
<1>11. ASSUME NEW h \in Handlers, TxInsert(h) PROVE VersionsInv'
  <2> DEFINE u == handler[h].user
  <2>1. /\ Goto(h, "commit") /\ "commit" \in PCs /\ UNCHANGED snapshots
        /\ handler[h].pc = "insert" /\ ~Repeated(h)
    BY <1>11 DEF TxInsert, PCs, At
  <2>2. PICK j : /\ handler' = [handler EXCEPT ![h] = j] /\ j.pc = "commit"
                 /\ j.user = u /\ j.version = handler[h].version
    BY <1>1, <2>1, GotoDone
  <2>3. u \in Users
    BY <2>1 DEF JobsInv, JobOK
  <2>4. handler[h].version \in 1..(Count(u) + 1)
    BY <1>3, <2>1
  <2>5. \A v \in 1..Count(u) : \E s \in Rows(u) : s.version = v
    BY <2>3 DEF TableInv, RowsInv
  <2>6. handler[h].version \notin 1..Count(u)
    BY <2>1, <2>5 DEF Repeated
  <2>7. handler[h].version = Count(u) + 1
    BY <1>2, <2>3, <2>4, <2>6
  <2>8. OK(j)
    BY <2>2, <2>4, <2>7
  <2> QED BY <1>5, <2>1, <2>2, <2>8
<1>12. ASSUME NEW h \in Handlers, TxCommit(h) PROVE VersionsInv'
  <2>1. PICK u : u = handler[h].user
    OBVIOUS
  <2>2. u \in Users /\ Count(u)' = Count(u) + 1
    BY <1>12, <2>1, CommitAdds
  <2>3. \A w : w # u => Rows(w)' = Rows(w)
    BY <1>12, <2>1, CommitFacts
  <2>4. \A w : w # u => Count(w)' = Count(w)
    BY <2>3, OthersKept
  <2>5. \E j : handler' = [handler EXCEPT ![h] = j] /\ j.pc \notin Tx
    BY <1>1, <1>12, GotoDone, NewJobs DEF TxCommit, Stop, PCs
  <2>6. PICK j : handler' = [handler EXCEPT ![h] = j] /\ j.pc \notin Tx
    BY <2>5
  <2>7. \A o \in Handlers : handler'[o] = IF o = h THEN j ELSE handler[o]
    BY <1>1, <2>6
  <2>8. handler[h].pc = "commit"
    BY <1>12 DEF TxCommit, At
  <2>9. ASSUME NEW o \in Handlers, NEW w, w = handler'[o].user, handler'[o].pc \in Tx
        PROVE  /\ handler'[o].version \in 1..(Count(w)' + 1)
               /\ handler'[o].pc = "commit" => handler'[o].version = Count(w)' + 1
    <3>1. o # h /\ handler'[o] = handler[o] /\ OK(handler[o]) /\ w = handler[o].user
      BY <1>3, <2>6, <2>7, <2>9
    <3>2. w \in Users
      BY <2>9, <3>1 DEF JobsInv, JobOK
    <3>3. CASE w = u
      <4>1. handler[o].pc # "commit"
        BY <2>1, <2>2, <2>8, <3>1, <3>3, OneCommits
      <4>2. handler[o].version \in 1..(Count(u) + 1)
        BY <2>9, <3>1, <3>3
      <4>3. handler[o].version \in 1..(Count(u)' + 1)
        BY <1>2, <2>2, <4>2
      <4> QED BY <3>1, <3>3, <4>1, <4>3
    <3>4. CASE w # u
      BY <2>4, <2>9, <3>1, <3>4
    <3> QED BY <3>3, <3>4
  <2> QED BY <2>9 DEF VersionsInv
<1>13. ASSUME NEW h \in Handlers,
              \/ UpsertFeedbackReceived(h) \/ MarkFeedbackProcessing(h)
              \/ MarkFeedbackCompleted(h) \/ MarkFeedbackFailed(h)
              \/ TxInsertFails(h) \/ Fail(h) \/ Interrupt(h)
       PROVE  VersionsInv'
  <2>1. UNCHANGED snapshots
    BY <1>13 DEF UpsertFeedbackReceived, MarkFeedbackProcessing, MarkFeedbackCompleted,
       MarkFeedbackFailed, TxInsertFails, Fail, Interrupt, GiveUp
  <2>2. Stop(h) \/ \E pc \in PCs \ Tx : Goto(h, pc)
    BY <1>13 DEF UpsertFeedbackReceived, MarkFeedbackProcessing, MarkFeedbackCompleted,
       MarkFeedbackFailed, TxInsertFails, Fail, Interrupt, GiveUp, PCs
  <2> QED BY <1>6, <2>1, <2>2
<1>14. CASE UNCHANGED vars
  <2>1. handler' = handler /\ \A u : Count(u)' = Count(u)
    BY <1>4, <1>14 DEF vars
  <2> QED BY <2>1 DEF VersionsInv
<1> QED
  BY <1>7, <1>8, <1>9, <1>10, <1>11, <1>12, <1>13, <1>14 DEF Next, Step

--------------------------------------------------------------------------------
(* The invariant of all of it, and its consequences.                          *)
UpdatesInv == TypeOK /\ TableInv /\ JobsInv /\ LocksInv /\ VersionsInv

LEMMA TableSteps ==
  ASSUME [Next]_vars PROVE UNCHANGED snapshots \/ \E h \in Handlers : TxCommit(h)
BY DEF Next, vars, StartFeedback, StartRebuild, StartRollback, Start, Step,
   UpsertFeedbackReceived, MarkFeedbackProcessing, ListCompleted, Load, TxSelect, TxUpdate,
   TxInsert, TxInsertFails, MarkFeedbackCompleted, MarkFeedbackFailed, Fail, Interrupt, GiveUp

LEMMA UpdatesInit == Init => UpdatesInv
<1> SUFFICES ASSUME Init PROVE UpdatesInv
  OBVIOUS
<1>1. TypeOK
  BY TypeInit
<1>2. \A h \in Handlers : handler[h] = Idle
  BY DEF Init
<1>3. \A u : Rows(u) = {} /\ Versions(u) = {}
  BY DEF Init, Rows, Versions
<1>4. TableInv
  BY <1>3, FS_EmptySet DEF TableInv, RowsInv, Count
<1>5. JobsInv
  BY <1>2, NewJobs DEF JobsInv, JobOK
<1>6. LocksInv
  BY <1>2, <1>3, NewJobs, UpdatesAssumption DEF LocksInv, InTx, Init, UpdatesAssumption
<1>7. VersionsInv
  BY <1>2, NewJobs DEF VersionsInv
<1> QED BY <1>1, <1>4, <1>5, <1>6, <1>7 DEF UpdatesInv

LEMMA UpdatesStep == UpdatesInv /\ [Next]_vars => UpdatesInv'
BY UpdatesAssumption, TableSteps, TableStep, JobsStep, TypeStep, LocksStep, VersionsStep
   DEF UpdatesInv

(* Whatever overlaps, waits, fails or stops: the versions of a user are       *)
(* numbered without a gap, the newest and no other is active, the locks of    *)
(* InsertUserProfileSnapshotVersion let one transaction of a user at a time   *)
(* reach its COMMIT, and the number it computed before it held a lock is then *)
(* the next one.                                                              *)
THEOREM UpdatesCorrect == Spec => []UpdatesInv
<1>1. Init => UpdatesInv
  BY UpdatesInit
<1>2. UpdatesInv /\ [Next]_vars => UpdatesInv'
  BY UpdatesStep
<1> QED BY <1>1, <1>2, PTL DEF Spec

(* The rows, locks and goroutines have their types, for any number of them.   *)
THEOREM TypeCorrect == Spec => []TypeOK
<1>1. UpdatesInv => TypeOK
  BY DEF UpdatesInv
<1> QED BY <1>1, UpdatesCorrect, PTL

LEMMA CompletedStep == UpdatesInv /\ CompletedHasVersion /\ [Next]_vars => CompletedHasVersion'
<1> SUFFICES ASSUME UpdatesInv, CompletedHasVersion, [Next]_vars PROVE CompletedHasVersion'
  OBVIOUS
<1> USE DEF UpdatesInv
<1> DEFINE Made(f, v) == \E s \in Rows(UserOf[f]) :
                           s.version = v /\ s.source = f /\ s.profile[f] > 0
<1>1. ASSUME NEW f, NEW v, Made(f, v) PROVE Made(f, v)'
  BY <1>1, TableSteps, RowsKept
<1>2. ASSUME NEW f \in Feedbacks, feedback'[f] = feedback[f], feedback'[f].status = "completed",
             NEW v, v = feedback'[f].version
      PROVE  Made(f, v)'
  BY <1>1, <1>2 DEF CompletedHasVersion
<1>3. ASSUME UNCHANGED feedback PROVE CompletedHasVersion'
  <2>1. \A f \in Feedbacks : feedback'[f] = feedback[f]
    BY <1>3
  <2>2. ASSUME NEW f \in Feedbacks, feedback'[f].status = "completed",
               NEW v, v = feedback'[f].version
        PROVE  Made(f, v)'
    BY <1>2, <2>1, <2>2
  <2> QED BY <2>2 DEF CompletedHasVersion
<1>4. ASSUME NEW h \in Handlers, NEW row, row.status # "completed",
             feedback' = [feedback EXCEPT ![handler[h].item] = row]
      PROVE  CompletedHasVersion'
  <2>1. \A f \in Feedbacks : feedback'[f] = IF f = handler[h].item THEN row ELSE feedback[f]
    BY <1>4 DEF TypeOK
  <2>2. ASSUME NEW f \in Feedbacks, feedback'[f].status = "completed",
               NEW v, v = feedback'[f].version
        PROVE  Made(f, v)'
    BY <1>2, <1>4, <2>1, <2>2
  <2> QED BY <2>2 DEF CompletedHasVersion
<1>5. ASSUME NEW h \in Handlers, UpsertFeedbackReceived(h) PROVE CompletedHasVersion'
  <2>1. UNCHANGED feedback \/ SetFeedback(h, "received", 0)
    BY <1>5 DEF UpsertFeedbackReceived
  <2>2. [status |-> "received", version |-> 0].status # "completed"
    OBVIOUS
  <2> QED BY <1>3, <1>4, <2>1, <2>2 DEF SetFeedback
<1>6. ASSUME NEW h \in Handlers, MarkFeedbackProcessing(h) \/ MarkFeedbackFailed(h)
      PROVE  CompletedHasVersion'
  <2>1. PICK status \in {"processing", "failed"} : KeepVersion(h, status)
    BY <1>6 DEF MarkFeedbackProcessing, MarkFeedbackFailed
  <2> DEFINE row == [feedback[handler[h].item] EXCEPT !.status = status]
  <2>2. feedback' = [feedback EXCEPT ![handler[h].item] = row]
    BY <2>1 DEF KeepVersion
  <2>3. \A f \in Feedbacks : [feedback[f] EXCEPT !.status = status].status # "completed"
    BY DEF TypeOK, FeedbackRow
  <2>4. handler[h].item \in Feedbacks
    BY <1>6 DEF MarkFeedbackProcessing, MarkFeedbackFailed, At, JobsInv, JobOK
  <2>5. row.status # "completed"
    BY <2>3, <2>4
  <2> HIDE DEF row
  <2> QED BY <1>4, <2>2, <2>5
<1>7. ASSUME NEW h \in Handlers, MarkFeedbackCompleted(h) PROVE CompletedHasVersion'
  <2>1. PICK f : f = handler[h].item
    OBVIOUS
  <2>2. /\ f \in Feedbacks /\ handler[h].user = UserOf[f] /\ HasRow(handler[h])
    BY <1>7, <2>1 DEF MarkFeedbackCompleted, At, JobsInv, JobOK
  <2>3. PICK v : v = handler[h].version
    OBVIOUS
  <2>4. Made(f, v)'
    BY <1>1, <2>1, <2>2, <2>3 DEF HasRow
  <2>5. feedback' = [feedback EXCEPT ![f] = [status |-> "completed", version |-> v]]
    BY <1>7, <2>1, <2>3 DEF MarkFeedbackCompleted, SetFeedback
  <2>6. ASSUME NEW g \in Feedbacks, feedback'[g].status = "completed",
               NEW w, w = feedback'[g].version
        PROVE  Made(g, w)'
    <3>1. CASE g = f
      <4>1. w = v
        BY <2>5, <2>6, <3>1 DEF TypeOK
      <4> QED BY <2>4, <3>1, <4>1
    <3>2. CASE g # f
      <4>1. feedback'[g] = feedback[g]
        BY <2>5, <3>2 DEF TypeOK
      <4> QED BY <1>2, <2>6, <4>1
    <3> QED BY <3>1, <3>2
  <2> QED BY <2>6 DEF CompletedHasVersion
<1>8. ASSUME NEW h \in Handlers,
             \/ \E f \in Feedbacks : StartFeedback(h, f)
             \/ \E u \in Users : StartRebuild(h, u)
             \/ \E s \in snapshots : StartRollback(h, s)
             \/ ListCompleted(h) \/ Load(h) \/ TxSelect(h) \/ TxUpdate(h) \/ TxInsert(h)
             \/ TxInsertFails(h) \/ TxCommit(h) \/ Fail(h) \/ Interrupt(h)
      PROVE  CompletedHasVersion'
  <2>1. UNCHANGED feedback
    BY <1>8 DEF StartFeedback, StartRebuild, StartRollback, Start, ListCompleted, Load, TxSelect,
       TxUpdate, TxInsert, TxInsertFails, TxCommit, Fail, Interrupt, GiveUp
  <2> QED BY <1>3, <2>1
<1>9. CASE UNCHANGED vars
  BY <1>3, <1>9 DEF vars
<1> QED BY <1>5, <1>6, <1>7, <1>8, <1>9 DEF Next, Step

(* MarkFeedbackCompleted runs after COMMIT, with a number that was computed   *)
(* before it; what it points to is the version made for that feedback, and    *)
(* stays so.                                                                  *)
THEOREM CompletedAlwaysHasVersion == Spec => []CompletedHasVersion
<1>1. Init => CompletedHasVersion
  BY DEF Init, CompletedHasVersion
<1>2. UpdatesInv /\ CompletedHasVersion /\ [Next]_vars => CompletedHasVersion'
  BY CompletedStep
<1> QED BY <1>1, <1>2, UpdatesCorrect, PTL DEF Spec

--------------------------------------------------------------------------------
(* The table is a version history.                                            *)
Active(u) == {s.version : s \in {r \in Rows(u) : r.active}}

LEMMA HistoryInit == Init => History!Init
BY DEF Init, History!Init, Versions, Rows

LEMMA HistoryStep ==
  UpdatesInv /\ [Next]_vars =>
    [History!Next]_<<[u \in Users |-> Versions(u)],
                     [u \in Users |-> {s.version : s \in {r \in Rows(u) : r.active}}]>>
<1> SUFFICES ASSUME UpdatesInv, [Next]_vars
             PROVE  [History!Next]_<<[u \in Users |-> Versions(u)],
                      [u \in Users |-> {s.version : s \in {r \in Rows(u) : r.active}}]>>
  OBVIOUS
<1> USE DEF UpdatesInv
<1>1. CASE UNCHANGED snapshots
  <2>1. \A u : Rows(u)' = Rows(u) /\ Versions(u)' = Versions(u)
    BY <1>1 DEF Rows, Versions
  <2> QED BY <2>1
<1>2. ASSUME NEW h \in Handlers, TxCommit(h) PROVE History!Next
  <2>1. PICK u : u = handler[h].user
    OBVIOUS
  <2> DEFINE row == Projection(NewRow(h))
             next == Count(u) + 1
  <2>2. /\ u \in Users
        /\ Versions(u)' = Versions(u) \cup {row}
        /\ NewRow(h).version = next
        /\ Active(u)' = {next}
    BY <1>2, <2>1, CommitAdds DEF Active
  <2>3. row.version = next
    BY <2>2 DEF Projection
  <2>4. \A w : w # u => Rows(w)' = Rows(w)
    BY <1>2, <2>1, CommitFacts
  <2>5. \A w : w # u => Versions(w)' = Versions(w) /\ Active(w)' = Active(w)
    BY <2>4, OthersKept DEF Active
  <2> HIDE DEF row
  <2>6. [w \in Users |-> Versions(w)]' =
          [[w \in Users |-> Versions(w)] EXCEPT ![u] = @ \cup {row}]
    BY <2>2, <2>5
  <2>7. [w \in Users |-> Active(w)]' = [[w \in Users |-> Active(w)] EXCEPT ![u] = {next}]
    BY <2>2, <2>5
  <2>8. row \in Versions(u)'
    BY <2>2
  <2>9. History!Cardinality(Versions(u)) = Cardinality(Versions(u))
    BY DEF Cardinality, History!Cardinality
  <2>10. History!Publish(u)
    BY <2>2, <2>3, <2>6, <2>7, <2>8, <2>9 DEF History!Publish, Active, Count
  <2> QED BY <2>2, <2>10 DEF History!Next
<1> QED BY <1>1, <1>2, TableSteps

(* user_profile_snapshot keeps its promise (VersionHistory) for any number of *)
(* goroutines and users: a version that is written is never changed, replaced *)
(* or skipped, and the newest is the active one, though the SELECT that       *)
(* numbers it takes no lock.                                                  *)
THEOREM ImplementsHistoryAlways == Spec => ImplementsHistory
<1>1. Init => History!Init
  BY HistoryInit
<1>2. UpdatesInv /\ [Next]_vars =>
        [History!Next]_<<[u \in Users |-> Versions(u)],
                         [u \in Users |-> {s.version : s \in {r \in Rows(u) : r.active}}]>>
  BY HistoryStep
<1>3. Spec => History!Init
              /\ [][History!Next]_<<[u \in Users |-> Versions(u)],
                       [u \in Users |-> {s.version : s \in {r \in Rows(u) : r.active}}]>>
  BY <1>1, <1>2, UpdatesCorrect, PTL DEF Spec
<1> QED BY <1>3, PTL DEF ImplementsHistory, History!Spec
================================================================================
