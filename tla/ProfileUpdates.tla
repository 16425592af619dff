---------------------------- MODULE ProfileUpdates ----------------------------
(******************************************************************************)
(* The writers of user profiles: feedback tasks (processFeedback), profile    *)
(* rebuilds (rebuildProfile) and rollbacks (POST /profile/rollback).  Each    *)
(* reads a profile, computes a new one, and adds it as the user's next        *)
(* version in the transaction of InsertUserProfileSnapshotVersion.            *)
(*                                                                            *)
(* Task control is in module TaskControl; here a request, or a retry, starts  *)
(* a job whenever a goroutine is free.  Jobs of one user overlap: tasks of    *)
(* different types by design, rollbacks because they are no tasks, and two    *)
(* tasks of one type as run task_two_active shows.                            *)
(******************************************************************************)
EXTENDS Naturals, FiniteSets

CONSTANTS
  Handlers,     \* request goroutines
  None,
  Feedbacks,    \* the distinct feedbacks (their idempotency keys)
  Users,
  UserOf,       \* the user of each feedback
  DefaultUser,  \* profile.user_id of the configuration
  MaxStarts,    \* bound: jobs started
  Environment   \* what happens besides feedback tasks, out of "rebuild",
                \* "rollback", "interrupt" (a crash, the end of a request's
                \* context) and "dbError" (one statement or call fails)

ASSUME UpdatesAssumption ==
  /\ UserOf \in [Feedbacks -> Users] /\ DefaultUser \in Users
  /\ None \notin Handlers \cup Feedbacks
  /\ MaxStarts \in Nat
  /\ Environment \subseteq {"rebuild", "rollback", "interrupt", "dbError"}

VARIABLES
  snapshots,  \* the committed rows of user_profile_snapshot
  feedback,   \* feedback_logs: process_status and profile_version
  rowLock,    \* per user: the transaction that holds the locks on its rows
  gapLock,    \* per user: the transactions whose UPDATE found no row; InnoDB
              \*   lets them share the lock on the gap a first row goes into
  handler,    \* the goroutines
  starts      \* jobs started so far

vars == <<snapshots, feedback, rowLock, gapLock, handler, starts>>

--------------------------------------------------------------------------------
(* A profile: how often each feedback has been applied to it.                 *)
NoProfile == [f \in Feedbacks |-> 0]

(* rebuildProfileFromFeedback and the agent's MemoryAgent add the signals of  *)
(* feedback to the profile they are given.                                    *)
Applied(profile, S) == [f \in Feedbacks |-> profile[f] + (IF f \in S THEN 1 ELSE 0)]

Rows(u) == {s \in snapshots : s.user = u}

(* ActiveUserProfileSnapshot: ORDER BY is_active DESC, version DESC LIMIT 1;  *)
(* without a row the profile is empty.                                        *)
Precedes(s, o) ==
  \/ s.active /\ ~o.active
  \/ s.active = o.active /\ s.version >= o.version
ActiveProfile(u) ==
  IF Rows(u) = {} THEN NoProfile
  ELSE (CHOOSE s \in Rows(u) : \A o \in Rows(u) : Precedes(s, o)).profile

LatestVersion(u) == Cardinality({v \in 1..MaxStarts : \E s \in Rows(u) : s.version >= v})

(* A goroutine: its job's kind and user, the feedback (if it is one), and     *)
(* what it has read or computed: the feedbacks to apply, the new profile, the *)
(* number of its version.                                                     *)
Job(pc, kind, u, item) ==
  [pc |-> pc, kind |-> kind, user |-> u, item |-> item,
   todo |-> {}, profile |-> NoProfile, version |-> 0]
Idle == Job("idle", "none", None, None)

PCs == {"idle", "upsert", "mark", "list", "load", "select", "update", "insert", "commit",
        "complete", "fail"}

Init ==
  /\ snapshots = {}
  /\ feedback = [f \in Feedbacks |-> [status |-> "absent", version |-> 0]]
  /\ rowLock = [u \in Users |-> None]
  /\ gapLock = [u \in Users |-> {}]
  /\ handler = [h \in Handlers |-> Idle]
  /\ starts = 0

--------------------------------------------------------------------------------
At(h, pc)   == handler[h].pc = pc
Goto(h, pc) == handler' = [handler EXCEPT ![h].pc = pc]
Stop(h)     == handler' = [handler EXCEPT ![h] = Idle]

Start(h, job) ==
  /\ At(h, "idle") /\ starts < MaxStarts
  /\ starts' = starts + 1
  /\ handler' = [handler EXCEPT ![h] = job]
  /\ UNCHANGED <<snapshots, feedback, rowLock, gapLock>>

(* A new request, the same feedback sent again, or a retry of its task.       *)
StartFeedback(h, f) == Start(h, Job("upsert", "feedback", UserOf[f], f))

StartRebuild(h, u) == "rebuild" \in Environment /\ Start(h, Job("list", "rebuild", u, None))

(* RollbackUserProfileSnapshot, with its first SELECT: the target's content.  *)
StartRollback(h, s) ==
  /\ "rollback" \in Environment
  /\ Start(h, [Job("select", "rollback", s.user, None) EXCEPT !.profile = s.profile])

SetFeedback(h, status, version) ==
  feedback' = [feedback EXCEPT ![handler[h].item] = [status |-> status, version |-> version]]
KeepVersion(h, status) == feedback' = [feedback EXCEPT ![handler[h].item].status = status]

(* UpsertFeedbackReceived; a feedback that is completed is answered at once.  *)
UpsertFeedbackReceived(h) ==
  LET status == feedback[handler[h].item].status IN
  /\ At(h, "upsert")
  /\ IF status = "completed" THEN Stop(h) ELSE Goto(h, "mark")
  /\ IF status = "absent" THEN SetFeedback(h, "received", 0) ELSE UNCHANGED feedback
  /\ UNCHANGED <<snapshots, rowLock, gapLock, starts>>

MarkFeedbackProcessing(h) ==
  /\ At(h, "mark")
  /\ KeepVersion(h, "processing")
  /\ Goto(h, "load")
  /\ UNCHANGED <<snapshots, rowLock, gapLock, starts>>

(* ListCompletedStructuredFeedback.                                           *)
ListCompleted(h) ==
  /\ At(h, "list")
  /\ handler' = [handler EXCEPT
       ![h].pc = "load",
       ![h].todo = {f \in Feedbacks : /\ UserOf[f] = handler[h].user
                                      /\ feedback[f].status = "completed"}]
  /\ UNCHANGED <<snapshots, feedback, rowLock, gapLock, starts>>

(* Whose profile a job starts from: loadProfile takes no user.                *)
BaseUser(h) == IF handler[h].kind = "feedback" THEN DefaultUser ELSE handler[h].user

(* loadProfile and the agent's answer; or rebuildProfile's own read and       *)
(* computation, where a dry run stops.  A failing SELECT yields the empty      *)
(* profile.                                                                   *)
Load(h) ==
  /\ At(h, "load")
  /\ \/ \E base \in {ActiveProfile(BaseUser(h))}
                    \cup (IF "dbError" \in Environment THEN {NoProfile} ELSE {}) :
          handler' = [handler EXCEPT
            ![h].pc = "select",
            ![h].profile = Applied(base, IF handler[h].kind = "feedback"
                                         THEN {handler[h].item} ELSE handler[h].todo)]
     \/ handler[h].kind = "rebuild" /\ Stop(h)
  /\ UNCHANGED <<snapshots, feedback, rowLock, gapLock, starts>>

--------------------------------------------------------------------------------
(* InsertUserProfileSnapshotVersion: SELECT MAX(version), which takes no      *)
(* lock; UPDATE, which locks the user's rows (or the gap); INSERT; COMMIT.    *)

Unlock(h) ==
  /\ rowLock' = [u \in Users |-> IF rowLock[u] = h THEN None ELSE rowLock[u]]
  /\ gapLock' = [u \in Users |-> gapLock[u] \ {h}]

IgnoredErrorSlip(h) ==
  /\ Unlock(h)
  /\ IF handler[h].kind = "feedback" THEN Goto(h, "complete") ELSE Stop(h)
  /\ UNCHANGED <<snapshots, feedback, starts>>

ForgottenRollbackSlip(h) ==
  /\ IF handler[h].kind = "feedback" THEN Goto(h, "fail") ELSE Stop(h)
  /\ UNCHANGED <<snapshots, feedback, rowLock, gapLock, starts>>

(* ROLLBACK; a feedback is then marked failed.                                *)
GiveUp(h) ==
  /\ Unlock(h)
  /\ IF handler[h].kind = "feedback" THEN Goto(h, "fail") ELSE Stop(h)
  /\ UNCHANGED <<snapshots, feedback, starts>>

TxSelect(h) ==
  /\ At(h, "select")
  /\ handler' = [handler EXCEPT ![h].pc = "update",
                                ![h].version = LatestVersion(handler[h].user) + 1]
  /\ UNCHANGED <<snapshots, feedback, rowLock, gapLock, starts>>

TxUpdate(h) ==
  LET u == handler[h].user IN
  /\ At(h, "update")
  /\ rowLock[u] = None
  /\ IF Rows(u) = {}
     THEN gapLock' = [gapLock EXCEPT ![u] = @ \cup {h}] /\ UNCHANGED rowLock
     ELSE rowLock' = [rowLock EXCEPT ![u] = h] /\ UNCHANGED gapLock
  /\ Goto(h, "insert")
  /\ UNCHANGED <<snapshots, feedback, starts>>

(* The INSERT waits for the other transactions that lock the gap.             *)
Awaited(h)   == gapLock[handler[h].user] \ {h}
Deadlock(h)  == \E g \in Awaited(h) : At(g, "insert") /\ h \in gapLock[handler[h].user]
RepeatedSlip(h) == FALSE
Repeated(h)  == \E s \in Rows(handler[h].user) : s.version = handler[h].version

TxInsert(h) ==
  LET u == handler[h].user IN
  /\ At(h, "insert")
  /\ ~Repeated(h) /\ Awaited(h) = {}
  /\ rowLock' = [rowLock EXCEPT ![u] = h]
  /\ Goto(h, "commit")
  /\ UNCHANGED <<snapshots, feedback, gapLock, starts>>

(* uk_profile_user_version, or the victim of InnoDB's deadlock detection.     *)
TxInsertFails(h) ==
  /\ At(h, "insert")
  /\ Repeated(h) \/ Deadlock(h)
  /\ GiveUp(h)

NewRow(h) ==
  [user |-> handler[h].user, version |-> handler[h].version, active |-> TRUE,
   profile |-> handler[h].profile, source |-> handler[h].item]

(* The reply to COMMIT may get lost.                                          *)
TxCommit(h) ==
  LET u == handler[h].user IN
  /\ At(h, "commit")
  /\ snapshots' = (snapshots \ Rows(u))
                  \cup {[s EXCEPT !.active = FALSE] : s \in Rows(u)} \cup {NewRow(h)}
  /\ Unlock(h)
  /\ IF handler[h].kind # "feedback" THEN Stop(h)
     ELSE \/ Goto(h, "complete")
          \/ "dbError" \in Environment /\ Goto(h, "fail")
  /\ UNCHANGED <<feedback, starts>>

--------------------------------------------------------------------------------
MarkFeedbackCompleted(h) ==
  /\ At(h, "complete")
  /\ SetFeedback(h, "completed", handler[h].version)
  /\ Stop(h)
  /\ UNCHANGED <<snapshots, rowLock, gapLock, starts>>

MarkFeedbackFailedSlip(h) ==
  /\ At(h, "fail")
  /\ KeepVersion(h, "error")
  /\ Stop(h)
  /\ UNCHANGED <<snapshots, rowLock, gapLock, starts>>

MarkFeedbackFailed(h) ==
  /\ At(h, "fail")
  /\ KeepVersion(h, "failed")
  /\ Stop(h)
  /\ UNCHANGED <<snapshots, rowLock, gapLock, starts>>

(* The agent call or a statement of the transaction fails.                    *)
Fail(h) ==
  /\ "dbError" \in Environment
  /\ handler[h].pc \in {"load", "select", "update", "insert", "commit"}
  /\ GiveUp(h)

(* The goroutine gets no further: the process stops, the request's context    *)
(* ends, or a statement outside the transaction fails, after which the job    *)
(* writes nothing more to these tables.                                       *)
Interrupt(h) ==
  /\ "interrupt" \in Environment
  /\ ~At(h, "idle")
  /\ Unlock(h) /\ Stop(h)
  /\ UNCHANGED <<snapshots, feedback, starts>>

Step(h) ==
  \/ UpsertFeedbackReceived(h) \/ MarkFeedbackProcessing(h) \/ ListCompleted(h) \/ Load(h)
  \/ TxSelect(h) \/ TxUpdate(h) \/ TxInsert(h) \/ TxInsertFails(h) \/ TxCommit(h)
  \/ MarkFeedbackCompleted(h) \/ MarkFeedbackFailed(h)

Next ==
  \E h \in Handlers :
    \/ \E f \in Feedbacks : StartFeedback(h, f)
    \/ \E u \in Users : StartRebuild(h, u)
    \/ \E s \in snapshots : StartRollback(h, s)
    \/ Step(h) \/ Fail(h) \/ Interrupt(h)

(* Every statement and call returns, at the latest when the context ends.     *)
Fairness == \A h \in Handlers : WF_vars(Step(h))
Spec     == Init /\ [][Next]_vars
FairSpec == Spec /\ Fairness

--------------------------------------------------------------------------------
Row == [user : Users, version : Nat, active : BOOLEAN, profile : [Feedbacks -> Nat],
        source : Feedbacks \cup {None}]
FeedbackRow ==
  [status : {"absent", "received", "processing", "completed", "failed"}, version : Nat]
JobRecord ==
  [pc : PCs, kind : {"none", "feedback", "rebuild", "rollback"},
   user : Users \cup {None}, item : Feedbacks \cup {None}, todo : SUBSET Feedbacks,
   profile : [Feedbacks -> Nat], version : Nat]

TypeOK ==
  /\ snapshots \subseteq Row
  /\ feedback \in [Feedbacks -> FeedbackRow]
  /\ rowLock \in [Users -> Handlers \cup {None}]
  /\ gapLock \in [Users -> SUBSET Handlers]
  /\ handler \in [Handlers -> JobRecord]
  /\ starts \in 0..MaxStarts

(* What a version is, whether it is active aside.                             *)
Versions(u) ==
  {[version |-> s.version, profile |-> s.profile, source |-> s.source] : s \in Rows(u)}

(* The table is a version history whatever overlaps, waits, fails or dies:    *)
(* contiguous versions, old ones immutable, exactly the newest active.  The   *)
(* SELECT takes no lock; the unique key makes up for it.                      *)
History == INSTANCE VersionHistory WITH
  versions <- [u \in Users |-> Versions(u)],
  active <- [u \in Users |-> {s.version : s \in {r \in Rows(u) : r.active}}]
ImplementsHistory == History!Spec

(* A completed feedback names a version of its user that was made for it and  *)
(* has it applied: what the cached answer, a rebuild and a rollback build on. *)
CompletedHasVersion ==
  \A f \in Feedbacks :
    feedback[f].status = "completed" =>
      \E s \in Rows(UserOf[f]) :
        s.version = feedback[f].version /\ s.source = f /\ s.profile[f] > 0

(* Every job ends: two first versions of a user at a time deadlock in InnoDB, *)
(* which sacrifices one.                                                      *)
JobsEnd == \A h \in Handlers : handler[h].pc # "idle" ~> handler[h].pc = "idle"

(* A feedback is applied to a profile once, however often it is sent and      *)
(* retried.                                                                   *)
AppliedOnce == \A s \in snapshots, f \in Feedbacks : s.profile[f] <= 1

(* A user's profile is made from that user's feedback.                        *)
ProfilesOwn == \A s \in snapshots, f \in Feedbacks : s.profile[f] > 0 => UserOf[f] = s.user
================================================================================
