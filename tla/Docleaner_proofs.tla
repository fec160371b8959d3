--------------------------- MODULE Docleaner_proofs ---------------------------
(***************************************************************************)
(* Proofs about the whole service of module Docleaner: with sessions,      *)
(* requests that delete, the purger, the operator and the clock, for every *)
(* set of jobs and sessions, every limit and every keepalive.  A step of   *)
(* the service is one of the queue, which the lemmas of the other proof    *)
(* modules are about, or one that leaves the queue and the coroutines      *)
(* alone and changes the repository only.                                  *)
(***************************************************************************)
EXTENDS Docleaner, JobLifecycle_proofs

-----------------------------------------------------------------------------
(* The steps beside the queue.                                             *)

FaultyDeletion == /\ Faults
                  /\ \/ \E j \in JobIds : DeleteJobInPart(j)
                     \/ \E s \in SessionIds : DeleteSessionInPart(s)

RepoStep == \/ \E j \in JobIds : DeleteJob(j)
            \/ \E s \in SessionIds : AddSession(s) \/ DeleteSession(s)
            \/ FaultyDeletion
            \/ Tick

BesideQueue == RepoStep /\ UNCHANGED procVars

\* The purger deletes a session only after it chose one.
VictimChosen == purger = "delete" => victim \in SessionIds

DeleterTypeOK == /\ deleting \in SUBSET JobIds
                 /\ closing \in SUBSET SessionIds
                 /\ purger \in {"idle", "jobs", "sessions", "delete"}
                 /\ staleJobs \in SUBSET JobIds
                 /\ staleSessions \in SUBSET SessionIds
                 /\ victim \in SessionIds \cup {NoSession}
                 /\ VictimChosen

LEMMA DeleterServeStep ==
  ASSUME DeleterTypeOK, [DocServe]_allVars
  PROVE  /\ DeleterTypeOK'
         /\ [ServeStep]_vars \/ BesideQueue
<1> USE DEF DeleterTypeOK, VictimChosen
<1>1. CASE UNCHANGED allVars
  BY <1>1 DEF allVars, requestVars, purgeVars
<1>2. CASE Request
  <2>1. ASSUME NEW j \in JobIds, NEW s \in SessionIds \cup {NoSession}, CreateJob(j, s),
               UNCHANGED <<requestVars, purgeVars>>
        PROVE  DeleterTypeOK' /\ ServeStep
    BY <2>1 DEF ServeStep, requestVars, purgeVars
  <2>2. ASSUME NEW j \in JobIds, CheckJob(j)
        PROVE  DeleterTypeOK' /\ UNCHANGED vars
    BY <2>2 DEF CheckJob, CheckJobIn, purgeVars
  <2>3. ASSUME NEW j \in JobIds, RemoveJob(j)
        PROVE  DeleterTypeOK' /\ (BesideQueue \/ UNCHANGED vars)
    BY <2>3 DEF RemoveJob, CallRaises, FaultyDeletion, BesideQueue, RepoStep, purgeVars,
                procVars, vars
  <2>4. ASSUME NEW s \in SessionIds, CreateSession(s)
        PROVE  DeleterTypeOK' /\ BesideQueue
    BY <2>4 DEF CreateSession, BesideQueue, RepoStep, requestVars, purgeVars
  <2>5. ASSUME NEW s \in SessionIds, CheckSession(s)
        PROVE  DeleterTypeOK' /\ UNCHANGED vars
    BY <2>5 DEF CheckSession, purgeVars
  <2>6. ASSUME NEW s \in SessionIds, RemoveSession(s)
        PROVE  DeleterTypeOK' /\ (BesideQueue \/ UNCHANGED vars)
    <3>1. DeleterTypeOK' /\ UNCHANGED procVars
      BY <2>6 DEF RemoveSession, purgeVars
    <3>2. UNCHANGED repoVars \/ RepoStep
      BY <2>6 DEF RemoveSession, FaultyDeletion, RepoStep
    <3> QED
      BY <3>1, <3>2 DEF BesideQueue, procVars, vars
  <2> QED
    BY <1>2, <2>1, <2>2, <2>3, <2>4, <2>5, <2>6 DEF Request
<1>3. CASE Purge
  <2>1. UNCHANGED <<procVars, requestVars>>
    BY <1>3 DEF Purge
  <2>2. CASE StartPurge \/ FindStaleSessions \/ EndPurge
    <3>1. FindSessions(SessionKeepalive) \subseteq SessionIds
      BY DEF FindSessions
    <3>2. UNCHANGED repoVars
      BY <2>2 DEF StartPurge, StartPurgeOf, FindStaleSessions, EndPurge, AbortPurge,
                       ExitPurger
    <3>3. DeleterTypeOK'
      BY <2>1, <2>2, <3>1 DEF StartPurge, StartPurgeOf, FindJobs, FindStaleSessions,
                              EndPurge, AbortPurge, ExitPurger, requestVars
    <3> QED
      BY <2>1, <3>2, <3>3 DEF vars, procVars
  <2>3. ASSUME NEW j \in JobIds, PurgeJob(j)
        PROVE  DeleterTypeOK' /\ (BesideQueue \/ UNCHANGED vars)
    BY <2>1, <2>3 DEF PurgeJob, AbortPurge, ExitPurger, BesideQueue, RepoStep, requestVars,
                      procVars, vars
  <2>4. ASSUME NEW s \in SessionIds, PurgeCheck(s)
        PROVE  DeleterTypeOK' /\ UNCHANGED vars
    BY <2>1, <2>4 DEF PurgeCheck, PurgeCheckFor, AbortPurge, ExitPurger, requestVars,
                      procVars, vars
  <2>5. CASE PurgeSession
    <3>1. DeleterTypeOK'
      BY <2>1, <2>5 DEF PurgeSession, AbortPurge, ExitPurger, requestVars
    <3>2. UNCHANGED repoVars \/ RepoStep
      BY <2>5 DEF PurgeSession, AbortPurge, FaultyDeletion, RepoStep
    <3> QED
      BY <2>1, <3>1, <3>2 DEF BesideQueue, procVars, vars
  <2> QED
    BY <1>3, <2>2, <2>3, <2>4, <2>5 DEF Purge
<1>4. CASE PurgeFails /\ UNCHANGED <<procVars, requestVars>>
  BY <1>4 DEF PurgeFails, AbortPurge, ExitPurger, requestVars, procVars, vars
<1>5. CASE \E j \in JobIds : OperatorDeletes(j)
  BY <1>5 DEF OperatorDeletes, FaultyDeletion, BesideQueue, RepoStep, requestVars, purgeVars
<1>6. CASE Time
  BY <1>6 DEF Time, BesideQueue, RepoStep, requestVars, purgeVars
<1>7. CASE JobsProceed
  BY <1>7 DEF JobsProceed, ServeStep, Serve, requestVars, purgeVars
<1> QED
  BY <1>1, <1>2, <1>3, <1>4, <1>5, <1>6, <1>7 DEF DocServe, Background

LEMMA DeleterStep ==
  ASSUME DeleterTypeOK, [DocNext]_allVars
  PROVE  /\ DeleterTypeOK'
         /\ [QueueStep]_vars \/ BesideQueue
<1>1. CASE [DocServe]_allVars
  BY <1>1, DeleterServeStep DEF ServeStep, QueueStep, Next, ServeGracefully
<1>2. CASE Stop
  BY <1>2 DEF DeleterTypeOK, VictimChosen, Stop, StopGracefully, EndProcess, StartAgain,
              QueueStep, Next, ServeGracefully, requestVars, purgeVars
<1> QED
  BY <1>1, <1>2 DEF DocNext

\* A step beside the queue leaves the outcome of a job as it is, or deletes the job.
LEMMA BesideQueueEffect ==
  ASSUME RepoTypeOK, BesideQueue
  PROVE  /\ RepoTypeOK'
         /\ UNCHANGED procVars
         /\ \A j \in JobIds : SameOutcome(j) \/ jobs'[j] = Blank("DELETED")
<1>0. /\ jobs \in [JobIds -> Job]
      /\ sessions \in [SessionIds -> Session]
      /\ Blank("DELETED") \in Job
      /\ 0 \in Ages
  BY BlankType, RepositoryAssumption DEF RepoTypeOK, Ages
<1>1. ASSUME NEW j \in JobIds, DeleteJob(j)
      PROVE  RepoTypeOK' /\ \A k \in JobIds : SameOutcome(k) \/ jobs'[k] = Blank("DELETED")
  BY <1>0, <1>1, TouchedType DEF DeleteJob, RepoTypeOK, SameOutcome
<1>2. ASSUME NEW s \in SessionIds, AddSession(s)
      PROVE  RepoTypeOK' /\ \A k \in JobIds : SameOutcome(k)
  BY <1>0, <1>2 DEF AddSession, RepoTypeOK, Session, SameOutcome
<1>3. ASSUME NEW s \in SessionIds, DeleteSession(s)
      PROVE  RepoTypeOK' /\ \A k \in JobIds : SameOutcome(k) \/ jobs'[k] = Blank("DELETED")
  BY <1>0, <1>3 DEF DeleteSession, RepoTypeOK, Session, SameOutcome
<1>4. CASE Tick
  <2>1. \A k \in Ages : k < MaxAge => k + 1 \in Ages
    BY RepositoryAssumption DEF Ages
  <2>2. ASSUME NEW j \in JobIds
        PROVE  /\ Older(jobs[j]) \in Job
               /\ Older(jobs[j]).status = jobs[j].status
               /\ Older(jobs[j]).result = jobs[j].result
    <3>1. jobs[j] \in Job /\ jobs[j].age \in Ages
      BY <1>0 DEF Job
    <3>2. CASE jobs[j].age < MaxAge
      <4>1. jobs[j].age + 1 \in Ages
        BY <2>1, <3>1, <3>2
      <4>2. Older(jobs[j]) = [jobs[j] EXCEPT !.age = jobs[j].age + 1]
        BY <3>2 DEF Older
      <4> QED
        BY <3>1, <4>1, <4>2 DEF Job
    <3> QED
      BY <3>1, <3>2 DEF Older
  <2>3. ASSUME NEW s \in SessionIds PROVE Older(sessions[s]) \in Session
    BY <1>0, <2>1 DEF Older, Session
  <2>4. RepoTypeOK'
    BY <1>0, <1>4, <2>2, <2>3 DEF Tick, RepoTypeOK
  <2>5. \A j \in JobIds : SameOutcome(j)
    BY <1>4, <2>2 DEF Tick, SameOutcome
  <2> QED
    BY <2>4, <2>5 DEF BesideQueue
<1>5. ASSUME NEW j \in JobIds, DeleteJobInPart(j)
      PROVE  RepoTypeOK' /\ \A k \in JobIds : SameOutcome(k)
  BY <1>0, <1>5, TouchedType DEF DeleteJobInPart, RepoTypeOK, SameOutcome
<1>6. ASSUME NEW s \in SessionIds, DeleteSessionInPart(s)
      PROVE  RepoTypeOK' /\ \A k \in JobIds : SameOutcome(k) \/ jobs'[k] = Blank("DELETED")
  BY <1>0, <1>6 DEF DeleteSessionInPart, RepoTypeOK, SameOutcome
<1> QED
  BY <1>1, <1>2, <1>3, <1>4, <1>5, <1>6 DEF BesideQueue, RepoStep, FaultyDeletion

-----------------------------------------------------------------------------
(* What is proved of the queue holds of the service, too.                  *)

DocInv == TypeOK /\ DeleterTypeOK /\ RunningInv /\ OwnerInv /\ ResultInv

LEMMA DocInvStep == DocInv /\ [DocNext]_allVars => DocInv'
<1> SUFFICES ASSUME DocInv, [DocNext]_allVars PROVE DocInv'
  OBVIOUS
<1>1. DeleterTypeOK' /\ ([QueueStep]_vars \/ BesideQueue)
  BY DeleterStep DEF DocInv
<1>2. CASE [QueueStep]_vars
  BY <1>1, <1>2, TypeStep, RunningInvStep, OwnerInvStep, ResultInvStep DEF DocInv
<1>3. CASE BesideQueue
  <2>1. /\ RepoTypeOK'
        /\ UNCHANGED <<task, answer, create, queue, getter, running, worker, shutdown>>
        /\ \A j \in JobIds : SameOutcome(j) \/ jobs'[j] = Blank("DELETED")
    BY <1>3, BesideQueueEffect DEF DocInv, TypeOK, procVars, taskVars, queueVars
  <2>2. \A j \in JobIds : \/ jobs'[j].status = jobs[j].status /\ jobs'[j].result = jobs[j].result
                          \/ jobs'[j].status = "DELETED"
    BY <2>1 DEF SameOutcome, Blank
  <2>3. TypeOK'
    BY <2>1 DEF DocInv, TypeOK, TaskTypeOK
  <2>4. RunningInv'
    BY <2>1 DEF DocInv, RunningInv, Live
  <2>5. OwnerInv'
    <3>1. \A j \in JobIds : Present(j)' => Present(j) /\ jobs'[j].status = jobs[j].status
      BY <2>2 DEF Present, JobStatus, Unfinished, Finished
    <3>2. \A j \in JobIds : jobs'[j].status = "NEW" => jobs[j].status = "NEW"
      BY <2>2
    <3>3. OneOwner'
      BY <2>1 DEF DocInv, OwnerInv, OneOwner, InQueue
    <3>4. OwnerFindsStatus'
      BY <2>1, <3>1 DEF DocInv, OwnerInv, OwnerFindsStatus, InQueue
    <3>5. NewIsFree'
      BY <2>1, <3>2 DEF DocInv, OwnerInv, NewIsFree, InQueue
    <3> QED
      BY <3>3, <3>4, <3>5 DEF OwnerInv
  <2>6. ResultInv'
    BY <2>1, <2>2 DEF DocInv, ResultInv, SuccessHasResult
  <2> QED
    BY <1>1, <2>3, <2>4, <2>5, <2>6 DEF DocInv
<1> QED
  BY <1>1, <1>2, <1>3

LEMMA DocInvInit == DocInit => DocInv
<1> SUFFICES ASSUME DocInit PROVE DocInv
  OBVIOUS
<1>1. Init
  BY DEF DocInit
<1>2. TypeOK /\ OwnerInv /\ ResultInv /\ RunningInv
  BY <1>1, TypeInit, OwnerInvInit, ResultInvInit, RunningInvInit
<1>3. DeleterTypeOK
  BY DEF DocInit, DeleterTypeOK, VictimChosen
<1> QED
  BY <1>2, <1>3 DEF DocInv

LEMMA DocInvHolds == DocSpec => []DocInv
BY DocInvInit, DocInvStep, PTL DEF DocSpec

(***************************************************************************)
(* Every reachable state of the service is typed.                          *)
(***************************************************************************)
THEOREM DocTypeCorrect == DocSpec => []DocTypeOK
<1>1. DocInv => DocTypeOK
  BY DEF DocInv, DeleterTypeOK, DocTypeOK
<1> QED
  BY <1>1, DocInvHolds, PTL

(***************************************************************************)
(* At most MaxConcurrent jobs are executed, and no job is at two places,   *)
(* while users, purger and operator delete jobs under the hands of worker  *)
(* and coroutines; whoever owns a job that is still there finds it in the  *)
(* status it expects, and a successful one has its result.                 *)
(***************************************************************************)
THEOREM ServiceKeepsJobs ==
  DocSpec => [](ConcurrencyLimit /\ OneOwner /\ OwnerFindsStatus /\ SuccessHasResult)
<1>1. DocInv => ConcurrencyLimit /\ OneOwner /\ OwnerFindsStatus /\ SuccessHasResult
  BY LimitFromRunning DEF DocInv, OwnerInv, ResultInv
<1> QED
  BY <1>1, DocInvHolds, PTL

-----------------------------------------------------------------------------
\* What a step of the service does to the repository.
LEMMA RepositoryStep ==
  ASSUME TypeOK, DeleterTypeOK, [DocNext]_allVars
  PROVE  \/ UNCHANGED repoVars
         \/ \E j \in JobIds, s \in SessionIds \cup {NoSession} : AddJobInPart(j, s)
         \/ \E j \in JobIds, status \in JobStatus, result \in BOOLEAN :
                UpdateJobInPart(j, status, result)
         \/ \E j \in JobIds : AddToJobLog(j)
         \/ RepoStep
<1>1. [QueueStep]_vars \/ BesideQueue
  BY DeleterStep
<1> QED
  BY <1>1, QueueRepositoryStep DEF BesideQueue

-----------------------------------------------------------------------------
(* Deletions.  With a repository that does not fail, no coroutine and no   *)
(* request holds a finished job.  So nobody touches it before it is        *)
(* deleted, and what a deleter found out about it remains true.            *)

Untouched(j) == /\ jobs'[j].status = jobs[j].status
                /\ jobs'[j].result = jobs[j].result
                /\ jobs'[j].sid = jobs[j].sid
                /\ jobs'[j].age >= jobs[j].age

KeptOrDeleted(j) == Untouched(j) \/ jobs'[j] = Blank("DELETED")

LEMMA FinishedIsFree ==
  ASSUME ~Faults, TypeOK, OwnerInv, ExceptInv,
         NEW j \in JobIds, jobs[j].status \in Finished
  PROVE  task[j] \notin Steps /\ create[j] \notin CreateSteps
  BY DEF OwnerInv, OwnerFindsStatus, ExceptInv, Present, JobStatus, Unfinished, Finished,
         Steps

LEMMA FinishedStep ==
  ASSUME ~Faults, TypeOK, OwnerInv, ExceptInv, [QueueStep]_vars \/ BesideQueue,
         NEW j \in JobIds, jobs[j].status \in Finished
  PROVE  KeptOrDeleted(j)
<1>0. /\ jobs \in [JobIds -> Job]
      /\ jobs[j] \in Job
      /\ jobs[j].age \in 0..MaxAge
      /\ MaxAge \in Nat
      /\ task[j] \notin Steps
      /\ create[j] \notin CreateSteps
  BY FinishedIsFree, RepositoryAssumption DEF TypeOK, RepoTypeOK, Job, Ages
<1>1. CASE jobs'[j] = jobs[j]
  BY <1>0, <1>1 DEF KeptOrDeleted, Untouched
<1>2. ASSUME NEW k \in JobIds, NEW s, CreateJob(k, s) PROVE jobs'[j] = jobs[j]
  BY <1>0, <1>2 DEF CreateJob, AddJob, AddJobInPart, Insert, Finished
<1>3. ASSUME NEW k \in JobIds, Enqueue(k) PROVE jobs'[j] = jobs[j]
  <2>1. k # j
    BY <1>0, <1>3 DEF Enqueue, CreateSteps
  <2> QED
    BY <1>0, <1>3, <2>1, UpdateCalls DEF UpdateJobInPart, Store, repoVars
<1>4. ASSUME NEW k \in JobIds, TaskStep(k) PROVE jobs'[j] = jobs[j]
  <2>1. TaskFindsStatus(k)
    BY DEF OwnerInv, OwnerFindsStatus, TaskFindsStatus
  <2>2. task[k] \in Steps /\ \A i \in JobIds : i # k => jobs'[i] = jobs[i]
    BY <1>4, <2>1, TaskStepEffect
  <2> QED
    BY <1>0, <2>2
<1>5. CASE \/ \E k \in JobIds : FindCreated(k)
           \/ Begin \/ AwaitSlot \/ Dispatch \/ StopWaiting \/ Drain \/ Get
           \/ Shutdown \/ Down \/ Restart \/ UNCHANGED vars
  BY <1>1, <1>5 DEF FindCreated, Begin, AwaitSlot, Dispatch, StopWaiting, LeaveLoop, Drain,
                    Get, GetLeaving, Shutdown, Down, Restart, vars, repoVars
<1>6. CASE [QueueStep]_vars
  BY <1>1, <1>2, <1>3, <1>4, <1>5, <1>6
     DEF QueueStep, Next, ServeGracefully, Serve, JobStep, WorkerStep, Crash, Exit
<1>7. ASSUME NEW k \in JobIds, DeleteJob(k) PROVE KeptOrDeleted(j)
  BY <1>0, <1>1, <1>7 DEF DeleteJob, KeptOrDeleted
<1>8. ASSUME NEW s \in SessionIds, DeleteSession(s) PROVE KeptOrDeleted(j)
  BY <1>0, <1>1, <1>8 DEF DeleteSession, KeptOrDeleted
<1>9. ASSUME NEW s \in SessionIds, AddSession(s) PROVE jobs'[j] = jobs[j]
  BY <1>9 DEF AddSession
<1>10. CASE Tick
  <2>1. jobs'[j] = Older(jobs[j])
    BY <1>0, <1>10 DEF Tick, Present, JobStatus
  <2>2. CASE jobs[j].age < MaxAge
    <3>1. jobs'[j] = [jobs[j] EXCEPT !.age = jobs[j].age + 1]
      BY <2>1, <2>2 DEF Older
    <3> QED
      BY <1>0, <3>1 DEF Job, KeptOrDeleted, Untouched
  <2>3. CASE ~(jobs[j].age < MaxAge)
    BY <1>1, <2>1, <2>3 DEF Older
  <2> QED
    BY <2>2, <2>3
<1> QED
  BY <1>1, <1>6, <1>7, <1>8, <1>9, <1>10 DEF BesideQueue, RepoStep, FaultyDeletion

\* Except blocks find their job RUNNING, also if jobs are deleted.
LEMMA ExceptInvDocStep ==
  ASSUME ~Faults
  PROVE  DocInv /\ ExceptInv /\ [DocNext]_allVars => ExceptInv'
<1> SUFFICES ASSUME DocInv, ExceptInv, [DocNext]_allVars PROVE ExceptInv'
  OBVIOUS
<1>1. [QueueStep]_vars \/ BesideQueue
  BY DeleterStep DEF DocInv
<1>2. CASE [QueueStep]_vars
  BY <1>2, ProgressStep DEF DocInv
<1>3. CASE BesideQueue
  <2>1. UNCHANGED task /\ \A j \in JobIds : SameOutcome(j) \/ jobs'[j] = Blank("DELETED")
    BY <1>3, BesideQueueEffect DEF DocInv, TypeOK, procVars, taskVars
  <2>2. \A j \in JobIds : Present(j)' => SameOutcome(j)
    BY <2>1 DEF Present, Blank, JobStatus, Unfinished, Finished
  <2> QED
    BY <2>1, <2>2 DEF ExceptInv, SameOutcome, Present
<1> QED
  BY <1>1, <1>2, <1>3

(***************************************************************************)
(* With a repository that does not fail, the outcome of a finished job     *)
(* stays as it is until the job is deleted, whatever purger, requests and  *)
(* crashes do.                                                             *)
(***************************************************************************)
THEOREM FinishedStaysFinalInService ==
  ASSUME ~Faults
  PROVE  DocSpec => FinishedIsFinal
<1>1. ASSUME DocInv, ExceptInv, [DocNext]_allVars
      PROVE  [\A j \in JobIds : jobs[j].status \in Finished =>
                  \/ jobs'[j].status = "DELETED"
                  \/ /\ jobs'[j].status = jobs[j].status
                     /\ jobs'[j].result = jobs[j].result]_vars
  <2>1. [QueueStep]_vars \/ BesideQueue
    BY <1>1, DeleterStep DEF DocInv
  <2>2. \A j \in JobIds : jobs[j].status \in Finished => KeptOrDeleted(j)
    BY <1>1, <2>1, FinishedStep DEF DocInv
  <2> QED
    BY <2>2 DEF KeptOrDeleted, Untouched, Blank
<1>2. DocInit => ExceptInv
  BY ExceptInvInit DEF DocInit
<1> QED
  BY <1>1, <1>2, DocInvHolds, ExceptInvDocStep, PTL DEF DocSpec, FinishedIsFinal

-----------------------------------------------------------------------------
(* What the deleters know of the jobs on their lists.                      *)

VerdictInv ==
    /\ \A j \in deleting \cup staleJobs : jobs[j].status \in Finished \cup {"DELETED"}
    /\ \A j \in staleJobs : Present(j) => /\ jobs[j].sid = NoSession
                                          /\ jobs[j].age >= JobKeepalive

LEMMA DeletedStays ==
  ASSUME TypeOK, DeleterTypeOK, [DocNext]_allVars, NEW j \in JobIds,
         jobs[j].status = "DELETED"
  PROVE  jobs'[j].status = "DELETED"
<1>0. jobs \in [JobIds -> Job] /\ ~Present(j)
  BY DEF TypeOK, RepoTypeOK, Present, JobStatus, Unfinished, Finished
<1>1. CASE UNCHANGED repoVars
  BY <1>1 DEF repoVars
<1>2. CASE \E k \in JobIds, s \in SessionIds \cup {NoSession} : AddJobInPart(k, s)
  BY <1>0, <1>2 DEF AddJobInPart, Insert
<1>3. CASE \E k \in JobIds, status \in JobStatus, result \in BOOLEAN :
              UpdateJobInPart(k, status, result)
  BY <1>0, <1>3 DEF UpdateJobInPart, Store
<1>4. CASE \E k \in JobIds : AddToJobLog(k)
  BY <1>0, <1>4 DEF AddToJobLog, repoVars
<1>5. CASE \E k \in JobIds : DeleteJob(k)
  BY <1>0, <1>5 DEF DeleteJob
<1>6. CASE \E s \in SessionIds : AddSession(s) \/ DeleteSession(s)
  BY <1>0, <1>6 DEF AddSession, DeleteSession, Blank
<1>7. CASE FaultyDeletion
  BY <1>0, <1>7 DEF FaultyDeletion, DeleteJobInPart, DeleteSessionInPart, Blank
<1>8. CASE Tick
  BY <1>0, <1>8 DEF Tick
<1> QED
  BY <1>1, <1>2, <1>3, <1>4, <1>5, <1>6, <1>7, <1>8, RepositoryStep DEF RepoStep

\* A job comes on a list only when it was just found as the list wants it.
LEMMA ListStep ==
  ASSUME [DocNext]_allVars
  PROVE  /\ \/ deleting' \subseteq deleting
            \/ /\ UNCHANGED jobs
               /\ \A j \in deleting' \ deleting : jobs[j].status \in Finished
         /\ \/ staleJobs' \subseteq staleJobs
            \/ /\ UNCHANGED jobs
               /\ \A j \in staleJobs' : /\ jobs[j].status \in Finished
                                         /\ jobs[j].sid = NoSession
                                         /\ jobs[j].age >= JobKeepalive
<1>1. CASE UNCHANGED <<deleting, staleJobs>>
  BY <1>1
<1>2. CASE Request
  <2>1. ASSUME NEW j \in JobIds, CheckJob(j)
        PROVE  /\ UNCHANGED jobs /\ UNCHANGED staleJobs
               /\ \A k \in deleting' \ deleting : jobs[k].status \in Finished
    BY <2>1 DEF CheckJob, CheckJobIn, vars, repoVars, purgeVars
  <2>2. ASSUME NEW j \in JobIds, RemoveJob(j)
        PROVE  deleting' \subseteq deleting /\ UNCHANGED staleJobs
    BY <2>2 DEF RemoveJob, purgeVars
  <2>3. CASE \/ /\ \E j \in JobIds, s \in SessionIds \cup {NoSession} : CreateJob(j, s)
                /\ UNCHANGED <<requestVars, purgeVars>>
             \/ \E s \in SessionIds : CreateSession(s) \/ CheckSession(s) \/ RemoveSession(s)
    BY <1>1, <2>3 DEF CreateSession, CheckSession, RemoveSession, requestVars, purgeVars
  <2> QED
    BY <1>2, <2>1, <2>2, <2>3 DEF Request
<1>3. CASE Purge
  <2>1. UNCHANGED deleting
    BY <1>3 DEF Purge, requestVars
  <2>2. CASE StartPurge
    BY <2>1, <2>2 DEF StartPurge, StartPurgeOf, FindJobs, repoVars
  <2>3. CASE \/ FindStaleSessions \/ PurgeSession \/ EndPurge
             \/ \E j \in JobIds : PurgeJob(j)
             \/ \E s \in SessionIds : PurgeCheck(s)
    BY <2>1, <2>3 DEF FindStaleSessions, PurgeSession, EndPurge, PurgeJob, PurgeCheck,
                      PurgeCheckFor, AbortPurge, ExitPurger
  <2> QED
    BY <1>3, <2>2, <2>3 DEF Purge
<1>4. CASE PurgeFails /\ UNCHANGED <<procVars, requestVars>>
  BY <1>4 DEF PurgeFails, AbortPurge, ExitPurger, requestVars
<1>5. CASE Time \/ JobsProceed \/ \E j \in JobIds : OperatorDeletes(j)
  BY <1>1, <1>5 DEF Time, JobsProceed, OperatorDeletes, requestVars, purgeVars
<1>6. CASE Stop
  BY <1>6 DEF Stop, StopGracefully, EndProcess, StartAgain, requestVars, purgeVars
<1>7. CASE UNCHANGED allVars
  BY <1>1, <1>7 DEF allVars, requestVars, purgeVars
<1> QED
  BY <1>2, <1>3, <1>4, <1>5, <1>6, <1>7 DEF DocNext, DocServe, Background

LEMMA VerdictStep ==
  ASSUME ~Faults
  PROVE  DocInv /\ ExceptInv /\ VerdictInv /\ [DocNext]_allVars => VerdictInv'
<1> SUFFICES ASSUME DocInv, ExceptInv, VerdictInv, [DocNext]_allVars
             PROVE  VerdictInv'
  OBVIOUS
<1>0. /\ TypeOK /\ DeleterTypeOK /\ OwnerInv
      /\ deleting \subseteq JobIds /\ staleJobs \subseteq JobIds
      /\ [QueueStep]_vars \/ BesideQueue
      /\ JobKeepalive \in Nat
      /\ \A j \in JobIds : jobs[j].age \in Nat
      /\ \A j \in JobIds : jobs'[j].age \in Nat
  <2>1. TypeOK' /\ TypeOK
    BY DocInvStep DEF DocInv
  <2>2. \A j \in JobIds : jobs[j].age \in Nat /\ jobs'[j].age \in Nat
    BY <2>1, RepositoryAssumption DEF TypeOK, RepoTypeOK, Job, Ages
  <2>3. JobKeepalive \in Nat
    BY DocleanerAssumption, RepositoryAssumption
  <2> QED
    BY <2>2, <2>3, DeleterStep DEF DocInv, DeleterTypeOK
<1>1. ASSUME NEW j \in JobIds, jobs[j].status \in Finished \cup {"DELETED"}
      PROVE  /\ jobs'[j].status \in Finished \cup {"DELETED"}
             /\ Present(j)' => Untouched(j) /\ Present(j)
  <2>1. CASE jobs[j].status \in Finished
    <3>1. KeptOrDeleted(j)
      BY <1>0, <2>1, FinishedStep DEF DocInv
    <3> QED
      BY <2>1, <3>1 DEF KeptOrDeleted, Untouched, Blank, Present, JobStatus, Unfinished,
                        Finished
  <2>2. CASE jobs[j].status = "DELETED"
    BY <1>0, <2>2, DeletedStays DEF Present, JobStatus, Unfinished, Finished
  <2> QED
    BY <1>1, <2>1, <2>2
<1>2. \A j \in deleting' \cup staleJobs' : j \in JobIds /\
          jobs'[j].status \in Finished \cup {"DELETED"}
  <2> SUFFICES ASSUME NEW j \in deleting' \cup staleJobs'
               PROVE  j \in JobIds /\ jobs'[j].status \in Finished \cup {"DELETED"}
    OBVIOUS
  <2>1. j \in JobIds
    BY <1>0, DeleterStep DEF DeleterTypeOK
  <2>2. CASE j \in deleting \cup staleJobs
    BY <1>1, <2>1, <2>2 DEF VerdictInv
  <2>3. CASE j \notin deleting \cup staleJobs
    <3>1. CASE j \in deleting'
      BY <2>1, <2>3, <3>1, ListStep
    <3>2. CASE j \in staleJobs'
      BY <2>1, <2>3, <3>2, ListStep
    <3> QED
      BY <3>1, <3>2
  <2> QED
    BY <2>1, <2>2, <2>3
<1>3. ASSUME NEW j \in staleJobs', Present(j)'
      PROVE  jobs'[j].sid = NoSession /\ jobs'[j].age >= JobKeepalive
  <2>1. CASE j \in staleJobs
    <3>1. j \in JobIds /\ Untouched(j) /\ Present(j)
      BY <1>0, <1>1, <1>3, <2>1 DEF VerdictInv
    <3>2. jobs[j].sid = NoSession /\ jobs[j].age >= JobKeepalive
      BY <2>1, <3>1 DEF VerdictInv
    <3> QED
      BY <1>0, <3>1, <3>2 DEF Untouched
  <2>2. CASE j \notin staleJobs
    BY <1>3, <2>2, ListStep
  <2> QED
    BY <2>1, <2>2
<1> QED
  BY <1>2, <1>3 DEF VerdictInv

(***************************************************************************)
(* With a repository that does not fail, what delete_job and purge_jobs    *)
(* found before they delete is still so when they do.                      *)
(***************************************************************************)
THEOREM VerdictsHold ==
  ASSUME ~Faults
  PROVE  DocSpec => []VerdictsOnJobsHold
<1>1. DocInit => ExceptInv /\ VerdictInv
  BY ExceptInvInit DEF DocInit, VerdictInv
<1>2. VerdictInv => VerdictsOnJobsHold
  BY DEF VerdictInv, VerdictsOnJobsHold, Present, JobStatus, Unfinished, Finished
<1> QED
  BY <1>1, <1>2, DocInvHolds, ExceptInvDocStep, VerdictStep, PTL DEF DocSpec

\* Whoever deletes a job has it on a list, or deletes its session, or is an operator.
LEMMA DeletedFromList ==
  ASSUME ~Faults, ~DebugDelete, TypeOK, DeleterTypeOK, [DocNext]_allVars,
         NEW j \in JobIds, Deleted(j)
  PROVE  \/ j \in deleting \cup staleJobs
         \/ \E s \in SessionIds : DeleteSession(s) /\ jobs[j].sid = s
<1>0. /\ jobs \in [JobIds -> Job]
      /\ Present(j) /\ jobs'[j].status = "DELETED"
      /\ jobs[j].status # "DELETED"
  BY DEF TypeOK, RepoTypeOK, Deleted, Present, JobStatus, Unfinished, Finished
<1>1. ~ UNCHANGED repoVars
  BY <1>0 DEF repoVars
<1>2. ASSUME NEW k \in JobIds, DeleteJob(k) PROVE k = j
  BY <1>0, <1>2 DEF DeleteJob
<1>3. ASSUME NEW s \in SessionIds, DeleteSession(s) PROVE jobs[j].sid = s
  BY <1>0, <1>3 DEF DeleteSession
<1>4. ASSUME NEW s \in SessionIds, AddSession(s) PROVE FALSE
  BY <1>0, <1>4 DEF AddSession
<1>5. ~Tick
  BY <1>0 DEF Tick, Older, Job, TypeOK, RepoTypeOK
<1>6. ~[QueueStep]_vars
  <2>1. ASSUME NEW k \in JobIds, NEW s, AddJobInPart(k, s) PROVE FALSE
    BY <1>0, <2>1 DEF AddJobInPart, Insert, Blank
  <2>2. ASSUME NEW k \in JobIds, NEW status \in JobStatus, NEW result,
               UpdateJobInPart(k, status, result)
        PROVE  FALSE
    BY <1>0, <2>2 DEF UpdateJobInPart, Store, Job, JobStatus, Unfinished, Finished
  <2>3. ASSUME NEW k \in JobIds, AddToJobLog(k) PROVE FALSE
    BY <1>0, <2>3 DEF AddToJobLog, repoVars
  <2> QED
    BY <1>1, <2>1, <2>2, <2>3, QueueRepositoryStep
<1>7. CASE Request
  <2>1. ASSUME NEW k \in JobIds, RemoveJob(k) PROVE k = j /\ j \in deleting
    BY <1>1, <1>2, <2>1 DEF RemoveJob, CallRaises
  <2>2. ASSUME NEW k \in JobIds, CheckJob(k) PROVE FALSE
    BY <1>1, <2>2 DEF CheckJob, CheckJobIn, vars
  <2>3. ASSUME NEW s \in SessionIds, CreateSession(s) \/ CheckSession(s) PROVE FALSE
    BY <1>1, <1>4, <2>3 DEF CreateSession, CheckSession, vars
  <2>4. ASSUME NEW s \in SessionIds, RemoveSession(s)
        PROVE  DeleteSession(s) /\ jobs[j].sid = s
    BY <1>1, <1>3, <2>4 DEF RemoveSession
  <2>5. ~ \E k \in JobIds, s \in SessionIds \cup {NoSession} : CreateJob(k, s)
    BY <1>6 DEF QueueStep
  <2> QED
    BY <1>7, <2>1, <2>2, <2>3, <2>4, <2>5 DEF Request
<1>8. CASE Purge
  <2>1. ASSUME NEW k \in JobIds, PurgeJob(k) PROVE k = j /\ j \in staleJobs
    BY <1>1, <1>2, <2>1 DEF PurgeJob, AbortPurge
  <2>2. CASE PurgeSession
    BY <1>1, <1>3, <2>2 DEF PurgeSession, AbortPurge, DeleterTypeOK, VictimChosen
  <2>3. ASSUME NEW s \in SessionIds, PurgeCheck(s) PROVE FALSE
    BY <1>1, <2>3 DEF PurgeCheck, PurgeCheckFor, AbortPurge
  <2>4. ~StartPurge /\ ~FindStaleSessions /\ ~EndPurge
    BY <1>1 DEF StartPurge, StartPurgeOf, FindStaleSessions, EndPurge, AbortPurge
  <2> QED
    BY <1>8, <2>1, <2>2, <2>3, <2>4 DEF Purge
<1>9. ~PurgeFails /\ ~Time /\ ~ \E k \in JobIds : OperatorDeletes(k)
  BY <1>1, <1>5 DEF PurgeFails, AbortPurge, Time, OperatorDeletes
<1>10. ~JobsProceed /\ ~Stop /\ ~ UNCHANGED allVars
  BY <1>6 DEF JobsProceed, Stop, StopGracefully, EndProcess, StartAgain, allVars,
              QueueStep, Next, ServeGracefully, Serve
<1> QED
  BY <1>7, <1>8, <1>9, <1>10 DEF DocNext, DocServe, Background

(***************************************************************************)
(* With a repository that does not fail, and an operator who deletes       *)
(* nothing, no standalone job is deleted before it is finished: not by a   *)
(* request or a purger that looked at it some time ago.                    *)
(***************************************************************************)
THEOREM StandaloneKept ==
  ASSUME ~Faults, ~DebugDelete
  PROVE  DocSpec => StandaloneKeptUntilFinished
<1>1. ASSUME DocInv, VerdictInv, [DocNext]_allVars
      PROVE  [\A j \in JobIds : Deleted(j) /\ jobs[j].sid = NoSession
                                   => jobs[j].status \in Finished]_allVars
  <2> SUFFICES ASSUME NEW j \in JobIds, Deleted(j), jobs[j].sid = NoSession
               PROVE  jobs[j].status \in Finished
    OBVIOUS
  <2>1. j \in deleting \cup staleJobs
    BY <1>1, DeletedFromList, RepositoryAssumption DEF DocInv
  <2> QED
    BY <1>1, <2>1 DEF VerdictInv, Deleted, Present, JobStatus, Unfinished, Finished
<1>2. DocInit => ExceptInv /\ VerdictInv
  BY ExceptInvInit DEF DocInit, VerdictInv
<1> QED
  BY <1>1, <1>2, DocInvHolds, ExceptInvDocStep, VerdictStep, PTL
     DEF DocSpec, StandaloneKeptUntilFinished

-----------------------------------------------------------------------------
(* Jobs under the hands of their owners.                                   *)

\* A step beside the queue takes no job from its owner: it leaves the status as it
\* is, or deletes the job.
LEMMA ServiceServeInvStep ==
  ASSUME ~Faults
  PROVE  DocInv /\ ExceptInv /\ ServeInv /\ [DocServe]_allVars => ServeInv'
<1> SUFFICES ASSUME DocInv, ExceptInv, ServeInv, [DocServe]_allVars
             PROVE  ServeInv'
  OBVIOUS
<1>1. CASE [ServeStep]_vars
  BY <1>1, ServeInvStep DEF DocInv
<1>2. CASE BesideQueue
  <2>1. /\ UNCHANGED <<task, create, queue, getter, worker, shutdown>>
        /\ \A j \in JobIds : SameOutcome(j) \/ jobs'[j] = Blank("DELETED")
    BY <1>2, BesideQueueEffect DEF DocInv, TypeOK, procVars, taskVars, queueVars
  <2>2. ASSUME NEW j \in JobIds
        PROVE  jobs'[j].status = jobs[j].status \/ jobs'[j].status = "DELETED"
    BY <2>1 DEF SameOutcome, Blank
  <2>3. NotLost'
    BY <2>1, <2>2 DEF ServeInv, NotLost, InQueue
  <2> QED
    BY <2>1, <2>3 DEF ServeInv
<1> QED
  BY <1>1, <1>2, DeleterServeStep DEF DocInv

(***************************************************************************)
(* In a whole service that is not stopped, and whose repository does not   *)
(* fail, no job is lost, although users, purger and operator delete jobs   *)
(* in any state, alone or with their session: what is left is always in    *)
(* the hands of a request, the queue, the worker or its coroutine.         *)
(***************************************************************************)
THEOREM NotLostInService ==
  ASSUME ~Faults
  PROVE  DocServeSpec => []NotLost
<1>1. DocInit => ExceptInv /\ ServeInv
  BY ExceptInvInit, ServeInvInit DEF DocInit
<1>2. [DocServe]_allVars => [DocNext]_allVars
  BY DEF DocNext
<1>3. DocServeSpec => DocSpec
  BY <1>2, PTL DEF DocServeSpec, DocSpec
<1>4. ServeInv => NotLost
  BY DEF ServeInv
<1> QED
  BY <1>1, <1>2, <1>3, <1>4, DocInvHolds, ExceptInvDocStep, ServiceServeInvStep, PTL
     DEF DocServeSpec

-----------------------------------------------------------------------------
(* The graceful wait.                                                      *)

LEMMA ServiceDrainWaitsStep ==
  DocInv /\ DrainWaits /\ [DocNext]_allVars => DrainWaits'
<1> SUFFICES ASSUME DocInv, DrainWaits, [DocNext]_allVars
             PROVE  DrainWaits'
  OBVIOUS
<1>1. CASE [QueueStep]_vars
  BY <1>1, DrainWaitsStep DEF DocInv
<1>2. CASE BesideQueue
  BY <1>2 DEF BesideQueue, procVars, taskVars, queueVars, DrainWaits, Live
<1> QED
  BY <1>1, <1>2, DeleterStep DEF DocInv

(***************************************************************************)
(* The graceful wait of the whole service is complete, or ends with the    *)
(* exception of a coroutine: whatever calls fail, and whoever deletes a    *)
(* job under the hands of its coroutine.                                   *)
(***************************************************************************)
THEOREM DrainWaitsInService == DocSpec => []DrainWaits
<1>1. DocInit => DrainWaits
  BY DEF DocInit, Init, DrainWaits
<1> QED
  BY <1>1, DocInvHolds, ServiceDrainWaitsStep, PTL DEF DocSpec

-----------------------------------------------------------------------------
(* The service as an implementation of the abstract lifecycle.             *)

\* A deletion that its list allows is one of the lifecycle; so is that of a session.
LEMMA DeletionImplements ==
  ASSUME TypeOK, NEW k \in JobIds, DeleteJob(k), Deleted(k) => jobs[k].status \in Finished
  PROVE  Lifecycle!Next
<1>1. /\ jobs \in [JobIds -> Job]
      /\ sessions \in [SessionIds -> Session]
  BY DEF TypeOK, RepoTypeOK
<1>2. /\ jobs' = [jobs EXCEPT ![k] = Blank("DELETED")]
      /\ Present(k)
      /\ sessions' = Touched(jobs[k].sid)
  BY DEF DeleteJob
<1>3. /\ jobs'[k].status = "DELETED"
      /\ jobs'[k].sid = NoSession
      /\ \A j \in JobIds \ {k} : jobs'[j] = jobs[j]
  BY <1>1, <1>2 DEF Blank
<1>4. jobs[k].status \in {"SUCCESS", "ERROR"}
  BY <1>2, <1>3 DEF Deleted, Finished
<1>5. \A s \in SessionIds : sessions'[s].state = sessions[s].state
  BY <1>1, <1>2, TouchedState
<1>6. Lifecycle!Delete(k)
  BY <1>3, <1>4, <1>5 DEF Lifecycle!Delete, Lifecycle!Remove
<1> QED
  BY <1>6 DEF Lifecycle!Next

LEMMA SessionStepImplements ==
  ASSUME TypeOK, NEW s \in SessionIds, AddSession(s) \/ DeleteSession(s)
  PROVE  Lifecycle!Next
<1>1. sessions \in [SessionIds -> Session]
  BY DEF TypeOK, RepoTypeOK
<1>2. CASE AddSession(s)
  <2>1. /\ sessions[s].state = "NEW"
        /\ sessions'[s].state = "OPEN"
        /\ \A t \in SessionIds \ {s} : sessions'[t] = sessions[t]
        /\ jobs' = jobs
    BY <1>1, <1>2 DEF AddSession
  <2>2. Lifecycle!OpenSession(s)
    BY <2>1 DEF Lifecycle!OpenSession
  <2> QED
    BY <2>2 DEF Lifecycle!Next
<1>3. CASE DeleteSession(s)
  <2>1. /\ sessions[s].state = "OPEN"
        /\ sessions'[s].state = "DELETED"
        /\ \A t \in SessionIds \ {s} : sessions'[t] = sessions[t]
    BY <1>1, <1>3 DEF DeleteSession, Open
  <2>2. ASSUME NEW j \in JobIds
        PROVE  /\ jobs[j].sid = s => jobs'[j].status = "DELETED" /\ jobs'[j].sid = NoSession
               /\ jobs[j].sid # s => jobs'[j] = jobs[j]
    BY <1>3 DEF DeleteSession, Blank
  <2>3. Lifecycle!Remove({j \in JobIds : jobs[j].sid = s})
    BY <2>2 DEF Lifecycle!Remove
  <2>4. Lifecycle!DeleteSession(s)
    BY <2>1, <2>3 DEF Lifecycle!DeleteSession, Lifecycle!Remove
  <2> QED
    BY <2>4 DEF Lifecycle!Next
<1> QED
  BY <1>2, <1>3

(***************************************************************************)
(* With a repository that does not fail, and an operator who deletes       *)
(* nothing, the whole service implements the abstract lifecycle: requests  *)
(* that delete, sessions, purger, shutdowns and crashes included.  A job   *)
(* disappears finished, or with its session, whose other jobs go, too.     *)
(***************************************************************************)
THEOREM LifecycleInService ==
  ASSUME ~Faults, ~DebugDelete
  PROVE  DocSpec => ImplementsLifecycle
<1>1. ASSUME DocInv, ExceptInv, VerdictInv, [DocNext]_allVars
      PROVE  [Lifecycle!Next]_(Lifecycle!lifeVars)
  <2>0. /\ TypeOK /\ DeleterTypeOK
        /\ jobs \in [JobIds -> Job]
        /\ sessions \in [SessionIds -> Session]
    BY <1>1 DEF DocInv, TypeOK, RepoTypeOK
  <2>1. CASE [QueueStep]_vars
    BY <1>1, <2>0, <2>1, ProgressStep, QueueMembersStep, ProgressImplements DEF DocInv
  <2>2. ASSUME NEW k \in JobIds, DeleteJob(k), ~(\E s \in SessionIds : DeleteSession(s))
        PROVE  Lifecycle!Next
    <3>1. ASSUME Deleted(k) PROVE jobs[k].status \in Finished
      <4>1. k \in deleting \cup staleJobs
        BY <1>1, <2>0, <2>2, <3>1, DeletedFromList
      <4> QED
        BY <1>1, <3>1, <4>1 DEF VerdictInv, Deleted, Present, JobStatus, Unfinished, Finished
    <3> QED
      BY <2>0, <2>2, <3>1, DeletionImplements
  <2>3. ASSUME NEW s \in SessionIds, AddSession(s) \/ DeleteSession(s)
        PROVE  Lifecycle!Next
    BY <2>0, <2>3, SessionStepImplements
  <2>4. CASE Tick
    <3>1. \A j \in JobIds : jobs'[j].status = jobs[j].status /\ jobs'[j].sid = jobs[j].sid
      BY <2>0, <2>4 DEF Tick, Older, Job
    <3>2. \A s \in SessionIds : sessions'[s].state = sessions[s].state
      BY <2>0, <2>4 DEF Tick, Older, Session
    <3> QED
      BY <3>1, <3>2 DEF Lifecycle!lifeVars
  <2> QED
    BY <2>0, <1>1, <2>1, <2>2, <2>3, <2>4, DeleterStep
       DEF BesideQueue, RepoStep, FaultyDeletion
<1>2. DocInit => Lifecycle!Init /\ ExceptInv /\ VerdictInv
  BY InitIsNew, ExceptInvInit DEF DocInit, VerdictInv
<1> QED
  BY <1>1, <1>2, DocInvHolds, ExceptInvDocStep, VerdictStep, PTL
     DEF DocSpec, ImplementsLifecycle, Lifecycle!Spec
=============================================================================
