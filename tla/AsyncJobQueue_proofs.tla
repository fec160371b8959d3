------------------------ MODULE AsyncJobQueue_proofs ------------------------
(***************************************************************************)
(* Proofs about module AsyncJobQueue, for every set of jobs and sessions,  *)
(* every concurrency limit, and with or without failing repository calls.  *)
(***************************************************************************)
EXTENDS AsyncJobQueue, FiniteSetTheorems, TLAPS

-----------------------------------------------------------------------------
(* The operations of the repository keep its type.                         *)

LEMMA BlankType ==
  ASSUME NEW status \in JobStatus \cup {"NEW", "DELETED"}
  PROVE  Blank(status) \in Job
  BY RepositoryAssumption DEF Blank, Job, Ages

LEMMA TouchedType ==
  ASSUME RepoTypeOK, NEW s
  PROVE  Touched(s) \in [SessionIds -> Session]
  BY RepositoryAssumption DEF RepoTypeOK, Touched, Session, Ages

\* A method that succeeds is one that may have stopped, but did not.
LEMMA WholeIsInPart ==
  ASSUME NEW j
  PROVE  /\ \A s : AddJob(j, s) => AddJobInPart(j, s)
         /\ \A status, result : UpdateJob(j, status, result)
                                   => UpdateJobInPart(j, status, result)
  BY DEF AddJob, AddJobInPart, UpdateJob, UpdateJobInPart, InPart

\* The updates of the service, whole or in part.
LEMMA UpdateCalls ==
  ASSUME NEW j
  PROVE  /\ Enqueue(j) => \/ UpdateJobInPart(j, "QUEUED", jobs[j].result)
                          \/ UNCHANGED repoVars
         /\ MarkRunning(j) => \/ UpdateJobInPart(j, "RUNNING", jobs[j].result)
                              \/ UNCHANGED repoVars
         /\ Finish(j) => \/ UpdateJobInPart(j, IF answer[j].success THEN "SUCCESS" ELSE "ERROR",
                                             answer[j].result)
                         \/ UNCHANGED repoVars
         /\ MarkError(j) => \/ UpdateJobInPart(j, "ERROR", jobs[j].result)
                            \/ UNCHANGED repoVars
<1>1. Enqueue(j) => \/ UpdateJobInPart(j, "QUEUED", jobs[j].result)
                    \/ UNCHANGED repoVars
  BY WholeIsInPart DEF Enqueue, CallRaises
<1>2. MarkRunning(j) => \/ UpdateJobInPart(j, "RUNNING", jobs[j].result)
                        \/ UNCHANGED repoVars
  BY WholeIsInPart DEF MarkRunning, CallRaises
<1>3. Finish(j) => \/ UpdateJobInPart(j, IF answer[j].success THEN "SUCCESS" ELSE "ERROR",
                                       answer[j].result)
                   \/ UNCHANGED repoVars
  BY WholeIsInPart DEF Finish, FinishAs, CallRaises
<1>4. MarkError(j) => \/ UpdateJobInPart(j, "ERROR", jobs[j].result)
                      \/ UNCHANGED repoVars
  BY WholeIsInPart DEF MarkError, CallRaises
<1> QED
  BY <1>1, <1>2, <1>3, <1>4

LEMMA InPartType ==
  ASSUME RepoTypeOK, NEW s, InPart(s)
  PROVE  sessions' \in [SessionIds -> Session]
  BY TouchedType DEF InPart, RepoTypeOK

LEMMA AddJobType ==
  ASSUME RepoTypeOK, NEW j \in JobIds, NEW s \in SessionIds \cup {NoSession},
         AddJobInPart(j, s)
  PROVE  RepoTypeOK'
<1>1. sessions' \in [SessionIds -> Session]
  BY InPartType DEF AddJobInPart
<1>2. [Blank("CREATED") EXCEPT !.sid = s] \in Job
  BY BlankType DEF Job, JobStatus, Unfinished, Finished
<1> QED
  BY <1>1, <1>2 DEF AddJobInPart, Insert, RepoTypeOK

LEMMA UpdateJobType ==
  ASSUME RepoTypeOK, NEW j \in JobIds, NEW status \in JobStatus,
         NEW result \in BOOLEAN, UpdateJobInPart(j, status, result)
  PROVE  RepoTypeOK'
<1>1. jobs[j] \in Job
  BY DEF RepoTypeOK
<1>2. [jobs[j] EXCEPT !.status = status, !.age = 0, !.result = result] \in Job
  <2>1. 0 \in Ages
    BY RepositoryAssumption DEF Ages
  <2> QED
    BY <1>1, <2>1 DEF Job
<1>3. jobs' \in [JobIds -> Job]
  BY <1>2 DEF UpdateJobInPart, Store, RepoTypeOK
<1>4. sessions' \in [SessionIds -> Session]
  BY InPartType DEF UpdateJobInPart
<1> QED
  BY <1>3, <1>4 DEF RepoTypeOK

LEMMA AddToJobLogType ==
  ASSUME RepoTypeOK, NEW j \in JobIds, AddToJobLog(j)
  PROVE  RepoTypeOK'
  BY DEF AddToJobLog, RepoTypeOK, repoVars

-----------------------------------------------------------------------------
\* A coroutine calls the repository at most once in a step.
LEMMA TaskStepCalls ==
  ASSUME RepoTypeOK, TaskTypeOK, NEW j \in JobIds, TaskStep(j)
  PROVE  \/ UNCHANGED repoVars
         \/ \E status \in JobStatus, result \in BOOLEAN : UpdateJobInPart(j, status, result)
         \/ AddToJobLog(j)
<1>1. jobs[j].result \in BOOLEAN
  BY DEF RepoTypeOK, Job
<1>2. /\ answer[j] \in Answers
      /\ answer[j].result \in BOOLEAN
  BY DEF TaskTypeOK, Answers
<1>3. CASE Find(j)
  BY <1>3 DEF Find
<1>4. CASE MarkRunning(j)
  BY <1>4, <1>1, WholeIsInPart DEF MarkRunning, CallRaises, JobStatus, Unfinished
<1>5. CASE RunSandbox(j)
  BY <1>5 DEF RunSandbox, CallSandbox
<1>6. CASE WriteLog(j)
  BY <1>6 DEF WriteLog, CallRaises
<1>7. CASE Finish(j)
  BY <1>7, <1>2, WholeIsInPart DEF Finish, FinishAs, CallRaises, JobStatus, Finished
<1>8. CASE FailLog(j)
  BY <1>8 DEF FailLog, CallRaises
<1>9. CASE MarkError(j)
  BY <1>9, <1>1, WholeIsInPart DEF MarkError, CallRaises, JobStatus, Finished
<1> QED
  BY <1>3, <1>4, <1>5, <1>6, <1>7, <1>8, <1>9 DEF TaskStep

LEMMA TaskStepType ==
  ASSUME RepoTypeOK, TaskTypeOK, NEW j \in JobIds, TaskStep(j)
  PROVE  RepoTypeOK' /\ TaskTypeOK'
<1>1. RepoTypeOK'
  <2>1. CASE UNCHANGED repoVars
    BY <2>1 DEF RepoTypeOK, repoVars
  <2>2. CASE \E status \in JobStatus, result \in BOOLEAN : UpdateJobInPart(j, status, result)
    BY <2>2, UpdateJobType
  <2>3. CASE AddToJobLog(j)
    BY <2>3, AddToJobLogType
  <2> QED
    BY <2>1, <2>2, <2>3, TaskStepCalls
<1>2. task' \in [JobIds -> Steps \cup Ends \cup {"none"}]
  BY DEF TaskStep, Find, MarkRunning, RunSandbox, CallSandbox, WriteLog, Finish,
         FinishAs, FailLog, MarkError, Goto, TaskTypeOK, Steps, Ends
<1>3. answer' \in [JobIds -> Answers]
  <2>1. NoAnswer \in Answers /\ SandboxResults \subseteq Answers
    BY DEF NoAnswer, SandboxResults, Answers
  <2>2. answer \in [JobIds -> Answers]
    BY DEF TaskTypeOK
  <2> QED
    BY <2>1, <2>2 DEF TaskStep, Find, MarkRunning, RunSandbox, CallSandbox, WriteLog,
                      Finish, FinishAs, FailLog, MarkError
<1> QED
  BY <1>1, <1>2, <1>3 DEF TaskTypeOK

-----------------------------------------------------------------------------
(* A round of the worker takes at most the first job from the queue.       *)

LEMMA RoundType ==
  ASSUME TypeOK, NEW tasks \in SUBSET JobIds, Round(tasks)
  PROVE  /\ running' \subseteq tasks
         /\ worker' \in {"await_slot", "await_job"}
         /\ getter' \in JobIds \cup {NoJob}
         /\ queue' \in Seq(JobIds)
         /\ \/ getter' = NoJob /\ queue' = queue
            \/ queue # <<>> /\ getter' = Head(queue) /\ queue' = Tail(queue)
<1>1. queue \in Seq(JobIds)
  BY DEF TypeOK
<1>2. queue # <<>> => Head(queue) \in JobIds /\ Tail(queue) \in Seq(JobIds)
  BY <1>1
<1> QED
  BY <1>1, <1>2 DEF Round, RoundUpTo

\* A step of the queue, with jobs of sessions as well: module Docleaner adds them.
QueueStep == \/ Next
             \/ \E j \in JobIds, s \in SessionIds \cup {NoSession} : CreateJob(j, s)

LEMMA NextIsQueueStep == [Next]_vars => [QueueStep]_vars
  BY DEF QueueStep

LEMMA TypeStep == TypeOK /\ [QueueStep]_vars => TypeOK'
<1> SUFFICES ASSUME TypeOK, [QueueStep]_vars PROVE TypeOK'
  OBVIOUS
<1> USE DEF TypeOK
<1>1. CASE UNCHANGED vars
  BY <1>1 DEF vars, repoVars, taskVars, queueVars, RepoTypeOK, TaskTypeOK
<1>2. ASSUME NEW j \in JobIds, NEW s \in SessionIds \cup {NoSession}, CreateJob(j, s)
      PROVE  TypeOK'
  BY <1>2, AddJobType, WholeIsInPart DEF CreateJob, taskVars, queueVars, TaskTypeOK, CreateSteps
<1>3. ASSUME NEW j \in JobIds, FindCreated(j) PROVE TypeOK'
  BY <1>3 DEF FindCreated, repoVars, taskVars, queueVars, RepoTypeOK, TaskTypeOK,
              CreateSteps
<1>4. ASSUME NEW j \in JobIds, Enqueue(j) PROVE TypeOK'
  <2>1. jobs[j].result \in BOOLEAN /\ "QUEUED" \in JobStatus
    BY DEF RepoTypeOK, Job, JobStatus, Unfinished
  <2>2. RepoTypeOK'
    BY <1>4, <2>1, UpdateCalls, UpdateJobType DEF repoVars, RepoTypeOK
  <2>3. queue' \in Seq(JobIds)
    BY <1>4 DEF Enqueue
  <2> QED
    BY <1>4, <2>2, <2>3 DEF Enqueue, taskVars, TaskTypeOK
<1>5. ASSUME NEW j \in JobIds, TaskStep(j), UNCHANGED <<create, queueVars>>
      PROVE  TypeOK'
  BY <1>5, TaskStepType DEF queueVars
<1>6. CASE Begin
  BY <1>6, RoundType DEF Begin, repoVars, taskVars, RepoTypeOK, TaskTypeOK, WorkerSteps
<1>7. CASE AwaitSlot
  <2>1. Round(running \ Completed)
    BY <1>7 DEF AwaitSlot
  <2>2. /\ running' \in SUBSET JobIds
        /\ worker' \in WorkerSteps
        /\ getter' \in JobIds \cup {NoJob}
        /\ queue' \in Seq(JobIds)
    BY <2>1, RoundType DEF WorkerSteps
  <2> QED
    BY <1>7, <2>2 DEF AwaitSlot, repoVars, taskVars, RepoTypeOK, TaskTypeOK
<1>8. CASE Dispatch
  <2>1. task' \in [JobIds -> Steps \cup Ends \cup {"none"}]
    BY <1>8 DEF Dispatch, TaskTypeOK, Steps
  <2>2. /\ running' \in SUBSET JobIds
        /\ worker' \in WorkerSteps
        /\ getter' \in JobIds \cup {NoJob}
        /\ queue' \in Seq(JobIds)
    <3>1. running \cup {getter} \in SUBSET JobIds
      BY <1>8 DEF Dispatch
    <3>2. CASE ~shutdown
      BY <1>8, <3>1, <3>2, RoundType DEF Dispatch, WorkerSteps
    <3>3. CASE shutdown
      BY <1>8, <3>1, <3>3 DEF Dispatch, WorkerSteps
    <3> QED
      BY <3>2, <3>3
  <2> QED
    BY <1>8, <2>1, <2>2 DEF Dispatch, repoVars, RepoTypeOK, TaskTypeOK
<1>9. CASE StopWaiting
  BY <1>9 DEF StopWaiting, LeaveLoop, repoVars, taskVars, RepoTypeOK, TaskTypeOK,
              WorkerSteps
<1>10. CASE Drain
  BY <1>10 DEF Drain, repoVars, taskVars, RepoTypeOK, TaskTypeOK, WorkerSteps
<1>11. CASE Get
  <2>1. getter' \in JobIds \cup {NoJob} /\ queue' \in Seq(JobIds)
    BY <1>11 DEF Get, GetLeaving
  <2> QED
    BY <1>11, <2>1 DEF Get, GetLeaving, repoVars, taskVars, RepoTypeOK, TaskTypeOK
<1>12. CASE Shutdown
  BY <1>12 DEF Shutdown, repoVars, taskVars, RepoTypeOK, TaskTypeOK
<1>13. CASE Down
  <2>1. TaskTypeOK'
    BY <1>13 DEF Down, TaskTypeOK, NoAnswer, Answers
  <2>2. RepoTypeOK' /\ queue' \in Seq(JobIds)
    BY <1>13 DEF Down, repoVars, RepoTypeOK
  <2>3. create' \in [JobIds -> CreateSteps \cup {"none", "returned", "failed"}]
    BY <1>13 DEF Down
  <2> QED
    BY <1>13, <2>1, <2>2, <2>3 DEF Down
<1>14. CASE Restart
  BY <1>14 DEF Restart, repoVars, taskVars, RepoTypeOK, TaskTypeOK, WorkerSteps
<1> QED
  BY <1>1, <1>2, <1>3, <1>4, <1>5, <1>6, <1>7, <1>8, <1>9, <1>10, <1>11, <1>12,
     <1>13, <1>14
     DEF QueueStep, Next, ServeGracefully, Serve, JobStep, WorkerStep, Crash, Exit

LEMMA TypeInit == Init => TypeOK
<1> SUFFICES ASSUME Init PROVE TypeOK
  OBVIOUS
<1>1. RepoTypeOK
  BY BlankType, RepositoryAssumption
     DEF Init, RepoInit, RepoTypeOK, Session, Ages
<1>2. TaskTypeOK
  BY DEF Init, TaskInit, TaskTypeOK, NoAnswer, Answers
<1>3. queue \in Seq(JobIds)
  BY DEF Init
<1> QED
  BY <1>1, <1>2, <1>3 DEF Init, TypeOK, WorkerSteps

(***************************************************************************)
(* Every reachable state is typed.                                         *)
(***************************************************************************)
THEOREM TypeCorrect == Spec => []TypeOK
  BY TypeInit, NextIsQueueStep, TypeStep, PTL DEF Spec

-----------------------------------------------------------------------------
(* The concurrency limit.  The worker counts the coroutines in             *)
(* running_tasks, so that set must not lack one that is executed, and it   *)
(* must have room while the worker waits for a job.                        *)

RunningInv ==
    /\ \A j \in JobIds : Live(j) => j \in running
    /\ IsFiniteSet(running)
    /\ Cardinality(running) <= MaxConcurrent
    /\ worker = "await_job" => Cardinality(running) < MaxConcurrent
    /\ worker \in {"loop", "down"} => running = {}

\* A round forgets no coroutine of its set that is executed, and only waits for
\* a job if there is room for one.
LEMMA RoundKeepsLimit ==
  ASSUME NEW tasks \in SUBSET JobIds, IsFiniteSet(tasks),
         Cardinality(tasks) <= MaxConcurrent,
         \A j \in JobIds : Live(j)' => j \in tasks,
         Round(tasks)
  PROVE  RunningInv'
<1> DEFINE kept == {j \in tasks : Live(j)'}
<1>1. /\ running' = kept
      /\ \/ Cardinality(kept) >= MaxConcurrent /\ worker' = "await_slot"
         \/ Cardinality(kept) < MaxConcurrent /\ worker' = "await_job"
  BY DEF Round, RoundUpTo
<1>2. IsFiniteSet(kept) /\ Cardinality(kept) <= Cardinality(tasks)
  BY FS_Subset
<1>3. /\ Cardinality(kept) \in Nat
      /\ Cardinality(tasks) \in Nat
      /\ MaxConcurrent \in Nat
  BY <1>2, FS_CardinalityType, QueueAssumption
<1>4. \A j \in JobIds : Live(j)' => j \in kept
  OBVIOUS
<1> HIDE DEF kept
<1> QED
  BY <1>1, <1>2, <1>3, <1>4 DEF RunningInv

\* No step of a coroutine revives another one, or a coroutine that ended.
LEMMA TaskStepLive ==
  ASSUME TypeOK, NEW j \in JobIds, TaskStep(j), NEW k \in JobIds, Live(k)'
  PROVE  Live(k)
<1>1. task \in [JobIds -> Steps \cup Ends \cup {"none"}]
  BY DEF TypeOK, TaskTypeOK
<1>2. task[j] \in Steps /\ \E step \in Steps \cup Ends : Goto(j, step)
  BY DEF TaskStep, Find, MarkRunning, RunSandbox, CallSandbox, WriteLog, Finish,
         FinishAs, FailLog, MarkError, Steps, Ends
<1> QED
  BY <1>1, <1>2 DEF Live, Goto

LEMMA RunningInvStep == TypeOK /\ RunningInv /\ [QueueStep]_vars => RunningInv'
<1> SUFFICES ASSUME TypeOK, RunningInv, [QueueStep]_vars PROVE RunningInv'
  OBVIOUS
<1>0. /\ MaxConcurrent \in Nat \ {0}
      /\ Cardinality(running) \in Nat
      /\ running \in SUBSET JobIds
  BY QueueAssumption, FS_CardinalityType DEF RunningInv, TypeOK
<1>1. CASE UNCHANGED <<task, running, worker>>
  BY <1>1 DEF RunningInv, Live
<1>2. ASSUME NEW j \in JobIds, NEW s \in SessionIds \cup {NoSession},
             CreateJob(j, s) \/ FindCreated(j) \/ Enqueue(j)
      PROVE  RunningInv'
  BY <1>1, <1>2 DEF CreateJob, FindCreated, Enqueue, taskVars, queueVars
<1>3. ASSUME NEW j \in JobIds, TaskStep(j), UNCHANGED <<create, queueVars>>
      PROVE  RunningInv'
  BY <1>3, TaskStepLive DEF RunningInv, queueVars
<1>4. CASE Begin
  <2>1. \A j \in JobIds : ~Live(j)'
    BY <1>4 DEF Begin, RunningInv, taskVars, Live
  <2>2. IsFiniteSet({}) /\ Cardinality({}) <= MaxConcurrent
    BY <1>0, FS_EmptySet
  <2> QED
    BY <1>4, <2>1, <2>2, RoundKeepsLimit DEF Begin
<1>5. CASE AwaitSlot
  <2> DEFINE rest == running \ Completed
  <2>1. \A j \in JobIds : Live(j)' => j \in rest
    BY <1>5 DEF AwaitSlot, RunningInv, taskVars, Live, Completed
  <2>2. IsFiniteSet(rest) /\ Cardinality(rest) <= Cardinality(running)
    BY FS_Subset DEF RunningInv
  <2>3. Cardinality(rest) <= MaxConcurrent
    BY <1>0, <2>2, FS_CardinalityType DEF RunningInv
  <2> QED
    BY <1>0, <1>5, <2>1, <2>2, <2>3, RoundKeepsLimit DEF AwaitSlot
<1>6. CASE Dispatch
  <2> DEFINE more == running \cup {getter}
  <2>1. /\ worker = "await_job"
        /\ getter \in JobIds
        /\ task' = [task EXCEPT ![getter] = "find"]
    BY <1>6 DEF Dispatch, TypeOK
  <2>2. \A j \in JobIds : Live(j)' => j \in more
    BY <2>1 DEF RunningInv, Live, TypeOK, TaskTypeOK
  <2>3. IsFiniteSet(more) /\ Cardinality(more) <= Cardinality(running) + 1
    BY <1>0, FS_AddElement DEF RunningInv
  <2>4. Cardinality(more) <= MaxConcurrent
    BY <1>0, <2>1, <2>3, FS_CardinalityType DEF RunningInv
  <2>5. CASE ~shutdown
    <3>1. more \in SUBSET JobIds /\ Round(more)
      BY <1>0, <1>6, <2>1, <2>5 DEF Dispatch
    <3> HIDE DEF more
    <3> QED
      BY <2>2, <2>3, <2>4, <3>1, RoundKeepsLimit
  <2>6. CASE shutdown
    <3>1. running' = more /\ worker' = "drain"
      BY <1>6, <2>6 DEF Dispatch
    <3> HIDE DEF more
    <3> QED
      BY <2>2, <2>3, <2>4, <3>1 DEF RunningInv
  <2> QED
    BY <2>5, <2>6
<1>7. CASE StopWaiting
  BY <1>7 DEF StopWaiting, LeaveLoop, RunningInv, taskVars, Live
<1>8. CASE Drain
  <2>1. UNCHANGED task /\ worker' \notin {"await_job", "loop", "down"}
    BY <1>8 DEF Drain, taskVars
  <2>2. running' \subseteq running
    BY <1>8 DEF Drain
  <2>3. \A j \in JobIds : Live(j)' => j \in running'
    BY <1>8, <2>1 DEF Drain, RunningInv, Live, Completed
  <2>4. IsFiniteSet(running') /\ Cardinality(running') <= Cardinality(running)
    BY <2>2, FS_Subset DEF RunningInv
  <2>5. Cardinality(running') <= MaxConcurrent
    BY <1>0, <2>4, FS_CardinalityType DEF RunningInv
  <2> QED
    BY <2>1, <2>3, <2>4, <2>5 DEF RunningInv
<1>9. CASE Get \/ Shutdown
  BY <1>1, <1>9 DEF Get, GetLeaving, Shutdown, taskVars
<1>10. CASE Down
  <2>1. running' = {} /\ worker' = "down" /\ \A j \in JobIds : ~Live(j)'
    BY <1>10 DEF Down, Live, Steps
  <2> QED
    BY <1>0, <2>1, FS_EmptySet DEF RunningInv
<1>11. CASE Restart
  BY <1>0, <1>11, FS_EmptySet DEF Restart, RunningInv, taskVars, Live
<1>12. CASE UNCHANGED vars
  BY <1>1, <1>12 DEF vars, taskVars, queueVars
<1> QED
  BY <1>2, <1>3, <1>4, <1>5, <1>6, <1>7, <1>8, <1>9, <1>10, <1>11, <1>12
     DEF QueueStep, Next, ServeGracefully, Serve, JobStep, WorkerStep, Crash, Exit

LEMMA RunningInvInit == Init => RunningInv
<1> SUFFICES ASSUME Init PROVE RunningInv
  OBVIOUS
<1>1. running = {} /\ \A j \in JobIds : ~Live(j)
  BY DEF Init, TaskInit, Live, Steps
<1> QED
  BY <1>1, FS_EmptySet, QueueAssumption DEF RunningInv, Init

LEMMA LimitFromRunning == RunningInv => ConcurrencyLimit
<1> SUFFICES ASSUME RunningInv PROVE ConcurrencyLimit
  OBVIOUS
<1> DEFINE executed == {j \in JobIds : Live(j)}
<1>1. executed \subseteq running /\ IsFiniteSet(running)
  BY DEF RunningInv
<1>2. IsFiniteSet(executed) /\ Cardinality(executed) <= Cardinality(running)
  BY <1>1, FS_Subset
<1>3. /\ Cardinality(executed) \in Nat
      /\ Cardinality(running) \in Nat
      /\ MaxConcurrent \in Nat
  BY <1>1, <1>2, FS_CardinalityType, QueueAssumption
<1>4. Cardinality(executed) <= MaxConcurrent
  BY <1>2, <1>3 DEF RunningInv
<1> QED
  BY <1>4 DEF ConcurrencyLimit

(***************************************************************************)
(* At most MaxConcurrent jobs are executed at any time, in spite of crash, *)
(* restart, shutdown and failing calls.                                    *)
(***************************************************************************)
THEOREM LimitHolds == Spec => []ConcurrencyLimit
  BY LimitFromRunning, TypeCorrect, RunningInvInit, RunningInvStep, NextIsQueueStep, PTL DEF Spec

-----------------------------------------------------------------------------
(* The graceful wait.  A coroutine that is executed is in running_tasks,   *)
(* so the wait ends before it does only with the exception of another one. *)

LEMMA DrainWaitsStep == TypeOK /\ RunningInv /\ DrainWaits /\ [QueueStep]_vars => DrainWaits'
<1> SUFFICES ASSUME TypeOK, RunningInv, DrainWaits, [QueueStep]_vars PROVE DrainWaits'
  OBVIOUS
<1>0. task \in [JobIds -> Steps \cup Ends \cup {"none"}] /\ running \subseteq JobIds
  BY DEF TypeOK, TaskTypeOK
<1>1. CASE UNCHANGED <<task, worker>>
  BY <1>1 DEF DrainWaits, Live
<1>2. CASE Drain
  <2>1. task' = task
    BY <1>2 DEF Drain, taskVars
  <2>2. ASSUME worker' = "failed" PROVE \E j \in JobIds : task[j] = "raised"
    BY <1>0, <1>2, <2>2 DEF Drain, Completed
  <2>3. ASSUME worker' = "exited", NEW j \in JobIds PROVE ~Live(j)
    BY <1>2, <2>3 DEF Drain, RunningInv
  <2> QED
    BY <2>1, <2>2, <2>3 DEF DrainWaits, Live
<1>3. ASSUME NEW j \in JobIds, TaskStep(j), UNCHANGED <<create, queueVars>>
      PROVE  DrainWaits'
  <2>1. worker' = worker
    BY <1>3 DEF queueVars
  <2>2. task[j] \in Steps /\ \E step \in Steps \cup Ends : Goto(j, step)
    BY <1>3 DEF TaskStep, Find, MarkRunning, RunSandbox, CallSandbox, WriteLog, Finish,
                FinishAs, FailLog, MarkError, Steps, Ends
  <2>3. \A k \in JobIds : task[k] = "raised" => task'[k] = "raised"
    BY <1>0, <2>2 DEF Goto, Steps
  <2>4. \A k \in JobIds : Live(k)' => Live(k)
    BY <1>3, TaskStepLive
  <2> QED
    BY <2>1, <2>3, <2>4 DEF DrainWaits
<1>4. CASE Begin \/ AwaitSlot \/ Dispatch \/ StopWaiting \/ Down \/ Restart
  BY <1>4 DEF Begin, AwaitSlot, Dispatch, Round, RoundUpTo, StopWaiting, LeaveLoop,
              Down, Restart, DrainWaits
<1>5. CASE \/ \E k \in JobIds, s \in SessionIds \cup {NoSession} : CreateJob(k, s)
           \/ \E k \in JobIds : FindCreated(k) \/ Enqueue(k)
           \/ Get \/ Shutdown \/ UNCHANGED vars
  BY <1>1, <1>5 DEF CreateJob, FindCreated, Enqueue, Get, GetLeaving, Shutdown, vars,
                    taskVars, queueVars
<1> QED
  BY <1>2, <1>3, <1>4, <1>5
     DEF QueueStep, Next, ServeGracefully, Serve, JobStep, WorkerStep, Crash, Exit

(***************************************************************************)
(* shutdown() returns only when no job is executed any more, and gives up  *)
(* the wait only because of a coroutine that ended with an exception,      *)
(* whatever crashes or fails.                                              *)
(***************************************************************************)
THEOREM DrainWaitsHolds == Spec => []DrainWaits
<1>1. Init => DrainWaits
  BY DEF Init, DrainWaits
<1> QED
  BY <1>1, TypeCorrect, RunningInvInit, RunningInvStep, DrainWaitsStep, NextIsQueueStep, PTL
     DEF Spec

-----------------------------------------------------------------------------
(***************************************************************************)
(* Who owns a job: the request that creates it, the queue, the worker that *)
(* took it, or its coroutine.                                              *)
(***************************************************************************)

-----------------------------------------------------------------------------
(* The queue.                                                              *)

Distinct == \A i, k \in DOMAIN queue : queue[i] = queue[k] => i = k

\* The first job is taken from the queue, or none is.
TakesFirst == \/ getter' = NoJob /\ queue' = queue
              \/ queue # <<>> /\ getter' = Head(queue) /\ queue' = Tail(queue)

LEMMA TakeFirst ==
  ASSUME queue \in Seq(JobIds), Distinct, TakesFirst
  PROVE  /\ Distinct'
         /\ \A j \in JobIds : InQueue(j)' => InQueue(j) /\ getter' # j
         /\ \A j \in JobIds : getter' = j => InQueue(j)
<1>1. CASE getter' = NoJob /\ queue' = queue
  BY <1>1, QueueAssumption DEF Distinct, InQueue
<1>2. CASE queue # <<>> /\ getter' = Head(queue) /\ queue' = Tail(queue)
  <2>1. /\ Len(queue) \in Nat \ {0}
        /\ DOMAIN queue = 1..Len(queue)
        /\ queue[1] = getter'
        /\ DOMAIN queue' = 1..(Len(queue) - 1)
        /\ \A i \in DOMAIN queue' : queue'[i] = queue[i + 1]
    BY <1>2
  <2>2. \A i \in DOMAIN queue' : i + 1 \in DOMAIN queue /\ i + 1 # 1
    BY <2>1
  <2>3. Distinct'
    <3> SUFFICES ASSUME NEW i \in DOMAIN queue', NEW k \in DOMAIN queue',
                        queue'[i] = queue'[k]
                 PROVE  i = k
      BY DEF Distinct
    <3>1. i + 1 = k + 1
      BY <2>1, <2>2 DEF Distinct
    <3> QED
      BY <2>1, <3>1
  <2>4. ASSUME NEW j \in JobIds, InQueue(j)' PROVE InQueue(j) /\ getter' # j
    <3>1. PICK i \in DOMAIN queue' : queue'[i] = j
      BY <2>4 DEF InQueue
    <3>2. queue[i + 1] = j /\ i + 1 \in DOMAIN queue /\ i + 1 # 1 /\ 1 \in DOMAIN queue
      BY <2>1, <2>2, <3>1
    <3> QED
      BY <2>1, <3>2 DEF InQueue, Distinct
  <2>5. \A j \in JobIds : getter' = j => InQueue(j)
    BY <2>1 DEF InQueue
  <2> QED
    BY <2>3, <2>4, <2>5
<1> QED
  BY <1>1, <1>2 DEF TakesFirst

LEMMA PutLast ==
  ASSUME queue \in Seq(JobIds), Distinct, NEW j \in JobIds, ~InQueue(j),
         queue' = Append(queue, j)
  PROVE  /\ Distinct'
         /\ \A k \in JobIds : InQueue(k)' => InQueue(k) \/ k = j
<1>1. /\ Len(queue) \in Nat
      /\ DOMAIN queue = 1..Len(queue)
      /\ DOMAIN queue' = 1..(Len(queue) + 1)
      /\ \A i \in DOMAIN queue : queue'[i] = queue[i]
      /\ queue'[Len(queue) + 1] = j
  OBVIOUS
<1>2. \A i \in DOMAIN queue' : i \in DOMAIN queue \/ i = Len(queue) + 1
  BY <1>1
<1>3. \A i \in DOMAIN queue : queue[i] # j
  BY DEF InQueue
<1> QED
  BY <1>1, <1>2, <1>3 DEF Distinct, InQueue

LEMMA RoundTakesFirst ==
  ASSUME NEW tasks, Round(tasks)
  PROVE  TakesFirst
  BY DEF Round, RoundUpTo, TakesFirst

-----------------------------------------------------------------------------
(* The inductive invariant: what OneOwner and OwnerFindsStatus say, and    *)
(* that nobody owns a token that was not generated yet.  A job that is     *)
(* added has no owner but its request for that reason.                     *)

NewIsFree ==
    \A j \in JobIds : jobs[j].status = "NEW" =>
        create[j] = "none" /\ ~InQueue(j) /\ getter # j /\ task[j] = "none"

OwnerInv == OneOwner /\ OwnerFindsStatus /\ NewIsFree

\* The job and the coroutine of j are as OwnerFindsStatus says.
TaskFindsStatus(j) ==
    Present(j) => /\ task[j] \in {"find", "mark"} => jobs[j].status = "QUEUED"
                  /\ task[j] \in {"sandbox", "log", "post"} => jobs[j].status = "RUNNING"
                  /\ task[j] \in {"fail_log", "fail"}
                         => jobs[j].status \in {"RUNNING"} \cup Finished

\* A step of a coroutine changes its own job only, and the status as expected.
LEMMA TaskStepEffect ==
  ASSUME TypeOK, NEW j \in JobIds, TaskStep(j), TaskFindsStatus(j)
  PROVE  /\ task[j] \in Steps
         /\ \E step \in Steps \cup Ends : Goto(j, step)
         /\ \A k \in JobIds : k # j => jobs'[k] = jobs[k]
         /\ jobs'[j].status = "NEW" => jobs[j].status = "NEW"
         /\ TaskFindsStatus(j)'
<1>1. /\ task[j] \in Steps
      /\ \E step \in Steps \cup Ends : Goto(j, step)
  BY DEF TaskStep, Find, MarkRunning, RunSandbox, CallSandbox, WriteLog, Finish,
         FinishAs, FailLog, MarkError, Steps, Ends
<1>2. /\ task \in [JobIds -> Steps \cup Ends \cup {"none"}]
      /\ jobs \in [JobIds -> Job]
      /\ jobs[j] \in Job
  BY DEF TypeOK, TaskTypeOK, RepoTypeOK
<1>3. ASSUME NEW status \in JobStatus, NEW result \in BOOLEAN,
             UpdateJobInPart(j, status, result)
      PROVE  /\ \A k \in JobIds : k # j => jobs'[k] = jobs[k]
             /\ jobs'[j].status = status
  BY <1>2, <1>3 DEF UpdateJobInPart, Store, Job
<1>4. ASSUME AddToJobLog(j)
      PROVE  /\ \A k \in JobIds : k # j => jobs'[k] = jobs[k]
             /\ jobs'[j].status = jobs[j].status
  BY <1>2, <1>4 DEF AddToJobLog, repoVars
<1>5. ASSUME NEW step, Goto(j, step) PROVE task'[j] = step
  BY <1>2, <1>5 DEF Goto
<1>6. /\ jobs[j].result \in BOOLEAN
      /\ answer[j].result \in BOOLEAN
  BY <1>2 DEF Job, TypeOK, TaskTypeOK, Answers
<1> DEFINE Effect == /\ \A k \in JobIds : k # j => jobs'[k] = jobs[k]
                     /\ jobs'[j].status = "NEW" => jobs[j].status = "NEW"
                     /\ TaskFindsStatus(j)'
<1>7. Effect
  <2>1. CASE Find(j)
    <3>1. jobs' = jobs /\ ((task'[j] = "mark" /\ jobs[j].status = "QUEUED") \/ task'[j] = "raised")
      BY <1>5, <2>1 DEF Find, repoVars
    <3> QED
      BY <3>1 DEF TaskFindsStatus, Present
  <2>2. CASE MarkRunning(j)
    <3>1. "RUNNING" \in JobStatus
      BY DEF JobStatus, Unfinished
    <3>2. CASE UpdateJobInPart(j, "RUNNING", jobs[j].result)
      <4>1. task'[j] \in {"sandbox", "raised"}
        BY <1>5, <2>2 DEF MarkRunning
      <4> QED
        BY <1>3, <1>6, <3>1, <3>2, <4>1 DEF TaskFindsStatus
    <3>3. CASE jobs' = jobs /\ task'[j] = "raised"
      BY <3>3 DEF TaskFindsStatus
    <3> QED
      BY <1>5, <2>2, <3>2, <3>3, WholeIsInPart DEF MarkRunning, CallRaises, repoVars
  <2>3. CASE RunSandbox(j)
    <3>1. task[j] = "sandbox" /\ jobs' = jobs /\ task'[j] \in {"log", "post", "fail_log"}
      BY <1>5, <2>3 DEF RunSandbox, CallSandbox, repoVars
    <3> QED
      BY <3>1 DEF TaskFindsStatus, Present
  <2>4. CASE WriteLog(j) \/ FailLog(j)
    <3>1. /\ \A k \in JobIds : k # j => jobs'[k] = jobs[k]
          /\ jobs'[j].status = jobs[j].status
      BY <1>4, <2>4 DEF WriteLog, FailLog, CallRaises, repoVars
    <3>2. \/ task[j] = "log" /\ task'[j] \in {"post", "raised"}
          \/ task[j] = "fail_log" /\ task'[j] \in {"fail", "raised"}
      BY <1>5, <2>4 DEF WriteLog, FailLog
    <3> QED
      BY <3>1, <3>2 DEF TaskFindsStatus, Present
  <2>5. CASE Finish(j)
    <3>1. task[j] = "post" /\ task'[j] \in {"done", "fail_log"}
      BY <1>5, <2>5 DEF Finish, FinishAs
    <3>2. CASE UpdateJobInPart(j, IF answer[j].success THEN "SUCCESS" ELSE "ERROR",
                         answer[j].result)
      <4>1. (IF answer[j].success THEN "SUCCESS" ELSE "ERROR") \in Finished
        BY DEF Finished
      <4>2. jobs'[j].status \in Finished /\ \A k \in JobIds : k # j => jobs'[k] = jobs[k]
        BY <1>3, <1>6, <3>2, <4>1 DEF JobStatus
      <4> QED
        BY <3>1, <4>2 DEF TaskFindsStatus, Finished
    <3>3. CASE jobs' = jobs
      BY <3>1, <3>3 DEF TaskFindsStatus, Present
    <3> QED
      BY <2>5, <3>2, <3>3, WholeIsInPart DEF Finish, FinishAs, CallRaises, repoVars
  <2>6. CASE MarkError(j)
    <3>1. task'[j] \in {"done", "raised"}
      BY <1>5, <2>6 DEF MarkError
    <3>2. CASE UpdateJobInPart(j, "ERROR", jobs[j].result)
      <4>1. "ERROR" \in JobStatus
        BY DEF JobStatus, Finished
      <4> QED
        BY <1>3, <1>6, <3>1, <3>2, <4>1 DEF TaskFindsStatus
    <3>3. CASE jobs' = jobs
      BY <3>1, <3>3 DEF TaskFindsStatus
    <3> QED
      BY <2>6, <3>2, <3>3, WholeIsInPart DEF MarkError, CallRaises, repoVars
  <2> QED
    BY <2>1, <2>2, <2>3, <2>4, <2>5, <2>6 DEF TaskStep
<1> QED
  BY <1>1, <1>7

\* The steps of the worker that take the first job, or none, from the queue and
\* leave jobs, coroutines and requests alone.
LEMMA TakingKeepsOwners ==
  ASSUME TypeOK, OwnerInv, TakesFirst, UNCHANGED <<jobs, task, create>>
  PROVE  OwnerInv'
<1>1. queue \in Seq(JobIds) /\ Distinct
  BY DEF TypeOK, OwnerInv, OneOwner, Distinct
<1>2. /\ Distinct'
      /\ \A j \in JobIds : InQueue(j)' => InQueue(j) /\ getter' # j
      /\ \A j \in JobIds : getter' = j => InQueue(j)
  BY <1>1, TakeFirst
<1>3. OneOwner'
  BY <1>2 DEF OwnerInv, OneOwner, Distinct
<1>4. OwnerFindsStatus'
  BY <1>2 DEF OwnerInv, OwnerFindsStatus, Present
<1>5. NewIsFree'
  BY <1>2 DEF OwnerInv, NewIsFree
<1> QED
  BY <1>3, <1>4, <1>5 DEF OwnerInv

LEMMA OwnerInvStep == TypeOK /\ OwnerInv /\ [QueueStep]_vars => OwnerInv'
<1> SUFFICES ASSUME TypeOK, OwnerInv, [QueueStep]_vars PROVE OwnerInv'
  OBVIOUS
<1>0. /\ queue \in Seq(JobIds) /\ Distinct
      /\ jobs \in [JobIds -> Job]
      /\ task \in [JobIds -> Steps \cup Ends \cup {"none"}]
      /\ create \in [JobIds -> CreateSteps \cup {"none", "returned", "failed"}]
  BY DEF TypeOK, RepoTypeOK, TaskTypeOK, OwnerInv, OneOwner, Distinct
<1>1. CASE UNCHANGED <<jobs, task, create, queue, getter>>
  BY <1>1 DEF OwnerInv, OneOwner, OwnerFindsStatus, NewIsFree, InQueue, Present
<1>2. ASSUME NEW j \in JobIds, NEW s \in SessionIds \cup {NoSession}, CreateJob(j, s)
      PROVE  OwnerInv'
  <2>1. /\ jobs[j].status = "NEW"
        /\ jobs'[j].status = "CREATED"
        /\ create'[j] \in {"find", "failed"}
        /\ \A k \in JobIds : k # j => jobs'[k] = jobs[k] /\ create'[k] = create[k]
        /\ UNCHANGED <<task, queue, getter>>
    BY <1>0, <1>2, WholeIsInPart DEF CreateJob, AddJobInPart, Insert, Blank, taskVars, queueVars
  <2>2. ~InQueue(j) /\ getter # j /\ task[j] = "none"
    BY <2>1 DEF OwnerInv, NewIsFree
  <2>3. \A k \in JobIds : InQueue(k)' <=> InQueue(k)
    BY <2>1 DEF InQueue
  <2>4. OneOwner'
    BY <2>1, <2>2, <2>3 DEF OwnerInv, OneOwner, CreateSteps
  <2>5. OwnerFindsStatus'
    BY <2>1, <2>2, <2>3 DEF OwnerInv, OwnerFindsStatus, Present
  <2>6. NewIsFree'
    BY <2>1, <2>3 DEF OwnerInv, NewIsFree
  <2> QED
    BY <2>4, <2>5, <2>6 DEF OwnerInv
<1>3. ASSUME NEW j \in JobIds, FindCreated(j) PROVE OwnerInv'
  <2>1. /\ create[j] \in CreateSteps
        /\ \A k \in JobIds : create'[k] \in CreateSteps => create[k] \in CreateSteps
        /\ \A k \in JobIds : create[k] = "none" => create'[k] = "none"
        /\ UNCHANGED <<jobs, task, queue, getter>>
    BY <1>0, <1>3 DEF FindCreated, CreateSteps, repoVars, taskVars, queueVars
  <2>2. \A k \in JobIds : InQueue(k)' <=> InQueue(k)
    BY <2>1 DEF InQueue
  <2>3. OneOwner'
    BY <2>1, <2>2 DEF OwnerInv, OneOwner
  <2>4. OwnerFindsStatus'
    BY <2>1, <2>2 DEF OwnerInv, OwnerFindsStatus, Present
  <2>5. NewIsFree'
    BY <2>1, <2>2 DEF OwnerInv, NewIsFree
  <2> QED
    BY <2>3, <2>4, <2>5 DEF OwnerInv
<1>4. ASSUME NEW j \in JobIds, Enqueue(j) PROVE OwnerInv'
  <2>1. /\ create[j] \in CreateSteps
        /\ create'[j] \in {"returned", "failed"}
        /\ \A k \in JobIds : k # j => create'[k] = create[k]
        /\ UNCHANGED <<task, getter>>
    BY <1>0, <1>4 DEF Enqueue, CreateSteps, taskVars
  <2>2. ~InQueue(j) /\ getter # j /\ task[j] = "none"
    BY <2>1 DEF OwnerInv, OneOwner
  <2>3. jobs[j].status # "NEW"
    BY <2>1 DEF OwnerInv, NewIsFree, CreateSteps
  <2>4. /\ \A k \in JobIds : k # j => jobs'[k] = jobs[k]
        /\ jobs'[j] = jobs[j] \/ jobs'[j].status = "QUEUED"
    <3>1. CASE UpdateJobInPart(j, "QUEUED", jobs[j].result)
      BY <1>0, <3>1 DEF UpdateJobInPart, Store, Job
    <3>2. CASE jobs' = jobs
      BY <3>2
    <3> QED
      BY <1>4, <3>1, <3>2, UpdateCalls DEF repoVars
  <2>5. \/ /\ queue' = Append(queue, j)
           /\ jobs'[j].status = "QUEUED"
        \/ queue' = queue
    BY <1>0, <1>4 DEF Enqueue, UpdateJob, Store, Job
  <2>6. Distinct' /\ \A k \in JobIds : InQueue(k)' => InQueue(k) \/ k = j
    BY <1>0, <2>2, <2>5, PutLast DEF Distinct, InQueue
  <2>7. InQueue(j)' => jobs'[j].status = "QUEUED"
    BY <2>2, <2>5 DEF InQueue
  <2>8. OneOwner'
    BY <2>1, <2>2, <2>6 DEF OwnerInv, OneOwner, Distinct, CreateSteps
  <2>9. OwnerFindsStatus'
    BY <2>1, <2>2, <2>4, <2>6, <2>7 DEF OwnerInv, OwnerFindsStatus, Present, CreateSteps
  <2>10. NewIsFree'
    BY <2>1, <2>3, <2>4, <2>6 DEF OwnerInv, NewIsFree
  <2> QED
    BY <2>8, <2>9, <2>10 DEF OwnerInv
<1>5. ASSUME NEW j \in JobIds, TaskStep(j), UNCHANGED <<create, queueVars>>
      PROVE  OwnerInv'
  <2>1. TaskFindsStatus(j)
    BY DEF OwnerInv, OwnerFindsStatus, TaskFindsStatus
  <2>2. /\ task[j] \in Steps
        /\ \E step \in Steps \cup Ends : Goto(j, step)
        /\ \A k \in JobIds : k # j => jobs'[k] = jobs[k]
        /\ jobs'[j].status = "NEW" => jobs[j].status = "NEW"
        /\ TaskFindsStatus(j)'
    BY <1>5, <2>1, TaskStepEffect
  <2>3. task[j] # "none" /\ \A k \in JobIds : k # j => task'[k] = task[k]
    BY <1>0, <2>2 DEF Goto, Steps
  <2>4. ~InQueue(j) /\ getter # j /\ create[j] \notin CreateSteps /\ jobs[j].status # "NEW"
    BY <2>3 DEF OwnerInv, OneOwner, NewIsFree
  <2>5. /\ UNCHANGED <<create, queue, getter>>
        /\ \A k \in JobIds : InQueue(k)' <=> InQueue(k)
    BY <1>5 DEF queueVars, InQueue
  <2>6. OneOwner'
    BY <2>3, <2>4, <2>5 DEF OwnerInv, OneOwner
  <2>7. OwnerFindsStatus'
    <3> SUFFICES ASSUME NEW k \in JobIds, Present(k)'
                 PROVE  /\ create'[k] \in CreateSteps => jobs'[k].status = "CREATED"
                        /\ InQueue(k)' \/ getter' = k \/ task'[k] \in {"find", "mark"}
                               => jobs'[k].status = "QUEUED"
                        /\ task'[k] \in {"sandbox", "log", "post"}
                               => jobs'[k].status = "RUNNING"
                        /\ task'[k] \in {"fail_log", "fail"}
                               => jobs'[k].status \in {"RUNNING"} \cup Finished
      BY DEF OwnerFindsStatus
    <3>1. CASE k = j
      BY <2>2, <2>4, <2>5, <3>1 DEF TaskFindsStatus
    <3>2. CASE k # j
      BY <2>2, <2>3, <2>5, <3>2 DEF OwnerInv, OwnerFindsStatus, Present
    <3> QED
      BY <3>1, <3>2
  <2>8. NewIsFree'
    BY <2>2, <2>3, <2>4, <2>5 DEF OwnerInv, NewIsFree
  <2> QED
    BY <2>6, <2>7, <2>8 DEF OwnerInv
<1>6. CASE Begin \/ AwaitSlot
  BY <1>6, RoundTakesFirst, TakingKeepsOwners DEF Begin, AwaitSlot, repoVars, taskVars
<1>7. CASE Get
  BY <1>7, TakingKeepsOwners DEF Get, GetLeaving, TakesFirst, repoVars, taskVars
<1>8. CASE Dispatch
  <2>1. /\ getter \in JobIds
        /\ task' = [task EXCEPT ![getter] = "find"]
        /\ UNCHANGED <<jobs, create>>
        /\ TakesFirst
    BY <1>8, RoundTakesFirst DEF Dispatch, TakesFirst, TypeOK, repoVars
  <2>2. /\ Distinct'
        /\ \A j \in JobIds : InQueue(j)' => InQueue(j) /\ getter' # j
        /\ \A j \in JobIds : getter' = j => InQueue(j)
    BY <1>0, <2>1, TakeFirst
  <2>3. /\ ~InQueue(getter)
        /\ create[getter] \notin CreateSteps
        /\ jobs[getter].status # "NEW"
        /\ Present(getter) => jobs[getter].status = "QUEUED"
    BY <2>1 DEF OwnerInv, OneOwner, OwnerFindsStatus, NewIsFree
  <2>4. /\ task'[getter] = "find"
        /\ \A j \in JobIds : j # getter => task'[j] = task[j]
    BY <1>0, <2>1
  <2>5. OneOwner'
    BY <2>1, <2>2, <2>3, <2>4 DEF OwnerInv, OneOwner, Distinct
  <2>6. OwnerFindsStatus'
    <3> SUFFICES ASSUME NEW k \in JobIds, Present(k)'
                 PROVE  /\ create'[k] \in CreateSteps => jobs'[k].status = "CREATED"
                        /\ InQueue(k)' \/ getter' = k \/ task'[k] \in {"find", "mark"}
                               => jobs'[k].status = "QUEUED"
                        /\ task'[k] \in {"sandbox", "log", "post"}
                               => jobs'[k].status = "RUNNING"
                        /\ task'[k] \in {"fail_log", "fail"}
                               => jobs'[k].status \in {"RUNNING"} \cup Finished
      BY DEF OwnerFindsStatus
    <3>1. Present(k)
      BY <2>1 DEF Present
    <3>2. CASE k = getter
      BY <2>1, <2>3, <2>4, <3>1, <3>2
    <3>3. CASE k # getter
      BY <2>1, <2>2, <2>4, <3>1, <3>3 DEF OwnerInv, OwnerFindsStatus
    <3> QED
      BY <3>2, <3>3
  <2>7. NewIsFree'
    BY <2>1, <2>2, <2>3, <2>4 DEF OwnerInv, NewIsFree
  <2> QED
    BY <2>5, <2>6, <2>7 DEF OwnerInv
<1>9. CASE StopWaiting \/ Drain \/ Shutdown \/ Restart \/ UNCHANGED vars
  BY <1>1, <1>9 DEF StopWaiting, LeaveLoop, Drain, Shutdown, Restart, vars, repoVars,
                    taskVars, queueVars
<1>10. CASE Down
  <2>1. /\ jobs' = jobs
        /\ \A j \in JobIds : /\ task'[j] = "none"
                             /\ create'[j] \notin CreateSteps
                             /\ create[j] = "none" => create'[j] = "none"
                             /\ getter' # j
        /\ queue' = <<>>
    BY <1>10, QueueAssumption DEF Down, repoVars, CreateSteps
  <2>2. Distinct' /\ \A j \in JobIds : ~InQueue(j)'
    BY <2>1 DEF Distinct, InQueue
  <2> QED
    BY <2>1, <2>2 DEF OwnerInv, OneOwner, OwnerFindsStatus, NewIsFree, Distinct
<1> QED
  BY <1>2, <1>3, <1>4, <1>5, <1>6, <1>7, <1>8, <1>9, <1>10
     DEF QueueStep, Next, ServeGracefully, Serve, JobStep, WorkerStep, Crash, Exit

LEMMA OwnerInvInit == Init => OwnerInv
<1> SUFFICES ASSUME Init PROVE OwnerInv
  OBVIOUS
<1>1. queue = <<>> /\ \A j \in JobIds : /\ task[j] = "none"
                                        /\ create[j] = "none"
                                        /\ getter # j
  BY QueueAssumption DEF Init, TaskInit
<1>2. Distinct /\ \A j \in JobIds : ~InQueue(j)
  BY <1>1 DEF Distinct, InQueue
<1> QED
  BY <1>1, <1>2 DEF OwnerInv, OneOwner, OwnerFindsStatus, NewIsFree, Distinct, CreateSteps

LEMMA OwnerInvHolds == Spec => []OwnerInv
  BY OwnerInvInit, TypeCorrect, OwnerInvStep, NextIsQueueStep, PTL DEF Spec

(***************************************************************************)
(* No job is ever at two places, whatever crashes or fails: none can be    *)
(* executed twice, or enqueued while it is executed.                       *)
(***************************************************************************)
THEOREM OneOwnerHolds == Spec => []OneOwner
<1>1. OwnerInv => OneOwner
  BY DEF OwnerInv
<1> QED
  BY <1>1, OwnerInvHolds, PTL

(***************************************************************************)
(* Whoever owns a job finds it in the status that its next step expects.   *)
(***************************************************************************)
THEOREM OwnerFindsStatusHolds == Spec => []OwnerFindsStatus
<1>1. OwnerInv => OwnerFindsStatus
  BY DEF OwnerInv
<1> QED
  BY <1>1, OwnerInvHolds, PTL

-----------------------------------------------------------------------------
(* A coroutine stores SUCCESS only together with a result, because a       *)
(* sandbox reports no success without one.                                 *)

ResultInv == /\ SuccessHasResult
             /\ \A j \in JobIds : answer[j].success => answer[j].result

LEMMA ResultInvStep == TypeOK /\ ResultInv /\ [QueueStep]_vars => ResultInv'
<1> SUFFICES ASSUME TypeOK, ResultInv, [QueueStep]_vars PROVE ResultInv'
  OBVIOUS
<1>0. /\ jobs \in [JobIds -> Job]
      /\ answer \in [JobIds -> Answers]
  BY DEF TypeOK, RepoTypeOK, TaskTypeOK
<1>1. CASE UNCHANGED <<jobs, answer>>
  BY <1>1 DEF ResultInv, SuccessHasResult
<1>2. ASSUME NEW j \in JobIds, NEW status, NEW result, UpdateJobInPart(j, status, result),
             status = "SUCCESS" => result
      PROVE  SuccessHasResult'
  BY <1>0, <1>2 DEF UpdateJobInPart, Store, ResultInv, SuccessHasResult, Job
<1>3. ASSUME NEW j \in JobIds, AddToJobLog(j) PROVE SuccessHasResult'
  BY <1>0, <1>3 DEF AddToJobLog, repoVars, ResultInv, SuccessHasResult, Job
<1>4. ASSUME NEW j \in JobIds, NEW s \in SessionIds \cup {NoSession}, CreateJob(j, s)
      PROVE  ResultInv'
  <2>1. Insert(j, s) /\ UNCHANGED answer
    BY <1>4 DEF CreateJob, AddJob, AddJobInPart, taskVars
  <2> QED
    BY <1>0, <2>1 DEF Insert, Blank, ResultInv, SuccessHasResult
<1>5. ASSUME NEW j \in JobIds, Enqueue(j) PROVE ResultInv'
  <2>1. SuccessHasResult'
    BY <1>2, <1>5, UpdateCalls DEF repoVars, ResultInv, SuccessHasResult
  <2> QED
    BY <1>5, <2>1 DEF Enqueue, taskVars, ResultInv
<1>6. ASSUME NEW j \in JobIds, TaskStep(j) PROVE ResultInv'
  <2>1. \A k \in JobIds : answer'[k].success => answer'[k].result
    BY <1>0, <1>6 DEF TaskStep, Find, MarkRunning, RunSandbox, CallSandbox, WriteLog,
                      Finish, FinishAs, FailLog, MarkError, ResultInv, SandboxResults,
                      Answers, NoAnswer
  <2>2. SuccessHasResult'
    <3>1. CASE Find(j) \/ RunSandbox(j)
      BY <3>1 DEF Find, RunSandbox, CallSandbox, repoVars, ResultInv, SuccessHasResult
    <3>2. CASE MarkRunning(j)
      BY <1>2, <3>2, UpdateCalls DEF repoVars, ResultInv, SuccessHasResult
    <3>3. CASE WriteLog(j) \/ FailLog(j)
      BY <1>3, <3>3 DEF WriteLog, FailLog, CallRaises, repoVars, ResultInv,
                        SuccessHasResult
    <3>4. CASE Finish(j)
      BY <1>2, <3>4, UpdateCalls DEF repoVars, ResultInv, SuccessHasResult
    <3>5. CASE MarkError(j)
      BY <1>2, <3>5, UpdateCalls DEF repoVars, ResultInv, SuccessHasResult
    <3> QED
      BY <1>6, <3>1, <3>2, <3>3, <3>4, <3>5 DEF TaskStep
  <2> QED
    BY <2>1, <2>2 DEF ResultInv
<1>7. CASE Down
  BY <1>7 DEF Down, repoVars, ResultInv, SuccessHasResult, NoAnswer
<1>8. ASSUME NEW j \in JobIds, FindCreated(j) PROVE ResultInv'
  BY <1>1, <1>8 DEF FindCreated, repoVars, taskVars
<1>9. CASE \/ Begin \/ AwaitSlot \/ Dispatch \/ StopWaiting \/ Drain \/ Get
            \/ Shutdown \/ Restart \/ UNCHANGED vars
  BY <1>1, <1>9 DEF Begin, AwaitSlot, Dispatch, StopWaiting, LeaveLoop, Drain, Get,
                    GetLeaving, Shutdown, Restart, vars, repoVars, taskVars
<1> QED
  BY <1>4, <1>5, <1>6, <1>7, <1>8, <1>9
     DEF QueueStep, Next, ServeGracefully, Serve, JobStep, WorkerStep, Crash, Exit

LEMMA ResultInvInit == Init => ResultInv
  BY DEF Init, RepoInit, TaskInit, Blank, NoAnswer, ResultInv, SuccessHasResult

(***************************************************************************)
(* A job in state SUCCESS has its result, also if calls fail.              *)
(***************************************************************************)
THEOREM SuccessHasResultHolds == Spec => []SuccessHasResult
<1>1. ResultInv => SuccessHasResult
  BY DEF ResultInv
<1> QED
  BY <1>1, TypeCorrect, ResultInvInit, ResultInvStep, NextIsQueueStep, PTL DEF Spec

=============================================================================
