------------------------- MODULE JobLifecycle_proofs -------------------------
(***************************************************************************)
(* Proofs about the lifecycle of jobs in module AsyncJobQueue, for every   *)
(* set of jobs and every limit, and a repository that does not fail: jobs  *)
(* go through their states in order, and a service that is not stopped     *)
(* loses none.                                                             *)
(***************************************************************************)
EXTENDS AsyncJobQueue_proofs

-----------------------------------------------------------------------------
(* With a repository that does not fail, an except block finds its job     *)
(* RUNNING; so every update takes a job one state further.                 *)

ExceptInv ==
    \A j \in JobIds : Present(j) /\ task[j] \in {"fail_log", "fail"}
                          => jobs[j].status = "RUNNING"

SameOutcome(j) == /\ jobs'[j].status = jobs[j].status
                  /\ jobs'[j].result = jobs[j].result

Moves(j, from, to) == /\ jobs[j].status = from
                      /\ jobs'[j].status = to
                      /\ \A k \in JobIds : k # j => SameOutcome(k)

Progress == \/ \A k \in JobIds : SameOutcome(k)
            \/ \E j \in JobIds : \/ Moves(j, "NEW", "CREATED")
                                 \/ Moves(j, "CREATED", "QUEUED")
                                 \/ Moves(j, "QUEUED", "RUNNING")
                                 \/ Moves(j, "RUNNING", "SUCCESS")
                                 \/ Moves(j, "RUNNING", "ERROR")

LEMMA TaskStepProgress ==
  ASSUME ~Faults, TypeOK, OwnerInv, ExceptInv, NEW j \in JobIds, TaskStep(j)
  PROVE  Progress /\ ExceptInv'
<1>0. /\ jobs \in [JobIds -> Job]
      /\ task \in [JobIds -> Steps \cup Ends \cup {"none"}]
      /\ TaskFindsStatus(j)
  BY DEF TypeOK, RepoTypeOK, TaskTypeOK, OwnerInv, OwnerFindsStatus, TaskFindsStatus
<1>1. ASSUME NEW status, NEW result, UpdateJobInPart(j, status, result)
      PROVE  Present(j) /\ Moves(j, jobs[j].status, status)
  BY <1>0, <1>1 DEF UpdateJobInPart, Store, Job, Moves, SameOutcome
<1>2. ASSUME AddToJobLog(j) PROVE \A k \in JobIds : SameOutcome(k)
  BY <1>0, <1>2 DEF AddToJobLog, repoVars, SameOutcome
<1>3. ASSUME UNCHANGED repoVars PROVE \A k \in JobIds : SameOutcome(k)
  BY <1>3 DEF repoVars, SameOutcome
<1>4. ASSUME NEW step, Goto(j, step)
      PROVE  task'[j] = step /\ \A k \in JobIds : k # j => task'[k] = task[k]
  BY <1>0, <1>4 DEF Goto
<1>5. Progress
  <2>1. CASE Find(j) \/ RunSandbox(j)
    BY <1>3, <2>1 DEF Find, RunSandbox, CallSandbox, Progress
  <2>2. CASE MarkRunning(j)
    <3>1. task[j] = "mark"
      BY <2>2 DEF MarkRunning
    <3>2. CASE UpdateJobInPart(j, "RUNNING", jobs[j].result)
      BY <1>0, <1>1, <3>1, <3>2 DEF TaskFindsStatus, Progress
    <3> QED
      BY <1>3, <2>2, <3>2, WholeIsInPart DEF MarkRunning, CallRaises, Progress
  <2>3. CASE WriteLog(j) \/ FailLog(j)
    BY <1>2, <1>3, <2>3 DEF WriteLog, FailLog, CallRaises, Progress
  <2>4. CASE Finish(j)
    <3>1. task[j] = "post"
      BY <2>4 DEF Finish, FinishAs
    <3>2. CASE UpdateJobInPart(j, IF answer[j].success THEN "SUCCESS" ELSE "ERROR",
                         answer[j].result)
      <4>1. /\ jobs[j].status = "RUNNING"
            /\ Moves(j, jobs[j].status, IF answer[j].success THEN "SUCCESS" ELSE "ERROR")
        BY <1>0, <1>1, <3>1, <3>2 DEF TaskFindsStatus
      <4> QED
        BY <4>1 DEF Progress
    <3> QED
      BY <1>3, <2>4, <3>2, WholeIsInPart DEF Finish, FinishAs, CallRaises, Progress
  <2>5. CASE MarkError(j)
    <3>1. task[j] = "fail"
      BY <2>5 DEF MarkError
    <3>2. CASE UpdateJobInPart(j, "ERROR", jobs[j].result)
      BY <1>1, <3>1, <3>2 DEF ExceptInv, Progress
    <3> QED
      BY <1>3, <2>5, <3>2, WholeIsInPart DEF MarkError, CallRaises, Progress
  <2> QED
    BY <2>1, <2>2, <2>3, <2>4, <2>5 DEF TaskStep
<1>6. ExceptInv'
  <2> SUFFICES ASSUME NEW k \in JobIds, Present(k)', task'[k] \in {"fail_log", "fail"}
               PROVE  jobs'[k].status = "RUNNING"
    BY DEF ExceptInv
  <2>1. CASE k # j
    <3>1. jobs'[k] = jobs[k]
      BY <1>0, <2>1, TaskStepEffect
    <3>2. task'[k] = task[k]
      BY <1>0, <1>4, <2>1, TaskStepEffect
    <3> QED
      BY <3>1, <3>2 DEF ExceptInv, Present
  <2>2. CASE k = j
    <3>1. task'[j] \in {"fail_log", "fail"}
      BY <2>2
    <3>2. CASE RunSandbox(j)
      <4>1. task[j] = "sandbox" /\ jobs' = jobs
        BY <3>2 DEF RunSandbox, CallSandbox, repoVars
      <4> QED
        BY <1>0, <2>2, <4>1 DEF TaskFindsStatus, Present
    <3>3. CASE Finish(j)
      <4>1. task[j] = "post" /\ task'[j] # "done"
        BY <3>1, <3>3 DEF Finish, FinishAs
      <4>2. jobs' = jobs
        BY <1>4, <3>3, <4>1 DEF Finish, FinishAs, CallRaises, repoVars
      <4> QED
        BY <1>0, <2>2, <4>1, <4>2 DEF TaskFindsStatus, Present
    <3>4. CASE FailLog(j)
      <4>1. task[j] = "fail_log" /\ SameOutcome(j)
        BY <1>2, <1>3, <3>4 DEF FailLog, CallRaises
      <4> QED
        BY <2>2, <4>1 DEF ExceptInv, Present, SameOutcome
    <3>5. CASE Find(j) \/ MarkRunning(j) \/ WriteLog(j) \/ MarkError(j)
      <4>1. task'[j] \in {"mark", "raised", "sandbox", "post", "done"}
        BY <1>4, <3>5 DEF Find, MarkRunning, WriteLog, MarkError
      <4> QED
        BY <3>1, <4>1
    <3> QED
      BY <3>2, <3>3, <3>4, <3>5 DEF TaskStep
  <2> QED
    BY <2>1, <2>2
<1> QED
  BY <1>5, <1>6

LEMMA ProgressStep ==
  ASSUME ~Faults
  PROVE  TypeOK /\ OwnerInv /\ ExceptInv /\ [QueueStep]_vars => Progress /\ ExceptInv'
<1> SUFFICES ASSUME TypeOK, OwnerInv, ExceptInv, [QueueStep]_vars
             PROVE  Progress /\ ExceptInv'
  OBVIOUS
<1>0. /\ jobs \in [JobIds -> Job]
      /\ task \in [JobIds -> Steps \cup Ends \cup {"none"}]
  BY DEF TypeOK, RepoTypeOK, TaskTypeOK
<1>1. CASE UNCHANGED <<jobs, task>>
  BY <1>1 DEF Progress, SameOutcome, ExceptInv, Present
<1>2. ASSUME NEW j \in JobIds, NEW s \in SessionIds \cup {NoSession}, CreateJob(j, s)
      PROVE  Progress /\ ExceptInv'
  <2>1. /\ task' = task
        /\ Moves(j, "NEW", "CREATED")
        /\ \A k \in JobIds : k # j => jobs'[k] = jobs[k]
    BY <1>0, <1>2 DEF CreateJob, AddJob, Insert, Blank, Moves, SameOutcome, taskVars
  <2>2. task[j] = "none"
    BY <2>1 DEF OwnerInv, NewIsFree, Moves
  <2> QED
    BY <2>1, <2>2 DEF Progress, ExceptInv, Present
<1>3. ASSUME NEW j \in JobIds, FindCreated(j) PROVE Progress /\ ExceptInv'
  BY <1>1, <1>3 DEF FindCreated, repoVars, taskVars
<1>4. ASSUME NEW j \in JobIds, Enqueue(j) PROVE Progress /\ ExceptInv'
  <2>1. task' = task /\ create[j] \in CreateSteps
    BY <1>4 DEF Enqueue, taskVars, CreateSteps
  <2>2. /\ task[j] = "none"
        /\ Present(j) => jobs[j].status = "CREATED"
    BY <2>1 DEF OwnerInv, OneOwner, OwnerFindsStatus
  <2>3. CASE UpdateJobInPart(j, "QUEUED", jobs[j].result)
    <3>1. /\ Moves(j, "CREATED", "QUEUED")
          /\ \A k \in JobIds : k # j => jobs'[k] = jobs[k]
      BY <1>0, <2>2, <2>3 DEF UpdateJobInPart, Store, Job, Moves, SameOutcome
    <3> QED
      BY <2>1, <2>2, <3>1 DEF Progress, ExceptInv, Present
  <2> QED
    BY <1>1, <1>4, <2>1, <2>3, WholeIsInPart DEF Enqueue, CallRaises, repoVars
<1>5. ASSUME NEW j \in JobIds, TaskStep(j) PROVE Progress /\ ExceptInv'
  BY <1>5, TaskStepProgress
<1>6. CASE Dispatch
  <2>1. /\ jobs' = jobs
        /\ \A j \in JobIds : task'[j] = task[j] \/ task'[j] = "find"
    BY <1>0, <1>6 DEF Dispatch, repoVars
  <2> QED
    BY <2>1 DEF Progress, SameOutcome, ExceptInv, Present
<1>7. CASE Down
  BY <1>7 DEF Down, repoVars, Progress, SameOutcome, ExceptInv
<1>8. CASE \/ Begin \/ AwaitSlot \/ StopWaiting \/ Drain \/ Get
           \/ Shutdown \/ Restart \/ UNCHANGED vars
  BY <1>1, <1>8 DEF Begin, AwaitSlot, StopWaiting, LeaveLoop, Drain, Get, GetLeaving,
                    Shutdown, Restart, vars, repoVars, taskVars
<1> QED
  BY <1>2, <1>3, <1>4, <1>5, <1>6, <1>7, <1>8
     DEF QueueStep, Next, ServeGracefully, Serve, JobStep, WorkerStep, Crash, Exit

LEMMA ExceptInvInit == Init => ExceptInv
  BY DEF Init, TaskInit, ExceptInv

(***************************************************************************)
(* With a repository that does not fail, the outcome of a finished job     *)
(* stays as it is.                                                         *)
(***************************************************************************)
THEOREM FinishedStaysFinal ==
  ASSUME ~Faults
  PROVE  Spec => FinishedIsFinal
<1>1. Progress => [\A j \in JobIds : jobs[j].status \in Finished =>
                      \/ jobs'[j].status = "DELETED"
                      \/ /\ jobs'[j].status = jobs[j].status
                         /\ jobs'[j].result = jobs[j].result]_vars
  BY DEF Progress, Moves, SameOutcome, Finished
<1> QED
  BY <1>1, TypeCorrect, OwnerInvHolds, ProgressStep, NextIsQueueStep, ExceptInvInit,
     PTL
     DEF Spec, FinishedIsFinal

-----------------------------------------------------------------------------
(* The queue as an implementation of the abstract lifecycle.               *)

LEMMA InitIsNew == Init => Lifecycle!Init
  BY DEF Init, RepoInit, Blank, Lifecycle!Init

\* An update of a session changes its age only.
LEMMA TouchedState ==
  ASSUME sessions \in [SessionIds -> Session], NEW t, sessions' = Touched(t),
         NEW s \in SessionIds
  PROVE  sessions'[s].state = sessions[s].state
  BY DEF Touched, Session

\* What a step of the queue does to the repository.
LEMMA QueueRepositoryStep ==
  ASSUME TypeOK, [QueueStep]_vars
  PROVE  \/ UNCHANGED repoVars
         \/ \E j \in JobIds, s \in SessionIds \cup {NoSession} : AddJobInPart(j, s)
         \/ \E j \in JobIds, status \in JobStatus, result \in BOOLEAN :
                UpdateJobInPart(j, status, result)
         \/ \E j \in JobIds : AddToJobLog(j)
<1>1. ASSUME NEW j \in JobIds, NEW s, CreateJob(j, s) PROVE AddJobInPart(j, s)
  BY <1>1, WholeIsInPart DEF CreateJob
<1>2. ASSUME NEW j \in JobIds, Enqueue(j)
      PROVE  \/ UNCHANGED repoVars
             \/ \E status \in JobStatus, result \in BOOLEAN : UpdateJobInPart(j, status, result)
  <2>1. jobs[j].result \in BOOLEAN /\ "QUEUED" \in JobStatus
    BY DEF TypeOK, RepoTypeOK, Job, JobStatus, Unfinished
  <2> QED
    BY <1>2, <2>1, WholeIsInPart DEF Enqueue, CallRaises
<1>3. ASSUME NEW j \in JobIds, TaskStep(j)
      PROVE  \/ UNCHANGED repoVars
             \/ \E status \in JobStatus, result \in BOOLEAN : UpdateJobInPart(j, status, result)
             \/ AddToJobLog(j)
  BY <1>3, TaskStepCalls DEF TypeOK
<1>4. CASE \/ \E j \in JobIds : FindCreated(j)
           \/ Begin \/ AwaitSlot \/ Dispatch \/ StopWaiting \/ Drain \/ Get
           \/ Shutdown \/ Down \/ Restart \/ UNCHANGED vars
  BY <1>4 DEF FindCreated, Begin, AwaitSlot, Dispatch, StopWaiting, LeaveLoop, Drain, Get,
              GetLeaving, Shutdown, Down, Restart, vars
<1> QED
  BY <1>1, <1>2, <1>3, <1>4
     DEF QueueStep, Next, ServeGracefully, Serve, JobStep, WorkerStep, Crash, Exit

\* Jobs stay in their sessions, which stay as they are.
SameMembers == /\ \A j \in JobIds : /\ jobs'[j].sid = jobs[j].sid
                                    /\ jobs[j].status = "NEW" => jobs'[j].status = "NEW"
               /\ \A s \in SessionIds : sessions'[s].state = sessions[s].state

LEMMA QueueMembersStep ==
  ASSUME TypeOK, [QueueStep]_vars
  PROVE  \/ SameMembers
         \/ \E j \in JobIds, s \in SessionIds \cup {NoSession} : AddJobInPart(j, s)
<1>0. jobs \in [JobIds -> Job] /\ sessions \in [SessionIds -> Session]
  BY DEF TypeOK, RepoTypeOK
<1>1. CASE UNCHANGED repoVars
  BY <1>1 DEF repoVars, SameMembers
<1>2. ASSUME NEW j \in JobIds, NEW status \in JobStatus, NEW result \in BOOLEAN,
             UpdateJobInPart(j, status, result)
      PROVE  SameMembers
  <2>1. jobs[j].status # "NEW" /\ jobs'[j].sid = jobs[j].sid
    BY <1>0, <1>2 DEF UpdateJobInPart, Store, Present, Job, JobStatus, Unfinished, Finished
  <2>2. \A k \in JobIds : k # j => jobs'[k] = jobs[k]
    BY <1>0, <1>2 DEF UpdateJobInPart, Store
  <2>3. \A s \in SessionIds : sessions'[s].state = sessions[s].state
    BY <1>0, <1>2, TouchedState DEF UpdateJobInPart, InPart
  <2> QED
    BY <2>1, <2>2, <2>3 DEF SameMembers
<1>3. ASSUME NEW j \in JobIds, AddToJobLog(j)
      PROVE  SameMembers
  <2>1. /\ jobs'[j].sid = jobs[j].sid /\ jobs'[j].status = jobs[j].status
        /\ \A k \in JobIds : k # j => jobs'[k] = jobs[k]
        /\ sessions' = sessions
    BY <1>0, <1>3 DEF AddToJobLog, repoVars
  <2> QED
    BY <2>1 DEF SameMembers
<1> QED
  BY <1>1, <1>2, <1>3, QueueRepositoryStep

\* Progress of a job is a step of the abstract lifecycle.
LEMMA ProgressImplements ==
  ASSUME TypeOK, Progress,
         \/ SameMembers
         \/ \E j \in JobIds, s \in SessionIds \cup {NoSession} : AddJobInPart(j, s)
  PROVE  [Lifecycle!Next]_(Lifecycle!lifeVars)
<1>0. jobs \in [JobIds -> Job] /\ sessions \in [SessionIds -> Session]
  BY DEF TypeOK, RepoTypeOK
<1>1. CASE SameMembers /\ \A k \in JobIds : SameOutcome(k)
  BY <1>1 DEF SameMembers, SameOutcome, Lifecycle!lifeVars
<1>2. ASSUME SameMembers, NEW j \in JobIds, NEW from, NEW to, Moves(j, from, to)
      PROVE  Lifecycle!Move(j, from, to)
  BY <1>2 DEF SameMembers, Moves, SameOutcome, Lifecycle!Move
<1>3. ASSUME SameMembers, NEW j \in JobIds,
             \/ Moves(j, "CREATED", "QUEUED")
             \/ Moves(j, "QUEUED", "RUNNING")
             \/ Moves(j, "RUNNING", "SUCCESS")
             \/ Moves(j, "RUNNING", "ERROR")
      PROVE  Lifecycle!Next
  BY <1>2, <1>3 DEF Lifecycle!Next, Lifecycle!Enqueue, Lifecycle!Start, Lifecycle!Finish
<1>4. ASSUME SameMembers, NEW j \in JobIds, Moves(j, "NEW", "CREATED") PROVE FALSE
  BY <1>4 DEF SameMembers, Moves
<1>5. ASSUME NEW j \in JobIds, NEW s \in SessionIds \cup {NoSession}, AddJobInPart(j, s)
      PROVE  Lifecycle!Next
  <2>1. /\ jobs[j].status = "NEW"
        /\ jobs'[j].status = "CREATED"
        /\ jobs'[j].sid = s
        /\ \A k \in JobIds \ {j} : jobs'[k] = jobs[k]
    BY <1>0, <1>5 DEF AddJobInPart, Insert, Blank
  <2>2. /\ s # NoSession => s \in SessionIds /\ sessions[s].state = "OPEN"
        /\ \A t \in SessionIds : sessions'[t].state = sessions[t].state
    BY <1>0, <1>5, TouchedState DEF AddJobInPart, Insert, InPart, Open
  <2>3. Lifecycle!Create(j, s)
    BY <2>1, <2>2 DEF Lifecycle!Create
  <2> QED
    BY <2>3 DEF Lifecycle!Next
<1> QED
  BY <1>1, <1>3, <1>4, <1>5 DEF Progress

(***************************************************************************)
(* With a repository that does not fail, requests, queue, worker,          *)
(* coroutines, shutdowns and crashes implement the abstract lifecycle.     *)
(***************************************************************************)
THEOREM LifecycleImplemented ==
  ASSUME ~Faults
  PROVE  Spec => ImplementsLifecycle
BY InitIsNew, QueueMembersStep, ProgressImplements, TypeCorrect, OwnerInvHolds, ProgressStep,
   NextIsQueueStep, ExceptInvInit, PTL
   DEF Spec, ImplementsLifecycle, Lifecycle!Spec

-----------------------------------------------------------------------------
(* A service that is not stopped loses no job.  The worker forgets an id   *)
(* that it holds only by starting its coroutine: it holds one only while   *)
(* it waits for a job.                                                     *)

ServeInv == /\ NotLost
            /\ ~shutdown
            /\ getter # NoJob => worker = "await_job"

LEMMA TakeLosesNone ==
  ASSUME queue \in Seq(JobIds), TakesFirst, NEW j \in JobIds, InQueue(j)
  PROVE  InQueue(j)' \/ getter' = j
<1>1. CASE queue' = queue
  BY <1>1 DEF InQueue
<1>2. CASE queue # <<>> /\ getter' = Head(queue) /\ queue' = Tail(queue)
  <2>1. PICK i \in DOMAIN queue : queue[i] = j
    BY DEF InQueue
  <2>2. /\ Len(queue) \in Nat \ {0}
        /\ DOMAIN queue = 1..Len(queue)
        /\ getter' = queue[1]
        /\ DOMAIN queue' = 1..(Len(queue) - 1)
        /\ \A k \in DOMAIN queue' : queue'[k] = queue[k + 1]
    BY <1>2
  <2>3. CASE i = 1
    BY <2>1, <2>2, <2>3
  <2>4. CASE i # 1
    <3>1. i - 1 \in DOMAIN queue' /\ (i - 1) + 1 = i
      BY <2>1, <2>2, <2>4
    <3>2. queue'[i - 1] = j
      BY <2>1, <2>2, <3>1
    <3> QED
      BY <3>1, <3>2 DEF InQueue
  <2> QED
    BY <2>3, <2>4
<1> QED
  BY <1>1, <1>2 DEF TakesFirst

\* A step of a coroutine leaves its job finished, or in its hands.
LEMMA TaskStepKeepsJob ==
  ASSUME ~Faults, TypeOK, OwnerInv, ExceptInv, NEW j \in JobIds, Present(j), TaskStep(j)
  PROVE  /\ jobs'[j].status # "CREATED"
         /\ jobs'[j].status = "QUEUED" => task'[j] \in {"find", "mark"}
         /\ jobs'[j].status = "RUNNING"
                => task'[j] \in {"sandbox", "log", "post", "fail_log", "fail"}
<1>0. /\ jobs \in [JobIds -> Job]
      /\ task \in [JobIds -> Steps \cup Ends \cup {"none"}]
  BY DEF TypeOK, RepoTypeOK, TaskTypeOK
<1>1. task[j] # "none" /\ task[j] \in Steps
  BY DEF TaskStep, Find, MarkRunning, RunSandbox, CallSandbox, WriteLog, Finish,
         FinishAs, FailLog, MarkError, Steps
<1>2. Present(j) /\ TaskFindsStatus(j)
  BY DEF OwnerInv, OwnerFindsStatus, TaskFindsStatus
<1>3. ASSUME NEW status, NEW result, UpdateJobInPart(j, status, result)
      PROVE  jobs'[j].status = status
  BY <1>0, <1>3 DEF UpdateJobInPart, Store, Job
<1>4. ASSUME NEW step, Goto(j, step) PROVE task'[j] = step
  BY <1>0, <1>4 DEF Goto
<1>5. CASE Find(j)
  BY <1>2, <1>4, <1>5 DEF Find, repoVars, TaskFindsStatus
<1>6. CASE MarkRunning(j)
  BY <1>2, <1>3, <1>4, <1>6, WholeIsInPart DEF MarkRunning, CallRaises
<1>7. CASE RunSandbox(j)
  BY <1>2, <1>4, <1>7 DEF RunSandbox, CallSandbox, repoVars, TaskFindsStatus
<1>8. CASE WriteLog(j) \/ FailLog(j)
  <2>1. AddToJobLog(j)
    BY <1>2, <1>8 DEF WriteLog, FailLog, CallRaises
  <2>2. jobs'[j].status = jobs[j].status
    BY <1>0, <2>1 DEF AddToJobLog, repoVars
  <2>3. /\ jobs[j].status = "RUNNING"
        /\ task'[j] \in {"post", "fail"}
    BY <1>2, <1>4, <1>8 DEF WriteLog, FailLog, CallRaises, TaskFindsStatus, ExceptInv
  <2> QED
    BY <2>2, <2>3
<1>9. CASE Finish(j)
  <2>1. CASE Goto(j, "fail_log") /\ jobs' = jobs
    BY <1>2, <1>4, <1>9, <2>1 DEF Finish, FinishAs, TaskFindsStatus
  <2>2. CASE UpdateJobInPart(j, IF answer[j].success THEN "SUCCESS" ELSE "ERROR",
                       answer[j].result)
    BY <1>3, <2>2
  <2> QED
    BY <1>2, <1>9, <2>1, <2>2, WholeIsInPart DEF Finish, FinishAs, CallRaises, repoVars
<1>10. CASE MarkError(j)
  <2>1. UpdateJobInPart(j, "ERROR", jobs[j].result)
    BY <1>2, <1>10, WholeIsInPart DEF MarkError, CallRaises
  <2> QED
    BY <1>3, <2>1
<1> QED
  BY <1>5, <1>6, <1>7, <1>8, <1>9, <1>10 DEF TaskStep

\* What NotLost says about one job.
InHands(j) ==
    /\ jobs[j].status = "CREATED" => create[j] \in CreateSteps
    /\ jobs[j].status = "QUEUED" =>
           InQueue(j) \/ getter = j \/ task[j] \in {"find", "mark"}
    /\ jobs[j].status = "RUNNING" =>
           task[j] \in {"sandbox", "log", "post", "fail_log", "fail"}

\* Serve, with jobs in sessions.
ServeStep == \/ Serve
             \/ \E j \in JobIds, s \in SessionIds \cup {NoSession} : CreateJob(j, s)

LEMMA ServeInvStep ==
  ASSUME ~Faults
  PROVE  TypeOK /\ OwnerInv /\ ExceptInv /\ ServeInv /\ [ServeStep]_vars => ServeInv'
<1> SUFFICES ASSUME TypeOK, OwnerInv, ExceptInv, ServeInv, [ServeStep]_vars
             PROVE  ServeInv'
  OBVIOUS
<1>0. /\ queue \in Seq(JobIds)
      /\ jobs \in [JobIds -> Job]
      /\ task \in [JobIds -> Steps \cup Ends \cup {"none"}]
      /\ create \in [JobIds -> CreateSteps \cup {"none", "returned", "failed"}]
      /\ \A j \in JobIds : InHands(j)
  BY DEF TypeOK, RepoTypeOK, TaskTypeOK, ServeInv, NotLost, InHands
<1>1. CASE UNCHANGED <<jobs, task, create, queue, getter, shutdown, worker>>
  BY <1>1 DEF ServeInv, NotLost, InQueue
<1>2. ASSUME NEW j \in JobIds, UNCHANGED <<getter, worker, shutdown>>,
             InHands(j)',
             \A k \in JobIds : InQueue(k) => InQueue(k)',
             \A k \in JobIds : k # j => /\ jobs'[k] = jobs[k]
                                        /\ task'[k] = task[k]
                                        /\ create'[k] = create[k]
      PROVE  ServeInv'
  <2>1. ASSUME NEW k \in JobIds, k # j PROVE InHands(k)'
    BY <1>0, <1>2, <2>1 DEF InHands
  <2> QED
    BY <1>2, <2>1 DEF ServeInv, NotLost, InHands
<1>3. ASSUME NEW j \in JobIds, NEW s \in SessionIds \cup {NoSession}, CreateJob(j, s)
      PROVE  ServeInv'
  <2>1. /\ jobs'[j].status = "CREATED"
        /\ create'[j] = "find"
        /\ \A k \in JobIds : k # j => jobs'[k] = jobs[k] /\ create'[k] = create[k]
        /\ UNCHANGED <<task, queue, getter, worker, shutdown>>
    BY <1>0, <1>3 DEF CreateJob, AddJob, Insert, Blank, taskVars, queueVars
  <2>2. InHands(j)' /\ \A k \in JobIds : InQueue(k) => InQueue(k)'
    BY <2>1 DEF InHands, CreateSteps, InQueue
  <2> QED
    BY <1>2, <2>1, <2>2
<1>4. ASSUME NEW j \in JobIds, FindCreated(j) PROVE ServeInv'
  <2>1. Present(j) => jobs[j].status = "CREATED"
    BY <1>4 DEF FindCreated, CreateSteps, OwnerInv, OwnerFindsStatus
  <2>2. /\ Present(j) => create' = [create EXCEPT ![j] = "enqueue"]
        /\ UNCHANGED <<jobs, task, queue, getter, worker, shutdown>>
    BY <1>4, <2>1 DEF FindCreated, repoVars, taskVars, queueVars
  <2>3. /\ Present(j) => create'[j] = "enqueue"
        /\ \A k \in JobIds : k # j => create'[k] = create[k]
    BY <1>0, <1>4, <2>2 DEF FindCreated
  <2>4. InHands(j)' /\ \A k \in JobIds : InQueue(k) => InQueue(k)'
    BY <2>1, <2>2, <2>3 DEF InHands, CreateSteps, InQueue, Present, JobStatus, Unfinished
  <2> QED
    BY <1>2, <2>2, <2>3, <2>4
<1>5. ASSUME NEW j \in JobIds, Enqueue(j) PROVE ServeInv'
  <2>1. UNCHANGED <<task, getter, worker, shutdown>>
    BY <1>5 DEF Enqueue, taskVars
  <2>2. \A k \in JobIds : k # j => create'[k] = create[k]
    BY <1>0, <1>5 DEF Enqueue
  <2>3. CASE Present(j)
    <3>1. UpdateJobInPart(j, "QUEUED", jobs[j].result) /\ queue' = Append(queue, j)
      BY <1>5, <2>3, WholeIsInPart DEF Enqueue, CallRaises
    <3>2. jobs'[j].status = "QUEUED" /\ \A k \in JobIds : k # j => jobs'[k] = jobs[k]
      BY <1>0, <3>1 DEF UpdateJobInPart, Store, Job
    <3>3. /\ Len(queue) \in Nat
          /\ DOMAIN queue = 1..Len(queue)
          /\ DOMAIN queue' = 1..(Len(queue) + 1)
          /\ \A i \in DOMAIN queue : i \in DOMAIN queue' /\ queue'[i] = queue[i]
          /\ Len(queue) + 1 \in DOMAIN queue' /\ queue'[Len(queue) + 1] = j
      BY <1>0, <3>1
    <3>4. InQueue(j)' /\ \A k \in JobIds : InQueue(k) => InQueue(k)'
      BY <3>3 DEF InQueue
    <3>5. InHands(j)'
      BY <3>2, <3>4 DEF InHands
    <3> QED
      BY <1>2, <2>1, <2>2, <3>2, <3>4, <3>5
  <2>4. CASE ~Present(j)
    <3>1. jobs' = jobs /\ queue' = queue
      BY <1>5, <2>4, WholeIsInPart DEF Enqueue, UpdateJobInPart, Store, CallRaises, repoVars
    <3>2. InHands(j)' /\ \A k \in JobIds : InQueue(k) => InQueue(k)'
      BY <2>4, <3>1 DEF InHands, InQueue, Present, JobStatus, Unfinished
    <3> QED
      BY <1>2, <2>1, <2>2, <3>1, <3>2
  <2> QED
    BY <2>3, <2>4
<1>6. ASSUME NEW j \in JobIds, TaskStep(j), UNCHANGED <<create, queueVars>>
      PROVE  ServeInv'
  <2>1. InHands(j)'
    <3>1. CASE Present(j)
      BY <1>6, <3>1, TaskStepKeepsJob DEF InHands
    <3>2. CASE ~Present(j)
      <4>1. jobs' = jobs
        BY <1>6, <3>2, TaskStepCalls DEF TypeOK, UpdateJobInPart, Store, AddToJobLog, repoVars
      <4> QED
        BY <3>2, <4>1 DEF InHands, Present, JobStatus, Unfinished
    <3> QED
      BY <3>1, <3>2
  <2>2. TaskFindsStatus(j)
    BY DEF OwnerInv, OwnerFindsStatus, TaskFindsStatus
  <2>3. \A k \in JobIds : k # j => jobs'[k] = jobs[k] /\ task'[k] = task[k]
    BY <1>0, <1>6, <2>2, TaskStepEffect DEF Goto
  <2>4. /\ UNCHANGED <<create, getter, worker, shutdown>>
        /\ \A k \in JobIds : InQueue(k) => InQueue(k)'
    BY <1>6 DEF queueVars, InQueue
  <2> QED
    BY <1>2, <2>1, <2>3, <2>4
<1>7. ASSUME TakesFirst, getter = NoJob, UNCHANGED <<jobs, task, create, shutdown>>,
             getter' # NoJob => worker' = "await_job"
      PROVE  ServeInv'
  <2>1. ASSUME NEW j \in JobIds PROVE InHands(j)'
    <3>1. getter # j
      BY <1>7, QueueAssumption
    <3> QED
      BY <1>0, <1>7, <3>1, TakeLosesNone DEF InHands
  <2> QED
    BY <1>7, <2>1 DEF ServeInv, NotLost, InHands
<1>8. CASE Begin \/ AwaitSlot
  BY <1>7, <1>8, RoundTakesFirst
     DEF Begin, AwaitSlot, Round, RoundUpTo, ServeInv, repoVars, taskVars
<1>9. CASE Get
  BY <1>7, <1>9 DEF Get, GetLeaving, TakesFirst, repoVars, taskVars
<1>10. CASE Dispatch
  <2>1. /\ getter \in JobIds
        /\ task' = [task EXCEPT ![getter] = "find"]
        /\ UNCHANGED <<jobs, create, shutdown>>
        /\ TakesFirst
        /\ getter' # NoJob => worker' = "await_job"
    BY <1>10, RoundTakesFirst DEF Dispatch, TypeOK, ServeInv, repoVars, Round,
                                  RoundUpTo
  <2>2. /\ task'[getter] = "find"
        /\ \A j \in JobIds : j # getter => task'[j] = task[j]
    BY <1>0, <2>1
  <2>3. ASSUME NEW j \in JobIds PROVE InHands(j)'
    <3>1. CASE j = getter
      <4>1. Present(j) => jobs[j].status = "QUEUED"
        BY <3>1 DEF OwnerInv, OwnerFindsStatus
      <4> QED
        BY <2>1, <2>2, <3>1, <4>1 DEF InHands, Present, JobStatus, Unfinished
    <3>2. CASE j # getter
      BY <1>0, <2>1, <2>2, <3>2, TakeLosesNone DEF InHands
    <3> QED
      BY <3>1, <3>2
  <2> QED
    BY <2>1, <2>3 DEF ServeInv, NotLost, InHands
<1>11. CASE StopWaiting
  BY <1>11 DEF StopWaiting, LeaveLoop, ServeInv
<1>12. CASE Drain
  <2>1. worker # "await_job" /\ UNCHANGED <<jobs, task, create, queue, getter, shutdown>>
    BY <1>12 DEF Drain, repoVars, taskVars
  <2> QED
    BY <2>1 DEF ServeInv, NotLost, InQueue
<1>13. CASE UNCHANGED vars
  BY <1>1, <1>13 DEF vars, repoVars, taskVars, queueVars
<1> QED
  BY <1>3, <1>4, <1>5, <1>6, <1>8, <1>9, <1>10, <1>11, <1>12, <1>13
     DEF ServeStep, Serve, JobStep, WorkerStep

LEMMA ServeInvInit == Init => ServeInv
  BY DEF Init, RepoInit, Blank, ServeInv, NotLost

(***************************************************************************)
(* In a service that is not stopped, and whose repository does not fail,   *)
(* an unfinished job is always in the hands of a request, the queue, the   *)
(* worker or its coroutine.                                                *)
(***************************************************************************)
THEOREM NotLostHolds ==
  ASSUME ~Faults
  PROVE  ServeSpec => []NotLost
<1>1. Init => ServeInv
  BY ServeInvInit
<1>2. [Serve]_vars => [Next]_vars /\ [ServeStep]_vars
  BY DEF Next, ServeGracefully, ServeStep
<1>3. ServeSpec => Spec
  BY <1>2, PTL DEF ServeSpec, Spec
<1>4. ServeInv => NotLost
  BY DEF ServeInv
<1> QED
  BY <1>1, <1>2, <1>3, <1>4, TypeCorrect, OwnerInvHolds, ExceptInvInit, ProgressStep,
     ServeInvStep, NextIsQueueStep, PTL
     DEF ServeSpec, Spec
=============================================================================
