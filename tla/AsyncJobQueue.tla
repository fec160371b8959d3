--------------------------- MODULE AsyncJobQueue ----------------------------
(***************************************************************************)
(* The in-process job queue (adapters/job_queue/async_job_queue.py): the   *)
(* requests that create and enqueue jobs (services/jobs.py), the asyncio   *)
(* queue, the worker that starts a coroutine per job up to a limit, and    *)
(* the life of the process around it: graceful shutdown, crash, restart.   *)
(*                                                                         *)
(* All of it runs on one event loop; a step is what happens between two    *)
(* suspensions.  The repository outlives the process (MongoDB).            *)
(***************************************************************************)
EXTENDS ProcessJob, Sequences

CONSTANTS
    NoJob,
    MaxConcurrent   \* max_concurrent_jobs

ASSUME QueueAssumption ==
    /\ NoJob \notin JobIds
    /\ MaxConcurrent \in Nat \ {0}

VARIABLES
    create,    \* the coroutine create_job() of each job
    queue,     \* asyncio.Queue of job ids
    getter,    \* the id held by the task await_job = queue.get(), once done
    running,   \* running_tasks: jobs whose coroutine the worker knows of
    worker,    \* the await at which the worker is, or how it ended
    shutdown   \* await_shutdown is done

queueVars == <<queue, getter, running, worker, shutdown>>
vars == <<repoVars, taskVars, create, queueVars>>

CreateSteps == {"find", "enqueue"}
WorkerSteps == {"loop", "await_slot", "await_job", "drain"}

Init == /\ RepoInit
        /\ TaskInit
        /\ create = [j \in JobIds |-> "none"]
        /\ queue = <<>>
        /\ getter = NoJob
        /\ running = {}
        /\ worker = "loop"
        /\ shutdown = FALSE

TypeOK ==
    /\ RepoTypeOK
    /\ TaskTypeOK
    /\ create \in [JobIds -> CreateSteps \cup {"none", "returned", "failed"}]
    /\ queue \in Seq(JobIds)
    /\ getter \in JobIds \cup {NoJob}
    /\ running \in SUBSET JobIds
    /\ worker \in WorkerSteps \cup {"exited", "failed", "down"}
    /\ shutdown \in BOOLEAN

-----------------------------------------------------------------------------
(* create_job: add_job, find_job, enqueue.  The document's type was found  *)
(* before; a request with an unknown session changes nothing.              *)

\* uvicorn accepts no request after it began to stop, and none when it is down.
Serving == worker \in WorkerSteps /\ ~shutdown

CreateJob(j, s) ==
    /\ Serving
    /\ \/ AddJob(j, s) /\ create' = [create EXCEPT ![j] = "find"]
       \/ Faults /\ AddJobInPart(j, s) /\ create' = [create EXCEPT ![j] = "failed"]
    /\ UNCHANGED <<taskVars, queueVars>>

\* The job that was read is handed to enqueue(), which refuses any other status.
FindCreated(j) ==
    /\ create[j] = "find"
    /\ \/ jobs[j].status = "CREATED" /\ create' = [create EXCEPT ![j] = "enqueue"]
       \/ (jobs[j].status # "CREATED" \/ Faults) /\ create' = [create EXCEPT ![j] = "failed"]
    /\ UNCHANGED <<repoVars, taskVars, queueVars>>

\* The queue is unbounded: put() does not suspend, so it is part of the step.
Enqueue(j) ==
    /\ create[j] = "enqueue"
    /\ \/ /\ UpdateJob(j, "QUEUED", jobs[j].result)
          /\ queue' = Append(queue, j)
          /\ create' = [create EXCEPT ![j] = "returned"]
       \/ /\ CallRaises(j, UpdateJobInPart(j, "QUEUED", jobs[j].result))
          /\ create' = [create EXCEPT ![j] = "failed"]
          /\ UNCHANGED queue
    /\ UNCHANGED <<taskVars, getter, running, worker, shutdown>>

-----------------------------------------------------------------------------
(* The worker.                                                             *)

Completed == {j \in running : ~Live(j)}

\* One round of the loop, from its head to the next suspension: forget finished
\* tasks, then wait for a free slot, or for a job.  A job that is in the queue
\* is taken by queue.get() before the worker can run again.
RoundUpTo(tasks, limit) ==
    LET kept == {j \in tasks : Live(j)'}
    IN  /\ running' = kept
        /\ \/ /\ Cardinality(kept) >= limit
              /\ worker' = "await_slot"
              /\ getter' = NoJob
              /\ UNCHANGED queue
           \/ /\ Cardinality(kept) < limit
              /\ worker' = "await_job"
              /\ IF queue = <<>> THEN getter' = NoJob /\ UNCHANGED queue
                                 ELSE getter' = Head(queue) /\ queue' = Tail(queue)

RoundOneMore(tasks) == RoundUpTo(tasks, MaxConcurrent + 1)   \* mutant: off by one

Round(tasks) == RoundUpTo(tasks, MaxConcurrent)

Begin ==
    /\ worker = "loop"
    /\ UNCHANGED <<repoVars, taskVars, create, shutdown>>
    /\ Round({})

AwaitSlot ==
    /\ worker = "await_slot"
    /\ Completed # {}
    /\ UNCHANGED <<repoVars, taskVars, create, shutdown>>
    /\ Round(running \ Completed)

\* The task await_job wakes up after a put().
GetLeaving(rest) ==
    /\ worker = "await_job"
    /\ getter = NoJob
    /\ queue # <<>>
    /\ getter' = Head(queue)
    /\ queue' = rest
    /\ UNCHANGED <<repoVars, taskVars, create, running, worker, shutdown>>

Peek == GetLeaving(queue)   \* mutant: the job stays in the queue

Get == GetLeaving(Tail(queue))

\* The id is there: start its coroutine, even if a shutdown was requested too.
Dispatch ==
    /\ worker = "await_job"
    /\ getter # NoJob
    /\ task' = [task EXCEPT ![getter] = "find"]
    /\ \/ /\ ~shutdown
          /\ Round(running \cup {getter})
       \/ /\ shutdown
          /\ running' = running \cup {getter}
          /\ getter' = NoJob
          /\ worker' = "drain"
          /\ UNCHANGED queue
    /\ UNCHANGED <<repoVars, answer, create, shutdown>>

\* await_job is cancelled: a job that is put meanwhile stays in the queue.
LeaveLoop(tasks) ==
    /\ worker = "await_job"
    /\ getter = NoJob
    /\ shutdown
    /\ worker' = "drain"
    /\ running' = tasks
    /\ UNCHANGED <<repoVars, taskVars, create, queue, getter, shutdown>>

\* Mutants: the result of await_shutdown is used as a job id; a shutdown is
\* noticed only if nothing is executed.
StopIsJob == LeaveLoop(running \cup {getter})
StopWhenIdle == running = {} /\ LeaveLoop(running)

StopWaiting == LeaveLoop(running)

DrainAtOnce ==   \* mutant: running tasks are not awaited
    /\ worker = "drain"
    /\ worker' = "exited"
    /\ UNCHANGED <<repoVars, taskVars, create, queue, getter, running, shutdown>>

\* "await t" of one of the tasks; the exception of a failed one ends the worker.
Drain ==
    /\ worker = "drain"
    /\ \/ \E j \in Completed :
             /\ running' = running \ {j}
             /\ worker' = IF task[j] = "raised" THEN "failed" ELSE "drain"
       \/ /\ running = {}
          /\ worker' = "exited"
          /\ UNCHANGED running
    /\ UNCHANGED <<repoVars, taskVars, create, queue, getter, shutdown>>

WorkerStep == Begin \/ AwaitSlot \/ Dispatch \/ StopWaiting \/ Drain

-----------------------------------------------------------------------------
(* The process.                                                            *)

\* The lifespan handler runs once the requests that were accepted are answered.
Shutdown ==
    /\ Serving
    /\ \A j \in JobIds : create[j] \notin CreateSteps
    /\ shutdown' = TRUE
    /\ UNCHANGED <<repoVars, taskVars, create, queue, getter, running, worker>>

\* Only what the repository holds survives.
Down ==
    /\ task' = [j \in JobIds |-> "none"]
    /\ answer' = [j \in JobIds |-> NoAnswer]
    /\ create' = [j \in JobIds |-> IF create[j] \in CreateSteps THEN "failed"
                                                               ELSE create[j]]
    /\ queue' = <<>>
    /\ getter' = NoJob
    /\ running' = {}
    /\ worker' = "down"
    /\ shutdown' = FALSE
    /\ UNCHANGED repoVars

Crash == worker \in WorkerSteps /\ Down

\* shutdown() returned, or raised the exception the worker ended with.
Exit == worker \in {"exited", "failed"} /\ Down

Restart ==
    /\ worker = "down"
    /\ worker' = "loop"
    /\ UNCHANGED <<repoVars, taskVars, create, queue, getter, running, shutdown>>

-----------------------------------------------------------------------------
JobStep(j) ==
    \/ FindCreated(j)
    \/ Enqueue(j)
    \/ TaskStep(j) /\ UNCHANGED <<create, queueVars>>

\* A process that serves requests for standalone jobs and is never stopped.
Serve ==
    \/ \E j \in JobIds : CreateJob(j, NoSession) \/ JobStep(j)
    \/ WorkerStep
    \/ Get

\* Processes that end only by a graceful shutdown.
ServeGracefully == Serve \/ Shutdown \/ Exit \/ Restart

Next == ServeGracefully \/ Crash

Spec == Init /\ [][Next]_vars

\* asyncio runs every coroutine that can run; the sandbox always answers.
Fairness ==
    /\ \A j \in JobIds : WF_vars(JobStep(j))
    /\ WF_vars(WorkerStep)
    /\ WF_vars(Get)

ServeSpec == Init /\ [][Serve]_vars /\ Fairness

\* What was shut down is started again (api.run.sh, restart: unless-stopped).
GracefulSpec == /\ Init
                /\ [][ServeGracefully]_vars
                /\ Fairness
                /\ WF_vars(Exit)
                /\ WF_vars(Restart)

-----------------------------------------------------------------------------
(* Properties.                                                             *)

InQueue(j) == \E i \in DOMAIN queue : queue[i] = j

\* At no time are more than max_concurrent_jobs jobs executed, whatever fails
\* and however often the process is stopped and started (_worker).
ConcurrencyLimit == Cardinality({j \in JobIds : Live(j)}) <= MaxConcurrent

\* A job is never at two places at once: with the request that creates it, in
\* the queue (once), taken from it by queue.get(), or with a coroutine of the
\* worker.  Hence no job can be executed twice, or enqueued while it is executed.
OneOwner ==
    /\ \A i, k \in DOMAIN queue : queue[i] = queue[k] => i = k
    /\ \A j \in JobIds :
         /\ create[j] \in CreateSteps =>
                ~InQueue(j) /\ getter # j /\ task[j] = "none"
         /\ InQueue(j) => getter # j /\ task[j] = "none"
         /\ getter = j => task[j] = "none"

\* Whoever owns a job finds it in the status that its next step expects: the
\* checks in enqueue() and process_job_in_sandbox() never fail a job that is
\* there, in spite of crashes, of jobs that vanish and of calls that fail.  Only
\* an except block may find the job finished, by an update that raised.
OwnerFindsStatus ==
    \A j \in JobIds : Present(j) =>
        /\ create[j] \in CreateSteps => jobs[j].status = "CREATED"
        /\ InQueue(j) \/ getter = j \/ task[j] \in {"find", "mark"}
               => jobs[j].status = "QUEUED"
        /\ task[j] \in {"sandbox", "log", "post"} => jobs[j].status = "RUNNING"
        /\ task[j] \in {"fail_log", "fail"} => jobs[j].status \in {"RUNNING"} \cup Finished

\* Nothing falls through the cracks between enqueue(), the queue, the worker and
\* the coroutines: an unfinished job is always in the hands of one of them.
NotLost ==
    \A j \in JobIds :
        /\ jobs[j].status = "CREATED" => create[j] \in CreateSteps
        /\ jobs[j].status = "QUEUED" =>
               InQueue(j) \/ getter = j \/ task[j] \in {"find", "mark"}
        /\ jobs[j].status = "RUNNING" =>
               task[j] \in {"sandbox", "log", "post", "fail_log", "fail"}

\* A job in state SUCCESS has its result (core/job.py: "Job execution was
\* successful, the result is available").
SuccessHasResult == \A j \in JobIds : jobs[j].status = "SUCCESS" => jobs[j].result

\* Whoever awaited a job once gets the same status ever after: neither the state
\* nor the result of a finished job changes, until the job is deleted.
FinishedIsFinal ==
    [][\A j \in JobIds : jobs[j].status \in Finished =>
          \/ jobs'[j].status = "DELETED"
          \/ /\ jobs'[j].status = jobs[j].status
             /\ jobs'[j].result = jobs[j].result]_vars

\* shutdown() returns only when no job is executed any more ("Graceful wait for
\* running tasks to finish"); it gives up the wait only for a coroutine that raised.
DrainWaits == /\ worker = "exited" => \A j \in JobIds : ~Live(j)
              /\ worker = "failed" => \E j \in JobIds : task[j] = "raised"

\* A job whose execution began is finished, even if the service is shut down
\* and started again meanwhile.
StartedIsFinished == \A j \in JobIds :
    jobs[j].status = "RUNNING" ~> jobs[j].status \in Finished

\* A shutdown completes, however many jobs are waiting or being executed.
ShutdownCompletes == shutdown ~> worker \in {"exited", "failed"}

\* "Each job will eventually be picked up and executed" (docs/architecture.md).
QueuedIsFinished == \A j \in JobIds :
    jobs[j].status = "QUEUED" ~> jobs[j].status \in Finished

Lifecycle == INSTANCE JobLifecycle WITH
    status  <- [j \in JobIds |-> jobs[j].status],
    owner   <- [j \in JobIds |-> jobs[j].sid],
    session <- [s \in SessionIds |-> sessions[s].state]

\* Whatever queue, worker and deletions do, a job passes through its states in
\* order, in a session that is open, and disappears finished or with its session.
ImplementsLifecycle == Lifecycle!Spec

\* A service that is not stopped also finishes every job that it accepted.
ImplementsFairLifecycle == Lifecycle!FairSpec
=============================================================================
