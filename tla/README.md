# A TLA+ model of docleaner

docleaner takes documents, removes their metadata in a sandbox and keeps the
results until they are fetched, deleted or purged. This directory models the
part of it that decides what happens to a job: queue, execution, repository,
sessions, deletion, purging, the handlers that clients call, and the life of
the process around them; and how the metadata of a PDF is selected.
TLC checks the models on small instances (`*.cfg`), and TLAPS checks proofs
about the queue, the service, its handlers, the sandbox, the MongoDB adapter and the
metadata for every instance.

    tlc -config DocSessions.cfg MCDocleaner  # any run: see "Runs"
    tlapm Docleaner_proofs.tla               # and the other *_proofs modules

## The system

All paths are below `src/api/src/docleaner/api/`.

| Component | State | Operations | Talks to |
|---|---|---|---|
| job queue (`adapters/job_queue/async_job_queue.py`) | `asyncio.Queue`, `running_tasks`, shutdown event, where its worker is | `enqueue`, `shutdown`, `_worker` | repository; starts job executions |
| job execution (`services/sandbox.py`) | one coroutine per job | `process_job_in_sandbox` | repository, sandbox |
| job services (`services/jobs.py`) | local variables of requests | `create_job`, `delete_job`, `purge_jobs`, `await_job`, readers | repository, queue |
| session services (`services/sessions.py`) | likewise | `create_session`, `delete_session`, `purge_sessions`, `await_session`, `get_session` | repository |
| repository (`services/repository.py`), in memory or in MongoDB (`adapters/repository/`) | jobs, sessions, total; documents in GridFS | `add_`, `find_`, `update_`, `delete_` of jobs and sessions, `add_to_job_log` | the database |
| sandbox (`adapters/sandbox/containerized_sandbox.py`) | one container per call | `process` | podman |
| `docleaner-ctl` (`entrypoints/ctl/main.py`) | a separate process | `tasks` (purge), `debug delete`, status, diag | repository |
| web process (`entrypoints/web/`) | the queue and the requests | routes of the REST API and of the web pages, lifespan handler | services |
| PDF plugin (`plugins/pdf/`) | – | `preprocess_exiftool_metadata` in the sandbox, `process_pdf_metadata` after it | – |
| file identifier, clock, logging, bootstrap, build and deployment | – | MIME types, wiring | – |

What is hard here:

* *Interleaving.* Requests, worker, job coroutines and sandboxes run on one event
  loop and may be suspended at every `await`. The purger is another process on
  the same database. Checks ("is the job finished?") and acts ("delete it") are
  separate calls.
* *Failure and restart.* Queue and coroutines live in memory, jobs in the
  database. A call may fail with or without effect, and a method of the MongoDB
  adapter may end between any two of its calls.
* *Answers.* A handler reads a job, is suspended while it fetches the documents, and then
  answers; another handler, the worker or a purger changes or deletes the job in between.
* *Limits and waiting.* The worker counts tasks, waits for a slot, a job or a
  shutdown, and must not miss any of them.
* *Retention.* Documents are private. Each must disappear, and completely.

What makes each part correct: the queue executes at most `max_concurrent_jobs`
jobs, each once, loses none while it runs and shuts down when asked; an execution
takes its job from QUEUED to RUNNING to a final state, which stays; deletions hit
only what their check allowed; the purger removes everything in the end and
nothing early; the database holds documents of existing jobs only; a sandbox
reports success only with the file that was produced, and leaves no container; no handler reads
less of a job than was told before, and who waits is answered; no field of
the metadata of a document is hidden by another.

## Modules

| Module | Models | Extends |
|---|---|---|
| `Repository` | jobs, sessions, the clock; one operator per repository method | – |
| `ProcessJob` | the coroutines that execute jobs | `Repository` |
| `AsyncJobQueue` | `create_job`, `enqueue`, the worker, shutdown, crash, restart | `ProcessJob` |
| `JobLifecycle` | abstract specification: what is promised about jobs and sessions | – |
| `Docleaner` | sessions, deletion, purger and operator around the queue | `AsyncJobQueue` |
| `Requests` | the handlers of both routers, waiting and polling clients | `Docleaner` |
| `ContainerizedSandbox` | the podman calls of `process` | – |
| `MongoRepository` | the database calls of each repository method, and faults | – |
| `JobStore` | abstract specification: jobs and their documents where every method is one step | – |
| `PdfMetadata` | from the output of exiftool to the metadata that is shown | – |
| `AsyncJobQueue_proofs` | theorems: types, the limit, the drain, who owns a job and in which status | `AsyncJobQueue` |
| `JobLifecycle_proofs` | theorems: refinement, nothing lost | `AsyncJobQueue_proofs` |
| `Docleaner_proofs` | theorems: the same and the deletions, in the whole service | `Docleaner`, `JobLifecycle_proofs` |
| `Requests_proofs` | theorems: answers; the handlers implement `DocSpec` | `Requests`, `Docleaner_proofs` |
| `ContainerizedSandbox_proofs`, `MongoRepository_proofs`, `PdfMetadata_proofs` | theorems about these three | the modules they are named after |
| `MongoDocuments_proofs` | theorems: files do not outlive jobs; `MongoRepository` implements `JobStore` | `MongoRepository_proofs` |
| `MCQueue`, `MCDocleaner`, `MCRequests`, `MCSandbox`, `MCMongo`, `MCPdf` | symmetry sets and inputs for TLC | the above |

`JobLifecycle` is the abstract specification that queue and service implement, with sessions as well,
and `JobStore` the one that `MongoRepository` implements: `Repository` takes methods for single
steps, and `JobStore` is the part of that the adapter keeps, and all that faults can do to
it. `ContainerizedSandbox` justifies `SandboxResults` of
`ProcessJob` (`SuccessIsComplete`); `Requests` implements `Docleaner`, hence keeps what
holds there.

Operators whose comment begins with "mutant:" are plausible bugs, defined before
the operator they replace. No specification uses them; `PROJECT.json` names, for
each property, the mutant that breaks it.

### Repository and ProcessJob

`jobs` and `sessions` are functions on all tokens that may ever be generated. A
token that is unused has the status `"NEW"`, one whose job was deleted
`"DELETED"`, and tokens are not used twice. A job keeps its
status, session, the age of its last update and whether a result is stored. Timestamps appear only in comparisons with a timeframe, so
they are kept as ages, which `Tick` increases up to `MaxAge`; ages above every
keepalive need not be told apart. A result and its metadata are written by one
call and are one bit, which says that the file of the container is stored; the file may be empty. Logs
are left out.

Each method is one step here, and each *call* of a method a step of the caller.
The in-memory adapter never suspends within a method; calls are still separate
steps since the callers cannot rely on that, and the MongoDB adapter suspends.
What happens inside the methods of that adapter is the subject of
`MongoRepository`; here a method that fails may have made some of its writes and not others
(`AddJobInPart`, `UpdateJobInPart`, `DeleteJobInPart`, `DeleteSessionInPart`): a job without its session's
timestamp, a timestamp without the deletion, some jobs of a session.

`task[j]` is the `await` at which `process_job_in_sandbox` is suspended, in the
order of the code: `find`, `mark`, `sandbox`, then `log`, `post`, or the
except blocks `fail_log`, `fail`. `answer[j]` is what the sandbox returned.
Log lines are all alike, so one `log` step stands for the loop. Where `Faults` is
TRUE each call may also raise although the job is there, and its writes may have
been applied, all, some or none. The two except blocks do the same writes and are modelled once.

### AsyncJobQueue

| Code | Model |
|---|---|
| `create_job` at each await | `CreateJob`, `FindCreated`, `Enqueue`; `create[j]` |
| `self._queue` | `queue` |
| `await_job`, done or not | `getter` (`NoJob`: not done); `Get` |
| `running_tasks` | `running` |
| where `_worker` waits | `worker`: `await_slot` (line 58), `await_job` (67), `drain` (83) |
| `_ev_shutdown`, `await_shutdown` | `shutdown` (one variable: nothing depends on the gap) |

`Round` is what the worker does from the head of its loop to its next
suspension. If a job is waiting, the task of `queue.get()` takes it before the
worker can run again, so `Round` fills `getter` at once; otherwise `Get` does it
later. `Dispatch` and `StopWaiting` are the two outcomes of the wait. Note that a
job that is ready is started even if a shutdown was requested too.
`Drain` awaits tasks in any order, since `running_tasks` is a set.

A `Shutdown` waits for the requests in progress, as uvicorn does before it runs the
lifespan handler. A `Crash` may come at any time. Both lose everything but the
repository.

Three specifications: `ServeSpec` (a service that is not stopped), `GracefulSpec`
(stopped only gracefully, and started again), `Spec` (also crashes; no fairness).

### Docleaner

`delete_job` and `delete_session` are a check (`CheckJob`, `CheckSession`) and a
deletion (`RemoveJob`, `RemoveSession`); the jobs and sessions between the two are
in `deleting` and `closing`. `purger` is the await at which `docleaner-ctl tasks`
is, `staleJobs` and `staleSessions` are what is left of the lists it iterates. A
`ValueError`, or a failing call, ends it (`AbortPurge`), as in `cmd_tasks`. Jobs
of a session are skipped by `purge_jobs`; the model leaves them out of the list.
The sets are unordered: the order of `find_jobs` plays no part.
One concurrent request per job or session is modelled; the purger
and the operator are further deleters. `docleaner-ctl` also starts a queue of its
own, to which nothing is ever enqueued. `JobsProceed` is everything that happens to a
job without a request, `Background` adds purger, operator and clock, `Stop` what ends and starts
the process.

### Requests

An asker is a client, or the page of a job, which asks by itself. `request[c]` is what asker `c` waits
for, and `told[j]` the furthest that answers, to whomever, have said about job `j`: its status, or
`"DELETED"` for a 404. `told` is a history variable, except that a client can name only what an answer named.

A handler reads and answers in different steps. `find_job` reads the status and then fetches the documents
(`mongodb_repository.py:79`, 249-255), a list of jobs comes from a cursor. `seen` is what the answer will
say of each job, as it was when the handler read it; `Answer` says it, or fails if the job was deleted before its documents
were fetched (500).

| Code | Model |
|---|---|
| `landing_post`: `create_job`, then the page says CREATED | `LandingPost`, `LandingPosted` |
| `jobs_create`: `create_job`, then `get_job`, then the answer | `JobsCreate`, `JobsCreated`, `Answer` |
| `jobs_get`, `jobs_get_result` of both routers | `JobsGet`, `JobsGetResult`, `Answer` |
| `jobs_delete`: check, then deletion | `JobsDelete`, `JobsDeleted` around `CheckJob`, `RemoveJob`; `Answer` |
| `sessions_create`: `create_session`, then as `sessions_get` | `SessionsCreate`, `FindSession`, ... |
| `sessions_get`: `find_session`, `find_jobs`, its cursor | `SessionsGet`, `FindSessionJobs`, `List`, `Answer` |
| `sessions_delete` | `SessionsDelete`, `SessionsDeleted` around `CheckSession`, `RemoveSession` |
| `await_session`: `find_session`, `find_jobs`, `await_job` of each | `AwaitSession`, `AwaitFound`, `AwaitJob`, `Awaited` |
| `job_details.html` asks again after a second | `polling`, `Poll` |

The two routers differ in how they render an answer,
so the web routes share the actions of the REST routes where both read and write the same.
`create_job` itself is in module `AsyncJobQueue`. `left` are the jobs that the cursor has yet to return, or that
`await_session` has yet to await. The code takes them in the order of `find_jobs`; the model
leaves the order open, which adds behaviours and takes none away. A round of `await_job` that
finds the job unfinished changes nothing and is no step. A page stops polling when it shows a final status, and also
when the answer is a 404 or a 500: htmx does not show those (`app.js` looks at 413 and 422 only), the element that
polls stays, but it has been loaded already. `StopServing` ends the requests with
the process; a graceful shutdown waits for them, and a page that asks while the process is down does not ask again.

### ContainerizedSandbox

One step per podman call, success or exception. An exception before the `try`
block leaves `process`; within it, the `finally` clause stops the container and
returns. `auto_remove` removes what is stopped. The file in `result_document` may be empty, which the
code does not look at.

### MongoRepository

Each client executes one method at a time, one step per database call. GridFS is `files`.
`self._fs.delete` is not awaited: the file is `doomed` and disappears later. The clients behave
like the services and `docleaner-ctl`: one coroutine at a time adds or updates a job (`create_job`, then
`process_job_in_sandbox`); it stores a status, or a result once with a final status, and may store an error even after that, as
the except block does when the final update was applied and raised. Anybody may delete or
read any job at any time, in whatever state it is. The cursor of `delete_session` returns a job per step
(`List`), while others are added. Where it stands is not modelled; it returns the jobs in the order of
insertion, so that it has returned all of them when it ends (`Listed`).

*Faults.* `Interrupt` ends a method before its next call, because the process crashes or the
call raises; `DeletionFails` loses a deletion whose future nobody looks at. `MaxFaults` bounds
them in runs, and proofs hold for any bound. `faults` counts them, and `condemned` are the jobs
whose files somebody began to delete, `hasty` those of them that were not finished then; no guard but the bound
depends on any of these. After an interrupt
other methods go on with what is in the database: a job without a count, a finished job
whose files are gone.

*The abstract store.* `ImplementsStore` maps the documents of a job to the files of a stored job
that it refers to (`Docs`). So an upload is invisible until `insert_one` or `update_one` refers to it, at which
step the whole method appears to happen; touching the session, counting and ending early are stuttering. The
deletion of a job is `Condemn` when its files are asked to be deleted, `Lose` for each of them that goes
first, and `Delete`.

### PdfMetadata

Three loops, one step per round: `Preprocess` of the script in the sandbox, which ends with
`StartProcessing`, then `ShowPrimary` and `ShowEmbed` of the plugin. `raw` is what exiftool printed, as far as
the script has come; no guard depends on it but the bound and that the keys of a JSON object are unique. The
first loop of the plugin takes the fields in any order, the second the embedded
documents in that of their dictionary (`order`). A key is a pair of group and name;
values are abstracted to those the code looks for. Keys of embedded documents have a group,
since the code splits them without looking.

## Runs

| Run | Instance | Shows |
|---|---|---|
| `queue_serve` | 3 jobs, limit 2, `ServeSpec` | `NotLost`; `ImplementsFairLifecycle`: every accepted job is finished |
| `queue_graceful` | 3 jobs, limit 2, `GracefulSpec` | `DrainWaits`, `StartedIsFinished`, `ShutdownCompletes` |
| `doc_sessions` | 2 jobs, 1 session, limit 1, `DocSpec` | `VerdictsOnJobsHold`, `StandaloneKeptUntilFinished`, `FinishedIsFinal`, `ImplementsLifecycle`: the abstract lifecycle in spite of purges, deletions of jobs and sessions, crashes |
| `doc_faults` | 2 jobs, 1 session, limit 1, failing calls, operator | `DocTypeOK`, `ConcurrencyLimit`, `OneOwner`, `OwnerFindsStatus`, `SuccessHasResult`, `DrainWaits` |
| `requests` | 2 clients and the page, 1 job, 1 session, operator, crash and restart | `RequestsTypeOK`, `AwaitedAreFinished`, `NothingTakenBack` |
| `requests_live` | 1 client and the page, 1 job, 1 session, operator, `ServeRequestsSpec` | `RequestsEnd`, `PollingEnds`, `JobsDisappear`, `SessionsDisappear` |
| `sandbox` | 2 calls | `TypeOK`, `SuccessIsComplete`, `NoContainerLeft` |
| `mongo_concurrent` | 2 clients, 2 jobs, 1 session, 1 fault | `TypeOK`, `TotalCountsJobs`, `JobsHaveFiles`, `NoDocumentLeft`, `DeletedForever`, `FindFailsOnlyOfDeleted`, `ImplementsStore` |
| `pdf_metadata` | up to 4 of 18 fields, 2 embedded documents | `PrimaryIsComplete`, `EmbedsAreNumbered`, `NothingIsHidden` |
| `finding_abandoned` | 2 jobs, `GracefulSpec` | violated: `QueuedIsFinished` |
| `finding_close_session` | 2 jobs, 1 session | violated: `ClosedSessionIsFinished` |
| `finding_orphan_job` | 2 clients, 1 job, 1 session, no faults | violated: `NoJobOfDeletedSession` |

*Why these bounds.* Three jobs and two slots are the least at which two jobs are
executed while a third waits, so that the worker waits for a slot, finds several tasks
finished at once, and drains several tasks while the queue is not empty. With
sessions, two jobs and one slot let one job wait while another is executed, and a
job be added to a session whose other job is finished, and include two standalone jobs and one of each kind. `requests` has two clients, so that one is
told of a job between two steps of the other's request, and the page is a third asker; what the handlers share is the
job, of which one suffices. Lists of several jobs and the cursor over them are covered by the proofs, which are for any number. In `requests_live` operator, purger and clock are the other
actors, and one client suffices to wait for what they delete.
Two clients of the database suffice for every race between two methods, a method has at most
five calls, and one fault leaves the rest of a method to what comes after it; the proofs are for any number of
faults. Four fields are enough for
two fields in each of two embedded documents, in every interleaving.

*Bounds.* `MaxAge` saturates ages, `MaxFaults` bounds the faults of `MongoRepository`,
`MaxEntries` the fields of a PDF. Tokens are finite, so services come to rest when all are
used: the runs of `ServeSpec`, of `ServeRequestsSpec`, of the sandbox, of the MongoDB
adapter and of the PDF metadata disable the deadlock check for that reason; the others can
always crash or restart and check it.

*Symmetry* is used for runs without liveness. Jobs and clients are
interchangeable there; no operator chooses among them.

*Fairness.* asyncio runs every coroutine that can run: weak fairness of each
job's coroutine, of the worker and of the task in `queue.get()`. It includes the
assumption that a sandbox answers, since `exec_run` has no timeout. Requests,
shutdowns and crashes are never forced. `GracefulSpec` adds that the process
exits when its lifespan handler is done and is started again (`restart: unless-stopped`,
`deployment/podman/production.yml`). `DocServeSpec` and `ServeRequestsSpec` add that cron
keeps starting the purger, that a request that was accepted goes on, and that time passes;
the latter also that a page polls its job as long as `polling` holds it. No client has
to send any other request, and an operator never has to delete.

## Where the code differs from what it says

Three runs show a disagreement; `PROJECT.json` quotes the lines.

* `finding_abandoned`: a graceful shutdown leaves the jobs in the queue QUEUED for
  ever. Nothing enqueues them again, `delete_job` and `purge_jobs` refuse them
  and the session they belong to cannot be purged.
* `finding_close_session`: a job that is added between the check and the deletion
  in `delete_session` is deleted unfinished.
* `finding_orphan_job`: with MongoDB, a job that is added while its session is
  deleted outlives it and is never purged, since `purge_jobs` skips it and
  `purge_sessions` never sees it.

Known divergences without a run of their own, all visible in the models:

* `_worker` re-raises the exception of a failed task while it drains
  (`Drain`, `worker = "failed"`), and stops waiting for the others. `DrainWaits` says that
  nothing else ends the wait. A coroutine raises if the repository fails, if the operator deletes its job,
  or if a session is deleted together with it.
* An exception while log lines are written (`WriteLog`) leaves the job RUNNING for ever, and one in the update to
  QUEUED (`Enqueue`) leaves it CREATED or QUEUED for ever.
* If the update to SUCCESS is applied and its call raises, the except block turns the
  job into ERROR (`Finish`). `FinishedIsFinal` is checked without such failures.
* A sandbox failure with an empty log yields an ERROR without a log entry
  (`RunSandbox` with `r.log = FALSE`); `core/job.py` promises one.
* An empty result file is reported as success with `b""` as its document (`GetResult`), and the job becomes SUCCESS.
* `purge_sessions` purges a session that was used again after the list of stale
  sessions was read (`PurgeSession` does not look at the age).
* `ContainerizedSandbox.process` raises if podman fails in `start`, `put_archive` or
  `stop`; `core/sandbox.py` rules that out. In the first two cases
  the container stays.
* A podman failure after the result was fetched ends in a failure that carries the
  result (`GetMetadata`).
* With MongoDB, an upload that overlaps `delete_session` leaves a file without a job
  (`UploadResult` after `List`): `NoDocumentLeft` is about standalone jobs. So does one that overlaps
  `docleaner-ctl debug delete` of a job that is being executed: the deletion read the job before it had a result, which then
  stays in GridFS for ever (`LateResults`). `find_job` raises
  `NoFile` if the job is deleted between its two reads (`Read`).
* With MongoDB a job and the timestamp of its session are two writes, and a failure in between leaves the session older
  than its job; the timestamps of two overlapping methods may also be written in the opposite order. A session is therefore not always as recent as its jobs.
* Answers to requests that overlap may arrive in any order: a client that asks twice at once may be told SUCCESS and then
  RUNNING, as each answer says what its handler read. `NothingTakenBack` is about what handlers read.
* The page of a job that was deleted goes on to say that the job is being processed, as htmx shows no 404 or 500; it does
  stop asking (`Answer`).
* `delete_job` and `delete_session` ask for the deletion of files before they delete the job: if they
  end in between, the job stays, and every `find_job` raises (`condemned`).
* A job that is deleted between `create_job` and `get_job` in `jobs_create` is answered as an
  unsupported document (422); so is an unknown session (`JobsCreated`).
* `diag_job_details` of `docleaner-ctl` reads the source of a job in a second call, after the status
  was checked; and `cmd_diag_run` with a job id does not pass the configuration it
  takes as its first argument.
* The size of the file and a field that is itself called `PDF:FileSize` share one key: the one that is
  printed last is shown (`PreprocessPrimary`).

## Proofs

Every theorem holds for every set of jobs, sessions, clients and calls, every
`MaxConcurrent`, every `MaxFaults`, every set of fields and any number of them, and includes every interleaving.
Assumed are only the named `ASSUME`s: "none" values are no
tokens, bounds are positive, the sets of the MongoDB adapter are finite, and a key is a pair of group and
name, the group not missing in embedded documents (the code splits those without looking). TLC evaluates
them in every run. "~Faults" marks theorems for a repository whose calls do not fail.

| Theorem | States | For |
|---|---|---|
| `TypeCorrect` | `Spec => []TypeOK` | all |
| `LimitHolds` | `Spec => []ConcurrencyLimit` | all |
| `OneOwnerHolds` | `Spec => []OneOwner` | all |
| `OwnerFindsStatusHolds` | `Spec => []OwnerFindsStatus` | all |
| `SuccessHasResultHolds` | `Spec => []SuccessHasResult` | all |
| `FinishedStaysFinal` | `Spec => FinishedIsFinal` | `~Faults` |
| `LifecycleImplemented` | `Spec => ImplementsLifecycle` | `~Faults` |
| `DrainWaitsHolds` | `Spec => []DrainWaits` | all |
| `NotLostHolds` | `ServeSpec => []NotLost` | `~Faults` |
| `DocTypeCorrect` | `DocSpec => []DocTypeOK` | all |
| `ServiceKeepsJobs` | `DocSpec => [](ConcurrencyLimit /\ OneOwner /\ OwnerFindsStatus /\ SuccessHasResult)` | all |
| `FinishedStaysFinalInService` | `DocSpec => FinishedIsFinal` | `~Faults` |
| `VerdictsHold` | `DocSpec => []VerdictsOnJobsHold` | `~Faults` |
| `StandaloneKept` | `DocSpec => StandaloneKeptUntilFinished` | `~Faults`, `~DebugDelete` |
| `LifecycleInService` | `DocSpec => ImplementsLifecycle` | `~Faults`, `~DebugDelete` |
| `NotLostInService` | `DocServeSpec => []NotLost` | `~Faults` |
| `DrainWaitsInService` | `DocSpec => []DrainWaits` | all |
| `RequestsTypeCorrect` | `RequestsSpec => []RequestsTypeOK` | all |
| `HandlersImplementService` | `RequestsSpec => DocSpec` | all |
| `NothingTakenBackHolds` | `RequestsSpec => NothingTakenBack` | `~Faults` |
| `AwaitedAreFinishedHolds` | `RequestsSpec => []AwaitedAreFinished` | `~Faults` |
| `SandboxTypeCorrect`, `SuccessIsCompleteHolds`, `NoContainerLeftHolds` | the invariants of `ContainerizedSandbox` | all |
| `MongoTypeCorrect`, `JobsHaveFilesHolds`, `TotalCountsJobsHolds` | `TypeOK`, `JobsHaveFiles`, `TotalCountsJobs` of `MongoRepository` | all |
| `DeletedForeverHolds`, `FindFailsOnlyOfDeletedHolds` | its action properties | all |
| `NoDocumentLeftHolds` | `Spec => []NoDocumentLeft`, of the same module | all |
| `StoreImplemented` | `Spec => ImplementsStore`, of the same module | all |
| `PrimaryIsCompleteHolds`, `EmbedsAreNumberedHolds` | the invariants of `PdfMetadata` | all |
| `NothingIsHiddenHolds` | `Spec => NothingIsHidden`, of the same module | all |

The arguments, by their inductive invariants:

* *The limit* (`RunningInv`). `ConcurrencyLimit` speaks of coroutines, the worker of
  `running_tasks`. So that set must contain each live coroutine, be
  within the limit, and be below it while the worker waits for a job, because
  `Dispatch` does not look at the limit again.
* *Ownership* (`OwnerInv`). `OneOwner` alone is not inductive: a job that is created
  must not have an owner already. `NewIsFree` adds that nobody holds a token that was
  not generated. With `OwnerFindsStatus` this gives the whole argument why the
  checks of status in `enqueue` and `process_job_in_sandbox` never fail. Two lemmas
  about the queue (`TakeFirst`, `PutLast`) say what taking and putting an id
  does to "is in the queue, once".
* *Results* (`ResultInv`). An answer that reports success has a result.
* *The lifecycle* (`ExceptInv`). With a repository that does not fail an except block
  finds its job RUNNING. Then each step makes `Progress`: it moves one job by one
  state or none at all. Both `FinishedStaysFinal` and the refinement follow.
* *Drain* (`RunningInv`). `running_tasks` contains every live coroutine, so when the drained set is empty none is
  left; and the worker fails only in the step in which it finds a task that has raised, which stays so until the process
  ends. This needs no assumption, and carries over to the service, which leaves worker and tasks alone.
* *Nothing lost* (`ServeInv`). The worker holds an id only while it waits for a job,
  so no round overwrites one. What is added in the service only deletes jobs, and a job that
  is gone is not lost.
* *The service* (`DocInv`). All of the above again, where jobs vanish under their owners: a step of
  `Docleaner` is a step of the queue, or it leaves the queue alone and only creates, ages or deletes
  jobs, which the invariants survive because they speak of jobs that are present.
* *Verdicts* (`VerdictInv`). A finished job can only be deleted, so a
  check stays true until its act. The purger's list holds standalone jobs; their age
  only grows, since nobody updates a finished job. With `Progress` this gives the lifecycle of the whole
  service: each of its steps creates, moves or deletes one job, opens a session, or deletes one with exactly its
  jobs, whatever their status (`finding_close_session`).
* *Answers* (`AnswerInv`). What was told of a job, and what a handler has seen of it and is yet to say, is
  `Behind` the job in the repository, or equal. A handler that reads finds the state of the job itself, hence never less than what was
  told; and a job never goes back (`JobEvolves`, from the lifecycle), so that what was told stays behind it
  (`StayBehind`). A job that `await_session` has passed is processed, and stays so (`TickedOff`).
* *The sandbox*. `AnswerGrows` says what the answer has at each call, `ContainerFollows` in
  which state the container is.
* *MongoDB* (`FilesInv`). A file is doomed only if its job is condemned (`DoomedOK`). A job that is
  stored has its files unless it is condemned (`JobOK`), and a client in the middle of a method may rely on
  those it has uploaded or read about (`ClientOK`); nobody else knows the token of a job that is being
  added (`Alone`). The total is an invariant about two cardinalities.
* *No document left* (`OwnersInv`). A file is `Stray` if it belongs to a standalone job, nobody is about
  to store a reference to it, its deletion is not pending, its job does not refer to it or is condemned, and it is not
  among `LateResults`. Only a fault makes a file stray, and one at most (`StrayStep`): one coroutine at a time updates a
  job (`Exclusive`), and a job that is condemned while it is updated with a result is hasty (`UpdaterOK`). When nobody is at work, the
  files without a job are all stray or late.
* *The store* (the same invariant). That each call is one abstract step or none needs two facts about the
  middle of methods. Whoever stores a result finds the job without one, or deleted, with the file that was uploaded in
  place or its job condemned (`UpdaterOK`); and a result is doomed only if its job refers to it (`DoomedResults`), so that
  a file that disappears never takes an upload along which nobody refers to yet.
* *Metadata* (`PdfInv`). An induction over the document, one round per step. After each round the
  dictionaries of the script hold what was printed and nothing else (`PrimarySorted`, `EmbedsSorted`), and `order` has
  each embedded document once, in the order of printing (`OrderKept`); what is shown
  comes from the keys that were visited, and all of them are shown (`PrimaryShown`, `EmbedsShown`). That no
  round hides what another has kept needs the renaming of keys to be injective where it is not skipped, which is
  why `Schemas` has to be dropped.

Only model-checked: liveness and all that rests on fairness, which is out of the prover's reach:
`ImplementsFairLifecycle`, `StartedIsFinished`, `ShutdownCompletes`, `RequestsEnd`, `PollingEnds`,
`JobsDisappear`, `SessionsDisappear`. For the first of them, the safety part is proved (`LifecycleImplemented`).

## Not modelled

* `get_jobs`, `get_job_src`, `get_job_stats`, and with them the commands status, diag-err and diag-run of
  `docleaner-ctl`: they read, print and change nothing.
* The wording of answers and templates, static pages; a request that is refused because of
  a token nobody was told, or a document type that is not supported, changes nothing and is no step.
* The dummy sandbox (its answers are among `SandboxResults`), file identification,
  logging, bootstrap, build, deployment, themes.
* Tags of PDF fields (`_identify_tags`, a lookup by prefix), values that are dictionaries
  themselves, and the tools that the sandbox scripts call.
* In MongoDB: the timestamps, the log, and the read-only queries; where a cursor stands while jobs are added or deleted.
* The boundary of staleness: `MemoryRepository` includes an age equal to the keepalive,
  `MongoDBRepository` does not. The models include it.

## Plan

The order was that of importance: the queue and what it shares with everything else
first, then the whole service, then the adapters below it, then the handlers above it.

1. Done: all modules above, their runs and theorems.
2. Left to extend: the boundary of staleness of both adapters; `find_jobs` as a cursor that is read
   while jobs are added; the sessions in `JobStore`.
3. Left to prove: that a step of `JobStore` without faults is a step of `Repository`; what remains of `NothingTakenBack`
   when calls fail.
