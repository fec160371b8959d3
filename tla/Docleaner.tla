----------------------------- MODULE Docleaner ------------------------------
(***************************************************************************)
(* The whole service: the queue of module AsyncJobQueue; the requests that *)
(* create sessions, add jobs to them and delete jobs and sessions          *)
(* (services/jobs.py, services/sessions.py); the separate process          *)
(* "docleaner-ctl tasks" that cron starts to purge what is stale, and      *)
(* "docleaner-ctl debug delete" (entrypoints/ctl/main.py); the clock.      *)
(*                                                                         *)
(* A deletion first looks whether it is allowed and then deletes: other    *)
(* coroutines, and the other process, may run in between.                  *)
(***************************************************************************)
EXTENDS AsyncJobQueue

CONSTANTS
    JobKeepalive,      \* purge_after of purge_jobs
    SessionKeepalive,  \* purge_after of purge_sessions
    DebugDelete        \* whether an operator may delete jobs in any state

ASSUME DocleanerAssumption ==
    /\ JobKeepalive \in 1..MaxAge
    /\ SessionKeepalive \in 1..MaxAge
    /\ DebugDelete \in BOOLEAN

VARIABLES
    deleting,   \* jobs that a request found finished and is about to delete
    closing,    \* the same for sessions
    purger,     \* the await at which docleaner-ctl tasks is
    staleJobs,  \* what is left of the answer of find_jobs in purge_jobs
    staleSessions,  \* what is left of the answer of find_sessions
    victim      \* the session that purge_sessions is about to delete

requestVars == <<deleting, closing>>
purgeVars == <<purger, staleJobs, staleSessions, victim>>
allVars == <<vars, requestVars, purgeVars>>

DocInit == /\ Init
           /\ deleting = {}
           /\ closing = {}
           /\ purger = "idle"
           /\ staleJobs = {}
           /\ staleSessions = {}
           /\ victim = NoSession

DocTypeOK == /\ TypeOK
             /\ deleting \in SUBSET JobIds
             /\ closing \in SUBSET SessionIds
             /\ purger \in {"idle", "jobs", "sessions", "delete"}
             /\ staleJobs \in SUBSET JobIds
             /\ staleSessions \in SUBSET SessionIds
             /\ victim \in SessionIds \cup {NoSession}

procVars == <<taskVars, create, queueVars>>   \* untouched by the steps below

-----------------------------------------------------------------------------
(* Requests to the web process.  Of several concurrent requests to delete  *)
(* the same job or session one is modelled; the purger is another deleter. *)

CreateSession(s) ==
    /\ Serving
    /\ AddSession(s)
    /\ UNCHANGED <<procVars, requestVars, purgeVars>>

CheckJobIn(j, statuses) ==
    /\ Serving
    /\ jobs[j].status \in statuses
    /\ deleting' = deleting \cup {j}
    /\ UNCHANGED <<vars, closing, purgeVars>>

CheckJobNotRunning(j) == CheckJobIn(j, JobStatus \ {"RUNNING"})   \* mutant

CheckJob(j) == CheckJobIn(j, Finished)

\* delete_job of the repository raises ValueError if the job is gone by now.
RemoveJob(j) ==
    /\ j \in deleting
    /\ deleting' = deleting \ {j}
    /\ DeleteJob(j) \/ CallRaises(j, DeleteJobInPart(j))
    /\ UNCHANGED <<procVars, closing, purgeVars>>

CheckSession(s) ==
    /\ Serving
    /\ Open(s)
    /\ SessionJobs(s, Unfinished) = {}
    /\ closing' = closing \cup {s}
    /\ UNCHANGED <<vars, deleting, purgeVars>>

RemoveSession(s) ==
    /\ s \in closing
    /\ closing' = closing \ {s}
    /\ \/ DeleteSession(s)
       \/ (Faults \/ ~Open(s)) /\ UNCHANGED repoVars
       \/ Faults /\ DeleteSessionInPart(s)
    /\ UNCHANGED <<procVars, deleting, purgeVars>>

-----------------------------------------------------------------------------
(* docleaner-ctl tasks: purge_jobs, then purge_sessions.  A ValueError or a *)
(* failing call ends the process; the next one starts from the beginning.  *)

ExitPurger == /\ purger' = "idle"
              /\ staleJobs' = {}
              /\ staleSessions' = {}
              /\ victim' = NoSession

AbortPurge == ExitPurger /\ UNCHANGED repoVars

\* Jobs of a session are in the answer of find_jobs as well, and skipped.
StartPurgeOf(statuses) ==
    /\ purger = "idle"
    /\ purger' = "jobs"
    /\ staleJobs' = {j \in FindJobs(statuses) : /\ jobs[j].age >= JobKeepalive
                                                /\ jobs[j].sid = NoSession}
    /\ UNCHANGED <<repoVars, staleSessions, victim>>

\* Mutants: find_jobs is asked for all jobs, or not for those that failed.
StartPurgeOfAll == StartPurgeOf(JobStatus)
StartPurgeOfSuccess == StartPurgeOf({"SUCCESS"})

StartPurge == StartPurgeOf(Finished)

PurgeJob(j) ==
    /\ purger = "jobs"
    /\ j \in staleJobs
    /\ \/ /\ DeleteJob(j)
          /\ staleJobs' = staleJobs \ {j}
          /\ UNCHANGED <<purger, staleSessions, victim>>
       \/ ~Present(j) /\ AbortPurge

FindStaleSessions ==
    /\ purger = "jobs"
    /\ staleJobs = {}
    /\ purger' = "sessions"
    /\ staleSessions' = FindSessions(SessionKeepalive)
    /\ UNCHANGED <<repoVars, staleJobs, victim>>

PurgeCheckFor(s, statuses) ==
    /\ purger = "sessions"
    /\ s \in staleSessions
    /\ \/ /\ Open(s)
          /\ staleSessions' = staleSessions \ {s}
          /\ IF SessionJobs(s, statuses) # {}
               THEN UNCHANGED <<purger, victim>>
               ELSE purger' = "delete" /\ victim' = s
          /\ UNCHANGED <<repoVars, staleJobs>>
       \/ ~Open(s) /\ AbortPurge

\* mutant: a session with finished jobs is kept, too
PurgeCheckEmpty(s) == PurgeCheckFor(s, JobStatus)

PurgeCheck(s) == PurgeCheckFor(s, Unfinished)

PurgeSession ==
    /\ purger = "delete"
    /\ \/ /\ DeleteSession(victim)
          /\ purger' = "sessions"
          /\ victim' = NoSession
          /\ UNCHANGED <<staleJobs, staleSessions>>
       \/ ~Open(victim) /\ AbortPurge
       \/ Faults /\ DeleteSessionInPart(victim) /\ ExitPurger

EndPurge == purger = "sessions" /\ staleSessions = {} /\ AbortPurge

PurgeFails == Faults /\ purger # "idle" /\ AbortPurge

Purge == /\ \/ StartPurge \/ FindStaleSessions \/ PurgeSession \/ EndPurge
            \/ \E j \in JobIds : PurgeJob(j)
            \/ \E s \in SessionIds : PurgeCheck(s)
         /\ UNCHANGED <<procVars, requestVars>>

OperatorDeletes(j) ==
    /\ DebugDelete
    /\ DeleteJob(j) \/ (Faults /\ DeleteJobInPart(j))
    /\ UNCHANGED <<procVars, requestVars, purgeVars>>

-----------------------------------------------------------------------------
Time == Tick /\ UNCHANGED <<procVars, requestVars, purgeVars>>

\* Requests, queue and coroutines go on with the jobs that were added.
JobsProceed == /\ \/ \E j \in JobIds : JobStep(j)
                  \/ WorkerStep
                  \/ Get
               /\ UNCHANGED <<requestVars, purgeVars>>

\* What goes on whether or not somebody sends a request.
Background == \/ JobsProceed
              \/ Purge
              \/ PurgeFails /\ UNCHANGED <<procVars, requestVars>>
              \/ \E j \in JobIds : OperatorDeletes(j)
              \/ Time

Request == \/ /\ \E j \in JobIds, s \in SessionIds \cup {NoSession} : CreateJob(j, s)
              /\ UNCHANGED <<requestVars, purgeVars>>
           \/ \E j \in JobIds : CheckJob(j) \/ RemoveJob(j)
           \/ \E s \in SessionIds : CreateSession(s) \/ CheckSession(s) \/ RemoveSession(s)

\* A graceful shutdown waits for the requests, the end of the process ends them.
StopGracefully == /\ Shutdown
                  /\ deleting = {}
                  /\ closing = {}
                  /\ UNCHANGED <<requestVars, purgeVars>>

EndProcess == /\ Crash \/ Exit
              /\ deleting' = {}
              /\ closing' = {}
              /\ UNCHANGED purgeVars

StartAgain == Restart /\ UNCHANGED <<requestVars, purgeVars>>

Stop == StopGracefully \/ EndProcess \/ StartAgain

\* A service that is never stopped.
DocServe == Request \/ Background

DocNext == DocServe \/ Stop

DocSpec == DocInit /\ [][DocNext]_allVars

\* cron starts the purger again and again, and time passes.
DocFairness ==
    /\ \A j \in JobIds : WF_allVars(JobStep(j) /\ UNCHANGED <<requestVars, purgeVars>>)
    /\ WF_allVars((WorkerStep \/ Get) /\ UNCHANGED <<requestVars, purgeVars>>)
    /\ \A j \in JobIds : WF_allVars(RemoveJob(j))
    /\ \A s \in SessionIds : WF_allVars(RemoveSession(s))
    /\ WF_allVars(Purge)
    /\ WF_allVars(Time)

DocServeSpec == DocInit /\ [][DocServe]_allVars /\ DocFairness

-----------------------------------------------------------------------------
(* Properties.                                                             *)

\* What delete_job and purge_jobs found before they delete is still so when they
\* do: a job is finished, and stale if it is purged, whoever runs in between.
VerdictsOnJobsHold ==
    /\ \A j \in deleting : Present(j) => jobs[j].status \in Finished
    /\ \A j \in staleJobs : Present(j) => /\ jobs[j].status \in Finished
                                          /\ jobs[j].sid = NoSession
                                          /\ jobs[j].age >= JobKeepalive

Deleted(j) == Present(j) /\ jobs'[j].status = "DELETED"
Closed(s) == Open(s) /\ sessions'[s].state = "DELETED"

\* No request and no purger deletes a standalone job before it is finished.
StandaloneKeptUntilFinished ==
    [][\A j \in JobIds : Deleted(j) /\ jobs[j].sid = NoSession
                            => jobs[j].status \in Finished]_allVars

\* "Deletes a single session if all jobs associated with it are finished"
\* (delete_session, services/sessions.py).
ClosedSessionIsFinished ==
    [][\A s \in SessionIds : Closed(s) => SessionJobs(s, Unfinished) = {}]_allVars

\* Documents do not stay: every job and every session disappears eventually,
\* even if it is never deleted by a user.
JobsDisappear == \A j \in JobIds : Present(j) ~> ~Present(j)
SessionsDisappear == \A s \in SessionIds : Open(s) ~> ~Open(s)
=============================================================================
