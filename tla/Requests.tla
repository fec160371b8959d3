------------------------------ MODULE Requests ------------------------------
(***************************************************************************)
(* The service as its clients see it: the handlers of the REST API         *)
(* (routers/rest.py) and of the web pages (routers/web.py), and the        *)
(* functions await_job and await_session of the service layer, on top of   *)
(* module Docleaner.  A request is a sequence of repository calls, and the *)
(* clients, the worker, the coroutines and the purger run in between.      *)
(*                                                                         *)
(* What a handler says of a job, it read some time before it answers:      *)
(* find_job reads the status and then fetches the documents of the job,    *)
(* and a list of jobs is read from a cursor.                               *)
(***************************************************************************)
EXTENDS Docleaner

CONSTANT Clients

ASSUME RequestsAssumption == Clients \cap JobIds = {}

VARIABLES
    request,  \* the request that an asker waits for
    told,     \* the furthest that answers have said of a job, to whomever
    polling   \* the jobs with a page that asks for them until they are finished

clientVars == <<request, told, polling>>
requestsVars == <<allVars, clientVars>>

\* The page of a job asks by itself, besides the clients.
Askers == Clients \cup JobIds

\* The handlers of both routers, or the step that they are at; await_session is not
\* a handler.
Handlers == {"landing_post", "jobs_create", "jobs_delete", "find_session", "find_jobs",
             "answer", "sessions_delete", "await_find_jobs", "await_session"}

Told == JobStatus \cup {"nothing", "DELETED"}   \* "DELETED" is what a 404 says
Nothing == [j \in JobIds |-> "nothing"]

Idle == [at |-> "idle", job |-> NoJob, sid |-> NoSession, listed |-> {}, left |-> {},
         seen |-> Nothing]

\* listed, left: the jobs that await_session found and those it has yet to await;
\* what is left of the cursor.  seen: what the answer will say.
RequestsTypeOK ==
    /\ DocTypeOK
    /\ request \in [Askers -> [at : Handlers \cup {"idle"},
                               job : JobIds \cup {NoJob},
                               sid : SessionIds \cup {NoSession},
                               listed : SUBSET JobIds,
                               left : SUBSET JobIds,
                               seen : [JobIds -> Told]]]
    /\ told \in [JobIds -> Told]
    /\ polling \in SUBSET JobIds

RequestsInit == /\ DocInit
                /\ request = [c \in Askers |-> Idle]
                /\ told = Nothing
                /\ polling = {}

\* A client names a job only after an answer named it.
Known(j) == told[j] # "nothing"

\* How far a job has come.
Rank == [s \in Told |->
            CASE s = "nothing" -> 0 [] s = "CREATED" -> 1 [] s = "QUEUED" -> 2
              [] s = "RUNNING" -> 3 [] s \in Finished -> 4 [] s = "DELETED" -> 5]

\* What find_job makes a handler say of a job: its status, or 404.
Found(j) == IF Present(j) THEN jobs[j].status ELSE "DELETED"

Ask(c, r) == /\ request[c] = Idle
             /\ request' = [request EXCEPT ![c] = r]
             /\ UNCHANGED <<told, polling>>

Continue(c, r) == request' = [request EXCEPT ![c] = r] /\ UNCHANGED <<told, polling>>

\* The answer says what the handler has seen, or nothing.
SaySeen(c) == told' = [j \in JobIds |-> IF Rank[request[c].seen[j]] > Rank[told[j]]
                                          THEN request[c].seen[j] ELSE told[j]]

Done(c) == request' = [request EXCEPT ![c] = Idle]

EndWithout(c) == Done(c) /\ UNCHANGED <<told, polling>>

-----------------------------------------------------------------------------
(* The answer of a handler that has read all it wants to say.  One that    *)
(* read a single job still fetches its documents, which fails when the job *)
(* is deleted meanwhile (500).  A page polls on unless the job is finished *)
(* or the answer is an error, which htmx does not show.                    *)

Answer(c) ==
    LET r == request[c]
        j == r.job
        waits == c \in JobIds /\ r.seen[c] \in Unfinished
    IN  /\ r.at = "answer"
        /\ r.left = {}
        /\ \/ /\ SaySeen(c)
              /\ polling' = IF waits THEN polling ELSE polling \ {c}
           \/ /\ Faults \/ (j # NoJob /\ r.seen[j] # "DELETED" /\ ~Present(j))
              /\ UNCHANGED told
              /\ polling' = polling \ {c}
        /\ Done(c)
        /\ UNCHANGED allVars

-----------------------------------------------------------------------------
(* POST / and POST /jobs.  Both call create_job, of which each step is one *)
(* of module AsyncJobQueue.  landing_post then shows the page of the job,  *)
(* as CREATED, without looking at it; jobs_create calls get_job, and a job *)
(* that is gone is answered like an unsupported document (422).            *)

LandingPost(c, j) ==
    /\ Ask(c, [Idle EXCEPT !.at = "landing_post", !.job = j, !.seen[j] = "CREATED"])
    /\ CreateJob(j, NoSession)
    /\ UNCHANGED <<requestVars, purgeVars>>

LandingPosted(c) ==
    LET j == request[c].job
    IN  /\ request[c].at = "landing_post"
        /\ \/ create[j] = "failed" /\ EndWithout(c)
           \/ create[j] = "returned" /\ SaySeen(c) /\ Done(c) /\ polling' = polling \cup {j}
        /\ UNCHANGED allVars

JobsCreate(c, j, s) ==
    /\ Ask(c, [Idle EXCEPT !.at = "jobs_create", !.job = j])
    /\ CreateJob(j, s)
    /\ UNCHANGED <<requestVars, purgeVars>>

JobsCreated(c) ==
    LET r == request[c]
        j == r.job
    IN  /\ r.at = "jobs_create"
        /\ \/ (create[j] = "failed" \/ (create[j] = "returned" /\ ~Present(j)))
              /\ EndWithout(c)
           \/ /\ create[j] = "returned" /\ Present(j)
              /\ Continue(c, [r EXCEPT !.at = "answer", !.seen[j] = Found(j)])
        /\ UNCHANGED allVars

-----------------------------------------------------------------------------
(* GET and DELETE of a job.                                                *)

\* GET /jobs/{jid}, of both routers.
JobsGet(c, j) ==
    /\ Serving
    /\ Known(j)
    /\ Ask(c, [Idle EXCEPT !.at = "answer", !.job = j, !.seen[j] = Found(j)])
    /\ UNCHANGED allVars

\* GET /jobs/{jid}/result: 404 for a job in any other state, which says nothing.
JobsGetResult(c, j) == jobs[j].status = "SUCCESS" /\ JobsGet(c, j)

\* A job that is missing or unfinished is a 404 as well, and nothing changes.
JobsDelete(c, j) ==
    /\ Known(j)
    /\ j \notin deleting
    /\ Ask(c, [Idle EXCEPT !.at = "jobs_delete", !.job = j])
    /\ CheckJob(j)

\* 204, or 404 if somebody else has deleted the job meanwhile.
JobsDeleted(c) ==
    LET r == request[c]
        j == r.job
    IN  /\ r.at = "jobs_delete"
        /\ RemoveJob(j)
        /\ IF jobs'[j].status # "DELETED" THEN EndWithout(c)
             ELSE Continue(c, [r EXCEPT !.at = "answer", !.seen[j] = "DELETED"])

-----------------------------------------------------------------------------
(* Sessions.                                                               *)

\* get_session: find_session, then find_jobs, which looks for the session again.
SessionsGet(c, s) ==
    /\ Serving
    /\ Open(s)
    /\ Ask(c, [Idle EXCEPT !.at = "find_jobs", !.sid = s])
    /\ UNCHANGED allVars

\* POST /sessions creates a session and then calls get_session as well.
SessionsCreate(c, s) ==
    /\ Ask(c, [Idle EXCEPT !.at = "find_session", !.sid = s])
    /\ CreateSession(s)

FindSession(c) ==
    LET r == request[c]
    IN  /\ r.at = "find_session"
        /\ \/ Open(r.sid) /\ Continue(c, [r EXCEPT !.at = "find_jobs"])
           \/ (Faults \/ ~Open(r.sid)) /\ EndWithout(c)
        /\ UNCHANGED allVars

FindSessionJobs(c) ==
    LET r == request[c]
    IN  /\ r.at = "find_jobs"
        /\ \/ /\ Open(r.sid)
              /\ Continue(c, [r EXCEPT !.at = "answer", !.left = SessionJobs(r.sid, JobStatus)])
           \/ (Faults \/ ~Open(r.sid)) /\ EndWithout(c)
        /\ UNCHANGED allVars

\* The cursor arrives at a job that is still there, or skips one that is not.
List(c) ==
    LET r == request[c]
    IN  /\ r.at = "answer"
        /\ \E j \in r.left :
              Continue(c, [r EXCEPT !.left = r.left \ {j},
                                    !.seen[j] = IF Present(j) THEN Found(j) ELSE r.seen[j]])
        /\ UNCHANGED allVars

SessionsDelete(c, s) ==
    /\ s \notin closing
    /\ Ask(c, [Idle EXCEPT !.at = "sessions_delete", !.sid = s])
    /\ CheckSession(s)

SessionsDeleted(c) ==
    /\ request[c].at = "sessions_delete"
    /\ RemoveSession(request[c].sid)
    /\ EndWithout(c)

-----------------------------------------------------------------------------
(* await_session: the jobs of the session are listed once, by find_jobs.   *)

AwaitSession(c, s) ==
    /\ Serving
    /\ Open(s)
    /\ Ask(c, [Idle EXCEPT !.at = "await_find_jobs", !.sid = s])
    /\ UNCHANGED allVars

AwaitFound(c) ==
    LET r == request[c]
        S == SessionJobs(r.sid, JobStatus)
    IN  /\ r.at = "await_find_jobs"
        /\ Continue(c, [r EXCEPT !.at = "await_session", !.listed = S, !.left = S])
        /\ UNCHANGED allVars

\* One round of the loop in await_job finds a job that need not be awaited any
\* more; a job that is gone ends await_session with an exception.  A round that
\* finds the job unfinished changes nothing.
AwaitUntil(c, statuses, Raise(_)) ==
    /\ request[c].at = "await_session"
    /\ \E j \in request[c].left :
          \/ /\ jobs[j].status \in statuses
             /\ Continue(c, [request[c] EXCEPT !.left = @ \ {j}])
          \/ ~Present(j) /\ Raise(c)
    /\ UNCHANGED allVars

\* Mutants: a running job is not awaited; the loop goes on when find_job returns
\* None.
Never(c) == FALSE
AwaitNotRunning(c) == AwaitUntil(c, Finished \cup {"RUNNING"}, EndWithout)
AwaitForEver(c) == AwaitUntil(c, Finished, Never)

AwaitJob(c) == AwaitUntil(c, Finished, EndWithout)

Awaited(c) == /\ request[c].at = "await_session"
              /\ request[c].left = {}
              /\ EndWithout(c)
              /\ UNCHANGED allVars

-----------------------------------------------------------------------------
\* The page of a job asks for it a second after it was shown.
Poll(j) == j \in polling /\ JobsGet(j, j)

Handler == \/ \E c \in Clients :
                 \/ \E j \in JobIds, s \in SessionIds \cup {NoSession} : JobsCreate(c, j, s)
                 \/ \E j \in JobIds : \/ LandingPost(c, j) \/ JobsDelete(c, j)
                                      \/ JobsGet(c, j) \/ JobsGetResult(c, j)
                 \/ \E s \in SessionIds : \/ SessionsCreate(c, s) \/ SessionsGet(c, s)
                                          \/ SessionsDelete(c, s) \/ AwaitSession(c, s)
           \/ \E j \in JobIds : Poll(j)

\* A step of a request that leads to its answer.
Proceed(c) == \/ LandingPosted(c) \/ JobsCreated(c) \/ JobsDeleted(c) \/ FindSession(c)
              \/ FindSessionJobs(c) \/ List(c) \/ SessionsDeleted(c) \/ Answer(c)
              \/ AwaitFound(c) \/ AwaitJob(c) \/ Awaited(c)

\* Requests that are open when the process ends are never answered, and a page that
\* asks while it is down does not ask again.
StopServing ==
    /\ UNCHANGED told
    /\ \/ /\ StopGracefully
          /\ \A c \in Askers : request[c] = Idle
          /\ UNCHANGED <<request, polling>>
       \/ /\ EndProcess
          /\ request' = [c \in Askers |-> Idle]
          /\ polling' \in SUBSET {j \in polling : request[j] = Idle}
       \/ StartAgain /\ UNCHANGED <<request, polling>>

ServeRequests == \/ Handler
                 \/ \E c \in Askers : Proceed(c)
                 \/ Background /\ UNCHANGED clientVars

RequestsNext == ServeRequests \/ StopServing

RequestsSpec == RequestsInit /\ [][RequestsNext]_requestsVars

RequestsFairness ==
    /\ \A j \in JobIds : /\ WF_requestsVars(JobStep(j) /\ UNCHANGED
                                            <<requestVars, purgeVars, clientVars>>)
                         /\ WF_requestsVars(Poll(j))
    /\ WF_requestsVars((WorkerStep \/ Get) /\ UNCHANGED <<requestVars, purgeVars, clientVars>>)
    /\ \A c \in Askers : WF_requestsVars(Proceed(c))
    /\ WF_requestsVars(Purge /\ UNCHANGED clientVars)
    /\ WF_requestsVars(Time /\ UNCHANGED clientVars)

ServeRequestsSpec == RequestsInit /\ [][ServeRequests]_requestsVars /\ RequestsFairness

-----------------------------------------------------------------------------
(* Properties.                                                             *)

\* No handler reads of a job less than answers have said of it by then, whichever
\* handlers gave them: a job never goes back, a finished one never changes, a deleted
\* one never comes back.  So an answer takes back no other that was given before it
\* was asked for; answers to requests that overlap may arrive in any order.
NothingTakenBack ==
    [][\A c \in Askers, j \in JobIds :
          LET seen == request'[c].seen[j]
          IN  seen \notin {"nothing", request[c].seen[j]}
                 => seen = told[j] \/ Rank[seen] > Rank[told[j]]]_requestsVars

\* await_session returns only when every job that it has listed was processed
\* ("Blocks until all jobs of the given session have been processed").
AwaitedAreFinished ==
    \A c \in Clients : request[c].at = "await_session" =>
        \A j \in request[c].listed \ request[c].left : jobs[j].status \in Finished \cup {"DELETED"}

\* Every request is answered, also if what it works on is deleted meanwhile.
RequestsEnd == \A c \in Clients : request[c] # Idle ~> request[c] = Idle

\* The page of a job stops asking, and not before somebody was told that the job was
\* processed, or the job is gone.
PollingEnds == \A j \in JobIds :
    j \in polling ~> j \notin polling /\ (told[j] \in Finished \cup {"DELETED"} \/ ~Present(j))
=============================================================================
