--------------------------- MODULE Requests_proofs ---------------------------
(***************************************************************************)
(* Proofs about what clients are told by the service of module Requests,   *)
(* for every set of clients, jobs and sessions: no handler reads less of a *)
(* job than answers have said, and await_session awaits all its jobs.      *)
(***************************************************************************)
EXTENDS Requests, Docleaner_proofs

-----------------------------------------------------------------------------
(* A step of the clients is a step of the service, or leaves it alone.     *)

RequestRecord == [at : Handlers \cup {"idle"},
                  job : JobIds \cup {NoJob},
                  sid : SessionIds \cup {NoSession},
                  listed : SUBSET JobIds,
                  left : SUBSET JobIds,
                  seen : [JobIds -> Told]]

\* A request that creates a job has chosen its token.
Chosen(r) == r.at \in {"landing_post", "jobs_create"} => r.job \in JobIds

ClientTypeOK == /\ request \in [Askers -> RequestRecord]
                /\ told \in [JobIds -> Told]
                /\ polling \in SUBSET JobIds
                /\ \A c \in Askers : Chosen(request[c])

LEMMA ServiceStep ==
  ASSUME DeleterTypeOK, [RequestsNext]_requestsVars
  PROVE  [DocNext]_allVars
<1>1. CASE UNCHANGED requestsVars
  BY <1>1 DEF requestsVars
<1>2. CASE Handler
  <2>1. ASSUME NEW c \in Clients, NEW j \in JobIds, NEW s \in SessionIds \cup {NoSession},
               LandingPost(c, j) \/ JobsCreate(c, j, s)
        PROVE  Request
    BY <2>1 DEF LandingPost, JobsCreate, Request
  <2>2. ASSUME NEW c \in Clients, NEW j \in JobIds, JobsDelete(c, j) PROVE Request
    BY <2>2 DEF JobsDelete, Request
  <2>3. ASSUME NEW c \in Clients, NEW s \in SessionIds,
               SessionsDelete(c, s) \/ SessionsCreate(c, s)
        PROVE  Request
    BY <2>3 DEF SessionsDelete, SessionsCreate, Request
  <2>4. ASSUME NEW c \in Clients, NEW s \in SessionIds,
               SessionsGet(c, s) \/ AwaitSession(c, s)
        PROVE  UNCHANGED allVars
    BY <2>4 DEF SessionsGet, AwaitSession
  <2>5. ASSUME NEW c, NEW j \in JobIds, JobsGet(c, j) \/ JobsGetResult(c, j) \/ Poll(j)
        PROVE  UNCHANGED allVars
    BY <2>5 DEF JobsGet, JobsGetResult, Poll
  <2> QED
    BY <1>2, <2>1, <2>2, <2>3, <2>4, <2>5 DEF Handler, DocNext, DocServe
<1>3. ASSUME NEW c \in Askers, Proceed(c) PROVE [DocNext]_allVars
  <2>1. CASE JobsDeleted(c)
    <3>1. request[c].job \in JobIds /\ RemoveJob(request[c].job)
      BY <2>1 DEF JobsDeleted, RemoveJob, DeleterTypeOK
    <3> QED
      BY <3>1 DEF Request, DocNext, DocServe
  <2>2. CASE SessionsDeleted(c)
    <3>1. request[c].sid \in SessionIds /\ RemoveSession(request[c].sid)
      BY <2>2 DEF SessionsDeleted, RemoveSession, DeleterTypeOK
    <3> QED
      BY <3>1 DEF Request, DocNext, DocServe
  <2>3. CASE \/ LandingPosted(c) \/ JobsCreated(c) \/ FindSession(c) \/ FindSessionJobs(c)
             \/ List(c) \/ Answer(c) \/ AwaitFound(c) \/ AwaitJob(c) \/ Awaited(c)
    BY <2>3 DEF LandingPosted, JobsCreated, FindSession, FindSessionJobs, List, Answer,
                AwaitFound, AwaitJob, AwaitUntil, Awaited
  <2> QED
    BY <1>3, <2>1, <2>2, <2>3 DEF Proceed
<1>4. CASE Background
  BY <1>4 DEF DocNext, DocServe
<1>5. CASE StopServing
  BY <1>5 DEF StopServing, DocNext, Stop
<1> QED
  BY <1>1, <1>2, <1>3, <1>4, <1>5 DEF RequestsNext, ServeRequests

-----------------------------------------------------------------------------
(* What a step does to the request of one asker, and to what was told.     *)

Statuses == JobStatus \cup {"DELETED"}

\* What the answer to c will say of job j is x: nothing, what it was before this
\* step, what the repository holds now, or that a job which was told of is gone.
Reads(c, j, x) == \/ x \in {"nothing", request[c].seen[j]}
                  \/ x \in Statuses /\ x = jobs'[j].status
                  \/ x = "DELETED" /\ ~Present(j) /\ Known(j) /\ UNCHANGED jobs

Becomes(c, r) ==
    /\ r \in RequestRecord
    /\ Chosen(r)
    /\ request' = [request EXCEPT ![c] = r]
    /\ ~Faults => \A j \in JobIds : Reads(c, j, r.seen[j])
    /\ r.at = "await_session" => \A j \in r.listed \ r.left :
           \/ jobs[j].status \in Finished
           \/ request[c].at = "await_session" /\ j \in request[c].listed \ request[c].left

Advances(c) == /\ \E r : Becomes(c, r)
               /\ UNCHANGED told \/ SaySeen(c)
               /\ polling' \in SUBSET JobIds

LEMMA IdleRecord ==
  /\ Idle \in RequestRecord
  /\ Idle.at = "idle" /\ Idle.listed = {} /\ Idle.left = {}
  /\ \A j \in JobIds : Idle.seen[j] = "nothing"
BY DEF Idle, RequestRecord, Nothing, Told

\* A request that starts reads at most one job, of which nothing was seen before.
First(at, j, x) == [Idle EXCEPT !.at = at, !.job = j, !.seen[j] = x]

LEMMA FirstRead ==
  ASSUME NEW at \in Handlers, NEW j \in JobIds, NEW x \in Told
  PROVE  /\ First(at, j, x) \in RequestRecord
         /\ First(at, j, x).at = at
         /\ First(at, j, x).job = j
         /\ First(at, j, x).seen[j] = x
         /\ \A k \in JobIds \ {j} : First(at, j, x).seen[k] = "nothing"
<1>1. First(at, j, x) \in RequestRecord
  BY IdleRecord DEF First, RequestRecord
<1>2. First(at, j, x).at = at /\ First(at, j, x).job = j
  BY IdleRecord DEF First, RequestRecord
<1>3. First(at, j, x).seen[j] = x
  BY IdleRecord DEF First, RequestRecord
<1>4. ASSUME NEW k \in JobIds \ {j} PROVE First(at, j, x).seen[k] = "nothing"
  <2>1. First(at, j, x).seen[k] = Idle.seen[k]
    BY IdleRecord DEF First, RequestRecord
  <2> QED
    BY <2>1, IdleRecord
<1> QED
  BY <1>1, <1>2, <1>3, <1>4

\* A request that goes on may have read one more job.
Further(r, at, j, x) == [r EXCEPT !.at = at, !.seen[j] = x]

LEMMA FurtherRead ==
  ASSUME NEW r \in RequestRecord, NEW at \in Handlers, NEW j \in JobIds, NEW x \in Told
  PROVE  /\ Further(r, at, j, x) \in RequestRecord
         /\ Further(r, at, j, x).at = at
         /\ Further(r, at, j, x).seen[j] = x
         /\ \A k \in JobIds \ {j} : Further(r, at, j, x).seen[k] = r.seen[k]
<1>1. Further(r, at, j, x) \in RequestRecord
  BY DEF Further, RequestRecord
<1>2. Further(r, at, j, x).at = at /\ Further(r, at, j, x).seen[j] = x
  BY DEF Further, RequestRecord
<1>3. ASSUME NEW k \in JobIds \ {j} PROVE Further(r, at, j, x).seen[k] = r.seen[k]
  BY DEF Further, RequestRecord
<1> QED
  BY <1>1, <1>2, <1>3

Onward(r, left, j, x) == [r EXCEPT !.left = left, !.seen[j] = x]

LEMMA OnwardRead ==
  ASSUME NEW r \in RequestRecord, NEW left \in SUBSET JobIds, NEW j \in JobIds, NEW x \in Told
  PROVE  /\ Onward(r, left, j, x) \in RequestRecord
         /\ Onward(r, left, j, x).at = r.at
         /\ Onward(r, left, j, x).seen[j] = x
         /\ \A k \in JobIds \ {j} : Onward(r, left, j, x).seen[k] = r.seen[k]
<1>1. Onward(r, left, j, x) \in RequestRecord
  BY DEF Onward, RequestRecord
<1>2. Onward(r, left, j, x).at = r.at /\ Onward(r, left, j, x).seen[j] = x
  BY DEF Onward, RequestRecord
<1>3. ASSUME NEW k \in JobIds \ {j} PROVE Onward(r, left, j, x).seen[k] = r.seen[k]
  BY DEF Onward, RequestRecord
<1> QED
  BY <1>1, <1>2, <1>3

LEMMA FoundRead ==
  ASSUME NEW c, NEW j \in JobIds, UNCHANGED jobs, Present(j) \/ Known(j)
  PROVE  Found(j) \in Told /\ Reads(c, j, Found(j))
BY DEF Found, Reads, Present, Told, Statuses

\* A request that has read nothing, or nothing new.
LEMMA NothingRead ==
  ASSUME NEW c, NEW r, \A j \in JobIds : r.seen[j] = "nothing" \/ r.seen[j] = request[c].seen[j]
  PROVE  \A j \in JobIds : Reads(c, j, r.seen[j])
BY DEF Reads

LEMMA EndStep ==
  ASSUME NEW c \in Askers, Done(c), UNCHANGED told \/ SaySeen(c), polling' \in SUBSET JobIds
  PROVE  Advances(c)
<1>1. Becomes(c, Idle)
  BY IdleRecord, NothingRead DEF Done, Becomes, Chosen
<1> QED
  BY <1>1 DEF Advances

\* A request that begins, or goes on, without having read anything of a job.
LEMMA QuietStep ==
  ASSUME NEW c \in Askers, NEW r \in RequestRecord, Chosen(r),
         r.at # "await_session",
         r.seen = Idle.seen \/ r.seen = request[c].seen,
         request' = [request EXCEPT ![c] = r], UNCHANGED <<told, polling>>,
         polling \in SUBSET JobIds
  PROVE  Advances(c)
<1>1. \A j \in JobIds : Reads(c, j, r.seen[j])
  BY IdleRecord, NothingRead
<1>2. Becomes(c, r)
  BY <1>1 DEF Becomes
<1> QED
  BY <1>2 DEF Advances

LEMMA HandlerStep ==
  ASSUME TypeOK, ClientTypeOK, Handler
  PROVE  \E c \in Askers : Advances(c)
<1>0. /\ Clients \subseteq Askers /\ JobIds \subseteq Askers
      /\ polling \in SUBSET JobIds
      /\ \A c, r : Ask(c, r) => /\ request' = [request EXCEPT ![c] = r]
                               /\ UNCHANGED <<told, polling>>
  BY DEF Askers, ClientTypeOK, Ask
<1>1. ASSUME NEW c \in Clients, NEW j \in JobIds, LandingPost(c, j) PROVE Advances(c)
  <2> DEFINE r == First("landing_post", j, "CREATED")
  <2>1. /\ r \in RequestRecord
        /\ r.at = "landing_post" /\ r.job = j
        /\ r.seen[j] = "CREATED"
        /\ \A k \in JobIds \ {j} : r.seen[k] = "nothing"
    <3>1. "landing_post" \in Handlers /\ "CREATED" \in Told
      BY DEF Handlers, Told, JobStatus, Unfinished
    <3> QED
      BY <3>1, FirstRead
  <2>2. ~Faults => jobs'[j].status = "CREATED"
    BY <1>1 DEF LandingPost, CreateJob, AddJob, Insert, Blank, TypeOK, RepoTypeOK
  <2>3. ASSUME ~Faults, NEW k \in JobIds PROVE Reads(c, k, r.seen[k])
    BY <2>1, <2>2, <2>3 DEF Reads, Statuses, JobStatus, Unfinished
  <2>4. request' = [request EXCEPT ![c] = r] /\ UNCHANGED <<told, polling>>
    BY <1>0, <1>1 DEF LandingPost, First
  <2> HIDE DEF r
  <2>5. Becomes(c, r)
    BY <2>1, <2>3, <2>4 DEF Becomes, Chosen
  <2> QED
    BY <1>0, <2>4, <2>5 DEF Advances
<1>2. ASSUME NEW c \in Clients, NEW j \in JobIds,
             (\E s \in SessionIds \cup {NoSession} : JobsCreate(c, j, s)) \/ JobsDelete(c, j)
      PROVE  Advances(c)
  <2>1. PICK at \in {"jobs_create", "jobs_delete"} : Ask(c, [Idle EXCEPT !.at = at, !.job = j])
    BY <1>2 DEF JobsCreate, JobsDelete
  <2> DEFINE r == [Idle EXCEPT !.at = at, !.job = j]
  <2>2. /\ r \in RequestRecord
        /\ r.at = at /\ r.job = j /\ r.seen = Idle.seen
    BY IdleRecord DEF RequestRecord, Handlers
  <2> HIDE DEF r
  <2>3. request' = [request EXCEPT ![c] = r] /\ UNCHANGED <<told, polling>>
    BY <1>0, <2>1 DEF r
  <2> QED
    BY <1>0, <2>2, <2>3, QuietStep DEF Chosen
<1>3. ASSUME NEW c \in Askers, NEW j \in JobIds, JobsGet(c, j) PROVE Advances(c)
  <2> DEFINE r == First("answer", j, Found(j))
  <2>1. Known(j) /\ UNCHANGED jobs
    BY <1>3 DEF JobsGet, allVars, vars, repoVars
  <2>2. Found(j) \in Told /\ Reads(c, j, Found(j))
    BY <2>1, FoundRead
  <2>3. /\ r \in RequestRecord
        /\ r.at = "answer"
        /\ r.seen[j] = Found(j)
        /\ \A k \in JobIds \ {j} : r.seen[k] = "nothing"
    <3>1. "answer" \in Handlers
      BY DEF Handlers
    <3> QED
      BY <2>2, <3>1, FirstRead
  <2>4. request' = [request EXCEPT ![c] = r] /\ UNCHANGED <<told, polling>>
    BY <1>0, <1>3 DEF JobsGet, First
  <2> HIDE DEF r
  <2>5. ASSUME NEW k \in JobIds PROVE Reads(c, k, r.seen[k])
    <3>1. CASE k = j
      BY <2>2, <2>3, <3>1
    <3>2. CASE k # j
      BY <2>3, <3>2 DEF Reads
    <3> QED
      BY <3>1, <3>2
  <2>6. Becomes(c, r)
    BY <2>3, <2>4, <2>5 DEF Becomes, Chosen
  <2> QED
    BY <1>0, <2>4, <2>6 DEF Advances
<1>4. ASSUME NEW c \in Clients, NEW s \in SessionIds,
             \/ SessionsCreate(c, s) \/ SessionsGet(c, s)
             \/ SessionsDelete(c, s) \/ AwaitSession(c, s)
      PROVE  Advances(c)
  <2>1. PICK at \in {"find_session", "find_jobs", "sessions_delete", "await_find_jobs"} :
              Ask(c, [Idle EXCEPT !.at = at, !.sid = s])
    BY <1>4 DEF SessionsCreate, SessionsGet, SessionsDelete, AwaitSession
  <2> DEFINE r == [Idle EXCEPT !.at = at, !.sid = s]
  <2>2. /\ r \in RequestRecord
        /\ r.at = at /\ r.seen = Idle.seen
    BY IdleRecord DEF RequestRecord, Handlers
  <2> HIDE DEF r
  <2>3. request' = [request EXCEPT ![c] = r] /\ UNCHANGED <<told, polling>>
    BY <1>0, <2>1 DEF r
  <2> QED
    BY <1>0, <2>2, <2>3, QuietStep DEF Chosen
<1>5. \A c, j : JobsGetResult(c, j) => JobsGet(c, j)
  BY DEF JobsGetResult
<1>6. \A j : Poll(j) => JobsGet(j, j)
  BY DEF Poll
<1> QED
  BY <1>0, <1>1, <1>2, <1>3, <1>4, <1>5, <1>6 DEF Handler

\* A request that goes on has read at most one more job.
LEMMA ReadStep ==
  ASSUME NEW c \in Askers, NEW r \in RequestRecord, NEW j \in JobIds,
         r.at = "answer",
         \A k \in JobIds \ {j} : r.seen[k] = request[c].seen[k],
         ~Faults => Reads(c, j, r.seen[j]),
         request' = [request EXCEPT ![c] = r], UNCHANGED <<told, polling>>,
         polling \in SUBSET JobIds
  PROVE  Advances(c)
<1>1. ASSUME ~Faults, NEW k \in JobIds PROVE Reads(c, k, r.seen[k])
  <2>1. CASE k = j
    BY <1>1, <2>1
  <2>2. CASE k # j
    BY <2>2 DEF Reads
  <2> QED
    BY <2>1, <2>2
<1>2. Becomes(c, r)
  BY <1>1 DEF Becomes, Chosen
<1> QED
  BY <1>2 DEF Advances

\* The two ways to do so: to have found one job, or the next of a list.
LEMMA FurtherStep ==
  ASSUME ClientTypeOK, NEW c \in Askers, NEW j \in JobIds, NEW x \in Told, Reads(c, j, x),
         Continue(c, Further(request[c], "answer", j, x))
  PROVE  Advances(c)
<1>1. request[c] \in RequestRecord /\ polling \in SUBSET JobIds /\ "answer" \in Handlers
  BY DEF ClientTypeOK, Handlers
<1> DEFINE q == Further(request[c], "answer", j, x)
<1>2. /\ q \in RequestRecord /\ q.at = "answer" /\ q.seen[j] = x
      /\ \A k \in JobIds \ {j} : q.seen[k] = request[c].seen[k]
  BY <1>1, FurtherRead
<1>3. request' = [request EXCEPT ![c] = q] /\ UNCHANGED <<told, polling>>
  BY DEF Continue
<1> HIDE DEF q
<1> QED
  BY <1>1, <1>2, <1>3, ReadStep

LEMMA OnwardStep ==
  ASSUME ClientTypeOK, NEW c \in Askers, request[c].at = "answer",
         NEW left \in SUBSET JobIds, NEW j \in JobIds, NEW x \in Told, Reads(c, j, x),
         Continue(c, Onward(request[c], left, j, x))
  PROVE  Advances(c)
<1>1. request[c] \in RequestRecord /\ polling \in SUBSET JobIds /\ "answer" \in Handlers
  BY DEF ClientTypeOK, Handlers
<1> DEFINE q == Onward(request[c], left, j, x)
<1>2. /\ q \in RequestRecord /\ q.at = "answer" /\ q.seen[j] = x
      /\ \A k \in JobIds \ {j} : q.seen[k] = request[c].seen[k]
  <2>1. ASSUME NEW r \in RequestRecord, r.at = "answer"
        PROVE  LET p == Onward(r, left, j, x)
               IN  /\ p \in RequestRecord /\ p.at = "answer" /\ p.seen[j] = x
                   /\ \A k \in JobIds \ {j} : p.seen[k] = r.seen[k]
    BY <2>1, OnwardRead
  <2> QED
    BY <1>1, <2>1
<1>3. request' = [request EXCEPT ![c] = q] /\ UNCHANGED <<told, polling>>
  BY DEF Continue
<1> HIDE DEF q
<1> QED
  BY <1>1, <1>2, <1>3, ReadStep

LEMMA ProceedStep ==
  ASSUME TypeOK, DeleterTypeOK, ClientTypeOK, NEW c \in Askers, Proceed(c)
  PROVE  Advances(c)
<1> DEFINE r == request[c]
           j == r.job
<1>0. /\ r \in RequestRecord
      /\ polling \in SUBSET JobIds
      /\ \A q : Continue(c, q) => /\ request' = [request EXCEPT ![c] = q]
                                /\ UNCHANGED <<told, polling>>
      /\ UNCHANGED allVars => UNCHANGED jobs
  BY DEF ClientTypeOK, Continue, allVars, vars, repoVars
<1>1. CASE LandingPosted(c)
  <2>1. j \in JobIds
    BY <1>1 DEF LandingPosted, ClientTypeOK, Chosen
  <2> QED
    BY <1>0, <1>1, <2>1, EndStep DEF LandingPosted, EndWithout
<1>2. CASE JobsCreated(c)
  <2>1. CASE EndWithout(c)
    BY <1>0, <2>1, EndStep DEF EndWithout
  <2>2. CASE Present(j) /\ Continue(c, [r EXCEPT !.at = "answer", !.seen[j] = Found(j)])
    <3>1. j \in JobIds /\ UNCHANGED jobs
      BY <1>0, <1>2 DEF JobsCreated, ClientTypeOK, Chosen
    <3>2. Found(j) \in Told /\ Reads(c, j, Found(j))
      BY <2>2, <3>1, FoundRead
    <3>3. Continue(c, Further(request[c], "answer", j, Found(j)))
      BY <2>2 DEF Further
    <3> QED
      BY <3>1, <3>2, <3>3, FurtherStep
  <2> QED
    BY <1>2, <2>1, <2>2 DEF JobsCreated
<1>3. CASE JobsDeleted(c)
  <2>1. CASE EndWithout(c)
    BY <1>0, <2>1, EndStep DEF EndWithout
  <2>2. CASE /\ jobs'[j].status = "DELETED"
             /\ Continue(c, [r EXCEPT !.at = "answer", !.seen[j] = "DELETED"])
    <3>1. j \in JobIds
      BY <1>3 DEF JobsDeleted, RemoveJob, DeleterTypeOK
    <3>2. "DELETED" \in Told /\ Reads(c, j, "DELETED")
      BY <2>2 DEF Told, Reads, Statuses
    <3>3. Continue(c, Further(request[c], "answer", j, "DELETED"))
      BY <2>2 DEF Further
    <3> QED
      BY <3>1, <3>2, <3>3, FurtherStep
  <2> QED
    BY <1>3, <2>1, <2>2 DEF JobsDeleted
<1>4. CASE FindSession(c) \/ FindSessionJobs(c)
  <2>1. CASE EndWithout(c)
    BY <1>0, <2>1, EndStep DEF EndWithout
  <2>2. CASE Continue(c, [r EXCEPT !.at = "find_jobs"])
    <3> DEFINE q == [r EXCEPT !.at = "find_jobs"]
    <3>1. q \in RequestRecord /\ q.at = "find_jobs" /\ q.seen = r.seen
      BY <1>0 DEF RequestRecord, Handlers
    <3>2. request' = [request EXCEPT ![c] = q] /\ UNCHANGED <<told, polling>>
      BY <1>0, <2>2
    <3> QED
      BY <1>0, <3>1, <3>2, QuietStep DEF Chosen
  <2>3. CASE Continue(c, [r EXCEPT !.at = "answer", !.left = SessionJobs(r.sid, JobStatus)])
    <3> DEFINE q == [r EXCEPT !.at = "answer", !.left = SessionJobs(r.sid, JobStatus)]
    <3>1. SessionJobs(r.sid, JobStatus) \in SUBSET JobIds
      BY DEF SessionJobs, FindJobs
    <3>2. q \in RequestRecord /\ q.at = "answer" /\ q.seen = r.seen
      BY <1>0, <3>1 DEF RequestRecord, Handlers
    <3>3. request' = [request EXCEPT ![c] = q] /\ UNCHANGED <<told, polling>>
      BY <1>0, <2>3
    <3> QED
      BY <1>0, <3>2, <3>3, QuietStep DEF Chosen
  <2> QED
    BY <1>4, <2>1, <2>2, <2>3 DEF FindSession, FindSessionJobs
<1>5. CASE List(c)
  <2>1. PICK k \in r.left :
              Continue(c, [r EXCEPT !.left = r.left \ {k},
                                    !.seen[k] = IF Present(k) THEN Found(k) ELSE r.seen[k]])
    BY <1>5 DEF List
  <2> DEFINE x == IF Present(k) THEN Found(k) ELSE r.seen[k]
  <2>2. k \in JobIds /\ r.left \ {k} \in SUBSET JobIds /\ r.at = "answer" /\ UNCHANGED jobs
    BY <1>0, <1>5 DEF List, RequestRecord
  <2>3. x \in Told /\ Reads(c, k, x)
    <3>1. CASE Present(k)
      BY <2>2, <3>1, FoundRead
    <3>2. CASE ~Present(k)
      BY <1>0, <2>2, <3>2 DEF Reads, RequestRecord
    <3> QED
      BY <3>1, <3>2
  <2>4. Continue(c, Onward(request[c], r.left \ {k}, k, x))
    BY <2>1 DEF Onward
  <2> HIDE DEF x
  <2> QED
    BY <2>2, <2>3, <2>4, OnwardStep
<1>6. CASE SessionsDeleted(c) \/ Awaited(c)
  BY <1>0, <1>6, EndStep DEF SessionsDeleted, Awaited, EndWithout
<1>7. CASE Answer(c)
  BY <1>0, <1>7, EndStep DEF Answer
<1>8. CASE AwaitFound(c)
  <2> DEFINE S == SessionJobs(r.sid, JobStatus)
             q == [r EXCEPT !.at = "await_session", !.listed = S, !.left = S]
  <2>1. S \in SUBSET JobIds
    BY DEF SessionJobs, FindJobs
  <2>2. /\ q \in RequestRecord
        /\ q.at = "await_session" /\ q.listed = S /\ q.left = S /\ q.seen = r.seen
    BY <1>0, <2>1 DEF RequestRecord, Handlers
  <2>3. request' = [request EXCEPT ![c] = q] /\ UNCHANGED <<told, polling>>
    BY <1>0, <1>8 DEF AwaitFound
  <2> HIDE DEF q
  <2>4. \A k \in JobIds : Reads(c, k, q.seen[k])
    BY <2>2, NothingRead
  <2>5. Becomes(c, q)
    BY <2>2, <2>3, <2>4 DEF Becomes, Chosen
  <2> QED
    BY <1>0, <2>3, <2>5 DEF Advances
<1>9. CASE AwaitJob(c)
  <2>1. CASE EndWithout(c)
    BY <1>0, <2>1, EndStep DEF EndWithout
  <2>2. CASE ~EndWithout(c)
    <3>1. PICK k \in r.left : /\ jobs[k].status \in Finished
                              /\ Continue(c, [r EXCEPT !.left = r.left \ {k}])
      BY <1>9, <2>2 DEF AwaitJob, AwaitUntil
    <3> DEFINE q == [r EXCEPT !.left = r.left \ {k}]
    <3>2. /\ q \in RequestRecord
          /\ q.at = r.at /\ q.listed = r.listed /\ q.left = r.left \ {k} /\ q.seen = r.seen
          /\ r.at = "await_session"
      BY <1>0, <1>9 DEF RequestRecord, AwaitJob, AwaitUntil
    <3>3. request' = [request EXCEPT ![c] = q] /\ UNCHANGED <<told, polling>>
      BY <1>0, <3>1
    <3> HIDE DEF q
    <3>4. \A l \in JobIds : Reads(c, l, q.seen[l])
      BY <3>2, NothingRead
    <3>5. Becomes(c, q)
      BY <3>1, <3>2, <3>3, <3>4 DEF Becomes, Chosen
    <3> QED
      BY <1>0, <3>3, <3>5 DEF Advances
  <2> QED
    BY <2>1, <2>2
<1> QED
  BY <1>1, <1>2, <1>3, <1>4, <1>5, <1>6, <1>7, <1>8, <1>9 DEF Proceed

LEMMA ClientStep ==
  ASSUME TypeOK, DeleterTypeOK, ClientTypeOK, [RequestsNext]_requestsVars
  PROVE  \/ \E c \in Askers : Advances(c)
         \/ UNCHANGED clientVars
         \/ /\ UNCHANGED told
            /\ request' = [c \in Askers |-> Idle]
            /\ polling' \in SUBSET JobIds
<1>1. CASE StopServing
  BY <1>1 DEF StopServing, clientVars, ClientTypeOK
<1> QED
  BY <1>1, HandlerStep, ProceedStep DEF RequestsNext, ServeRequests, requestsVars, clientVars

LEMMA ClientTypeStep ==
  ASSUME TypeOK, DeleterTypeOK, ClientTypeOK, [RequestsNext]_requestsVars
  PROVE  ClientTypeOK'
<1>1. ASSUME NEW c \in Askers, Advances(c) PROVE ClientTypeOK'
  <2>1. PICK r \in RequestRecord : Chosen(r) /\ request' = [request EXCEPT ![c] = r]
    BY <1>1 DEF Advances, Becomes
  <2>2. request' \in [Askers -> RequestRecord] /\ \A d \in Askers : Chosen(request'[d])
    BY <2>1 DEF ClientTypeOK
  <2>3. told' \in [JobIds -> Told]
    <3>1. request[c].seen \in [JobIds -> Told]
      BY DEF ClientTypeOK, RequestRecord
    <3> QED
      BY <1>1, <3>1 DEF Advances, SaySeen, ClientTypeOK
  <2> QED
    BY <1>1, <2>2, <2>3 DEF Advances, ClientTypeOK, Chosen
<1>2. CASE UNCHANGED clientVars
  BY <1>2 DEF clientVars, ClientTypeOK, Chosen
<1>3. CASE /\ UNCHANGED told
           /\ request' = [c \in Askers |-> Idle]
           /\ polling' \in SUBSET JobIds
  BY <1>3, IdleRecord DEF ClientTypeOK, Chosen
<1> QED
  BY <1>1, <1>2, <1>3, ClientStep

RequestsInv == DocInv /\ ClientTypeOK

LEMMA RequestsInvStep ==
  RequestsInv /\ [RequestsNext]_requestsVars => RequestsInv' /\ [DocNext]_allVars
<1> SUFFICES ASSUME RequestsInv, [RequestsNext]_requestsVars
             PROVE  RequestsInv' /\ [DocNext]_allVars
  OBVIOUS
<1>1. TypeOK /\ DeleterTypeOK /\ ClientTypeOK
  BY DEF RequestsInv, DocInv
<1>2. [DocNext]_allVars
  BY <1>1, ServiceStep
<1>3. DocInv'
  BY <1>2, DocInvStep DEF RequestsInv
<1>4. ClientTypeOK'
  BY <1>1, ClientTypeStep
<1> QED
  BY <1>2, <1>3, <1>4 DEF RequestsInv

LEMMA RequestsInvInit == RequestsInit => RequestsInv
<1>1. RequestsInit => DocInv
  BY DocInvInit DEF RequestsInit
<1>2. RequestsInit => ClientTypeOK
  BY IdleRecord DEF RequestsInit, ClientTypeOK, Chosen, Nothing, Told
<1> QED
  BY <1>1, <1>2 DEF RequestsInv

LEMMA RequestsInvHolds == RequestsSpec => []RequestsInv
BY RequestsInvInit, RequestsInvStep, PTL DEF RequestsSpec

(***************************************************************************)
(* Every reachable state of the service and its clients is typed.          *)
(***************************************************************************)
THEOREM RequestsTypeCorrect == RequestsSpec => []RequestsTypeOK
<1>1. RequestsInv => RequestsTypeOK
  BY DEF RequestsInv, ClientTypeOK, RequestRecord, DocInv, DeleterTypeOK, DocTypeOK,
         RequestsTypeOK
<1> QED
  BY <1>1, RequestsInvHolds, PTL

(***************************************************************************)
(* The handlers implement the service of module Docleaner: whatever is     *)
(* proved of DocSpec holds of the service with its clients, too.           *)
(***************************************************************************)
THEOREM HandlersImplementService == RequestsSpec => DocSpec
<1>1. RequestsInit => DocInit
  BY DEF RequestsInit
<1> QED
  BY <1>1, RequestsInvHolds, RequestsInvStep, PTL DEF RequestsSpec, DocSpec

-----------------------------------------------------------------------------
(* A job evolves in one direction.                                         *)

Later(a, b) == a = b \/ Rank[b] > Rank[a]

LEMMA RankValues ==
  /\ Rank["nothing"] = 0 /\ Rank["CREATED"] = 1 /\ Rank["QUEUED"] = 2
  /\ Rank["RUNNING"] = 3 /\ Rank["SUCCESS"] = 4 /\ Rank["ERROR"] = 4
  /\ Rank["DELETED"] = 5
BY DEF Rank, Told, JobStatus, Unfinished, Finished

LEMMA LaterOrder ==
  /\ \A a \in Statuses : /\ Later("CREATED", a)
                         /\ Later(a, "DELETED")
                         /\ Later("DELETED", a) => a = "DELETED"
                         /\ Rank[a] > Rank["nothing"]
  /\ \A a, b, c \in Statuses : Later(a, b) /\ Later(b, c) => Later(a, c)
<1>1. \A a \in Statuses : Rank[a] \in 1..5
  BY RankValues DEF Statuses, JobStatus, Unfinished, Finished
<1>2. \A a \in Statuses : Later("CREATED", a) /\ Later(a, "DELETED")
  BY RankValues DEF Later, Statuses, JobStatus, Unfinished, Finished
<1>3. \A a \in Statuses : Later("DELETED", a) => a = "DELETED"
  BY <1>1, RankValues DEF Later
<1>4. \A a, b, c \in Statuses : Later(a, b) /\ Later(b, c) => Later(a, c)
  BY <1>1 DEF Later
<1> QED
  BY <1>1, <1>2, <1>3, <1>4, RankValues

LEMMA JobEvolves ==
  ASSUME ~Faults, DocInv, ExceptInv, [DocNext]_allVars,
         NEW j \in JobIds, jobs[j].status # "NEW"
  PROVE  /\ jobs[j].status \in Statuses
         /\ jobs'[j].status \in Statuses
         /\ Later(jobs[j].status, jobs'[j].status)
<1>0. /\ TypeOK /\ DeleterTypeOK
      /\ jobs \in [JobIds -> Job]
      /\ jobs[j].status \in Statuses
      /\ [QueueStep]_vars \/ BesideQueue
  BY DeleterStep DEF DocInv, TypeOK, RepoTypeOK, Job, Statuses
<1>1. jobs'[j].status \in Statuses /\ Later(jobs[j].status, jobs'[j].status)
  <2>1. CASE [QueueStep]_vars
    <3>1. Progress
      BY <2>1, ProgressStep DEF DocInv
    <3> QED
      BY <1>0, <3>1, RankValues DEF Progress, Moves, SameOutcome, Later, Statuses, JobStatus,
                                    Unfinished, Finished
  <2>2. CASE BesideQueue
    <3>1. SameOutcome(j) \/ jobs'[j] = Blank("DELETED")
      BY <2>2, BesideQueueEffect DEF DocInv, TypeOK
    <3>2. jobs'[j].status = jobs[j].status \/ jobs'[j].status = "DELETED"
      BY <3>1 DEF SameOutcome, Blank
    <3> QED
      BY <1>0, <3>2, LaterOrder DEF Later, Statuses
  <2> QED
    BY <1>0, <2>1, <2>2
<1> QED
  BY <1>0, <1>1

-----------------------------------------------------------------------------
(* What was told, and what handlers have read, is never ahead of the       *)
(* repository; and what await_session has ticked off is processed.         *)

Behind(x, status) == x # "nothing" => status # "NEW" /\ Later(x, status)

TickedOff(c) == request[c].at = "await_session" =>
    \A j \in request[c].listed \ request[c].left : jobs[j].status \in Finished \cup {"DELETED"}

AnswerInv == /\ \A j \in JobIds : Behind(told[j], jobs[j].status)
             /\ \A c \in Askers, j \in JobIds : Behind(request[c].seen[j], jobs[j].status)
             /\ \A c \in Askers : TickedOff(c)

\* What is read is what the repository holds now.
LEMMA ReadNow ==
  ASSUME TypeOK, AnswerInv, NEW c, NEW j \in JobIds, NEW x, Reads(c, j, x)
  PROVE  \/ x \in {"nothing", request[c].seen[j]}
         \/ x \in Statuses /\ x = jobs'[j].status
<1>1. CASE x = "DELETED" /\ ~Present(j) /\ Known(j) /\ UNCHANGED jobs
  <2>1. jobs[j].status # "NEW" /\ jobs[j].status \in JobStatus \cup {"NEW", "DELETED"}
    BY <1>1 DEF AnswerInv, Behind, Known, TypeOK, RepoTypeOK, Job
  <2> QED
    BY <1>1, <2>1 DEF Present, Statuses
<1> QED
  BY <1>1 DEF Reads

LEMMA StayBehind ==
  ASSUME ~Faults, RequestsInv, ExceptInv, [DocNext]_allVars,
         NEW j \in JobIds, NEW x \in Told, Behind(x, jobs[j].status)
  PROVE  Behind(x, jobs'[j].status)
<1> SUFFICES ASSUME x # "nothing"
             PROVE  jobs'[j].status # "NEW" /\ Later(x, jobs'[j].status)
  BY DEF Behind
<1>1. x \in Statuses /\ jobs[j].status # "NEW" /\ Later(x, jobs[j].status)
  BY DEF Behind, Told, Statuses
<1>2. /\ jobs[j].status \in Statuses
      /\ jobs'[j].status \in Statuses
      /\ Later(jobs[j].status, jobs'[j].status)
  BY <1>1, JobEvolves DEF RequestsInv
<1>3. Later(x, jobs'[j].status)
  BY <1>1, <1>2, LaterOrder
<1> QED
  BY <1>2, <1>3 DEF Statuses, JobStatus, Unfinished, Finished

LEMMA StayProcessed ==
  ASSUME ~Faults, RequestsInv, ExceptInv, [DocNext]_allVars,
         NEW j \in JobIds, jobs[j].status \in Finished \cup {"DELETED"}
  PROVE  jobs'[j].status \in Finished \cup {"DELETED"}
<1>1. jobs[j].status # "NEW"
  BY DEF Finished
<1>2. /\ jobs'[j].status \in Statuses
      /\ Later(jobs[j].status, jobs'[j].status)
  BY <1>1, JobEvolves DEF RequestsInv
<1> QED
  BY <1>2, RankValues DEF Later, Statuses, JobStatus, Unfinished, Finished

LEMMA AnswerInvStep ==
  ASSUME ~Faults
  PROVE  RequestsInv /\ ExceptInv /\ AnswerInv /\ [RequestsNext]_requestsVars => AnswerInv'
<1> SUFFICES ASSUME RequestsInv, ExceptInv, AnswerInv, [RequestsNext]_requestsVars
             PROVE  AnswerInv'
  OBVIOUS
<1>0. /\ TypeOK /\ DeleterTypeOK /\ ClientTypeOK
      /\ [DocNext]_allVars
      /\ told \in [JobIds -> Told]
      /\ request \in [Askers -> RequestRecord]
      /\ \A c \in Askers, j \in JobIds : request[c].seen[j] \in Told
  BY RequestsInvStep DEF RequestsInv, DocInv, ClientTypeOK, RequestRecord
\* What was behind stays behind, and so does what is read now.
<1>1. ASSUME NEW j \in JobIds PROVE Behind(told[j], jobs'[j].status)
  BY <1>0, StayBehind DEF AnswerInv
<1>2. ASSUME NEW c \in Askers, NEW j \in JobIds
      PROVE  Behind(request[c].seen[j], jobs'[j].status)
  BY <1>0, StayBehind DEF AnswerInv
<1>3. ASSUME NEW j \in JobIds PROVE Behind("nothing", jobs'[j].status)
  BY DEF Behind
<1>4. ASSUME NEW j \in JobIds, jobs'[j].status \in Statuses
      PROVE  Behind(jobs'[j].status, jobs'[j].status)
  BY <1>4 DEF Behind, Later, Statuses, JobStatus, Unfinished, Finished
<1>5. ASSUME NEW c \in Askers, request'[c] = request[c]
      PROVE  /\ \A j \in JobIds : Behind(request'[c].seen[j], jobs'[j].status)
             /\ TickedOff(c)'
  <2>1. TickedOff(c)
    BY DEF AnswerInv
  <2>2. \A j \in request[c].listed : j \in JobIds
    BY <1>0 DEF RequestRecord
  <2>3. TickedOff(c)'
    BY <1>0, <1>5, <2>1, <2>2, StayProcessed DEF TickedOff
  <2> QED
    BY <1>2, <1>5, <2>3
<1>6. ASSUME NEW c \in Askers, Advances(c) PROVE AnswerInv'
  <2>1. PICK r : Becomes(c, r)
    BY <1>6 DEF Advances
  <2>2. /\ r \in RequestRecord
        /\ request'[c] = r
        /\ \A d \in Askers : d # c => request'[d] = request[d]
    BY <1>0, <2>1 DEF Becomes
  <2>3. ASSUME NEW j \in JobIds PROVE Behind(request'[c].seen[j], jobs'[j].status)
    <3>1. Reads(c, j, r.seen[j])
      BY <2>1 DEF Becomes
    <3>2. \/ r.seen[j] \in {"nothing", request[c].seen[j]}
          \/ r.seen[j] \in Statuses /\ r.seen[j] = jobs'[j].status
      BY <1>0, <3>1, ReadNow
    <3> QED
      BY <1>2, <1>3, <1>4, <2>2, <3>2
  <2>4. TickedOff(c)'
    <3> SUFFICES ASSUME request'[c].at = "await_session",
                        NEW j \in request'[c].listed \ request'[c].left
                 PROVE  jobs'[j].status \in Finished \cup {"DELETED"}
      BY DEF TickedOff
    <3>1. j \in JobIds
      BY <2>2 DEF RequestRecord
    <3>2. \/ jobs[j].status \in Finished
          \/ request[c].at = "await_session" /\ j \in request[c].listed \ request[c].left
      BY <2>1, <2>2 DEF Becomes
    <3>3. jobs[j].status \in Finished \cup {"DELETED"}
      BY <3>2 DEF AnswerInv, TickedOff
    <3> QED
      BY <1>0, <3>1, <3>3, StayProcessed
  <2>5. ASSUME NEW j \in JobIds PROVE Behind(told'[j], jobs'[j].status)
    <3>1. told'[j] \in {told[j], request[c].seen[j]}
      BY <1>6 DEF Advances, SaySeen
    <3> QED
      BY <1>1, <1>2, <3>1
  <2> QED
    BY <1>5, <2>2, <2>3, <2>4, <2>5 DEF AnswerInv
<1>7. CASE UNCHANGED clientVars
  BY <1>1, <1>5, <1>7 DEF AnswerInv, clientVars
<1>8. CASE UNCHANGED told /\ request' = [c \in Askers |-> Idle]
  <2>1. \A c \in Askers : request'[c] = Idle
    BY <1>8
  <2> QED
    BY <1>1, <1>3, <1>8, <2>1, IdleRecord DEF AnswerInv, TickedOff
<1> QED
  BY <1>0, <1>6, <1>7, <1>8, ClientStep

LEMMA AnswerInvHolds ==
  ASSUME ~Faults
  PROVE  RequestsSpec => [](RequestsInv /\ ExceptInv /\ AnswerInv)
<1>1. RequestsInit => ExceptInv /\ AnswerInv
  <2>1. RequestsInit => ExceptInv
    BY ExceptInvInit DEF RequestsInit, DocInit
  <2>2. RequestsInit => AnswerInv
    BY IdleRecord DEF RequestsInit, Nothing, AnswerInv, Behind, TickedOff
  <2> QED
    BY <2>1, <2>2
<1>2. RequestsInv /\ ExceptInv /\ [RequestsNext]_requestsVars => ExceptInv'
  BY RequestsInvStep, ExceptInvDocStep DEF RequestsInv
<1> QED
  BY <1>1, <1>2, RequestsInvHolds, AnswerInvStep, PTL DEF RequestsSpec

(***************************************************************************)
(* With a repository that does not fail, no handler reads less of a job    *)
(* than any answer has said of it, although handlers read in one step and  *)
(* answer in another, lists are read job by job, and purger, operator,     *)
(* crashes and other clients interfere.                                    *)
(***************************************************************************)
THEOREM NothingTakenBackHolds ==
  ASSUME ~Faults
  PROVE  RequestsSpec => NothingTakenBack
<1>1. ASSUME RequestsInv, ExceptInv, AnswerInv, [RequestsNext]_requestsVars,
             NEW c \in Askers, NEW j \in JobIds,
             request'[c].seen[j] \notin {"nothing", request[c].seen[j]}
      PROVE  request'[c].seen[j] = told[j] \/ Rank[request'[c].seen[j]] > Rank[told[j]]
  <2>0. /\ TypeOK /\ DeleterTypeOK /\ ClientTypeOK
        /\ [DocNext]_allVars
        /\ told[j] \in Told
        /\ request \in [Askers -> RequestRecord]
    BY <1>1, RequestsInvStep DEF RequestsInv, DocInv, ClientTypeOK
  <2>1. Advances(c)
    <3>1. request'[c] # request[c] /\ request'[c] # Idle
      BY <1>1, IdleRecord
    <3>2. \A d \in Askers \ {c} : ~Advances(d)
      BY <2>0, <3>1 DEF Advances, Becomes
    <3>3. ~UNCHANGED clientVars /\ request' # [d \in Askers |-> Idle]
      BY <3>1 DEF clientVars
    <3>4. \E d \in Askers : Advances(d)
      BY <1>1, <2>0, <3>3, ClientStep
    <3> QED
      BY <3>2, <3>4
  <2>2. PICK r : Becomes(c, r)
    BY <2>1 DEF Advances
  <2>3. request'[c] = r /\ Reads(c, j, r.seen[j])
    BY <2>0, <2>2 DEF Becomes
  <2>4. request'[c].seen[j] \in Statuses /\ request'[c].seen[j] = jobs'[j].status
    BY <1>1, <2>0, <2>3, ReadNow
  <2>5. Behind(told[j], jobs'[j].status)
    BY <1>1, <2>0, StayBehind DEF AnswerInv
  <2> QED
    BY <2>0, <2>4, <2>5, LaterOrder DEF Behind, Later
<1>2. ASSUME RequestsInv, ExceptInv, AnswerInv, [RequestsNext]_requestsVars
      PROVE  [\A c \in Askers, j \in JobIds :
                LET seen == request'[c].seen[j]
                IN  seen \notin {"nothing", request[c].seen[j]}
                       => seen = told[j] \/ Rank[seen] > Rank[told[j]]]_requestsVars
  BY <1>1, <1>2
<1> QED
  BY <1>2, AnswerInvHolds, PTL DEF RequestsSpec, NothingTakenBack

(***************************************************************************)
(* With a repository that does not fail, every job that await_session has  *)
(* ticked off is processed and remains so until it is deleted.             *)
(***************************************************************************)
THEOREM AwaitedAreFinishedHolds ==
  ASSUME ~Faults
  PROVE  RequestsSpec => []AwaitedAreFinished
<1>1. AnswerInv => AwaitedAreFinished
  BY DEF AnswerInv, TickedOff, AwaitedAreFinished, Askers
<1> QED
  BY <1>1, AnswerInvHolds, PTL
=============================================================================
