----------------------------- MODULE Repository -----------------------------
(***************************************************************************)
(* The state every other part of docleaner shares, and the operations of   *)
(* the Repository interface on it (services/repository.py), as the         *)
(* in-memory adapter performs them: one step per method.  The callers are  *)
(* coroutines that may be suspended at every await of a method, so the     *)
(* modules that use these operators give each call a step of its own.      *)
(* With MongoDB a method is several calls; one that fails may have made    *)
(* some of them (the operators ...InPart).                                 *)
(*                                                                         *)
(* Documents, names, job types, metadata and logs are abstracted.  A job   *)
(* keeps its status, its session, the time since its last update, and      *)
(* whether the file that its container produced, perhaps an empty one, is  *)
(* stored.  Timestamps are ages (clock.now() - updated), which saturate at *)
(* MaxAge.                                                                 *)
(***************************************************************************)
EXTENDS Integers, FiniteSets

CONSTANTS
    JobIds,      \* the tokens generate_token() may return for a job
    SessionIds,  \* the tokens it may return for a session
    NoSession,   \* session_id = None
    MaxAge       \* ages are not told apart beyond this bound

ASSUME RepositoryAssumption ==
    /\ NoSession \notin SessionIds
    /\ MaxAge \in Nat \ {0}

VARIABLES
    jobs,      \* token -> job; "NEW" is a token not generated yet
    sessions   \* token -> session

repoVars == <<jobs, sessions>>

Unfinished == {"CREATED", "QUEUED", "RUNNING"}
Finished == {"SUCCESS", "ERROR"}
JobStatus == Unfinished \cup Finished
Ages == 0..MaxAge

Job == [status : JobStatus \cup {"NEW", "DELETED"},
        sid    : SessionIds \cup {NoSession},
        age    : Ages,
        result : BOOLEAN]

Session == [state : {"NEW", "OPEN", "DELETED"}, age : Ages]

Blank(status) == [status |-> status, sid |-> NoSession, age |-> 0, result |-> FALSE]

RepoInit == /\ jobs = [j \in JobIds |-> Blank("NEW")]
            /\ sessions = [s \in SessionIds |-> [state |-> "NEW", age |-> 0]]

RepoTypeOK == /\ jobs \in [JobIds -> Job]
              /\ sessions \in [SessionIds -> Session]

-----------------------------------------------------------------------------
(* Reading.  find_job returns None and the other methods raise ValueError  *)
(* for a job that is not Present; find_session and the methods that take a *)
(* session do so for one that is not Open.                                 *)

Present(j) == jobs[j].status \in JobStatus

Open(s) == sessions[s].state = "OPEN"

FindJobs(statuses) == {j \in JobIds : jobs[j].status \in statuses}

SessionJobs(s, statuses) == {j \in FindJobs(statuses) : jobs[j].sid = s}

FindSessions(notUpdatedFor) ==
    {s \in SessionIds : Open(s) /\ sessions[s].age >= notUpdatedFor}

(* Writing.  Every update of a job also updates the session it belongs to. *)

Touched(s) == [x \in SessionIds |->
                 IF x = s THEN [sessions[x] EXCEPT !.age = 0] ELSE sessions[x]]

\* Two writes: one of a job, one of its session s.  The second may be missing.
InPart(s) == sessions' \in {Touched(s), sessions}

Insert(j, s) ==
    /\ jobs[j].status = "NEW"
    /\ s # NoSession => Open(s)
    /\ jobs' = [jobs EXCEPT ![j] = [Blank("CREATED") EXCEPT !.sid = s]]

AddJob(j, s) == Insert(j, s) /\ sessions' = Touched(s)

AddJobInPart(j, s) == Insert(j, s) /\ InPart(s)

Store(j, status, result) ==
    /\ Present(j)
    /\ jobs' = [jobs EXCEPT ![j] = [@ EXCEPT !.status = status, !.age = 0,
                                             !.result = result]]

\* "result" is what the caller stores, or the stored one where it passes None.
UpdateJob(j, status, result) == /\ Store(j, status, result)
                                /\ sessions' = Touched(jobs[j].sid)

UpdateJobInPart(j, status, result) == Store(j, status, result) /\ InPart(jobs[j].sid)

\* What is in the log of a job matters to its readers only.
AddToJobLog(j) == Present(j) /\ UNCHANGED repoVars

DeleteJob(j) ==
    /\ Present(j)
    /\ jobs' = [jobs EXCEPT ![j] = Blank("DELETED")]
    /\ sessions' = Touched(jobs[j].sid)

\* The session comes first here.
DeleteJobInPart(j) == Present(j) /\ sessions' = Touched(jobs[j].sid) /\ UNCHANGED jobs

AddSession(s) ==
    /\ sessions[s].state = "NEW"
    /\ sessions' = [sessions EXCEPT ![s] = [state |-> "OPEN", age |-> 0]]
    /\ UNCHANGED jobs

DeleteSessionNotJobs(s) ==   \* mutant: the jobs of the session stay
    Open(s) /\ sessions' = [sessions EXCEPT ![s].state = "DELETED"] /\ UNCHANGED jobs

DeleteSession(s) ==
    /\ Open(s)
    /\ jobs' = [j \in JobIds |-> IF jobs[j].sid = s THEN Blank("DELETED")
                                                    ELSE jobs[j]]
    /\ sessions' = [sessions EXCEPT ![s] = [state |-> "DELETED", age |-> 0]]

\* Some jobs are deleted; neither the others nor the session are.
DeleteSessionInPart(s) ==
    /\ Open(s)
    /\ \E some \in SUBSET SessionJobs(s, JobStatus) \ {{}} :
          jobs' = [j \in JobIds |-> IF j \in some THEN Blank("DELETED") ELSE jobs[j]]
    /\ UNCHANGED sessions

(* The clock.  What is not in the repository does not age.                 *)
Older(x) == IF x.age < MaxAge THEN [x EXCEPT !.age = @ + 1] ELSE x

Tick ==
    /\ jobs' = [j \in JobIds |-> IF Present(j) THEN Older(jobs[j]) ELSE jobs[j]]
    /\ sessions' = [s \in SessionIds |->
                      IF Open(s) THEN Older(sessions[s]) ELSE sessions[s]]
=============================================================================
