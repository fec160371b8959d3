--------------------------- MODULE MongoRepository --------------------------
(***************************************************************************)
(* The repository in MongoDB (adapters/repository/mongodb_repository.py).  *)
(* A method is a sequence of database calls, each of them atomic; between  *)
(* them the methods that other coroutines, or docleaner-ctl, run take      *)
(* steps.  Documents are files in GridFS, apart from the jobs they belong  *)
(* to.  Module Repository treats every method as one step; this module     *)
(* shows what is left of that.                                             *)
(*                                                                         *)
(* A method may also end between two of its calls, because the process     *)
(* crashes or the next call fails.                                         *)
(*                                                                         *)
(* The callers are those of services/ and docleaner-ctl: one coroutine at  *)
(* a time adds or updates a job; it stores a result once, and may report   *)
(* an error even after that (the except block of process_job_in_sandbox);  *)
(* anybody may delete any job, also one that is being updated.             *)
(***************************************************************************)
EXTENDS Naturals, FiniteSets

CONSTANTS
    Clients,     \* coroutines that use the repository
    JobIds, SessionIds, NoJob, NoSession,
    MaxFaults    \* bound of the faults

ASSUME MongoAssumption == /\ IsFiniteSet(Clients)
                          /\ IsFiniteSet(JobIds)
                          /\ NoJob \notin JobIds
                          /\ NoSession \notin SessionIds
                          /\ MaxFaults \in Nat

VARIABLES
    jobs,      \* collection jobs
    sessions,  \* collection sessions
    files,     \* GridFS: <<j, "src">> and <<j, "result">>
    doomed,    \* files whose deletion was requested and not awaited
    total,     \* total_count in collection stats
    client,    \* the method that a client executes, and its next call
    condemned, \* history: jobs whose files somebody began to delete
    hasty,     \* history: those that were not finished yet then
    faults     \* history: the number of faults

db == <<jobs, sessions, files, doomed, total>>
deleted == <<condemned, hasty>>
history == <<deleted, faults>>
vars == <<db, client, history>>

Steps == {"upload", "insert", "touch_added", "count",   \* add_job
          "upload_result", "set", "touch_updated",      \* update_job
          "touch_deleted", "delete_one",                \* delete_job
          "list", "delete_many", "delete_session",      \* delete_session
          "read"}                                       \* find_job
Ends == {"idle", "no_file"}
Reading == {"read", "touch_deleted", "delete_one"}   \* methods that store nothing

\* An update stores a status of an unfinished job, "error" without a result, or a
\* final status with a result.
Updates == {"status", "error", "result"}

\* what: what an update stores; whether the job had a result when it was read, in
\* find_job and delete_job.  listed: the jobs that the cursor has returned.
Method == [step : Steps \cup Ends, job : JobIds \cup {NoJob},
           sid : SessionIds \cup {NoSession}, what : Updates, listed : SUBSET JobIds]

Idle == [step |-> "idle", job |-> NoJob, sid |-> NoSession, what |-> "status",
         listed |-> {}]

TypeOK ==
    /\ jobs \in [JobIds -> [state : {"none", "stored", "deleted"},
                            sid : SessionIds \cup {NoSession}, finished : BOOLEAN, result : BOOLEAN]]
    /\ sessions \in [SessionIds -> {"none", "stored", "deleted"}]
    /\ files \in SUBSET (JobIds \X {"src", "result"})
    /\ doomed \subseteq files
    /\ total \in Nat
    /\ client \in [Clients -> Method]
    /\ condemned \in SUBSET JobIds
    /\ hasty \in SUBSET condemned
    /\ faults \in 0..MaxFaults

Document(state, s) == [state |-> state, sid |-> s, finished |-> FALSE, result |-> FALSE]

Init ==
    /\ jobs = [j \in JobIds |-> Document("none", NoSession)]
    /\ sessions = [s \in SessionIds |-> "none"]
    /\ files = {}
    /\ doomed = {}
    /\ total = 0
    /\ client = [c \in Clients |-> Idle]
    /\ condemned = {}
    /\ hasty = {}
    /\ faults = 0

Stored(j) == jobs[j].state = "stored"
Open(s) == sessions[s] = "stored"

Begin(c, step, j, s, what) ==
    /\ client[c].step \in Ends
    /\ client' = [client EXCEPT ![c] = [step |-> step, job |-> j, sid |-> s,
                                        what |-> what, listed |-> {}]]
    /\ UNCHANGED faults

\* client c makes the database call "this"; its method goes on with "next".
Call(c, this, next) ==
    /\ client[c].step = this
    /\ client' = [client EXCEPT ![c] = IF next \in Ends THEN [Idle EXCEPT !.step = next]
                                                       ELSE [@ EXCEPT !.step = next]]
    /\ UNCHANGED faults

\* sessions.update_one sets the timestamp of a session that there still is.
Touch(c, this, next) == Call(c, this, next) /\ UNCHANGED <<db, deleted>>

Or(sid, touch, else) == IF sid = NoSession THEN else ELSE touch

-----------------------------------------------------------------------------
(* add_job                                                                 *)

BeginAdd(c, j, s) ==
    /\ jobs[j].state = "none"
    /\ \A d \in Clients : client[d].job # j   \* generate_token() returns a new token
    /\ s # NoSession => Open(s)
    /\ Begin(c, "upload", j, s, "status")
    /\ UNCHANGED <<db, deleted>>

UploadUnawaited(c) ==   \* mutant: the upload is not awaited, and fails
    Call(c, "upload", "insert") /\ UNCHANGED <<db, deleted>>

Upload(c) ==
    /\ Call(c, "upload", "insert")
    /\ files' = files \cup {<<client[c].job, "src">>}
    /\ UNCHANGED <<jobs, sessions, doomed, total, deleted>>

Insert(c) ==
    LET m == client[c]
    IN  /\ Call(c, "insert", Or(m.sid, "touch_added", "count"))
        /\ jobs' = [jobs EXCEPT ![m.job] = Document("stored", m.sid)]
        /\ UNCHANGED <<sessions, files, doomed, total, deleted>>

TouchAdded(c) == Touch(c, "touch_added", "count")

CountNothing(c) ==   \* mutant: the total is not incremented
    Call(c, "count", "idle") /\ UNCHANGED <<db, deleted>>

Count(c) ==
    /\ Call(c, "count", "idle")
    /\ total' = total + 1
    /\ UNCHANGED <<jobs, sessions, files, doomed, deleted>>

-----------------------------------------------------------------------------
(* update_job: find_one, then the upload of a result, then the update.     *)

\* Nobody else adds or updates the job; who wants to find or delete it, does.
BeginUpdate(c, j, what) ==
    /\ Stored(j)
    /\ what # "error" => ~jobs[j].finished
    /\ what = "result" => <<j, "result">> \notin files
    /\ \A d \in Clients : client[d].job = j => client[d].step \in Reading
    /\ Begin(c, IF what = "result" THEN "upload_result" ELSE "set", j, jobs[j].sid, what)
    /\ UNCHANGED <<db, deleted>>

UploadResultUnawaited(c) ==   \* mutant: the upload is not awaited, and fails
    Call(c, "upload_result", "set") /\ UNCHANGED <<db, deleted>>

UploadResult(c) ==
    /\ Call(c, "upload_result", "set")
    /\ files' = files \cup {<<client[c].job, "result">>}
    /\ UNCHANGED <<jobs, sessions, doomed, total, deleted>>

\* jobs.update_one.
SetIn(c, documents) ==
    LET m == client[c]
    IN  /\ Call(c, "set", Or(m.sid, "touch_updated", "idle"))
        /\ jobs' = [j \in JobIds |->
                      IF j = m.job /\ j \in documents
                        THEN [jobs[j] EXCEPT !.state = "stored",
                                             !.finished = @ \/ m.what # "status",
                                             !.result = @ \/ m.what = "result"]
                        ELSE jobs[j]]
        /\ UNCHANGED <<sessions, files, doomed, total, deleted>>

SetUpsert(c) == SetIn(c, JobIds)   \* mutant: update_one with upsert=True

Set(c) == SetIn(c, {j \in JobIds : Stored(j)})

TouchUpdated(c) == Touch(c, "touch_updated", "idle")

-----------------------------------------------------------------------------
(* delete_job and delete_session.  The deletion of files is only requested *)
(* (self._fs.delete is not awaited) and takes place at some later time.    *)

SourceOf(j, what) == {f \in files : f = <<j, "src">>}   \* mutant: not the result

FilesOf(j, what) == {f \in files : f = <<j, "src">> \/ (f = <<j, "result">> /\ what = "result")}

\* "what" tells whether the job had a result when it was read.
DeleteFilesOf(j, what) ==
    /\ doomed' = doomed \cup FilesOf(j, what)
    /\ condemned' = condemned \cup {j}
    /\ hasty' = IF jobs[j].finished \/ j \in condemned THEN hasty ELSE hasty \cup {j}
    /\ UNCHANGED <<jobs, sessions, files, total>>

HasResult(j) == IF jobs[j].result THEN "result" ELSE "status"

\* The service deletes finished jobs only; "docleaner-ctl debug delete", any job.
BeginDelete(c, j) ==
    /\ Stored(j)
    /\ IF jobs[j].sid = NoSession
         THEN /\ Begin(c, "delete_one", j, NoSession, HasResult(j))
              /\ DeleteFilesOf(j, HasResult(j))
         ELSE /\ Begin(c, "touch_deleted", j, jobs[j].sid, HasResult(j))
              /\ UNCHANGED <<db, deleted>>

TouchDeleted(c) == /\ Call(c, "touch_deleted", "delete_one")
                   /\ DeleteFilesOf(client[c].job, client[c].what)

DeleteOne(c) ==
    /\ Call(c, "delete_one", "idle")
    /\ jobs' = [jobs EXCEPT ![client[c].job].state = IF @ = "stored" THEN "deleted" ELSE @]
    /\ UNCHANGED <<sessions, files, doomed, total, deleted>>

BeginDeleteSession(c, s) ==
    /\ Open(s)
    /\ Begin(c, "list", NoJob, s, "status")
    /\ UNCHANGED <<db, deleted>>

SessionJobs(s) == {j \in JobIds : Stored(j) /\ jobs[j].sid = s}

\* The cursor returns the jobs of the session one by one, in the order in which they
\* were inserted, so that none is left when it ends.
List(c) ==
    /\ client[c].step = "list"
    /\ \E j \in SessionJobs(client[c].sid) \ client[c].listed :
          /\ client' = [client EXCEPT ![c].listed = @ \cup {j}]
          /\ DeleteFilesOf(j, HasResult(j))
    /\ UNCHANGED faults

Listed(c) ==
    /\ SessionJobs(client[c].sid) \subseteq client[c].listed
    /\ Call(c, "list", "delete_many")
    /\ UNCHANGED <<db, deleted>>

DeleteMany(c) ==
    LET S == SessionJobs(client[c].sid)
    IN  /\ Call(c, "delete_many", "delete_session")
        /\ jobs' = [j \in JobIds |-> IF j \in S THEN [jobs[j] EXCEPT !.state = "deleted"]
                                               ELSE jobs[j]]
        /\ UNCHANGED <<sessions, files, doomed, total, deleted>>

DeleteSession(c) ==
    /\ Call(c, "delete_session", "idle")
    /\ sessions' = [sessions EXCEPT ![client[c].sid] = "deleted"]
    /\ UNCHANGED <<jobs, files, doomed, total, deleted>>

FileDeletedAgain(f) ==   \* mutant: the deletion is requested once more
    /\ f \in doomed
    /\ files' = files \ {f}
    /\ UNCHANGED <<jobs, sessions, doomed, total, client, history>>

FileDeleted(f) ==
    /\ f \in doomed
    /\ files' = files \ {f}
    /\ doomed' = doomed \ {f}
    /\ UNCHANGED <<jobs, sessions, total, client, history>>

-----------------------------------------------------------------------------
(* The other methods.                                                      *)

BeginFind(c, j) ==
    /\ Stored(j)
    /\ Begin(c, "read", j, NoSession, HasResult(j))
    /\ UNCHANGED <<db, deleted>>

\* The files of the job are opened; GridFS raises NoFile if there is none.
Read(c) ==
    LET m == client[c]
        needed == {<<m.job, "src">>} \cup IF m.what = "result" THEN {<<m.job, "result">>}
                                                              ELSE {}
    IN  /\ Call(c, "read", IF needed \subseteq files THEN "idle" ELSE "no_file")
        /\ UNCHANGED <<db, deleted>>

AddSession(s) ==
    /\ sessions[s] = "none"
    /\ sessions' = [sessions EXCEPT ![s] = "stored"]
    /\ UNCHANGED <<jobs, files, doomed, total, client, history>>

-----------------------------------------------------------------------------
(* Faults.                                                                 *)

Fault == faults < MaxFaults /\ faults' = faults + 1 /\ UNCHANGED deleted

\* A method ends before its next call: the process crashes, or the call raises.
Interrupt(c) ==
    /\ Fault
    /\ client[c].step \notin Ends
    /\ client' = [client EXCEPT ![c] = Idle]
    /\ UNCHANGED <<db>>

\* Nobody learns that the deletion of a file failed, or that it was not sent.
DeletionFails(f) ==
    /\ Fault
    /\ f \in doomed
    /\ doomed' = doomed \ {f}
    /\ UNCHANGED <<jobs, sessions, files, total, client>>

-----------------------------------------------------------------------------
Calls(c) == \/ Upload(c) \/ Insert(c) \/ TouchAdded(c) \/ Count(c)
            \/ UploadResult(c) \/ Set(c) \/ TouchUpdated(c)
            \/ TouchDeleted(c) \/ DeleteOne(c)
            \/ List(c) \/ Listed(c) \/ DeleteMany(c) \/ DeleteSession(c)
            \/ Read(c)

Next ==
    \/ \E c \in Clients :
          \/ Calls(c)
          \/ Interrupt(c)
          \/ \E j \in JobIds : \/ \E s \in SessionIds \cup {NoSession} : BeginAdd(c, j, s)
                               \/ \E what \in Updates : BeginUpdate(c, j, what)
                               \/ BeginDelete(c, j) \/ BeginFind(c, j)
          \/ \E s \in SessionIds : BeginDeleteSession(c, s)
    \/ \E s \in SessionIds : AddSession(s)
    \/ \E f \in doomed : FileDeleted(f) \/ DeletionFails(f)

Spec == Init /\ [][Next]_vars

-----------------------------------------------------------------------------
(* Properties.                                                             *)

Quiet == doomed = {} /\ \A c \in Clients : client[c].step \in Ends

Referred == {f \in JobIds \X {"src", "result"} :
                Stored(f[1]) /\ (f[2] = "result" => jobs[f[1]].result)}

\* What an update uploads after the job was read by who deletes it.
LateResults == {<<j, "result">> : j \in hasty}

\* No document outlives its job: GridFS holds no file of a standalone job that is
\* deleted, whatever methods overlap ("Delete associated fragments from GridFS",
\* delete_job), but the result of a job that was deleted before it was finished; a
\* crash, a failing call or a lost deletion leaves one more at most.
NoDocumentLeft ==
    Quiet => Cardinality({f \in (files \ Referred) \ LateResults :
                             jobs[f[1]].sid = NoSession}) <= faults

\* A session that is deleted leaves no job ("deletes all jobs associated with
\* that session regardless of their status", Repository.delete_session).
NoJobOfDeletedSession ==
    Quiet => \A j \in JobIds : Stored(j) /\ jobs[j].sid # NoSession => Open(jobs[j].sid)

Added == Cardinality({j \in JobIds : jobs[j].state # "none"})
NotCounted == Cardinality({c \in Clients : client[c].step \in {"touch_added", "count"}})

\* The total counts every job ever added once, as soon as add_job returns; a
\* fault makes it miss one job at most, and no job is ever counted twice.
TotalCountsJobs == /\ total + NotCounted <= Added
                   /\ Added <= total + NotCounted + faults

\* A job that nobody tried to delete has its documents, whatever else goes on or
\* fails.
JobsHaveFiles ==
    \A j \in JobIds \ condemned : Stored(j) =>
        /\ <<j, "src">> \in files \ doomed
        /\ jobs[j].result => <<j, "result">> \in files \ doomed

\* A job that was deleted does not come back by an update that began earlier.
DeletedForever == [][\A j \in JobIds : jobs[j].state = "deleted"
                                           => jobs'[j].state = "deleted"]_vars

\* find_job fails to open the files of a job only if somebody deletes the job, or
\* has tried to, never for a job that is meant to stay ("Returns the job
\* identified by jid, if it exists", Repository.find_job).
FindFailsOnlyOfDeleted ==
    [][\A c \in Clients :
          LET j == client[c].job
          IN  client[c].step = "read" /\ client'[c].step = "no_file"
                  => jobs[j].state = "deleted" \/ j \in condemned]_vars

\* The documents that find_job gets of job j.
Docs(j) == {x \in {"src", "result"} : <<j, x>> \in files \cap Referred}

Store == INSTANCE JobStore WITH docs <- [j \in JobIds |-> Docs(j)]

\* Although a method is several calls, overlaps with others and may end early, jobs
\* and their documents change as if each method were one step: no reader ever finds
\* a result that is announced and missing, or a document gone of a job that nobody
\* deletes, no update takes a result or the end of a job back, and none reaches a
\* job that is deleted.
ImplementsStore == Store!Spec
=============================================================================
