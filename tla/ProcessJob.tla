----------------------------- MODULE ProcessJob -----------------------------
(***************************************************************************)
(* The execution of jobs: one coroutine process_job_in_sandbox(jid, repo)  *)
(* per job that was picked up (services/sandbox.py).  task[j] is the await *)
(* at which the coroutine of j is suspended, or how it ended.              *)
(*                                                                         *)
(* A method of the repository raises ValueError for a job that is gone.    *)
(* Where Faults is TRUE it may also fail on a job that is there, because   *)
(* its connection does, and then its write may be applied, in part or not. *)
(***************************************************************************)
EXTENDS Repository

CONSTANT Faults

ASSUME ProcessJobAssumption == Faults \in BOOLEAN

VARIABLES
    task,    \* the coroutines
    answer   \* what Sandbox.process returned, while the coroutine needs it

taskVars == <<task, answer>>

Steps == {"find", "mark", "sandbox", "log", "post", "fail_log", "fail"}
Ends == {"done", "raised"}   \* returned, or ended with an exception
Answers == [success : BOOLEAN, result : BOOLEAN, log : BOOLEAN]

\* "result" says that the file of the container, perhaps empty, was retrieved: one
\* that reports success has it, and a log entry.
SandboxResults == {r \in Answers : r.success => r.result /\ r.log}

NoAnswer == [success |-> FALSE, result |-> FALSE, log |-> FALSE]

TaskInit == /\ task = [j \in JobIds |-> "none"]
            /\ answer = [j \in JobIds |-> NoAnswer]

TaskTypeOK == /\ task \in [JobIds -> Steps \cup Ends \cup {"none"}]
              /\ answer \in [JobIds -> Answers]

Live(j) == task[j] \in Steps

Goto(j, step) == task' = [task EXCEPT ![j] = step]

\* A call that raises: the job is gone, or the write of the call fails.
CallRaises(j, Write) == IF Present(j) THEN Faults /\ (Write \/ UNCHANGED repoVars)
                                      ELSE UNCHANGED repoVars

-----------------------------------------------------------------------------
Find(j) ==
    /\ task[j] = "find"
    /\ \/ jobs[j].status = "QUEUED" /\ Goto(j, "mark")
       \/ jobs[j].status # "QUEUED" /\ Goto(j, "raised")
       \/ Faults /\ Goto(j, "raised")
    /\ UNCHANGED <<repoVars, answer>>

MarkRunningInMemory(j) ==   \* mutant: the status is not stored
    task[j] = "mark" /\ Goto(j, "sandbox") /\ UNCHANGED <<repoVars, answer>>

MarkRunning(j) ==
    /\ task[j] = "mark"
    /\ \/ UpdateJob(j, "RUNNING", jobs[j].result) /\ Goto(j, "sandbox")
       \/ /\ CallRaises(j, UpdateJobInPart(j, "RUNNING", jobs[j].result))
          /\ Goto(j, "raised")
    /\ UNCHANGED answer

\* Sandbox.process returns a result, of which the log may be empty, or raises.
CallSandbox(j, onException) ==
    /\ task[j] = "sandbox"
    /\ \/ \E r \in SandboxResults : /\ answer' = [answer EXCEPT ![j] = r]
                                    /\ Goto(j, IF r.log THEN "log" ELSE "post")
       \/ Goto(j, onException) /\ UNCHANGED answer
    /\ UNCHANGED repoVars

RunSandboxUnguarded(j) == CallSandbox(j, "raised")   \* mutant: no except clause

RunSandbox(j) == CallSandbox(j, "fail_log")

\* This loop is outside of both try blocks.
WriteLog(j) ==
    /\ task[j] = "log"
    /\ \/ AddToJobLog(j) /\ Goto(j, "post")
       \/ CallRaises(j, AddToJobLog(j)) /\ Goto(j, "raised")
    /\ UNCHANGED answer

\* Post-process the metadata, which may raise, and store everything in one update.
FinishAs(j, success, onException) ==
    LET status == IF success THEN "SUCCESS" ELSE "ERROR"
    IN  /\ task[j] = "post"
        /\ \/ UpdateJob(j, status, answer[j].result) /\ Goto(j, "done")
           \/ /\ CallRaises(j, UpdateJobInPart(j, status, answer[j].result))
              /\ Goto(j, "fail_log")
           \/ UNCHANGED repoVars /\ Goto(j, onException)
        /\ answer' = [answer EXCEPT ![j] = NoAnswer]

\* Mutants: result.success is not looked at; an exception of metadata_processor
\* is not caught; the status is stored before metadata_processor is called.
FinishAlwaysSuccess(j) == FinishAs(j, TRUE, "fail_log")
FinishUnguarded(j) == FinishAs(j, answer[j].success, "raised")
FinishBeforeMetadata(j) == \/ FinishAs(j, answer[j].success, "fail_log")
                           \/ /\ task[j] = "post" /\ Goto(j, "fail_log")
                              /\ UpdateJob(j, "SUCCESS", TRUE) /\ UNCHANGED answer

Finish(j) == FinishAs(j, answer[j].success, "fail_log")

\* The two except blocks do the same: log the error, then mark the job.
FailLog(j) ==
    /\ task[j] = "fail_log"
    /\ \/ AddToJobLog(j) /\ Goto(j, "fail")
       \/ CallRaises(j, AddToJobLog(j)) /\ Goto(j, "raised")
    /\ UNCHANGED answer

MarkError(j) ==
    /\ task[j] = "fail"
    /\ \/ UpdateJob(j, "ERROR", jobs[j].result) /\ Goto(j, "done")
       \/ /\ CallRaises(j, UpdateJobInPart(j, "ERROR", jobs[j].result))
          /\ Goto(j, "raised")
    /\ UNCHANGED answer

TaskStep(j) == \/ Find(j) \/ MarkRunning(j) \/ RunSandbox(j) \/ WriteLog(j)
               \/ Finish(j) \/ FailLog(j) \/ MarkError(j)
=============================================================================
