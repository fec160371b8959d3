------------------------ MODULE ContainerizedSandbox ------------------------
(***************************************************************************)
(* The sandbox that executes a job in a podman container                   *)
(* (adapters/sandbox/containerized_sandbox.py).  Each call of process()    *)
(* runs in a thread of its own and has a container of its own.  A call of  *)
(* the podman API may succeed or raise; the programs executed in the       *)
(* container exit with 0 or not.  The result is a file that may be empty:  *)
(* the code cannot tell it from no result, which is b"" as well.  The      *)
(* answers are those that the coroutines of module ProcessJob work on.     *)
(***************************************************************************)
CONSTANT Calls

VARIABLES
    step,       \* the podman call at which the thread is, or how it ended
    container,  \* the container of the call
    answer      \* success, the file in result_document and log # [], so far

vars == <<step, container, answer>>

Ended == {"returned", "raised"}

TypeOK ==
    /\ step \in [Calls -> {"none", "create", "start", "copy", "analyze", "process",
                           "analyze_result", "get_result", "get_metadata", "stop"}
                          \cup Ended]
    /\ container \in [Calls -> {"none", "created", "running", "removed"}]
    /\ answer \in [Calls -> [success : BOOLEAN, log : BOOLEAN,
                              result : {"none", "empty", "document"}]]

Init == /\ step = [c \in Calls |-> "none"]
        /\ container = [c \in Calls |-> "none"]
        /\ answer = [c \in Calls |-> [success |-> FALSE, log |-> FALSE,
                                      result |-> "none"]]

From(c, this, next) == step[c] = this /\ step' = [step EXCEPT ![c] = next]
Becomes(c, state) == container' = [container EXCEPT ![c] = state]
Logged(c) == answer' = [answer EXCEPT ![c].log = TRUE]

-----------------------------------------------------------------------------
(* Up to here an exception of podman leaves process(): nothing catches it. *)

Process(c) == From(c, "none", "create") /\ UNCHANGED <<container, answer>>

CreateWithoutResult(c) ==   \* mutant: the except clause leaves out the result
    \/ From(c, "create", "start") /\ Becomes(c, "created") /\ UNCHANGED answer
    \/ /\ From(c, "create", "returned")
       /\ answer' = [answer EXCEPT ![c] = [success |-> FALSE, log |-> TRUE]]
       /\ UNCHANGED container
    \/ From(c, "create", "raised") /\ UNCHANGED <<container, answer>>

\* A PodmanAPIError is caught and logged; there is no container then.
Create(c) ==
    \/ From(c, "create", "start") /\ Becomes(c, "created") /\ UNCHANGED answer
    \/ From(c, "create", "returned") /\ Logged(c) /\ UNCHANGED container
    \/ From(c, "create", "raised") /\ UNCHANGED <<container, answer>>

Start(c) ==
    /\ \/ From(c, "start", "copy") /\ Becomes(c, "running")
       \/ From(c, "start", "raised") /\ UNCHANGED container
    /\ UNCHANGED answer

\* put_archive: its Boolean result is not looked at.
Copy(c) ==
    /\ From(c, "copy", "analyze") \/ From(c, "copy", "raised")
    /\ UNCHANGED <<container, answer>>

-----------------------------------------------------------------------------
(* The try block.  Its finally clause stops the container and returns, for *)
(* every exception; the except clause sees a ValueError only.              *)

\* /opt/analyze on the source or on the result: the output is logged on failure.
Analyze(c, this, next) ==
    /\ \/ From(c, this, next) /\ UNCHANGED answer
       \/ From(c, this, "stop") /\ Logged(c)           \* exit status # 0
       \/ From(c, this, "stop") /\ UNCHANGED answer    \* exec_run raises
    /\ UNCHANGED container

\* /opt/process: the output is always logged.
Transform(c) ==
    /\ \/ From(c, "process", "analyze_result") /\ Logged(c)
       \/ From(c, "process", "stop") /\ Logged(c)
       \/ From(c, "process", "stop") /\ UNCHANGED answer
    /\ UNCHANGED container

\* The file that /opt/process left in /tmp/result, whatever is in it.
GetResult(c) ==
    /\ \/ /\ From(c, "get_result", "get_metadata")
          /\ \E file \in {"empty", "document"} : answer' = [answer EXCEPT ![c].result = file]
       \/ From(c, "get_result", "stop") /\ UNCHANGED answer
    /\ UNCHANGED container

GetMetadataUnchecked(c) ==   \* mutant: no result is success as well
    /\ From(c, "get_metadata", "stop")
    /\ \/ answer' = [answer EXCEPT ![c].success = TRUE]
       \/ answer' = [answer EXCEPT ![c].success = TRUE, ![c].result = "none"]
    /\ UNCHANGED container

\* The two JSON files.  Malformed JSON is a ValueError, which clears the result;
\* an error of podman or of the archive is not, and leaves it.
GetMetadata(c) ==
    /\ From(c, "get_metadata", "stop")
    /\ \/ answer' = [answer EXCEPT ![c].success = TRUE]
       \/ answer' = [answer EXCEPT ![c].result = "none"]
       \/ UNCHANGED answer
    /\ UNCHANGED container

StopInBackground(c) ==   \* mutant: does not wait until the container is gone
    /\ From(c, "stop", "returned")
    /\ UNCHANGED <<container, answer>>

\* The container is removed when it stops (auto_remove).  stop() may raise, with
\* or without effect, and that exception leaves the finally clause.
Stop(c) ==
    /\ \/ From(c, "stop", "returned") /\ Becomes(c, "removed")
       \/ From(c, "stop", "raised") /\ (Becomes(c, "removed") \/ UNCHANGED container)
    /\ UNCHANGED answer

-----------------------------------------------------------------------------
Next == \E c \in Calls :
            \/ Process(c) \/ Create(c) \/ Start(c) \/ Copy(c)
            \/ Analyze(c, "analyze", "process") \/ Transform(c)
            \/ Analyze(c, "analyze_result", "get_result")
            \/ GetResult(c) \/ GetMetadata(c) \/ Stop(c)

Spec == Init /\ [][Next]_vars

-----------------------------------------------------------------------------
(* Properties.                                                             *)

\* A success that is returned comes with the file that the container produced,
\* perhaps an empty one, and with a log, whatever failed on the way: what module
\* ProcessJob assumes of the answers of a sandbox.
SuccessIsComplete ==
    \A c \in Calls : step[c] = "returned" /\ answer[c].success
                         => answer[c].result # "none" /\ answer[c].log

\* A call that returns, with success or not, leaves no container behind.
NoContainerLeft ==
    \A c \in Calls : step[c] = "returned" => container[c] \in {"none", "removed"}
=============================================================================
