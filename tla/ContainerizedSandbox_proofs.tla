---------------------- MODULE ContainerizedSandbox_proofs ----------------------
(***************************************************************************)
(* Proofs about module ContainerizedSandbox, for every set of calls.       *)
(***************************************************************************)
EXTENDS ContainerizedSandbox, TLAPS

\* One step of one call: the others keep their step, container and answer.
CallStep(c) ==
    \/ Process(c) \/ Create(c) \/ Start(c) \/ Copy(c)
    \/ Analyze(c, "analyze", "process") \/ Transform(c)
    \/ Analyze(c, "analyze_result", "get_result")
    \/ GetResult(c) \/ GetMetadata(c) \/ Stop(c)

LEMMA TypeStep == TypeOK /\ [Next]_vars => TypeOK'
<1> SUFFICES ASSUME TypeOK, [Next]_vars PROVE TypeOK'
  OBVIOUS
<1>1. CASE UNCHANGED vars
  BY <1>1 DEF vars, TypeOK
<1>2. ASSUME NEW c \in Calls, CallStep(c) PROVE TypeOK'
  <2>1. step' \in [Calls -> {"none", "create", "start", "copy", "analyze", "process",
                             "analyze_result", "get_result", "get_metadata", "stop"}
                            \cup Ended]
    BY <1>2 DEF CallStep, Process, Create, Start, Copy, Analyze, Transform, GetResult,
                GetMetadata, Stop, From, TypeOK, Ended
  <2>2. container' \in [Calls -> {"none", "created", "running", "removed"}]
    BY <1>2 DEF CallStep, Process, Create, Start, Copy, Analyze, Transform, GetResult,
                GetMetadata, Stop, Becomes, TypeOK
  <2>3. answer' \in [Calls -> [success : BOOLEAN, log : BOOLEAN,
                                  result : {"none", "empty", "document"}]]
    <3>1. \/ answer' = answer
          \/ answer' = [answer EXCEPT ![c].log = TRUE]
          \/ \E file \in {"none", "empty", "document"} :
                 answer' = [answer EXCEPT ![c].result = file]
          \/ answer' = [answer EXCEPT ![c].success = TRUE]
      BY <1>2 DEF CallStep, Process, Create, Start, Copy, Analyze, Transform, GetResult,
                  GetMetadata, Stop, Logged
    <3>2. answer[c] \in [success : BOOLEAN, log : BOOLEAN,
                         result : {"none", "empty", "document"}]
      BY DEF TypeOK
    <3>3. answer'[c] \in [success : BOOLEAN, log : BOOLEAN,
                          result : {"none", "empty", "document"}]
      <4>1. answer'[c] \in {answer[c], [answer[c] EXCEPT !.log = TRUE],
                            [answer[c] EXCEPT !.success = TRUE]}
               \cup {[answer[c] EXCEPT !.result = file] : file \in {"none", "empty", "document"}}
        BY <3>1 DEF TypeOK
      <4> QED
        BY <3>2, <4>1
    <3>4. DOMAIN answer' = Calls /\ \A d \in Calls \ {c} : answer'[d] = answer[d]
      BY <3>1 DEF TypeOK
    <3>5. answer' = [d \in Calls |-> answer'[d]]
      BY <3>1 DEF TypeOK
    <3> QED
      BY <3>3, <3>4, <3>5 DEF TypeOK
  <2> QED
    BY <2>1, <2>2, <2>3 DEF TypeOK
<1> QED
  BY <1>1, <1>2 DEF Next, CallStep

(***************************************************************************)
(* Every reachable state is typed.                                         *)
(***************************************************************************)
THEOREM SandboxTypeCorrect == Spec => []TypeOK
<1>1. Init => TypeOK
  BY DEF Init, TypeOK
<1> QED
  BY <1>1, TypeStep, PTL DEF Spec

-----------------------------------------------------------------------------
(* A call reports success only if it got past every step that fills in the *)
(* answer: the log entry of /opt/process, then the file in /tmp/result.    *)

AnswerGrows ==
    \A c \in Calls :
        /\ step[c] \in {"analyze_result", "get_result", "get_metadata"} => answer[c].log
        /\ step[c] = "get_metadata" => answer[c].result # "none"
        /\ step[c] \notin {"stop"} \cup Ended => ~answer[c].success
        /\ answer[c].success => answer[c].result # "none" /\ answer[c].log

LEMMA AnswerStep == TypeOK /\ AnswerGrows /\ [Next]_vars => AnswerGrows'
<1> SUFFICES ASSUME TypeOK, AnswerGrows, [Next]_vars PROVE AnswerGrows'
  OBVIOUS
<1>1. CASE UNCHANGED vars
  BY <1>1 DEF vars, AnswerGrows
<1>2. ASSUME NEW c \in Calls, CallStep(c) PROVE AnswerGrows'
  <2>1. /\ DOMAIN step = Calls
        /\ DOMAIN answer = Calls
        /\ answer[c] \in [success : BOOLEAN, log : BOOLEAN,
                                  result : {"none", "empty", "document"}]
    BY DEF TypeOK
  <2>2. \A d \in Calls : d # c => step'[d] = step[d] /\ answer'[d] = answer[d]
    BY <1>2, <2>1 DEF CallStep, Process, Create, Start, Copy, Analyze, Transform,
                      GetResult, GetMetadata, Stop, From, Logged
  <2>3. /\ step'[c] \in {"analyze_result", "get_result", "get_metadata"} => answer'[c].log
        /\ step'[c] = "get_metadata" => answer'[c].result # "none"
        /\ step'[c] \notin {"stop"} \cup Ended => ~answer'[c].success
        /\ answer'[c].success => answer'[c].result # "none" /\ answer'[c].log
    <3>1. CASE Process(c) \/ Create(c) \/ Start(c) \/ Copy(c)
      BY <2>1, <3>1 DEF Process, Create, Start, Copy, From, Logged, AnswerGrows, Ended, TypeOK
    <3>2. CASE \/ Analyze(c, "analyze", "process") \/ Transform(c)
               \/ Analyze(c, "analyze_result", "get_result")
      BY <2>1, <3>2 DEF Analyze, Transform, From, Logged, AnswerGrows, Ended, TypeOK
    <3>3. CASE GetResult(c) \/ GetMetadata(c) \/ Stop(c)
      BY <2>1, <3>3 DEF GetResult, GetMetadata, Stop, From, AnswerGrows, Ended, TypeOK
    <3> QED
      BY <1>2, <3>1, <3>2, <3>3 DEF CallStep
  <2> QED
    BY <2>2, <2>3 DEF AnswerGrows
<1> QED
  BY <1>1, <1>2 DEF Next, CallStep

(***************************************************************************)
(* A success that is returned comes with the file that the container       *)
(* produced, perhaps an empty one, and with a log, whatever failed on the  *)
(* way: what module ProcessJob assumes of a sandbox.                       *)
(***************************************************************************)
THEOREM SuccessIsCompleteHolds == Spec => []SuccessIsComplete
<1>1. Init => AnswerGrows
  <2> SUFFICES ASSUME Init, NEW c \in Calls PROVE step[c] = "none" /\ ~answer[c].success
    BY DEF AnswerGrows
  <2> QED
    BY DEF Init
<1>2. AnswerGrows => SuccessIsComplete
  BY DEF AnswerGrows, SuccessIsComplete
<1> QED
  BY <1>1, <1>2, SandboxTypeCorrect, AnswerStep, PTL DEF Spec

-----------------------------------------------------------------------------
(* A call has no container before it created one; a call that returned did *)
(* so without one, or after it removed it.                                 *)

ContainerFollows ==
    \A c \in Calls :
        /\ step[c] \in {"none", "create"} => container[c] = "none"
        /\ step[c] = "returned" => container[c] \in {"none", "removed"}

LEMMA ContainerStep == TypeOK /\ ContainerFollows /\ [Next]_vars => ContainerFollows'
<1> SUFFICES ASSUME TypeOK, ContainerFollows, [Next]_vars PROVE ContainerFollows'
  OBVIOUS
<1>1. CASE UNCHANGED vars
  BY <1>1 DEF vars, ContainerFollows
<1>2. ASSUME NEW c \in Calls, CallStep(c) PROVE ContainerFollows'
  <2>1. DOMAIN step = Calls /\ DOMAIN container = Calls
    BY DEF TypeOK
  <2>2. \A d \in Calls : d # c => step'[d] = step[d] /\ container'[d] = container[d]
    BY <1>2, <2>1 DEF CallStep, Process, Create, Start, Copy, Analyze, Transform,
                      GetResult, GetMetadata, Stop, From, Becomes
  <2>3. /\ step'[c] \in {"none", "create"} => container'[c] = "none"
        /\ step'[c] = "returned" => container'[c] \in {"none", "removed"}
    BY <1>2, <2>1 DEF CallStep, Process, Create, Start, Copy, Analyze, Transform,
                      GetResult, GetMetadata, Stop, From, Becomes, ContainerFollows
  <2> QED
    BY <2>2, <2>3 DEF ContainerFollows
<1> QED
  BY <1>1, <1>2 DEF Next, CallStep

(***************************************************************************)
(* A call that returns, with success or not, leaves no container behind.   *)
(***************************************************************************)
THEOREM NoContainerLeftHolds == Spec => []NoContainerLeft
<1>1. Init => ContainerFollows
  BY DEF Init, ContainerFollows
<1>2. ContainerFollows => NoContainerLeft
  BY DEF ContainerFollows, NoContainerLeft
<1> QED
  BY <1>1, <1>2, SandboxTypeCorrect, ContainerStep, PTL DEF Spec
=============================================================================
