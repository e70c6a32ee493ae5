----------------------------- MODULE Execution -----------------------------
(***************************************************************************)
(* What Tpm::run of src/src/tpm.rs promises the command wrappers, over a   *)
(* link that may lose or damage what it carries but repeats nothing: a     *)
(* call is executed at most once, never behind a later call, and Ok and a  *)
(* TPM error tell whether it was.  After any other error it may have been, *)
(* or may still be.                                                        *)
(***************************************************************************)
EXTENDS Naturals

CONSTANT MaxCalls  \* bound: calls of the client

VARIABLES
  calls,       \* calls begun; the number of the latest
  running,     \* whether the latest has yet to return
  executions,  \* CallIds -> how often the TPM executed the call
  outcome      \* CallIds -> what the call returned

vars == << calls, running, executions, outcome >>

CallIds == 1 .. MaxCalls

\* "Error": Transport, Malformed, Protocol, or Usage found in the reply;
\* "Rejected": Usage found before anything was sent.
Outcomes == {"none", "Ok", "Tpm", "Error", "Rejected"}

Init ==
  /\ calls = 0 /\ running = FALSE
  /\ executions = [c \in CallIds |-> 0] /\ outcome = [c \in CallIds |-> "none"]

Call ==
  /\ ~running /\ calls < MaxCalls
  /\ calls' = calls + 1 /\ running' = TRUE
  /\ UNCHANGED << executions, outcome >>

Reject ==
  /\ ~running /\ calls < MaxCalls
  /\ calls' = calls + 1 /\ outcome' = [outcome EXCEPT ![calls + 1] = "Rejected"]
  /\ UNCHANGED << running, executions >>

\* Slip: a call whose reply was lost is sent again.
Execute_Again(c) ==
  /\ c = calls /\ c \in CallIds /\ outcome[c] \in {"none", "Error"} /\ executions[c] < 2
  /\ executions' = [executions EXCEPT ![c] = @ + 1]
  /\ UNCHANGED << calls, running, outcome >>

\* Slip: a call given up is still on its way when the next one is made.
Execute_Overtaken(c) ==
  /\ c \in CallIds /\ c <= calls /\ executions[c] = 0
  /\ outcome[c] = "Error" \/ (c = calls /\ outcome[c] = "none")
  /\ executions' = [executions EXCEPT ![c] = @ + 1]
  /\ UNCHANGED << calls, running, outcome >>

Execute(c) ==
  /\ c = calls /\ c \in CallIds /\ executions[c] = 0 /\ outcome[c] \in {"none", "Error"}
  /\ executions' = [executions EXCEPT ![c] = @ + 1]
  /\ UNCHANGED << calls, running, outcome >>

Return(kind) ==
  /\ running /\ running' = FALSE
  /\ kind = "Ok" => executions[calls] = 1
  /\ kind = "Tpm" => executions[calls] = 0
  /\ outcome' = [outcome EXCEPT ![calls] = kind]
  /\ UNCHANGED << calls, executions >>

Next ==
  \/ Call
  \/ Reject
  \/ \E c \in CallIds : Execute(c)
  \/ \E kind \in {"Ok", "Tpm", "Error"} : Return(kind)

Spec == Init /\ [][Next]_vars
=============================================================================
