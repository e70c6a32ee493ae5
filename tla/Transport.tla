----------------------------- MODULE Transport -----------------------------
(***************************************************************************)
(* What trait Transport of src/src/transport/mod.rs promises the command   *)
(* layer: transmit delivers exactly one command and reads back exactly one *)
(* response, or returns an error.  After an error the command may have     *)
(* reached the TPM, may reach it later, or never.                          *)
(***************************************************************************)
EXTENDS Naturals

CONSTANT MaxTransmits  \* bound: calls of transmit

VARIABLES
  transmits,  \* calls begun
  busy,       \* whether the latest is still running
  delivered,  \* the commands the TPM got
  returned    \* what each call returned

vars == << transmits, busy, delivered, returned >>

Transmits == 1 .. MaxTransmits

\* "Answered": the response to that very command, whole.
Outcomes == {"none", "Answered", "Err"}

Init ==
  /\ transmits = 0 /\ busy = FALSE
  /\ delivered = {} /\ returned = [k \in Transmits |-> "none"]

Call ==
  /\ ~busy /\ transmits < MaxTransmits
  /\ transmits' = transmits + 1 /\ busy' = TRUE
  /\ UNCHANGED << delivered, returned >>

\* Once, and never behind a later command.
Deliver(k) ==
  /\ k \in 1 .. transmits /\ \A d \in delivered : d < k
  /\ delivered' = delivered \cup {k}
  /\ UNCHANGED << transmits, busy, returned >>

Answer ==
  /\ busy /\ transmits \in delivered
  /\ returned' = [returned EXCEPT ![transmits] = "Answered"] /\ busy' = FALSE
  /\ UNCHANGED << transmits, delivered >>

Fail ==
  /\ busy
  /\ returned' = [returned EXCEPT ![transmits] = "Err"] /\ busy' = FALSE
  /\ UNCHANGED << transmits, delivered >>

Next == Call \/ Answer \/ Fail \/ \E k \in Transmits : Deliver(k)

Spec == Init /\ [][Next]_vars
=============================================================================
