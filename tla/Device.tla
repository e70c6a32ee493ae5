------------------------------- MODULE Device -------------------------------
(***************************************************************************)
(* DeviceTransport of src/src/transport/device.rs: one write submits a     *)
(* command to the kernel's TPM driver, one read takes the response.        *)
(*                                                                         *)
(* The driver is external.  It hands a command to the TPM during the       *)
(* write, keeps the response until it has been read to the end or its      *)
(* timer runs out, and refuses to write while it keeps one.                *)
(***************************************************************************)
EXTENDS Naturals

CONSTANTS
  MaxTransmits,   \* bound: calls of transmit
  ResponseSizes,  \* lengths of responses
  MAX_RESPONSE,
  Faults          \* what goes wrong: see FaultKinds

\* "write": the driver reports an error, before or after the TPM saw the
\* command.  "read": it reports one and keeps the response.  "timer": it drops
\* a response nobody has read.
FaultKinds == {"write", "read", "timer"}

ASSUME SizesAreNumbers ==
  /\ MaxTransmits \in Nat /\ MAX_RESPONSE \in Nat \ {0}
  /\ ResponseSizes \subseteq 1 .. MAX_RESPONSE
  /\ Faults \subseteq FaultKinds

VARIABLES
  pc,         \* the system call transmit is in
  transmits,  \* calls of transmit begun; the number of the latest
  results,    \* what each returned: the response to which command, all of it?
  delivered,  \* the commands the TPM got
  pending,    \* the response the driver keeps: the command it answers, ...
  size,       \* ... its length, ...
  rest        \* ... and how much of it has not been read

driver == << delivered, pending, size, rest >>
vars == << pc, transmits, results, driver >>

Transmits == 1 .. MaxTransmits

NoResult == [kind |-> "none", of |-> 0, whole |-> FALSE]

\* open, with the driver's own state empty.
Init ==
  /\ pc = "idle" /\ transmits = 0 /\ results = [k \in Transmits |-> NoResult]
  /\ delivered = {} /\ pending = 0 /\ size = 0 /\ rest = 0

Return(kind, of, whole) ==
  /\ pc' = "idle"
  /\ results' = [results EXCEPT ![transmits] = [kind |-> kind, of |-> of, whole |-> whole]]

Fail == Return("Err", 0, FALSE)

transmit ==
  /\ pc = "idle" /\ transmits < MaxTransmits
  /\ pc' = "write" /\ transmits' = transmits + 1
  /\ UNCHANGED << results, driver >>

\* write_all and flush: the driver takes the command and hands it to the TPM,
Submit ==
  /\ pc = "write" /\ rest = 0
  /\ pc' = "submitted" /\ delivered' = delivered \cup {transmits}
  /\ UNCHANGED << transmits, results, pending, size, rest >>

\* ... and write returns once it has the response.
WriteReturns(n) ==
  /\ pc = "submitted"
  /\ pc' = "read" /\ pending' = transmits /\ size' = n /\ rest' = n
  /\ UNCHANGED << transmits, results, delivered >>

\* Slip: an error of write is not looked at, and read follows.
WriteBusy_Ignored ==
  /\ pc = "write" /\ rest > 0 /\ pc' = "read"
  /\ UNCHANGED << transmits, results, driver >>

\* EBUSY while a response is pending.
WriteBusy ==
  /\ pc = "write" /\ rest > 0
  /\ Fail
  /\ UNCHANGED << transmits, driver >>

\* Any other error of write or flush.
WriteFails ==
  /\ pc \in {"write", "submitted"} /\ "write" \in Faults
  /\ Fail
  /\ UNCHANGED << transmits, driver >>

Lesser(a, b) == IF a < b THEN a ELSE b

\* Slip: the buffer is a byte shorter than the largest response.
ReadResponse_ShortBuffer ==
  /\ pc = "read"
  /\ LET n == Lesser(rest, MAX_RESPONSE - 1)
     IN /\ IF n = 0 THEN Fail ELSE Return("Ok", pending, n = size)
        /\ rest' = rest - n
  /\ UNCHANGED << transmits, delivered, pending, size >>

\* Slip: nothing to read is taken for a response that is yet to come.
ReadResponse_Waits ==
  /\ pc = "read" /\ rest > 0
  /\ LET n == Lesser(rest, MAX_RESPONSE)
     IN Return("Ok", pending, n = size) /\ rest' = rest - n
  /\ UNCHANGED << transmits, delivered, pending, size >>

\* One read into a buffer of MAX_RESPONSE bytes; nothing to read is an error.
ReadResponse ==
  /\ pc = "read"
  /\ LET n == Lesser(rest, MAX_RESPONSE)
     IN /\ IF n = 0 THEN Fail ELSE Return("Ok", pending, n = size)
        /\ rest' = rest - n
  /\ UNCHANGED << transmits, delivered, pending, size >>

\* Any error of read, EINTR included: it is not repeated.
ReadFails ==
  /\ pc = "read" /\ "read" \in Faults
  /\ Fail
  /\ UNCHANGED << transmits, driver >>

\* The driver's timer, whatever the client is doing.
TimerExpires ==
  /\ "timer" \in Faults /\ rest > 0 /\ rest' = 0
  /\ UNCHANGED << pc, transmits, results, delivered, pending, size >>

Proceed ==
  \/ Submit
  \/ \E n \in ResponseSizes : WriteReturns(n)
  \/ WriteBusy
  \/ ReadResponse

Next == transmit \/ Proceed \/ WriteFails \/ ReadFails \/ TimerExpires

Spec == Init /\ [][Next]_vars

\* The client's thread runs on and the driver answers each system call; that
\* a call fails, or a timer runs out, is never assumed.
FairSpec == Spec /\ WF_vars(Proceed)

-----------------------------------------------------------------------------
(* Properties. *)

\* What transmit returned, as the contract sees it.
OutcomeOf(k) ==
  IF results[k].kind # "Ok" THEN results[k].kind
  ELSE IF results[k].of = k /\ results[k].whole THEN "Answered" ELSE "Other"

Contract ==
  INSTANCE Transport WITH
    busy <- pc # "idle",
    returned <- [k \in Transmits |-> OutcomeOf(k)]

\* transmit implements the Transport contract: what it returns Ok is all of the
\* response to this command, though an earlier response may still be with the
\* driver and any system call may fail.
TransmitIsOneExchange == Contract!Spec

\* Between two calls the driver keeps a response only if the call it belongs
\* to, or one the driver refused for its sake, has just failed: a call that
\* returned Ok leaves nothing for the next one to meet.
NothingLeftBehind ==
  pc = "idle" /\ rest > 0 => \A k \in pending .. transmits : results[k].kind = "Err"

\* Every call returns, whatever an earlier one left with the driver.
TransmitReturns == pc # "idle" ~> pc = "idle"
=============================================================================
