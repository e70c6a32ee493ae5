---------------------------- MODULE DeviceProofs ----------------------------
(***************************************************************************)
(* Device implements Transport, and leaves nothing with the driver, for    *)
(* any number of calls, any lengths of responses and any faults.           *)
(***************************************************************************)
EXTENDS Device, TLAPS

Results == [kind : {"none", "Ok", "Err"}, of : Nat, whole : BOOLEAN]

TypeInv ==
  /\ pc \in {"idle", "write", "submitted", "read"}
  /\ transmits \in 0 .. MaxTransmits
  /\ results \in [Transmits -> Results]
  /\ delivered \subseteq 1 .. transmits
  /\ pending \in 0 .. transmits
  /\ size \in 0 .. MAX_RESPONSE /\ rest \in 0 .. size

\* A call in progress has a number and no result; its command is with the TPM
\* from Submit on; while it reads, what the driver keeps is all of its response,
\* or nothing.
CallInv ==
  /\ pc # "idle" => transmits \in Transmits /\ results[transmits].kind = "none"
  /\ \A k \in Transmits : k > transmits => results[k].kind = "none"
  /\ pc = "write" => transmits \notin delivered
  /\ pc \in {"submitted", "read"} => transmits \in delivered
  /\ pc = "submitted" => rest = 0
  /\ pc = "read" => pending = transmits /\ rest \in {0, size}

\* What the driver keeps belongs to the call in progress, or to one that failed
\* as all calls since have.
KeptInv ==
  rest > 0 => \A k \in pending .. transmits :
                k \in Transmits /\ (results[k].kind = "Err" \/ (k = transmits /\ pc # "idle"))

Inv == TypeInv /\ CallInv /\ KeptInv

\* One read takes all that is left: the buffer is as long as any response.
LEMMA OneReadIsEnough ==
  ASSUME TypeInv
  PROVE  Lesser(rest, MAX_RESPONSE) = rest
BY SizesAreNumbers DEF TypeInv, Lesser

LEMMA InitInv == Init => Inv
BY SizesAreNumbers DEF Init, Inv, TypeInv, CallInv, KeptInv, NoResult, Results, Transmits

\* Ending the call in progress, for whatever reason and with whatever result.
LEMMA ReturnType ==
  ASSUME TypeInv, transmits \in Transmits, NEW kind \in {"Ok", "Err"}, NEW of \in Nat, NEW w \in BOOLEAN,
         Return(kind, of, w)
  PROVE  /\ pc' = "idle" /\ results' \in [Transmits -> Results]
         /\ results'[transmits].kind = kind
         /\ \A k \in Transmits : k # transmits => results'[k] = results[k]
BY DEF TypeInv, Return, Results

LEMMA FailInv ==
  ASSUME Inv, pc # "idle", Fail, UNCHANGED << transmits, driver >>
  PROVE  Inv'
<1>1. transmits \in Transmits
  BY DEF Inv, CallInv
<1>2. /\ pc' = "idle" /\ results' \in [Transmits -> Results]
      /\ results'[transmits].kind = "Err"
      /\ \A k \in Transmits : k # transmits => results'[k] = results[k]
  BY <1>1, ReturnType DEF Inv, Fail
<1>3. TypeInv'
  BY <1>2 DEF Inv, TypeInv, driver
<1>4. CallInv'
  <2>1. \A k \in Transmits : k > transmits => results'[k].kind = "none"
    BY <1>1, <1>2, SizesAreNumbers DEF Inv, CallInv, Transmits
  <2>2. QED BY <1>2, <2>1 DEF CallInv, driver
<1>5. KeptInv'
  BY <1>2 DEF Inv, KeptInv, driver
<1>6. QED
  BY <1>3, <1>4, <1>5 DEF Inv

LEMMA NextInv == Inv /\ [Next]_vars => Inv'
<1>1. SUFFICES ASSUME Inv, [Next]_vars PROVE Inv'
  OBVIOUS
<1>2. CASE UNCHANGED vars
  BY <1>1, <1>2 DEF Inv, TypeInv, CallInv, KeptInv, vars, driver
<1>3. CASE transmit
  <2>1. TypeInv'
    BY <1>1, <1>3, SizesAreNumbers DEF Inv, TypeInv, transmit, driver
  <2>2. CallInv' /\ KeptInv'
    BY <1>1, <1>3, SizesAreNumbers DEF Inv, TypeInv, CallInv, KeptInv, transmit, driver, Transmits
  <2>3. QED BY <2>1, <2>2 DEF Inv
<1>4. CASE Submit
  <2>1. transmits \in 1 .. transmits
    BY <1>1, <1>4, SizesAreNumbers DEF Inv, TypeInv, CallInv, Submit, Transmits
  <2>2. TypeInv'
    BY <1>1, <1>4, <2>1 DEF Inv, TypeInv, Submit
  <2>3. CallInv' /\ KeptInv'
    BY <1>1, <1>4 DEF Inv, TypeInv, CallInv, KeptInv, Submit
  <2>4. QED BY <2>2, <2>3 DEF Inv
<1>5. CASE \E n \in ResponseSizes : WriteReturns(n)
  <2>1. PICK n \in ResponseSizes : WriteReturns(n)
    BY <1>5
  <2>2. n \in 1 .. MAX_RESPONSE
    BY SizesAreNumbers
  <2>3. TypeInv'
    BY <1>1, <2>1, <2>2, SizesAreNumbers DEF Inv, TypeInv, WriteReturns
  <2>4. CallInv' /\ KeptInv'
    BY <1>1, <2>1, <2>2, SizesAreNumbers DEF Inv, TypeInv, CallInv, KeptInv, WriteReturns, Transmits
  <2>5. QED BY <2>3, <2>4 DEF Inv
<1>6. CASE WriteBusy
  BY <1>1, <1>6, FailInv DEF WriteBusy
<1>7. CASE WriteFails
  BY <1>1, <1>7, FailInv DEF WriteFails
<1>8. CASE ReadFails
  BY <1>1, <1>8, FailInv DEF ReadFails
<1>9. CASE ReadResponse
  <2>1. /\ pc = "read" /\ transmits \in Transmits /\ Lesser(rest, MAX_RESPONSE) = rest
        /\ UNCHANGED << transmits, delivered, pending, size >>
    BY <1>1, <1>9, OneReadIsEnough DEF Inv, CallInv, ReadResponse
  <2>2. rest' = 0
    BY <1>1, <1>9, <2>1, SizesAreNumbers DEF Inv, TypeInv, ReadResponse
  <2>3. \E kind \in {"Ok", "Err"}, of \in Nat, w \in BOOLEAN : Return(kind, of, w)
    <3>1. CASE rest = 0
      BY <3>1, <1>9, <2>1 DEF ReadResponse, Fail
    <3>2. CASE rest # 0
      <4>1. pending \in Nat /\ (rest = size) \in BOOLEAN /\ Return("Ok", pending, rest = size)
        BY <3>2, <1>1, <1>9, <2>1, SizesAreNumbers DEF Inv, TypeInv, ReadResponse
      <4>2. QED BY <4>1
    <3>3. QED BY <3>1, <3>2
  <2>4. pc' = "idle" /\ results' \in [Transmits -> Results]
    BY <1>1, <2>1, <2>3, ReturnType DEF Inv
  <2>5. TypeInv'
    BY <1>1, <2>1, <2>2, <2>4, SizesAreNumbers DEF Inv, TypeInv
  <2>6. \A k \in Transmits : k > transmits => results'[k].kind = "none"
    BY <1>1, <2>1, <2>3, ReturnType, SizesAreNumbers DEF Inv, CallInv, Transmits
  <2>7. CallInv' /\ KeptInv'
    BY <2>1, <2>2, <2>4, <2>6 DEF CallInv, KeptInv
  <2>8. QED BY <2>5, <2>7 DEF Inv
<1>10. CASE TimerExpires
  <2>1. TypeInv'
    BY <1>1, <1>10, SizesAreNumbers DEF Inv, TypeInv, TimerExpires
  <2>2. CallInv' /\ KeptInv'
    BY <1>1, <1>10 DEF Inv, CallInv, KeptInv, TimerExpires
  <2>3. QED BY <2>1, <2>2 DEF Inv
<1>11. QED
  BY <1>1, <1>2, <1>3, <1>4, <1>5, <1>6, <1>7, <1>8, <1>9, <1>10 DEF Next, Proceed

\* After a call of transmit that returned Ok the driver keeps nothing that a
\* later call could meet.
THEOREM NothingIsLeftBehind == Spec => []NothingLeftBehind
<1>1. Inv => NothingLeftBehind
  BY DEF Inv, KeptInv, NothingLeftBehind
<1>2. QED
  BY <1>1, InitInv, NextInv, PTL DEF Spec

-----------------------------------------------------------------------------
(* The refinement: Submit is the contract's Deliver, the end of a call its *)
(* Answer or Fail, and the rest of the device stutters.                    *)

Returned == [k \in Transmits |-> OutcomeOf(k)]

LEMMA FailRefines ==
  ASSUME Inv, pc # "idle", Fail, UNCHANGED << transmits, delivered >>
  PROVE  Contract!Fail
<1>1. transmits \in Transmits /\ pc' = "idle" /\ results \in [Transmits -> Results]
  BY DEF Inv, TypeInv, CallInv, Fail, Return
<1>2. results' = [results EXCEPT ![transmits] = [kind |-> "Err", of |-> 0, whole |-> FALSE]]
  BY DEF Fail, Return
<1>3. OutcomeOf(transmits)' = "Err"
  BY <1>1, <1>2 DEF OutcomeOf
<1>4. \A k \in Transmits : k # transmits => OutcomeOf(k)' = OutcomeOf(k)
  BY <1>1, <1>2 DEF OutcomeOf
<1>5. Returned' = [Returned EXCEPT ![transmits] = "Err"]
  BY <1>1, <1>3, <1>4 DEF Returned
<1>6. QED
  BY <1>1, <1>5 DEF Contract!Fail, Returned

LEMMA NextRefines == Inv /\ [Next]_vars => [Contract!Next]_Contract!vars
<1>1. SUFFICES ASSUME Inv, [Next]_vars PROVE [Contract!Next]_Contract!vars
  OBVIOUS
<1>2. CASE UNCHANGED << (pc = "idle"), transmits, delivered, results >>
  <2>1. \A k \in Transmits : OutcomeOf(k)' = OutcomeOf(k)
    BY <1>2 DEF OutcomeOf
  <2>2. QED
    BY <1>2, <2>1 DEF Contract!vars
<1>3. CASE UNCHANGED vars
  BY <1>2, <1>3 DEF vars, driver
<1>4. CASE transmit
  <2>1. \A k \in Transmits : OutcomeOf(k)' = OutcomeOf(k)
    BY <1>4 DEF transmit, OutcomeOf
  <2>2. Contract!Call
    BY <1>4, <2>1 DEF transmit, driver, Contract!Call
  <2>3. QED BY <2>2 DEF Contract!Next
<1>5. CASE Submit
  <2>1. \A k \in Transmits : OutcomeOf(k)' = OutcomeOf(k)
    BY <1>5 DEF Submit, OutcomeOf
  <2>2. transmits \in Transmits /\ transmits \in 1 .. transmits
    BY <1>1, <1>5, SizesAreNumbers DEF Inv, TypeInv, CallInv, Submit, Transmits
  <2>3. \A d \in delivered : d < transmits
    BY <1>1, <1>5, SizesAreNumbers DEF Inv, TypeInv, CallInv, Submit
  <2>4. (pc # "idle")' = (pc # "idle")
    BY <1>5 DEF Submit
  <2>5. Contract!Deliver(transmits)
    BY <1>5, <2>1, <2>2, <2>3, <2>4 DEF Submit, Contract!Deliver
  <2>6. QED BY <2>2, <2>5 DEF Contract!Next, Contract!Transmits, Transmits
<1>6. CASE \E n \in ResponseSizes : WriteReturns(n)
  BY <1>2, <1>6 DEF WriteReturns
<1>7. CASE WriteBusy \/ WriteFails \/ ReadFails
  BY <1>1, <1>7, FailRefines DEF WriteBusy, WriteFails, ReadFails, driver, Contract!Next
<1>8. CASE ReadResponse
  <2>1. /\ pc = "read" /\ transmits \in Transmits /\ transmits \in delivered
        /\ pending = transmits /\ rest \in {0, size}
        /\ Lesser(rest, MAX_RESPONSE) = rest
        /\ UNCHANGED << transmits, delivered >>
    BY <1>1, <1>8, OneReadIsEnough DEF Inv, CallInv, ReadResponse
  <2>2. CASE rest = 0
    BY <1>1, <1>8, <2>1, <2>2, FailRefines DEF ReadResponse, Contract!Next
  <2>3. CASE rest # 0
    <3>1. /\ pc' = "idle"
          /\ results' = [results EXCEPT ![transmits] = [kind |-> "Ok", of |-> transmits, whole |-> TRUE]]
      BY <1>8, <2>1, <2>3 DEF ReadResponse, Return
    <3>2. results \in [Transmits -> Results]
      BY <1>1 DEF Inv, TypeInv
    <3>3. OutcomeOf(transmits)' = "Answered"
      BY <2>1, <3>1, <3>2 DEF OutcomeOf
    <3>4. \A k \in Transmits : k # transmits => OutcomeOf(k)' = OutcomeOf(k)
      BY <2>1, <3>1, <3>2 DEF OutcomeOf
    <3>5. Returned' = [Returned EXCEPT ![transmits] = "Answered"]
      BY <2>1, <3>3, <3>4 DEF Returned
    <3>6. Contract!Answer
      BY <2>1, <3>1, <3>5 DEF Contract!Answer, Returned
    <3>7. QED BY <3>6 DEF Contract!Next
  <2>4. QED BY <2>2, <2>3
<1>9. CASE TimerExpires
  BY <1>2, <1>9 DEF TimerExpires
<1>10. QED
  BY <1>1, <1>3, <1>4, <1>5, <1>6, <1>7, <1>8, <1>9 DEF Next, Proceed

\* transmit delivers one command and reads back one response, or returns an
\* error, whichever system calls fail and whatever is left with the driver.
THEOREM DeviceImplementsTransport == Spec => TransmitIsOneExchange
<1>1. Init => Contract!Init
  BY DEF Init, Contract!Init, OutcomeOf, NoResult, Transmits, Contract!Transmits
<1>2. QED
  BY <1>1, InitInv, NextInv, NextRefines, PTL DEF Spec, TransmitIsOneExchange, Contract!Spec
=============================================================================
