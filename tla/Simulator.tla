----------------------------- MODULE Simulator -----------------------------
(***************************************************************************)
(* SimulatorTransport of src/src/transport/simulator.rs: commands over a   *)
(* TCP stream to a TPM simulator, power signals over a second one.         *)
(*                                                                         *)
(* A stream is a queue of items: a u32, a u8 or four bytes of data.  The   *)
(* client blocks in write_all and read_exact one field at a time; the      *)
(* simulator takes a request once it is complete, and puts the reply on    *)
(* the stream.  Nothing in the stream marks where a reply begins.          *)
(***************************************************************************)
EXTENDS Naturals, Sequences

CONSTANTS
  MaxTransmits,   \* bound: calls of transmit
  MaxPowerOns,    \* bound: calls of power_on
  CommandSizes,   \* lengths of commands, in items
  ResponseSizes,  \* lengths of responses, in items
  MAX_RESPONSE,
  Localities,
  Faults          \* what goes wrong: see FaultKinds

\* "break": a connection is cut, with any part of what it carried.
\* "refused": the simulator answers with a nonzero result code.
\* "oversized": the simulator announces more than MAX_RESPONSE.
FaultKinds == {"break", "refused", "oversized"}

ASSUME SizesAreNumbers ==
  /\ MaxTransmits \in Nat /\ MaxPowerOns \in Nat /\ MAX_RESPONSE \in Nat
  /\ CommandSizes \subseteq Nat \ {0} /\ Localities \subseteq Nat
  /\ ResponseSizes \subseteq 0 .. MAX_RESPONSE
  /\ Faults \subseteq FaultKinds

TPM_SIGNAL_POWER_ON == 1
TPM_SIGNAL_NV_ON == 11
TPM_SEND_COMMAND == 8
TPM_SESSION_END == 20

VARIABLES
  pc,         \* the field the client is writing or reading
  transmits,  \* calls of transmit begun; the number of the latest
  size,       \* length of its command
  locality,   \* the field of that name
  want,       \* length of the response announced
  body,       \* the response read
  results,    \* what each transmit returned: [kind, body]
  toTpm,      \* the data stream, both directions
  fromTpm,
  link,       \* state of the data socket
  platform,   \* state of the platform socket
  signal,     \* platform stream, both directions
  answer,
  powerOns,   \* calls of power_on begun
  power,      \* what the latest returned
  powered,    \* the simulator's switches
  nv,
  delivered   \* the commands the simulator executed, by their transmit

data == << size, locality, want, body, results, toTpm, fromTpm, link, delivered >>
board == << platform, signal, answer, powerOns, power, powered, nv >>
vars == << pc, transmits, data, board >>

-----------------------------------------------------------------------------
U32(n) == << [what |-> "u32", val |-> n, of |-> 0] >>
U8(n) == << [what |-> "u8", val |-> n, of |-> 0] >>
Data(k, n) == [i \in 1 .. n |-> [what |-> "data", val |-> i, of |-> k]]

\* What read_u32 makes of an item: of data, anything.
Number(item) == IF item.what = "u32" THEN {item.val} ELSE {0, 1, MAX_RESPONSE + 1}

Take(s, n) == SubSeq(s, 1, n)
Drop(s, n) == SubSeq(s, n + 1, Len(s))

Transmits == 1 .. MaxTransmits
WriteSteps == {"selector", "locality", "length", "command"}
ReadSteps == {"announced", "body", "trailer"}
SignalSteps == {"power on", "power wait", "nv on", "nv wait"}

\* connect, or connect_mssim when there is a platform socket.
Init ==
  /\ pc = "idle" /\ transmits = 0 /\ size = 0 /\ locality = 0 /\ want = 0 /\ body = <<>>
  /\ results = [k \in Transmits |-> [kind |-> "none", body |-> <<>>]]
  /\ toTpm = <<>> /\ fromTpm = <<>> /\ link = "open" /\ delivered = <<>>
  /\ platform \in {"absent", "open"} /\ signal = <<>> /\ answer = <<>>
  /\ powerOns = 0 /\ power = "none" /\ powered = FALSE /\ nv = FALSE

-----------------------------------------------------------------------------
(* transmit. *)

Return(kind, resp) ==
  /\ pc' = "idle"
  /\ results' = [results EXCEPT ![transmits] = [kind |-> kind, body |-> resp]]

transmit(n) ==
  /\ pc = "idle" /\ transmits < MaxTransmits
  /\ pc' = "selector" /\ transmits' = transmits + 1 /\ size' = n
  /\ UNCHANGED << locality, want, body, results, toTpm, fromTpm, link, delivered, board >>

Portion(step) ==
  CASE step = "selector" -> U32(TPM_SEND_COMMAND)
    [] step = "locality" -> U8(locality)
    [] step = "length"   -> U32(size)
    [] step = "command"  -> Data(transmits, size)

\* Slip: the locality byte is left out.
After_NoLocality(step) ==
  CASE step = "selector" -> "length" [] step = "locality" -> "length"
    [] step = "length" -> "command"  [] step = "command" -> "announced"

After(step) ==
  CASE step = "selector" -> "locality" [] step = "locality" -> "length"
    [] step = "length" -> "command"    [] step = "command" -> "announced"

\* A write to a broken connection may still succeed.
Sent(items) == toTpm' = IF link = "open" THEN toTpm \o items ELSE toTpm

WriteNext ==
  /\ pc \in WriteSteps
  /\ Sent(Portion(pc)) /\ pc' = After(pc)
  /\ UNCHANGED << transmits, size, locality, want, body, results, fromTpm, link, delivered, board >>

WriteFails ==
  /\ pc \in WriteSteps /\ link = "broken"
  /\ Return("Err", <<>>)
  /\ UNCHANGED << transmits, size, locality, want, body, toTpm, fromTpm, link, delivered, board >>

\* Slip: the announced length is taken to cover the result code.
ReadLength_CountsTrailer(n) ==
  /\ pc = "announced" /\ fromTpm # <<>> /\ n \in Number(Head(fromTpm))
  /\ fromTpm' = Tail(fromTpm) /\ pc' = "body" /\ want' = n + 1
  /\ UNCHANGED << transmits, size, locality, body, results, toTpm, link, delivered, board >>

ReadLength(n) ==
  /\ pc = "announced" /\ fromTpm # <<>> /\ n \in Number(Head(fromTpm))
  /\ fromTpm' = Tail(fromTpm)
  /\ IF n > MAX_RESPONSE
       THEN Return("Err", <<>>) /\ UNCHANGED want
       ELSE pc' = "body" /\ want' = n /\ UNCHANGED results
  /\ UNCHANGED << transmits, size, locality, body, toTpm, link, delivered, board >>

\* Slip: the result code after the response is left in the stream.
ReadBody_NoTrailer ==
  /\ pc = "body" /\ Len(fromTpm) >= want
  /\ body' = Take(fromTpm, want) /\ fromTpm' = Drop(fromTpm, want) /\ Return("Ok", Take(fromTpm, want))
  /\ UNCHANGED << transmits, size, locality, want, toTpm, link, delivered, board >>

ReadBody ==
  /\ pc = "body" /\ Len(fromTpm) >= want
  /\ body' = Take(fromTpm, want) /\ fromTpm' = Drop(fromTpm, want) /\ pc' = "trailer"
  /\ UNCHANGED << transmits, size, locality, want, results, toTpm, link, delivered, board >>

ReadTrailer(rc) ==
  /\ pc = "trailer" /\ fromTpm # <<>> /\ rc \in Number(Head(fromTpm))
  /\ fromTpm' = Tail(fromTpm)
  /\ IF rc = 0 THEN Return("Ok", body) ELSE Return("Err", <<>>)
  /\ UNCHANGED << transmits, size, locality, want, body, toTpm, link, delivered, board >>

\* read_exact at the end of the stream has consumed what there was.
ReadFails ==
  /\ pc \in ReadSteps /\ link = "broken"
  /\ Len(fromTpm) < (IF pc = "body" THEN want ELSE 1)
  /\ fromTpm' = <<>> /\ Return("Err", <<>>)
  /\ UNCHANGED << transmits, size, locality, want, body, toTpm, link, delivered, board >>

set_locality(l) ==
  /\ pc = "idle" /\ l # locality /\ locality' = l
  /\ UNCHANGED << pc, transmits, size, want, body, results, toTpm, fromTpm, link, delivered, board >>

\* On a broken connection, or a second time, it changes nothing the simulator
\* will ever read; bounded to the case that matters.
session_end ==
  /\ pc = "idle" /\ toTpm = <<>> /\ link = "open"
  /\ Sent(U32(TPM_SESSION_END))
  /\ UNCHANGED << pc, transmits, size, locality, want, body, results, fromTpm, link, delivered, board >>

-----------------------------------------------------------------------------
(* power_on: platform_signal twice, the second only if the first returned  *)
(* Ok.  A caller may try again.                                            *)

power_on ==
  /\ pc = "idle" /\ powerOns < MaxPowerOns
  /\ powerOns' = powerOns + 1
  /\ IF platform = "absent"
       THEN power' = "Usage" /\ UNCHANGED pc
       ELSE power' = "none" /\ pc' = "power on"
  /\ UNCHANGED << transmits, data, platform, signal, answer, powered, nv >>

PowerFails == pc' = "idle" /\ power' = "Err"

SendSignal(code) ==
  /\ pc = (IF code = TPM_SIGNAL_POWER_ON THEN "power on" ELSE "nv on")
  /\ \/ /\ signal' = IF platform = "open" THEN Append(signal, code) ELSE signal
        /\ pc' = IF code = TPM_SIGNAL_POWER_ON THEN "power wait" ELSE "nv wait"
        /\ UNCHANGED power
     \/ platform = "broken" /\ PowerFails /\ UNCHANGED signal
  /\ UNCHANGED << transmits, data, platform, answer, powerOns, powered, nv >>

\* Slip: a refused POWER_ON is not looked at.
SignalAnswered_Unchecked(rc) ==
  /\ pc \in {"power wait", "nv wait"} /\ answer # <<>> /\ rc = Head(answer)
  /\ answer' = Tail(answer)
  /\ IF pc = "power wait" THEN pc' = "nv on" /\ UNCHANGED power
     ELSE IF rc # 0 THEN PowerFails ELSE pc' = "idle" /\ power' = "Ok"
  /\ UNCHANGED << transmits, data, platform, signal, powerOns, powered, nv >>

SignalAnswered(rc) ==
  /\ pc \in {"power wait", "nv wait"} /\ answer # <<>> /\ rc = Head(answer)
  /\ answer' = Tail(answer)
  /\ IF rc # 0 THEN PowerFails
     ELSE IF pc = "power wait" THEN pc' = "nv on" /\ UNCHANGED power
     ELSE pc' = "idle" /\ power' = "Ok"
  /\ UNCHANGED << transmits, data, platform, signal, powerOns, powered, nv >>

SignalFails ==
  /\ pc \in {"power wait", "nv wait"} /\ platform = "broken" /\ answer = <<>>
  /\ PowerFails
  /\ UNCHANGED << transmits, data, platform, signal, answer, powerOns, powered, nv >>

-----------------------------------------------------------------------------
(* The simulator and the network (external). *)

WholeRequest ==
  /\ Len(toTpm) >= 3 /\ toTpm[1] = U32(TPM_SEND_COMMAND)[1]
  /\ toTpm[2].what = "u8" /\ toTpm[3].what = "u32"
  /\ Len(toTpm) >= 3 + toTpm[3].val
  /\ \A i \in 4 .. 3 + toTpm[3].val : toTpm[i].what = "data"

Replies(k) ==
  {U32(n) \o Data(k, n) \o U32(0) : n \in ResponseSizes}
    \cup (IF "refused" \in Faults THEN {U32(0) \o U32(1)} ELSE {})
    \cup (IF "oversized" \in Faults
            THEN {U32(MAX_RESPONSE + 1) \o Data(k, MAX_RESPONSE + 1) \o U32(0)} ELSE {})

\* On a broken connection the simulator may still find a request in its buffer;
\* its reply goes nowhere.
Serve(reply) ==
  /\ WholeRequest /\ reply \in Replies(toTpm[4].of)
  /\ delivered' = Append(delivered, toTpm[4].of)
  /\ toTpm' = Drop(toTpm, 3 + toTpm[3].val)
  /\ fromTpm' = IF link = "open" THEN fromTpm \o reply ELSE fromTpm
  /\ UNCHANGED << pc, transmits, size, locality, want, body, results, link, board >>

ServeEnd ==
  /\ toTpm # <<>> /\ Head(toTpm) = U32(TPM_SESSION_END)[1]
  /\ toTpm' = Tail(toTpm) /\ link' = "broken"
  /\ UNCHANGED << pc, transmits, size, locality, want, body, results, fromTpm, delivered, board >>

ServeSignal(rc) ==
  /\ signal # <<>> /\ signal' = Tail(signal)
  /\ rc # 0 => "refused" \in Faults
  /\ answer' = IF platform = "open" THEN Append(answer, rc) ELSE answer
  /\ powered' = (powered \/ (rc = 0 /\ Head(signal) = TPM_SIGNAL_POWER_ON))
  /\ nv' = (nv \/ (rc = 0 /\ Head(signal) = TPM_SIGNAL_NV_ON))
  /\ UNCHANGED << pc, transmits, data, platform, powerOns, power >>

Break(out, in) ==
  /\ "break" \in Faults /\ link = "open"
  /\ link' = "broken" /\ toTpm' = Take(toTpm, out) /\ fromTpm' = Take(fromTpm, in)
  /\ UNCHANGED << pc, transmits, size, locality, want, body, results, delivered, board >>

BreakPlatform(out, in) ==
  /\ "break" \in Faults /\ platform = "open"
  /\ platform' = "broken" /\ signal' = Take(signal, out) /\ answer' = Take(answer, in)
  /\ UNCHANGED << pc, transmits, data, powerOns, power, powered, nv >>

-----------------------------------------------------------------------------
Calls ==
  \/ \E n \in CommandSizes : transmit(n)
  \/ \E l \in Localities : set_locality(l)
  \/ session_end
  \/ power_on

Run ==
  \/ WriteNext \/ WriteFails
  \/ \E n \in 0 .. MAX_RESPONSE + 1 : ReadLength(n) \/ ReadTrailer(n)
  \/ ReadBody \/ ReadFails
  \/ SendSignal(TPM_SIGNAL_POWER_ON) \/ SendSignal(TPM_SIGNAL_NV_ON)
  \/ \E rc \in {0, 1} : SignalAnswered(rc)
  \/ SignalFails

Serves ==
  \/ WholeRequest /\ \E reply \in Replies(toTpm[4].of) : Serve(reply)
  \/ ServeEnd

Signals == \E rc \in {0, 1} : ServeSignal(rc)

Breaks ==
  \/ \E out \in 0 .. Len(toTpm), in \in 0 .. Len(fromTpm) : Break(out, in)
  \/ \E out \in 0 .. Len(signal), in \in 0 .. Len(answer) : BreakPlatform(out, in)

Next == Calls \/ Run \/ Serves \/ Signals \/ Breaks

Spec == Init /\ [][Next]_vars

\* The client's thread runs on, and each of the simulator's two servers reads
\* what it is sent and answers.
FairSpec == Spec /\ WF_vars(Run) /\ WF_vars(Serves) /\ WF_vars(Signals)

-----------------------------------------------------------------------------
(* Properties. *)

Items == [what : {"u32", "u8", "data"}, val : Nat, of : 0 .. MaxTransmits]

\* The types of all variables.
TypeOK ==
  /\ pc \in {"idle"} \cup WriteSteps \cup ReadSteps \cup SignalSteps
  /\ transmits \in 0 .. MaxTransmits /\ size \in CommandSizes \cup {0}
  /\ locality \in Localities \cup {0} /\ want \in 0 .. MAX_RESPONSE
  /\ results \in [Transmits -> [kind : {"none", "Ok", "Err"}, body : Seq(Items)]]
  /\ body \in Seq(Items) /\ toTpm \in Seq(Items) /\ fromTpm \in Seq(Items)
  /\ link \in {"open", "broken"} /\ platform \in {"absent", "open", "broken"}
  /\ signal \in Seq({TPM_SIGNAL_POWER_ON, TPM_SIGNAL_NV_ON}) /\ answer \in Seq({0, 1})
  /\ powerOns \in 0 .. MaxPowerOns /\ power \in {"none", "Ok", "Err", "Usage"}
  /\ powered \in BOOLEAN /\ nv \in BOOLEAN
  /\ delivered \in Seq(Transmits)

\* The response to transmit k, whole.
AnswerTo(k) == {Data(k, n) : n \in ResponseSizes}

\* Transport::transmit promises "exactly one command" delivered and "exactly
\* one response" read back: what a call returns is the answer to its command.
OneResponseEach ==
  \A k \in Transmits : results[k].kind = "Ok" => results[k].body \in AnswerTo(k)

Outcome(k) ==
  IF results[k].kind # "Ok" THEN results[k].kind
  ELSE IF results[k].body \in AnswerTo(k) THEN "Answered" ELSE "Misread"

Contract == INSTANCE Transport WITH
  busy <- pc \in WriteSteps \cup ReadSteps,
  delivered <- {delivered[i] : i \in DOMAIN delivered},
  returned <- [k \in Transmits |-> Outcome(k)]

\* The framing of simulator.rs implements the trait's contract, whatever the
\* lengths, over connections that break in the middle of any field and
\* simulators that refuse: no command overtakes another or is executed twice,
\* and no transmit returns what belongs to another, or part of its own.
TransmitIsOneExchange == Contract!Spec

\* power_on returns Ok only when both signals were obeyed, and NV is never
\* enabled on a TPM that refused power: the first error ends the call.
PowerComesFirst == (nv => powered) /\ (power = "Ok" => powered /\ nv)

\* No call waits forever: client and simulator never both wait for the other to
\* send the rest of a frame.
TransmitReturns == pc # "idle" ~> pc = "idle"
=============================================================================
