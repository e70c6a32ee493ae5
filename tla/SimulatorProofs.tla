-------------------------- MODULE SimulatorProofs ---------------------------
(***************************************************************************)
(* The framing of the simulator's streams keeps commands and responses     *)
(* apart, and power comes before NV, for any number of calls, any lengths  *)
(* and any place a connection breaks at.                                   *)
(***************************************************************************)
EXTENDS Simulator, SequenceTheorems, TLAPS

-----------------------------------------------------------------------------
(* Types.                                                                  *)

\* A call in progress has a number and a command.
ProgressInv ==
  pc \in WriteSteps \cup ReadSteps => transmits \in Transmits /\ size \in CommandSizes

\* A locality is followed by the length of a command, and what comes after is of
\* some transmit: all the simulator needs to take a request off the stream.
HeaderInv ==
  /\ \A i \in 1 .. Len(toTpm) :
       /\ toTpm[i].what = "data" => toTpm[i].of \in Transmits
       /\ toTpm[i].what = "u8" /\ i < Len(toTpm) => toTpm[i + 1].what = "u32" /\ toTpm[i + 1].val > 0
  /\ link = "open" /\ toTpm # << >> /\ toTpm[Len(toTpm)].what = "u8" => pc = "length"

\* TypeOK, in four parts.
ClientTypes ==
  /\ pc \in {"idle"} \cup WriteSteps \cup ReadSteps \cup SignalSteps
  /\ transmits \in 0 .. MaxTransmits /\ size \in CommandSizes \cup {0}
  /\ locality \in Localities \cup {0} /\ want \in 0 .. MAX_RESPONSE
  /\ results \in [Transmits -> [kind : {"none", "Ok", "Err"}, body : Seq(Items)]]
  /\ body \in Seq(Items)

StreamTypes ==
  /\ toTpm \in Seq(Items) /\ fromTpm \in Seq(Items) /\ link \in {"open", "broken"}
  /\ delivered \in Seq(Transmits)

BoardTypes ==
  /\ platform \in {"absent", "open", "broken"}
  /\ signal \in Seq({TPM_SIGNAL_POWER_ON, TPM_SIGNAL_NV_ON}) /\ answer \in Seq({0, 1})
  /\ powerOns \in 0 .. MaxPowerOns /\ power \in {"none", "Ok", "Err", "Usage"}

SwitchTypes == powered \in BOOLEAN /\ nv \in BOOLEAN

LEMMA TypesInParts == TypeOK <=> ClientTypes /\ StreamTypes /\ BoardTypes /\ SwitchTypes
  BY Zenon DEF TypeOK, ClientTypes, StreamTypes, BoardTypes, SwitchTypes

TypeInv == ClientTypes /\ StreamTypes /\ BoardTypes /\ SwitchTypes /\ ProgressInv /\ HeaderInv

-----------------------------------------------------------------------------
(* Power.                                                                  *)

Waits == {"power wait", "nv wait"}

\* At most one signal or answer is on its way; on an open connection the client
\* waits for it, and an answer 0 tells that the switch is on.
PowerInv ==
  /\ signal = << >> \/ answer = << >>
  /\ signal \in {<< >>, << TPM_SIGNAL_POWER_ON >>, << TPM_SIGNAL_NV_ON >>}
  /\ answer \in {<< >>, << 0 >>, << 1 >>}
  /\ signal = << TPM_SIGNAL_NV_ON >> => powered
  /\ signal = << TPM_SIGNAL_POWER_ON >> /\ platform = "open" => pc = "power wait"
  /\ signal = << TPM_SIGNAL_NV_ON >> /\ platform = "open" => pc = "nv wait"
  /\ answer # << >> => pc \in Waits
  /\ answer = << 0 >> => powered /\ (pc = "nv wait" => nv)
  /\ pc \in {"nv on", "nv wait"} => powered
  /\ PowerComesFirst

-----------------------------------------------------------------------------
(* Exchanges.                                                              *)

Delivered == {delivered[i] : i \in DOMAIN delivered}

RequestItem(k, l, n, i) ==
  IF i = 1 THEN U32(TPM_SEND_COMMAND)[1]
  ELSE IF i = 2 THEN U8(l)[1]
  ELSE IF i = 3 THEN U32(n)[1]
  ELSE Data(k, n)[i - 3]

ReplyItem(k, n, rc, i) ==
  IF i = 1 THEN U32(n)[1]
  ELSE IF i = n + 2 THEN U32(rc)[1]
  ELSE Data(k, n)[i - 1]

\* The data stream has, behind e session ends, part of the request of call k.
Carries(e, k, l, n) ==
  /\ e <= Len(toTpm) /\ Len(toTpm) <= e + n + 3
  /\ e = 1 => toTpm[1] = U32(TPM_SESSION_END)[1]
  /\ \A i \in e + 1 .. Len(toTpm) : toTpm[i] = RequestItem(k, l, n, i - e)

\* How many items of its request the call in progress has written.
Written ==
  IF pc = "locality" THEN {1}
  ELSE IF pc = "length" THEN {2}
  ELSE IF pc = "command" THEN {3}
  ELSE IF pc = "announced" THEN {0, size + 3}
  ELSE {0}

\* It is the request of one call, not executed yet, nor any later one; while the
\* connection is open, of the call in progress.
Requested(e, k, l, n) ==
  /\ Carries(e, k, l, n)
  /\ Len(toTpm) > e => k \in 1 .. transmits /\ n > 0 /\ \A d \in Delivered : d < k
  /\ link = "open" => Len(toTpm) - e \in Written
  /\ link = "open" /\ Len(toTpm) > e => k = transmits /\ l = locality /\ n = size

RequestInv ==
  \E e \in {0, 1}, k \in Transmits \cup {0}, l \in Localities \cup {0}, n \in CommandSizes \cup {0} :
    Requested(e, k, l, n)

\* What the client reads is part of one reply, to the command of its call.
Reads(n, rc, off) ==
  /\ Len(fromTpm) <= n + 2 - off
  /\ \A i \in 1 .. Len(fromTpm) : fromTpm[i] = ReplyItem(transmits, n, rc, i + off)

Offset(n) == IF pc = "announced" THEN 0 ELSE IF pc = "body" THEN 1 ELSE n + 1

ReplyInv ==
  /\ pc \notin ReadSteps => fromTpm = << >>
  /\ pc \in {"body", "trailer"} \/ fromTpm # << >> =>
       /\ transmits \in Delivered
       /\ \E n \in 0 .. MAX_RESPONSE, rc \in {0, 1} :
            /\ rc = 0 => n \in ResponseSizes
            /\ rc = 1 => n = 0
            /\ Reads(n, rc, Offset(n))
            /\ pc # "announced" => want = n
            /\ pc = "trailer" => body = Data(transmits, n)

\* A command on an open connection is executed after it is written; results are
\* of calls that have ended.
CallInv ==
  /\ Delivered \subseteq 1 .. transmits
  /\ link = "open" /\ pc \in WriteSteps => transmits \notin Delivered
  /\ \A k \in Transmits : k > transmits \/ (k = transmits /\ pc \in WriteSteps \cup ReadSteps) =>
       results[k].kind = "none"
  /\ \A k \in Transmits : results[k].kind = "Ok" => results[k].body \in AnswerTo(k)

Inv == TypeInv /\ RequestInv /\ ReplyInv /\ CallInv

-----------------------------------------------------------------------------
(* Streams.                                                                *)

\* The first items of a stream.
LEMMA TakeProperties ==
  ASSUME NEW S, NEW s \in Seq(S), NEW n \in 0 .. Len(s)
  PROVE  /\ Take(s, n) \in Seq(S) /\ Len(Take(s, n)) = n
         /\ \A i \in 1 .. n : Take(s, n)[i] = s[i]
  BY DEF Take

\* The rest of it.
LEMMA DropProperties ==
  ASSUME NEW S, NEW s \in Seq(S), NEW n \in 0 .. Len(s)
  PROVE  /\ Drop(s, n) \in Seq(S) /\ Len(Drop(s, n)) = Len(s) - n
         /\ \A i \in 1 .. Len(s) - n : Drop(s, n)[i] = s[i + n]
  BY DEF Drop

LEMMA TailProperties ==
  ASSUME NEW S, NEW s \in Seq(S), s # << >>
  PROVE  /\ Tail(s) \in Seq(S) /\ Len(Tail(s)) = Len(s) - 1 /\ Len(s) > 0
         /\ Head(s) = s[1] /\ s[1] \in S
         /\ \A i \in 1 .. Len(s) - 1 : Tail(s)[i] = s[i + 1]
  OBVIOUS

LEMMA JoinProperties ==
  ASSUME NEW S, NEW s \in Seq(S), NEW t \in Seq(S)
  PROVE  /\ s \o t \in Seq(S) /\ Len(s \o t) = Len(s) + Len(t)
         /\ \A i \in 1 .. Len(s) : (s \o t)[i] = s[i]
         /\ \A i \in 1 .. Len(t) : (s \o t)[Len(s) + i] = t[i]
  OBVIOUS

\* What is written is made of items.
LEMMA NumberItems ==
  ASSUME NEW n \in Nat
  PROVE  /\ U32(n) \in Seq(Items) /\ Len(U32(n)) = 1
         /\ U32(n)[1] = [what |-> "u32", val |-> n, of |-> 0]
         /\ U32(n)[1].what = "u32" /\ U32(n)[1].val = n
         /\ U8(n) \in Seq(Items) /\ Len(U8(n)) = 1
         /\ U8(n)[1] = [what |-> "u8", val |-> n, of |-> 0]
         /\ U8(n)[1].what = "u8"
  <1>1. /\ [what |-> "u32", val |-> n, of |-> 0] \in Items
        /\ [what |-> "u8", val |-> n, of |-> 0] \in Items
    BY SizesAreNumbers DEF Items
  <1> QED BY <1>1 DEF U32, U8

LEMMA DataItems ==
  ASSUME NEW k \in 0 .. MaxTransmits, NEW n \in Nat
  PROVE  /\ Data(k, n) \in Seq(Items) /\ Len(Data(k, n)) = n
         /\ \A i \in 1 .. n : /\ Data(k, n)[i] = [what |-> "data", val |-> i, of |-> k]
                           /\ Data(k, n)[i].what = "data" /\ Data(k, n)[i].of = k
  <1>1. \A i \in 1 .. n : [what |-> "data", val |-> i, of |-> k] \in Items
    BY DEF Items
  <1> QED BY <1>1 DEF Data

LEMMA Codes ==
  /\ TPM_SEND_COMMAND \in Nat /\ TPM_SESSION_END \in Nat /\ TPM_SEND_COMMAND # TPM_SESSION_END
  /\ TPM_SIGNAL_POWER_ON \in Nat /\ TPM_SIGNAL_NV_ON \in Nat
  /\ TPM_SIGNAL_POWER_ON # TPM_SIGNAL_NV_ON
  BY DEF TPM_SEND_COMMAND, TPM_SESSION_END, TPM_SIGNAL_POWER_ON, TPM_SIGNAL_NV_ON

-----------------------------------------------------------------------------
(* Types are kept.                                                         *)

LEMMA InitTypes == Init => TypeInv
  <1> SUFFICES ASSUME Init
               PROVE  TypeInv
    OBVIOUS
  <1>1. results \in [Transmits -> [kind : {"none", "Ok", "Err"}, body : Seq(Items)]]
    <2>1. << >> \in Seq(Items)
      OBVIOUS
    <2>2. [kind |-> "none", body |-> << >>] \in [kind : {"none", "Ok", "Err"}, body : Seq(Items)]
      BY <2>1
    <2> QED BY <2>2 DEF Init
  <1>2. ClientTypes /\ StreamTypes
    BY <1>1, SizesAreNumbers DEF Init, ClientTypes, StreamTypes
  <1>4. BoardTypes
    BY SizesAreNumbers DEF Init, BoardTypes
  <1>5. SwitchTypes
    BY Zenon DEF Init, SwitchTypes
  <1>3. ProgressInv /\ HeaderInv
    BY DEF Init, ProgressInv, HeaderInv, WriteSteps, ReadSteps
  <1> QED BY <1>2, <1>3, <1>4, <1>5 DEF TypeInv

LEMMA HeaderStays ==
  ASSUME HeaderInv, UNCHANGED << transmits, toTpm, link >>, pc = "length" /\ link = "open" => pc' = pc
  PROVE  HeaderInv'
  BY DEF HeaderInv

\* The calls of the client.
LEMMA CallTypes ==
  ASSUME TypeInv, Calls
  PROVE  TypeInv'
  <1>0. ClientTypes /\ StreamTypes /\ BoardTypes /\ SwitchTypes /\ ProgressInv /\ HeaderInv
    BY DEF TypeInv
  <1>1. ASSUME NEW n \in CommandSizes, transmit(n)
        PROVE  TypeInv'
    <2>1. ClientTypes'
      BY <1>0, <1>1, SizesAreNumbers DEF transmit, ClientTypes, WriteSteps
    <2>4. (StreamTypes /\ BoardTypes /\ SwitchTypes)'
      BY <1>0, <1>1 DEF transmit, StreamTypes, BoardTypes, SwitchTypes, board
    <2>2. ProgressInv'
      BY <1>0, <1>1, SizesAreNumbers DEF transmit, ClientTypes, ProgressInv, Transmits
    <2>3. HeaderInv'
      BY <1>0, <1>1 DEF transmit, HeaderInv
    <2> QED BY <2>1, <2>2, <2>3, <2>4 DEF TypeInv
  <1>2. ASSUME NEW l \in Localities, set_locality(l)
        PROVE  TypeInv'
    <2>1. (ClientTypes /\ StreamTypes /\ BoardTypes /\ SwitchTypes)'
      BY <1>0, <1>2 DEF set_locality, ClientTypes, StreamTypes, BoardTypes, SwitchTypes, board
    <2>2. ProgressInv' /\ HeaderInv'
      BY <1>0, <1>2 DEF set_locality, ProgressInv, HeaderInv
    <2> QED BY <2>1, <2>2 DEF TypeInv
  <1>3. ASSUME session_end
        PROVE  TypeInv'
    <2>1. toTpm' = U32(TPM_SESSION_END) /\ U32(TPM_SESSION_END) \in Seq(Items)
          /\ Len(U32(TPM_SESSION_END)) = 1 /\ U32(TPM_SESSION_END)[1].what = "u32"
      <3>1. PICK items : items = U32(TPM_SESSION_END)
        OBVIOUS
      <3>2. items \in Seq(Items) /\ Len(items) = 1 /\ items[1].what = "u32"
        BY <3>1, NumberItems, Codes
      <3>3. toTpm' = << >> \o items
        BY <1>3, <3>1 DEF session_end, Sent
      <3> QED BY <3>1, <3>2, <3>3
    <2>2. (ClientTypes /\ StreamTypes /\ BoardTypes /\ SwitchTypes)'
      BY <1>0, <1>3, <2>1 DEF session_end, ClientTypes, StreamTypes, BoardTypes, SwitchTypes, board
    <2>3. ProgressInv' /\ HeaderInv'
      BY <1>0, <1>3, <2>1 DEF session_end, ProgressInv, HeaderInv
    <2> QED BY <2>2, <2>3 DEF TypeInv
  <1>4. ASSUME power_on
        PROVE  TypeInv'
    <2>1. ClientTypes'
      BY <1>0, <1>4 DEF power_on, ClientTypes, data, SignalSteps
    <2>3. BoardTypes'
      <3>1. powerOns < MaxPowerOns /\ powerOns' = powerOns + 1 /\ UNCHANGED << platform, signal, answer >>
            /\ power' \in {"none", "Usage"}
        BY <1>4 DEF power_on
      <3>2. powerOns' \in 0 .. MaxPowerOns
        BY <1>0, <3>1, SizesAreNumbers DEF BoardTypes
      <3> QED BY <1>0, <3>1, <3>2 DEF BoardTypes
    <2>4. (StreamTypes /\ SwitchTypes)'
      BY <1>0, <1>4 DEF power_on, StreamTypes, SwitchTypes, data
    <2>2. ProgressInv' /\ HeaderInv'
      BY <1>0, <1>4 DEF power_on, data, ProgressInv, HeaderInv, WriteSteps, ReadSteps
    <2> QED BY <2>1, <2>2, <2>3, <2>4 DEF TypeInv
  <1> QED BY <1>1, <1>2, <1>3, <1>4 DEF Calls

\* A field of a request: what is written and what comes next.
LEMMA Portions ==
  ASSUME TypeInv, pc \in WriteSteps
  PROVE  /\ Portion(pc) \in Seq(Items)
         /\ pc = "selector" => Portion(pc) = U32(TPM_SEND_COMMAND) /\ After(pc) = "locality"
         /\ pc = "locality" => Portion(pc) = U8(locality) /\ After(pc) = "length"
         /\ pc = "length" => Portion(pc) = U32(size) /\ After(pc) = "command"
         /\ pc = "command" => Portion(pc) = Data(transmits, size) /\ After(pc) = "announced"
         /\ size \in Nat /\ size > 0 /\ transmits \in Transmits /\ transmits \in 0 .. MaxTransmits
         /\ locality \in Nat /\ size \in CommandSizes
  <1>1. size \in Nat /\ size > 0 /\ transmits \in Transmits /\ transmits \in 0 .. MaxTransmits
        /\ size \in CommandSizes
    BY SizesAreNumbers DEF TypeInv, ProgressInv, ClientTypes
  <1>2. locality \in Nat
    BY SizesAreNumbers DEF TypeInv, ClientTypes
  <1>3. pc = "selector" => Portion(pc) = U32(TPM_SEND_COMMAND) /\ After(pc) = "locality"
    BY DEF Portion, After
  <1>4. pc = "locality" => Portion(pc) = U8(locality) /\ After(pc) = "length"
    BY DEF Portion, After
  <1>5. pc = "length" => Portion(pc) = U32(size) /\ After(pc) = "command"
    BY DEF Portion, After
  <1>6. pc = "command" => Portion(pc) = Data(transmits, size) /\ After(pc) = "announced"
    BY DEF Portion, After
  <1>7. Portion(pc) \in Seq(Items)
    <2>1. ASSUME NEW n \in Nat
          PROVE  U32(n) \in Seq(Items) /\ U8(n) \in Seq(Items)
      BY NumberItems
    <2>2. PICK k, n : k = transmits /\ n = size
      OBVIOUS
    <2>3. Data(k, n) \in Seq(Items)
      BY <1>1, <2>2, DataItems
    <2> QED BY <1>1, <1>2, <1>3, <1>4, <1>5, <1>6, <2>1, <2>2, <2>3, Codes DEF WriteSteps
  <1> QED BY <1>1, <1>2, <1>3, <1>4, <1>5, <1>6, <1>7

LEMMA WriteTypes ==
  ASSUME TypeInv, WriteNext
  PROVE  TypeInv'
  <1>0. ClientTypes /\ StreamTypes /\ BoardTypes /\ SwitchTypes /\ ProgressInv /\ HeaderInv
    BY DEF TypeInv
  <1>1. /\ pc \in WriteSteps /\ pc' = After(pc)
        /\ toTpm' = IF link = "open" THEN toTpm \o Portion(pc) ELSE toTpm
        /\ UNCHANGED << transmits, size, link >>
    BY DEF WriteNext, Sent
  <1>2. After(pc) \in WriteSteps \cup ReadSteps
    BY <1>1, Portions DEF WriteSteps, ReadSteps
  <1>3. toTpm \in Seq(Items) /\ Portion(pc) \in Seq(Items)
    BY <1>0, <1>1, Portions DEF StreamTypes
  <1>4. toTpm' \in Seq(Items)
    BY <1>1, <1>3, JoinProperties
  <1>5. ClientTypes' /\ StreamTypes'
    BY <1>0, <1>1, <1>2, <1>4 DEF WriteNext, ClientTypes, StreamTypes
  <1>8. BoardTypes' /\ SwitchTypes'
    BY <1>0 DEF WriteNext, BoardTypes, SwitchTypes, board
  <1>6. ProgressInv'
    BY <1>0, <1>1, <1>2 DEF ProgressInv
  <1>7. HeaderInv'
    <2>1. CASE link = "open"
      <3>1. PICK p \in Seq(Items) : p = Portion(pc) /\ toTpm' = toTpm \o p
        BY <1>1, <1>3, <2>1
      <3>2. /\ Len(toTpm') = Len(toTpm) + Len(p) /\ Len(toTpm) \in Nat /\ Len(p) \in Nat
            /\ \A i \in 1 .. Len(toTpm) : toTpm'[i] = toTpm[i]
            /\ \A i \in 1 .. Len(p) : toTpm'[Len(toTpm) + i] = p[i]
        BY <1>3, <3>1, JoinProperties
      <3>3. \A i \in 1 .. Len(toTpm') : i > Len(toTpm) => i - Len(toTpm) \in 1 .. Len(p) /\ toTpm'[i] = p[i - Len(toTpm)]
        BY <3>2
      <3>4. /\ pc \in {"selector", "locality", "length"} => Len(p) = 1
            /\ pc \in {"selector", "length"} => p[1].what = "u32"
            /\ pc = "length" => p[1].val > 0
            /\ pc = "locality" => p[1].what = "u8"
        <4>1. ASSUME NEW n \in Nat
              PROVE  /\ Len(U32(n)) = 1 /\ U32(n)[1].what = "u32" /\ U32(n)[1].val = n
                     /\ Len(U8(n)) = 1 /\ U8(n)[1].what = "u8"
          BY NumberItems
        <4>2. CASE pc = "selector"
          <5>1. p = U32(TPM_SEND_COMMAND) /\ TPM_SEND_COMMAND \in Nat
            BY <1>1, <3>1, <4>2, Portions, Codes
          <5> QED BY <4>1, <4>2, <5>1
        <4>3. CASE pc = "locality"
          <5>1. p = U8(locality) /\ locality \in Nat
            BY <1>1, <3>1, <4>3, Portions
          <5> QED BY <4>1, <4>3, <5>1
        <4>4. CASE pc = "length"
          <5>1. p = U32(size) /\ size \in Nat /\ size > 0
            BY <1>1, <3>1, <4>4, Portions
          <5> QED BY <4>1, <4>4, <5>1
        <4> QED BY <4>2, <4>3, <4>4
      <3>6. pc = "command" => Len(p) > 0 /\ \A i \in 1 .. Len(p) : p[i].what = "data" /\ p[i].of \in Transmits
        <4>1. ASSUME pc = "command"
              PROVE  p = Data(transmits, size) /\ size \in Nat /\ size > 0 /\ transmits \in Transmits
                     /\ transmits \in 0 .. MaxTransmits
          BY <1>1, <3>1, <4>1, Portions
        <4>2. PICK k, n : k = transmits /\ n = size
          OBVIOUS
        <4>3. ASSUME pc = "command"
              PROVE  Len(p) = n /\ \A i \in 1 .. n : p[i] = [what |-> "data", val |-> i, of |-> k]
          BY <4>1, <4>2, <4>3, DataItems
        <4> QED BY <4>1, <4>2, <4>3
      <3>7. Len(p) > 0 /\ \A i \in 1 .. Len(p) : p[i].what = "data" => p[i].of \in Transmits
        BY <1>1, <3>4, <3>6 DEF WriteSteps
      <3>8. \A i \in 1 .. Len(p) : p[i].what = "u8" => i = Len(p) /\ pc = "locality"
        <4>1. CASE pc = "command"
          BY <3>6, <4>1
        <4>2. CASE pc # "command"
          <5>1. Len(p) = 1 /\ (p[1].what = "u8" => pc = "locality")
            BY <1>1, <3>4, <4>2 DEF WriteSteps
          <5> QED BY <5>1
        <4> QED BY <4>1, <4>2
      <3>9. toTpm # << >> /\ toTpm[Len(toTpm)].what = "u8" => pc = "length"
        BY <1>0, <2>1 DEF HeaderInv
      <3>10. Len(toTpm) > 0 /\ toTpm[Len(toTpm)].what = "u8" => toTpm'[Len(toTpm) + 1].what = "u32" /\ toTpm'[Len(toTpm) + 1].val > 0
        <4>1. 1 \in 1 .. Len(p)
          BY <3>2, <3>7
        <4> QED BY <3>2, <3>4, <3>9, <4>1
      <3>11. ASSUME NEW i \in 1 .. Len(toTpm')
             PROVE  /\ toTpm'[i].what = "data" => toTpm'[i].of \in Transmits
                    /\ toTpm'[i].what = "u8" /\ i < Len(toTpm') =>
                         toTpm'[i + 1].what = "u32" /\ toTpm'[i + 1].val > 0
        <4>1. CASE i > Len(toTpm)
          BY <3>2, <3>3, <3>7, <3>8, <4>1
        <4>2. CASE i = Len(toTpm)
          BY <1>0, <3>2, <3>10, <4>2 DEF HeaderInv
        <4>3. CASE i < Len(toTpm)
          <5>1. i \in 1 .. Len(toTpm) /\ i + 1 \in 1 .. Len(toTpm)
            BY <3>2, <4>3
          <5> QED BY <1>0, <3>2, <4>3, <5>1 DEF HeaderInv
        <4> QED BY <3>2, <4>1, <4>2, <4>3
      <3>12. Len(toTpm') \in 1 .. Len(toTpm') /\ Len(toTpm') > Len(toTpm)
        BY <3>2, <3>7
      <3>13. toTpm'[Len(toTpm')].what = "u8" => pc' = "length"
        BY <1>1, <3>3, <3>8, <3>12, Portions
      <3> QED BY <3>11, <3>13, <1>1 DEF HeaderInv
    <2>2. CASE link # "open"
      BY <1>0, <1>1, <2>2 DEF HeaderInv
    <2> QED BY <2>1, <2>2
  <1> QED BY <1>5, <1>6, <1>7, <1>8 DEF TypeInv

\* Ending the call in progress.
LEMMA ReturnTypes ==
  ASSUME ClientTypes, ProgressInv, pc \in WriteSteps \cup ReadSteps,
         NEW kind \in {"Ok", "Err"}, NEW resp \in Seq(Items), Return(kind, resp)
  PROVE  /\ pc' = "idle" /\ transmits \in Transmits
         /\ results' \in [Transmits -> [kind : {"none", "Ok", "Err"}, body : Seq(Items)]]
         /\ results'[transmits].kind = kind /\ results'[transmits].body = resp
         /\ \A k \in Transmits : k # transmits => results'[k] = results[k]
  <1>1. /\ pc' = "idle" /\ transmits \in Transmits
        /\ results' = [results EXCEPT ![transmits] = [kind |-> kind, body |-> resp]]
    BY DEF Return, ProgressInv
  <1>2. [kind |-> kind, body |-> resp] \in [kind : {"none", "Ok", "Err"}, body : Seq(Items)]
    OBVIOUS
  <1>3. results \in [Transmits -> [kind : {"none", "Ok", "Err"}, body : Seq(Items)]]
    BY DEF ClientTypes
  <1>4. results' \in [Transmits -> [kind : {"none", "Ok", "Err"}, body : Seq(Items)]]
    BY <1>1, <1>2, <1>3
  <1>5. results'[transmits] = [kind |-> kind, body |-> resp]
    BY <1>1, <1>3
  <1>6. \A k \in Transmits : k # transmits => results'[k] = results[k]
    BY <1>1, <1>3
  <1> QED BY <1>1, <1>4, <1>5, <1>6

\* A step of the client that reads, or gives up.
LEMMA ReadTypes ==
  ASSUME TypeInv, pc \in WriteSteps \cup ReadSteps,
         UNCHANGED << transmits, size, locality, toTpm, link, delivered, board >>,
         fromTpm' \in Seq(Items), body' \in Seq(Items), want' \in 0 .. MAX_RESPONSE,
         \/ pc' \in ReadSteps /\ UNCHANGED results
         \/ \E kind \in {"Ok", "Err"}, resp \in Seq(Items) : Return(kind, resp),
         pc \in ReadSteps \/ link = "broken"
  PROVE  TypeInv'
  <1>0. ClientTypes /\ StreamTypes /\ BoardTypes /\ SwitchTypes /\ ProgressInv /\ HeaderInv
    BY DEF TypeInv
  <1>1. pc' \in ReadSteps \cup {"idle"}
        /\ results' \in [Transmits -> [kind : {"none", "Ok", "Err"}, body : Seq(Items)]]
    BY <1>0, ReturnTypes DEF ClientTypes
  <1>2. ClientTypes'
    BY <1>0, <1>1 DEF ClientTypes
  <1>3. StreamTypes'
    BY <1>0 DEF StreamTypes
  <1>4. BoardTypes' /\ SwitchTypes'
    BY <1>0 DEF BoardTypes, SwitchTypes, board
  <1>5. ProgressInv'
    BY <1>0, <1>1 DEF ProgressInv
  <1>6. HeaderInv'
    BY <1>0, HeaderStays DEF ReadSteps
  <1> QED BY <1>2, <1>3, <1>4, <1>5, <1>6 DEF TypeInv

\* Steps of the power signals.
LEMMA BoardStepTypes ==
  ASSUME TypeInv, pc \in SignalSteps \/ pc' = pc, pc' \in SignalSteps \cup {"idle"} \/ pc' = pc,
         UNCHANGED << transmits, data >>, BoardTypes', SwitchTypes'
  PROVE  TypeInv'
  <1>0. ClientTypes /\ StreamTypes /\ ProgressInv /\ HeaderInv
    BY DEF TypeInv
  <1>1. ClientTypes'
    BY <1>0 DEF ClientTypes, data
  <1>2. StreamTypes'
    BY <1>0 DEF StreamTypes, data
  <1>3. ProgressInv'
    BY <1>0 DEF ProgressInv, data, SignalSteps, WriteSteps, ReadSteps
  <1>4. HeaderInv'
    BY <1>0, HeaderStays DEF data, SignalSteps
  <1> QED BY <1>1, <1>2, <1>3, <1>4 DEF TypeInv

\* Steps of the data stream's simulator, and of the network: what remains to be
\* read is a part of the stream that begins before m and ends at n.
LEMMA StreamStepTypes ==
  ASSUME TypeInv, UNCHANGED << pc, transmits, size, locality, want, body, results, board >>,
         fromTpm' \in Seq(Items), link' \in {"open", "broken"}, link' = "open" => link = "open",
         delivered' \in Seq(Transmits), toTpm' \in Seq(Items),
         NEW m \in Nat, m + Len(toTpm') <= Len(toTpm),
         \A i \in 1 .. Len(toTpm') : toTpm'[i] = toTpm[i + m],
         link' = "open" => m + Len(toTpm') = Len(toTpm)
  PROVE  TypeInv'
  <1>0. ClientTypes /\ StreamTypes /\ BoardTypes /\ SwitchTypes /\ ProgressInv /\ HeaderInv
    BY DEF TypeInv
  <1>1. ClientTypes' /\ ProgressInv'
    BY <1>0 DEF ClientTypes, ProgressInv
  <1>2. StreamTypes'
    BY DEF StreamTypes
  <1>3. BoardTypes' /\ SwitchTypes'
    BY <1>0 DEF BoardTypes, SwitchTypes, board
  <1>4. HeaderInv'
    <2>1. Len(toTpm) \in Nat /\ Len(toTpm') \in Nat
      BY <1>0 DEF StreamTypes
    <2>2. ASSUME NEW i \in 1 .. Len(toTpm')
          PROVE  /\ toTpm'[i].what = "data" => toTpm'[i].of \in Transmits
                 /\ toTpm'[i].what = "u8" /\ i < Len(toTpm') =>
                      toTpm'[i + 1].what = "u32" /\ toTpm'[i + 1].val > 0
      <3>1. i + m \in 1 .. Len(toTpm) /\ toTpm'[i] = toTpm[i + m]
        BY <2>1
      <3>2. ASSUME i < Len(toTpm')
            PROVE  i + m < Len(toTpm) /\ toTpm'[i + 1] = toTpm[(i + m) + 1]
        <4>1. i + 1 \in 1 .. Len(toTpm') /\ (i + 1) + m = (i + m) + 1 /\ i + m < Len(toTpm)
          BY <2>1, <3>2
        <4>2. toTpm'[i + 1] = toTpm[(i + 1) + m]
          BY <4>1
        <4> QED BY <4>1, <4>2
      <3> QED BY <1>0, <3>1, <3>2 DEF HeaderInv
    <2>3. ASSUME link' = "open", toTpm' # << >>, toTpm'[Len(toTpm')].what = "u8"
          PROVE  pc' = "length"
      <3>1. Len(toTpm') > 0 /\ m + Len(toTpm') = Len(toTpm)
        <4>1. PICK t \in Seq(Items) : t = toTpm'
          OBVIOUS
        <4>2. Len(t) > 0
          BY <2>3, <4>1, EmptySeq
        <4> QED BY <2>3, <4>1, <4>2
      <3>2. Len(toTpm') \in 1 .. Len(toTpm') /\ Len(toTpm') + m = Len(toTpm)
        BY <2>1, <3>1
      <3>3. toTpm[Len(toTpm)].what = "u8" /\ toTpm # << >>
        BY <2>3, <3>2
      <3> QED BY <1>0, <2>3, <3>3 DEF HeaderInv
    <2> QED BY <2>2, <2>3 DEF HeaderInv
  <1> QED BY <1>1, <1>2, <1>3, <1>4 DEF TypeInv

LEMMA RunTypes ==
  ASSUME TypeInv, Run
  PROVE  TypeInv'
  <1>0. ClientTypes /\ StreamTypes /\ BoardTypes /\ SwitchTypes /\ ProgressInv /\ HeaderInv
    BY DEF TypeInv
  <1>1. toTpm \in Seq(Items) /\ fromTpm \in Seq(Items) /\ body \in Seq(Items)
        /\ want \in 0 .. MAX_RESPONSE /\ << >> \in Seq(Items)
    BY <1>0 DEF ClientTypes, StreamTypes
  <1>2. CASE WriteFails
    BY <1>1, <1>2, ReadTypes DEF WriteFails
  <1>3. ASSUME NEW n \in 0 .. MAX_RESPONSE + 1, ReadLength(n)
        PROVE  TypeInv'
    <2>1. fromTpm' \in Seq(Items)
      BY <1>1, <1>3, TailProperties DEF ReadLength
    <2>2. pc \in ReadSteps /\ pc' \in {"idle", "body"} /\ want' \in 0 .. MAX_RESPONSE
          /\ (Return("Err", << >>) \/ (pc' \in ReadSteps /\ UNCHANGED results))
      BY <1>1, <1>3, SizesAreNumbers DEF ReadLength, ReadSteps, Return
    <2> QED BY <1>1, <1>3, <2>1, <2>2, ReadTypes DEF ReadLength
  <1>4. ASSUME NEW rc \in 0 .. MAX_RESPONSE + 1, ReadTrailer(rc)
        PROVE  TypeInv'
    <2>1. fromTpm' \in Seq(Items)
      BY <1>1, <1>4, TailProperties DEF ReadTrailer
    <2>2. pc \in ReadSteps /\ (Return("Err", << >>) \/ Return("Ok", body))
      BY <1>4 DEF ReadTrailer, ReadSteps
    <2> QED BY <1>1, <1>4, <2>1, <2>2, ReadTypes DEF ReadTrailer
  <1>5. CASE ReadBody
    <2>1. Len(fromTpm) \in Nat /\ want \in 0 .. Len(fromTpm)
      BY <1>1, <1>5, SizesAreNumbers DEF ReadBody
    <2>2. fromTpm' \in Seq(Items) /\ body' \in Seq(Items)
      BY <1>1, <1>5, <2>1, TakeProperties, DropProperties DEF ReadBody
    <2>3. pc \in ReadSteps /\ pc' \in ReadSteps
      BY <1>5 DEF ReadBody, ReadSteps
    <2> QED BY <1>1, <1>5, <2>2, <2>3, ReadTypes DEF ReadBody
  <1>6. CASE ReadFails
    BY <1>1, <1>6, ReadTypes DEF ReadFails
  <1>7. ASSUME NEW code \in {TPM_SIGNAL_POWER_ON, TPM_SIGNAL_NV_ON}, SendSignal(code)
        PROVE  TypeInv'
    <2>1. pc \in SignalSteps /\ pc' \in SignalSteps \cup {"idle"}
      BY <1>7 DEF SendSignal, SignalSteps, PowerFails
    <2>2. signal' \in Seq({TPM_SIGNAL_POWER_ON, TPM_SIGNAL_NV_ON})
      <3>1. signal' = signal \/ signal' = Append(signal, code)
        BY <1>7 DEF SendSignal
      <3> QED BY <1>0, <3>1 DEF BoardTypes
    <2>3. BoardTypes'
      <3>1. power' \in {"none", "Ok", "Err", "Usage"}
        BY <1>0, <1>7 DEF SendSignal, PowerFails, BoardTypes
      <3> QED BY <1>0, <1>7, <2>2, <3>1 DEF SendSignal, BoardTypes
    <2>4. SwitchTypes' /\ UNCHANGED << transmits, data >>
      BY <1>0, <1>7 DEF SendSignal, SwitchTypes
    <2> QED BY <2>1, <2>3, <2>4, BoardStepTypes
  <1>8. ASSUME NEW rc \in {0, 1}, SignalAnswered(rc)
        PROVE  TypeInv'
    <2>1. pc \in SignalSteps /\ pc' \in SignalSteps \cup {"idle"}
      BY <1>8 DEF SignalAnswered, SignalSteps, PowerFails
    <2>2. answer' \in Seq({0, 1})
      BY <1>0, <1>8, TailProperties DEF SignalAnswered, BoardTypes
    <2>3. BoardTypes'
      <3>1. power' \in {"none", "Ok", "Err", "Usage"}
        BY <1>0, <1>8 DEF SignalAnswered, PowerFails, BoardTypes
      <3> QED BY <1>0, <1>8, <2>2, <3>1 DEF SignalAnswered, BoardTypes
    <2>4. SwitchTypes' /\ UNCHANGED << transmits, data >>
      BY <1>0, <1>8 DEF SignalAnswered, SwitchTypes
    <2> QED BY <2>1, <2>3, <2>4, BoardStepTypes
  <1>9. CASE SignalFails
    <2>1. pc \in SignalSteps /\ pc' \in SignalSteps \cup {"idle"}
      BY <1>9 DEF SignalFails, SignalSteps, PowerFails
    <2>2. BoardTypes' /\ SwitchTypes' /\ UNCHANGED << transmits, data >>
      BY <1>0, <1>9 DEF SignalFails, PowerFails, BoardTypes, SwitchTypes
    <2> QED BY <2>1, <2>2, BoardStepTypes
  <1> QED BY <1>2, <1>3, <1>4, <1>5, <1>6, <1>7, <1>8, <1>9, WriteTypes DEF Run

\* What the simulator takes off the stream is a request with all its parts.
LEMMA WholeRequestShape ==
  ASSUME TypeInv, WholeRequest
  PROVE  /\ toTpm[3].val \in Nat /\ toTpm[3].val > 0 /\ toTpm[4].of \in Transmits
         /\ 3 + toTpm[3].val \in 0 .. Len(toTpm)
  <1>0. toTpm \in Seq(Items) /\ HeaderInv /\ Len(toTpm) \in Nat
    BY DEF TypeInv, StreamTypes
  <1>1. toTpm[2].what = "u8" /\ 2 \in 1 .. Len(toTpm) /\ 2 < Len(toTpm) /\ 3 \in 1 .. Len(toTpm)
        /\ Len(toTpm) >= 3 + toTpm[3].val
    BY <1>0 DEF WholeRequest
  <1>2. toTpm[3].val \in Nat
    <2>1. toTpm[3] \in Items
      BY <1>0, <1>1
    <2> QED BY <2>1 DEF Items
  <1>3. toTpm[3].val > 0
    <2>1. toTpm[2 + 1].val > 0
      BY <1>0, <1>1 DEF HeaderInv
    <2> QED BY <2>1
  <1>4. 4 \in 1 .. Len(toTpm) /\ toTpm[4].what = "data"
    <2>1. 4 \in 1 .. Len(toTpm) /\ 4 \in 4 .. 3 + toTpm[3].val
      BY <1>0, <1>1, <1>2, <1>3
    <2> QED BY <2>1 DEF WholeRequest
  <1>5. toTpm[4].of \in Transmits
    BY <1>0, <1>4 DEF HeaderInv
  <1> QED BY <1>0, <1>1, <1>2, <1>3, <1>5

\* The replies of the simulator are made of items.
LEMMA ReplyTypes ==
  ASSUME NEW k \in Transmits, NEW reply \in Replies(k)
  PROVE  reply \in Seq(Items)
  <1>1. k \in 0 .. MaxTransmits /\ MAX_RESPONSE \in Nat /\ MAX_RESPONSE + 1 \in Nat
    BY SizesAreNumbers DEF Transmits
  <1>2. ASSUME NEW n \in Nat, NEW rc \in Nat
        PROVE  U32(n) \o Data(k, n) \o U32(rc) \in Seq(Items) /\ U32(n) \o U32(rc) \in Seq(Items)
    <2>1. PICK h \in Seq(Items), d \in Seq(Items), t \in Seq(Items) :
            h = U32(n) /\ d = Data(k, n) /\ t = U32(rc)
      BY <1>1, NumberItems, DataItems
    <2>2. h \o d \o t \in Seq(Items) /\ h \o t \in Seq(Items)
      OBVIOUS
    <2> QED BY <2>1, <2>2
  <1>3. \A n \in ResponseSizes : n \in Nat
    BY SizesAreNumbers
  <1> QED BY <1>1, <1>2, <1>3 DEF Replies

LEMMA ServeTypes ==
  ASSUME TypeInv, Serves
  PROVE  TypeInv'
  <1>0. toTpm \in Seq(Items) /\ fromTpm \in Seq(Items) /\ delivered \in Seq(Transmits)
        /\ Len(toTpm) \in Nat /\ link \in {"open", "broken"}
    BY DEF TypeInv, StreamTypes
  <1>1. ASSUME WholeRequest, NEW reply \in Replies(toTpm[4].of), Serve(reply)
        PROVE  TypeInv'
    <2>1. PICK m, k : m = 3 + toTpm[3].val /\ k = toTpm[4].of
      OBVIOUS
    <2>2. m \in 0 .. Len(toTpm) /\ k \in Transmits
      BY <1>1, <2>1, WholeRequestShape
    <2>3. toTpm' = Drop(toTpm, m) /\ delivered' = Append(delivered, k)
          /\ fromTpm' = (IF link = "open" THEN fromTpm \o reply ELSE fromTpm)
          /\ UNCHANGED << pc, transmits, size, locality, want, body, results, link, board >>
      BY <1>1, <2>1 DEF Serve
    <2>4. toTpm' \in Seq(Items) /\ Len(toTpm') = Len(toTpm) - m
          /\ \A i \in 1 .. Len(toTpm) - m : toTpm'[i] = toTpm[i + m]
      BY <1>0, <2>2, <2>3, DropProperties
    <2>10. \A i \in 1 .. Len(toTpm') : toTpm'[i] = toTpm[i + m]
      BY <2>4
    <2>5. fromTpm' \in Seq(Items)
      <3>1. reply \in Seq(Items)
        BY <1>1, <2>1, <2>2, ReplyTypes
      <3> QED BY <1>0, <2>3, <3>1, JoinProperties
    <2>6. delivered' \in Seq(Transmits)
      BY <1>0, <2>2, <2>3
    <2>7. m \in Nat /\ m + Len(toTpm') = Len(toTpm)
      BY <1>0, <2>2, <2>4
    <2>8. m + Len(toTpm') <= Len(toTpm)
      BY <1>0, <2>7
    <2>9. UNCHANGED << pc, transmits, size, locality, want, body, results, board >>
          /\ link' \in {"open", "broken"} /\ (link' = "open" => link = "open")
      BY <1>0, <2>3
    <2> QED BY <2>4, <2>5, <2>6, <2>7, <2>8, <2>9, <2>10, StreamStepTypes
  <1>2. CASE ServeEnd
    <2>1. toTpm' \in Seq(Items) /\ Len(toTpm') = Len(toTpm) - 1
          /\ \A i \in 1 .. Len(toTpm) - 1 : toTpm'[i] = toTpm[i + 1]
      BY <1>0, <1>2, TailProperties DEF ServeEnd
    <2>2. 1 + Len(toTpm') <= Len(toTpm)
      BY <1>0, <2>1
    <2> QED BY <1>0, <1>2, <2>1, <2>2, StreamStepTypes DEF ServeEnd
  <1> QED BY <1>1, <1>2 DEF Serves

LEMMA SignalTypes ==
  ASSUME TypeInv, Signals
  PROVE  TypeInv'
  <1>0. BoardTypes /\ SwitchTypes
    BY DEF TypeInv
  <1>1. PICK rc \in {0, 1} : ServeSignal(rc)
    BY DEF Signals
  <1>2. signal' \in Seq({TPM_SIGNAL_POWER_ON, TPM_SIGNAL_NV_ON})
    BY <1>0, <1>1, TailProperties DEF ServeSignal, BoardTypes
  <1>3. answer' \in Seq({0, 1})
    <2>1. answer' = answer \/ answer' = Append(answer, rc)
      BY <1>1 DEF ServeSignal
    <2> QED BY <1>0, <2>1 DEF BoardTypes
  <1>4. BoardTypes'
    BY <1>0, <1>1, <1>2, <1>3 DEF ServeSignal, BoardTypes
  <1>5. SwitchTypes'
    BY <1>1, Zenon DEF ServeSignal, SwitchTypes
  <1> QED BY <1>1, <1>4, <1>5, BoardStepTypes DEF ServeSignal

LEMMA BreakTypes ==
  ASSUME TypeInv, Breaks
  PROVE  TypeInv'
  <1>0. StreamTypes /\ BoardTypes /\ SwitchTypes
    BY DEF TypeInv
  <1>1. ASSUME NEW out \in 0 .. Len(toTpm), NEW in \in 0 .. Len(fromTpm), Break(out, in)
        PROVE  TypeInv'
    <2>1. toTpm' \in Seq(Items) /\ Len(toTpm') = out /\ \A i \in 1 .. out : toTpm'[i] = toTpm[i]
      BY <1>0, <1>1, TakeProperties DEF Break, StreamTypes
    <2>2. fromTpm' \in Seq(Items)
      BY <1>0, <1>1, TakeProperties DEF Break, StreamTypes
    <2>3. 0 + Len(toTpm') <= Len(toTpm) /\ \A i \in 1 .. Len(toTpm') : toTpm'[i] = toTpm[i + 0]
      BY <1>0, <2>1 DEF StreamTypes
    <2>4. delivered' \in Seq(Transmits)
      BY <1>0, <1>1 DEF Break, StreamTypes
    <2>5. PICK m \in Nat : m = 0
      OBVIOUS
    <2> QED BY <1>1, <2>1, <2>2, <2>3, <2>4, <2>5, StreamStepTypes DEF Break
  <1>2. ASSUME NEW out \in 0 .. Len(signal), NEW in \in 0 .. Len(answer), BreakPlatform(out, in)
        PROVE  TypeInv'
    <2>1. signal' \in Seq({TPM_SIGNAL_POWER_ON, TPM_SIGNAL_NV_ON}) /\ answer' \in Seq({0, 1})
      BY <1>0, <1>2, TakeProperties DEF BreakPlatform, BoardTypes
    <2>2. BoardTypes' /\ SwitchTypes'
      BY <1>0, <1>2, <2>1 DEF BreakPlatform, BoardTypes, SwitchTypes
    <2> QED BY <1>2, <2>2, BoardStepTypes DEF BreakPlatform
  <1> QED BY <1>1, <1>2 DEF Breaks

LEMMA NextTypes == TypeInv /\ [Next]_vars => TypeInv'
  <1> SUFFICES ASSUME TypeInv, [Next]_vars
               PROVE  TypeInv'
    OBVIOUS
  <1>1. CASE UNCHANGED vars
    <2>1. ClientTypes' /\ StreamTypes'
      BY <1>1 DEF TypeInv, ClientTypes, StreamTypes, vars, data
    <2>2. BoardTypes' /\ SwitchTypes'
      BY <1>1 DEF TypeInv, BoardTypes, SwitchTypes, vars, board
    <2>3. ProgressInv' /\ HeaderInv'
      BY <1>1 DEF TypeInv, ProgressInv, HeaderInv, vars, data
    <2> QED BY <2>1, <2>2, <2>3 DEF TypeInv
  <1> QED BY <1>1, CallTypes, RunTypes, ServeTypes, SignalTypes, BreakTypes DEF Next

LEMMA Typed == Spec => []TypeInv
  BY InitTypes, NextTypes, PTL DEF Spec

\* The streams carry items and the variables keep their types, whatever the
\* simulator announces (TypeOK).
THEOREM TypesAreKept == Spec => []TypeOK
  <1>1. TypeInv => TypeOK
    BY TypesInParts DEF TypeInv
  <1> QED BY Typed, <1>1, PTL

-----------------------------------------------------------------------------
(* Power comes first.                                                      *)

\* Streams of at most one signal or answer.
LEMMA Singles ==
  ASSUME NEW x
  PROVE  /\ << x >> # << >> /\ Head(<< x >>) = x /\ Tail(<< x >>) = << >>
         /\ Append(<< >>, x) = << x >> /\ Len(<< x >>) = 1
         /\ Take(<< x >>, 0) = << >> /\ Take(<< x >>, 1) = << x >>
         /\ Take(<< >>, 0) = << >> /\ Len(<< >>) = 0
         /\ \A y : << x >> = << y >> => x = y
  <1>1. /\ << x >> # << >> /\ Head(<< x >>) = x /\ Tail(<< x >>) = << >>
        /\ Append(<< >>, x) = << x >> /\ Len(<< x >>) = 1
    OBVIOUS
  <1>2. \A y : << x >> = << y >> => x = y
    OBVIOUS
  <1>3. /\ << x >> \in Seq({x}) /\ << >> \in Seq({x})
    OBVIOUS
  <1>4. Take(<< x >>, 0) = << >> /\ Take(<< >>, 0) = << >>
    BY <1>1, <1>3 DEF Take
  <1>5. Take(<< x >>, 1) = << x >>
    <2>1. PICK S, s : S = {x} /\ s = << x >>
      OBVIOUS
    <2>2. s \in Seq(S) /\ Len(s) = 1 /\ s[1] = x
      BY <2>1
    <2>3. 1 \in 0 .. Len(s)
      BY <2>2
    <2>4. Take(s, 1) \in Seq(S) /\ Len(Take(s, 1)) = 1 /\ \A i \in 1 .. 1 : Take(s, 1)[i] = s[i]
      BY <2>2, <2>3, TakeProperties
    <2>5. PICK t \in Seq(S) : t = Take(s, 1) /\ Len(t) = 1 /\ t[1] = x
      BY <2>2, <2>4
    <2>6. t = << x >>
      BY <2>5
    <2> QED BY <2>1, <2>5, <2>6
  <1> QED BY <1>1, <1>2, <1>4, <1>5

LEMMA InitPower == Init => PowerInv
  BY DEF Init, PowerInv, PowerComesFirst

\* Steps that do not concern power.
LEMMA PowerStays ==
  ASSUME PowerInv, UNCHANGED board, pc' = pc \/ (pc \notin SignalSteps /\ pc' \notin SignalSteps)
  PROVE  PowerInv'
  BY DEF PowerInv, PowerComesFirst, board, SignalSteps, Waits

\* The client sends a signal, and waits.
LEMMA SendPower ==
  ASSUME PowerInv, NEW code \in {TPM_SIGNAL_POWER_ON, TPM_SIGNAL_NV_ON}, SendSignal(code)
  PROVE  PowerInv'
  <1>1. /\ UNCHANGED << platform, answer, powered, nv >>
        /\ code = TPM_SIGNAL_POWER_ON => pc = "power on"
        /\ code = TPM_SIGNAL_NV_ON => pc = "nv on"
        /\ \/ /\ signal' = IF platform = "open" THEN Append(signal, code) ELSE signal
              /\ code = TPM_SIGNAL_POWER_ON => pc' = "power wait"
              /\ code = TPM_SIGNAL_NV_ON => pc' = "nv wait"
              /\ power' = power
           \/ platform = "broken" /\ PowerFails /\ signal' = signal
    BY Codes DEF SendSignal
  <1>2. answer = << >> /\ (platform = "open" => signal = << >>)
    BY <1>1 DEF PowerInv, Waits
  <1>3. code = TPM_SIGNAL_NV_ON => powered
    BY <1>1 DEF PowerInv
  <1>4. CASE signal' = << code >> /\ platform = "open"
    BY <1>1, <1>2, <1>3, <1>4, Codes DEF PowerInv, PowerComesFirst, PowerFails
  <1>5. CASE signal' = signal /\ platform # "open"
    <2>1. PowerComesFirst'
      BY <1>1 DEF PowerInv, PowerComesFirst, PowerFails
    <2>2. pc' \in {"nv on", "nv wait"} => powered
      BY <1>1, <1>3 DEF PowerFails
    <2> QED BY <1>1, <1>2, <1>5, <2>1, <2>2 DEF PowerInv
  <1>6. platform = "open" => signal' = << code >>
    <2>1. platform = "open" => signal' = Append(signal, code) /\ signal = << >>
      BY <1>1, <1>2
    <2> QED BY <2>1, Singles
  <1>7. platform # "open" => signal' = signal
    BY <1>1
  <1> QED BY <1>4, <1>5, <1>6, <1>7

\* The answer ends the wait: a refusal ends power_on.
LEMMA AnswerPower ==
  ASSUME PowerInv, NEW rc \in {0, 1}, SignalAnswered(rc)
  PROVE  PowerInv'
  <1>1. /\ pc \in Waits /\ answer = << rc >> /\ answer' = << >> /\ signal = << >>
        /\ UNCHANGED << platform, signal, powered, nv >>
    <2>1. answer # << >> /\ rc = Head(answer) /\ answer' = Tail(answer)
      BY DEF SignalAnswered
    <2>2. answer = << rc >> /\ answer' = << >>
      <3>1. PICK x \in {0, 1} : answer = << x >>
        BY <2>1 DEF PowerInv
      <3> QED BY <2>1, <3>1, Singles
    <2> QED BY <2>1, <2>2 DEF SignalAnswered, PowerInv, Waits
  <1>2. \/ power' = "Err" /\ pc' = "idle"
        \/ rc = 0 /\ pc = "power wait" /\ pc' = "nv on" /\ power' = power
        \/ rc = 0 /\ pc = "nv wait" /\ pc' = "idle" /\ power' = "Ok"
    BY <1>1 DEF SignalAnswered, PowerFails, Waits
  <1>3. rc = 0 => powered /\ (pc = "nv wait" => nv)
    BY <1>1 DEF PowerInv
  <1> QED BY <1>1, <1>2, <1>3, Codes DEF PowerInv, PowerComesFirst

\* The simulator obeys a signal or refuses it.
LEMMA ObeyPower ==
  ASSUME PowerInv, BoardTypes, NEW rc \in {0, 1}, ServeSignal(rc)
  PROVE  PowerInv'
  <1>1. PICK code \in {TPM_SIGNAL_POWER_ON, TPM_SIGNAL_NV_ON} : signal = << code >>
    BY DEF ServeSignal, PowerInv
  <1>2. /\ signal' = << >> /\ answer = << >> /\ Head(signal) = code
        /\ answer' = IF platform = "open" THEN << rc >> ELSE << >>
        /\ UNCHANGED << pc, platform, power >>
    <2>1. << code >> # << >> /\ Head(<< code >>) = code /\ Tail(<< code >>) = << >>
          /\ Append(<< >>, rc) = << rc >>
      BY Singles
    <2>2. answer = << >>
      BY <1>1, <2>1 DEF PowerInv
    <2> QED BY <1>1, <2>1, <2>2 DEF ServeSignal
  <1>3. /\ powered' <=> powered \/ (rc = 0 /\ code = TPM_SIGNAL_POWER_ON)
        /\ nv' <=> nv \/ (rc = 0 /\ code = TPM_SIGNAL_NV_ON)
    BY <1>2, Zenon DEF ServeSignal
  <1>4. code = TPM_SIGNAL_NV_ON => powered
    BY <1>1 DEF PowerInv
  <1>5. platform = "open" =>
          \/ code = TPM_SIGNAL_POWER_ON /\ pc = "power wait"
          \/ code = TPM_SIGNAL_NV_ON /\ pc = "nv wait"
    BY <1>1 DEF PowerInv
  <1>6. PowerComesFirst'
    BY <1>2, <1>3, <1>4, Zenon DEF PowerInv, PowerComesFirst
  <1>7. pc \in {"nv on", "nv wait"} => powered
    BY DEF PowerInv
  <1> QED BY <1>2, <1>3, <1>4, <1>5, <1>6, <1>7, Codes DEF PowerInv, Waits

LEMMA NextPower == TypeInv /\ PowerInv /\ [Next]_vars => PowerInv'
  <1> SUFFICES ASSUME TypeInv, PowerInv, [Next]_vars
               PROVE  PowerInv'
    OBVIOUS
  <1>1. CASE UNCHANGED vars
    BY <1>1, PowerStays DEF vars
  <1>2. CASE Calls
    <2>1. ASSUME NEW n, transmit(n)
          PROVE  PowerInv'
      BY <2>1, PowerStays DEF transmit, SignalSteps
    <2>2. ASSUME NEW l, set_locality(l)
          PROVE  PowerInv'
      BY <2>2, PowerStays DEF set_locality
    <2>3. ASSUME session_end
          PROVE  PowerInv'
      BY <2>3, PowerStays DEF session_end
    <2>4. ASSUME power_on
          PROVE  PowerInv'
      <3>1. pc = "idle" /\ pc' \in {"idle", "power on"} /\ power' # "Ok"
            /\ UNCHANGED << platform, signal, answer, powered, nv >>
        BY <2>4 DEF power_on
      <3> QED BY <3>1 DEF PowerInv, PowerComesFirst, Waits
    <2> QED BY <1>2, <2>1, <2>2, <2>3, <2>4 DEF Calls
  <1>3. CASE Run
    <2>1. CASE WriteNext
      <3>1. pc \notin SignalSteps /\ pc' \notin SignalSteps /\ UNCHANGED board
        BY <2>1, Portions DEF WriteNext, WriteSteps, SignalSteps
      <3> QED BY <3>1, PowerStays
    <2>2. CASE WriteFails \/ ReadFails
      BY <2>2, PowerStays DEF WriteFails, ReadFails, Return, WriteSteps, ReadSteps, SignalSteps
    <2>3. ASSUME NEW n, ReadLength(n) \/ ReadTrailer(n)
          PROVE  PowerInv'
      BY <2>3, PowerStays DEF ReadLength, ReadTrailer, Return, SignalSteps
    <2>4. CASE ReadBody
      BY <2>4, PowerStays DEF ReadBody, SignalSteps
    <2>5. CASE SignalFails
      BY <2>5 DEF SignalFails, PowerFails, PowerInv, PowerComesFirst, Waits
    <2> QED BY <1>3, <2>1, <2>2, <2>3, <2>4, <2>5, SendPower, AnswerPower DEF Run
  <1>4. CASE Serves
    BY <1>4, PowerStays DEF Serves, Serve, ServeEnd
  <1>5. CASE Signals
    BY <1>5, ObeyPower DEF Signals, TypeInv
  <1>6. CASE Breaks
    <2>1. ASSUME NEW out, NEW in, Break(out, in)
          PROVE  PowerInv'
      BY <2>1, PowerStays DEF Break
    <2>2. ASSUME NEW out \in 0 .. Len(signal), NEW in \in 0 .. Len(answer), BreakPlatform(out, in)
          PROVE  PowerInv'
      <3>1. /\ platform' = "broken" /\ UNCHANGED << pc, power, powered, nv >>
            /\ signal' = Take(signal, out) /\ answer' = Take(answer, in)
        BY <2>2 DEF BreakPlatform
      <3>2. ASSUME NEW x, NEW n \in 0 .. Len(<< x >>)
            PROVE  Take(<< x >>, n) \in {<< >>, << x >>}
        <4>1. n = 0 \/ n = 1
          BY Singles
        <4> QED BY <4>1, Singles
      <3>3. ASSUME NEW n \in 0 .. Len(<< >>)
            PROVE  Take(<< >>, n) = << >>
        <4>1. n = 0
          BY Singles
        <4> QED BY <4>1, Singles
      <3>4. signal' \in {<< >>, signal}
        <4>1. CASE signal = << >>
          BY <2>2, <3>1, <3>3, <4>1
        <4>2. ASSUME NEW x, signal = << x >>
              PROVE  signal' \in {<< >>, signal}
          BY <2>2, <3>1, <3>2, <4>2
        <4> QED BY <4>1, <4>2 DEF PowerInv
      <3>5. answer' \in {<< >>, answer}
        <4>1. CASE answer = << >>
          BY <2>2, <3>1, <3>3, <4>1
        <4>2. ASSUME NEW x, answer = << x >>
              PROVE  answer' \in {<< >>, answer}
          BY <2>2, <3>1, <3>2, <4>2
        <4> QED BY <4>1, <4>2 DEF PowerInv
      <3>6. PowerComesFirst'
        BY <3>1 DEF PowerInv, PowerComesFirst
      <3>7. signal' = << TPM_SIGNAL_NV_ON >> => powered
        BY <3>4, Singles DEF PowerInv
      <3>8. signal' = << >> \/ answer' = << >>
        BY <3>4, <3>5 DEF PowerInv
      <3>9. signal' \in {<< >>, << TPM_SIGNAL_POWER_ON >>, << TPM_SIGNAL_NV_ON >>}
            /\ answer' \in {<< >>, << 0 >>, << 1 >>}
        BY <3>4, <3>5 DEF PowerInv
      <3>10. /\ answer' # << >> => pc \in Waits
             /\ answer' = << 0 >> => powered /\ (pc = "nv wait" => nv)
        BY <3>5, Singles DEF PowerInv
      <3>11. pc \in {"nv on", "nv wait"} => powered
        BY DEF PowerInv
      <3>12. platform' # "open"
        BY <3>1
      <3> QED BY <3>1, <3>6, <3>7, <3>8, <3>9, <3>10, <3>11, <3>12, Zenon DEF PowerInv
    <2> QED BY <1>6, <2>1, <2>2 DEF Breaks
  <1> QED BY <1>1, <1>2, <1>3, <1>4, <1>5, <1>6 DEF Next

\* power_on returns Ok only when both signals were obeyed, and NV is never
\* enabled on a TPM that refused power, wherever the connection breaks and
\* however often it is called (PowerComesFirst).
THEOREM NvOnlyUnderPower == Spec => []PowerComesFirst
  <1>1. PowerInv => PowerComesFirst
    BY DEF PowerInv
  <1> QED BY InitPower, NextPower, Typed, <1>1, PTL DEF Spec

-----------------------------------------------------------------------------
(* Exchanges: requests.                                                    *)

LEMMA RequestItems ==
  ASSUME NEW k \in 0 .. MaxTransmits, NEW l \in Nat, NEW n \in Nat
  PROVE  /\ RequestItem(k, l, n, 1) = U32(TPM_SEND_COMMAND)[1]
         /\ RequestItem(k, l, n, 2) = U8(l)[1]
         /\ RequestItem(k, l, n, 3) = U32(n)[1] /\ RequestItem(k, l, n, 3).val = n
         /\ RequestItem(k, l, n, 1) # U32(TPM_SESSION_END)[1]
         /\ \A i \in 1 .. n : RequestItem(k, l, n, 3 + i) = Data(k, n)[i]
         /\ n > 0 => RequestItem(k, l, n, 4).of = k
  <1>1. /\ RequestItem(k, l, n, 1) = U32(TPM_SEND_COMMAND)[1]
        /\ RequestItem(k, l, n, 2) = U8(l)[1] /\ RequestItem(k, l, n, 3) = U32(n)[1]
    BY DEF RequestItem
  <1>2. \A i \in 1 .. n : RequestItem(k, l, n, 3 + i) = Data(k, n)[i]
    <2> SUFFICES ASSUME NEW i \in 1 .. n
                 PROVE  RequestItem(k, l, n, 3 + i) = Data(k, n)[i]
      OBVIOUS
    <2>1. 3 + i # 1 /\ 3 + i # 2 /\ 3 + i # 3 /\ (3 + i) - 3 = i
      OBVIOUS
    <2> QED BY <2>1 DEF RequestItem
  <1>3. U32(n)[1].val = n
    BY NumberItems
  <1>4. U32(TPM_SEND_COMMAND)[1] # U32(TPM_SESSION_END)[1]
    <2>1. U32(TPM_SEND_COMMAND)[1].val = TPM_SEND_COMMAND /\ U32(TPM_SESSION_END)[1].val = TPM_SESSION_END
      BY NumberItems, Codes
    <2> QED BY <2>1, Codes
  <1>5. n > 0 => Data(k, n)[1].of = k
    <2>1. n > 0 => 1 \in 1 .. n
      OBVIOUS
    <2> QED BY <2>1, DataItems
  <1>6. n > 0 => RequestItem(k, l, n, 4) = Data(k, n)[1]
    <2>1. n > 0 => 1 \in 1 .. n /\ 3 + 1 = 4
      OBVIOUS
    <2> QED BY <1>2, <2>1
  <1> QED BY <1>1, <1>2, <1>3, <1>4, <1>5, <1>6

LEMMA InitRequest == Init => RequestInv
  <1> SUFFICES ASSUME Init
               PROVE  RequestInv
    OBVIOUS
  <1>1. Requested(0, 0, 0, 0)
    <2>1. toTpm = << >> /\ Len(<< >>) = 0 /\ pc = "idle" /\ link = "open"
      BY DEF Init
    <2>2. Carries(0, 0, 0, 0)
      BY <2>1 DEF Carries
    <2>3. 0 \in Written
      BY <2>1 DEF Written
    <2> QED BY <2>1, <2>2, <2>3 DEF Requested
  <1> QED BY <1>1 DEF RequestInv

\* Steps that leave the stream to the simulator, and either the client too, or
\* a client whose request is no longer in it.
LEMMA QuietRequest ==
  ASSUME TypeInv, RequestInv, UNCHANGED << toTpm, link, delivered >>,
         transmits' \in Nat, transmits <= transmits',
         link = "open" => \/ pc' = pc /\ UNCHANGED << transmits, locality, size >>
                          \/ 0 \in Written' /\ (Written = {0} \/ transmits \in Delivered)
  PROVE  RequestInv'
  <1>1. PICK e \in {0, 1}, k \in Transmits \cup {0}, l \in Localities \cup {0}, n \in CommandSizes \cup {0} :
          Requested(e, k, l, n)
    BY DEF RequestInv
  <1>2. transmits \in Nat /\ Len(toTpm) \in Nat
    BY SizesAreNumbers DEF TypeInv, ClientTypes, StreamTypes
  <1>3. Carries(e, k, l, n)'
    BY <1>1 DEF Requested, Carries
  <1>4. Len(toTpm) > e => k \in 1 .. transmits' /\ n > 0 /\ \A d \in Delivered' : d < k
    BY <1>1, <1>2 DEF Requested, Delivered
  <1>5. ASSUME link = "open"
        PROVE  /\ Len(toTpm) - e \in Written'
               /\ Len(toTpm) > e => k = transmits' /\ l = locality' /\ n = size'
    <2>1. CASE pc' = pc /\ UNCHANGED << transmits, locality, size >>
      BY <1>1, <1>5, <2>1 DEF Requested, Written
    <2>2. CASE 0 \in Written' /\ (Written = {0} \/ transmits \in Delivered)
      <3>1. ~(Len(toTpm) > e)
        <4>1. CASE Written = {0}
          BY <1>1, <1>2, <1>5, <4>1 DEF Requested
        <4>2. CASE transmits \in Delivered
          BY <1>1, <1>2, <1>5, <4>2 DEF Requested
        <4> QED BY <2>2, <4>1, <4>2
      <3>2. Len(toTpm) - e = 0
        BY <1>1, <1>2, <3>1 DEF Requested, Carries
      <3> QED BY <2>2, <3>1, <3>2
    <2> QED BY <1>5, <2>1, <2>2
  <1>6. Requested(e, k, l, n)'
    BY <1>3, <1>4, <1>5 DEF Requested
  <1> QED BY <1>6 DEF RequestInv

\* On an open connection, what the client writes continues the request of its
\* call, which has not been executed.
LEMMA WriteRequest ==
  ASSUME TypeInv, RequestInv, CallInv, WriteNext
  PROVE  RequestInv'
  <1>1. PICK e \in {0, 1}, k \in Transmits \cup {0}, l \in Localities \cup {0}, n \in CommandSizes \cup {0} :
          Requested(e, k, l, n)
    BY DEF RequestInv
  <1>2. /\ pc \in WriteSteps /\ pc' = After(pc)
        /\ toTpm' = IF link = "open" THEN toTpm \o Portion(pc) ELSE toTpm
        /\ UNCHANGED << transmits, size, locality, link, delivered >>
    BY DEF WriteNext, Sent
  <1>3. /\ Portion(pc) \in Seq(Items) /\ toTpm \in Seq(Items) /\ Len(toTpm) \in Nat
        /\ size \in CommandSizes /\ size \in Nat /\ size > 0 /\ locality \in Nat /\ locality \in Localities \cup {0}
        /\ transmits \in Transmits /\ transmits \in 0 .. MaxTransmits /\ transmits \in 1 .. transmits
    BY <1>2, Portions, SizesAreNumbers DEF TypeInv, ClientTypes, StreamTypes, Transmits
  <1>4. CASE link # "open"
    <2>1. Requested(e, k, l, n)'
      BY <1>1, <1>2, <1>4 DEF Requested, Carries, Delivered
    <2> QED BY <2>1 DEF RequestInv
  <1>5. CASE link = "open"
    <2>1. PICK c, m, j : c = transmits /\ m = size /\ j = locality
      OBVIOUS
    <2>2. /\ Len(toTpm) - e \in Written /\ e <= Len(toTpm)
          /\ e = 1 => toTpm[1] = U32(TPM_SESSION_END)[1]
          /\ \A i \in e + 1 .. Len(toTpm) : toTpm[i] = RequestItem(c, j, m, i - e)
      <3>1. /\ Carries(e, k, l, n) /\ Len(toTpm) - e \in Written
            /\ Len(toTpm) > e => k = transmits /\ l = locality /\ n = size
        BY <1>1, <1>5 DEF Requested
      <3>2. /\ e <= Len(toTpm)
            /\ e = 1 => toTpm[1] = U32(TPM_SESSION_END)[1]
            /\ \A i \in e + 1 .. Len(toTpm) : toTpm[i] = RequestItem(k, l, n, i - e)
        BY <3>1 DEF Carries
      <3>3. e + 1 .. Len(toTpm) # {} => Len(toTpm) > e
        BY <1>3
      <3>4. \A i \in e + 1 .. Len(toTpm) : toTpm[i] = RequestItem(c, j, m, i - e)
        BY <2>1, <3>1, <3>2, <3>3
      <3> QED BY <3>1, <3>2, <3>4
    <2>3. \A d \in Delivered : d < c
      BY <1>2, <1>3, <1>5, <2>1 DEF CallInv
    <2>4. PICK p \in Seq(Items) : p = Portion(pc)
      BY <1>3
    <2>5. /\ Len(toTpm') = Len(toTpm) + Len(p) /\ Len(p) \in Nat
          /\ \A i \in 1 .. Len(toTpm) : toTpm'[i] = toTpm[i]
          /\ \A i \in 1 .. Len(p) : toTpm'[Len(toTpm) + i] = p[i]
      BY <1>2, <1>3, <1>5, <2>4, JoinProperties
    <2>6. /\ \A i \in 1 .. Len(p) : p[i] = RequestItem(c, j, m, (Len(toTpm) - e) + i)
          /\ (Len(toTpm) - e) + Len(p) \in Written'
          /\ (Len(toTpm) - e) + Len(p) <= m + 3 /\ Len(p) > 0
      <3>0. c \in 0 .. MaxTransmits /\ j \in Nat /\ m \in Nat /\ m > 0
        BY <1>3, <2>1
      <3>1. CASE pc = "selector"
        <4>1. Len(toTpm) - e = 0 /\ Written' = {1}
          BY <1>2, <2>2, <3>1, Portions DEF Written
        <4>2. p = U32(TPM_SEND_COMMAND) /\ Len(p) = 1
          <5>1. p = U32(TPM_SEND_COMMAND)
            BY <1>2, <2>4, <3>1, Portions
          <5>2. Len(U32(TPM_SEND_COMMAND)) = 1
            BY NumberItems, Codes
          <5> QED BY <5>1, <5>2
        <4>3. RequestItem(c, j, m, 1) = p[1]
          BY <3>0, <4>2, RequestItems
        <4>4. \A i \in 1 .. Len(p) : i = 1 /\ (Len(toTpm) - e) + i = 1
          BY <4>1, <4>2
        <4>5. \A i \in 1 .. Len(p) : p[i] = RequestItem(c, j, m, (Len(toTpm) - e) + i)
          BY <4>3, <4>4
        <4>6. (Len(toTpm) - e) + Len(p) = 1
          BY <4>1, <4>2
        <4> QED BY <3>0, <4>1, <4>2, <4>5, <4>6
      <3>2. CASE pc = "locality"
        <4>1. Len(toTpm) - e = 1 /\ Written' = {2}
          BY <1>2, <2>2, <3>2, Portions DEF Written
        <4>2. p = U8(j) /\ Len(p) = 1
          <5>1. p = U8(j)
            BY <1>2, <2>1, <2>4, <3>2, Portions
          <5>2. Len(U8(j)) = 1
            BY <3>0, NumberItems
          <5> QED BY <5>1, <5>2
        <4>3. RequestItem(c, j, m, 2) = p[1]
          BY <3>0, <4>2, RequestItems
        <4>4. \A i \in 1 .. Len(p) : i = 1 /\ (Len(toTpm) - e) + i = 2
          BY <4>1, <4>2
        <4>5. \A i \in 1 .. Len(p) : p[i] = RequestItem(c, j, m, (Len(toTpm) - e) + i)
          BY <4>3, <4>4
        <4>6. (Len(toTpm) - e) + Len(p) = 2
          BY <4>1, <4>2
        <4> QED BY <3>0, <4>1, <4>2, <4>5, <4>6
      <3>3. CASE pc = "length"
        <4>1. Len(toTpm) - e = 2 /\ Written' = {3}
          BY <1>2, <2>2, <3>3, Portions DEF Written
        <4>2. p = U32(m) /\ Len(p) = 1
          BY <1>2, <2>1, <2>4, <3>0, <3>3, Portions, NumberItems
        <4>3. RequestItem(c, j, m, 3) = p[1]
          BY <3>0, <4>2, RequestItems
        <4> QED BY <3>0, <4>1, <4>2, <4>3
      <3>4. CASE pc = "command"
        <4>1. Len(toTpm) - e = 3 /\ Written' = {0, m + 3}
          BY <1>2, <2>1, <2>2, <3>4, Portions DEF Written
        <4>2. p = Data(c, m) /\ Len(p) = m
          BY <1>2, <2>1, <2>4, <3>0, <3>4, Portions, DataItems
        <4>3. \A i \in 1 .. m : RequestItem(c, j, m, 3 + i) = p[i]
          <5>1. \A i \in 1 .. m : RequestItem(c, j, m, 3 + i) = Data(c, m)[i]
            BY <3>0, RequestItems
          <5> QED BY <4>2, <5>1
        <4> QED BY <3>0, <4>1, <4>2, <4>3
      <3> QED BY <1>2, <3>1, <3>2, <3>3, <3>4 DEF WriteSteps
    <2>7. \A i \in e + 1 .. Len(toTpm') : toTpm'[i] = RequestItem(c, j, m, i - e)
      <3> SUFFICES ASSUME NEW i \in e + 1 .. Len(toTpm')
                   PROVE  toTpm'[i] = RequestItem(c, j, m, i - e)
        OBVIOUS
      <3>1. CASE i <= Len(toTpm)
        BY <1>3, <2>2, <2>5, <3>1
      <3>2. CASE i > Len(toTpm)
        <4>1. PICK q \in 1 .. Len(p) : i = Len(toTpm) + q /\ (Len(toTpm) - e) + q = i - e
          <5>1. i - Len(toTpm) \in 1 .. Len(p) /\ i = Len(toTpm) + (i - Len(toTpm))
                /\ (Len(toTpm) - e) + (i - Len(toTpm)) = i - e
            BY <1>3, <2>5, <3>2
          <5> QED BY <5>1
        <4> QED BY <2>5, <2>6, <4>1
      <3> QED BY <1>3, <2>5, <3>1, <3>2
    <2>8. Carries(e, c, j, m)'
      <3>1. e <= Len(toTpm') /\ Len(toTpm') <= e + m + 3
        BY <1>3, <2>1, <2>2, <2>5, <2>6
      <3>2. e = 1 => toTpm'[1] = U32(TPM_SESSION_END)[1]
        BY <1>3, <2>2, <2>5
      <3> QED BY <2>7, <3>1, <3>2 DEF Carries
    <2>9. Len(toTpm') - e \in Written'
      <3>1. Len(toTpm') - e = (Len(toTpm) - e) + Len(p)
        BY <1>3, <2>5
      <3> QED BY <2>6, <3>1
    <2>10. Requested(e, c, j, m)'
      BY <1>2, <1>3, <2>1, <2>3, <2>8, <2>9 DEF Requested, Delivered
    <2>11. c \in Transmits \cup {0} /\ j \in Localities \cup {0} /\ m \in CommandSizes \cup {0}
      BY <1>3, <2>1
    <2> QED BY <2>10, <2>11 DEF RequestInv
  <1> QED BY <1>4, <1>5

\* The simulator finds a whole request only in an open or broken stream that
\* begins with it; it is of a call not executed yet.
LEMMA ServedRequest ==
  ASSUME TypeInv, RequestInv, WholeRequest
  PROVE  /\ toTpm[4].of \in 1 .. transmits /\ \A d \in Delivered : d < toTpm[4].of
         /\ Len(toTpm) = 3 + toTpm[3].val
         /\ link = "open" => toTpm[4].of = transmits /\ pc = "announced"
  <1>1. PICK e \in {0, 1}, k \in Transmits \cup {0}, l \in Localities \cup {0}, n \in CommandSizes \cup {0} :
          Requested(e, k, l, n)
    BY DEF RequestInv
  <1>2. /\ Len(toTpm) \in Nat /\ Len(toTpm) >= 3 /\ toTpm[1] = U32(TPM_SEND_COMMAND)[1]
        /\ k \in 0 .. MaxTransmits /\ l \in Nat /\ n \in Nat
    <2>1. Len(toTpm) \in Nat /\ Len(toTpm) >= 3 /\ toTpm[1] = U32(TPM_SEND_COMMAND)[1]
      BY DEF TypeInv, StreamTypes, WholeRequest
    <2>2. k \in 0 .. MaxTransmits /\ l \in Nat /\ n \in Nat
      BY SizesAreNumbers DEF Transmits
    <2> QED BY <2>1, <2>2
  <1>3. e = 0
    <2>1. U32(TPM_SEND_COMMAND)[1] # U32(TPM_SESSION_END)[1]
      BY <1>2, RequestItems
    <2> QED BY <1>1, <1>2, <2>1 DEF Requested, Carries
  <1>4. /\ \A i \in 1 .. Len(toTpm) : toTpm[i] = RequestItem(k, l, n, i)
        /\ Len(toTpm) <= n + 3 /\ Len(toTpm) > e
    BY <1>1, <1>2, <1>3 DEF Requested, Carries
  <1>5. toTpm[3].val = n /\ n > 0
    <2>1. toTpm[3] = RequestItem(k, l, n, 3)
      BY <1>2, <1>4
    <2>2. n > 0
      BY <1>1, <1>4 DEF Requested
    <2>3. RequestItem(k, l, n, 3).val = n
      BY <1>2, RequestItems
    <2> QED BY <2>1, <2>2, <2>3
  <1>6. Len(toTpm) = 3 + n
    BY <1>2, <1>4, <1>5 DEF WholeRequest
  <1>7. toTpm[4].of = k
    <2>1. toTpm[4] = RequestItem(k, l, n, 4)
      BY <1>2, <1>4, <1>5, <1>6
    <2>2. RequestItem(k, l, n, 4).of = k
      BY <1>2, <1>5, RequestItems
    <2> QED BY <2>1, <2>2
  <1>8. k \in 1 .. transmits /\ \A d \in Delivered : d < k
    BY <1>1, <1>4 DEF Requested
  <1>9. ASSUME link = "open"
        PROVE  k = transmits /\ pc = "announced"
    <2>1. k = transmits /\ n = size /\ Len(toTpm) - 0 \in Written
      BY <1>1, <1>3, <1>4, <1>9 DEF Requested
    <2>2. Len(toTpm) - 0 \notin {0, 1, 2, 3}
      BY <1>5, <1>6, <1>2
    <2> QED BY <2>1, <2>2 DEF Written
  <1> QED BY <1>5, <1>6, <1>7, <1>8, <1>9

LEMMA PowerRequest ==
  ASSUME TypeInv, RequestInv, UNCHANGED << transmits, data >>,
         pc \in {"idle"} \cup SignalSteps, pc' \in {"idle"} \cup SignalSteps
  PROVE  RequestInv'
  <1>1. transmits \in Nat /\ UNCHANGED << transmits, toTpm, link, delivered >>
    BY SizesAreNumbers DEF TypeInv, ClientTypes, data
  <1>2. Written = {0} /\ Written' = {0}
    BY DEF Written, SignalSteps
  <1> QED BY <1>1, <1>2, QuietRequest

LEMMA EmptyRequest ==
  ASSUME Len(toTpm') = 0, link' = "open" => 0 \in Written'
  PROVE  RequestInv'
  <1>1. PICK e \in {0, 1}, z \in Nat : e = 0 /\ z = 0
    OBVIOUS
  <1>2. Carries(e, z, z, z)'
    BY <1>1 DEF Carries
  <1>3. Requested(e, z, z, z)'
    BY <1>1, <1>2 DEF Requested
  <1> QED BY <1>1, <1>3 DEF RequestInv

LEMMA EndRequest ==
  ASSUME TypeInv, RequestInv, session_end
  PROVE  RequestInv'
  <1>1. PICK items : items = U32(TPM_SESSION_END)
    OBVIOUS
  <1>2. items \in Seq(Items) /\ Len(items) = 1
    BY <1>1, NumberItems, Codes
  <1>3. toTpm' = items
    <2>1. toTpm' = << >> \o items
      BY <1>1 DEF session_end, Sent
    <2> QED BY <1>2, <2>1
  <1>4. PICK e \in {0, 1}, z \in Nat : e = 1 /\ z = 0
    OBVIOUS
  <1>5. Carries(e, z, z, z)'
    <2>1. e <= Len(toTpm') /\ Len(toTpm') <= e + z + 3
      BY <1>2, <1>3, <1>4
    <2>2. toTpm'[1] = U32(TPM_SESSION_END)[1]
      BY <1>1, <1>3
    <2>3. \A i \in e + 1 .. Len(toTpm') : toTpm'[i] = RequestItem(z, z, z, i - e)
      <3>1. e + 1 = 2 /\ Len(toTpm') = 1 /\ 2 .. 1 = {}
        BY <1>2, <1>3, <1>4
      <3> QED BY <3>1
    <2> QED BY <2>1, <2>2, <2>3 DEF Carries
  <1>6. 0 \in Written'
    BY DEF session_end, Written
  <1>7. Requested(e, z, z, z)'
    BY <1>2, <1>3, <1>4, <1>5, <1>6 DEF Requested
  <1> QED BY <1>4, <1>7 DEF RequestInv

\* A request is taken off the stream as a whole, and nothing follows it.
LEMMA ServeRequest ==
  ASSUME TypeInv, RequestInv, NEW reply, Serve(reply)
  PROVE  RequestInv'
  <1>1. WholeRequest /\ toTpm' = Drop(toTpm, 3 + toTpm[3].val) /\ UNCHANGED << pc, link >>
    BY DEF Serve
  <1>2. Len(toTpm) = 3 + toTpm[3].val /\ Len(toTpm) \in Nat /\ toTpm \in Seq(Items)
    BY <1>1, ServedRequest DEF TypeInv, StreamTypes
  <1>3. toTpm' = Drop(toTpm, Len(toTpm))
    BY <1>1, <1>2
  <1>4. Len(toTpm') = 0
    <2>1. PICK m \in 0 .. Len(toTpm) : m = Len(toTpm)
      BY <1>2
    <2>2. Len(Drop(toTpm, m)) = Len(toTpm) - m
      BY <1>2, DropProperties
    <2> QED BY <1>2, <1>3, <2>1, <2>2
  <1>5. link = "open" => pc = "announced"
    BY <1>1, ServedRequest
  <1>6. link' = "open" => 0 \in Written'
    BY <1>1, <1>5 DEF Written
  <1> QED BY <1>4, <1>6, EmptyRequest

LEMMA ServeEndRequest ==
  ASSUME TypeInv, RequestInv, ServeEnd
  PROVE  RequestInv'
  <1>1. PICK e \in {0, 1}, k \in Transmits \cup {0}, l \in Localities \cup {0}, n \in CommandSizes \cup {0} :
          Requested(e, k, l, n)
    BY DEF RequestInv
  <1>2. k \in 0 .. MaxTransmits /\ l \in Nat /\ n \in Nat /\ toTpm \in Seq(Items)
    BY SizesAreNumbers DEF Transmits, TypeInv, StreamTypes
  <1>3. /\ toTpm # << >> /\ Len(toTpm) \in Nat /\ Len(toTpm) > 0
        /\ toTpm[1] = U32(TPM_SESSION_END)[1]
        /\ Len(toTpm') = Len(toTpm) - 1 /\ \A i \in 1 .. Len(toTpm) - 1 : toTpm'[i] = toTpm[i + 1]
        /\ link' = "broken" /\ UNCHANGED << transmits, delivered >>
    BY <1>2, TailProperties DEF ServeEnd
  <1>4. e = 1
    <2> SUFFICES ASSUME e = 0
                 PROVE  FALSE
      OBVIOUS
    <2>1. 1 \in e + 1 .. Len(toTpm) /\ 1 - e = 1
      BY <1>3
    <2>2. toTpm[1] = RequestItem(k, l, n, 1)
      BY <1>1, <2>1 DEF Requested, Carries
    <2>3. RequestItem(k, l, n, 1) # U32(TPM_SESSION_END)[1]
      BY <1>2, RequestItems
    <2> QED BY <1>3, <2>2, <2>3
  <1>5. PICK z \in {0, 1} : z = 0
    OBVIOUS
  <1>6. Carries(z, k, l, n)'
    <2>1. \A i \in 1 .. Len(toTpm') : toTpm'[i] = RequestItem(k, l, n, i)
      <3> SUFFICES ASSUME NEW i \in 1 .. Len(toTpm')
                   PROVE  toTpm'[i] = RequestItem(k, l, n, i)
        OBVIOUS
      <3>1. i + 1 \in e + 1 .. Len(toTpm) /\ i \in 1 .. Len(toTpm) - 1 /\ (i + 1) - e = i
        BY <1>3, <1>4
      <3> QED BY <1>1, <1>3, <3>1 DEF Requested, Carries
    <2>2. Len(toTpm') <= n + 3 /\ Len(toTpm') \in Nat
      BY <1>1, <1>2, <1>3, <1>4 DEF Requested, Carries
    <2>3. \A i \in z + 1 .. Len(toTpm') : toTpm'[i] = RequestItem(k, l, n, i - z)
      BY <1>5, <2>1
    <2> QED BY <1>2, <1>5, <2>2, <2>3 DEF Carries
  <1>7. Len(toTpm') > z => k \in 1 .. transmits /\ n > 0 /\ \A d \in Delivered : d < k
    BY <1>1, <1>3, <1>4, <1>5 DEF Requested
  <1>8. Requested(z, k, l, n)'
    BY <1>3, <1>6, <1>7 DEF Requested, Delivered
  <1> QED BY <1>8 DEF RequestInv

LEMMA BreakRequest ==
  ASSUME TypeInv, RequestInv, NEW out \in 0 .. Len(toTpm), NEW in, Break(out, in)
  PROVE  RequestInv'
  <1>1. PICK e \in {0, 1}, k \in Transmits \cup {0}, l \in Localities \cup {0}, n \in CommandSizes \cup {0} :
          Requested(e, k, l, n)
    BY DEF RequestInv
  <1>2. n \in Nat /\ toTpm \in Seq(Items) /\ Len(toTpm) \in Nat
    BY SizesAreNumbers DEF TypeInv, StreamTypes
  <1>3. /\ Len(toTpm') = out /\ \A i \in 1 .. out : toTpm'[i] = toTpm[i]
        /\ link' = "broken" /\ UNCHANGED << transmits, delivered >>
    BY <1>2, TakeProperties DEF Break
  <1>4. CASE out = 0
    BY <1>3, <1>4, EmptyRequest
  <1>5. CASE out > 0
    <2>1. Carries(e, k, l, n)'
      <3>1. e <= Len(toTpm') /\ Len(toTpm') <= e + n + 3
        BY <1>1, <1>2, <1>3, <1>5 DEF Requested, Carries
      <3>2. e = 1 => toTpm'[1] = U32(TPM_SESSION_END)[1]
        BY <1>1, <1>3, <1>5 DEF Requested, Carries
      <3>3. \A i \in e + 1 .. out : i \in 1 .. out /\ i \in e + 1 .. Len(toTpm)
        BY <1>2
      <3>4. \A i \in e + 1 .. Len(toTpm) : toTpm[i] = RequestItem(k, l, n, i - e)
        BY <1>1 DEF Requested, Carries
      <3>5. \A i \in e + 1 .. Len(toTpm') : toTpm'[i] = RequestItem(k, l, n, i - e)
        BY <1>3, <3>3, <3>4
      <3> QED BY <3>1, <3>2, <3>5 DEF Carries
    <2>2. Len(toTpm') > e => k \in 1 .. transmits /\ n > 0 /\ \A d \in Delivered : d < k
      BY <1>1, <1>2, <1>3 DEF Requested
    <2>3. Requested(e, k, l, n)'
      BY <1>3, <2>1, <2>2 DEF Requested, Delivered
    <2> QED BY <2>3 DEF RequestInv
  <1> QED BY <1>2, <1>4, <1>5

LEMMA NextRequest ==
  ASSUME Inv, [Next]_vars
  PROVE  RequestInv'
  <1>0. TypeInv /\ RequestInv /\ ReplyInv /\ CallInv /\ transmits \in Nat
    BY SizesAreNumbers DEF Inv, TypeInv, ClientTypes
  <1>1. CASE UNCHANGED vars
    BY <1>0, <1>1, QuietRequest DEF vars, data
  <1>2. CASE Calls
    <2>1. ASSUME NEW n \in CommandSizes, transmit(n)
          PROVE  RequestInv'
      BY <1>0, <2>1, QuietRequest DEF transmit, Written
    <2>2. ASSUME NEW l \in Localities, set_locality(l)
          PROVE  RequestInv'
      BY <1>0, <2>2, QuietRequest DEF set_locality, Written
    <2>3. CASE power_on
      BY <1>0, <2>3, PowerRequest DEF power_on, SignalSteps
    <2> QED BY <1>0, <1>2, <2>1, <2>2, <2>3, EndRequest DEF Calls
  <1>3. CASE Run
    <2>1. CASE WriteFails \/ ReadFails
      BY <1>0, <2>1, QuietRequest DEF WriteFails, ReadFails
    <2>2. ASSUME NEW n, ReadLength(n) \/ ReadTrailer(n)
          PROVE  RequestInv'
      <3>1. /\ UNCHANGED << transmits, toTpm, link, delivered >> /\ 0 \in Written'
            /\ fromTpm # << >>
        BY <2>2 DEF ReadLength, ReadTrailer, Return, Written
      <3>2. transmits \in Delivered
        BY <1>0, <3>1 DEF ReplyInv
      <3> QED BY <1>0, <3>1, <3>2, QuietRequest
    <2>3. CASE ReadBody
      BY <1>0, <2>3, QuietRequest DEF ReadBody, Written
    <2>4. ASSUME NEW code, SendSignal(code)
          PROVE  RequestInv'
      BY <1>0, <2>4, PowerRequest DEF SendSignal, PowerFails, SignalSteps
    <2>5. ASSUME NEW rc, SignalAnswered(rc)
          PROVE  RequestInv'
      BY <1>0, <2>5, PowerRequest DEF SignalAnswered, PowerFails, SignalSteps
    <2>6. CASE SignalFails
      BY <1>0, <2>6, PowerRequest DEF SignalFails, PowerFails, SignalSteps
    <2> QED BY <1>0, <1>3, <2>1, <2>2, <2>3, <2>4, <2>5, <2>6, WriteRequest DEF Run
  <1>4. CASE Serves
    BY <1>0, <1>4, ServeRequest, ServeEndRequest DEF Serves
  <1>5. CASE Signals
    BY <1>0, <1>5, QuietRequest DEF Signals, ServeSignal, data
  <1>6. CASE Breaks
    <2>1. ASSUME NEW out, NEW in, BreakPlatform(out, in)
          PROVE  RequestInv'
      BY <1>0, <2>1, QuietRequest DEF BreakPlatform, data
    <2> QED BY <1>0, <1>6, <2>1, BreakRequest DEF Breaks
  <1> QED BY <1>1, <1>2, <1>3, <1>4, <1>5, <1>6 DEF Next

-----------------------------------------------------------------------------
(* Exchanges: replies.                                                     *)

LEMMA ReplyItems ==
  ASSUME NEW k, NEW n \in Nat, NEW rc
  PROVE  /\ ReplyItem(k, n, rc, 1) = U32(n)[1]
         /\ ReplyItem(k, n, rc, n + 2) = U32(rc)[1]
         /\ \A i \in 1 .. n : ReplyItem(k, n, rc, i + 1) = Data(k, n)[i]
  <1>1. ReplyItem(k, n, rc, 1) = U32(n)[1]
    BY DEF ReplyItem
  <1>2. ReplyItem(k, n, rc, n + 2) = U32(rc)[1]
    <2>1. n + 2 # 1
      OBVIOUS
    <2> QED BY <2>1 DEF ReplyItem
  <1>3. ASSUME NEW i \in 1 .. n
        PROVE  ReplyItem(k, n, rc, i + 1) = Data(k, n)[i]
    <2>1. i + 1 # 1 /\ i + 1 # n + 2 /\ (i + 1) - 1 = i
      OBVIOUS
    <2> QED BY <2>1 DEF ReplyItem
  <1> QED BY <1>1, <1>2, <1>3

\* A reply, field by field.
LEMMA Frame ==
  ASSUME NEW k \in 0 .. MaxTransmits, NEW n \in Nat, NEW rc \in Nat
  PROVE  /\ Len(U32(n) \o Data(k, n) \o U32(rc)) = n + 2
         /\ \A i \in 1 .. n + 2 : (U32(n) \o Data(k, n) \o U32(rc))[i] = ReplyItem(k, n, rc, i)
  <1>1. PICK h \in Seq(Items), d \in Seq(Items), t \in Seq(Items) :
          /\ h = U32(n) /\ d = Data(k, n) /\ t = U32(rc)
          /\ Len(h) = 1 /\ Len(d) = n /\ Len(t) = 1
    <2>1. ASSUME NEW x \in Nat
          PROVE  U32(x) \in Seq(Items) /\ Len(U32(x)) = 1
      BY NumberItems
    <2>2. Data(k, n) \in Seq(Items) /\ Len(Data(k, n)) = n
      BY DataItems
    <2> QED BY <2>1, <2>2
  <1>2. /\ h \o d \in Seq(Items) /\ Len(h \o d) = 1 + n /\ (h \o d)[1] = h[1]
        /\ \A i \in 1 .. n : (h \o d)[1 + i] = d[i]
    <2>1. /\ h \o d \in Seq(Items) /\ Len(h \o d) = Len(h) + Len(d)
          /\ \A i \in 1 .. Len(h) : (h \o d)[i] = h[i]
          /\ \A i \in 1 .. Len(d) : (h \o d)[Len(h) + i] = d[i]
      BY JoinProperties
    <2>2. 1 \in 1 .. Len(h) /\ Len(h) = 1 /\ Len(d) = n
      BY <1>1
    <2> QED BY <2>1, <2>2
  <1>3. /\ Len((h \o d) \o t) = n + 2
        /\ \A i \in 1 .. n + 1 : ((h \o d) \o t)[i] = (h \o d)[i]
        /\ ((h \o d) \o t)[n + 2] = t[1]
    <2>1. PICK hd \in Seq(Items) : hd = h \o d
      BY <1>2
    <2>2. /\ Len(hd \o t) = Len(hd) + Len(t) /\ Len(hd) = n + 1 /\ Len(t) = 1
          /\ \A i \in 1 .. Len(hd) : (hd \o t)[i] = hd[i]
          /\ \A i \in 1 .. Len(t) : (hd \o t)[Len(hd) + i] = t[i]
      BY <1>1, <1>2, <2>1, JoinProperties
    <2>3. 1 \in 1 .. Len(t) /\ Len(hd) + 1 = n + 2 /\ Len(hd) + Len(t) = n + 2
      BY <2>2
    <2> QED BY <2>1, <2>2, <2>3
  <1>4. /\ ReplyItem(k, n, rc, 1) = h[1] /\ ReplyItem(k, n, rc, n + 2) = t[1]
        /\ \A i \in 1 .. n : ReplyItem(k, n, rc, i + 1) = d[i]
    BY <1>1, ReplyItems
  <1>5. ASSUME NEW i \in 1 .. n + 2
        PROVE  ((h \o d) \o t)[i] = ReplyItem(k, n, rc, i)
    <2>1. CASE i = 1
      <3>1. 1 \in 1 .. n + 1
        OBVIOUS
      <3>2. ((h \o d) \o t)[1] = (h \o d)[1]
        BY <1>3, <3>1
      <3> QED BY <1>2, <1>4, <2>1, <3>2
    <2>2. CASE i = n + 2
      BY <1>3, <1>4, <2>2
    <2>3. CASE i # 1 /\ i # n + 2
      <3>1. PICK j \in 1 .. n : i = j + 1 /\ i = 1 + j /\ i \in 1 .. n + 1
        <4>1. i - 1 \in 1 .. n /\ i = (i - 1) + 1 /\ i = 1 + (i - 1) /\ i \in 1 .. n + 1
          BY <2>3
        <4> QED BY <4>1
      <3>2. ReplyItem(k, n, rc, j + 1) = d[j] /\ (h \o d)[1 + j] = d[j]
        BY <1>2, <1>4
      <3>3. ((h \o d) \o t)[i] = (h \o d)[i]
        BY <1>3, <3>1
      <3> QED BY <3>1, <3>2, <3>3
    <2> QED BY <2>1, <2>2, <2>3
  <1> QED BY <1>1, <1>3, <1>5

\* What a simulator that announces no more than MAX_RESPONSE answers: a response
\* of one of the sizes, or none and a result code.
LEMMA ReplyShape ==
  ASSUME "oversized" \notin Faults, NEW k \in 0 .. MaxTransmits, NEW reply \in Replies(k)
  PROVE  \E n \in 0 .. MAX_RESPONSE, rc \in {0, 1} :
           /\ rc = 0 => n \in ResponseSizes
           /\ rc = 1 => n = 0
           /\ Len(reply) = n + 2
           /\ \A i \in 1 .. n + 2 : reply[i] = ReplyItem(k, n, rc, i)
  <1>1. CASE \E n \in ResponseSizes : reply = U32(n) \o Data(k, n) \o U32(0)
    <2>1. PICK n \in ResponseSizes : reply = U32(n) \o Data(k, n) \o U32(0)
      BY <1>1
    <2>2. n \in 0 .. MAX_RESPONSE /\ n \in Nat
      BY SizesAreNumbers
    <2>3. PICK rc \in Nat : rc = 0
      OBVIOUS
    <2>4. Len(reply) = n + 2 /\ \A i \in 1 .. n + 2 : reply[i] = ReplyItem(k, n, rc, i)
      BY <2>1, <2>2, <2>3, Frame
    <2> QED BY <2>2, <2>3, <2>4
  <1>2. CASE reply = U32(0) \o U32(1)
    <2>1. PICK h \in Seq(Items), t \in Seq(Items) : h = U32(0) /\ t = U32(1) /\ Len(h) = 1 /\ Len(t) = 1
      BY NumberItems
    <2>2. PICK n \in Nat, rc \in {0, 1} : n = 0 /\ rc = 1 /\ n \in 0 .. MAX_RESPONSE
      BY SizesAreNumbers
    <2>3. Len(reply) = 2 /\ reply[1] = h[1] /\ reply[2] = t[1]
      BY <1>2, <2>1, JoinProperties
    <2>4. ReplyItem(k, n, rc, 1) = h[1] /\ ReplyItem(k, n, rc, 2) = t[1]
      <3>1. 2 = n + 2 /\ 2 # 1
        BY <2>2
      <3>2. ReplyItem(k, n, rc, 1) = U32(n)[1] /\ ReplyItem(k, n, rc, 2) = U32(rc)[1]
        BY <3>1 DEF ReplyItem
      <3> QED BY <2>1, <2>2, <3>2
    <2>5. \A i \in 1 .. n + 2 : i = 1 \/ i = 2
      BY <2>2
    <2>6. \A i \in 1 .. n + 2 : reply[i] = ReplyItem(k, n, rc, i)
      BY <2>3, <2>4, <2>5
    <2> QED BY <2>2, <2>3, <2>6
  <1> QED BY <1>1, <1>2 DEF Replies

LEMMA NoReply ==
  ASSUME fromTpm' = << >>, pc' \notin {"body", "trailer"}
  PROVE  ReplyInv'
  BY DEF ReplyInv

LEMMA SameReply ==
  ASSUME ReplyInv, UNCHANGED << pc, transmits, want, body, fromTpm >>, Delivered \subseteq Delivered'
  PROVE  ReplyInv'
  <1>1. CASE pc \in {"body", "trailer"} \/ fromTpm # << >>
    <2>1. PICK n \in 0 .. MAX_RESPONSE, rc \in {0, 1} :
            /\ rc = 0 => n \in ResponseSizes
            /\ rc = 1 => n = 0
            /\ Reads(n, rc, Offset(n))
            /\ pc # "announced" => want = n
            /\ pc = "trailer" => body = Data(transmits, n)
      BY <1>1 DEF ReplyInv
    <2>2. Reads(n, rc, Offset(n))'
      BY <2>1 DEF Reads, Offset
    <2>3. transmits' \in Delivered'
      BY <1>1 DEF ReplyInv
    <2>4. pc' \notin ReadSteps => fromTpm' = << >>
      BY DEF ReplyInv
    <2> QED BY <2>1, <2>2, <2>3, <2>4 DEF ReplyInv
  <1>2. CASE ~(pc \in {"body", "trailer"} \/ fromTpm # << >>)
    BY <1>2, NoReply
  <1> QED BY <1>1, <1>2

LEMMA AppendDelivers ==
  ASSUME delivered \in Seq(Transmits), NEW k \in Transmits, delivered' = Append(delivered, k)
  PROVE  Delivered' = Delivered \cup {k}
  <1>1. /\ DOMAIN delivered = 1 .. Len(delivered) /\ Len(delivered) \in Nat
        /\ DOMAIN delivered' = 1 .. Len(delivered) + 1
        /\ \A i \in 1 .. Len(delivered) : delivered'[i] = delivered[i]
        /\ delivered'[Len(delivered) + 1] = k
    OBVIOUS
  <1>2. \A i \in 1 .. Len(delivered) + 1 : i \in 1 .. Len(delivered) \/ i = Len(delivered) + 1
    BY <1>1
  <1>3. \A d : d \in Delivered' <=> \E i \in 1 .. Len(delivered) + 1 : d = delivered'[i]
    BY <1>1 DEF Delivered
  <1>4. \A d : d \in Delivered <=> \E i \in 1 .. Len(delivered) : d = delivered[i]
    BY <1>1 DEF Delivered
  <1>5. ASSUME NEW d \in Delivered'
        PROVE  d \in Delivered \cup {k}
    BY <1>1, <1>2, <1>3, <1>4
  <1>6. ASSUME NEW d \in Delivered
        PROVE  d \in Delivered'
    <2>1. PICK i \in 1 .. Len(delivered) : d = delivered[i]
      BY <1>4
    <2>2. i \in 1 .. Len(delivered) + 1
      BY <1>1
    <2> QED BY <1>1, <1>3, <2>1, <2>2
  <1>7. k \in Delivered'
    <2>1. Len(delivered) + 1 \in 1 .. Len(delivered) + 1
      BY <1>1
    <2> QED BY <1>1, <1>3, <2>1
  <1> QED BY <1>5, <1>6, <1>7

\* On an open connection, the simulator answers a client that has written its
\* command and read nothing.
LEMMA ServeReply ==
  ASSUME "oversized" \notin Faults, Inv, NEW reply \in Replies(toTpm[4].of), Serve(reply)
  PROVE  ReplyInv'
  <1>0. TypeInv /\ RequestInv /\ ReplyInv /\ CallInv /\ delivered \in Seq(Transmits)
        /\ fromTpm \in Seq(Items)
    BY DEF Inv, TypeInv, StreamTypes
  <1>1. /\ WholeRequest /\ delivered' = Append(delivered, toTpm[4].of)
        /\ fromTpm' = IF link = "open" THEN fromTpm \o reply ELSE fromTpm
        /\ UNCHANGED << pc, transmits, size, locality, want, body, results, link >>
    BY DEF Serve
  <1>2. /\ toTpm[4].of \in 1 .. transmits /\ \A d \in Delivered : d < toTpm[4].of
        /\ link = "open" => toTpm[4].of = transmits /\ pc = "announced"
    BY <1>0, <1>1, ServedRequest
  <1>3. toTpm[4].of \in Transmits /\ toTpm[4].of \in 0 .. MaxTransmits
    <2>1. transmits \in 0 .. MaxTransmits
      BY <1>0 DEF TypeInv, ClientTypes
    <2> QED BY <1>2, <2>1, SizesAreNumbers DEF Transmits
  <1>4. Delivered' = Delivered \cup {toTpm[4].of}
    BY <1>0, <1>1, <1>3, AppendDelivers
  <1>5. CASE link # "open"
    BY <1>0, <1>1, <1>4, <1>5, SameReply
  <1>6. CASE link = "open"
    <2>1. transmits \notin Delivered /\ pc = "announced" /\ toTpm[4].of = transmits
          /\ transmits \in 0 .. MaxTransmits /\ transmits \in Delivered'
      BY <1>2, <1>3, <1>4, <1>6
    <2>2. fromTpm = << >>
      BY <1>0, <2>1 DEF ReplyInv
    <2>3. reply \in Replies(transmits)
      BY <2>1
    <2>4. PICK n \in 0 .. MAX_RESPONSE, rc \in {0, 1} :
            /\ rc = 0 => n \in ResponseSizes
            /\ rc = 1 => n = 0
            /\ Len(reply) = n + 2
            /\ \A i \in 1 .. n + 2 : reply[i] = ReplyItem(transmits, n, rc, i)
      BY <2>1, <2>3, ReplyShape
    <2>5. fromTpm' = reply
      <3>1. reply \in Seq(Items)
        BY <1>3, ReplyTypes
      <3> QED BY <1>1, <1>6, <2>2, <3>1
    <2>6. pc' = "announced" /\ transmits' = transmits
      BY <1>1, <2>1
    <2>7. Reads(n, rc, Offset(n))'
      <3>1. Offset(n)' = 0
        BY <2>6 DEF Offset
      <3>2. Len(fromTpm') = n + 2 /\ n + 2 - 0 = n + 2
            /\ \A i \in 1 .. n + 2 : i + 0 = i /\ fromTpm'[i] = ReplyItem(transmits', n, rc, i)
        BY <2>4, <2>5, <2>6, SizesAreNumbers
      <3> QED BY <3>1, <3>2 DEF Reads
    <2>8. pc' \in ReadSteps
      BY <2>6 DEF ReadSteps
    <2> QED BY <2>1, <2>4, <2>6, <2>7, <2>8 DEF ReplyInv
  <1> QED BY <1>5, <1>6

\* A broken connection keeps the beginning of what it carried.
LEMMA BreakReply ==
  ASSUME Inv, NEW out, NEW in \in 0 .. Len(fromTpm), Break(out, in)
  PROVE  ReplyInv'
  <1>0. ReplyInv /\ fromTpm \in Seq(Items) /\ Len(fromTpm) \in Nat
    BY DEF Inv, TypeInv, StreamTypes
  <1>1. /\ Len(fromTpm') = in /\ \A i \in 1 .. in : fromTpm'[i] = fromTpm[i]
        /\ fromTpm' \in Seq(Items)
    BY <1>0, TakeProperties DEF Break
  <1>2. UNCHANGED << pc, transmits, want, body, delivered >> /\ Delivered' = Delivered
    BY DEF Break, Delivered
  <1>3. fromTpm = << >> => fromTpm' = << >>
    BY <1>0, <1>1
  <1>4. CASE pc \in {"body", "trailer"} \/ fromTpm # << >>
    <2>1. PICK n \in 0 .. MAX_RESPONSE, rc \in {0, 1} :
            /\ rc = 0 => n \in ResponseSizes
            /\ rc = 1 => n = 0
            /\ Reads(n, rc, Offset(n))
            /\ pc # "announced" => want = n
            /\ pc = "trailer" => body = Data(transmits, n)
      BY <1>0, <1>4 DEF ReplyInv
    <2>2. PICK off : off = Offset(n)
      OBVIOUS
    <2>3. Offset(n)' = off
      BY <1>2, <2>2 DEF Offset
    <2>4. off \in Nat /\ n \in Nat
      BY <2>1, <2>2, SizesAreNumbers DEF Offset
    <2>5. Len(fromTpm') <= n + 2 - off /\ \A i \in 1 .. Len(fromTpm') : fromTpm'[i] = ReplyItem(transmits', n, rc, i + off)
      <3>1. /\ Len(fromTpm) <= n + 2 - off
            /\ \A i \in 1 .. Len(fromTpm) : fromTpm[i] = ReplyItem(transmits, n, rc, i + off)
        BY <2>1, <2>2 DEF Reads
      <3>2. \A i \in 1 .. in : i \in 1 .. Len(fromTpm)
        BY <1>0
      <3>3. in <= n + 2 - off
        BY <1>0, <2>4, <3>1
      <3> QED BY <1>1, <1>2, <3>1, <3>2, <3>3
    <2>6. Reads(n, rc, Offset(n))'
      BY <2>3, <2>5 DEF Reads
    <2>7. transmits' \in Delivered'
      BY <1>0, <1>2, <1>4 DEF ReplyInv
    <2>8. pc' \notin ReadSteps => fromTpm' = << >>
      BY <1>0, <1>2, <1>3 DEF ReplyInv
    <2> QED BY <1>2, <2>1, <2>6, <2>7, <2>8 DEF ReplyInv
  <1>5. CASE ~(pc \in {"body", "trailer"} \/ fromTpm # << >>)
    BY <1>2, <1>3, <1>5, NoReply
  <1> QED BY <1>4, <1>5

\* What stands in a stream that the client reads from.
LEMMA Reading ==
  ASSUME Inv, pc \in {"body", "trailer"} \/ fromTpm # << >>
  PROVE  /\ transmits \in Delivered /\ transmits \in Transmits /\ transmits \in 0 .. MaxTransmits
         /\ fromTpm \in Seq(Items) /\ Len(fromTpm) \in Nat /\ pc \in ReadSteps
         /\ \E n \in 0 .. MAX_RESPONSE, rc \in {0, 1} :
              /\ n \in Nat
              /\ rc = 0 => n \in ResponseSizes
              /\ rc = 1 => n = 0
              /\ Reads(n, rc, Offset(n))
              /\ pc # "announced" => want = n
              /\ pc = "trailer" => body = Data(transmits, n)
  <1>1. ReplyInv /\ fromTpm \in Seq(Items) /\ Len(fromTpm) \in Nat
    BY DEF Inv, TypeInv, StreamTypes
  <1>2. pc \in ReadSteps
    BY <1>1 DEF ReplyInv, ReadSteps
  <1>3. transmits \in Transmits /\ transmits \in 0 .. MaxTransmits
    BY <1>2, SizesAreNumbers DEF Inv, TypeInv, ProgressInv, Transmits
  <1>4. \A n \in 0 .. MAX_RESPONSE : n \in Nat
    BY SizesAreNumbers
  <1>5. transmits \in Delivered
    BY <1>1 DEF ReplyInv
  <1>6. \E n \in 0 .. MAX_RESPONSE, rc \in {0, 1} :
          /\ rc = 0 => n \in ResponseSizes
          /\ rc = 1 => n = 0
          /\ Reads(n, rc, Offset(n))
          /\ pc # "announced" => want = n
          /\ pc = "trailer" => body = Data(transmits, n)
    BY <1>1 DEF ReplyInv
  <1> QED BY <1>1, <1>2, <1>3, <1>4, <1>5, <1>6

LEMMA NumberRead ==
  ASSUME NEW n \in Nat
  PROVE  Number(U32(n)[1]) = {n}
  BY NumberItems DEF Number

\* The length read is that of the reply: it is never too long.
LEMMA LengthRead ==
  ASSUME Inv, NEW m, ReadLength(m)
  PROVE  ReplyInv' /\ pc' = "body" /\ UNCHANGED results
  <1>1. /\ pc = "announced" /\ fromTpm # << >> /\ m \in Number(Head(fromTpm))
        /\ fromTpm' = Tail(fromTpm) /\ UNCHANGED << transmits, body, delivered >>
    BY DEF ReadLength
  <1>2. PICK n \in 0 .. MAX_RESPONSE, rc \in {0, 1} :
          /\ n \in Nat
          /\ rc = 0 => n \in ResponseSizes
          /\ rc = 1 => n = 0
          /\ Reads(n, rc, Offset(n))
    BY <1>1, Reading
  <1>3. fromTpm \in Seq(Items) /\ transmits \in Delivered
    BY <1>1, Reading
  <1>4. /\ Len(fromTpm') = Len(fromTpm) - 1 /\ Len(fromTpm) > 0 /\ Len(fromTpm) \in Nat
        /\ Head(fromTpm) = fromTpm[1]
        /\ \A i \in 1 .. Len(fromTpm) - 1 : fromTpm'[i] = fromTpm[i + 1]
    BY <1>1, <1>3, TailProperties
  <1>5. Len(fromTpm) <= n + 2 /\ \A i \in 1 .. Len(fromTpm) : fromTpm[i] = ReplyItem(transmits, n, rc, i)
    <2>1. Offset(n) = 0
      BY <1>1 DEF Offset
    <2>2. Reads(n, rc, 0)
      BY <1>2, <2>1
    <2>3. \A i \in 1 .. Len(fromTpm) : i + 0 = i
      BY <1>4
    <2> QED BY <1>2, <2>2, <2>3 DEF Reads
  <1>6. m = n
    <2>1. fromTpm[1] = U32(n)[1]
      <3>1. fromTpm[1] = ReplyItem(transmits, n, rc, 1)
        BY <1>4, <1>5
      <3>2. ReplyItem(transmits, n, rc, 1) = U32(n)[1]
        BY DEF ReplyItem
      <3> QED BY <3>1, <3>2
    <2>2. Number(U32(n)[1]) = {n}
      BY <1>2, NumberRead
    <2> QED BY <1>1, <1>4, <2>1, <2>2
  <1>7. pc' = "body" /\ want' = n /\ UNCHANGED results
    <2>1. ~(m > MAX_RESPONSE)
      BY <1>2, <1>6, SizesAreNumbers
    <2> QED BY <1>6, <2>1 DEF ReadLength
  <1>8. Reads(n, rc, Offset(n))'
    <2>1. Offset(n)' = 1
      BY <1>7 DEF Offset
    <2>2. Len(fromTpm') <= n + 2 - 1
      BY <1>2, <1>4, <1>5
    <2>3. \A i \in 1 .. Len(fromTpm') : fromTpm'[i] = ReplyItem(transmits, n, rc, i + 1)
      BY <1>4, <1>5
    <2> QED BY <1>1, <2>1, <2>2, <2>3 DEF Reads
  <1>9. Delivered' = Delivered /\ pc' \in ReadSteps /\ pc' # "trailer"
    BY <1>1, <1>7 DEF Delivered, ReadSteps
  <1> QED BY <1>1, <1>2, <1>3, <1>7, <1>8, <1>9 DEF ReplyInv

\* What is read as the response is the data of the reply, whole.
LEMMA BodyRead ==
  ASSUME Inv, ReadBody
  PROVE  ReplyInv'
  <1>1. /\ pc = "body" /\ Len(fromTpm) >= want /\ body' = Take(fromTpm, want)
        /\ fromTpm' = Drop(fromTpm, want) /\ pc' = "trailer" /\ UNCHANGED << transmits, want, delivered >>
    BY DEF ReadBody
  <1>2. PICK n \in 0 .. MAX_RESPONSE, rc \in {0, 1} :
          /\ n \in Nat
          /\ rc = 0 => n \in ResponseSizes
          /\ rc = 1 => n = 0
          /\ Reads(n, rc, Offset(n))
          /\ want = n
    BY <1>1, Reading
  <1>3. /\ fromTpm \in Seq(Items) /\ transmits \in Delivered /\ Len(fromTpm) \in Nat
        /\ transmits \in 0 .. MaxTransmits
    BY <1>1, Reading
  <1>4. Len(fromTpm) <= n + 1 /\ \A i \in 1 .. Len(fromTpm) : fromTpm[i] = ReplyItem(transmits, n, rc, i + 1)
    <2>1. Offset(n) = 1
      BY <1>1 DEF Offset
    <2>2. Reads(n, rc, 1)
      BY <1>2, <2>1
    <2>3. n + 2 - 1 = n + 1
      BY <1>2
    <2> QED BY <2>2, <2>3 DEF Reads
  <1>5. n \in 0 .. Len(fromTpm)
    BY <1>1, <1>2, <1>3
  <1>6. /\ body' \in Seq(Items) /\ Len(body') = n /\ \A i \in 1 .. n : body'[i] = fromTpm[i]
        /\ fromTpm' \in Seq(Items) /\ Len(fromTpm') = Len(fromTpm) - n
        /\ \A i \in 1 .. Len(fromTpm) - n : fromTpm'[i] = fromTpm[i + n]
    BY <1>1, <1>2, <1>3, <1>5, TakeProperties, DropProperties
  <1>7. body' = Data(transmits, n)
    <2>1. PICK d \in Seq(Items) : d = Data(transmits, n) /\ Len(d) = n
      <3>1. Data(transmits, n) \in Seq(Items) /\ Len(Data(transmits, n)) = n
        BY <1>2, <1>3, DataItems
      <3> QED BY <3>1
    <2>2. \A i \in 1 .. n : ReplyItem(transmits, n, rc, i + 1) = Data(transmits, n)[i]
      BY <1>2, ReplyItems
    <2>3. \A i \in 1 .. n : body'[i] = d[i]
      <3>1. \A i \in 1 .. n : i \in 1 .. Len(fromTpm)
        BY <1>3, <1>5
      <3> QED BY <1>4, <1>6, <2>1, <2>2, <3>1
    <2>4. body' = d
      BY <1>6, <2>1, <2>3
    <2> QED BY <2>1, <2>4
  <1>8. Reads(n, rc, Offset(n))'
    <2>1. Offset(n)' = n + 1
      BY <1>1 DEF Offset
    <2>2. Len(fromTpm') <= n + 2 - (n + 1)
      BY <1>2, <1>3, <1>4, <1>6
    <2>3. ASSUME NEW i \in 1 .. Len(fromTpm')
          PROVE  fromTpm'[i] = ReplyItem(transmits, n, rc, i + (n + 1))
      <3>1. i \in 1 .. Len(fromTpm) - n /\ i + n \in 1 .. Len(fromTpm) /\ (i + n) + 1 = i + (n + 1)
        BY <1>2, <1>3, <1>6
      <3> QED BY <1>4, <1>6, <3>1
    <2> QED BY <1>1, <2>1, <2>2, <2>3 DEF Reads
  <1>9. Delivered' = Delivered /\ pc' \in ReadSteps
    BY <1>1 DEF Delivered, ReadSteps
  <1> QED BY <1>1, <1>2, <1>3, <1>7, <1>8, <1>9 DEF ReplyInv

\* The result code ends the reply, and decides over the response.
LEMMA TrailerRead ==
  ASSUME Inv, NEW m, ReadTrailer(m)
  PROVE  /\ fromTpm' = << >> /\ transmits \in Delivered /\ transmits \in Transmits
         /\ m = 0 => body \in AnswerTo(transmits)
  <1>1. /\ pc = "trailer" /\ fromTpm # << >> /\ m \in Number(Head(fromTpm)) /\ fromTpm' = Tail(fromTpm)
    BY DEF ReadTrailer
  <1>2. PICK n \in 0 .. MAX_RESPONSE, rc \in {0, 1} :
          /\ n \in Nat
          /\ rc = 0 => n \in ResponseSizes
          /\ Reads(n, rc, Offset(n))
          /\ body = Data(transmits, n)
    BY <1>1, Reading
  <1>3. /\ fromTpm \in Seq(Items) /\ transmits \in Delivered /\ Len(fromTpm) \in Nat
        /\ transmits \in Transmits
    BY <1>1, Reading
  <1>4. /\ Tail(fromTpm) \in Seq(Items) /\ Len(Tail(fromTpm)) = Len(fromTpm) - 1
        /\ Len(fromTpm) > 0 /\ Head(fromTpm) = fromTpm[1]
    BY <1>1, <1>3, TailProperties
  <1>5. Len(fromTpm) = 1 /\ fromTpm[1] = ReplyItem(transmits, n, rc, n + 2)
    <2>1. Offset(n) = n + 1
      BY <1>1 DEF Offset
    <2>2. Reads(n, rc, n + 1)
      BY <1>2, <2>1
    <2>3. n + 2 - (n + 1) = 1 /\ 1 + (n + 1) = n + 2
      BY <1>2
    <2>4. Len(fromTpm) = 1
      BY <1>3, <1>4, <2>2, <2>3 DEF Reads
    <2>5. fromTpm[1] = ReplyItem(transmits, n, rc, 1 + (n + 1))
      BY <2>2, <2>4 DEF Reads
    <2> QED BY <2>3, <2>4, <2>5
  <1>6. m = rc
    <2>1. ReplyItem(transmits, n, rc, n + 2) = U32(rc)[1]
      BY <1>2, ReplyItems
    <2>2. Number(U32(rc)[1]) = {rc}
      <3>1. rc \in Nat
        OBVIOUS
      <3> QED BY <3>1, NumberRead
    <2> QED BY <1>1, <1>4, <1>5, <2>1, <2>2
  <1>7. fromTpm' = << >>
    <2>1. Len(fromTpm') = 0
      BY <1>1, <1>4, <1>5
    <2> QED BY <1>1, <1>4, <2>1
  <1> QED BY <1>2, <1>3, <1>6, <1>7 DEF AnswerTo

LEMMA NextReply ==
  ASSUME "oversized" \notin Faults, Inv, [Next]_vars
  PROVE  ReplyInv'
  <1>0. ReplyInv
    BY DEF Inv
  <1>1. CASE UNCHANGED vars
    BY <1>0, <1>1, SameReply DEF vars, data, Delivered
  <1>2. CASE Calls
    <2>1. pc = "idle" /\ pc' \notin {"body", "trailer"} /\ UNCHANGED fromTpm
      BY <1>2 DEF Calls, transmit, set_locality, session_end, power_on, data
    <2> QED BY <1>0, <2>1, NoReply DEF ReplyInv, ReadSteps
  <1>3. CASE Run
    <2>1. CASE WriteNext
      <3>1. pc \in WriteSteps /\ pc' \notin {"body", "trailer"} /\ UNCHANGED fromTpm
        BY <2>1, Portions DEF Inv, WriteNext, WriteSteps
      <3> QED BY <1>0, <3>1, NoReply DEF ReplyInv, WriteSteps, ReadSteps
    <2>2. CASE WriteFails \/ ReadFails
      <3>1. pc' = "idle" /\ ((pc \notin ReadSteps /\ fromTpm' = fromTpm) \/ fromTpm' = << >>)
        BY <2>2 DEF WriteFails, ReadFails, Return, WriteSteps, ReadSteps
      <3> QED BY <1>0, <3>1, NoReply DEF ReplyInv
    <2>3. ASSUME NEW n, ReadLength(n) \/ ReadTrailer(n)
          PROVE  ReplyInv'
      <3>1. CASE ReadTrailer(n)
        <4>1. pc' = "idle"
          BY <3>1 DEF ReadTrailer, Return
        <4> QED BY <3>1, <4>1, TrailerRead, NoReply
      <3> QED BY <2>3, <3>1, LengthRead
    <2>4. CASE pc \in SignalSteps /\ pc' \in SignalSteps \cup {"idle"} /\ UNCHANGED data
      <3>1. pc \notin ReadSteps /\ pc' \notin {"body", "trailer"} /\ UNCHANGED fromTpm
        BY <2>4 DEF SignalSteps, ReadSteps, data
      <3> QED BY <1>0, <3>1, NoReply DEF ReplyInv
    <2>5. ASSUME NEW code, SendSignal(code)
          PROVE  ReplyInv'
      BY <2>4, <2>5 DEF SendSignal, PowerFails, SignalSteps
    <2>6. ASSUME NEW rc, SignalAnswered(rc)
          PROVE  ReplyInv'
      BY <2>4, <2>6 DEF SignalAnswered, PowerFails, SignalSteps
    <2>7. CASE SignalFails
      BY <2>4, <2>7 DEF SignalFails, PowerFails, SignalSteps
    <2> QED BY <1>3, <2>1, <2>2, <2>3, <2>5, <2>6, <2>7, BodyRead DEF Run
  <1>4. CASE Serves
    <2>1. CASE ServeEnd
      BY <1>0, <2>1, SameReply DEF ServeEnd, Delivered
    <2> QED BY <1>4, <2>1, ServeReply DEF Serves
  <1>5. CASE Signals
    BY <1>0, <1>5, SameReply DEF Signals, ServeSignal, data, Delivered
  <1>6. CASE Breaks
    <2>1. ASSUME NEW out, NEW in, BreakPlatform(out, in)
          PROVE  ReplyInv'
      BY <1>0, <2>1, SameReply DEF BreakPlatform, data, Delivered
    <2> QED BY <1>6, <2>1, BreakReply DEF Breaks
  <1> QED BY <1>1, <1>2, <1>3, <1>4, <1>5, <1>6 DEF Next

-----------------------------------------------------------------------------
(* Exchanges: calls and results.                                           *)

LEMMA SameCalls ==
  ASSUME CallInv, UNCHANGED << transmits, results, delivered >>,
         link' = "open" => link = "open",
         pc' \in WriteSteps \cup ReadSteps => pc \in WriteSteps \cup ReadSteps,
         pc' \in WriteSteps => pc \in WriteSteps
  PROVE  CallInv'
  <1>1. Delivered' = Delivered /\ UNCHANGED << transmits, results >>
    BY DEF Delivered
  <1> QED BY <1>1 DEF CallInv, AnswerTo

\* A call returns for its own command only, and what it returns as Ok is the
\* answer to it.
LEMMA ReturnCalls ==
  ASSUME Inv, NEW kind \in {"Ok", "Err"}, NEW resp, Return(kind, resp), transmits \in Transmits,
         pc \in WriteSteps \cup ReadSteps, kind = "Ok" => resp \in AnswerTo(transmits),
         UNCHANGED << transmits, link, delivered >>
  PROVE  /\ CallInv' /\ results[transmits].kind = "none" /\ pc' = "idle"
         /\ results'[transmits] = [kind |-> kind, body |-> resp]
         /\ \A k \in Transmits \ {transmits} : results'[k] = results[k]
  <1>1. /\ pc' = "idle" /\ results' = [results EXCEPT ![transmits] = [kind |-> kind, body |-> resp]]
    BY DEF Return
  <1>2. CallInv /\ results \in [Transmits -> [kind : {"none", "Ok", "Err"}, body : Seq(Items)]]
    BY DEF Inv, TypeInv, ClientTypes
  <1>3. /\ results'[transmits] = [kind |-> kind, body |-> resp]
        /\ \A k \in Transmits \ {transmits} : results'[k] = results[k]
    BY <1>1, <1>2
  <1>4. pc' \notin WriteSteps \cup ReadSteps
    BY <1>1 DEF WriteSteps, ReadSteps
  <1>5. \A k \in Transmits : k > transmits => results'[k].kind = "none"
    <2>1. \A k \in Transmits : k > transmits => k \in Transmits \ {transmits}
      BY SizesAreNumbers DEF Transmits
    <2> QED BY <1>2, <1>3, <2>1 DEF CallInv
  <1>6. \A k \in Transmits : results'[k].kind = "Ok" => results'[k].body \in AnswerTo(k)
    <2>1. \A k \in Transmits : k # transmits => (results'[k].kind = "Ok" => results'[k].body \in AnswerTo(k))
      BY <1>2, <1>3 DEF CallInv
    <2>2. results'[transmits].kind = "Ok" => results'[transmits].body \in AnswerTo(transmits)
      BY <1>3
    <2> QED BY <2>1, <2>2
  <1>7. Delivered' = Delivered
    BY DEF Delivered
  <1>8. CallInv'
    BY <1>2, <1>4, <1>5, <1>6, <1>7 DEF CallInv, AnswerTo
  <1>9. results[transmits].kind = "none"
    BY <1>2 DEF CallInv
  <1> QED BY <1>1, <1>3, <1>8, <1>9

LEMMA NewCall ==
  ASSUME Inv, NEW n, transmit(n)
  PROVE  /\ CallInv' /\ transmits' = transmits + 1 /\ transmits' \in Transmits
         /\ transmits' \notin Delivered /\ results[transmits'].kind = "none"
  <1>1. /\ transmits < MaxTransmits /\ transmits' = transmits + 1 /\ pc' = "selector"
        /\ UNCHANGED << results, delivered >>
    BY DEF transmit
  <1>2. CallInv /\ transmits \in Nat
    BY SizesAreNumbers DEF Inv, TypeInv, ClientTypes
  <1>3. transmits' \in Transmits
    BY <1>1, <1>2, SizesAreNumbers DEF Transmits
  <1>4. Delivered' = Delivered /\ Delivered \subseteq 1 .. transmits
    BY <1>1, <1>2 DEF Delivered, CallInv
  <1>5. transmits' \notin Delivered /\ Delivered \subseteq 1 .. transmits'
    BY <1>1, <1>2, <1>4
  <1>6. \A k \in Transmits : k > transmits \/ ~(k > transmits' \/ k = transmits')
    BY <1>1, <1>2, SizesAreNumbers DEF Transmits
  <1>7. \A k \in Transmits : k > transmits' \/ k = transmits' => results[k].kind = "none"
    BY <1>2, <1>6 DEF CallInv
  <1>8. CallInv'
    BY <1>1, <1>2, <1>4, <1>5, <1>7 DEF CallInv, AnswerTo
  <1> QED BY <1>1, <1>3, <1>5, <1>7, <1>8

\* An execution is of a call that has begun, and has happened only once.
LEMMA ServeCalls ==
  ASSUME Inv, NEW reply, Serve(reply)
  PROVE  CallInv' /\ toTpm[4].of \in Transmits /\ toTpm[4].of \notin Delivered
         /\ Delivered' = Delivered \cup {toTpm[4].of}
         /\ (link = "open" => pc = "announced" /\ toTpm[4].of = transmits)
  <1>1. /\ WholeRequest /\ delivered' = Append(delivered, toTpm[4].of)
        /\ UNCHANGED << pc, transmits, results, link >>
    BY DEF Serve
  <1>2. /\ TypeInv /\ RequestInv /\ ReplyInv /\ CallInv /\ delivered \in Seq(Transmits)
        /\ transmits \in 0 .. MaxTransmits
    BY DEF Inv, TypeInv, ClientTypes, StreamTypes
  <1>3. PICK k : k = toTpm[4].of
    OBVIOUS
  <1>4. /\ k \in 1 .. transmits /\ \A d \in Delivered : d < k
        /\ link = "open" => k = transmits /\ pc = "announced"
    BY <1>1, <1>2, <1>3, ServedRequest
  <1>5. k \in Transmits /\ k \notin Delivered
    <2>1. k \in Transmits
      BY <1>2, <1>4, SizesAreNumbers DEF Transmits
    <2>2. k \notin Delivered
      <3>1. ~(k < k)
        BY <1>4
      <3> QED BY <1>4, <3>1
    <2> QED BY <2>1, <2>2
  <1>6. Delivered' = Delivered \cup {k}
    BY <1>1, <1>2, <1>3, <1>5, AppendDelivers
  <1>7. CallInv'
    <2>1. Delivered' \subseteq 1 .. transmits'
      BY <1>1, <1>2, <1>4, <1>6 DEF CallInv
    <2>2. link' = "open" /\ pc' \in WriteSteps => transmits' \notin Delivered'
      BY <1>1, <1>4 DEF WriteSteps
    <2> QED BY <1>1, <1>2, <2>1, <2>2 DEF CallInv, AnswerTo
  <1> QED BY <1>3, <1>4, <1>5, <1>6, <1>7

LEMMA WriteCalls ==
  ASSUME TypeInv, CallInv, WriteNext
  PROVE  CallInv' /\ pc' \in WriteSteps \cup ReadSteps
  <1>1. /\ pc \in WriteSteps /\ pc' \in WriteSteps \cup ReadSteps
        /\ UNCHANGED << transmits, results, link, delivered >>
    BY Portions DEF WriteNext, WriteSteps, ReadSteps
  <1> QED BY <1>1, SameCalls

LEMMA NextCalls ==
  ASSUME "oversized" \notin Faults, Inv, [Next]_vars
  PROVE  CallInv'
  <1>0. CallInv /\ TypeInv /\ (pc \in WriteSteps \cup ReadSteps => transmits \in Transmits)
    BY DEF Inv, TypeInv, ProgressInv
  <1>1. CASE UNCHANGED vars
    BY <1>0, <1>1, SameCalls DEF vars, data
  <1>2. CASE Calls
    <2>1. CASE session_end \/ power_on \/ \E l \in Localities : set_locality(l)
      <3>1. /\ UNCHANGED << transmits, results, delivered, link >>
            /\ pc' \in {"idle", "power on"}
        BY <2>1 DEF session_end, power_on, set_locality, data
      <3>2. pc' \notin WriteSteps \cup ReadSteps
        BY <3>1 DEF WriteSteps, ReadSteps
      <3> QED BY <1>0, <3>1, <3>2, SameCalls
    <2> QED BY <1>2, <2>1, NewCall DEF Calls
  <1>3. CASE Run
    <2>1. CASE WriteNext
      BY <1>0, <2>1, WriteCalls
    <2>2. CASE WriteFails \/ ReadFails
      <3>1. PICK kind \in {"Ok", "Err"} : kind = "Err"
        OBVIOUS
      <3>2. /\ pc \in WriteSteps \cup ReadSteps /\ Return(kind, << >>)
            /\ UNCHANGED << transmits, link, delivered >>
        BY <2>2, <3>1 DEF WriteFails, ReadFails
      <3> QED BY <1>0, <3>1, <3>2, ReturnCalls
    <2>3. ASSUME NEW n, ReadLength(n)
          PROVE  CallInv'
      <3>1. pc = "announced" /\ pc' = "body" /\ UNCHANGED << transmits, results, link, delivered >>
        BY <2>3, LengthRead DEF ReadLength
      <3>2. pc \in WriteSteps \cup ReadSteps /\ pc' \notin WriteSteps
        BY <3>1 DEF WriteSteps, ReadSteps
      <3> QED BY <1>0, <3>1, <3>2, SameCalls
    <2>4. ASSUME NEW n, ReadTrailer(n)
          PROVE  CallInv'
      <3>1. pc \in WriteSteps \cup ReadSteps /\ UNCHANGED << transmits, link, delivered >>
            /\ IF n = 0 THEN Return("Ok", body) ELSE Return("Err", << >>)
        BY <2>4 DEF ReadTrailer, ReadSteps
      <3>2. n = 0 => body \in AnswerTo(transmits)
        BY <2>4, TrailerRead
      <3>3. CASE n = 0
        BY <1>0, <3>1, <3>2, <3>3, ReturnCalls
      <3>4. CASE n # 0
        BY <1>0, <3>1, <3>4, ReturnCalls
      <3> QED BY <3>3, <3>4
    <2>5. CASE ReadBody
      <3>1. pc \in WriteSteps \cup ReadSteps /\ pc' \notin WriteSteps
            /\ UNCHANGED << transmits, results, link, delivered >>
        BY <2>5 DEF ReadBody, WriteSteps, ReadSteps
      <3> QED BY <1>0, <3>1, SameCalls
    <2>6. CASE UNCHANGED << transmits, data >> /\ pc' \in {"idle"} \cup SignalSteps
      <3>1. pc' \notin WriteSteps \cup ReadSteps /\ UNCHANGED << transmits, results, link, delivered >>
        BY <2>6 DEF WriteSteps, ReadSteps, SignalSteps, data
      <3> QED BY <1>0, <3>1, SameCalls
    <2>7. ASSUME NEW code, SendSignal(code)
          PROVE  CallInv'
      BY <2>6, <2>7 DEF SendSignal, PowerFails, SignalSteps
    <2>8. ASSUME NEW rc, SignalAnswered(rc)
          PROVE  CallInv'
      BY <2>6, <2>8 DEF SignalAnswered, PowerFails, SignalSteps
    <2>9. CASE SignalFails
      BY <2>6, <2>9 DEF SignalFails, PowerFails, SignalSteps
    <2> QED BY <1>3, <2>1, <2>2, <2>3, <2>4, <2>5, <2>7, <2>8, <2>9 DEF Run
  <1>4. CASE Serves
    <2>1. CASE ServeEnd
      BY <1>0, <2>1, SameCalls DEF ServeEnd
    <2> QED BY <1>4, <2>1, ServeCalls DEF Serves
  <1>5. CASE Signals
    BY <1>0, <1>5, SameCalls DEF Signals, ServeSignal, data
  <1>6. CASE Breaks
    BY <1>0, <1>6, SameCalls DEF Breaks, Break, BreakPlatform, data
  <1> QED BY <1>1, <1>2, <1>3, <1>4, <1>5, <1>6 DEF Next

LEMMA InitInv == Init => Inv
  <1> SUFFICES ASSUME Init
               PROVE  Inv
    OBVIOUS
  <1>1. Delivered = {}
    BY DEF Init, Delivered
  <1>2. ReplyInv
    BY DEF Init, ReplyInv
  <1>3. CallInv
    BY <1>1 DEF Init, CallInv
  <1> QED BY <1>2, <1>3, InitTypes, InitRequest DEF Inv

LEMMA NextInv ==
  ASSUME "oversized" \notin Faults
  PROVE  Inv /\ [Next]_vars => Inv'
  BY NextTypes, NextRequest, NextReply, NextCalls DEF Inv

-----------------------------------------------------------------------------
(* The refinement: the simulator's Serve is the contract's Deliver, the end *)
(* of a call its Answer or Fail, and the rest of the framing stutters.      *)

Returned == [k \in Transmits |-> Outcome(k)]

Busy == pc \in WriteSteps \cup ReadSteps

LEMMA SameOutcomes ==
  ASSUME UNCHANGED results
  PROVE  Returned' = Returned
  BY DEF Returned, Outcome, AnswerTo

\* Steps of the client that leave the contract's state alone.
LEMMA Stutters ==
  ASSUME UNCHANGED << transmits, results, delivered >>, Busy' = Busy
  PROVE  UNCHANGED Contract!vars
  BY SameOutcomes DEF Contract!vars, Returned, Busy

LEMMA EndRefines ==
  ASSUME Inv, Busy, NEW kind \in {"Ok", "Err"}, NEW resp, Return(kind, resp),
         kind = "Ok" => resp \in AnswerTo(transmits) /\ transmits \in Delivered,
         UNCHANGED << transmits, link, delivered >>
  PROVE  Contract!Answer \/ Contract!Fail
  <1>1. transmits \in Transmits /\ pc \in WriteSteps \cup ReadSteps
    BY DEF Inv, TypeInv, ProgressInv, Busy
  <1>2. /\ pc' = "idle" /\ results'[transmits] = [kind |-> kind, body |-> resp]
        /\ \A k \in Transmits \ {transmits} : results'[k] = results[k]
    BY <1>1, ReturnCalls
  <1>3. ~Busy'
    BY <1>2 DEF Busy, WriteSteps, ReadSteps
  <1>4. \A k \in Transmits : k # transmits => Outcome(k)' = Outcome(k)
    BY <1>2 DEF Outcome, AnswerTo
  <1>5. ASSUME NEW k \in Transmits, k = transmits
        PROVE  Outcome(k)' = IF kind = "Ok" THEN "Answered" ELSE "Err"
    <2>1. results'[k] = [kind |-> kind, body |-> resp]
      BY <1>2, <1>5
    <2>2. kind = "Ok" => resp \in AnswerTo(k)
      BY <1>5
    <2> QED BY <2>1, <2>2 DEF Outcome, AnswerTo
  <1>6. Returned' = [Returned EXCEPT ![transmits] = IF kind = "Ok" THEN "Answered" ELSE "Err"]
    BY <1>1, <1>4, <1>5 DEF Returned
  <1>7. CASE kind = "Ok"
    <2>1. Returned' = [Returned EXCEPT ![transmits] = "Answered"]
      BY <1>6, <1>7
    <2> QED BY <1>1, <1>3, <1>7, <2>1 DEF Contract!Answer, Returned, Busy, Delivered
  <1>8. CASE kind = "Err"
    <2>1. Returned' = [Returned EXCEPT ![transmits] = "Err"]
      BY <1>6, <1>8
    <2> QED BY <1>1, <1>3, <1>8, <2>1 DEF Contract!Fail, Returned, Busy
  <1> QED BY <1>7, <1>8

LEMMA RunRefines ==
  ASSUME "oversized" \notin Faults, Inv, Run
  PROVE  [Contract!Next]_Contract!vars
  <1>0. TypeInv /\ CallInv
    BY DEF Inv
  <1>1. CASE WriteNext
    <2>1. Busy /\ Busy'
      BY <1>0, <1>1, WriteCalls DEF Busy, WriteNext
    <2> QED BY <1>1, <2>1, Stutters DEF WriteNext
  <1>2. CASE WriteFails \/ ReadFails
    <2>1. PICK kind \in {"Ok", "Err"} : kind = "Err"
      OBVIOUS
    <2>2. Busy /\ Return(kind, << >>) /\ UNCHANGED << transmits, link, delivered >>
      BY <1>2, <2>1 DEF WriteFails, ReadFails, Busy
    <2> QED BY <2>1, <2>2, EndRefines DEF Inv, Contract!Next
  <1>3. ASSUME NEW n, ReadLength(n)
        PROVE  [Contract!Next]_Contract!vars
    <2>1. pc = "announced" /\ pc' = "body" /\ UNCHANGED << transmits, results, delivered >>
      BY <1>3, LengthRead DEF ReadLength
    <2>2. Busy /\ Busy'
      BY <2>1 DEF Busy, ReadSteps
    <2> QED BY <2>1, <2>2, Stutters
  <1>4. ASSUME NEW n, ReadTrailer(n)
        PROVE  [Contract!Next]_Contract!vars
    <2>1. Busy /\ UNCHANGED << transmits, link, delivered >>
          /\ IF n = 0 THEN Return("Ok", body) ELSE Return("Err", << >>)
      BY <1>4 DEF ReadTrailer, ReadSteps, Busy
    <2>2. transmits \in Delivered /\ (n = 0 => body \in AnswerTo(transmits))
      BY <1>4, TrailerRead
    <2>3. Contract!Answer \/ Contract!Fail
      <3>1. CASE n = 0
        BY <2>1, <2>2, <3>1, EndRefines
      <3>2. CASE n # 0
        BY <2>1, <3>2, EndRefines
      <3> QED BY <3>1, <3>2
    <2> QED BY <2>3 DEF Contract!Next
  <1>5. CASE ReadBody
    <2>1. Busy /\ Busy'
      BY <1>5 DEF ReadBody, Busy, ReadSteps
    <2> QED BY <1>5, <2>1, Stutters DEF ReadBody
  <1>6. CASE UNCHANGED << transmits, data >> /\ pc \in SignalSteps /\ pc' \in {"idle"} \cup SignalSteps
    <2>1. ~Busy /\ ~Busy'
      BY <1>6 DEF Busy, WriteSteps, ReadSteps, SignalSteps
    <2> QED BY <1>6, <2>1, Stutters DEF data, Busy
  <1>7. ASSUME NEW code, SendSignal(code)
        PROVE  [Contract!Next]_Contract!vars
    BY <1>6, <1>7 DEF SendSignal, PowerFails, SignalSteps
  <1>8. ASSUME NEW rc, SignalAnswered(rc)
        PROVE  [Contract!Next]_Contract!vars
    BY <1>6, <1>8 DEF SignalAnswered, PowerFails, SignalSteps
  <1>9. CASE SignalFails
    BY <1>6, <1>9 DEF SignalFails, PowerFails, SignalSteps
  <1> QED BY <1>1, <1>2, <1>3, <1>4, <1>5, <1>7, <1>8, <1>9 DEF Run

LEMMA ServeRefines ==
  ASSUME Inv, NEW reply, Serve(reply)
  PROVE  Contract!Next
  <1>1. PICK k : k = toTpm[4].of
    OBVIOUS
  <1>2. k \in Transmits /\ Delivered' = Delivered \cup {k}
    BY <1>1, ServeCalls
  <1>3. k \in 1 .. transmits /\ \A d \in Delivered : d < k
    BY <1>1, ServedRequest DEF Inv, Serve
  <1>4. UNCHANGED << pc, transmits, results >> /\ Busy' = Busy
    BY DEF Serve, Busy
  <1>5. Contract!Deliver(k)
    BY <1>2, <1>3, <1>4, SameOutcomes DEF Contract!Deliver, Returned, Delivered, Busy
  <1> QED BY <1>2, <1>5 DEF Contract!Next, Contract!Transmits, Transmits

LEMMA NextRefines ==
  ASSUME "oversized" \notin Faults, Inv, [Next]_vars
  PROVE  [Contract!Next]_Contract!vars
  <1>1. CASE UNCHANGED << pc, transmits, results, delivered >>
    <2>1. Busy' = Busy
      BY <1>1 DEF Busy
    <2> QED BY <1>1, <2>1, Stutters
  <1>2. CASE UNCHANGED vars
    BY <1>1, <1>2 DEF vars, data
  <1>3. CASE Calls
    <2>1. ASSUME NEW n \in CommandSizes, transmit(n)
          PROVE  Contract!Call
      <3>1. /\ pc = "idle" /\ pc' = "selector" /\ transmits < MaxTransmits
            /\ transmits' = transmits + 1 /\ UNCHANGED << results, delivered >>
        BY <2>1 DEF transmit
      <3>2. ~Busy /\ Busy'
        BY <3>1 DEF Busy, WriteSteps, ReadSteps
      <3> QED BY <3>1, <3>2, SameOutcomes DEF Contract!Call, Returned, Busy
    <2>2. CASE session_end \/ power_on \/ \E l \in Localities : set_locality(l)
      <3>1. /\ UNCHANGED << transmits, results, delivered >> /\ pc = "idle"
            /\ pc' \in {"idle", "power on"}
        BY <2>2 DEF session_end, power_on, set_locality, data
      <3>2. ~Busy /\ ~Busy'
        BY <3>1 DEF Busy, WriteSteps, ReadSteps
      <3>3. Busy' = Busy
        BY <3>2 DEF Busy
      <3> QED BY <3>1, <3>3, Stutters
    <2> QED BY <1>3, <2>1, <2>2 DEF Calls, Contract!Next
  <1>4. CASE Serves
    <2>1. CASE ServeEnd
      BY <1>1, <2>1 DEF ServeEnd
    <2> QED BY <1>4, <2>1, ServeRefines DEF Serves
  <1>5. CASE Signals
    BY <1>1, <1>5 DEF Signals, ServeSignal, data
  <1>6. CASE Breaks
    BY <1>1, <1>6 DEF Breaks, Break, BreakPlatform, data
  <1> QED BY <1>2, <1>3, <1>4, <1>5, <1>6, RunRefines DEF Next

\* transmit delivers one command and reads back one response, or returns an
\* error, for any number of calls of any lengths, wherever the connection
\* breaks and whatever the simulator refuses, as long as it announces no more
\* than MAX_RESPONSE (TransmitIsOneExchange).
THEOREM SimulatorImplementsTransport ==
  ASSUME "oversized" \notin Faults
  PROVE  Spec => TransmitIsOneExchange
  <1>1. Init => Contract!Init
    <2> SUFFICES ASSUME Init
                 PROVE  Contract!Init
      OBVIOUS
    <2>1. Delivered = {} /\ ~Busy
      BY DEF Init, Delivered, Busy, WriteSteps, ReadSteps
    <2>2. Returned = [k \in Transmits |-> "none"]
      BY DEF Init, Returned, Outcome
    <2> QED BY <2>1, <2>2 DEF Init, Contract!Init, Contract!Transmits, Transmits, Delivered, Busy, Returned
  <1> QED BY <1>1, InitInv, NextInv, NextRefines, PTL DEF Spec, TransmitIsOneExchange, Contract!Spec
=============================================================================
