--------------------------- MODULE CommandsProofs ---------------------------
(***************************************************************************)
(* What the command wrappers tell the caller about objects and PCRs, for   *)
(* any number of calls, handles and banks, and anything other clients do.  *)
(***************************************************************************)
EXTENDS Commands, SequenceTheorems, TLAPS

-----------------------------------------------------------------------------
(* Calls: the requests, what run and the wrappers made of them, and the     *)
(* reply on its way.                                                        *)

Makes == {"CreatePrimary", "Load"}

\* The commands on an object the caller has been given.
OnObject == {"Create", "Load", "Unseal", "Flush"}

TypeInv ==
  /\ calls \in 0 .. MaxCalls /\ running \in BOOLEAN
  /\ executions \in [CallIds -> {0, 1}]
  /\ outcome \in [CallIds -> Run!Outcomes]
  /\ DOMAIN asked = CallIds /\ DOMAIN given = CallIds /\ DOMAIN objects = Handles
  /\ pcr \in [Allocated -> Seq(Nat)]

\* A call is in progress or has an outcome; Ok and a TPM error tell whether it
\* was executed, and what is made of an Ok is Ok, or Malformed unless a session
\* vouches for the reply.
CallInv ==
  /\ running => calls \in CallIds
  /\ \A c \in CallIds :
       /\ c > calls => asked[c] = NoRequest
       /\ outcome[c] = "none" <=> c > calls \/ (running /\ c = calls)
       /\ outcome[c] = "none" => given[c] = NotWrapped
       /\ given[c].kind # "none" <=> outcome[c] = "Ok"
       /\ given[c].kind \in {"none", "Ok", "Malformed"}
       /\ executions[c] = 1 => c <= calls /\ outcome[c] \in {"none", "Ok", "Error"}
       /\ outcome[c] = "Ok" => executions[c] = 1

\* Requests on objects name what the caller was given.
RequestInv ==
  /\ \A c \in CallIds :
       asked[c].op \in OnObject => asked[c].handle \in Handles
  /\ \A c \in CallIds : Made(c) => given[c].val.handle \in Handles
  /\ running /\ executions[calls] = 1 /\ asked[calls].op \in Makes => reply.handle \in Handles

Inv == TypeInv /\ CallInv /\ RequestInv

\* The number of the call in progress, or of the next.
LEMMA Numbers ==
  ASSUME TypeInv
  PROVE  /\ calls \in Nat /\ MaxCalls \in Nat
         /\ calls < MaxCalls => calls + 1 \in CallIds
         /\ \A c \in CallIds : c \in Nat /\ c > 0
  BY ConstantsFit DEF TypeInv, CallIds

\* What others do touches neither calls nor replies.
LEMMA OthersKeep ==
  ASSUME Others
  PROVE  UNCHANGED << execution, asked, reply, given, uses >>
  BY DEF Others, OtherLoads, OtherFlushes, OtherExtends, Reset, Event

\* A step of the TPM executes the latest call, and may answer it.
TpmStep(c) ==
  /\ Run!Execute(c) /\ c \in CallIds
  /\ UNCHANGED << asked, given, others >>
  /\ ~running => reply' = reply

LEMMA TpmKeeps ==
  ASSUME Tpm
  PROVE  \E c \in CallIds : TpmStep(c)
  BY DEF Tpm, TpmStep, TpmCreatesPrimary, TpmLoads, TpmCreates, TpmUnseals, TpmFlushes, TpmExtends,
         TpmReads, TpmStarts, TpmIdles, Executes, Reply

\* What a client may ask.
Sound(request) ==
  /\ request.op \in OnObject =>
       \E k \in CallIds : Made(k) /\ request.handle = given[k].val.handle
  /\ request.op = "Load" => request.in \in Blobs
  /\ request.op = "Create" => request.in = create_params(calls + 1)
  /\ request.op = "CreatePrimary" => request.in = Parent
  /\ request.op = "Read" => request.in \in Seq(Banks)
  /\ request.op = "ReadOne" => \E bank \in Banks : request.in = << bank >>

LEMMA ClientAsks ==
  ASSUME Client
  PROVE  stir_random_TooLong \/ \E request : Ask(request) /\ Sound(request)
  <1>1. ASSUME NEW o \in Known
        PROVE  \E k \in CallIds : Made(k) /\ o.handle = given[k].val.handle
    BY <1>1 DEF Known
  <1>2. CASE create_primary
    BY <1>2 DEF create_primary, Request, Sound, OnObject
  <1>3. ASSUME NEW o \in Known, NEW auth, create(o, auth)
        PROVE  \E request : Ask(request) /\ Sound(request)
    BY <1>1, <1>3 DEF create, Request, Sound, OnObject
  <1>4. ASSUME NEW o \in Known, NEW auth, unseal(o, auth)
        PROVE  \E request : Ask(request) /\ Sound(request)
    BY <1>1, <1>4 DEF unseal, Request, Sound, OnObject
  <1>5. ASSUME NEW o \in Known, NEW auth, NEW blob \in Blobs, load(o, auth, blob)
        PROVE  \E request : Ask(request) /\ Sound(request)
    BY <1>1, <1>5 DEF load, Request, Sound, OnObject
  <1>6. ASSUME NEW o \in Known, flush_context(o)
        PROVE  \E request : Ask(request) /\ Sound(request)
    BY <1>1, <1>6 DEF flush_context, Request, Sound, OnObject
  <1>7. ASSUME NEW banks, pcr_extend(banks)
        PROVE  \E request : Ask(request) /\ Sound(request)
    BY <1>7 DEF pcr_extend, Request, Sound, OnObject
  <1>8. ASSUME NEW selection \in Selections, pcr_read(selection)
        PROVE  \E request : Ask(request) /\ Sound(request)
    BY <1>8, ConstantsFit DEF pcr_read, Request, Sound, OnObject
  <1>9. ASSUME NEW bank \in Banks, pcr_read_one(bank)
        PROVE  \E request : Ask(request) /\ Sound(request)
    BY <1>9 DEF pcr_read_one, Request, Sound, OnObject
  <1>10. CASE startup
    BY <1>10 DEF startup, Request, Sound, OnObject
  <1>11. CASE inert
    BY <1>11 DEF inert, Request, Sound, OnObject
  <1> QED BY <1>2, <1>3, <1>4, <1>5, <1>6, <1>7, <1>8, <1>9, <1>10, <1>11 DEF Client

LEMMA InitInv == Init => Inv
  <1> SUFFICES ASSUME Init
               PROVE  Inv
    OBVIOUS
  <1>1. TypeInv
    <2>1. calls \in 0 .. MaxCalls /\ running \in BOOLEAN /\ executions \in [CallIds -> {0, 1}]
      <3>1. calls = 0 /\ running = FALSE /\ executions = [c \in CallIds |-> 0]
        BY DEF Init, Run!Init, Run!CallIds, CallIds
      <3>2. calls \in 0 .. MaxCalls
        BY <3>1, ConstantsFit
      <3>3. executions \in [CallIds -> {0, 1}]
        BY <3>1
      <3> QED BY <3>1, <3>2, <3>3
    <2>2. outcome \in [CallIds -> Run!Outcomes]
      BY DEF Init, Run!Init, Run!CallIds, Run!Outcomes, CallIds
    <2>3. DOMAIN asked = CallIds /\ DOMAIN given = CallIds /\ DOMAIN objects = Handles
      BY DEF Init
    <2>4. pcr \in [Allocated -> Seq(Nat)]
      BY DEF Init
    <2> QED BY <2>1, <2>2, <2>3, <2>4 DEF TypeInv
  <1>2. \A c \in CallIds : /\ outcome[c] = "none" /\ asked[c] = NoRequest /\ given[c] = NotWrapped
                           /\ executions[c] = 0
    BY DEF Init, Run!Init, Run!CallIds, CallIds
  <1>3. CallInv
    BY <1>2 DEF Init, Run!Init, CallInv, NotWrapped, Wrapped, CallIds
  <1>4. NoRequest.op = "none" /\ NotWrapped.kind = "none"
    BY DEF NoRequest, Request, NotWrapped, Wrapped
  <1>5. RequestInv
    BY <1>2, <1>4 DEF Init, Run!Init, RequestInv, OnObject, Made, Gave
  <1> QED BY <1>1, <1>3, <1>5 DEF Inv

\* The wrapper asks.
LEMMA AskInv ==
  ASSUME Inv, NEW request, Ask(request), Sound(request)
  PROVE  Inv'
  <1>0. TypeInv /\ CallInv /\ RequestInv
    BY DEF Inv
  <1>1. /\ ~running /\ calls < MaxCalls /\ calls' = calls + 1 /\ running' = TRUE
        /\ UNCHANGED << executions, outcome, given, objects, pcr >>
        /\ asked' = [asked EXCEPT ![calls + 1] = request] /\ reply' = Nothing
    BY DEF Ask, Run!Call, tpm
  <1>2. calls + 1 \in CallIds /\ calls \in Nat
    BY <1>0, <1>1, Numbers
  <1>3. TypeInv'
    BY <1>0, <1>1, <1>2, ConstantsFit DEF TypeInv
  <1>4. \A c \in CallIds : /\ c # calls + 1 => asked'[c] = asked[c]
                           /\ c = calls + 1 => asked'[c] = request
    BY <1>0, <1>1 DEF TypeInv
  <1>5. CallInv'
    <2>1. \A c \in CallIds : c \in Nat
      BY DEF CallIds
    <2> QED BY <1>0, <1>1, <1>2, <1>4, <2>1 DEF CallInv
  <1>6. given[calls + 1].kind = "none"
    BY <1>0, <1>2 DEF CallInv, NotWrapped, Wrapped
  <1>7. \A c \in CallIds : Made(c)' <=> Made(c)
    BY <1>1, <1>4, <1>6 DEF Made, Gave
  <1>8. request.op \in OnObject => request.handle \in Handles
    BY <1>0 DEF Sound, RequestInv
  <1>9. executions'[calls'] = 0
    BY <1>0, <1>1, <1>2 DEF CallInv, TypeInv
  <1>10. RequestInv'
    BY <1>0, <1>1, <1>4, <1>7, <1>8, <1>9 DEF RequestInv
  <1> QED BY <1>3, <1>5, <1>10 DEF Inv

LEMMA RejectInv ==
  ASSUME Inv, stir_random_TooLong
  PROVE  Inv'
  <1>0. TypeInv /\ CallInv /\ RequestInv
    BY DEF Inv
  <1>1. /\ ~running /\ calls < MaxCalls /\ calls' = calls + 1 /\ running' = running
        /\ outcome' = [outcome EXCEPT ![calls + 1] = "Rejected"]
        /\ UNCHANGED << executions, given, objects, pcr, asked, reply >>
    BY DEF stir_random_TooLong, Run!Reject, tpm
  <1>2. calls + 1 \in CallIds /\ calls \in Nat
    BY <1>0, <1>1, Numbers
  <1>3. TypeInv'
    BY <1>0, <1>1, <1>2, ConstantsFit DEF TypeInv, Run!Outcomes
  <1>4. \A c \in CallIds : /\ c # calls + 1 => outcome'[c] = outcome[c]
                           /\ c = calls + 1 => outcome'[c] = "Rejected"
    BY <1>0, <1>1 DEF TypeInv
  <1>5. CallInv'
    <2>1. \A c \in CallIds : c \in Nat
      BY DEF CallIds
    <2>2. NotWrapped.kind = "none"
      BY DEF NotWrapped, Wrapped
    <2> QED BY <1>0, <1>1, <1>2, <1>4, <2>1, <2>2 DEF CallInv
  <1>6. RequestInv'
    BY <1>0, <1>1 DEF RequestInv, Made, Gave
  <1> QED BY <1>3, <1>5, <1>6 DEF Inv

\* run returns, and the wrapper makes something of it.
LEMMA ReturnInv ==
  ASSUME Inv, NEW kind \in {"Ok", "Tpm", "Error"}, Run!Return(kind), NEW made, NEW val,
         Wrap(made, val), made # "none" <=> kind = "Ok", made \in {"none", "Ok", "Malformed"},
         made = "Ok" /\ asked[calls].op \in Makes => val.handle \in Handles
  PROVE  Inv'
  <1>0. TypeInv /\ CallInv /\ RequestInv
    BY DEF Inv
  <1>1. /\ running /\ running' = FALSE /\ calls' = calls
        /\ kind = "Ok" => executions[calls] = 1
        /\ kind = "Tpm" => executions[calls] = 0
        /\ outcome' = [outcome EXCEPT ![calls] = kind]
        /\ given' = [given EXCEPT ![calls] = Wrapped(made, val)]
        /\ UNCHANGED << executions, asked, objects, pcr >>
    BY DEF Run!Return, Wrap, tpm
  <1>2. calls \in CallIds /\ calls \in Nat
    BY <1>0, <1>1, Numbers DEF CallInv
  <1>3. TypeInv'
    BY <1>0, <1>1, <1>2 DEF TypeInv, Run!Outcomes
  <1>4. \A c \in CallIds : /\ c # calls => outcome'[c] = outcome[c] /\ given'[c] = given[c]
                           /\ c = calls => outcome'[c] = kind /\ given'[c] = Wrapped(made, val)
    BY <1>0, <1>1 DEF TypeInv
  <1>5. Wrapped(made, val).kind = made /\ Wrapped(made, val).val = val
    BY DEF Wrapped
  <1>6. CallInv'
    <2>1. \A c \in CallIds : c \in Nat
      BY DEF CallIds
    <2> QED BY <1>0, <1>1, <1>2, <1>4, <1>5, <2>1 DEF CallInv, TypeInv
  <1>7. ASSUME NEW c \in CallIds, Made(c)'
        PROVE  given'[c].val.handle \in Handles
    <2>1. CASE c = calls
      BY <1>1, <1>4, <1>5, <1>7, <2>1 DEF Made, Gave, Makes
    <2>2. CASE c # calls
      BY <1>0, <1>1, <1>4, <1>7, <2>2 DEF Made, Gave, RequestInv
    <2> QED BY <2>1, <2>2
  <1>8. RequestInv'
    BY <1>0, <1>1, <1>7 DEF RequestInv
  <1> QED BY <1>3, <1>6, <1>8 DEF Inv

\* A wrapper hands on the handle the reply has.
LEMMA ReadReplyOfMakes ==
  ASSUME NEW op \in Makes, NEW r
  PROVE  /\ ReadReply(op, r).handle = r.handle
         /\ op = "Load" => ReadReply(op, r) = r
         /\ op = "CreatePrimary" => ReadReply(op, r) = [handle |-> r.handle, name |-> r.name]
  BY DEF ReadReply, Makes, ReadCreated

\* The ways of returning: what run returned, and what the wrapper made of it.
LEMMA Returns ==
  ASSUME ReturnOk \/ ReturnMalformed \/ ReturnError
  PROVE  \E kind, made, val :
           /\ kind \in {"Ok", "Tpm", "Error"} /\ made \in {"none", "Ok", "Malformed"}
           /\ Run!Return(kind) /\ Wrap(made, val)
           /\ made # "none" <=> kind = "Ok"
           /\ made = "Ok" => val = ReadReply(asked[calls].op, reply)
           /\ made = "Malformed" => asked[calls].auth # "session"
  <1>1. CASE ReturnOk
    BY <1>1 DEF ReturnOk
  <1>2. CASE ReturnMalformed
    BY <1>2 DEF ReturnMalformed
  <1>3. CASE ReturnError
    BY <1>3 DEF ReturnError
  <1> QED BY <1>1, <1>2, <1>3

\* The TPM executes the latest call: its answer to a command that makes an
\* object has the slot it took.
LEMMA ExecuteInv ==
  ASSUME Inv, NEW c \in CallIds, TpmStep(c), DOMAIN objects' = Handles, pcr' \in [Allocated -> Seq(Nat)],
         running /\ asked[c].op \in Makes => reply'.handle \in Handles
  PROVE  Inv'
  <1>0. TypeInv /\ CallInv /\ RequestInv
    BY DEF Inv
  <1>1. /\ c = calls /\ executions[c] = 0 /\ outcome[c] \in {"none", "Error"}
        /\ executions' = [executions EXCEPT ![c] = @ + 1]
        /\ UNCHANGED << calls, running, outcome, asked, given >>
    BY DEF TpmStep, Run!Execute
  <1>2. \A k \in CallIds : executions'[k] = IF k = c THEN 1 ELSE executions[k]
    BY <1>0, <1>1 DEF TypeInv
  <1>3. TypeInv'
    BY <1>0, <1>1 DEF TypeInv
  <1>4. CallInv'
    <2>1. calls \in Nat
      BY <1>0, Numbers
    <2> QED BY <1>0, <1>1, <1>2, <2>1 DEF CallInv
  <1>5. RequestInv'
    BY <1>0, <1>1, <1>2 DEF RequestInv, Made, Gave
  <1> QED BY <1>3, <1>4, <1>5 DEF Inv

\* A command of the TPM, with its answer.
LEMMA StepOfTpm ==
  ASSUME NEW c \in CallIds, NEW op, Executes(c, op), NEW r, Reply(c, r)
  PROVE  TpmStep(c) /\ (running => reply' = r) /\ asked[c].op = op
  BY DEF TpmStep, Executes, Reply, Run!Execute

\* The answer to a selection.
PcrReply(selection, at) ==
  [selection |-> [i \in DOMAIN at |-> selection[at[i]]],
   values |-> [i \in DOMAIN at |-> pcr[selection[at[i]]]]]

LEMMA ReadStep ==
  ASSUME NEW c \in CallIds, TpmReads(c)
  PROVE  /\ TpmStep(c) /\ UNCHANGED tpm /\ asked[c].op \in {"Read", "ReadOne"}
         /\ \E at \in AllocatedIn(asked[c].in) : running => reply' = PcrReply(asked[c].in, at)
  <1>1. PICK at \in AllocatedIn(asked[c].in) : Reply(c, PcrReply(asked[c].in, at))
    BY DEF TpmReads, PcrReply
  <1>2. PICK op \in {"Read", "ReadOne"} : Executes(c, op)
    BY DEF TpmReads
  <1> QED BY <1>1, <1>2, StepOfTpm DEF TpmReads

\* The TPM's commands keep the types of what it holds, and those that make an
\* object answer with its slot.
LEMMA TpmTypes ==
  ASSUME Inv, Tpm
  PROVE  \E c \in CallIds :
           /\ TpmStep(c) /\ DOMAIN objects' = Handles /\ pcr' \in [Allocated -> Seq(Nat)]
           /\ running /\ asked[c].op \in Makes => reply'.handle \in Handles
  <1>0. TypeInv /\ CallInv
    BY DEF Inv
  <1>1. DOMAIN objects = Handles /\ pcr \in [Allocated -> Seq(Nat)]
    BY <1>0 DEF TypeInv
  <1>2. ASSUME NEW c \in CallIds, NEW op, Executes(c, op), NEW r, Reply(c, r)
        PROVE  TpmStep(c) /\ (running => reply' = r) /\ asked[c].op = op
    BY <1>2 DEF TpmStep, Executes, Reply, Run!Execute
  <1>3. ASSUME NEW c \in CallIds, NEW h \in Handles, TpmCreatesPrimary(c, h) \/ TpmLoads(c, h)
        PROVE  /\ TpmStep(c) /\ DOMAIN objects' = Handles /\ pcr' \in [Allocated -> Seq(Nat)]
               /\ running /\ asked[c].op \in Makes => reply'.handle \in Handles
    BY <1>1, <1>2, <1>3 DEF TpmCreatesPrimary, TpmLoads
  <1>4. ASSUME NEW c \in CallIds, TpmCreates(c) \/ TpmUnseals(c) \/ TpmIdles(c)
        PROVE  /\ TpmStep(c) /\ UNCHANGED << objects, pcr >> /\ asked[c].op \notin Makes
    BY <1>1, <1>2, <1>4 DEF TpmCreates, TpmUnseals, TpmIdles, tpm, Makes
  <1>5. ASSUME NEW c \in CallIds, TpmReads(c) \/ TpmStarts(c)
        PROVE  /\ TpmStep(c) /\ UNCHANGED << objects, pcr >> /\ asked[c].op \notin Makes
    BY <1>1, <1>2, <1>5, ReadStep DEF TpmStarts, tpm, Makes
  <1>6. ASSUME NEW c \in CallIds, TpmFlushes(c)
        PROVE  /\ TpmStep(c) /\ DOMAIN objects' = Handles /\ pcr' = pcr /\ asked[c].op \notin Makes
    BY <1>1, <1>2, <1>6 DEF TpmFlushes, Makes
  <1>7. ASSUME NEW c \in CallIds, TpmExtends(c)
        PROVE  /\ TpmStep(c) /\ objects' = objects /\ pcr' \in [Allocated -> Seq(Nat)]
               /\ asked[c].op \notin Makes
    <2>1. c \in Nat
      BY DEF CallIds
    <2>2. pcr' \in [Allocated -> Seq(Nat)]
      BY <1>1, <1>7, <2>1 DEF TpmExtends
    <2> QED BY <1>2, <1>7, <2>2 DEF TpmExtends, Makes
  <1> QED BY <1>1, <1>3, <1>4, <1>5, <1>6, <1>7 DEF Tpm

LEMMA NextInv == Inv /\ [Next]_vars => Inv'
  <1> SUFFICES ASSUME Inv, [Next]_vars
               PROVE  Inv'
    OBVIOUS
  <1>0. TypeInv /\ CallInv /\ RequestInv
    BY DEF Inv
  <1>1. CASE UNCHANGED vars
    BY <1>0, <1>1
    DEF vars, execution, tpm, others, Inv, TypeInv, CallInv, RequestInv, Made, Gave
  <1>2. CASE Client
    <2>1. CASE stir_random_TooLong
      BY <2>1, RejectInv
    <2>2. ASSUME NEW request, Ask(request), Sound(request)
          PROVE  Inv'
      BY <2>2, AskInv
    <2> QED BY <1>2, <2>1, <2>2, ClientAsks
  <1>3. CASE ReturnOk \/ ReturnMalformed \/ ReturnError
    <2>1. PICK kind, made, val :
            /\ kind \in {"Ok", "Tpm", "Error"} /\ made \in {"none", "Ok", "Malformed"}
            /\ Run!Return(kind) /\ Wrap(made, val)
            /\ made # "none" <=> kind = "Ok"
            /\ made = "Ok" => val = ReadReply(asked[calls].op, reply)
      BY <1>3, Returns
    <2>2. running /\ (made = "Ok" => executions[calls] = 1)
      BY <2>1 DEF Run!Return
    <2>3. made = "Ok" /\ asked[calls].op \in Makes => val.handle \in Handles
      BY <1>0, <2>1, <2>2, ReadReplyOfMakes DEF RequestInv
    <2> QED BY <2>1, <2>3, ReturnInv
  <1>4. CASE Tpm
    BY <1>4, TpmTypes, ExecuteInv
  <1>5. CASE Others
    <2>1. UNCHANGED << calls, running, executions, outcome, asked, given, reply >>
      BY <1>5, OthersKeep DEF execution
    <2>2. DOMAIN objects' = Handles /\ pcr' \in [Allocated -> Seq(Nat)]
      <3>1. DOMAIN objects = Handles /\ pcr \in [Allocated -> Seq(Nat)]
        BY <1>0 DEF TypeInv
      <3>2. ASSUME NEW h \in Handles, OtherLoads(h) \/ OtherFlushes(h)
            PROVE  DOMAIN objects' = Handles /\ pcr' = pcr
        BY <3>1, <3>2 DEF OtherLoads, OtherFlushes
      <3>3. ASSUME NEW b \in Allocated, OtherExtends(b)
            PROVE  objects' = objects /\ pcr' \in [Allocated -> Seq(Nat)]
        BY <3>1, <3>3 DEF OtherExtends
      <3>4. CASE Reset
        <4>1. pcr' \in [Allocated -> Seq(Nat)]
          BY <3>4 DEF Reset
        <4> QED BY <3>4, <4>1 DEF Reset
      <3> QED BY <1>5, <3>1, <3>2, <3>3, <3>4 DEF Others
    <2>3. TypeInv'
      BY <1>0, <2>1, <2>2 DEF TypeInv
    <2>4. CallInv' /\ RequestInv'
      BY <1>0, <2>1 DEF CallInv, RequestInv, Made, Gave
    <2> QED BY <2>3, <2>4 DEF Inv
  <1> QED BY <1>1, <1>2, <1>3, <1>4, <1>5 DEF Next

LEMMA Invariance == Spec => []Inv
  BY InitInv, NextInv, PTL DEF Spec

\* What has been asked stays, and what has been made of it; only the call in
\* progress is given a result.
LEMMA PastStays ==
  ASSUME Inv, [Next]_vars
  PROVE  \A c \in CallIds :
           /\ executions[c] = 1 => executions'[c] = 1
           /\ executions[c] = 1 \/ c <= calls => asked'[c] = asked[c]
           /\ outcome[c] # "none" => given'[c] = given[c] /\ outcome'[c] = outcome[c]
           /\ Made(c)' /\ ~Made(c) => running /\ c = calls
  <1>0. TypeInv /\ CallInv
    BY DEF Inv
  <1>1. CASE UNCHANGED vars
    BY <1>1 DEF vars, execution, Made, Gave
  <1>2. ASSUME NEW request, Ask(request)
        PROVE  /\ UNCHANGED << executions, given, outcome >>
               /\ \A c \in CallIds : c # calls + 1 => asked'[c] = asked[c]
    BY <1>0, <1>2 DEF Ask, Run!Call, TypeInv
  <1>3. ASSUME stir_random_TooLong
        PROVE  /\ UNCHANGED << executions, given, asked >>
               /\ \A c \in CallIds : c # calls + 1 => outcome'[c] = outcome[c]
    BY <1>0, <1>3 DEF stir_random_TooLong, Run!Reject, TypeInv
  <1>4. calls \in Nat /\ \A c \in CallIds : c \in Nat
    BY <1>0, Numbers
  <1>5. CASE Client
    <2>1. calls + 1 \in CallIds => executions[calls + 1] # 1 /\ outcome[calls + 1] = "none"
                                   /\ given[calls + 1].kind = "none"
      BY <1>0, <1>4 DEF CallInv, NotWrapped, Wrapped
    <2>2. CASE stir_random_TooLong
      BY <1>3, <1>4, <2>1, <2>2 DEF Made, Gave
    <2>3. ASSUME NEW request, Ask(request)
          PROVE  \A c \in CallIds :
                   /\ executions[c] = 1 => executions'[c] = 1
                   /\ executions[c] = 1 \/ c <= calls => asked'[c] = asked[c]
                   /\ outcome[c] # "none" => given'[c] = given[c] /\ outcome'[c] = outcome[c]
                   /\ Made(c)' /\ ~Made(c) => running /\ c = calls
      BY <1>2, <1>4, <2>1, <2>3 DEF Made, Gave
    <2> QED BY <1>5, <2>2, <2>3, ClientAsks
  <1>6. CASE ReturnOk \/ ReturnMalformed \/ ReturnError
    <2>1. PICK kind, made, val : Run!Return(kind) /\ Wrap(made, val)
      BY <1>6, Returns
    <2>2. running /\ UNCHANGED << executions, asked >>
      BY <2>1 DEF Run!Return, Wrap
    <2>3. \A c \in CallIds : c # calls => outcome'[c] = outcome[c] /\ given'[c] = given[c]
      BY <1>0, <2>1 DEF Run!Return, Wrap, TypeInv
    <2>4. outcome[calls] = "none"
      BY <1>0, <2>2 DEF CallInv
    <2> QED BY <2>2, <2>3, <2>4 DEF Made, Gave
  <1>7. CASE Tpm
    <2>1. PICK c \in CallIds : TpmStep(c)
      BY <1>7, TpmKeeps
    <2>2. \A k \in CallIds : executions[k] = 1 => executions'[k] = 1
      BY <1>0, <2>1 DEF TpmStep, Run!Execute, TypeInv
    <2> QED BY <2>1, <2>2 DEF TpmStep, Run!Execute, Made, Gave
  <1>8. CASE Others
    BY <1>8, OthersKeep DEF execution, Made, Gave
  <1> QED BY <1>1, <1>5, <1>6, <1>7, <1>8 DEF Next

-----------------------------------------------------------------------------
(* Objects.                                                                *)

\* Each object the client has made is in one slot, by one executed command,
\* and the caller holds its handle and Name, or is about to: unless others, or
\* a later flush that was executed, have removed it.
MakerInv ==
  /\ \A h \in Handles :
       objects[h].by # 0 => /\ objects[h].by \in CallIds /\ executions[objects[h].by] = 1
                            /\ asked[objects[h].by].op \in Makes
  /\ \A h1, h2 \in Handles : objects[h1].by = objects[h2].by /\ objects[h1].by # 0 => h1 = h2

HolderInv ==
  /\ \A h \in Handles :
       Made(objects[h].by) /\ objects[h].by # 0 =>
         given[objects[h].by].val = [handle |-> h, name |-> objects[h].name]
  /\ running /\ executions[calls] = 1 /\ asked[calls].op \in Makes =>
       /\ objects[reply.handle].by = calls \/ calls \in taken
       /\ \A h \in Handles :
            objects[h].by = calls => reply = [handle |-> h, name |-> objects[h].name]

Flushed(c) ==
  \E f \in CallIds : /\ f > c /\ executions[f] = 1
                     /\ asked[f].op = "Flush" /\ asked[f].handle = given[c].val.handle

KeptInv ==
  \A c \in CallIds : Made(c) /\ c \notin taken => objects[given[c].val.handle].by = c \/ Flushed(c)

ObjectInv == MakerInv /\ HolderInv /\ KeptInv

LEMMA InitObjectInv == Init => ObjectInv
  <1> SUFFICES ASSUME Init
               PROVE  ObjectInv
    OBVIOUS
  <1>1. Free.by = 0 /\ NotWrapped.kind = "none"
    BY DEF Free, NotWrapped, Wrapped
  <1>2. \A c \in CallIds : ~Made(c)
    BY <1>1 DEF Init, Made, Gave
  <1>3. \A h \in Handles : objects[h].by = 0
    BY <1>1 DEF Init
  <1> QED BY <1>2, <1>3 DEF Init, Run!Init, ObjectInv, MakerInv, HolderInv, KeptInv

\* A later flush is executed once and for all.
LEMMA FlushedStays ==
  ASSUME Inv, [Next]_vars, NEW c \in CallIds, Made(c), Flushed(c)
  PROVE  Flushed(c)'
  <1>1. PICK f \in CallIds : /\ f > c /\ executions[f] = 1
                             /\ asked[f].op = "Flush" /\ asked[f].handle = given[c].val.handle
    BY DEF Flushed
  <1>2. outcome[c] # "none"
    BY DEF Inv, CallInv, Made, Gave, NotWrapped, Wrapped
  <1>3. executions'[f] = 1 /\ asked'[f] = asked[f] /\ given'[c] = given[c]
    BY <1>1, <1>2, PastStays
  <1> QED BY <1>1, <1>3 DEF Flushed

\* A step that makes nothing new, and leaves the slots.
LEMMA QuietObjectInv ==
  ASSUME Inv, ObjectInv, [Next]_vars, UNCHANGED << objects, taken >>,
         running' => executions'[calls'] # 1 \/ asked'[calls'].op \notin Makes
                     \/ UNCHANGED << running, calls, reply, executions, asked >>,
         \A c \in CallIds : Made(c)' => Made(c)
  PROVE  ObjectInv'
  <1>1. \A c \in CallIds : Made(c) => outcome[c] # "none"
    BY DEF Inv, CallInv, Made, Gave, NotWrapped, Wrapped
  <1>2. MakerInv'
    BY PastStays DEF ObjectInv, MakerInv
  <1>3. HolderInv'
    <2>1. ASSUME NEW h \in Handles, Made(objects[h].by)', objects[h].by # 0
          PROVE  given'[objects[h].by].val = [handle |-> h, name |-> objects[h].name]
      <3>1. objects[h].by \in CallIds
        BY <2>1 DEF ObjectInv, MakerInv
      <3>2. Made(objects[h].by)
        BY <2>1, <3>1 DEF Made, Gave
      <3> QED BY <1>1, <2>1, <3>1, <3>2, PastStays DEF ObjectInv, HolderInv
    <2>2. ASSUME running', executions'[calls'] = 1, asked'[calls'].op \in Makes
          PROVE  /\ objects[reply'.handle].by = calls' \/ calls' \in taken
                 /\ \A h \in Handles :
                      objects[h].by = calls' => reply' = [handle |-> h, name |-> objects[h].name]
      BY <2>2 DEF ObjectInv, HolderInv
    <2> QED BY <2>1, <2>2 DEF HolderInv
  <1>4. KeptInv'
    <2> SUFFICES ASSUME NEW c \in CallIds, Made(c)', c \notin taken
                 PROVE  objects[given'[c].val.handle].by = c \/ Flushed(c)'
      BY DEF KeptInv
    <2>1. Made(c) /\ given'[c] = given[c]
      BY <1>1, PastStays
    <2> QED BY <2>1, FlushedStays DEF ObjectInv, KeptInv
  <1> QED BY <1>2, <1>3, <1>4 DEF ObjectInv

LEMMA ClientObjectInv ==
  ASSUME Inv, ObjectInv, [Next]_vars, Client
  PROVE  ObjectInv'
  <1>0. TypeInv /\ CallInv
    BY DEF Inv
  <1>1. ~running /\ UNCHANGED << objects, taken, executions >> /\ calls' = calls + 1
        /\ (running' => calls + 1 \in CallIds)
    <2>1. CASE stir_random_TooLong
      BY <2>1 DEF stir_random_TooLong, Run!Reject, tpm, others
    <2>2. ASSUME NEW request, Ask(request)
          PROVE  ~running /\ UNCHANGED << objects, taken, executions >> /\ calls' = calls + 1
                 /\ calls + 1 \in CallIds
      BY <1>0, <2>2, Numbers DEF Ask, Run!Call, tpm, others
    <2> QED BY <2>1, <2>2, ClientAsks
  <1>2. \A c \in CallIds : Made(c)' => Made(c)
    BY <1>1, PastStays
  <1>3. running' => executions'[calls'] # 1
    <2>1. calls \in Nat
      BY <1>0, Numbers
    <2> QED BY <1>0, <1>1, <2>1 DEF CallInv
  <1> QED BY <1>1, <1>2, <1>3, QuietObjectInv

\* The call returns: what its reply named is what the caller holds now.
LEMMA ReturnObjectInv ==
  ASSUME Inv, ObjectInv, [Next]_vars, ReturnOk \/ ReturnMalformed \/ ReturnError
  PROVE  ObjectInv'
  <1>0. TypeInv /\ CallInv
    BY DEF Inv
  <1>1. PICK kind, made, val :
          /\ kind \in {"Ok", "Tpm", "Error"} /\ made \in {"none", "Ok", "Malformed"}
          /\ Run!Return(kind) /\ Wrap(made, val)
          /\ made # "none" <=> kind = "Ok"
          /\ made = "Ok" => val = ReadReply(asked[calls].op, reply)
    BY Returns
  <1>2. /\ running /\ ~running' /\ calls' = calls /\ UNCHANGED << executions, asked, objects, taken >>
        /\ kind = "Ok" => executions[calls] = 1
    BY <1>1 DEF Run!Return, Wrap, tpm, others
  <1>3. calls \in CallIds
    BY <1>0, <1>2 DEF CallInv
  <1>4. given' = [given EXCEPT ![calls] = Wrapped(made, val)]
    BY <1>1 DEF Wrap
  <1>5. given'[calls].kind = made /\ given'[calls].val = val
    BY <1>0, <1>3, <1>4 DEF TypeInv, Wrapped
  <1>6. CASE Made(calls)'
    <2>1. made = "Ok" /\ executions[calls] = 1 /\ asked[calls].op \in Makes
      <3>1. given'[calls].kind = "Ok" /\ asked'[calls].op \in Makes
        BY <1>2, <1>6 DEF Made, Gave, Makes
      <3>2. made = "Ok" /\ asked[calls].op \in Makes
        BY <1>2, <1>5, <3>1
      <3> QED BY <1>1, <1>2, <3>2
    <2>2. /\ val.handle = reply.handle
          /\ \A h, name : reply = [handle |-> h, name |-> name] => val = reply
      <3>1. \A h, name : reply = [handle |-> h, name |-> name] =>
              reply = [handle |-> reply.handle, name |-> reply.name]
        OBVIOUS
      <3> QED BY <1>1, <2>1, <3>1, ReadReplyOfMakes DEF Makes
    <2>3. MakerInv'
      BY <1>2 DEF ObjectInv, MakerInv
    <2>4. \A c \in CallIds : c # calls => given'[c] = given[c]
      BY <1>0, <1>4 DEF TypeInv
    <2>5. HolderInv'
      <3> SUFFICES ASSUME NEW h \in Handles, Made(objects[h].by)', objects[h].by # 0
                   PROVE  given'[objects[h].by].val = [handle |-> h, name |-> objects[h].name]
        BY <1>2 DEF HolderInv
      <3>1. objects[h].by \in CallIds
        BY DEF ObjectInv, MakerInv
      <3>2. CASE objects[h].by = calls
        <4>1. reply = [handle |-> h, name |-> objects[h].name]
          BY <1>2, <2>1, <3>2 DEF ObjectInv, HolderInv
        <4> QED BY <1>5, <2>2, <3>2, <4>1
      <3>3. CASE objects[h].by # calls
        <4>1. Made(objects[h].by)
          BY <1>2, <2>4, <3>1, <3>3 DEF Made, Gave
        <4> QED BY <2>4, <3>1, <3>3, <4>1 DEF ObjectInv, HolderInv
      <3> QED BY <3>2, <3>3
    <2>6. KeptInv'
      <3> SUFFICES ASSUME NEW c \in CallIds, Made(c)', c \notin taken
                   PROVE  objects[given'[c].val.handle].by = c \/ Flushed(c)'
        BY <1>2 DEF KeptInv
      <3>1. CASE c = calls
        BY <1>2, <1>5, <2>1, <2>2, <3>1 DEF ObjectInv, HolderInv
      <3>2. CASE c # calls
        <4>1. Made(c) /\ given'[c] = given[c]
          BY <1>2, <2>4, <3>2 DEF Made, Gave
        <4> QED BY <4>1, FlushedStays DEF ObjectInv, KeptInv
      <3> QED BY <3>1, <3>2
    <2> QED BY <2>3, <2>5, <2>6 DEF ObjectInv
  <1>7. CASE ~Made(calls)'
    <2>1. \A c \in CallIds : Made(c)' => Made(c)
      BY <1>2, <1>7, PastStays DEF Made, Gave
    <2> QED BY <1>2, <2>1, QuietObjectInv
  <1> QED BY <1>6, <1>7

\* The TPM makes an object: the command has made none before.
LEMMA MakesObjectInv ==
  ASSUME Inv, ObjectInv, [Next]_vars, NEW c \in CallIds, NEW h \in Handles, NEW name, NEW data,
         TpmStep(c), asked[c].op \in Makes, objects[h] = Free,
         objects' = [objects EXCEPT ![h] = Object(name, data, c)],
         running => reply' = [handle |-> h, name |-> name]
  PROVE  ObjectInv'
  <1>0. TypeInv /\ CallInv
    BY DEF Inv
  <1>1. /\ c = calls /\ executions[c] = 0 /\ outcome[c] \in {"none", "Error"}
        /\ executions' = [executions EXCEPT ![c] = @ + 1]
        /\ UNCHANGED << calls, running, outcome, asked, given, taken >>
    BY DEF TpmStep, Run!Execute, others
  <1>2. executions'[c] = 1 /\ \A k \in CallIds : executions[k] = 1 => executions'[k] = 1
    BY <1>0, <1>1 DEF TypeInv
  <1>3. PICK o : o = Object(name, data, c)
    OBVIOUS
  <1>4. o.by = c /\ o.name = name /\ Free.by = 0 /\ c # 0
    BY <1>3 DEF Object, Free, CallIds
  <1>5. objects'[h] = o /\ \A g \in Handles : g # h => objects'[g] = objects[g]
    BY <1>0, <1>3 DEF TypeInv
  <1>6. \A g \in Handles : objects[g].by # c
    BY <1>1, <1>4 DEF ObjectInv, MakerInv
  <1>7. ~Made(c)
    BY <1>0, <1>1 DEF CallInv, Made, Gave
  <1>8. \A k : Made(k)' <=> Made(k)
    BY <1>1 DEF Made, Gave
  <1>9. MakerInv'
    <2>1. \A g \in Handles :
            objects'[g].by # 0 => /\ objects'[g].by \in CallIds /\ executions'[objects'[g].by] = 1
                                  /\ asked[objects'[g].by].op \in Makes
      BY <1>2, <1>4, <1>5 DEF ObjectInv, MakerInv
    <2>2. \A h1, h2 \in Handles :
            objects'[h1].by = objects'[h2].by /\ objects'[h1].by # 0 => h1 = h2
      BY <1>4, <1>5, <1>6 DEF ObjectInv, MakerInv
    <2> QED BY <1>1, <2>1, <2>2 DEF MakerInv
  <1>10. HolderInv'
    <2>1. ASSUME NEW g \in Handles, Made(objects'[g].by), objects'[g].by # 0
          PROVE  given[objects'[g].by].val = [handle |-> g, name |-> objects'[g].name]
      BY <1>4, <1>5, <1>7, <2>1 DEF ObjectInv, HolderInv
    <2>2. ASSUME running
          PROVE  /\ objects'[reply'.handle].by = calls
                 /\ \A g \in Handles :
                      objects'[g].by = calls => reply' = [handle |-> g, name |-> objects'[g].name]
      <3>1. reply'.handle = h
        BY <2>2
      <3> QED BY <1>1, <1>4, <1>5, <1>6, <2>2, <3>1
    <2> QED BY <1>1, <1>8, <2>1, <2>2 DEF HolderInv
  <1>11. KeptInv'
    <2> SUFFICES ASSUME NEW k \in CallIds, Made(k), k \notin taken
                 PROVE  objects'[given[k].val.handle].by = k \/ Flushed(k)'
      BY <1>1, <1>8 DEF KeptInv
    <2>1. CASE Flushed(k)
      BY <2>1, FlushedStays
    <2>2. CASE objects[given[k].val.handle].by = k
      <3>1. k # 0 /\ given[k].val.handle \in Handles
        BY DEF Inv, RequestInv, CallIds
      <3>2. given[k].val.handle # h
        BY <1>4, <2>2, <3>1
      <3> QED BY <1>5, <2>2, <3>1, <3>2
    <2> QED BY <2>1, <2>2 DEF ObjectInv, KeptInv
  <1> QED BY <1>9, <1>10, <1>11 DEF ObjectInv

\* Taking objects away, by a flush or by others.
LEMMA RemovesObjectInv ==
  ASSUME Inv, ObjectInv, [Next]_vars, NEW gone \in SUBSET Handles,
         DOMAIN objects' = Handles,
         \A h \in Handles : objects'[h] = IF h \in gone THEN Free ELSE objects[h],
         UNCHANGED << calls, running, outcome, asked, given >>, taken \subseteq taken',
         \/ executions' = executions /\ reply' = reply
         \/ asked[calls].op \notin Makes,
         \A h \in gone, c \in CallIds : objects[h].by = c =>
           \/ c \in taken'
           \/ \E f \in CallIds : /\ f = calls /\ executions'[f] = 1 /\ outcome[f] \in {"none", "Error"}
                                 /\ asked[f].op = "Flush" /\ asked[f].handle = h
  PROVE  ObjectInv'
  <1>0. TypeInv /\ CallInv
    BY DEF Inv
  <1>1. Free.by = 0
    BY DEF Free
  <1>2. \A h \in Handles : objects'[h].by # 0 => h \notin gone /\ objects'[h] = objects[h]
    BY <1>1
  <1>3. \A k : Made(k)' <=> Made(k)
    BY DEF Made, Gave
  <1>4. MakerInv'
    <2>1. \A k \in CallIds : executions[k] = 1 => executions'[k] = 1
      BY PastStays
    <2>2. \A h \in Handles :
            objects'[h].by # 0 => /\ objects'[h].by \in CallIds /\ executions'[objects'[h].by] = 1
                                  /\ asked[objects'[h].by].op \in Makes
      BY <1>2, <2>1 DEF ObjectInv, MakerInv
    <2>3. \A h1, h2 \in Handles :
            objects'[h1].by = objects'[h2].by /\ objects'[h1].by # 0 => h1 = h2
      BY <1>2 DEF ObjectInv, MakerInv
    <2> QED BY <2>2, <2>3 DEF MakerInv
  <1>5. HolderInv'
    <2>1. ASSUME NEW h \in Handles, Made(objects'[h].by), objects'[h].by # 0
          PROVE  given[objects'[h].by].val = [handle |-> h, name |-> objects'[h].name]
      BY <1>2, <2>1 DEF ObjectInv, HolderInv
    <2>2. ASSUME running, executions' = executions, reply' = reply, executions[calls] = 1,
                 asked[calls].op \in Makes
          PROVE  /\ objects'[reply.handle].by = calls \/ calls \in taken'
                 /\ \A h \in Handles :
                      objects'[h].by = calls => reply = [handle |-> h, name |-> objects'[h].name]
      <3>1. reply.handle \in Handles /\ calls \in CallIds /\ calls # 0
        BY <1>0, <2>2 DEF CallInv, CallIds, Inv, RequestInv
      <3>2. objects[reply.handle].by = calls \/ calls \in taken
        BY <2>2 DEF ObjectInv, HolderInv
      <3>3. objects'[reply.handle].by = calls \/ calls \in taken'
        <4>1. CASE reply.handle \in gone
          BY <2>2, <3>1, <3>2, <4>1 DEF Makes
        <4>2. CASE reply.handle \notin gone
          BY <3>1, <3>2, <4>2
        <4> QED BY <4>1, <4>2
      <3> QED BY <1>2, <2>2, <3>1, <3>3 DEF ObjectInv, HolderInv
    <2> QED BY <1>3, <2>1, <2>2 DEF HolderInv
  <1>6. KeptInv'
    <2> SUFFICES ASSUME NEW k \in CallIds, Made(k), k \notin taken'
                 PROVE  objects'[given[k].val.handle].by = k \/ Flushed(k)'
      BY <1>3 DEF KeptInv
    <2> DEFINE h == given[k].val.handle
    <2>1. CASE Flushed(k)
      BY <2>1, FlushedStays
    <2>2. CASE objects[h].by = k
      <3>1. h \in Handles
        BY DEF Inv, RequestInv
      <3>2. CASE h \notin gone
        BY <2>2, <3>1, <3>2
      <3>3. CASE h \in gone
        <4>1. PICK f \in CallIds : /\ f = calls /\ executions'[f] = 1 /\ outcome[f] \in {"none", "Error"}
                                   /\ asked[f].op = "Flush" /\ asked[f].handle = h
          BY <2>2, <3>3
        <4>2. outcome[k] = "Ok"
          BY <1>0 DEF CallInv, Made, Gave
        <4>3. k <= calls /\ k # calls /\ k \in Nat /\ calls \in Nat
          BY <1>0, <4>1, <4>2, Numbers DEF CallInv
        <4>4. f > k
          BY <4>1, <4>3
        <4> QED BY <4>1, <4>4 DEF Flushed
      <3> QED BY <3>2, <3>3
    <2> QED BY <2>1, <2>2 DEF ObjectInv, KeptInv
  <1> QED BY <1>4, <1>5, <1>6 DEF ObjectInv

LEMMA TpmObjectInv ==
  ASSUME Inv, ObjectInv, [Next]_vars, Tpm
  PROVE  ObjectInv'
  <1>0. TypeInv /\ CallInv
    BY DEF Inv
  <1>1. ASSUME NEW c \in CallIds, NEW h \in Handles, TpmCreatesPrimary(c, h)
        PROVE  ObjectInv'
    BY <1>1, StepOfTpm, MakesObjectInv DEF TpmCreatesPrimary, Makes
  <1>2. ASSUME NEW c \in CallIds, NEW h \in Handles, TpmLoads(c, h)
        PROVE  ObjectInv'
    BY <1>2, StepOfTpm, MakesObjectInv DEF TpmLoads, Makes
  <1>3. ASSUME NEW c \in CallIds, TpmFlushes(c)
        PROVE  ObjectInv'
    <2>1. TpmStep(c) /\ asked[c].op = "Flush" /\ objects' = [objects EXCEPT ![asked[c].handle] = Free]
      BY <1>3, StepOfTpm DEF TpmFlushes
    <2>2. /\ c = calls /\ executions'[c] = 1 /\ outcome[c] \in {"none", "Error"}
          /\ UNCHANGED << calls, running, outcome, asked, given, taken >>
      <3>1. c = calls /\ executions[c] = 0 /\ executions' = [executions EXCEPT ![c] = @ + 1]
        BY <2>1 DEF TpmStep, Run!Execute
      <3>2. executions'[c] = 1
        BY <1>0, <3>1 DEF TypeInv
      <3> QED BY <2>1, <3>1, <3>2 DEF TpmStep, Run!Execute, others
    <2>3. \A h \in Handles : objects'[h] = IF h \in {asked[c].handle} THEN Free ELSE objects[h]
      BY <1>0, <2>1 DEF TypeInv
    <2>4. asked[c].handle \in Handles /\ DOMAIN objects' = Handles
      BY <1>0, <2>1 DEF Inv, RequestInv, OnObject, TypeInv
    <2>5. asked[calls].op \notin Makes
      BY <2>1, <2>2 DEF Makes
    <2>6. PICK gone \in SUBSET Handles : gone = {asked[c].handle}
      BY <2>4
    <2>7. \A h \in gone : \E f \in CallIds :
            /\ f = calls /\ executions'[f] = 1 /\ outcome[f] \in {"none", "Error"}
            /\ asked[f].op = "Flush" /\ asked[f].handle = h
      BY <2>1, <2>2, <2>6
    <2>8. \A h \in Handles : objects'[h] = IF h \in gone THEN Free ELSE objects[h]
      BY <2>3, <2>6
    <2> QED BY <2>2, <2>4, <2>5, <2>7, <2>8, RemovesObjectInv
  <1>4. ASSUME NEW c \in CallIds, TpmStep(c), objects' = objects, asked[c].op \notin Makes
        PROVE  ObjectInv'
    <2>1. c = calls /\ UNCHANGED << calls, asked, given, taken, objects >>
      BY <1>4 DEF TpmStep, Run!Execute, others
    <2> QED BY <1>4, <2>1, QuietObjectInv DEF Made, Gave
  <1>5. ASSUME NEW c \in CallIds, TpmCreates(c) \/ TpmUnseals(c) \/ TpmIdles(c)
        PROVE  ObjectInv'
    BY <1>4, <1>5, StepOfTpm DEF TpmCreates, TpmUnseals, TpmIdles, tpm, Makes
  <1>6. ASSUME NEW c \in CallIds, TpmReads(c) \/ TpmStarts(c) \/ TpmExtends(c)
        PROVE  ObjectInv'
    BY <1>4, <1>6, StepOfTpm, ReadStep DEF TpmStarts, TpmExtends, tpm, Makes
  <1> QED BY <1>1, <1>2, <1>3, <1>5, <1>6 DEF Tpm

\* Others remember what they take away, and what they load is theirs.
LEMMA OthersObjectInv ==
  ASSUME Inv, ObjectInv, [Next]_vars, Others
  PROVE  ObjectInv'
  <1>0. TypeInv /\ UNCHANGED << calls, running, executions, outcome, asked, given, reply >>
    BY OthersKeep DEF Inv, execution
  <1>1. ASSUME NEW h \in Handles, OtherLoads(h)
        PROVE  ObjectInv'
    <2>1. PICK o : o = Object(OthersName, Data(0), 0)
      OBVIOUS
    <2>2. o.by = 0 /\ Free.by = 0
      BY <2>1 DEF Object, Free
    <2>3. /\ objects[h] = Free /\ objects'[h] = o /\ taken' = taken
          /\ \A g \in Handles : g # h => objects'[g] = objects[g]
      BY <1>0, <1>1, <2>1 DEF OtherLoads, TypeInv
    <2>4. \A k : Made(k)' <=> Made(k)
      BY <1>0 DEF Made, Gave
    <2>5. \A g \in Handles : /\ objects'[g].by = objects[g].by
                             /\ objects[g].by # 0 => objects'[g] = objects[g]
      BY <2>2, <2>3
    <2>6. MakerInv'
      BY <1>0, <2>5 DEF ObjectInv, MakerInv
    <2>7. calls \in CallIds => calls # 0
      BY DEF CallIds
    <2>8. HolderInv'
      <3>1. running /\ executions[calls] = 1 /\ asked[calls].op \in Makes =>
              calls \in CallIds /\ reply.handle \in Handles
        BY DEF Inv, CallInv, RequestInv
      <3> QED BY <1>0, <2>3, <2>4, <2>5, <2>7, <3>1 DEF ObjectInv, HolderInv
    <2>9. KeptInv'
      <3>1. \A k \in CallIds : Made(k) => given[k].val.handle \in Handles
        BY DEF Inv, RequestInv
      <3>2. \A k \in CallIds : Made(k) /\ Flushed(k) => Flushed(k)'
        BY FlushedStays
      <3> QED BY <1>0, <2>3, <2>4, <2>5, <3>1, <3>2 DEF ObjectInv, KeptInv
    <2> QED BY <2>6, <2>8, <2>9 DEF ObjectInv
  <1>2. ASSUME NEW h \in Handles, OtherFlushes(h)
        PROVE  ObjectInv'
    <2>1. /\ taken' = taken \cup {objects[h].by} /\ DOMAIN objects' = Handles
          /\ \A g \in Handles : objects'[g] = IF g \in {h} THEN Free ELSE objects[g]
      BY <1>0, <1>2 DEF OtherFlushes, TypeInv
    <2> QED BY <1>0, <2>1, RemovesObjectInv
  <1>3. ASSUME NEW b, OtherExtends(b)
        PROVE  ObjectInv'
    <2>1. UNCHANGED << objects, taken >>
      BY <1>3 DEF OtherExtends
    <2> QED BY <1>0, <2>1, QuietObjectInv DEF Made, Gave
  <1>4. CASE Reset
    <2>1. /\ taken' = taken \cup {objects[h].by : h \in Handles} /\ DOMAIN objects' = Handles
          /\ \A g \in Handles : objects'[g] = IF g \in Handles THEN Free ELSE objects[g]
      BY <1>4 DEF Reset
    <2> QED BY <1>0, <2>1, RemovesObjectInv
  <1> QED BY <1>1, <1>2, <1>3, <1>4 DEF Others

LEMMA NextObjectInv == Inv /\ ObjectInv /\ [Next]_vars => ObjectInv'
  <1> SUFFICES ASSUME Inv, ObjectInv, [Next]_vars
               PROVE  ObjectInv'
    OBVIOUS
  <1>1. CASE UNCHANGED vars
    <2>1. UNCHANGED << objects, taken, running, calls, reply, executions, asked, given >>
      BY <1>1 DEF vars, execution, tpm, others
    <2> QED BY <2>1, QuietObjectInv DEF Made, Gave
  <1> QED BY <1>1, ClientObjectInv, ReturnObjectInv, TpmObjectInv, OthersObjectInv DEF Next

LEMMA ObjectInvariance == Spec => [](Inv /\ ObjectInv)
  BY InitObjectInv, NextObjectInv, Invariance, PTL DEF Spec

\* An object in the TPM that the client has made is one it holds the handle and
\* Name of, or one of a call that failed with an error that does not come from
\* the TPM, or is still running (StrandedOnlyAfterError).
THEOREM StrandedObjectsAreReported == Spec => []StrandedOnlyAfterError
  <1>1. Inv /\ ObjectInv => StrandedOnlyAfterError
    <2> SUFFICES ASSUME Inv, ObjectInv, NEW h \in Handles, NEW c, c = objects[h].by, c # 0
                 PROVE  \/ outcome[c] \in {"none", "Error"} \/ given[c].kind = "Malformed"
                        \/ Made(c) /\ given[c].val = [handle |-> h, name |-> objects[h].name]
      BY DEF StrandedOnlyAfterError
    <2>1. c \in CallIds /\ executions[c] = 1 /\ asked[c].op \in Makes
      BY DEF ObjectInv, MakerInv
    <2>2. outcome[c] = "Ok" /\ given[c].kind # "Malformed" => Made(c)
      BY <2>1 DEF Inv, CallInv, Made, Gave, Makes
    <2>3. outcome[c] \in {"none", "Ok", "Error"}
      BY <2>1 DEF Inv, CallInv
    <2> QED BY <2>2, <2>3 DEF ObjectInv, HolderInv
  <1> QED BY ObjectInvariance, <1>1, PTL

\* What create_primary or load returned stays under its handle until others
\* remove it or a later flush of the client's does: flush_context evicts no
\* object but the one that had the handle when it was called
\* (KeptUntilFlushed).
THEOREM ObjectsAreKeptUntilFlushed == Spec => []KeptUntilFlushed
  <1>1. Inv /\ ObjectInv => KeptUntilFlushed
    <2> SUFFICES ASSUME Inv, ObjectInv, NEW c \in CallIds, Made(c), c \notin taken,
                        objects[given[c].val.handle].by # c
                 PROVE  \E f \in c + 1 .. MaxCalls :
                          /\ asked[f].op = "Flush" /\ asked[f].handle = given[c].val.handle
                          /\ outcome[f] # "Tpm"
      BY DEF KeptUntilFlushed
    <2>1. PICK f \in CallIds : /\ f > c /\ executions[f] = 1
                               /\ asked[f].op = "Flush" /\ asked[f].handle = given[c].val.handle
      BY DEF ObjectInv, KeptInv, Flushed
    <2>2. outcome[f] # "Tpm"
      BY <2>1 DEF Inv, CallInv
    <2>3. f \in c + 1 .. MaxCalls
      BY <2>1, ConstantsFit DEF CallIds
    <2> QED BY <2>1, <2>2, <2>3
  <1> QED BY ObjectInvariance, <1>1, PTL

-----------------------------------------------------------------------------
(* Sealed data.                                                            *)

\* A Name of a sealed object goes with the data sealed under it.
Truthful(name, data) == \A k \in CallIds \cup {0} : name = Sealed(k) => data = Data(k)

\* So it is in the TPM's slots, in the pairs create returned and load presents,
\* and in what an unseal under a session returned or is about to return.
SealInv ==
  /\ \A h \in Handles : Truthful(objects[h].name, objects[h].data)
  /\ \A c \in CallIds :
       /\ asked[c].op = "CreatePrimary" => asked[c].in = Parent
       /\ asked[c].op = "Create" => asked[c].in = create_params(c)
       /\ asked[c].op = "Load" => Truthful(asked[c].in.public, asked[c].in.private)
       /\ Gave(c, "Create") => Truthful(given[c].val.public, given[c].val.private)
       /\ Gave(c, "Unseal") /\ asked[c].auth = "session" => Truthful(asked[c].name, given[c].val.data)
  /\ running /\ executions[calls] = 1 =>
       /\ asked[calls].op = "Create" => Truthful(reply.public, reply.private)
       /\ asked[calls].op = "Unseal" /\ asked[calls].auth = "session" =>
            Truthful(asked[calls].name, reply.data)

\* What is sealed, what is not, and a pair.
LEMMA Names ==
  /\ \A c \in CallIds \cup {0} : Truthful(Sealed(c), Data(c))
  /\ \A data : /\ Truthful(Parent, data) /\ Truthful(OthersName, data)
               /\ Truthful(<< "free", 0 >>, data)
  <1>1. \A c, k \in CallIds \cup {0} : Sealed(c) = Sealed(k) => c = k
    BY DEF Sealed
  <1>2. \A k : Parent # Sealed(k) /\ OthersName # Sealed(k) /\ << "free", 0 >> # Sealed(k)
    BY DEF Parent, OthersName, Sealed
  <1> QED BY <1>1, <1>2 DEF Truthful

LEMMA InitSealInv == Init => SealInv
  <1> SUFFICES ASSUME Init
               PROVE  SealInv
    OBVIOUS
  <1>1. Free.name = << "free", 0 >> /\ NoRequest.op = "none" /\ NotWrapped.kind = "none"
    BY DEF Free, NoRequest, Request, NotWrapped, Wrapped
  <1>2. \A c \in CallIds : asked[c].op = "none" /\ given[c].kind = "none"
    BY <1>1 DEF Init
  <1>3. \A h \in Handles : objects[h].name = << "free", 0 >>
    BY <1>1 DEF Init
  <1> QED BY <1>2, <1>3, Names DEF Init, Run!Init, SealInv, Gave

LEMMA AskSealInv ==
  ASSUME Inv, SealInv, NEW request, Ask(request), Sound(request)
  PROVE  SealInv'
  <1>0. TypeInv /\ CallInv
    BY DEF Inv
  <1>1. /\ ~running /\ calls' = calls + 1 /\ calls + 1 \in CallIds /\ calls \in Nat
        /\ UNCHANGED << given, objects, executions >>
        /\ asked' = [asked EXCEPT ![calls + 1] = request]
    BY <1>0, Numbers DEF Ask, Run!Call, tpm
  <1>2. \A c \in CallIds : /\ c # calls + 1 => asked'[c] = asked[c]
                           /\ c = calls + 1 => asked'[c] = request
    BY <1>0, <1>1 DEF TypeInv
  <1>3. given[calls + 1].kind = "none" /\ executions[calls + 1] # 1
    BY <1>0, <1>1 DEF CallInv, NotWrapped, Wrapped
  <1>4. ASSUME request.op = "Load"
        PROVE  Truthful(request.in.public, request.in.private)
    <2>1. request.in = Blob(Sealed(0), Data(0)) \/
            \E k \in CallIds : Gave(k, "Create") /\ request.in = given[k].val
      BY <1>4 DEF Sound, Blobs
    <2>2. CASE request.in = Blob(Sealed(0), Data(0))
      <3>1. request.in.public = Sealed(0) /\ request.in.private = Data(0)
        BY <2>2 DEF Blob
      <3> QED BY <3>1, Names
    <2> QED BY <2>1, <2>2 DEF SealInv
  <1>5. \A h \in Handles : Truthful(objects'[h].name, objects'[h].data)
    BY <1>1 DEF SealInv
  <1>6. ASSUME NEW c \in CallIds
        PROVE  /\ asked'[c].op = "CreatePrimary" => asked'[c].in = Parent
               /\ asked'[c].op = "Create" => asked'[c].in = create_params(c)
               /\ asked'[c].op = "Load" => Truthful(asked'[c].in.public, asked'[c].in.private)
               /\ Gave(c, "Create")' => Truthful(given'[c].val.public, given'[c].val.private)
               /\ Gave(c, "Unseal")' /\ asked'[c].auth = "session" =>
                    Truthful(asked'[c].name, given'[c].val.data)
    <2>1. CASE c = calls + 1
      BY <1>1, <1>2, <1>3, <1>4, <2>1 DEF Sound, Gave
    <2>2. CASE c # calls + 1
      BY <1>1, <1>2, <2>2 DEF SealInv, Gave
    <2> QED BY <2>1, <2>2
  <1> QED BY <1>1, <1>3, <1>5, <1>6 DEF SealInv

\* run returns, and create and unseal hand their reply on as it is.
LEMMA ReturnSealInv ==
  ASSUME Inv, SealInv, ReturnOk \/ ReturnMalformed \/ ReturnError
  PROVE  SealInv'
  <1>0. TypeInv /\ CallInv
    BY DEF Inv
  <1>1. PICK kind, made, val :
          /\ kind \in {"Ok", "Tpm", "Error"} /\ made \in {"none", "Ok", "Malformed"}
          /\ Run!Return(kind) /\ Wrap(made, val)
          /\ made # "none" <=> kind = "Ok"
          /\ made = "Ok" => val = ReadReply(asked[calls].op, reply)
    BY Returns
  <1>2. /\ running /\ ~running' /\ calls' = calls /\ UNCHANGED << executions, asked, objects >>
        /\ made = "Ok" => executions[calls] = 1
    BY <1>1 DEF Run!Return, Wrap, tpm
  <1>3. given' = [given EXCEPT ![calls] = Wrapped(made, val)] /\ calls \in CallIds
    BY <1>0, <1>1, <1>2 DEF Wrap, CallInv
  <1>4. \A c \in CallIds : /\ c # calls => given'[c] = given[c]
                           /\ c = calls => given'[c].kind = made /\ given'[c].val = val
    BY <1>0, <1>3 DEF TypeInv, Wrapped
  <1>5. made = "Ok" /\ asked[calls].op \in {"Create", "Unseal"} => val = reply
    BY <1>1 DEF ReadReply
  <1>6. ASSUME NEW c \in CallIds
        PROVE  /\ Gave(c, "Create")' => Truthful(given'[c].val.public, given'[c].val.private)
               /\ Gave(c, "Unseal")' /\ asked[c].auth = "session" =>
                    Truthful(asked[c].name, given'[c].val.data)
    <2>1. CASE c = calls
      BY <1>2, <1>4, <1>5, <2>1 DEF SealInv, Gave
    <2>2. CASE c # calls
      BY <1>2, <1>4, <2>2 DEF SealInv, Gave
    <2> QED BY <2>1, <2>2
  <1> QED BY <1>2, <1>6 DEF SealInv

\* The TPM executes the latest call.
LEMMA ExecuteSealInv ==
  ASSUME Inv, SealInv, NEW c \in CallIds, TpmStep(c),
         \A h \in Handles : Truthful(objects'[h].name, objects'[h].data),
         running /\ asked[c].op = "Create" => Truthful(reply'.public, reply'.private),
         running /\ asked[c].op = "Unseal" /\ asked[c].auth = "session" =>
           Truthful(asked[c].name, reply'.data)
  PROVE  SealInv'
  <1>1. c = calls /\ UNCHANGED << calls, running, asked, given >>
    BY DEF TpmStep, Run!Execute
  <1> QED BY <1>1 DEF SealInv, Gave

LEMMA TpmSealInv ==
  ASSUME Inv, SealInv, Tpm
  PROVE  SealInv'
  <1>0. TypeInv /\ RequestInv
    BY DEF Inv
  <1>1. ASSUME NEW h \in Handles, NEW name, NEW data, NEW by, Truthful(name, data),
               objects' = [objects EXCEPT ![h] = Object(name, data, by)]
        PROVE  \A g \in Handles : Truthful(objects'[g].name, objects'[g].data)
    <2>1. Object(name, data, by).name = name /\ Object(name, data, by).data = data
      BY DEF Object
    <2>2. \A g \in Handles : objects'[g] = IF g = h THEN Object(name, data, by) ELSE objects[g]
      BY <1>0, <1>1 DEF TypeInv
    <2> QED BY <1>1, <2>1, <2>2 DEF SealInv
  <1>2. \A h \in Handles : Truthful(objects[h].name, objects[h].data)
    BY DEF SealInv
  <1>3. ASSUME NEW c \in CallIds, NEW h \in Handles, TpmCreatesPrimary(c, h)
        PROVE  SealInv'
    <2>1. Truthful(asked[c].in, Nothing)
      BY <1>3, Names DEF TpmCreatesPrimary, Executes, SealInv
    <2>2. TpmStep(c) /\ asked[c].op = "CreatePrimary"
      BY <1>3, StepOfTpm DEF TpmCreatesPrimary
    <2>3. \A g \in Handles : Truthful(objects'[g].name, objects'[g].data)
      BY <1>1, <1>3, <2>1 DEF TpmCreatesPrimary
    <2> QED BY <2>2, <2>3, ExecuteSealInv
  <1>4. ASSUME NEW c \in CallIds, NEW h \in Handles, TpmLoads(c, h)
        PROVE  SealInv'
    <2>1. Truthful(asked[c].in.public, asked[c].in.private)
      BY <1>4 DEF TpmLoads, Executes, SealInv
    <2>2. TpmStep(c) /\ asked[c].op = "Load"
      BY <1>4, StepOfTpm DEF TpmLoads
    <2>3. \A g \in Handles : Truthful(objects'[g].name, objects'[g].data)
      BY <1>1, <1>4, <2>1 DEF TpmLoads
    <2> QED BY <2>2, <2>3, ExecuteSealInv
  <1>5. ASSUME NEW c \in CallIds, TpmCreates(c)
        PROVE  SealInv'
    <2>1. PICK r : r = Blob(asked[c].in.public, asked[c].in.data)
      OBVIOUS
    <2>2. TpmStep(c) /\ asked[c].op = "Create" /\ objects' = objects /\ (running => reply' = r)
      BY <1>5, <2>1, StepOfTpm DEF TpmCreates, tpm
    <2>3. asked[c].in = create_params(c)
      BY <2>2 DEF SealInv
    <2>4. r.public = Sealed(c) /\ r.private = Data(c)
      BY <2>1, <2>3 DEF create_params, Blob
    <2>5. Truthful(r.public, r.private)
      BY <2>4, Names
    <2> QED BY <1>2, <2>2, <2>5, ExecuteSealInv
  <1>6. ASSUME NEW c \in CallIds, TpmUnseals(c)
        PROVE  SealInv'
    <2> DEFINE o == objects[asked[c].handle]
    <2>1. PICK r : r = [data |-> o.data]
      OBVIOUS
    <2>2. TpmStep(c) /\ asked[c].op = "Unseal" /\ objects' = objects /\ (running => reply' = r)
      BY <1>6, <2>1, StepOfTpm DEF TpmUnseals, tpm
    <2>3. asked[c].auth = "session" => o.name = asked[c].name
      BY <1>6 DEF TpmUnseals, Authorised
    <2>4. asked[c].handle \in Handles
      BY <1>0, <2>2 DEF RequestInv, OnObject
    <2>5. asked[c].auth = "session" => Truthful(asked[c].name, r.data)
      BY <1>2, <2>1, <2>3, <2>4
    <2> QED BY <1>2, <2>2, <2>5, ExecuteSealInv
  <1>7. ASSUME NEW c \in CallIds, TpmFlushes(c)
        PROVE  SealInv'
    <2>1. TpmStep(c) /\ asked[c].op = "Flush" /\ objects' = [objects EXCEPT ![asked[c].handle] = Free]
      BY <1>7, StepOfTpm DEF TpmFlushes
    <2>2. \A g \in Handles : objects'[g] = Free \/ objects'[g] = objects[g]
      BY <1>0, <2>1 DEF TypeInv
    <2>3. \A g \in Handles : Truthful(objects'[g].name, objects'[g].data)
      BY <1>2, <2>2, Names DEF Free
    <2> QED BY <2>1, <2>3, ExecuteSealInv
  <1>8. ASSUME NEW c \in CallIds, TpmIdles(c) \/ TpmReads(c)
        PROVE  SealInv'
    <2>1. TpmStep(c) /\ asked[c].op \notin {"Create", "Unseal"} /\ objects' = objects
      BY <1>8, StepOfTpm, ReadStep DEF TpmIdles, tpm
    <2> QED BY <1>2, <2>1, ExecuteSealInv
  <1>9. ASSUME NEW c \in CallIds, TpmStarts(c) \/ TpmExtends(c)
        PROVE  SealInv'
    <2>1. TpmStep(c) /\ asked[c].op \notin {"Create", "Unseal"} /\ objects' = objects
      BY <1>9, StepOfTpm DEF TpmStarts, TpmExtends
    <2> QED BY <1>2, <2>1, ExecuteSealInv
  <1> QED BY <1>3, <1>4, <1>5, <1>6, <1>7, <1>8, <1>9 DEF Tpm

LEMMA NextSealInv == Inv /\ SealInv /\ [Next]_vars => SealInv'
  <1> SUFFICES ASSUME Inv, SealInv, [Next]_vars
               PROVE  SealInv'
    OBVIOUS
  <1>0. TypeInv /\ CallInv
    BY DEF Inv
  <1>1. ASSUME UNCHANGED << calls, running, executions, asked, given, reply >>,
               \A g \in Handles : Truthful(objects'[g].name, objects'[g].data)
        PROVE  SealInv'
    BY <1>1 DEF SealInv, Gave
  <1>2. \A h \in Handles : Truthful(objects[h].name, objects[h].data)
    BY DEF SealInv
  <1>3. CASE UNCHANGED vars
    BY <1>1, <1>2, <1>3 DEF vars, execution, tpm
  <1>4. CASE Client
    <2>1. CASE stir_random_TooLong
      <3>1. UNCHANGED << running, asked, given, objects, executions >> /\ ~running
        BY <2>1 DEF stir_random_TooLong, Run!Reject, tpm
      <3> QED BY <3>1 DEF SealInv, Gave
    <2>2. ASSUME NEW request, Ask(request), Sound(request)
          PROVE  SealInv'
      BY <2>2, AskSealInv
    <2> QED BY <1>4, <2>1, <2>2, ClientAsks
  <1>5. CASE Others
    <2>1. UNCHANGED << calls, running, executions, asked, given, reply >>
      BY <1>5, OthersKeep DEF execution
    <2>2. Free.name = << "free", 0 >>
      BY DEF Free
    <2>3. PICK o : o = Object(OthersName, Data(0), 0)
      OBVIOUS
    <2>4. o.name = OthersName
      BY <2>3 DEF Object
    <2>5. \A g \in Handles : objects'[g] \in {objects[g], Free, o}
      BY <1>0, <1>5, <2>3 DEF Others, OtherLoads, OtherFlushes, OtherExtends, Reset, TypeInv
    <2>6. \A g \in Handles : Truthful(objects'[g].name, objects'[g].data)
      BY <1>2, <2>2, <2>4, <2>5, Names
    <2> QED BY <1>1, <2>1, <2>6
  <1> QED BY <1>3, <1>4, <1>5, ReturnSealInv, TpmSealInv DEF Next

\* Under a session, unseal returns the data that create sealed under the Name
\* it was given (UnsealGivesWhatWasSealed), whatever others have put under the
\* handle in the meantime: the Name goes into the command's HMAC.
THEOREM UnsealInvertsCreate == Spec => []UnsealGivesWhatWasSealed
  <1>1. SealInv => UnsealGivesWhatWasSealed
    <2> SUFFICES ASSUME SealInv, NEW u \in CallIds, NEW c \in CallIds \cup {0},
                        Gave(u, "Unseal"), asked[u].auth = "session", asked[u].name = Sealed(c)
                 PROVE  given[u].val.data = Data(c)
      <3>1. \A u \in CallIds \cup {0} : u # 0 => u \in CallIds
        OBVIOUS
      <3> QED BY <3>1 DEF UnsealGivesWhatWasSealed
    <2>1. Truthful(asked[u].name, given[u].val.data)
      BY DEF SealInv
    <2> QED BY <2>1 DEF Truthful
  <1> QED BY InitSealInv, NextSealInv, Invariance, <1>1, PTL DEF Spec

-----------------------------------------------------------------------------
(* PCRs.                                                                   *)

\* A bank has extends of executed calls, in their order, and of all those since
\* the latest reset that named it.
ExtendInv ==
  /\ bootedAt \in Nat
  /\ \A b \in Allocated :
       /\ Ordered(pcr[b])
       /\ \A i \in DOMAIN pcr[b] : pcr[b][i] > 0 => pcr[b][i] \in CallIds /\ executions[pcr[b][i]] = 1
       /\ \A c \in CallIds :
            asked[c].op = "Extend" /\ b \in asked[c].in /\ executions[c] = 1 /\ c > bootedAt =>
              In(c, pcr[b])

LEMMA InitExtendInv == Init => ExtendInv
  <1> SUFFICES ASSUME Init
               PROVE  ExtendInv
    OBVIOUS
  <1>1. \A b \in Allocated : pcr[b] = << >>
    BY DEF Init
  <1>2. \A c \in CallIds : executions[c] = 0
    BY DEF Init, Run!Init, Run!CallIds, CallIds
  <1>3. bootedAt \in Nat
    BY DEF Init
  <1> QED BY <1>1, <1>2, <1>3 DEF ExtendInv, Ordered

\* What a bank has after one more extend.
LEMMA OneMore ==
  ASSUME NEW history \in Seq(Nat), NEW c \in Nat
  PROVE  /\ \A k : In(k, Append(history, c)) <=> In(k, history) \/ k = c
         /\ \A i \in DOMAIN Append(history, c) :
              \/ i \in DOMAIN history /\ Append(history, c)[i] = history[i]
              \/ i = Len(history) + 1 /\ Append(history, c)[i] = c
  <1>1. PICK h : h = Append(history, c)
    OBVIOUS
  <1>2. /\ DOMAIN h = 1 .. Len(history) + 1 /\ DOMAIN history = 1 .. Len(history) /\ Len(history) \in Nat
        /\ h[Len(history) + 1] = c /\ \A i \in 1 .. Len(history) : h[i] = history[i]
    BY <1>1
  <1>3. \A i \in DOMAIN h : \/ i \in DOMAIN history /\ h[i] = history[i]
                            \/ i = Len(history) + 1 /\ h[i] = c
    BY <1>2
  <1>4. \A k : In(k, h) <=> In(k, history) \/ k = c
    BY <1>2, <1>3 DEF In
  <1> QED BY <1>1, <1>3, <1>4

\* A call later than all those in a bank keeps it in order, and so does what
\* another client extends it with.
LEMMA StillOrdered ==
  ASSUME NEW history \in Seq(Nat), NEW c \in Nat, Ordered(history),
         c > 0 => \A i \in DOMAIN history : history[i] < c
  PROVE  Ordered(Append(history, c))
  <1>1. PICK h : h = Append(history, c)
    OBVIOUS
  <1>2. \A i \in DOMAIN h : \/ i \in DOMAIN history /\ h[i] = history[i]
                            \/ i = Len(history) + 1 /\ h[i] = c
    BY <1>1, OneMore
  <1>3. DOMAIN history = 1 .. Len(history) /\ Len(history) \in Nat
        /\ \A i \in DOMAIN history : history[i] \in Nat
    OBVIOUS
  <1>4. Ordered(h)
    <2> SUFFICES ASSUME NEW i \in DOMAIN h, NEW j \in DOMAIN h, i < j, h[i] > 0, h[j] > 0
                 PROVE  h[i] < h[j]
      BY DEF Ordered
    <2>1. i \in DOMAIN history /\ h[i] = history[i]
      <3>1. DOMAIN h = 1 .. Len(history) + 1
        BY <1>1
      <3> QED BY <1>2, <1>3, <3>1
    <2>2. CASE j \in DOMAIN history /\ h[j] = history[j]
      BY <2>1, <2>2 DEF Ordered
    <2>3. CASE h[j] = c
      BY <2>1, <2>3
    <2> QED BY <1>2, <2>2, <2>3
  <1> QED BY <1>1, <1>4

\* A step that leaves the banks, and executes no extend.
LEMMA QuietExtendInv ==
  ASSUME Inv, ExtendInv, [Next]_vars, UNCHANGED << pcr, bootedAt >>,
         \A c \in CallIds : executions'[c] = 1 => executions[c] = 1 \/ asked'[c].op # "Extend"
  PROVE  ExtendInv'
  <1>1. \A c \in CallIds : executions[c] = 1 => executions'[c] = 1 /\ asked'[c] = asked[c]
    BY PastStays
  <1>2. ASSUME NEW b \in Allocated, NEW c \in CallIds, asked'[c].op = "Extend", b \in asked'[c].in,
               executions'[c] = 1, c > bootedAt
        PROVE  In(c, pcr[b])
    BY <1>1, <1>2 DEF ExtendInv
  <1>3. ASSUME NEW b \in Allocated
        PROVE  /\ Ordered(pcr[b])
               /\ \A i \in DOMAIN pcr[b] : pcr[b][i] > 0 =>
                    pcr[b][i] \in CallIds /\ executions'[pcr[b][i]] = 1
    BY <1>1 DEF ExtendInv
  <1> QED BY <1>2, <1>3 DEF ExtendInv, Ordered, In

\* An extend is executed: it goes behind those before it.
LEMMA ExtendsExtendInv ==
  ASSUME Inv, ExtendInv, [Next]_vars, NEW c \in CallIds, TpmExtends(c)
  PROVE  ExtendInv'
  <1>0. TypeInv /\ CallInv
    BY DEF Inv
  <1>1. /\ c = calls /\ executions[c] = 0 /\ executions' = [executions EXCEPT ![c] = @ + 1]
        /\ UNCHANGED << asked, bootedAt >> /\ asked[c].op = "Extend"
        /\ pcr' = [b \in Allocated |-> IF b \in asked[c].in THEN Append(pcr[b], c) ELSE pcr[b]]
    BY DEF TpmExtends, Executes, Run!Execute, Reply, others
  <1>2. \A k \in CallIds : executions'[k] = 1 <=> executions[k] = 1 \/ k = c
    BY <1>0, <1>1 DEF TypeInv
  <1>3. \A b \in Allocated : pcr[b] \in Seq(Nat) /\ c \in Nat /\ c > 0
    BY <1>0 DEF TypeInv, CallIds
  <1>4. \A b \in Allocated : \A i \in DOMAIN pcr[b] : pcr[b][i] < c
    <2> SUFFICES ASSUME NEW b \in Allocated, NEW i \in DOMAIN pcr[b]
                 PROVE  pcr[b][i] < c
      OBVIOUS
    <2>1. pcr[b][i] \in Nat
      BY <1>3
    <2>2. CASE pcr[b][i] > 0
      <3>1. pcr[b][i] \in CallIds /\ executions[pcr[b][i]] = 1
        BY <2>2 DEF ExtendInv
      <3>2. pcr[b][i] <= calls /\ pcr[b][i] # c /\ calls \in Nat
        BY <1>0, <1>1, <3>1, Numbers DEF CallInv
      <3> QED BY <1>1, <2>1, <3>2
    <2> QED BY <1>3, <2>1, <2>2
  <1>5. ASSUME NEW b \in Allocated
        PROVE  /\ Ordered(pcr'[b])
               /\ \A i \in DOMAIN pcr'[b] : pcr'[b][i] > 0 =>
                    pcr'[b][i] \in CallIds /\ executions'[pcr'[b][i]] = 1
               /\ \A k \in CallIds :
                    asked[k].op = "Extend" /\ b \in asked[k].in /\ executions'[k] = 1 /\ k > bootedAt =>
                      In(k, pcr'[b])
    <2>1. CASE b \in asked[c].in
      <3>1. pcr'[b] = Append(pcr[b], c)
        BY <1>1, <1>5, <2>1
      <3>2. Ordered(pcr'[b])
        BY <1>3, <1>4, <1>5, <3>1, StillOrdered DEF ExtendInv
      <3>3. \A i \in DOMAIN pcr'[b] : pcr'[b][i] = c \/ (i \in DOMAIN pcr[b] /\ pcr'[b][i] = pcr[b][i])
        BY <1>3, <1>5, <3>1, OneMore
      <3>4. \A k : In(k, pcr'[b]) <=> In(k, pcr[b]) \/ k = c
        BY <1>3, <1>5, <3>1, OneMore
      <3> QED BY <1>2, <1>5, <3>2, <3>3, <3>4 DEF ExtendInv
    <2>2. CASE b \notin asked[c].in
      <3>1. pcr'[b] = pcr[b]
        BY <1>1, <1>5, <2>2
      <3> QED BY <1>2, <1>5, <2>2, <3>1 DEF ExtendInv
    <2> QED BY <2>1, <2>2
  <1> QED BY <1>1, <1>5 DEF ExtendInv, Ordered, In

LEMMA NextExtendInv == Inv /\ ExtendInv /\ [Next]_vars => ExtendInv'
  <1> SUFFICES ASSUME Inv, ExtendInv, [Next]_vars
               PROVE  ExtendInv'
    OBVIOUS
  <1>0. TypeInv /\ CallInv
    BY DEF Inv
  <1>1. ASSUME UNCHANGED << pcr, bootedAt, executions >>
        PROVE  ExtendInv'
    BY <1>1, QuietExtendInv
  <1>2. CASE UNCHANGED vars
    BY <1>1, <1>2 DEF vars, execution, tpm, others
  <1>3. CASE Client
    <2>1. UNCHANGED << pcr, bootedAt, executions >>
      <3>1. CASE stir_random_TooLong
        BY <3>1 DEF stir_random_TooLong, Run!Reject, tpm, others
      <3>2. ASSUME NEW request, Ask(request)
            PROVE  UNCHANGED << pcr, bootedAt, executions >>
        BY <3>2 DEF Ask, Run!Call, tpm, others
      <3> QED BY <1>3, <3>1, <3>2, ClientAsks
    <2> QED BY <1>1, <2>1
  <1>4. CASE ReturnOk \/ ReturnMalformed \/ ReturnError
    <2>1. UNCHANGED << pcr, bootedAt, executions >>
      BY <1>4, Returns DEF Run!Return, Wrap, tpm, others
    <2> QED BY <1>1, <2>1
  <1>5. CASE Tpm
    <2>1. ASSUME NEW c \in CallIds, TpmStep(c), asked[c].op # "Extend", pcr' = pcr
          PROVE  ExtendInv'
      <3>1. /\ executions' = [executions EXCEPT ![c] = @ + 1]
            /\ UNCHANGED << asked, bootedAt >>
        BY <2>1 DEF TpmStep, Run!Execute, others
      <3>2. \A k \in CallIds : executions'[k] = 1 => executions[k] = 1 \/ k = c
        BY <1>0, <3>1 DEF TypeInv
      <3> QED BY <2>1, <3>1, <3>2, QuietExtendInv
    <2>2. ASSUME NEW c \in CallIds, NEW h \in Handles, TpmCreatesPrimary(c, h) \/ TpmLoads(c, h)
          PROVE  ExtendInv'
      BY <2>1, <2>2, StepOfTpm DEF TpmCreatesPrimary, TpmLoads
    <2>3. ASSUME NEW c \in CallIds, TpmCreates(c) \/ TpmUnseals(c) \/ TpmFlushes(c)
          PROVE  ExtendInv'
      BY <2>1, <2>3, StepOfTpm DEF TpmCreates, TpmUnseals, TpmFlushes, tpm
    <2>4. ASSUME NEW c \in CallIds, TpmReads(c) \/ TpmStarts(c) \/ TpmIdles(c)
          PROVE  ExtendInv'
      BY <2>1, <2>4, StepOfTpm, ReadStep DEF TpmStarts, TpmIdles, tpm
    <2> QED BY <1>5, <2>2, <2>3, <2>4, ExtendsExtendInv DEF Tpm
  <1>6. CASE Others
    <2>0. UNCHANGED << executions, asked >>
      BY <1>6, OthersKeep DEF execution
    <2>1. ASSUME NEW h \in Handles, OtherLoads(h) \/ OtherFlushes(h)
          PROVE  ExtendInv'
      BY <1>1, <2>0, <2>1 DEF OtherLoads, OtherFlushes
    <2>2. ASSUME NEW b \in Allocated, OtherExtends(b)
          PROVE  ExtendInv'
      <3>1. pcr' = [pcr EXCEPT ![b] = Append(@, 0)] /\ bootedAt' = bootedAt
        BY <2>2 DEF OtherExtends
      <3>2. pcr[b] \in Seq(Nat) /\ pcr'[b] = Append(pcr[b], 0)
            /\ \A a \in Allocated : a # b => pcr'[a] = pcr[a]
        BY <1>0, <3>1 DEF TypeInv
      <3>3. Ordered(pcr'[b])
        BY <3>2, StillOrdered DEF ExtendInv
      <3>4. \A i \in DOMAIN pcr'[b] : pcr'[b][i] = 0 \/ (i \in DOMAIN pcr[b] /\ pcr'[b][i] = pcr[b][i])
        BY <3>2, OneMore
      <3>5. \A k : In(k, pcr[b]) => In(k, pcr'[b])
        BY <3>2, OneMore
      <3>6. ASSUME NEW a \in Allocated
            PROVE  /\ Ordered(pcr'[a])
                   /\ \A i \in DOMAIN pcr'[a] : pcr'[a][i] > 0 =>
                        pcr'[a][i] \in CallIds /\ executions[pcr'[a][i]] = 1
                   /\ \A k \in CallIds :
                        asked[k].op = "Extend" /\ a \in asked[k].in /\ executions[k] = 1 /\ k > bootedAt =>
                          In(k, pcr'[a])
        <4>1. CASE a = b
          BY <3>3, <3>4, <3>5, <4>1 DEF ExtendInv
        <4>2. CASE a # b
          BY <3>2, <4>2 DEF ExtendInv
        <4> QED BY <4>1, <4>2
      <3> QED BY <2>0, <3>1, <3>6 DEF ExtendInv, Ordered, In
    <2>3. CASE Reset
      <3>1. bootedAt' = calls /\ calls \in Nat /\ pcr' = [b \in Allocated |-> << >>]
        BY <1>0, <2>3, Numbers DEF Reset
      <3>2. \A c \in CallIds : executions[c] = 1 => ~(c > calls)
        BY <1>0, <3>1, Numbers DEF CallInv
      <3>3. \A b \in Allocated : pcr'[b] = << >>
        BY <3>1
      <3> QED BY <2>0, <3>1, <3>2, <3>3 DEF ExtendInv, Ordered
    <2> QED BY <1>6, <2>1, <2>2, <2>3 DEF Others
  <1> QED BY <1>2, <1>3, <1>4, <1>5, <1>6 DEF Next

\* pcr_extend takes effect at most once and in the order of the calls, in every
\* bank it names and the TPM has, and for certain when it returned Ok and not
\* when the TPM refused it (ExtendedOnceInOrder).
THEOREM ExtendsTakeEffectInOrder == Spec => []ExtendedOnceInOrder
  <1>1. Inv /\ ExtendInv => ExtendedOnceInOrder
    <2> SUFFICES ASSUME Inv, ExtendInv, NEW b \in Allocated, NEW c \in CallIds,
                        asked[c].op = "Extend", b \in asked[c].in
                 PROVE  /\ outcome[c] = "Ok" /\ c > bootedAt => In(c, pcr[b])
                        /\ outcome[c] = "Tpm" => ~In(c, pcr[b])
      BY DEF ExtendedOnceInOrder, ExtendInv
    <2>1. outcome[c] = "Ok" => executions[c] = 1
      BY DEF Inv, CallInv
    <2>2. outcome[c] = "Tpm" => executions[c] # 1
      BY DEF Inv, CallInv
    <2>3. In(c, pcr[b]) => executions[c] = 1
      <3>1. c > 0
        BY DEF CallIds
      <3> QED BY <3>1 DEF ExtendInv, In
    <2> QED BY <2>1, <2>2, <2>3 DEF ExtendInv
  <1> QED BY InitExtendInv, NextExtendInv, Invariance, <1>1, PTL DEF Spec

\* A value of bank b that call r has read: it shows executed calls up to r, and
\* of those before r every extend of the bank that returned Ok since the reset.
Shows(r, b, value) ==
  /\ value \in Seq(Nat)
  /\ \A c \in CallIds : In(c, value) => c <= r /\ executions[c] = 1
  /\ \A c \in CallIds :
       asked[c].op = "Extend" /\ b \in asked[c].in /\ outcome[c] = "Ok" /\ bootedAt < c /\ c < r =>
         In(c, value)

\* What the TPM answers to the selection of call r.
Answers(r, selection, values) ==
  \E at \in AllocatedIn(asked[r].in) :
    /\ selection = [i \in DOMAIN at |-> asked[r].in[at[i]]]
    /\ DOMAIN values = DOMAIN at /\ values = [i \in DOMAIN at |-> values[i]]
    /\ \A i \in DOMAIN at : Shows(r, selection[i], values[i])

Reads == {"Read", "ReadOne"}

\* What a read is asked, what it told the caller, and its reply on the way.
AskedWell(c) ==
  /\ asked[c].op = "Read" => asked[c].in \in Seq(Banks)
  /\ asked[c].op = "ReadOne" => \E bank \in Banks : asked[c].in = << bank >>

ToldWell(c) ==
  /\ Gave(c, "Read") => Answers(c, given[c].val.selection, given[c].val.values)
  /\ Gave(c, "ReadOne") =>
       \E selection, values : Answers(c, selection, values) /\ given[c].val.value = First(values)

ReplyWell ==
  running /\ executions[calls] = 1 /\ asked[calls].op \in Reads =>
    Answers(calls, reply.selection, reply.values)

ReadInv ==
  /\ bootedAt <= calls
  /\ \A c \in CallIds : AskedWell(c) /\ ToldWell(c)
  /\ ReplyWell

LEMMA InitReadInv == Init => ReadInv
  <1> SUFFICES ASSUME Init
               PROVE  ReadInv
    OBVIOUS
  <1>1. NoRequest.op = "none" /\ NotWrapped.kind = "none"
    BY DEF NoRequest, Request, NotWrapped, Wrapped
  <1>2. \A c \in CallIds : asked[c].op = "none" /\ given[c].kind = "none"
    BY <1>1 DEF Init
  <1> QED BY <1>2 DEF Init, Run!Init, ReadInv, AskedWell, ToldWell, ReplyWell, Gave

\* What a call was answered stands.
LEMMA AnswersStay ==
  ASSUME Inv, ReadInv, [Next]_vars, bootedAt <= bootedAt', bootedAt \in Nat, bootedAt' \in Nat,
         NEW r \in CallIds, r <= calls, NEW selection, NEW values, Answers(r, selection, values)
  PROVE  Answers(r, selection, values)'
  <1>1. calls \in Nat /\ \A c \in CallIds : c \in Nat
    BY Numbers DEF Inv
  <1>2. asked'[r] = asked[r]
    BY PastStays
  <1>3. \A c \in CallIds : c < r => outcome[c] # "none" /\ c <= calls
    BY <1>1 DEF Inv, CallInv
  <1>4. \A c \in CallIds : executions[c] = 1 => executions'[c] = 1
    BY PastStays
  <1>5. \A c \in CallIds : c < r => outcome'[c] = outcome[c] /\ asked'[c] = asked[c]
    BY <1>3, PastStays
  <1>6. ASSUME NEW b, NEW value, Shows(r, b, value)
        PROVE  Shows(r, b, value)'
    <2>1. \A c \in CallIds : bootedAt' < c => bootedAt < c
      BY <1>1
    <2> QED BY <1>4, <1>5, <1>6, <2>1 DEF Shows
  <1> QED BY <1>2, <1>6 DEF Answers

\* What the TPM reads of a bank.
LEMMA BankShows ==
  ASSUME Inv, ExtendInv, NEW b \in Allocated
  PROVE  Shows(calls, b, pcr[b])
  <1>1. \A c \in CallIds : c > 0
    BY DEF CallIds
  <1>2. \A c \in CallIds : In(c, pcr[b]) => executions[c] = 1
    BY <1>1 DEF ExtendInv, In
  <1>3. \A c \in CallIds : executions[c] = 1 => c <= calls
    BY DEF Inv, CallInv
  <1>4. \A c \in CallIds : outcome[c] = "Ok" => executions[c] = 1
    BY DEF Inv, CallInv
  <1>5. bootedAt \in Nat /\ \A c \in CallIds : c \in Nat
    BY DEF ExtendInv, CallIds
  <1>6. pcr[b] \in Seq(Nat)
    BY DEF Inv, TypeInv
  <1> QED BY <1>2, <1>3, <1>4, <1>5, <1>6 DEF Shows, ExtendInv

\* What the TPM answers, it has in its banks.
LEMMA AnswersNow ==
  ASSUME Inv, ExtendInv, NEW at \in AllocatedIn(asked[calls].in),
         NEW r, r = PcrReply(asked[calls].in, at)
  PROVE  Answers(calls, r.selection, r.values)
  <1>1. \A i \in DOMAIN at : asked[calls].in[at[i]] \in Allocated
    BY DEF AllocatedIn
  <1>2. /\ r.selection = [i \in DOMAIN at |-> asked[calls].in[at[i]]]
        /\ r.values = [i \in DOMAIN at |-> pcr[asked[calls].in[at[i]]]]
    BY DEF PcrReply
  <1>3. \A i \in DOMAIN at : Shows(calls, r.selection[i], r.values[i])
    BY <1>1, <1>2, BankShows
  <1> QED BY <1>2, <1>3 DEF Answers

\* Resets are of the calls begun by then.
LEMMA BootedLater ==
  ASSUME Inv, ExtendInv, bootedAt <= calls, [Next]_vars
  PROVE  /\ bootedAt \in Nat /\ bootedAt' \in Nat
         /\ bootedAt <= bootedAt' /\ bootedAt' <= calls'
  <1>1. bootedAt \in Nat /\ calls \in Nat
    BY Numbers DEF ExtendInv, Inv
  <1>2. bootedAt' = bootedAt \/ (Reset /\ bootedAt' = calls)
    <2>1. CASE UNCHANGED vars
      BY <2>1 DEF vars, others
    <2>2. CASE Client
      BY <2>2, ClientAsks DEF stir_random_TooLong, Ask, others
    <2>3. CASE ReturnOk \/ ReturnMalformed \/ ReturnError
      BY <2>3, Returns DEF Wrap, others
    <2>4. CASE Tpm
      BY <2>4, TpmKeeps DEF TpmStep, others
    <2>5. CASE Others
      BY <2>5 DEF Others, OtherLoads, OtherFlushes, OtherExtends, Reset
    <2> QED BY <2>1, <2>2, <2>3, <2>4, <2>5 DEF Next
  <1>3. calls' = calls \/ calls' = calls + 1
    <2>1. CASE UNCHANGED vars
      BY <2>1 DEF vars, execution
    <2>2. CASE Client
      BY <2>2, ClientAsks DEF stir_random_TooLong, Ask, Run!Call, Run!Reject
    <2>3. CASE ReturnOk \/ ReturnMalformed \/ ReturnError
      BY <2>3, Returns DEF Run!Return
    <2>4. CASE Tpm
      BY <2>4, TpmKeeps DEF TpmStep, Run!Execute
    <2>5. CASE Others
      BY <2>5, OthersKeep DEF execution
    <2> QED BY <2>1, <2>2, <2>3, <2>4, <2>5 DEF Next
  <1> QED BY <1>1, <1>2, <1>3

\* What a call told the caller stands, whatever happens next.
LEMMA ToldStays ==
  ASSUME Inv, ExtendInv, ReadInv, [Next]_vars, NEW c \in CallIds, given'[c] = given[c]
  PROVE  ToldWell(c)'
  <1>1. \A op : Gave(c, op)' => Gave(c, op) /\ c <= calls
    <2>1. given[c].kind = "Ok" => c <= calls
      BY Numbers DEF Inv, CallInv
    <2>2. c <= calls => asked'[c] = asked[c]
      BY PastStays
    <2> QED BY <2>1, <2>2 DEF Gave
  <1>2. ASSUME NEW selection, NEW values, c <= calls, Answers(c, selection, values)
        PROVE  Answers(c, selection, values)'
    BY <1>2, AnswersStay, BootedLater DEF ReadInv
  <1>3. ASSUME Gave(c, "Read")'
        PROVE  Answers(c, given[c].val.selection, given[c].val.values)'
    <2>1. PICK selection, values : selection = given[c].val.selection /\ values = given[c].val.values
      OBVIOUS
    <2>2. c <= calls /\ Answers(c, selection, values)
      BY <1>1, <1>3, <2>1 DEF ReadInv, ToldWell
    <2>3. Answers(c, selection, values)'
      BY <1>2, <2>2
    <2> QED BY <2>1, <2>3
  <1>4. ASSUME Gave(c, "ReadOne")'
        PROVE  \E selection, values : Answers(c, selection, values)' /\ given'[c].val.value = First(values)
    <2>1. PICK selection, values : Answers(c, selection, values) /\ given[c].val.value = First(values)
      BY <1>1, <1>4 DEF ReadInv, ToldWell
    <2>2. Answers(c, selection, values)'
      BY <1>1, <1>2, <1>4, <2>1
    <2> QED BY <2>1, <2>2
  <1> QED BY <1>3, <1>4 DEF ToldWell

LEMMA AskedStays ==
  ASSUME Inv, ReadInv, [Next]_vars, NEW c \in CallIds
  PROVE  AskedWell(c)'
  <1>1. CASE asked'[c] = asked[c]
    BY <1>1 DEF ReadInv, AskedWell
  <1>2. ASSUME NEW request, Ask(request), Sound(request)
        PROVE  asked'[c] = asked[c] \/ asked'[c] = request
    BY <1>2 DEF Ask, Inv, TypeInv
  <1>3. ASSUME NEW request, Sound(request), asked'[c] = request
        PROVE  AskedWell(c)'
    BY <1>3 DEF Sound, AskedWell
  <1>4. CASE Client
    <2>1. stir_random_TooLong => asked' = asked
      BY DEF stir_random_TooLong
    <2> QED BY <1>1, <1>2, <1>3, <1>4, <2>1, ClientAsks
  <1>5. ~Client => asked' = asked
    <2>1. UNCHANGED vars \/ Others => asked' = asked
      BY OthersKeep DEF vars
    <2>2. ReturnOk \/ ReturnMalformed \/ ReturnError => asked' = asked
      BY Returns DEF Wrap
    <2>3. Tpm => asked' = asked
      BY TpmKeeps DEF TpmStep
    <2> QED BY <2>1, <2>2, <2>3 DEF Next
  <1> QED BY <1>1, <1>4, <1>5

\* What a read tells the caller is what the TPM answered.
LEMMA ReturnReadInv ==
  ASSUME Inv, ExtendInv, ReadInv, [Next]_vars, ReturnOk \/ ReturnMalformed \/ ReturnError
  PROVE  ReadInv'
  <1>1. PICK kind, made, val :
          /\ kind \in {"Ok", "Tpm", "Error"} /\ made \in {"none", "Ok", "Malformed"}
          /\ Run!Return(kind) /\ Wrap(made, val)
          /\ made # "none" <=> kind = "Ok"
          /\ made = "Ok" => val = ReadReply(asked[calls].op, reply)
    BY Returns
  <1>2. /\ running /\ ~running' /\ UNCHANGED << calls, executions, asked, bootedAt >>
        /\ given' = [given EXCEPT ![calls] = Wrapped(made, val)]
        /\ kind = "Ok" => executions[calls] = 1
    BY <1>1 DEF Run!Return, Wrap, others
  <1>3. calls \in CallIds /\ DOMAIN given = CallIds /\ TypeInv
    BY <1>2 DEF Inv, TypeInv, CallInv
  <1>4. \A c \in CallIds : c # calls => ToldWell(c)'
    BY <1>2, ToldStays
  <1>5. given'[calls] = [kind |-> made, val |-> val]
    BY <1>2, <1>3 DEF Wrapped
  <1>6. ASSUME made = "Ok", asked[calls].op \in Reads
        PROVE  Answers(calls, reply.selection, reply.values)
    BY <1>1, <1>2, <1>6 DEF ReadInv, ReplyWell
  <1>7. ASSUME made = "Ok", asked[calls].op \in Reads,
               NEW selection, NEW values, selection = reply.selection, values = reply.values
        PROVE  Answers(calls, selection, values)'
    <2>1. PICK r : r = calls
      OBVIOUS
    <2>2. r \in CallIds /\ r <= calls /\ r = calls'
      BY <1>2, <1>3, <2>1, Numbers
    <2>3. Answers(r, selection, values)
      BY <1>6, <1>7, <2>1
    <2>4. Answers(r, selection, values)'
      BY <2>2, <2>3, AnswersStay, BootedLater DEF ReadInv
    <2> QED BY <1>2, <2>2, <2>4
  <1>8. ToldWell(calls)'
    <2>1. PICK r : r = calls
      OBVIOUS
    <2>2. r = calls' /\ asked'[r] = asked[calls] /\ given'[r] = [kind |-> made, val |-> val]
      BY <1>2, <1>5, <2>1
    <2>3. PICK selection, values : selection = reply.selection /\ values = reply.values
      OBVIOUS
    <2>4. ASSUME made = "Ok", asked[calls].op \in Reads
          PROVE  Answers(r, selection, values)'
      <3>1. Answers(calls, selection, values)'
        BY <1>7, <2>3, <2>4
      <3> QED BY <2>2, <3>1
    <2>5. ASSUME Gave(r, "Read")'
          PROVE  Answers(r, given[r].val.selection, given[r].val.values)'
      <3>1. made = "Ok" /\ asked[calls].op = "Read"
        BY <2>2, <2>5 DEF Gave
      <3>2. val = [selection |-> selection, values |-> values]
        BY <1>1, <2>3, <3>1 DEF ReadReply, PcrReadResult
      <3>3. given'[r].val.selection = selection /\ given'[r].val.values = values
        BY <2>2, <3>2
      <3> QED BY <2>4, <3>1, <3>3 DEF Reads
    <2>6. ASSUME Gave(r, "ReadOne")'
          PROVE  \E s, v : Answers(r, s, v)' /\ given'[r].val.value = First(v)
      <3>1. made = "Ok" /\ asked[calls].op = "ReadOne"
        BY <2>2, <2>6 DEF Gave
      <3>2. val = [value |-> First(values)]
        BY <1>1, <2>3, <3>1 DEF ReadReply, PcrReadResult
      <3> QED BY <2>2, <2>4, <3>1, <3>2 DEF Reads
    <2>7. ToldWell(r)'
      BY <2>5, <2>6 DEF ToldWell
    <2> QED BY <2>2, <2>7
  <1>9. \A c \in CallIds : ToldWell(c)'
    <2>1. PICK r : r = calls
      OBVIOUS
    <2>2. ToldWell(r)'
      BY <1>2, <1>8, <2>1
    <2> QED BY <1>4, <2>1, <2>2
  <1>10. \A c \in CallIds : AskedWell(c)'
    BY AskedStays
  <1>11. bootedAt' <= calls'
    BY BootedLater DEF ReadInv
  <1> QED BY <1>2, <1>9, <1>10, <1>11 DEF ReadInv, ReplyWell

\* The TPM answers from its banks, and nothing else answers a read.
LEMMA TpmReadInv ==
  ASSUME Inv, ExtendInv, ReadInv, [Next]_vars, Tpm
  PROVE  ReplyWell'
  <1>1. PICK r : r = calls
    OBVIOUS
  <1>2. /\ r \in CallIds => r <= calls
        /\ \A s, v : r \in CallIds /\ Answers(r, s, v) => Answers(r, s, v)'
    BY <1>1, Numbers, AnswersStay, BootedLater DEF ReadInv, Inv
  <1>3. ASSUME NEW c \in CallIds, TpmStep(c)
        PROVE  c = r /\ UNCHANGED << calls, running, asked >>
    BY <1>1, <1>3 DEF TpmStep, Run!Execute
  <1>4. ASSUME NEW c \in CallIds, TpmStep(c), asked[c].op \notin Reads
        PROVE  ReplyWell'
    BY <1>1, <1>3, <1>4 DEF ReplyWell
  <1>5. ASSUME NEW c \in CallIds, TpmReads(c)
        PROVE  ReplyWell'
    <2>1. PICK at \in AllocatedIn(asked[c].in) : running => reply' = PcrReply(asked[c].in, at)
      BY <1>5, ReadStep
    <2>2. c = r /\ r \in CallIds /\ UNCHANGED << calls, running, asked >>
      BY <1>3, <1>5, ReadStep
    <2>3. PICK answer : answer = PcrReply(asked[c].in, at)
      OBVIOUS
    <2>4. Answers(calls, answer.selection, answer.values)
      BY <1>1, <2>1, <2>2, <2>3, AnswersNow
    <2>5. PICK s, v : s = answer.selection /\ v = answer.values
      OBVIOUS
    <2>6. Answers(r, s, v)'
      BY <1>1, <1>2, <2>2, <2>4, <2>5
    <2>7. running => reply'.selection = s /\ reply'.values = v
      BY <2>1, <2>3, <2>5
    <2>8. r = calls'
      BY <1>1, <2>2
    <2> QED BY <2>2, <2>6, <2>7, <2>8 DEF ReplyWell
  <1>6. ASSUME NEW c \in CallIds, NEW h \in Handles, TpmCreatesPrimary(c, h) \/ TpmLoads(c, h)
        PROVE  ReplyWell'
    BY <1>4, <1>6, StepOfTpm DEF TpmCreatesPrimary, TpmLoads, Reads
  <1>7. ASSUME NEW c \in CallIds, TpmCreates(c) \/ TpmUnseals(c) \/ TpmFlushes(c)
        PROVE  ReplyWell'
    BY <1>4, <1>7, StepOfTpm DEF TpmCreates, TpmUnseals, TpmFlushes, Reads
  <1>8. ASSUME NEW c \in CallIds, TpmExtends(c) \/ TpmStarts(c) \/ TpmIdles(c)
        PROVE  ReplyWell'
    BY <1>4, <1>8, StepOfTpm DEF TpmExtends, TpmStarts, TpmIdles, Reads
  <1> QED BY <1>5, <1>6, <1>7, <1>8 DEF Tpm

LEMMA NextReadInv == Inv /\ ExtendInv /\ ReadInv /\ [Next]_vars => ReadInv'
  <1> SUFFICES ASSUME Inv, ExtendInv, ReadInv, [Next]_vars
               PROVE  ReadInv'
    OBVIOUS
  <1>1. bootedAt' <= calls' /\ \A c \in CallIds : AskedWell(c)'
    BY AskedStays, BootedLater DEF ReadInv
  <1>2. ASSUME given' = given
        PROVE  \A c \in CallIds : ToldWell(c)'
    BY <1>2, ToldStays
  <1>3. ASSUME UNCHANGED << calls, running, executions, asked, reply >>
        PROVE  ReplyWell'
    <2>1. PICK r, s, v : r = calls /\ s = reply.selection /\ v = reply.values
      OBVIOUS
    <2>2. running => r \in CallIds /\ r <= calls
      BY <2>1, Numbers DEF Inv, CallInv
    <2>3. ASSUME running', executions'[calls'] = 1, asked'[calls'].op \in Reads
          PROVE  Answers(r, s, v)'
      <3>1. Answers(r, s, v) /\ running
        BY <1>3, <2>1, <2>3 DEF ReadInv, ReplyWell
      <3> QED BY <2>2, <3>1, AnswersStay, BootedLater DEF ReadInv
    <2>4. r = calls' /\ s = reply'.selection /\ v = reply'.values
      BY <1>3, <2>1
    <2> QED BY <2>3, <2>4 DEF ReplyWell
  <1>4. CASE UNCHANGED vars
    <2>1. UNCHANGED << calls, running, executions, asked, reply, given >>
      BY <1>4 DEF vars, execution
    <2> QED BY <1>1, <1>2, <1>3, <2>1 DEF ReadInv
  <1>5. CASE Client
    <2>1. ASSUME stir_random_TooLong
          PROVE  given' = given /\ ReplyWell'
      BY <2>1 DEF stir_random_TooLong, Run!Reject, ReplyWell
    <2>2. ASSUME NEW request, Ask(request)
          PROVE  given' = given /\ ReplyWell'
      <3>1. calls' = calls + 1 /\ calls + 1 \in CallIds /\ UNCHANGED << executions, given >>
        BY <2>2, Numbers DEF Ask, Run!Call, Inv
      <3>2. executions[calls + 1] # 1
        BY <3>1, Numbers DEF Inv, CallInv
      <3> QED BY <3>1, <3>2 DEF ReplyWell
    <2>3. given' = given /\ ReplyWell'
      BY <1>5, <2>1, <2>2, ClientAsks
    <2> QED BY <1>1, <1>2, <2>3 DEF ReadInv
  <1>6. CASE Tpm
    <2>1. given' = given
      BY <1>6, TpmKeeps DEF TpmStep
    <2> QED BY <1>1, <1>2, <1>6, <2>1, TpmReadInv DEF ReadInv
  <1>7. CASE Others
    <2>1. UNCHANGED << calls, running, executions, asked, reply, given >>
      BY <1>7, OthersKeep DEF execution
    <2> QED BY <1>1, <1>2, <1>3, <2>1 DEF ReadInv
  <1> QED BY <1>4, <1>5, <1>6, <1>7, ReturnReadInv DEF Next

\* An answer has a value for each of its n positions, which are those of the
\* allocated banks of the selection asked for.
ShapedBy(n, r, selection, values) ==
  /\ DOMAIN selection = 1 .. n /\ Len(selection) = n
  /\ DOMAIN values = 1 .. n /\ Len(values) = n
  /\ \A i \in 1 .. n :
       /\ selection[i] \in Allocated /\ Shows(r, selection[i], values[i])
       /\ \E k \in DOMAIN asked[r].in : selection[i] = asked[r].in[k]
  /\ \A k \in DOMAIN asked[r].in :
       asked[r].in[k] \in Allocated => \E i \in 1 .. n : selection[i] = asked[r].in[k]

LEMMA AnswerShape ==
  ASSUME NEW r, asked[r].in \in Seq(Banks), NEW selection, NEW values, Answers(r, selection, values)
  PROVE  \E n \in 0 .. Len(asked[r].in) : ShapedBy(n, r, selection, values)
  <1>1. PICK in \in Seq(Banks) : in = asked[r].in
    OBVIOUS
  <1>2. PICK at \in AllocatedIn(in) :
          /\ selection = [i \in DOMAIN at |-> in[at[i]]]
          /\ DOMAIN values = DOMAIN at /\ values = [i \in DOMAIN at |-> values[i]]
          /\ \A i \in DOMAIN at : Shows(r, selection[i], values[i])
    BY <1>1 DEF Answers
  <1>3. Len(in) \in Nat /\ DOMAIN in = 1 .. Len(in)
    BY <1>1
  <1>4. PICK n \in 0 .. Len(in) : at \in [1 .. n -> DOMAIN in]
    BY <1>2, <1>3 DEF AllocatedIn
  <1>5. n \in Nat /\ DOMAIN at = 1 .. n
    BY <1>3, <1>4
  <1>6. selection \in [1 .. n -> Banks]
    BY <1>1, <1>2, <1>3, <1>4, <1>5
  <1>7. PICK S : \A i \in 1 .. n : values[i] \in S
    <2>1. \A i \in 1 .. n : values[i] \in {values[k] : k \in 1 .. n}
      OBVIOUS
    <2> QED BY <2>1
  <1>8. values \in [1 .. n -> S]
    BY <1>2, <1>5, <1>7
  <1>9. Len(selection) = n /\ Len(values) = n
    BY <1>5, <1>6, <1>8
  <1>10. {at[i] : i \in DOMAIN at} = {k \in DOMAIN in : in[k] \in Allocated}
    BY <1>2 DEF AllocatedIn
  <1>11. \A i \in 1 .. n : selection[i] = in[at[i]] /\ at[i] \in DOMAIN in /\ in[at[i]] \in Allocated
    BY <1>2, <1>4, <1>5, <1>10
  <1>12. ASSUME NEW k \in DOMAIN in, in[k] \in Allocated
         PROVE  \E i \in 1 .. n : selection[i] = in[k]
    <2>1. PICK i \in DOMAIN at : at[i] = k
      BY <1>10, <1>12
    <2> QED BY <1>2, <1>5, <2>1
  <1>13. ShapedBy(n, r, selection, values)
    BY <1>1, <1>2, <1>5, <1>6, <1>9, <1>11, <1>12 DEF ShapedBy
  <1> QED BY <1>1, <1>13

LEMMA ShowsSeenBefore ==
  ASSUME Inv, NEW r \in CallIds, NEW b, NEW value, Shows(r, b, value)
  PROVE  SeenBefore(r, b, value)
  <1>1. ASSUME NEW c \in CallIds, outcome[c] = "Tpm" \/ c > r
        PROVE  ~In(c, value)
    <2>1. outcome[c] = "Tpm" => executions[c] # 1
      BY DEF Inv, CallInv
    <2>2. c \in Nat /\ r \in Nat
      BY DEF CallIds
    <2> QED BY <1>1, <2>1, <2>2 DEF Shows
  <1> QED BY <1>1 DEF Shows, SeenBefore

\* pcr_read's values match the selection it returns position by position, and
\* pcr_read_one returns None for the banks the TPM does not have and no other; a
\* value shows every extend that returned Ok before, and none that was refused
\* or made later (ValuesMatchSelection).
THEOREM ReadsShowWhatWasExtended == Spec => []ValuesMatchSelection
  <1>1. Inv /\ ReadInv => ValuesMatchSelection
    <2> SUFFICES ASSUME Inv, ReadInv, NEW r \in CallIds
                 PROVE  LET got == given[r].val
                        IN /\ Gave(r, "Read") =>
                                /\ Len(got.values) = Len(got.selection)
                                /\ \A i \in DOMAIN got.selection :
                                     /\ got.selection[i] \in Allocated
                                     /\ SeenBefore(r, got.selection[i], got.values[i])
                           /\ Gave(r, "ReadOne") =>
                                \/ got.value = << >> /\ asked[r].in[1] \notin Allocated
                                \/ Len(got.value) = 1 /\ SeenBefore(r, asked[r].in[1], got.value[1])
      BY DEF ValuesMatchSelection
    <2>1. CASE Gave(r, "Read")
      <3>1. PICK selection, values :
              /\ selection = given[r].val.selection /\ values = given[r].val.values
              /\ Answers(r, selection, values)
        BY <2>1 DEF ReadInv, ToldWell
      <3>2. asked[r].in \in Seq(Banks) /\ asked[r].op = "Read"
        BY <2>1 DEF ReadInv, AskedWell, Gave
      <3>3. PICK n \in 0 .. Len(asked[r].in) : ShapedBy(n, r, selection, values)
        BY <3>1, <3>2, AnswerShape
      <3>4. \A i \in 1 .. n : selection[i] \in Allocated /\ SeenBefore(r, selection[i], values[i])
        BY <3>3, ShowsSeenBefore DEF ShapedBy
      <3>5. ~Gave(r, "ReadOne")
        BY <3>2 DEF Gave
      <3> QED BY <3>1, <3>3, <3>4, <3>5 DEF ShapedBy
    <2>2. CASE Gave(r, "ReadOne")
      <3>1. PICK selection, values : Answers(r, selection, values) /\ given[r].val.value = First(values)
        BY <2>2 DEF ReadInv, ToldWell
      <3>2. PICK bank \in Banks : asked[r].in = << bank >>
        BY <2>2 DEF ReadInv, AskedWell, Gave
      <3>3. asked[r].in \in Seq(Banks) /\ Len(asked[r].in) = 1 /\ DOMAIN asked[r].in = {1}
            /\ asked[r].in[1] = bank
        BY <3>2
      <3>4. PICK n \in 0 .. Len(asked[r].in) : ShapedBy(n, r, selection, values)
        BY <3>1, <3>3, AnswerShape
      <3>5. CASE n = 0
        <4>1. bank \notin Allocated
          BY <3>3, <3>4, <3>5 DEF ShapedBy
        <4>2. First(values) = << >>
          BY <3>4, <3>5, EmptySeq DEF First, ShapedBy
        <4> QED BY <2>2, <3>1, <3>3, <4>1, <4>2 DEF Gave
      <3>6. CASE n = 1
        <4>1. bank = selection[1]
          BY <3>3, <3>4, <3>6 DEF ShapedBy
        <4>2. values # << >> /\ Head(values) = values[1]
          <5>1. Len(values) = n
            BY <3>4, Zenon DEF ShapedBy
          <5>2. values # << >>
            BY <3>6, <5>1
          <5> QED BY <5>2
        <4>3. First(values) = << values[1] >>
          BY <4>2 DEF First
        <4>4. SeenBefore(r, bank, values[1])
          BY <3>4, <3>6, <4>1, ShowsSeenBefore DEF ShapedBy
        <4> QED BY <2>2, <3>1, <3>3, <4>3, <4>4 DEF Gave
      <3> QED BY <3>3, <3>4, <3>5, <3>6
    <2> QED BY <2>1, <2>2
  <1> QED BY InitReadInv, NextReadInv, InitExtendInv, NextExtendInv, Invariance, <1>1, PTL DEF Spec
=============================================================================
