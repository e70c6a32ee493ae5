------------------------------ MODULE Commands ------------------------------
(***************************************************************************)
(* The object, PCR and miscellaneous commands (object.rs, pcr.rs, misc.rs  *)
(* and flush_context, under src/src/commands/) of one client, each over    *)
(* one call of Tpm::run, which is here what module Execution promises.     *)
(*                                                                         *)
(* The TPM is external.  Another client or a reset may change what it      *)
(* holds between two calls, and during one.                                *)
(***************************************************************************)
EXTENDS Naturals, Sequences, FiniteSets

CONSTANTS
  MaxCalls,   \* bound: commands of the client
  MaxEvents,  \* bound: things others do to the TPM
  MaxFailed,  \* bound: commands that do not return Ok
  Handles,    \* the TPM's slots for transient objects
  Banks,      \* hash algorithms of PCR banks
  Allocated,  \* those the TPM has a bank for
  Extended,   \* the sets of banks pcr_extend is given digests for
  Selections, \* the sequences of banks pcr_read is given
  Auths,      \* how create, load and unseal are authorised
  Clients     \* bound: sets of UseKinds, one of which a client keeps to

UseKinds == {"objects", "pcr", "misc"}

ASSUME ConstantsFit ==
  /\ MaxCalls \in Nat /\ MaxEvents \in Nat /\ MaxFailed \in Nat /\ Allocated \subseteq Banks
  /\ Extended \subseteq SUBSET Banks /\ Selections \subseteq Seq(Banks)
  /\ Auths \subseteq {"password", "session"} /\ Clients \subseteq SUBSET UseKinds

VARIABLES
  calls, running, executions, outcome,  \* of Execution
  asked,     \* CallIds -> the request
  reply,     \* what the TPM's reply to the latest call carries
  given,     \* CallIds -> what the wrapper made of the Ok that run returned
  objects,   \* Handles -> the transient object
  pcr,       \* Allocated -> the calls that extended the bank, 0 for another's
  started,   \* whether the TPM has been started up
  taken,     \* the calls whose object others removed
  bootedAt,  \* calls begun before the latest reset
  events,    \* things others have done
  uses       \* the member of Clients this client is

execution == << calls, running, executions, outcome >>
tpm == << objects, pcr, started >>
others == << taken, bootedAt, events, uses >>
vars == << execution, asked, reply, given, tpm, others >>

Run == INSTANCE Execution

CallIds == 1 .. MaxCalls

\* A Name names one public area: that of the parent template, that of the
\* object sealed by a call (0: in an earlier run), or a permanent handle.
Parent == << "parent", 0 >>
Sealed(c) == << "sealed", c >>
permanent_name == << "permanent", 0 >>
OthersName == << "other", 0 >>

Data(c) == << "data", c >>
AuthValue(c) == << "auth", c >>

Free == [name |-> << "free", 0 >>, data |-> Data(0), by |-> 0]
Object(name, data, by) == [name |-> name, data |-> data, by |-> by]

Nothing == << >>

\* What a wrapper made of run's Ok.
Wrapped(kind, val) == [kind |-> kind, val |-> val]
NotWrapped == Wrapped("none", Nothing)

\* Requests: the command, the handle and the Name authorised, how, the rest.
Request(op, handle, name, auth, in) ==
  [op |-> op, handle |-> handle, name |-> name, auth |-> auth, in |-> in]

NoRequest == Request("none", Nothing, permanent_name, "none", Nothing)

Init ==
  /\ Run!Init
  /\ asked = [c \in CallIds |-> NoRequest]
  /\ reply = Nothing /\ given = [c \in CallIds |-> NotWrapped]
  /\ objects = [h \in Handles |-> Free] /\ pcr = [b \in Allocated |-> << >>]
  /\ started = TRUE
  /\ taken = {} /\ bootedAt = 0 /\ events = 0 /\ uses \in Clients

-----------------------------------------------------------------------------
(* The wrappers: what they ask. *)

Ask(request) ==
  /\ Run!Call
  /\ asked' = [asked EXCEPT ![calls + 1] = request] /\ reply' = Nothing
  /\ UNCHANGED << given, tpm, others >>

\* What the caller has to name objects by: what create_primary and load gave it,
\* however old.
Gave(c, op) == asked[c].op = op /\ given[c].kind = "Ok"
Made(c) == Gave(c, "CreatePrimary") \/ Gave(c, "Load")
Known == {given[c].val : c \in {k \in CallIds : Made(k)}}

\* The pair create returns, opaque to the caller.
Blob(name, data) == [private |-> data, public |-> name]
Blobs ==
  {Blob(Sealed(0), Data(0))}
    \cup {given[c].val : c \in {k \in CallIds : Gave(k, "Create")}}

\* Hierarchies and PCRs are authorised by password.
create_primary == Ask(Request("CreatePrimary", Nothing, permanent_name, "password", Parent))

\* Slip: the data goes where the TPM looks for the auth value.
create_params_Swapped(c) == [auth |-> Data(c), data |-> AuthValue(c), public |-> Sealed(c)]

\* inSensitive and inPublic, of an object sealed by call c.
create_params(c) == [auth |-> AuthValue(c), data |-> Data(c), public |-> Sealed(c)]

create(o, auth) == Ask(Request("Create", o.handle, o.name, auth, create_params(calls + 1)))

load(o, auth, blob) == Ask(Request("Load", o.handle, o.name, auth, blob))

unseal(o, auth) == Ask(Request("Unseal", o.handle, o.name, auth, Nothing))

\* The handle is a parameter: no authorization, and no Name.
flush_context(o) == Ask(Request("Flush", o.handle, permanent_name, "none", Nothing))

pcr_extend(banks) == Ask(Request("Extend", Nothing, permanent_name, "password", banks))

pcr_read(selection) == Ask(Request("Read", Nothing, permanent_name, "none", selection))

pcr_read_one(bank) == Ask(Request("ReadOne", Nothing, permanent_name, "none", << bank >>))

startup == Ask(Request("Startup", Nothing, permanent_name, "none", Nothing))

\* shutdown, self_test, get_random, stir_random, get_capability: a call of run
\* each, and a reply handed on as it is.
inert == Ask(Request("Inert", Nothing, permanent_name, "none", Nothing))

\* stir_random with more than 128 bytes.
stir_random_TooLong ==
  /\ Run!Reject
  /\ UNCHANGED << asked, reply, given, tpm, others >>

Client ==
  \/ /\ "objects" \in uses
     /\ \/ create_primary
        \/ \E o \in Known, auth \in Auths :
             create(o, auth) \/ unseal(o, auth) \/ \E blob \in Blobs : load(o, auth, blob)
        \/ \E o \in Known : flush_context(o)
  \/ /\ "pcr" \in uses
     /\ \/ \E banks \in Extended : pcr_extend(banks)
        \/ \E selection \in Selections : pcr_read(selection)
        \/ \E bank \in Banks : pcr_read_one(bank)
  \/ "misc" \in uses /\ (startup \/ inert \/ stir_random_TooLong)

-----------------------------------------------------------------------------
(* The wrappers: what they make of run's result. *)

\* Slip: the Name returned is the one the command was authorised by.
ReadCreated_WrongName(r) == [handle |-> r.handle, name |-> asked[calls].name]

\* The reply's handle, and the last of the five parameters.
ReadCreated(r) == [handle |-> r.handle, name |-> r.name]

\* Slip: the selection returned is the one asked for.
PcrReadResult_AsAsked(r) == [selection |-> asked[calls].in, values |-> r.values]

PcrReadResult(r) == [selection |-> r.selection, values |-> r.values]

\* An Option, as a sequence of at most one.
First(values) == IF values = << >> THEN << >> ELSE << Head(values) >>

ReadReply(op, r) ==
  CASE op = "CreatePrimary" -> ReadCreated(r)
    [] op = "Read"          -> PcrReadResult(r)
    [] op = "ReadOne"       -> [value |-> First(PcrReadResult(r).values)]
    [] OTHER                -> r

Wrap(kind, val) ==
  /\ given' = [given EXCEPT ![calls] = Wrapped(kind, val)] /\ reply' = Nothing
  /\ UNCHANGED << asked, tpm, others >>

MayFail == Cardinality({c \in CallIds : outcome[c] # "none" /\ given[c].kind # "Ok"}) < MaxFailed

ReturnOk == Run!Return("Ok") /\ Wrap("Ok", ReadReply(asked[calls].op, reply))

\* The parameters do not parse, where no session vouches for them.
ReturnMalformed ==
  /\ Run!Return("Ok") /\ asked[calls].auth # "session" /\ reply # Nothing /\ MayFail
  /\ Wrap("Malformed", Nothing)

ReturnError == (Run!Return("Tpm") \/ Run!Return("Error")) /\ MayFail /\ Wrap("none", Nothing)

-----------------------------------------------------------------------------
(* The TPM.  It may refuse any command it has not executed: Return("Tpm"). *)

\* A session's cpHash covers the Name; a password says nothing of the object.
Authorised(c, o) == o # Free /\ (asked[c].auth = "session" => o.name = asked[c].name)

Executes(c, op) == Run!Execute(c) /\ asked[c].op = op

Reply(c, r) ==
  /\ reply' = IF c = calls /\ running THEN r ELSE reply
  /\ UNCHANGED << asked, given, others >>

TpmCreatesPrimary(c, h) ==
  /\ Executes(c, "CreatePrimary") /\ started /\ objects[h] = Free
  /\ objects' = [objects EXCEPT ![h] = Object(asked[c].in, Nothing, c)]
  /\ Reply(c, [handle |-> h, name |-> asked[c].in])
  /\ UNCHANGED << pcr, started >>

TpmCreates(c) ==
  /\ Executes(c, "Create") /\ started
  /\ Authorised(c, objects[asked[c].handle]) /\ objects[asked[c].handle].name = Parent
  /\ Reply(c, Blob(asked[c].in.public, asked[c].in.data))
  /\ UNCHANGED tpm

TpmLoads(c, h) ==
  /\ Executes(c, "Load") /\ started /\ objects[h] = Free
  /\ Authorised(c, objects[asked[c].handle]) /\ objects[asked[c].handle].name = Parent
  /\ objects' = [objects EXCEPT ![h] = Object(asked[c].in.public, asked[c].in.private, c)]
  /\ Reply(c, [handle |-> h, name |-> asked[c].in.public])
  /\ UNCHANGED << pcr, started >>

TpmUnseals(c) ==
  /\ Executes(c, "Unseal") /\ started
  /\ Authorised(c, objects[asked[c].handle]) /\ objects[asked[c].handle].name # Parent
  /\ Reply(c, [data |-> objects[asked[c].handle].data])
  /\ UNCHANGED tpm

TpmFlushes(c) ==
  /\ Executes(c, "Flush") /\ started /\ objects[asked[c].handle] # Free
  /\ objects' = [objects EXCEPT ![asked[c].handle] = Free]
  /\ Reply(c, Nothing)
  /\ UNCHANGED << pcr, started >>

\* A bank the TPM does not have is passed over.
TpmExtends(c) ==
  /\ Executes(c, "Extend") /\ started
  /\ pcr' = [b \in Allocated |-> IF b \in asked[c].in THEN Append(pcr[b], c) ELSE pcr[b]]
  /\ Reply(c, Nothing)
  /\ UNCHANGED << objects, started >>

\* The positions of the allocated banks in a selection, in order.
AllocatedIn(selection) ==
  {at \in UNION {[1 .. n -> DOMAIN selection] : n \in 0 .. Len(selection)} :
     /\ {at[i] : i \in DOMAIN at} = {k \in DOMAIN selection : selection[k] \in Allocated}
     /\ \A i, j \in DOMAIN at : i < j => at[i] < at[j]}

\* A value for each allocated bank, in the order of the selection.
TpmReads(c) ==
  /\ Executes(c, "Read") \/ Executes(c, "ReadOne")
  /\ started
  /\ \E at \in AllocatedIn(asked[c].in) :
       Reply(c, [selection |-> [i \in DOMAIN at |-> asked[c].in[at[i]]],
                 values |-> [i \in DOMAIN at |-> pcr[asked[c].in[at[i]]]]])
  /\ UNCHANGED tpm

TpmStarts(c) ==
  /\ Executes(c, "Startup") /\ ~started /\ started' = TRUE
  /\ Reply(c, Nothing)
  /\ UNCHANGED << objects, pcr >>

TpmIdles(c) == Executes(c, "Inert") /\ started /\ Reply(c, Nothing) /\ UNCHANGED tpm

Tpm ==
  \E c \in CallIds :
    \/ \E h \in Handles : TpmCreatesPrimary(c, h) \/ TpmLoads(c, h)
    \/ TpmCreates(c) \/ TpmUnseals(c) \/ TpmFlushes(c)
    \/ TpmExtends(c) \/ TpmReads(c) \/ TpmStarts(c) \/ TpmIdles(c)

-----------------------------------------------------------------------------
(* Other clients, and resets. *)

Event ==
  /\ events < MaxEvents /\ events' = events + 1
  /\ UNCHANGED << execution, asked, reply, given, uses >>

OtherLoads(h) ==
  /\ Event /\ started /\ objects[h] = Free
  /\ objects' = [objects EXCEPT ![h] = Object(OthersName, Data(0), 0)]
  /\ UNCHANGED << pcr, started, taken, bootedAt >>

OtherFlushes(h) ==
  /\ Event /\ objects[h] # Free
  /\ taken' = taken \cup {objects[h].by} /\ objects' = [objects EXCEPT ![h] = Free]
  /\ UNCHANGED << pcr, started, bootedAt >>

OtherExtends(b) ==
  /\ Event /\ started
  /\ pcr' = [pcr EXCEPT ![b] = Append(@, 0)]
  /\ UNCHANGED << objects, started, taken, bootedAt >>

\* Whoever resets the TPM may start it up again.
Reset ==
  /\ Event /\ bootedAt' = calls
  /\ taken' = taken \cup {objects[h].by : h \in Handles}
  /\ objects' = [h \in Handles |-> Free] /\ pcr' = [b \in Allocated |-> << >>]
  /\ started' \in BOOLEAN

Others ==
  \/ "objects" \in uses /\ \E h \in Handles : OtherLoads(h) \/ OtherFlushes(h)
  \/ "pcr" \in uses /\ \E b \in Allocated : OtherExtends(b)
  \/ Reset

Next == Client \/ ReturnOk \/ ReturnMalformed \/ ReturnError \/ Tpm \/ Others

Spec == Init /\ [][Next]_vars

-----------------------------------------------------------------------------
(* Properties. *)

\* create_primary and load return the handle with the TPM's own Name of the
\* object: an object of the client's that the caller cannot name is one of a
\* command that failed with anything but a TPM error, or is still running.
StrandedOnlyAfterError ==
  \A h \in Handles :
    LET c == objects[h].by
    IN c # 0 => \/ outcome[c] \in {"none", "Error"} \/ given[c].kind = "Malformed"
                \/ Made(c) /\ given[c].val = [handle |-> h, name |-> objects[h].name]

\* What create_primary or load returned stays loaded under its handle until the
\* client asks to flush that handle later on, or others remove it.  A flush that
\* failed earlier never comes back for the object that got the handle since.
KeptUntilFlushed ==
  \A c \in CallIds :
    Made(c) /\ c \notin taken =>
      \/ objects[given[c].val.handle].by = c
      \/ \E f \in c + 1 .. MaxCalls :
           asked[f].op = "Flush" /\ asked[f].handle = given[c].val.handle /\ outcome[f] # "Tpm"

\* create, load and unseal are inverse: under a session, unseal returns the data
\* sealed under the Name it was given, whatever others have done to the handle
\* in the meantime.
UnsealGivesWhatWasSealed ==
  \A u, c \in CallIds \cup {0} :
    u # 0 /\ Gave(u, "Unseal") /\ asked[u].auth = "session" /\ asked[u].name = Sealed(c)
      => given[u].val.data = Data(c)

\* The calls in a history, others' extends (0) apart, are in order and each once.
Ordered(history) ==
  \A i, j \in DOMAIN history :
    i < j /\ history[i] > 0 /\ history[j] > 0 => history[i] < history[j]
In(c, history) == \E i \in DOMAIN history : history[i] = c

\* pcr_extend takes effect once and in the order of the calls, in every bank it
\* names and the TPM has, and for certain when it returned Ok: the digest of a
\* PCR can be recomputed from the calls, unless one of them failed.
ExtendedOnceInOrder ==
  \A b \in Allocated :
    /\ Ordered(pcr[b])
    /\ \A c \in CallIds :
         asked[c].op = "Extend" /\ b \in asked[c].in =>
           /\ outcome[c] = "Ok" /\ c > bootedAt => In(c, pcr[b])
           /\ outcome[c] = "Tpm" => ~In(c, pcr[b])

\* A value read of a bank before call r has seen every extend that returned Ok,
\* and none that was refused or made later.
SeenBefore(r, b, value) ==
  \A c \in CallIds :
    asked[c].op = "Extend" /\ b \in asked[c].in =>
      /\ outcome[c] = "Ok" /\ bootedAt < c /\ c < r => In(c, value)
      /\ outcome[c] = "Tpm" \/ c > r => ~In(c, value)

\* pcr_read's values match the selection it returns position by position, with
\* banks the TPM does not have left out of both; pcr_read_one returns None for
\* those and for no other.
ValuesMatchSelection ==
  \A r \in CallIds :
    LET got == given[r].val
    IN /\ Gave(r, "Read") =>
            /\ Len(got.values) = Len(got.selection)
            /\ \A i \in DOMAIN got.selection :
                 got.selection[i] \in Allocated /\ SeenBefore(r, got.selection[i], got.values[i])
       /\ Gave(r, "ReadOne") =>
            \/ got.value = << >> /\ asked[r].in[1] \notin Allocated
            \/ Len(got.value) = 1 /\ SeenBefore(r, asked[r].in[1], got.value[1])
=============================================================================
