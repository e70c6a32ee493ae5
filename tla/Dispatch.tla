------------------------------ MODULE Dispatch ------------------------------
(***************************************************************************)
(* The dispatcher Tpm::run / parse_response of src/src/tpm.rs with the     *)
(* session commands of src/src/commands/session.rs, over a link to a TPM.  *)
(*                                                                         *)
(* A call is numbered when it enters run.  Its frame, authorisation entry  *)
(* included, is built once; the loop then submits these bytes and parses   *)
(* what the transport hands back, resubmitting them on a transient         *)
(* warning.  One client owns the Tpm and its Sessions (&mut self), so one  *)
(* call is in progress at a time; the link, the TPM and other clients of   *)
(* the same TPM act between its steps.                                     *)
(*                                                                         *)
(* The TPM is external: it is modelled from what the code expects of it.   *)
(***************************************************************************)
EXTENDS Session, TpmRc, FiniteSets

CONSTANTS
  Slots,          \* the client's variables of type Session
  Handles,        \* the TPM's session handles
  RH_NULL,        \* TPM_RH_NULL
  RS_PW,          \* TPM_RS_PW
  AuthOf,         \* the TPM's auth value of every object, a sequence of secrets
  AuthValues,     \* the auth values the client may present
  Salts,          \* salts of the sessions the client adopts
  Algs,           \* hash algorithms the TPM accepts for a session
  HostAlgs,       \* hash algorithms crypto::digest_size knows
  MAX_TRANSIENT_RETRIES,
  NotReadyCodes,  \* the transient warnings the TPM gives
  RefusalCodes,   \* codes of refusals that are not about authorisation
  Uses,           \* bound: what the client does: see UseKinds
  Faults,         \* what goes wrong: see FaultKinds
  StaleKinds,     \* kinds of replies the link may deliver again
  MaxCalls,       \* bound: calls of the client
  MaxRolls        \* bound: nonces the TPM draws

\* "lost": transmit returns an error, before or after the TPM saw the command.
\* "late": a command that reached the link is delivered to the TPM again.
\* "stale": the client is handed a reply the TPM gave earlier.
\* "garble": a reply is damaged on its way, but for its tag and response code.
\* "retag": the tag of a reply is damaged.
\* "shared": another client opens and flushes sessions on the same TPM.
FaultKinds == {"lost", "late", "stale", "garble", "retag", "shared"}
UseKinds == {"start", "flush", "none", "password", "session", "attributes", "adopt"}
ReplyKinds == {"session", "error", "plain"}

CallIds == 1 .. MaxCalls

\* TPM_RC_AUTH_FAIL for session 1 (0x98E).
AUTH_FAIL == 2446

ASSUME BoundsAreNumbers ==
  /\ MAX_TRANSIENT_RETRIES \in Nat
  /\ MaxCalls \in Nat
  /\ MaxRolls \in Nat

ASSUME HandlesAreApart ==
  /\ RH_NULL \notin Handles
  /\ RS_PW \notin Handles
  /\ RH_NULL # RS_PW

ASSUME AuthValuesAreSequences ==
  /\ AuthOf \in [Objects -> Seq(Secrets)]
  /\ AuthValues \subseteq Seq(Secrets)
  /\ Salts \subseteq Seq(Secrets)

ASSUME SecretsAreNotDerived == Secrets \cap KdfaTerm = {}

ASSUME CodesAreApart == Codes \cap {"StartAuthSession", "FlushContext"} = {}

ASSUME RefusalsAreFinal ==
  /\ NotReadyCodes \subseteq TransientWarnings
  /\ RefusalCodes \subseteq {rc \in Nat : rc # SUCCESS /\ ~is_transient(rc)}

ASSUME ChoicesAreKnown ==
  Uses \subseteq UseKinds /\ Faults \subseteq FaultKinds /\ StaleKinds \subseteq ReplyKinds

StartAuthSession == "StartAuthSession"
FlushContext == "FlushContext"

VARIABLES
  sess,     \* Slots -> Session: the client's Session values
  calls,    \* how many calls have begun; the number of the latest
  ctx,      \* what run and its caller keep on the stack for that call
  pc,       \* where the loop of run is
  attempt,  \* resubmissions so far
  frames,   \* CallIds -> the bytes of each call
  results,  \* CallIds -> what the call returned
  sent,     \* calls whose frame has been handed to the link
  resp,     \* the reply being handed back
  seen,     \* replies the link may deliver again
  tsess,    \* the TPM's session slots
  tctr,     \* the last nonce the TPM drew
  execs     \* ghost: every execution of a command by the TPM

client == << sess, calls, ctx, pc, attempt, frames, results, sent >>
device == << tsess, tctr, execs >>
vars == << sess, calls, ctx, pc, attempt, frames, results, sent, resp, seen, tsess, tctr, execs >>

-----------------------------------------------------------------------------
(* Frames, replies and results. *)

\* names has the Name of the one handle that is authorised; nonce and hmac are
\* the authorisation entry (for a password, hmac is the auth value).  `id' is a
\* ghost: the TPM session the client's Session stands for.
Frame ==
  [mode : {"none", "password", "session"},
   code : Codes \cup {StartAuthSession, FlushContext},
   names : Seq(Objects), handle : Handles \cup {RH_NULL, RS_PW}, nonce : Nat,
   attributes : SUBSET Attributes, hmac : Seq(Secrets \cup HmacTerm), id : Nat]

PlainFrame(code, names, handle, nonce) ==
  [mode |-> "none", code |-> code, names |-> names, handle |-> handle, nonce |-> nonce,
   attributes |-> {}, hmac |-> <<>>, id |-> 0]

NoFrame == PlainFrame(StartAuthSession, <<>>, RH_NULL, 0)

\* A whole reply; "short" has no header, "missized" a wrong size field, "cut"
\* an inner length that overruns.  `by' is a ghost: the execution it answers.
Reply ==
  [tag : {"SESSIONS", "NO_SESSIONS"}, shape : {"whole", "short", "missized", "cut"},
   rc : Nat, handles : Seq(Handles), params : {"intact", "altered"}, nonce_tpm : Nat,
   attributes : SUBSET Attributes, hmac : Seq(HmacTerm), by : Nat]

ErrorReply(rc) ==
  [tag |-> "NO_SESSIONS", shape |-> "whole", rc |-> rc, handles |-> <<>>, params |-> "intact",
   nonce_tpm |-> 0, attributes |-> {}, hmac |-> <<>>, by |-> 0]

NoReply == [ErrorReply(SUCCESS) EXCEPT !.shape = "short"]

ReplyKind(r) ==
  IF r.rc # SUCCESS THEN "error" ELSE IF r.tag = "SESSIONS" THEN "session" ELSE "plain"

Errors == {"Tpm", "Transport", "Malformed", "Protocol", "Usage"}

Result == [kind : {"none", "Ok"} \cup Errors, rc : Nat, tries : Nat,
           params : {"intact", "altered"}, by : Nat]

NoResult == [kind |-> "none", rc |-> 0, tries |-> 0, params |-> "intact", by |-> 0]

NoSlot == "no slot"
NoAlg == "no alg"
NoContext == [slot |-> NoSlot, auth |-> <<>>, alg |-> NoAlg]

FreeSlot == [id |-> 0, nonce |-> 0, key |-> <<>>, bound |-> <<>>]

Dropped == new(RH_NULL, 0, 0, {}, <<>>, <<>>, <<>>)

frame == frames[calls]

-----------------------------------------------------------------------------
Init ==
  /\ sess = [s \in Slots |-> Dropped]
  /\ calls = 0 /\ ctx = NoContext /\ pc = "idle" /\ attempt = 0
  /\ frames = [c \in CallIds |-> NoFrame]
  /\ results = [c \in CallIds |-> NoResult]
  /\ sent = {} /\ resp = NoReply /\ seen = {}
  /\ tsess = [h \in Handles |-> FreeSlot]
  /\ tctr = 0 /\ execs = {}

(* Building the frame: the calls of the client. *)

Begin(f, context) ==
  /\ pc = "idle" /\ calls < MaxCalls
  /\ pc' = "send" /\ calls' = calls + 1 /\ ctx' = context
  /\ frames' = [frames EXCEPT ![calls + 1] = f]
  /\ UNCHANGED << attempt, results, sent, resp, seen, device >>

\* The nonce_caller of a call is fresh: its number.
FreshNonce == calls + 1

StartCall(s, alg) ==
  /\ Begin(PlainFrame(StartAuthSession, <<>>, RH_NULL, FreshNonce),
           [slot |-> s, auth |-> <<>>, alg |-> alg])
  /\ UNCHANGED sess

\* start_auth_session: hash_alg is not looked at before the TPM has answered.
start_auth_session(s, alg) == StartCall(s, alg)

\* start_hmac_session asks for the digest size first, to size the nonce.
start_hmac_session(s, alg) ==
  \/ alg \in HostAlgs /\ StartCall(s, alg)
  \/ /\ alg \notin HostAlgs /\ pc = "idle" /\ calls < MaxCalls
     /\ calls' = calls + 1
     /\ results' = [results EXCEPT ![calls + 1] = [NoResult EXCEPT !.kind = "Usage"]]
     /\ UNCHANGED << sess, ctx, pc, attempt, frames, sent, resp, seen, device >>

\* The Session value outlives the flush: nothing ties it to the handle.
flush_context(s) ==
  /\ sess[s].handle # RH_NULL
  /\ Begin(PlainFrame(FlushContext, <<>>, sess[s].handle, 0), NoContext)
  /\ UNCHANGED sess

\* Auth::None.
run_none(code) == Begin(PlainFrame(code, <<>>, RH_NULL, 0), NoContext) /\ UNCHANGED sess

\* Slip: the handle of the authorisation entry is left zero.
run_password_NoHandle(code, o, auth_value) ==
  /\ Begin([mode |-> "password", code |-> code, names |-> Name(o), handle |-> 0, nonce |-> 0,
            attributes |-> {"CONTINUE_SESSION"}, hmac |-> auth_value, id |-> 0],
           [slot |-> NoSlot, auth |-> auth_value, alg |-> NoAlg])
  /\ UNCHANGED sess

\* Auth::Password.
run_password(code, o, auth_value) ==
  /\ Begin([mode |-> "password", code |-> code, names |-> Name(o), handle |-> RS_PW, nonce |-> 0,
            attributes |-> {"CONTINUE_SESSION"}, hmac |-> auth_value, id |-> 0],
           [slot |-> NoSlot, auth |-> auth_value, alg |-> NoAlg])
  /\ UNCHANGED sess

\* Auth::Session.
run_session(s, code, o, auth_value) ==
  LET t == command_auth(sess[s], FreshNonce)
  IN /\ t.handle # RH_NULL
     /\ Begin([mode |-> "session", code |-> code, names |-> Name(o), handle |-> t.handle,
               nonce |-> t.nonce_caller, attributes |-> t.attributes,
               hmac |-> CommandHmac(t, cp_hash(code, Name(o)), auth_value, Name(o)), id |-> t.id],
              [slot |-> s, auth |-> auth_value, alg |-> NoAlg])
     /\ sess' = [sess EXCEPT ![s] = t]

\* Session::attributes is a public field.
set_attributes(s, attributes) ==
  /\ pc = "idle" /\ sess[s].handle # RH_NULL /\ attributes # sess[s].attributes
  /\ sess' = [sess EXCEPT ![s].attributes = attributes]
  /\ UNCHANGED << calls, ctx, pc, attempt, frames, results, sent, resp, seen, device >>

-----------------------------------------------------------------------------
(* The loop of run. *)

Return(kind, rc, params, by) ==
  /\ results' = [results EXCEPT ![calls] = [kind |-> kind, rc |-> rc, tries |-> attempt + 1,
                                            params |-> params, by |-> by]]
  /\ pc' = "idle" /\ ctx' = NoContext /\ attempt' = 0 /\ resp' = NoReply

\* transport.transmit puts the frame on the link ...
Transmit ==
  /\ pc = "send"
  /\ pc' = "sent" /\ sent' = sent \cup {calls}
  /\ UNCHANGED << sess, calls, ctx, attempt, frames, results, resp, seen, device >>

\* Slip: the transport's error is answered by sending the frame once more.
TransmitFails_Resubmits ==
  /\ "lost" \in Faults /\ pc \in {"send", "sent", "replied"}
  /\ IF attempt < MAX_TRANSIENT_RETRIES
       THEN /\ attempt' = attempt + 1 /\ pc' = "send" /\ resp' = NoReply
            /\ UNCHANGED << ctx, results >>
       ELSE Return("Transport", 0, "intact", 0)
  /\ UNCHANGED << sess, calls, frames, sent, seen, device >>

\* ... or fails before, or while it reads the reply: run returns at once.
TransmitFails ==
  /\ "lost" \in Faults /\ pc \in {"send", "sent", "replied"}
  /\ Return("Transport", 0, "intact", 0)
  /\ UNCHANGED << sess, calls, frames, sent, seen, device >>

VerifiedBySession(r) ==
  ResponseVerifies(sess[ctx.slot], rp_hash(frame.code, r.params), ctx.auth, frame.names, r)

\* parse_response in the order it looks at the bytes.  Bytes without the
\* handle the caller waits for, or cut short, run out under the Reader.
parse_response(r) ==
  CASE r.shape = "short" -> "Malformed"
    [] r.shape # "short" /\ r.rc # SUCCESS -> "Tpm"
    [] r.shape = "missized" /\ r.rc = SUCCESS -> "Protocol"
    [] r.shape = "cut" /\ r.rc = SUCCESS -> "Malformed"
    [] r.shape = "whole" /\ r.rc = SUCCESS ->
         IF r.tag = "SESSIONS" /\ frame.mode = "session" /\ ~VerifiedBySession(r)
           THEN "Protocol" ELSE "Ok"

\* Slip: one resubmission too many.
ShouldRetry_OneMore(r) ==
  parse_response(r) = "Tpm" /\ is_transient(r.rc) /\ attempt <= MAX_TRANSIENT_RETRIES

ShouldRetry(r) ==
  parse_response(r) = "Tpm" /\ is_transient(r.rc) /\ attempt < MAX_TRANSIENT_RETRIES

\* Slip: the resubmission is not counted.
Resubmit_Uncounted ==
  /\ pc = "replied" /\ ShouldRetry(resp)
  /\ pc' = "send" /\ resp' = NoReply
  /\ UNCHANGED << sess, calls, ctx, attempt, frames, results, sent, seen, device >>

Resubmit ==
  /\ pc = "replied" /\ ShouldRetry(resp)
  /\ attempt' = attempt + 1 /\ pc' = "send" /\ resp' = NoReply
  /\ UNCHANGED << sess, calls, ctx, frames, results, sent, seen, device >>

\* Slip: the nonce of a reply is taken before its HMAC is verified.
ReceiveError_AbsorbsFirst ==
  /\ pc = "replied" /\ ~ShouldRetry(resp) /\ parse_response(resp) # "Ok"
  /\ sess' = IF frame.mode = "session" /\ parse_response(resp) = "Protocol" /\ resp.tag = "SESSIONS"
               THEN [sess EXCEPT ![ctx.slot] = absorb(@, resp)] ELSE sess
  /\ Return(parse_response(resp), resp.rc, resp.params, resp.by)
  /\ UNCHANGED << calls, frames, sent, seen, device >>

ReceiveError ==
  /\ pc = "replied" /\ ~ShouldRetry(resp) /\ parse_response(resp) # "Ok"
  /\ Return(parse_response(resp), resp.rc, resp.params, resp.by)
  /\ UNCHANGED << sess, calls, frames, sent, seen, device >>

\* A verified reply moves the session on; another leaves it alone.
SessionAfter(r) ==
  IF frame.mode = "session" /\ r.tag = "SESSIONS"
    THEN [sess EXCEPT ![ctx.slot] = absorb(@, r)]
    ELSE sess

ReceiveOk ==
  /\ pc = "replied" /\ parse_response(resp) = "Ok" /\ frame.code # StartAuthSession
  /\ sess' = SessionAfter(resp)
  /\ Return("Ok", SUCCESS, resp.params, resp.by)
  /\ UNCHANGED << calls, frames, sent, seen, device >>

\* What tpm2b reads from the parameters of a start's reply: the first nonce of
\* the TPM if they are as the TPM sent them, other bytes (0) if they were
\* damaged or are those of another kind of reply.
FirstNonce(r) ==
  IF r.tag = "NO_SESSIONS" /\ r.params = "intact" THEN r.nonce_tpm ELSE 0

\* The ghost id of a Session: the execution that opened its slot of the TPM, 0
\* if the reply is of a kind that opens none.
OpenedBy(r) == IF r.tag = "NO_SESSIONS" THEN r.by ELSE 0

SessionFrom(r, h) ==
  [new(h, FirstNonce(r), frame.nonce, {"CONTINUE_SESSION"}, <<>>, <<>>, <<>>)
     EXCEPT !.id = OpenedBy(r)]

\* Whether the handle and the parameters are as the TPM sent them.
HandedOn(r) == IF r.handles = <<>> THEN "altered" ELSE r.params

\* The rest of start_auth_session: the handle, the nonce and Session::new,
\* which rejects an algorithm crypto does not know.  Nothing vouches for the
\* handle and the nonce: without the handle's own bytes any others are read.
ReceiveStarted(h) ==
  /\ pc = "replied" /\ parse_response(resp) = "Ok" /\ frame.code = StartAuthSession
  /\ resp.handles # <<>> => h = resp.handles[1]
  /\ IF ctx.alg \in HostAlgs
       THEN /\ sess' = [sess EXCEPT ![ctx.slot] = SessionFrom(resp, h)]
            /\ Return("Ok", SUCCESS, HandedOn(resp), resp.by)
       ELSE UNCHANGED sess /\ Return("Usage", SUCCESS, HandedOn(resp), resp.by)
  /\ UNCHANGED << calls, frames, sent, seen, device >>

\* Damaged bytes may also run out before the handle or the nonce ends.
ReceiveStartCut ==
  /\ pc = "replied" /\ parse_response(resp) = "Ok" /\ frame.code = StartAuthSession
  /\ resp.handles = <<>> \/ FirstNonce(resp) = 0
  /\ Return("Malformed", SUCCESS, HandedOn(resp), resp.by)
  /\ UNCHANGED << sess, calls, frames, sent, seen, device >>

-----------------------------------------------------------------------------
(* The TPM (external). *)

TpmKey(h, o) == tsess[h].key \o (IF tsess[h].bound = Name(o) THEN <<>> ELSE AuthOf[o])

Accepts(f) ==
  CASE f.mode = "none" -> TRUE
    [] f.mode = "password" -> f.hmac = AuthOf[f.names[1]]
    [] f.mode = "session" ->
         /\ tsess[f.handle].id # 0
         /\ f.hmac = << hmac_parts(TpmKey(f.handle, f.names[1]), cp_hash(f.code, f.names),
                                   f.nonce, tsess[f.handle].nonce, f.attributes) >>

Executed(c, id) ==
  /\ tctr' = tctr + 1
  /\ execs' = execs \cup {[call |-> c, n |-> tctr + 1, id |-> id]}

StartsSession(c, h) ==
  /\ frames[c].code = StartAuthSession /\ tsess[h].id = 0
  /\ tsess' = [tsess EXCEPT ![h] = [id |-> tctr + 1, nonce |-> tctr + 1, key |-> <<>>, bound |-> <<>>]]
  /\ Executed(c, tctr + 1)

FlushesContext(c, h) ==
  /\ frames[c].code = FlushContext /\ h = frames[c].handle /\ tsess[h].id # 0
  /\ tsess' = [tsess EXCEPT ![h] = FreeSlot]
  /\ Executed(c, tsess[h].id)

RunsPlainCommand(c, h) ==
  /\ frames[c].code \in Codes /\ frames[c].mode # "session" /\ Accepts(frames[c])
  /\ UNCHANGED tsess
  /\ Executed(c, 0)

\* The nonce rolls; without CONTINUE_SESSION the session ends with the command.
RunsSessionCommand(c, h) ==
  /\ frames[c].code \in Codes /\ frames[c].mode = "session" /\ h = frames[c].handle
  /\ Accepts(frames[c])
  /\ tsess' = [tsess EXCEPT ![h] = IF "CONTINUE_SESSION" \in frames[c].attributes
                                     THEN [@ EXCEPT !.nonce = tctr + 1] ELSE FreeSlot]
  /\ Executed(c, tsess[h].id)

Executes(c, h) ==
  /\ tctr < MaxRolls
  /\ \/ StartsSession(c, h)
     \/ FlushesContext(c, h)
     \/ RunsPlainCommand(c, h)
     \/ RunsSessionCommand(c, h)

ReplyTo(c, h) ==
  LET f == frames[c]
      key == TpmKey(h, f.names[1])
  IN [tag |-> IF f.mode = "none" THEN "NO_SESSIONS" ELSE "SESSIONS",
      shape |-> "whole", rc |-> SUCCESS,
      handles |-> IF f.code = StartAuthSession THEN <<h>> ELSE <<>>, params |-> "intact",
      nonce_tpm |-> IF f.mode = "session" \/ f.code = StartAuthSession THEN tctr + 1 ELSE 0,
      attributes |-> f.attributes,
      hmac |-> IF f.mode = "session"
                 THEN << hmac_parts(key, rp_hash(f.code, "intact"), tctr + 1, f.nonce, f.attributes) >>
                 ELSE <<>>,
      by |-> tctr + 1]

Remember(r) ==
  seen' = IF "stale" \in Faults /\ ReplyKind(r) \in StaleKinds THEN seen \cup {r} ELSE seen

Answer(r) ==
  /\ pc' = "replied" /\ resp' = r /\ Remember(r)
  /\ UNCHANGED << sess, calls, ctx, attempt, frames, results, sent >>

TpmExecutes(h) ==
  /\ pc = "sent" /\ Executes(calls, h) /\ Answer(ReplyTo(calls, h))

\* Not ready: the command is not looked at.
TpmNotReady(rc) ==
  /\ pc = "sent" /\ Answer(ErrorReply(rc)) /\ UNCHANGED device

TpmRefuses(rc) ==
  /\ pc = "sent"
  /\ rc = AUTH_FAIL => frame.code \in Codes /\ ~Accepts(frame)
  /\ Answer(ErrorReply(rc)) /\ UNCHANGED device

-----------------------------------------------------------------------------
(* The link and the other clients (external). *)

LateCommand(c, h) ==
  /\ "late" \in Faults /\ c \in sent /\ pc # "replied" /\ Executes(c, h)
  /\ Remember(ReplyTo(c, h))
  /\ UNCHANGED << client, resp >>

StaleReply(r) ==
  /\ "stale" \in Faults /\ pc \in {"sent", "replied"} /\ r \in seen
  /\ pc' = "replied" /\ resp' = r
  /\ UNCHANGED << sess, calls, ctx, attempt, frames, results, sent, seen, device >>

Damages(r) ==
  /\ pc = "replied" /\ resp.shape = "whole" /\ resp.params = "intact"
  /\ resp' = r
  /\ UNCHANGED << client, seen, device >>

\* What becomes of a reply.  The handle and the nonce a start waits for are
\* bytes like any others: damaged, they are not the TPM's.
Damaged(r) ==
  {[r EXCEPT !.shape = shape] : shape \in {"short", "missized"}}
    \cup (IF r.tag = "SESSIONS" \/ r.handles # <<>> THEN {[r EXCEPT !.shape = "cut"]} ELSE {})
    \cup {[r EXCEPT !.params = "altered"], [r EXCEPT !.handles = <<>>]}

Garble(r) == "garble" \in Faults /\ Damages(r)

\* With a tag that is not SESSIONS the session area passes for parameters;
\* with one that is, the parameters are cut where they are taken for lengths.
Retagged(r) ==
  IF r.tag = "SESSIONS"
    THEN [r EXCEPT !.tag = "NO_SESSIONS", !.params = "altered"]
    ELSE [r EXCEPT !.tag = "SESSIONS", !.shape = "cut"]

Retag == "retag" \in Faults /\ Damages(Retagged(resp))

OtherStarts(h) ==
  /\ "shared" \in Faults /\ tctr < MaxRolls /\ tsess[h].id = 0
  /\ tctr' = tctr + 1
  /\ tsess' = [tsess EXCEPT ![h] = [id |-> tctr + 1, nonce |-> tctr + 1, key |-> <<>>, bound |-> <<>>]]
  /\ UNCHANGED << client, resp, seen, execs >>

OtherFlushes(h) ==
  /\ "shared" \in Faults /\ tsess[h].id # 0
  /\ tsess' = [tsess EXCEPT ![h] = FreeSlot]
  /\ UNCHANGED << client, resp, seen, tctr, execs >>

\* The key of a session in the TPM: KDFa of the bind entity's auth value and
\* the salt, unless there is neither entity nor salt.
SessionKeyOf(bind_name, salt, nonce_tpm, nonce_caller) ==
  IF bind_name = <<>> /\ salt = <<>>
    THEN <<>>
    ELSE << kdfa((IF bind_name = <<>> THEN <<>> ELSE AuthOf[bind_name[1]]) \o salt,
                 "ATH", nonce_tpm, nonce_caller) >>

\* Session::new is public: the client may hold a session it started by other
\* means, plain, salted or bound to an object with or without an auth value.
adopt_session(s, h, bind_name, salt) ==
  LET bind_auth == IF bind_name = <<>> THEN <<>> ELSE AuthOf[bind_name[1]]
      t == new(h, tctr + 1, FreshNonce, {"CONTINUE_SESSION"}, bind_auth, bind_name, salt)
  IN /\ pc = "idle" /\ tctr < MaxRolls /\ tsess[h].id = 0
     /\ tctr' = tctr + 1
     /\ tsess' = [tsess EXCEPT ![h] =
          [id |-> tctr + 1, nonce |-> tctr + 1, bound |-> bind_name,
           key |-> SessionKeyOf(bind_name, salt, tctr + 1, FreshNonce)]]
     /\ sess' = [sess EXCEPT ![s] = t]
     /\ UNCHANGED << calls, ctx, pc, attempt, frames, results, sent, resp, seen, execs >>

-----------------------------------------------------------------------------
Client ==
  \/ /\ "start" \in Uses
     /\ \E s \in Slots, alg \in Algs : start_auth_session(s, alg) \/ start_hmac_session(s, alg)
  \/ /\ "flush" \in Uses
     /\ \E s \in Slots : flush_context(s)
  \/ /\ "none" \in Uses
     /\ \E code \in Codes : run_none(code)
  \/ /\ "password" \in Uses
     /\ \E code \in Codes, o \in Objects, a \in AuthValues : run_password(code, o, a)
  \/ /\ "session" \in Uses
     /\ \E s \in Slots, code \in Codes, o \in Objects, a \in AuthValues : run_session(s, code, o, a)
  \/ /\ "attributes" \in Uses
     /\ \E s \in Slots, attributes \in SUBSET Attributes : set_attributes(s, attributes)
  \/ /\ "adopt" \in Uses
     /\ \E s \in Slots, h \in Handles, b \in {<<>>} \cup {Name(o) : o \in Objects}, salt \in Salts :
          adopt_session(s, h, b, salt)

Proceed ==
  \/ Transmit
  \/ Resubmit
  \/ ReceiveError
  \/ ReceiveOk
  \/ \E h \in Handles : ReceiveStarted(h)
  \/ ReceiveStartCut

Loop == Proceed \/ TransmitFails

Tpm ==
  \/ \E h \in Handles : TpmExecutes(h)
  \/ \E rc \in NotReadyCodes : TpmNotReady(rc)
  \/ \E rc \in RefusalCodes \cup {AUTH_FAIL} : TpmRefuses(rc)

Environment ==
  \/ \E c \in sent, h \in Handles : LateCommand(c, h)
  \/ \E r \in seen : StaleReply(r)
  \/ \E r \in Damaged(resp) : Garble(r)
  \/ Retag
  \/ \E h \in Handles : OtherStarts(h) \/ OtherFlushes(h)

Next == Client \/ Loop \/ Tpm \/ Environment

Spec == Init /\ [][Next]_vars

\* The thread in run keeps running, and the TPM answers what it is handed: the
\* code sets no timeout anywhere, so this is what it relies on.  A transport
\* that fails is not among what is assumed.
FairSpec == Spec /\ WF_vars(Proceed) /\ WF_vars(Tpm)

-----------------------------------------------------------------------------
(* Properties. *)

\* The types of all variables.
TypeOK ==
  /\ sess \in [Slots -> SessionOf(Handles \cup {RH_NULL})]
  /\ calls \in 0 .. MaxCalls
  /\ ctx \in [slot : Slots \cup {NoSlot}, auth : Seq(Secrets), alg : Algs \cup {NoAlg}]
  /\ pc \in {"idle", "send", "sent", "replied"}
  /\ attempt \in Nat
  /\ frames \in [CallIds -> Frame]
  /\ results \in [CallIds -> Result]
  /\ sent \subseteq CallIds
  /\ resp \in Reply
  /\ seen \subseteq Reply
  /\ tsess \in [Handles -> [id : Nat, nonce : Nat, key : Key, bound : Seq(Objects)]]
  /\ tctr \in Nat
  /\ execs \subseteq [call : CallIds, n : Nat, id : Nat]

ByKind(kind) == {c \in CallIds : results[c].kind = kind}
BySession == {c \in CallIds : frames[c].mode = "session"}
ExecutionsOf(c) == {e \in execs : e.call = c}
SpentNonce(c) == frames[c].hmac[1].older

\* A session call returns Ok only if the TPM executed that very call, only
\* once whatever was resubmitted or delivered twice, and the parameters handed
\* to the caller are those of that execution: parse_response verifies the
\* response HMAC against the nonce of the call.
OkIsAuthentic ==
  \A c \in ByKind("Ok") \cap BySession :
    /\ results[c].params = "intact"
    /\ \E e \in execs : ExecutionsOf(c) = {e} /\ e.n = results[c].by

\* error.rs says of Error::Protocol that "the TPM's reply did not match the
\* command -- e.g. an unexpected tag": a reply without the session area the
\* command had, or with one it had not, is that error.
UnexpectedTagIsProtocolError ==
  /\ pc = "replied" /\ resp.shape = "whole" /\ resp.rc = SUCCESS
  /\ (resp.tag = "SESSIONS") # (frame.mode # "none")
  => parse_response(resp) = "Protocol"

\* What run returns tells what happened, on a link that may lose a command or
\* its reply but does not repeat them: Ok, the TPM executed the call once,
\* resubmissions notwithstanding; a TPM error, it did not; and a lost call is
\* not executed twice either, because run does not resubmit it.
ResultTellsExecution ==
  \A c \in CallIds :
    /\ results[c].kind = "Ok" => Cardinality(ExecutionsOf(c)) = 1
    /\ results[c].kind = "Tpm" => ExecutionsOf(c) = {}
    /\ Cardinality(ExecutionsOf(c)) <= 1

\* Execution as Dispatch implements it: the link and the retries disappear.
OutcomeOf(r) ==
  CASE r.kind \in {"none", "Ok", "Tpm"} -> r.kind
    [] r.kind = "Usage" /\ r.tries = 0 -> "Rejected"
    [] OTHER -> "Error"

Promise ==
  INSTANCE Execution WITH
    running <- pc # "idle",
    executions <- [c \in CallIds |-> Cardinality(ExecutionsOf(c))],
    outcome <- [c \in CallIds |-> OutcomeOf(results[c])]

\* run implements Execution: each step of the loop, the link and the TPM is a
\* step of that specification or changes nothing in it.  A call is executed
\* before it returns Ok and not at all before it returns a TPM error; one that
\* was rejected for its arguments never reaches the TPM, and no call reaches it
\* after a later one.
RunKeepsItsPromise == Promise!Spec

\* A transient warning reaches the caller only when all the resubmissions are
\* used up, and no call goes out more often than that.
PatienceExhausted ==
  \A c \in CallIds :
    /\ results[c].tries <= MAX_TRANSIENT_RETRIES + 1
    /\ results[c].kind = "Tpm" /\ is_transient(results[c].rc)
         => results[c].tries = MAX_TRANSIENT_RETRIES + 1

\* The session of the TPM that a Session stands for is still in its slot ...
StillThere(s) ==
  /\ sess[s].handle \in Handles /\ sess[s].id # 0
  /\ tsess[sess[s].handle].id = sess[s].id

\* ... and both hold one nonce.
InStep(s) == StillThere(s) /\ tsess[sess[s].handle].nonce = sess[s].nonce_tpm

\* A Session falls out of step with a TPM session that is still there only
\* through a call whose reply never reached verify_response: that call ran on
\* the very nonce the client still holds, and returned an error that does not
\* come from the TPM.  Or it never was in step: the reply to its start, which
\* nothing verifies, was damaged, and the first nonce is not the TPM's.
OutOfStepOnlyAfterLostReply ==
  pc = "idle" =>
    \A s \in Slots :
      StillThere(s) /\ ~InStep(s) =>
        \E e \in execs :
          \/ /\ frames[e.call].mode = "session" /\ frames[e.call].handle = sess[s].handle
             /\ SpentNonce(e.call) = sess[s].nonce_tpm
             /\ results[e.call].kind \in {"Transport", "Protocol", "Malformed"}
          \/ /\ frames[e.call].code = StartAuthSession /\ e.n = sess[s].id
             /\ results[e.call].params = "altered"

\* A session the TPM opened for a start takes one of its few slots until it is
\* flushed: the caller holds it, by its handle, until a later start, or was
\* told by an error that does not come from the TPM that it may have to be
\* looked for.  Usage is such an error: Session::new refuses the algorithm when
\* the session is open already.  What the caller holds is another handle or
\* nonce only if the reply, which has no HMAC, was damaged.
LostSessionsAreReported ==
  \A h \in Handles, e \in execs :
    e.n = tsess[h].id /\ frames[e.call].code = StartAuthSession =>
      \/ \E s \in Slots : sess[s].id = tsess[h].id /\ sess[s].handle = h
      \/ results[e.call].kind \in {"none", "Transport", "Malformed", "Protocol", "Usage"}
      \/ results[e.call].params = "altered"
      \/ \E c \in ByKind("Ok") : c > e.call /\ frames[c].code = StartAuthSession

\* A Session bound to an entity whose auth value is empty, and not salted: the
\* TPM derives a key for it, Session::new does not.
Keyless(s) == sess[s].bound_name # <<>> /\ sess[s].session_key = <<>>

RightAuth(s, o, auth) == auth = AuthOf[o] \/ sess[s].bound_name = Name(o)

\* While a session call is under way the TPM accepts its HMAC exactly when the
\* Session is in step with the TPM's, both have derived one key, and the caller
\* gave the object's auth value, or the session is bound to that object.  A
\* Session kept after its handle was flushed is worth nothing on another
\* session that got the same handle; and a keyless one is worth nothing at all.
AuthDecidesAcceptance ==
  pc \in {"send", "sent"} /\ frame.mode = "session" =>
    (Accepts(frame) <=>
       InStep(ctx.slot) /\ ~Keyless(ctx.slot) /\ RightAuth(ctx.slot, frame.names[1], ctx.auth))

\* session.rs says that authorization is implemented for sessions both unbound
\* and bound, and that the session key is empty for an unsalted, unbound one: a
\* call on a Session in step, with the right auth value, is one the TPM accepts.
RightCallsAreAccepted ==
  pc \in {"send", "sent"} /\ frame.mode = "session"
    /\ InStep(ctx.slot) /\ RightAuth(ctx.slot, frame.names[1], ctx.auth)
  => Accepts(frame)

\* The nonce a Session holds only moves forward: a reply given earlier, to this
\* call or to another, is never absorbed in place of the awaited one.
NonceOnlyAdvances ==
  [][\A s \in Slots : sess'[s].id = sess[s].id => sess'[s].nonce_tpm >= sess[s].nonce_tpm]_vars

\* Every call returns, on the fairness above: the resubmissions end.
CallsReturn == pc # "idle" ~> pc = "idle"
=============================================================================
