--------------------------- MODULE SessionProofs ----------------------------
(***************************************************************************)
(* A Session of the client and the session slot of the TPM it stands for:  *)
(* the nonce of a Session only moves forward, the HMAC of a call decides   *)
(* whether the TPM executes it, a Session falls out of step only through a *)
(* reply that is lost or damaged, and no slot the TPM opened is lost       *)
(* without an error or a damaged reply.                                    *)
(***************************************************************************)
EXTENDS DispatchProofs, SequenceTheorems

-----------------------------------------------------------------------------
(* The nonces move forward.                                                *)

\* The nonce of a reply was drawn by the execution it answers, and the HMAC
\* covers it.
Fresh(r) ==
  /\ r.nonce_tpm <= tctr /\ r.by <= tctr
  /\ r.hmac # <<>> => r.hmac[1].newer = r.by

\* A reply from which start_auth_session reads the session the TPM opened.
Starts(r) ==
  frame.code = StartAuthSession /\ r.rc = SUCCESS /\ r.shape # "short" /\ r.tag = "NO_SESSIONS"

\* What a Session holds was drawn by the TPM, or it stands for no session of
\* the TPM's and has no nonce of it either.
Drawn(t) == t.id <= tctr /\ t.nonce_tpm <= tctr /\ (t.id = 0 => t.nonce_tpm = 0)

SlotsHaveNonces == \A h \in Handles : tsess[h].id # 0 => tsess[h].nonce # 0

\* A session call was made on the nonce its Session holds, and an execution
\* draws a nonce after the one it spends: so a verified reply has a later one.
NewerInv ==
  /\ \A s \in Slots : Drawn(sess[s])
  /\ SlotsHaveNonces
  /\ Fresh(resp)
  /\ \A r \in seen : Fresh(r)
  /\ \A e \in execs : e.call \in BySession => SpentNonce(e.call) # 0 /\ SpentNonce(e.call) < e.n
  /\ pc # "idle" /\ frame.mode = "session" => SpentNonce(calls) = sess[ctx.slot].nonce_tpm
  /\ pc = "replied" /\ Starts(resp) =>
       resp.nonce_tpm = resp.by /\ \A s \in Slots : sess[s].id < resp.by

\* The fields of the empty reply.
LEMMA NoReplyFields ==
  NoReply.hmac = <<>> /\ NoReply.nonce_tpm = 0 /\ NoReply.by = 0 /\ NoReply.shape = "short"
  <1> DEFINE e == ErrorReply(SUCCESS)
  <1>1. e.hmac = <<>> /\ e.nonce_tpm = 0 /\ e.by = 0
    BY DEF ErrorReply
  <1>2. e \in Reply
    BY ReplyTypes DEF SUCCESS
  <1> HIDE DEF e
  <1>3. [e EXCEPT !.shape = "short"].hmac = <<>> /\ [e EXCEPT !.shape = "short"].nonce_tpm = 0
        /\ [e EXCEPT !.shape = "short"].shape = "short" /\ [e EXCEPT !.shape = "short"].by = 0
    BY <1>1, <1>2 DEF Reply
  <1> QED BY <1>3 DEF NoReply, e

\* A Name or an HMAC of one part: what a sequence of one has first.
LEMMA CommandHmacOlder ==
  ASSUME NEW t, NEW hash, NEW a, NEW n
  PROVE  CommandHmac(t, hash, a, n)[1].older = t.nonce_tpm
  BY DEF CommandHmac, hmac_parts

\* The initial states satisfy the invariant.
LEMMA InitNewerInv == Init => NewerInv
  <1> SUFFICES ASSUME Init
               PROVE  NewerInv
    OBVIOUS
  <1>1. Dropped.nonce_tpm = 0 /\ Dropped.id = 0
    BY DEF Dropped, new
  <1>2. FreeSlot.id = 0
    BY DEF FreeSlot
  <1> QED BY <1>1, <1>2, NoReplyFields DEF Init, NewerInv, Fresh, Drawn, SlotsHaveNonces

\* Beginning a call without a session, or with one in a frame over its nonce.
LEMMA BeginNewerInv ==
  ASSUME TypeInv, NewerInv, NonceInv, NEW f \in Frame, NEW context, Begin(f, context),
         \A s \in Slots : sess'[s].nonce_tpm = sess[s].nonce_tpm /\ sess'[s].id = sess[s].id,
         f.mode = "session" => f.hmac[1].older = sess'[context.slot].nonce_tpm
  PROVE  NewerInv'
  <1>0. calls' = calls + 1 /\ calls' \in CallIds /\ calls \in Nat
        /\ (\A c \in CallIds : c # calls + 1 => frames'[c] = frames[c])
        /\ frames'[calls + 1] = f
    <2>1. calls' = calls + 1 /\ calls' \in CallIds
          /\ \A c \in CallIds : c # calls + 1 => frames'[c] = frames[c]
      BY OldFramesStay
    <2>2. calls \in Nat /\ frames \in [CallIds -> Frame]
      BY DEF TypeInv, TypeOK
    <2>3. frames'[calls + 1] = f
      BY <2>1, <2>2 DEF Begin
    <2> QED BY <2>1, <2>2, <2>3
  <1>1. UNCHANGED << resp, seen, tctr, tsess, execs >> /\ pc' = "send" /\ ctx' = context
    BY DEF Begin, device
  <1>2. \A e \in execs : frames'[e.call] = frames[e.call]
    <2>1. execs \subseteq [call : CallIds, n : Nat, id : Nat]
      BY DEF TypeInv, TypeOK
    <2> QED BY <1>0, <2>1 DEF NonceInv, CallIds
  <1>3. \A e \in execs : (e.call \in BySession' <=> e.call \in BySession)
                         /\ SpentNonce(e.call)' = SpentNonce(e.call)
    BY <1>2 DEF BySession, SpentNonce
  <1>4. \A e \in execs' : (e.call \in BySession)' => SpentNonce(e.call)' # 0 /\ SpentNonce(e.call)' < e.n
    BY <1>1, <1>3 DEF NewerInv
  <1>5. frame'.mode = "session" => SpentNonce(calls)' = sess'[ctx'.slot].nonce_tpm
    BY <1>0, <1>1 DEF frame, SpentNonce
  <1>6. (\A s \in Slots : Drawn(sess[s]))' /\ SlotsHaveNonces'
    BY <1>1 DEF NewerInv, Drawn, SlotsHaveNonces
  <1>7. Fresh(resp)' /\ (\A r \in seen : Fresh(r))'
    BY <1>1 DEF NewerInv, Fresh
  <1> QED BY <1>1, <1>4, <1>5, <1>6, <1>7 DEF NewerInv

\* A step that begins no call.
LEMMA StepNewerInv ==
  ASSUME TypeInv, NewerInv, UNCHANGED << calls, frames >>, tctr' \in Nat, tctr <= tctr',
         (\A s \in Slots : Drawn(sess[s]))', SlotsHaveNonces',
         pc' # "idle" => pc # "idle" /\ UNCHANGED << sess, ctx >>,
         \A e \in execs' : \/ e \in execs
                           \/ e.call \in BySession => SpentNonce(e.call) # 0 /\ SpentNonce(e.call) < e.n,
         Fresh(resp)', \A r \in seen' : r \in seen \/ Fresh(r)',
         pc' = "replied" /\ Starts(resp') =>
           resp'.nonce_tpm = resp'.by /\ \A s \in Slots : sess[s].id < resp'.by
  PROVE  NewerInv'
  <1>0. tctr \in Nat /\ seen \subseteq Reply
    BY DEF TypeInv, TypeOK
  <1>1. BySession' = BySession /\ frame' = frame /\ \A c : SpentNonce(c)' = SpentNonce(c)
    BY DEF BySession, frame, SpentNonce
  <1>2. \A r \in seen : Fresh(r) => Fresh(r)'
    BY <1>0 DEF Fresh, Reply
  <1>3. Starts(resp)' <=> Starts(resp')
    BY <1>1 DEF Starts
  <1>4. (\A r \in seen : Fresh(r))'
    BY <1>2 DEF NewerInv
  <1>5. \A e \in execs' : (e.call \in BySession)' => SpentNonce(e.call)' # 0 /\ SpentNonce(e.call)' < e.n
    BY <1>1 DEF NewerInv
  <1>6. pc' # "idle" /\ frame'.mode = "session" => SpentNonce(calls)' = sess'[ctx'.slot].nonce_tpm
    BY <1>1 DEF NewerInv
  <1>7. (pc = "replied" /\ Starts(resp) =>
           resp.nonce_tpm = resp.by /\ \A s \in Slots : sess[s].id < resp.by)'
    BY <1>3
  <1> QED BY <1>4, <1>5, <1>6, <1>7 DEF NewerInv

\* The TPM's answer carries a nonce it draws now, or none.
LEMMA AnswersAreFresh ==
  ASSUME TypeInv, NonceInv, NewerInv, NEW c \in CallIds, NEW h \in Handles, Executes(c, h),
         NEW r, r = ReplyTo(c, h)
  PROVE  /\ tctr' = tctr + 1
         /\ \A e \in execs' : \/ e \in execs
                              \/ e.call \in BySession => SpentNonce(e.call) # 0 /\ SpentNonce(e.call) < e.n
         /\ Fresh(r)' /\ SlotsHaveNonces'
         /\ r.by = tctr + 1 /\ (frames[c].code = StartAuthSession => r.nonce_tpm = tctr + 1)
  <1>0. /\ tctr \in Nat
        /\ tsess \in [Handles -> [id : Nat, nonce : Nat, key : Key, bound : Seq(Objects)]]
    BY DEF TypeInv, TypeOK
  <1>1. PICK i : Executed(c, i)
    BY DEF Executes, StartsSession, FlushesContext, RunsPlainCommand, RunsSessionCommand
  <1> DEFINE e0 == [call |-> c, n |-> tctr + 1, id |-> i]
  <1>2. tctr' = tctr + 1 /\ execs' = execs \cup {e0} /\ e0.call = c /\ e0.n = tctr + 1
    BY <1>1 DEF Executed
  <1> HIDE DEF e0
  <1>3. c \in BySession => SpentNonce(c) # 0 /\ SpentNonce(c) < tctr + 1
    <2>1. c \in BySession => tsess[h].id # 0
      BY SpendsNonce DEF RunsSessionCommand, Accepts, BySession
    <2> QED BY <1>0, <2>1, SpendsNonce DEF NonceInv, NewerInv, SlotsHaveNonces
  <1>4. \A e \in execs' : \/ e \in execs
                          \/ e.call \in BySession => SpentNonce(e.call) # 0 /\ SpentNonce(e.call) < e.n
    BY <1>2, <1>3
  <1>5. r.nonce_tpm \in {0, tctr + 1} /\ r.by = tctr + 1
        /\ (frames[c].code = StartAuthSession => r.nonce_tpm = tctr + 1)
    BY DEF ReplyTo
  <1>6. r.hmac # <<>> => r.hmac[1].newer = tctr + 1
    <2>1. CASE frames[c].mode = "session"
      <3>1. PICK k, hash, older, attrs : r.hmac = << hmac_parts(k, hash, tctr + 1, older, attrs) >>
        BY <2>1 DEF ReplyTo
      <3> QED BY <3>1 DEF hmac_parts
    <2>2. CASE frames[c].mode # "session"
      BY <2>2 DEF ReplyTo
    <2> QED BY <2>1, <2>2
  <1>7. Fresh(r)'
    BY <1>0, <1>2, <1>5, <1>6 DEF Fresh
  <1>8. \A g \in Handles : \/ tsess'[g] = tsess[g] \/ tsess'[g].id = 0 \/ tsess'[g].nonce = tctr + 1
    BY <1>0 DEF Executes, StartsSession, FlushesContext, RunsPlainCommand, RunsSessionCommand, FreeSlot
  <1>9. SlotsHaveNonces'
    <2>1. SlotsHaveNonces /\ tctr + 1 # 0
      BY <1>0 DEF NewerInv
    <2> QED BY <1>8, <2>1 DEF SlotsHaveNonces
  <1> QED BY <1>2, <1>4, <1>5, <1>7, <1>9

\* What the link may hand out late has been given.
LEMMA RememberedIsFresh ==
  ASSUME NEW x, Remember(x), Fresh(x)'
  PROVE  \A r \in seen' : r \in seen \/ Fresh(r)'
  <1>1. \A r \in seen' : r \in seen \/ r = x
    BY DEF Remember
  <1> QED BY <1>1 DEF Fresh

\* What start_auth_session makes of a reply.
LEMMA SessionFromFields ==
  ASSUME NEW r, NEW h, NEW t, t = SessionFrom(r, h)
  PROVE  /\ t.handle = h /\ t.id = OpenedBy(r) /\ t.nonce_tpm = FirstNonce(r)
         /\ t.session_key = <<>> /\ t.bound_name = <<>>
  BY DEF SessionFrom, new, SessionKey

\* The reply from which start_auth_session reads a session is that of one the
\* TPM opened after all the Sessions it holds; from another it reads none.
LEMMA StartedIsNewer ==
  ASSUME TypeInv, NewerInv, pc = "replied", parse_response(resp) = "Ok",
         frame.code = StartAuthSession
  PROVE  \/ /\ Starts(resp) /\ OpenedBy(resp) = resp.by /\ resp.nonce_tpm = resp.by
            /\ FirstNonce(resp) \in {0, resp.by}
            /\ \A s \in Slots : sess[s].id < resp.by
         \/ OpenedBy(resp) = 0 /\ FirstNonce(resp) = 0
  <1>1. resp \in Reply
    BY DEF TypeInv, TypeOK
  <1>2. resp.rc = SUCCESS /\ resp.shape # "short"
    BY <1>1 DEF parse_response, Reply
  <1>3. CASE resp.tag = "NO_SESSIONS"
    <2>1. Starts(resp)
      BY <1>2, <1>3 DEF Starts
    <2>2. resp.nonce_tpm = resp.by /\ \A s \in Slots : sess[s].id < resp.by
      BY <2>1 DEF NewerInv
    <2> QED BY <1>3, <2>1, <2>2 DEF OpenedBy, FirstNonce
  <1>4. CASE resp.tag # "NO_SESSIONS"
    BY <1>4 DEF OpenedBy, FirstNonce
  <1> QED BY <1>3, <1>4

\* A reply that verify_response accepts has the nonce that the execution of the
\* call drew, later than the Session's.
LEMMA VerifiedIsNewer ==
  ASSUME TypeInv, NonceInv, AuthInv, NewerInv,
         pc = "replied", frame.mode = "session", parse_response(resp) = "Ok"
  PROVE  /\ resp.tag = "SESSIONS"
         /\ sess[ctx.slot].nonce_tpm < resp.nonce_tpm
         /\ ctx.slot \in Slots /\ sess[ctx.slot].id # 0
         /\ \E e \in execs : e.call = calls /\ e.n = resp.nonce_tpm
  <1>0. resp \in Reply /\ calls \in CallIds
    BY DEF TypeInv, TypeOK
  <1>1. resp.tag = "SESSIONS" /\ VerifiedBySession(resp)
    <2>1. resp.shape = "whole" /\ resp.rc = SUCCESS
      BY <1>0 DEF parse_response, Reply
    <2>2. resp.tag = "SESSIONS"
      BY <2>1 DEF AuthInv
    <2> QED BY <2>1, <2>2 DEF parse_response
  <1>2. PICK k : resp.hmac = << hmac_parts(k, rp_hash(frame.code, resp.params), resp.nonce_tpm,
                                           sess[ctx.slot].nonce_caller, resp.attributes) >>
    BY <1>1 DEF VerifiedBySession, ResponseVerifies
  <1>3. resp.nonce_tpm = resp.by
    <2>1. resp.hmac # <<>> /\ resp.hmac[1].newer = resp.nonce_tpm
      BY <1>2 DEF hmac_parts
    <2> QED BY <2>1 DEF NewerInv, Fresh
  <1>4. PICK e \in execs : e.call = calls /\ e.n = resp.by
    BY VerifiedIsVouched
  <1>5. SpentNonce(calls) # 0 /\ SpentNonce(calls) < e.n
    BY <1>0, <1>4 DEF NewerInv, BySession, frame
  <1>6. sess[ctx.slot].nonce_tpm < resp.nonce_tpm /\ sess[ctx.slot].nonce_tpm # 0
    BY <1>3, <1>4, <1>5 DEF NewerInv
  <1>7. ctx.slot \in Slots /\ sess[ctx.slot].id # 0
    BY <1>6 DEF AuthInv, NewerInv, Drawn
  <1> QED BY <1>1, <1>3, <1>4, <1>6, <1>7

\* What the steps that change a Session do to its nonce.
LEMMA SessionsAfterReply ==
  ASSUME TypeInv, pc = "replied"
  PROVE  /\ \A s \in Slots : \/ SessionAfter(resp)[s] = sess[s]
                             \/ /\ s = ctx.slot /\ frame.mode = "session"
                                /\ SessionAfter(resp)[s].id = sess[s].id
                                /\ SessionAfter(resp)[s].nonce_tpm = resp.nonce_tpm
         /\ \A h \in Handles : ReceiveStarted(h) => \A s \in Slots :
              \/ sess'[s] = sess[s]
              \/ sess'[s].id = OpenedBy(resp) /\ sess'[s].nonce_tpm = FirstNonce(resp)
  <1>0. sess \in [Slots -> SessionOf(Handles \cup {RH_NULL})]
    BY DEF TypeInv, TypeOK
  <1>1. \A s \in Slots : \/ SessionAfter(resp)[s] = sess[s]
                         \/ /\ s = ctx.slot /\ frame.mode = "session"
                            /\ SessionAfter(resp)[s].id = sess[s].id
                            /\ SessionAfter(resp)[s].nonce_tpm = resp.nonce_tpm
    BY <1>0 DEF SessionAfter, absorb, SessionOf
  <1>2. ASSUME NEW h \in Handles, ReceiveStarted(h), NEW s \in Slots
        PROVE  \/ sess'[s] = sess[s]
               \/ sess'[s].id = OpenedBy(resp) /\ sess'[s].nonce_tpm = FirstNonce(resp)
    <2>1. PICK t : t = SessionFrom(resp, h)
      OBVIOUS
    <2>2. sess' = sess \/ sess' = [sess EXCEPT ![ctx.slot] = t]
      BY <1>2, <2>1 DEF ReceiveStarted
    <2>3. t.id = OpenedBy(resp) /\ t.nonce_tpm = FirstNonce(resp)
      BY <2>1, SessionFromFields
    <2> QED BY <1>0, <2>2, <2>3
  <1> QED BY <1>1, <1>2

\* Every step keeps the invariant.
LEMMA NextNewerInv ==
  ASSUME NoStrayPlainReply, TypeInv, NonceInv, AuthInv, NewerInv, [Next]_vars
  PROVE  NewerInv'
  <1>a. sess \in [Slots -> SessionOf(Handles \cup {RH_NULL})]
    BY DEF TypeInv, TypeOK
  <1>b. calls \in Nat /\ tctr \in Nat /\ resp \in Reply /\ seen \subseteq Reply
    BY DEF TypeInv, TypeOK
  <1>0. /\ calls \in Nat /\ tctr \in Nat /\ resp \in Reply /\ seen \subseteq Reply
        /\ sess \in [Slots -> SessionOf(Handles \cup {RH_NULL})]
    BY <1>a, <1>b
  <1>t. tsess \in [Handles -> [id : Nat, nonce : Nat, key : Key, bound : Seq(Objects)]]
    BY DEF TypeInv, TypeOK
  <1>q. ASSUME UNCHANGED << sess, calls, frames, ctx, pc, resp, seen, execs >>,
               tctr' \in Nat, tctr <= tctr', SlotsHaveNonces'
        PROVE  NewerInv'
    <2>1. (\A s \in Slots : Drawn(sess[s]))'
      BY <1>0, <1>q DEF NewerInv, Drawn, SessionOf
    <2>2. Fresh(resp)'
      BY <1>0, <1>q DEF NewerInv, Fresh, Reply
    <2>3. pc' = "replied" /\ Starts(resp') =>
            resp'.nonce_tpm = resp'.by /\ \A s \in Slots : sess[s].id < resp'.by
      BY <1>q DEF NewerInv
    <2> QED BY <1>q, <2>1, <2>2, <2>3, StepNewerInv
  <1>s. ASSUME pc' = "idle", resp' = resp \/ resp' = NoReply,
               UNCHANGED << calls, frames, seen, execs >>,
               tctr' \in Nat, tctr <= tctr', (\A s \in Slots : Drawn(sess[s]))', SlotsHaveNonces'
        PROVE  NewerInv'
    <2>1. Fresh(resp)'
      BY <1>0, <1>s, NoReplyFields DEF NewerInv, Fresh, Reply
    <2> QED BY <1>s, <2>1, StepNewerInv
  <1>r. ASSUME NEW kind, NEW rc, NEW params, NEW by, Return(kind, rc, params, by),
               UNCHANGED << calls, frames, seen, device >>,
               \A s \in Slots : Drawn(sess'[s])
        PROVE  NewerInv'
    <2>1. UNCHANGED << tsess, tctr, execs >>
      BY <1>r DEF device
    <2>2. SlotsHaveNonces' /\ (\A s \in Slots : Drawn(sess[s]))'
      BY <1>r, <2>1 DEF NewerInv, SlotsHaveNonces, Drawn
    <2> QED BY <1>0, <1>r, <1>s, <2>1, <2>2 DEF Return
  <1>1. CASE UNCHANGED vars
    <2>1. SlotsHaveNonces'
      BY <1>1 DEF vars, NewerInv, SlotsHaveNonces
    <2> QED BY <1>0, <1>1, <1>q, <2>1 DEF vars
  <1>2. CASE Client
    <2>1. ASSUME NEW code, NEW h, NEW n, NEW context,
                 PlainFrame(code, <<>>, h, n) \in Frame,
                 Begin(PlainFrame(code, <<>>, h, n), context), sess' = sess
          PROVE  NewerInv'
      BY <2>1, BeginNewerInv DEF PlainFrame
    <2>2. ASSUME NEW s \in Slots, NEW alg \in Algs, StartCall(s, alg)
          PROVE  NewerInv'
      <3>1. FreshNonce \in Nat
        BY <1>0 DEF FreshNonce
      <3>2. PlainFrame(StartAuthSession, <<>>, RH_NULL, FreshNonce) \in Frame
        BY <3>1 DEF PlainFrame, Frame
      <3> QED BY <2>1, <2>2, <3>2 DEF StartCall
    <2>3. ASSUME NEW s \in Slots, NEW alg \in Algs, start_hmac_session(s, alg)
          PROVE  NewerInv'
      <3>1. CASE StartCall(s, alg)
        BY <2>2, <2>3, <3>1
      <3>2. CASE ~StartCall(s, alg)
        <4>1. pc = "idle" /\ UNCHANGED << sess, frames, resp, seen, tsess, tctr, execs, pc >>
          BY <2>3, <3>2 DEF start_hmac_session, device
        <4>2. \A c : SpentNonce(c)' = SpentNonce(c) /\ BySession' = BySession
          BY <4>1 DEF SpentNonce, BySession
        <4>3. Fresh(resp)' /\ (\A r \in seen : Fresh(r))'
          BY <4>1 DEF NewerInv, Fresh
        <4>4. \A e \in execs' : (e.call \in BySession)' => SpentNonce(e.call)' # 0 /\ SpentNonce(e.call)' < e.n
          BY <4>1, <4>2 DEF NewerInv
        <4>5. (\A q \in Slots : Drawn(sess[q]))' /\ SlotsHaveNonces'
          BY <4>1 DEF NewerInv, Drawn, SlotsHaveNonces
        <4> QED BY <2>3, <4>1, <4>3, <4>4, <4>5 DEF NewerInv
      <3> QED BY <3>1, <3>2
    <2>4. ASSUME NEW s \in Slots, flush_context(s)
          PROVE  NewerInv'
      <3>1. PlainFrame(FlushContext, <<>>, sess[s].handle, 0) \in Frame
        BY <1>0 DEF PlainFrame, Frame, SessionOf
      <3> QED BY <2>1, <2>4, <3>1 DEF flush_context
    <2>5. ASSUME NEW code \in Codes, run_none(code)
          PROVE  NewerInv'
      <3>1. PlainFrame(code, <<>>, RH_NULL, 0) \in Frame
        BY DEF PlainFrame, Frame
      <3> QED BY <2>1, <2>5, <3>1 DEF run_none
    <2>6. ASSUME NEW code \in Codes, NEW o \in Objects, NEW a \in AuthValues, run_password(code, o, a)
          PROVE  NewerInv'
      <3> DEFINE f == [mode |-> "password", code |-> code, names |-> Name(o), handle |-> RS_PW,
                       nonce |-> 0, attributes |-> {"CONTINUE_SESSION"}, hmac |-> a, id |-> 0]
      <3>1. a \in Seq(Secrets)
        BY AuthValuesAreSequences
      <3>2. a \in Seq(Secrets \cup HmacTerm)
        BY <3>1
      <3>3. f \in Frame
        BY <3>2 DEF Frame, Name, Attributes
      <3>4. sess' = sess /\ \E context : Begin(f, context)
        BY <2>6 DEF run_password
      <3> QED BY <3>3, <3>4, BeginNewerInv
    <2>7. ASSUME NEW s \in Slots, NEW code \in Codes, NEW o \in Objects, NEW a \in AuthValues,
                 run_session(s, code, o, a)
          PROVE  NewerInv'
      <3> DEFINE t == command_auth(sess[s], FreshNonce)
                 m == CommandHmac(t, cp_hash(code, Name(o)), a, Name(o))
                 f == [mode |-> "session", code |-> code, names |-> Name(o), handle |-> t.handle,
                       nonce |-> t.nonce_caller, attributes |-> t.attributes, hmac |-> m, id |-> t.id]
                 x == [slot |-> s, auth |-> a, alg |-> NoAlg]
      <3>1. a \in Seq(Secrets)
        BY AuthValuesAreSequences
      <3>2. t \in SessionOf(Handles \cup {RH_NULL}) /\ t.nonce_tpm = sess[s].nonce_tpm
            /\ t.id = sess[s].id
        <4>1. FreshNonce \in Nat
          BY <1>b DEF FreshNonce
        <4>2. sess[s] \in SessionOf(Handles \cup {RH_NULL})
          BY <1>a
        <4>3. t \in SessionOf(Handles \cup {RH_NULL})
          BY <4>1, <4>2 DEF command_auth, SessionOf
        <4>4. t.nonce_tpm = sess[s].nonce_tpm /\ t.id = sess[s].id
          BY <4>1, <4>2 DEF command_auth, SessionOf
        <4> QED BY <4>3, <4>4
      <3>3a. m \in Seq(Secrets \cup HmacTerm)
        BY <3>1, <3>2, CommandHmacType
      <3>3b. m[1].older = t.nonce_tpm
        BY CommandHmacOlder
      <3>3. m \in Seq(Secrets \cup HmacTerm) /\ m[1].older = t.nonce_tpm
        BY <3>3a, <3>3b
      <3>4. Begin(f, x) /\ sess' = [sess EXCEPT ![s] = t]
        BY <2>7 DEF run_session
      <3> HIDE DEF t, m
      <3>5. f \in Frame
        BY <3>2, <3>3 DEF Frame, Name, SessionOf
      <3>6. \A q \in Slots : sess'[q].nonce_tpm = sess[q].nonce_tpm /\ sess'[q].id = sess[q].id
        BY <1>0, <3>2, <3>4
      <3>7. f.hmac[1].older = sess'[x.slot].nonce_tpm
        BY <1>0, <3>2, <3>3, <3>4
      <3> QED BY <3>4, <3>5, <3>6, <3>7, BeginNewerInv
    <2>8. ASSUME NEW s \in Slots, NEW attributes \in SUBSET Attributes, set_attributes(s, attributes)
          PROVE  NewerInv'
      <3>1. \A q \in Slots : sess'[q].nonce_tpm = sess[q].nonce_tpm /\ sess'[q].id = sess[q].id
        BY <1>0, <2>8 DEF set_attributes, SessionOf
      <3>2. UNCHANGED << tsess, tctr >>
        BY <2>8 DEF set_attributes, device
      <3>3. (\A q \in Slots : Drawn(sess[q]))' /\ SlotsHaveNonces'
        BY <3>1, <3>2 DEF NewerInv, Drawn, SlotsHaveNonces
      <3> QED BY <1>0, <1>s, <2>8, <3>2, <3>3 DEF set_attributes, device
    <2>9. ASSUME NEW s \in Slots, NEW h \in Handles, NEW b, NEW salt, adopt_session(s, h, b, salt)
          PROVE  NewerInv'
      <3>1. /\ \A q \in Slots : sess'[q] = sess[q] \/ (sess'[q].nonce_tpm = tctr + 1 /\ sess'[q].id = tctr + 1)
            /\ tctr' = tctr + 1
        BY <1>0, <2>9 DEF adopt_session, new
      <3>2. (\A q \in Slots : Drawn(sess[q]))'
        <4>1. \A q \in Slots : Drawn(sess[q]) /\ sess[q].nonce_tpm \in Nat /\ sess[q].id \in Nat
          BY <1>0 DEF NewerInv, SessionOf
        <4> QED BY <1>0, <3>1, <4>1 DEF Drawn
      <3>3. \A g \in Handles : tsess'[g] = tsess[g] \/ tsess'[g].nonce = tctr + 1
        BY <1>t, <2>9 DEF adopt_session
      <3>4. SlotsHaveNonces'
        BY <1>0, <3>3 DEF NewerInv, SlotsHaveNonces
      <3> QED BY <1>0, <1>s, <2>9, <3>1, <3>2, <3>4 DEF adopt_session
    <2> QED BY <1>2, <2>2, <2>3, <2>4, <2>5, <2>6, <2>7, <2>8, <2>9 DEF Client, start_auth_session
  <1>3. CASE Loop
    <2>1. ASSUME pc # "idle", pc' # "replied", pc' # "idle", resp' = resp \/ resp' = NoReply,
                 UNCHANGED << sess, calls, frames, ctx, seen, tsess, tctr, execs >>
          PROVE  NewerInv'
      <3>1. Fresh(resp)' /\ (\A s \in Slots : Drawn(sess[s]))' /\ SlotsHaveNonces'
        BY <1>0, <2>1, NoReplyFields DEF NewerInv, Fresh, Drawn, SlotsHaveNonces
      <3> QED BY <1>0, <2>1, <3>1, StepNewerInv
    <2>2. CASE Transmit
      BY <2>1, <2>2 DEF Transmit, device
    <2>3. CASE TransmitFails
      BY <2>3, <1>r DEF TransmitFails, NewerInv
    <2>4. CASE Resubmit
      BY <2>1, <2>4 DEF Resubmit, device
    <2>5. CASE ReceiveError
      BY <2>5, <1>r DEF ReceiveError, NewerInv
    <2>6. CASE ReceiveOk
      <3>1. pc = "replied" /\ parse_response(resp) = "Ok" /\ sess' = SessionAfter(resp)
        BY <2>6 DEF ReceiveOk
      <3>2. frame.mode = "session" => sess[ctx.slot].id # 0
        BY <3>1, VerifiedIsNewer
      <3>3. \A s \in Slots : Drawn(sess'[s])
        BY <3>1, <3>2, SessionsAfterReply DEF NewerInv, Fresh, Drawn
      <3> QED BY <2>6, <3>3, <1>r DEF ReceiveOk
    <2>7. ASSUME NEW h \in Handles, ReceiveStarted(h)
          PROVE  NewerInv'
      <3>1. pc = "replied" /\ parse_response(resp) = "Ok" /\ frame.code = StartAuthSession
        BY <2>7 DEF ReceiveStarted
      <3>2. \A s \in Slots : \/ sess'[s] = sess[s]
                             \/ sess'[s].id = OpenedBy(resp) /\ sess'[s].nonce_tpm = FirstNonce(resp)
        BY <2>7, <3>1, SessionsAfterReply
      <3>3. resp.by \in Nat /\ resp.by <= tctr /\ \A s \in Slots : sess[s].id \in Nat
        BY <1>0 DEF NewerInv, Fresh, Reply, SessionOf
      <3>4. \A s \in Slots : Drawn(sess'[s])
        BY <1>0, <3>1, <3>2, <3>3, StartedIsNewer DEF NewerInv, Drawn
      <3> QED BY <2>7, <3>4, <1>r DEF ReceiveStarted
    <2>8. CASE ReceiveStartCut
      BY <2>8, <1>r DEF ReceiveStartCut, NewerInv
    <2> QED BY <1>3, <2>2, <2>3, <2>4, <2>5, <2>6, <2>7, <2>8 DEF Loop, Proceed
  <1>4. CASE Tpm
    <2>1. ASSUME NEW h \in Handles, TpmExecutes(h)
          PROVE  NewerInv'
      <3>0. PICK x : x = ReplyTo(calls, h)
        OBVIOUS
      <3>1. /\ calls \in CallIds /\ Executes(calls, h) /\ Answer(x) /\ pc = "sent"
        BY <2>1, <3>0 DEF TpmExecutes, TypeInv
      <3>2. /\ tctr' = tctr + 1
            /\ \A e \in execs' : \/ e \in execs
                                 \/ e.call \in BySession => SpentNonce(e.call) # 0 /\ SpentNonce(e.call) < e.n
            /\ Fresh(x)' /\ SlotsHaveNonces'
            /\ x.by = tctr + 1 /\ (frames[calls].code = StartAuthSession => x.nonce_tpm = tctr + 1)
        BY <3>0, <3>1, AnswersAreFresh
      <3>3. UNCHANGED << sess, calls, frames, ctx >> /\ resp' = x /\ Remember(x) /\ pc' = "replied"
        BY <3>1 DEF Answer
      <3>4. Fresh(resp)' /\ Fresh(x)'
        BY <3>2, <3>3 DEF Fresh
      <3>5. \A r \in seen' : r \in seen \/ Fresh(r)'
        BY <3>3, <3>4, RememberedIsFresh
      <3>6. \A s \in Slots : Drawn(sess[s]) /\ sess[s].nonce_tpm \in Nat /\ sess[s].id \in Nat
        BY <1>0 DEF NewerInv, SessionOf
      <3>7. (\A s \in Slots : Drawn(sess[s]))' /\ \A s \in Slots : sess[s].id < tctr + 1
        BY <1>0, <3>2, <3>3, <3>6 DEF Drawn
      <3>8. pc' = "replied" /\ Starts(resp') =>
              resp'.nonce_tpm = resp'.by /\ \A s \in Slots : sess[s].id < resp'.by
        BY <3>2, <3>3, <3>7 DEF Starts, frame
      <3> QED BY <1>0, <3>1, <3>2, <3>3, <3>4, <3>5, <3>7, <3>8, StepNewerInv
    <2>2. ASSUME NEW rc, rc # SUCCESS, pc = "sent", Answer(ErrorReply(rc)), UNCHANGED device
          PROVE  NewerInv'
      <3> DEFINE x == ErrorReply(rc)
      <3>1. x.hmac = <<>> /\ x.rc # SUCCESS /\ x.nonce_tpm = 0 /\ x.by = 0
        BY <2>2 DEF ErrorReply
      <3> HIDE DEF x
      <3>2. /\ UNCHANGED << sess, calls, frames, ctx, execs, tsess, tctr >> /\ resp' = x /\ Remember(x)
            /\ pc' = "replied"
        BY <2>2 DEF Answer, device, x
      <3>3. Fresh(resp)' /\ Fresh(x)'
        BY <1>0, <3>1, <3>2 DEF Fresh
      <3>4. \A r \in seen' : r \in seen \/ Fresh(r)'
        BY <3>2, <3>3, RememberedIsFresh
      <3>5. (\A s \in Slots : Drawn(sess[s]))' /\ SlotsHaveNonces'
        BY <3>2 DEF NewerInv, Drawn, SlotsHaveNonces
      <3>6. ~Starts(resp')
        BY <3>1, <3>2 DEF Starts
      <3> QED BY <1>0, <2>2, <3>2, <3>3, <3>4, <3>5, <3>6, StepNewerInv
    <2>3. ASSUME NEW rc \in NotReadyCodes, TpmNotReady(rc)
          PROVE  NewerInv'
      BY <2>2, <2>3, RefusalsAreFinal DEF TpmNotReady, TransientWarnings, SUCCESS
    <2>4. ASSUME NEW rc \in RefusalCodes \cup {AUTH_FAIL}, TpmRefuses(rc)
          PROVE  NewerInv'
      BY <2>2, <2>4, RefusalsAreFinal DEF TpmRefuses, AUTH_FAIL, SUCCESS
    <2> QED BY <1>4, <2>1, <2>3, <2>4 DEF Tpm
  <1>5. CASE Environment
    <2>1. ASSUME NEW c \in sent, NEW h \in Handles, LateCommand(c, h)
          PROVE  NewerInv'
      <3>0. PICK x : x = ReplyTo(c, h)
        OBVIOUS
      <3>1. c \in CallIds /\ Executes(c, h) /\ pc # "replied" /\ Remember(x) /\ UNCHANGED << client, resp >>
        BY <2>1, <3>0 DEF LateCommand, TypeInv, TypeOK
      <3>2. /\ tctr' = tctr + 1
            /\ \A e \in execs' : \/ e \in execs
                                 \/ e.call \in BySession => SpentNonce(e.call) # 0 /\ SpentNonce(e.call) < e.n
            /\ Fresh(x)' /\ SlotsHaveNonces'
        BY <3>0, <3>1, AnswersAreFresh
      <3>4. \A r \in seen' : r \in seen \/ Fresh(r)'
        BY <3>1, <3>2, RememberedIsFresh
      <3>5. UNCHANGED << sess, calls, frames, ctx, pc, resp >>
        BY <3>1 DEF client
      <3>6. Fresh(resp)' /\ (\A s \in Slots : Drawn(sess[s]))'
        BY <1>0, <3>2, <3>5 DEF NewerInv, Fresh, Drawn, Reply, SessionOf
      <3> QED BY <1>0, <3>1, <3>2, <3>4, <3>5, <3>6, StepNewerInv
    <2>2. ASSUME NEW r \in seen, StaleReply(r)
          PROVE  NewerInv'
      <3>1. /\ pc # "idle" /\ resp' = r
            /\ UNCHANGED << sess, calls, frames, ctx, seen, tsess, tctr, execs >>
        BY <2>2 DEF StaleReply, device
      <3>2. Fresh(r) /\ (r.rc = SUCCESS => r.tag = "SESSIONS")
        BY DEF NewerInv, AuthInv
      <3>3. Fresh(resp)' /\ (\A s \in Slots : Drawn(sess[s]))' /\ SlotsHaveNonces'
        BY <3>1, <3>2 DEF Fresh, NewerInv, Drawn, SlotsHaveNonces
      <3>4. ~Starts(resp')
        BY <3>1, <3>2 DEF Starts
      <3> QED BY <1>0, <3>1, <3>3, <3>4, StepNewerInv
    <2>3. ASSUME NEW r, (r \in Damaged(resp) /\ Garble(r)) \/ (r = Retagged(resp) /\ Retag)
          PROVE  NewerInv'
      <3>0. r \in Damaged(resp) /\ Damages(r)
        BY <2>3, DamagedReply DEF NoStrayPlainReply
      <3>1. /\ pc = "replied" /\ pc' = pc /\ resp' = r /\ resp.shape = "whole"
            /\ UNCHANGED << sess, calls, frames, ctx, seen, tsess, tctr, execs >>
        BY <3>0 DEF Damages, client, device
      <3>2. /\ r.hmac = resp.hmac /\ r.by = resp.by /\ r.rc = resp.rc /\ r.tag = resp.tag
            /\ r.nonce_tpm = resp.nonce_tpm
        BY <1>0, <3>0, DamagedType
      <3>3. Fresh(resp)' /\ (\A s \in Slots : Drawn(sess[s]))' /\ SlotsHaveNonces'
        BY <3>1, <3>2 DEF NewerInv, Fresh, Drawn, SlotsHaveNonces
      <3>4. pc' = "replied" /\ Starts(resp') =>
              resp'.nonce_tpm = resp'.by /\ \A s \in Slots : sess[s].id < resp'.by
        BY <3>1, <3>2 DEF NewerInv, Starts
      <3> QED BY <1>0, <3>1, <3>3, <3>4, StepNewerInv
    <2>4. ASSUME NEW h \in Handles, OtherStarts(h) \/ OtherFlushes(h)
          PROVE  NewerInv'
      <3>1. /\ UNCHANGED << sess, calls, frames, ctx, pc, resp, seen, execs >>
            /\ tctr' \in {tctr, tctr + 1}
        BY <2>4 DEF OtherStarts, OtherFlushes, client
      <3>2. \A g \in Handles : tsess'[g] = tsess[g] \/ tsess'[g].id = 0 \/ tsess'[g].nonce = tctr + 1
        BY <1>t, <2>4 DEF OtherStarts, OtherFlushes, FreeSlot
      <3>3. SlotsHaveNonces'
        BY <1>0, <3>2 DEF NewerInv, SlotsHaveNonces
      <3> QED BY <1>0, <1>q, <3>1, <3>3
    <2> QED BY <1>5, <2>1, <2>2, <2>3, <2>4 DEF Environment, Garble, Retag
  <1> QED BY <1>1, <1>2, <1>3, <1>4, <1>5 DEF Next

\* No step leaves an earlier nonce in a Session: what replaces one without a
\* later nonce is another Session.
LEMMA NextAdvances ==
  ASSUME TypeInv, NonceInv, AuthInv, NewerInv, [Next]_vars
  PROVE  \A s \in Slots : sess'[s].id = sess[s].id => sess'[s].nonce_tpm >= sess[s].nonce_tpm
  <1>0. /\ sess \in [Slots -> SessionOf(Handles \cup {RH_NULL})]
        /\ tctr \in Nat
    BY DEF TypeInv, TypeOK
  <1>1. \A s \in Slots : sess[s].nonce_tpm \in Nat /\ sess[s].id \in Nat /\ Drawn(sess[s])
    BY <1>0 DEF NewerInv, SessionOf
  <1>2. CASE \A s \in Slots : sess'[s].nonce_tpm = sess[s].nonce_tpm
    BY <1>1, <1>2
  <1>3. ASSUME NEW s \in Slots, NEW code, NEW o, NEW a, run_session(s, code, o, a)
        PROVE  \A q \in Slots : sess'[q].nonce_tpm = sess[q].nonce_tpm
    <2>1. sess' = [sess EXCEPT ![s] = [sess[s] EXCEPT !.nonce_caller = FreshNonce]]
      BY <1>3 DEF run_session, command_auth
    <2> QED BY <1>0, <2>1 DEF SessionOf
  <1>4. ASSUME NEW s \in Slots, NEW attributes, set_attributes(s, attributes)
        PROVE  \A q \in Slots : sess'[q].nonce_tpm = sess[q].nonce_tpm
    BY <1>0, <1>4 DEF set_attributes, SessionOf
  <1>5. ASSUME NEW s \in Slots, NEW h, NEW b, NEW salt, adopt_session(s, h, b, salt)
        PROVE  \A q \in Slots : sess'[q] = sess[q] \/ sess'[q].nonce_tpm = tctr + 1
    BY <1>0, <1>5 DEF adopt_session, new
  <1>6. CASE ReceiveOk
    <2>1. pc = "replied" /\ parse_response(resp) = "Ok" /\ sess' = SessionAfter(resp)
      BY <1>6 DEF ReceiveOk
    <2>2. frame.mode = "session" => sess[ctx.slot].nonce_tpm < resp.nonce_tpm
      BY <2>1, VerifiedIsNewer
    <2>3. \A q \in Slots : \/ SessionAfter(resp)[q] = sess[q]
                           \/ /\ q = ctx.slot /\ frame.mode = "session"
                              /\ SessionAfter(resp)[q].nonce_tpm = resp.nonce_tpm
      BY <2>1, SessionsAfterReply
    <2>4. resp.nonce_tpm \in Nat
      BY DEF TypeInv, TypeOK, Reply
    <2> QED BY <1>1, <2>1, <2>2, <2>3, <2>4
  <1>7. ASSUME NEW h \in Handles, ReceiveStarted(h)
        PROVE  \A q \in Slots : sess'[q].id = sess[q].id => sess'[q].nonce_tpm >= sess[q].nonce_tpm
    <2>1. pc = "replied" /\ parse_response(resp) = "Ok" /\ frame.code = StartAuthSession
      BY <1>7 DEF ReceiveStarted
    <2>2. \A q \in Slots : \/ sess'[q] = sess[q]
                           \/ sess'[q].id = OpenedBy(resp) /\ sess'[q].nonce_tpm = FirstNonce(resp)
      BY <1>7, <2>1, SessionsAfterReply
    <2>3. resp.by \in Nat
      BY DEF TypeInv, TypeOK, Reply
    <2>4. \A q \in Slots : sess[q].id = OpenedBy(resp) => sess[q].nonce_tpm = 0 /\ FirstNonce(resp) = 0
      BY <1>1, <2>1, <2>3, StartedIsNewer DEF Drawn
    <2> QED BY <1>1, <2>2, <2>4
  <1>8. CASE Client
    <2>1. \/ sess' = sess
          \/ \E s \in Slots, code \in Codes, o \in Objects, a \in AuthValues : run_session(s, code, o, a)
          \/ \E s \in Slots, attributes \in SUBSET Attributes : set_attributes(s, attributes)
          \/ \E s \in Slots, h \in Handles, b \in {<<>>} \cup {Name(o) : o \in Objects}, salt \in Salts :
               adopt_session(s, h, b, salt)
      BY <1>8 DEF Client, start_auth_session, start_hmac_session, StartCall, flush_context,
                  run_none, run_password
    <2> QED BY <1>0, <1>1, <1>2, <1>3, <1>4, <1>5, <2>1 DEF Drawn
  <1>9. CASE Loop
    <2>1. sess' = sess \/ ReceiveOk \/ \E h \in Handles : ReceiveStarted(h)
      BY <1>9 DEF Loop, Proceed, Transmit, TransmitFails, Resubmit, ReceiveError, ReceiveStartCut
    <2> QED BY <1>2, <1>6, <1>7, <2>1
  <1>10. CASE Tpm \/ Environment \/ UNCHANGED vars
    <2>1. sess' = sess
      BY <1>10 DEF Tpm, TpmExecutes, TpmNotReady, TpmRefuses, Answer, Environment, LateCommand,
                   StaleReply, Garble, Retag, Damages, OtherStarts, OtherFlushes, client, vars
    <2> QED BY <1>2, <2>1
  <1> QED BY <1>8, <1>9, <1>10 DEF Next

\* The nonce a Session holds only moves forward (NonceOnlyAdvances): neither a
\* resubmission nor an old reply makes verify_response absorb an earlier one.
\* Replies to StartAuthSession have no HMAC, so the theorem needs that no old
\* one answers a new start: it would bring back the first nonce of a session
\* that has moved on.
THEOREM NoncesAdvance ==
  ASSUME NoStrayPlainReply
  PROVE  Spec => NonceOnlyAdvances
  <1>1. TypeInv /\ NonceInv /\ AuthInv /\ [Next]_vars => AuthInv'
    BY NextAuthInv
  <1>2. TypeInv /\ NonceInv /\ AuthInv /\ NewerInv /\ [Next]_vars => NewerInv'
    BY NextNewerInv
  <1>3. TypeInv /\ NonceInv /\ AuthInv /\ NewerInv /\ [Next]_vars
          => [\A s \in Slots : sess'[s].id = sess[s].id => sess'[s].nonce_tpm >= sess[s].nonce_tpm]_vars
    BY NextAdvances
  <1> QED
    BY InitNonceInv, InitAuthInv, InitNewerInv, NextNonceInv, TypeInvariant, <1>1, <1>2, <1>3, PTL
    DEF Spec, NonceOnlyAdvances

-----------------------------------------------------------------------------
(* The invariant.  A slot is known by the nonce it was opened with, its    *)
(* id; nonces are drawn once, so a Session that holds a slot's id or its   *)
(* nonce stands for that slot and has its key, if it has derived one.      *)

\* The slot of a session that has just been opened, unsalted and unbound.
FirstSlot(n) == [id |-> n, nonce |-> n, key |-> <<>>, bound |-> <<>>]

InUse(h) == tsess[h].id # 0

\* The key of a slot and of the Session that stands for it: the same, unless
\* the Session is a keyless one, for which the TPM alone has derived a key.
KeysAgree(slot, t) ==
  /\ slot.bound = t.bound_name
  /\ IF t.bound_name # <<>> /\ t.session_key = <<>>
       THEN \E k \in KdfaTerm : slot.key = <<k>>
       ELSE slot.key = t.session_key

SameSession ==
  /\ \A h \in Handles : tsess[h].id <= tsess[h].nonce
  /\ \A h \in Handles, s \in Slots : InUse(h) /\ tsess[h].id = sess[s].id => KeysAgree(tsess[h], sess[s])
  /\ \A h \in Handles, s \in Slots : InUse(h) /\ tsess[h].nonce = sess[s].nonce_tpm =>
       tsess[h].id = sess[s].id
  /\ \A h \in Handles, e \in execs : InUse(h) /\ tsess[h].nonce = e.n => tsess[h].id = e.id

\* The authorisation entry command_auth makes for a Session.
EntryOf(f, t, auth) ==
  /\ t.handle \in Handles /\ f.handle = t.handle /\ f.attributes = t.attributes
  /\ f.hmac = CommandHmac(t, cp_hash(f.code, f.names), auth, f.names)

\* The slot that the nonce of a start's reply opened, if it is still there, is
\* as the TPM opened it.
Awaited(n) ==
  \A h \in Handles : InUse(h) /\ n \in {tsess[h].id, tsess[h].nonce} => tsess[h] = FirstSlot(n)

SyncInv ==
  /\ SameSession
  /\ pc # "idle" /\ frame.mode = "session" =>
       /\ EntryOf(frame, sess[ctx.slot], ctx.auth)
       /\ \A e \in execs : e.call = calls => e.id = sess[ctx.slot].id
  /\ pc = "replied" /\ Starts(resp) => Awaited(resp.by)

\* What holding a Session means here, its attributes and nonce_caller apart.
KeepsSessions ==
  \A s \in Slots : /\ sess'[s].handle = sess[s].handle /\ sess'[s].id = sess[s].id
                   /\ sess'[s].nonce_tpm = sess[s].nonce_tpm
                   /\ sess'[s].session_key = sess[s].session_key
                   /\ sess'[s].bound_name = sess[s].bound_name

\* The call in progress stays in progress.
CallGoesOn == pc # "idle" /\ UNCHANGED << sess, calls, ctx, frames >>

\* The initial states satisfy the invariant.
LEMMA InitSyncInv == Init => SyncInv
  <1> SUFFICES ASSUME Init
               PROVE  SyncInv
    OBVIOUS
  <1>1. FreeSlot.id = 0 /\ FreeSlot.nonce = 0
    BY DEF FreeSlot
  <1> QED BY <1>1 DEF Init, SyncInv, SameSession, InUse

\* A step that leaves the slots, and of the Sessions all but attributes and
\* nonce_caller, as they are.
LEMMA KeptSameSession ==
  ASSUME TypeInv, SyncInv, KeepsSessions, UNCHANGED << tsess, execs >>
  PROVE  SameSession'
  <1>1. \A h : InUse(h)' <=> InUse(h)
    BY DEF InUse
  <1>2. \A h \in Handles, s \in Slots : KeysAgree(tsess[h], sess[s]) => KeysAgree(tsess[h], sess[s])'
    BY DEF KeepsSessions, KeysAgree
  <1> QED BY <1>1, <1>2 DEF KeepsSessions, SyncInv, SameSession

LEMMA BeginSyncInv ==
  ASSUME TypeInv, NonceInv, SyncInv, NEW f \in Frame, NEW context, Begin(f, context), KeepsSessions,
         f.mode = "session" => EntryOf(f, sess'[context.slot], context.auth)
  PROVE  SyncInv'
  <1>0. calls' = calls + 1 /\ frames'[calls + 1] = f /\ calls \in Nat
    <2>1. calls' = calls + 1 /\ calls' \in CallIds
      BY OldFramesStay
    <2>2. calls \in Nat /\ frames \in [CallIds -> Frame]
      BY DEF TypeInv, TypeOK
    <2> QED BY <2>1, <2>2 DEF Begin
  <1>1. UNCHANGED << tsess, execs >> /\ pc' = "send" /\ ctx' = context
    BY DEF Begin, device
  <1>2. SameSession'
    BY <1>1, KeptSameSession
  <1>3. \A e \in execs' : e.call # calls'
    <2>1. execs \subseteq [call : CallIds, n : Nat, id : Nat]
      BY DEF TypeInv, TypeOK
    <2> QED BY <1>0, <1>1, <2>1 DEF NonceInv, CallIds
  <1>4. frame' = f
    BY <1>0 DEF frame
  <1>5. frame'.mode = "session" => EntryOf(frame', sess'[ctx'.slot], ctx'.auth)
    BY <1>1, <1>4
  <1>6. frame'.mode = "session" => EntryOf(frame, sess[ctx.slot], ctx.auth)'
    BY <1>5 DEF EntryOf
  <1> QED BY <1>1, <1>2, <1>3, <1>6 DEF SyncInv

\* A step that leaves them as they are and begins no call.
LEMMA QuietSyncInv ==
  ASSUME TypeInv, SyncInv, KeepsSessions, UNCHANGED << tsess, execs >>,
         pc' # "idle" => CallGoesOn,
         pc' = "replied" /\ Starts(resp') =>
           pc = "replied" /\ Starts(resp) /\ resp'.by = resp.by
  PROVE  SyncInv'
  <1>1. SameSession'
    BY KeptSameSession
  <1>2. CASE pc' = "idle"
    BY <1>1, <1>2 DEF SyncInv
  <1>3. CASE pc' # "idle"
    <2>1. UNCHANGED << sess, calls, ctx, frames, frame >> /\ pc # "idle"
      BY <1>3 DEF CallGoesOn, frame
    <2>2. EntryOf(frame, sess[ctx.slot], ctx.auth)' <=> EntryOf(frame, sess[ctx.slot], ctx.auth)
      BY <2>1 DEF EntryOf
    <2>3. (\A e \in execs : e.call = calls => e.id = sess[ctx.slot].id)' <=>
            \A e \in execs : e.call = calls => e.id = sess[ctx.slot].id
      BY <2>1
    <2>4. Starts(resp)' <=> Starts(resp')
      BY <2>1 DEF Starts
    <2>5. pc' = "replied" /\ Starts(resp)' => Awaited(resp.by)'
      BY <2>4 DEF SyncInv, Awaited, InUse
    <2> QED BY <1>1, <2>1, <2>2, <2>3, <2>5 DEF SyncInv
  <1> QED BY <1>2, <1>3

\* What an execution does to the slot it is on.
SlotAfter(c, h, id) ==
  \/ /\ frames[c].code = StartAuthSession /\ c \notin BySession
     /\ ~InUse(h) /\ tsess'[h] = FirstSlot(tctr + 1) /\ id = tctr + 1
  \/ tsess'[h] = FreeSlot /\ c \notin BySession
  \/ tsess'[h] = tsess[h] /\ c \notin BySession
  \/ /\ c \in BySession /\ InUse(h) /\ h = frames[c].handle
     /\ id = tsess[h].id /\ SpentNonce(c) = tsess[h].nonce
     /\ tsess'[h] \in {FreeSlot, [tsess[h] EXCEPT !.nonce = tctr + 1]}

LEMMA ExecutionOnSlot ==
  ASSUME TypeInv, NEW c \in CallIds, NEW h \in Handles, Executes(c, h)
  PROVE  /\ \A g \in Handles : g # h => tsess'[g] = tsess[g]
         /\ tctr' = tctr + 1
         /\ frames[c].code = StartAuthSession => tsess'[h] = FirstSlot(tctr + 1)
         /\ \E id \in Nat : /\ execs' = execs \cup {[call |-> c, n |-> tctr + 1, id |-> id]}
                            /\ SlotAfter(c, h, id)
  <1>0. /\ tsess \in [Handles -> [id : Nat, nonce : Nat, key : Key, bound : Seq(Objects)]]
        /\ tctr \in Nat
    BY DEF TypeInv, TypeOK
  <1>1. StartAuthSession \notin Codes /\ FlushContext \notin Codes /\ StartAuthSession # FlushContext
    BY CodesAreApart DEF StartAuthSession, FlushContext
  <1>2. c \in BySession => frames[c].code \in Codes
    BY DEF BySession, TypeInv
  <1>3. CASE StartsSession(c, h)
    <2>1. SlotAfter(c, h, tctr + 1)
      BY <1>0, <1>1, <1>2, <1>3 DEF StartsSession, SlotAfter, FirstSlot, InUse
    <2>2. tsess' = [tsess EXCEPT ![h] = FirstSlot(tctr + 1)]
      BY <1>3 DEF StartsSession, FirstSlot
    <2>3. /\ \A g \in Handles : g # h => tsess'[g] = tsess[g]
          /\ tsess'[h] = FirstSlot(tctr + 1)
      BY <1>0, <2>2
    <2>4. tctr' = tctr + 1 /\ execs' = execs \cup {[call |-> c, n |-> tctr + 1, id |-> tctr + 1]}
      BY <1>3 DEF StartsSession, Executed
    <2>5. tctr + 1 \in Nat
      BY <1>0
    <2> QED BY <2>1, <2>3, <2>4, <2>5
  <1>4. CASE FlushesContext(c, h)
    <2>1. SlotAfter(c, h, tsess[h].id)
      BY <1>0, <1>1, <1>2, <1>4 DEF FlushesContext, SlotAfter
    <2> QED BY <1>0, <1>1, <1>4, <2>1 DEF FlushesContext, Executed
  <1>5. CASE RunsPlainCommand(c, h)
    <2>1. SlotAfter(c, h, 0)
      BY <1>5 DEF RunsPlainCommand, SlotAfter, BySession
    <2> QED BY <1>0, <1>1, <1>5, <2>1 DEF RunsPlainCommand, Executed
  <1>6. CASE RunsSessionCommand(c, h)
    <2>1. c \in BySession
      BY <1>6 DEF RunsSessionCommand, BySession
    <2>2. SpentNonce(c) = tsess[h].nonce
      BY <2>1, SpendsNonce
    <2>3. InUse(h)
      BY <1>6 DEF RunsSessionCommand, Accepts, InUse
    <2>4. tsess'[h] \in {FreeSlot, [tsess[h] EXCEPT !.nonce = tctr + 1]}
      BY <1>0, <1>6 DEF RunsSessionCommand
    <2>5. SlotAfter(c, h, tsess[h].id)
      BY <1>6, <2>1, <2>2, <2>3, <2>4 DEF RunsSessionCommand, SlotAfter
    <2> QED BY <1>0, <1>1, <1>6, <2>5 DEF RunsSessionCommand, Executed
  <1> QED BY <1>3, <1>4, <1>5, <1>6 DEF Executes

\* The TPM executes a call, now or late: only the call in progress can be one
\* on the nonce its Session holds, so its execution has that Session's id.
LEMMA ExecuteSyncInv ==
  ASSUME TypeInv, NonceInv, AuthInv, NewerInv, SyncInv,
         NEW c \in CallIds, NEW h \in Handles, Executes(c, h),
         UNCHANGED << sess, calls, ctx, frames >>, pc' = "idle" => pc = "idle",
         pc' # "idle" => pc # "idle",
         pc' = "replied" /\ Starts(resp') =>
           c = calls /\ resp'.by = tctr + 1
  PROVE  SyncInv'
  <1>a. /\ tsess \in [Handles -> [id : Nat, nonce : Nat, key : Key, bound : Seq(Objects)]]
        /\ tctr \in Nat
    BY DEF TypeInv, TypeOK
  <1>b. /\ sess \in [Slots -> SessionOf(Handles \cup {RH_NULL})]
        /\ pc # "idle" /\ frame.mode = "session" => calls \in BySession
    BY DEF TypeInv, TypeOK, BySession, frame
  <1>c. execs \subseteq [call : CallIds, n : Nat, id : Nat]
    BY DEF TypeInv, TypeOK
  <1>d. /\ \A s \in Slots : sess[s].id <= tctr /\ sess[s].nonce_tpm <= tctr
        /\ \A s \in Slots : sess[s].id \in Nat /\ sess[s].nonce_tpm \in Nat
        /\ \A g \in Handles : tsess[g].id <= tctr /\ tsess[g].nonce <= tctr
        /\ \A e \in execs : e.n <= tctr /\ e.n \in Nat
    BY <1>a, <1>b, <1>c DEF NewerInv, Drawn, NonceInv, SyncInv, SameSession, SessionOf
  <1>1. /\ \A g \in Handles : g # h => tsess'[g] = tsess[g]
        /\ tctr' = tctr + 1
        /\ frames[c].code = StartAuthSession => tsess'[h] = FirstSlot(tctr + 1)
    BY ExecutionOnSlot
  <1>2. PICK id \in Nat : /\ execs' = execs \cup {[call |-> c, n |-> tctr + 1, id |-> id]}
                          /\ SlotAfter(c, h, id)
    BY ExecutionOnSlot
  <1> DEFINE e0 == [call |-> c, n |-> tctr + 1, id |-> id]
  <1>3. e0.call = c /\ e0.n = tctr + 1 /\ e0.id = id /\ execs' = execs \cup {e0}
    BY <1>2
  <1> HIDE DEF e0
  <1>4. \/ tsess'[h].id = 0 /\ tsess'[h].nonce = 0
        \/ tsess'[h] = tsess[h]
        \/ tsess'[h] = FirstSlot(tctr + 1) /\ id = tctr + 1 
        \/ /\ tsess'[h].id = tsess[h].id /\ tsess'[h].nonce = tctr + 1 /\ tsess[h].id = id
           /\ tsess'[h].key = tsess[h].key /\ tsess'[h].bound = tsess[h].bound
    BY <1>a, <1>2 DEF SlotAfter, FreeSlot
  <1>5. FirstSlot(tctr + 1).id = tctr + 1 /\ FirstSlot(tctr + 1).nonce = tctr + 1
    BY DEF FirstSlot
  <1>6. SameSession'
    <2>1. \A g \in Handles : tsess'[g].id <= tsess'[g].nonce
      <3>1. \A g \in Handles : tsess[g].id <= tsess[g].nonce
        BY DEF SyncInv, SameSession
      <3>2. tsess'[h].id <= tsess'[h].nonce
        BY <1>a, <1>d, <1>4, <1>5, <3>1
      <3> QED BY <1>1, <3>1, <3>2
    <2>2. \A g \in Handles, s \in Slots : InUse(g)' /\ tsess'[g].id = sess[s].id =>
            KeysAgree(tsess'[g], sess[s])
      <3> SUFFICES ASSUME NEW g \in Handles, NEW s \in Slots, tsess'[g].id # 0, tsess'[g].id = sess[s].id
                   PROVE  KeysAgree(tsess'[g], sess[s])
        BY DEF InUse
      <3>1. tsess'[g].id = tsess[g].id /\ tsess'[g].key = tsess[g].key /\ tsess'[g].bound = tsess[g].bound
        <4>1. sess[s].id # tctr + 1
          BY <1>a, <1>d
        <4>2. CASE g = h
          BY <1>4, <1>5, <4>1, <4>2
        <4>3. CASE g # h
          BY <1>1, <4>3
        <4> QED BY <4>2, <4>3
      <3>2. InUse(g) /\ tsess[g].id = sess[s].id
        BY <3>1 DEF InUse
      <3>3. KeysAgree(tsess[g], sess[s])
        BY <3>2 DEF SyncInv, SameSession
      <3> QED BY <3>1, <3>3 DEF KeysAgree
    <2>3. \A g \in Handles, s \in Slots : InUse(g)' /\ tsess'[g].nonce = sess[s].nonce_tpm =>
            tsess'[g].id = sess[s].id
      <3> SUFFICES ASSUME NEW g \in Handles, NEW s \in Slots, tsess'[g].id # 0,
                          tsess'[g].nonce = sess[s].nonce_tpm
                   PROVE  tsess'[g].id = sess[s].id
        BY DEF InUse
      <3>1. tsess'[g] = tsess[g]
        BY <1>a, <1>d, <1>1, <1>4, <1>5
      <3> QED BY <3>1 DEF SyncInv, SameSession, InUse
    <2>4. \A g \in Handles, e \in execs' : InUse(g)' /\ tsess'[g].nonce = e.n => tsess'[g].id = e.id
      <3> SUFFICES ASSUME NEW g \in Handles, NEW e \in execs', tsess'[g].id # 0, tsess'[g].nonce = e.n
                   PROVE  tsess'[g].id = e.id
        BY DEF InUse
      <3>1. CASE e \in execs
        <4>1. tsess'[g] = tsess[g]
          BY <1>a, <1>d, <1>1, <1>4, <1>5, <3>1
        <4> QED BY <3>1, <4>1 DEF SyncInv, SameSession, InUse
      <3>2. CASE e = e0
        BY <1>a, <1>d, <1>1, <1>3, <1>4, <1>5, <3>2
      <3> QED BY <1>3, <3>1, <3>2
    <2> QED BY <2>1, <2>2, <2>3, <2>4 DEF SyncInv, SameSession
  <1>7. pc' # "idle" /\ frame'.mode = "session" =>
          /\ EntryOf(frame, sess[ctx.slot], ctx.auth)'
          /\ (\A e \in execs : e.call = calls => e.id = sess[ctx.slot].id)'
    <2> SUFFICES ASSUME pc # "idle", frame.mode = "session"
                 PROVE  /\ EntryOf(frame, sess[ctx.slot], ctx.auth)'
                        /\ (\A e \in execs : e.call = calls => e.id = sess[ctx.slot].id)'
      BY DEF frame
    <2>1. EntryOf(frame, sess[ctx.slot], ctx.auth)'
      BY DEF SyncInv, EntryOf, frame
    <2>2. ASSUME c = calls
          PROVE  id = sess[ctx.slot].id
      <3>1. InUse(h) /\ id = tsess[h].id /\ SpentNonce(calls) = tsess[h].nonce
        BY <1>b, <1>2, <2>2 DEF SlotAfter
      <3>2. SpentNonce(calls) = sess[ctx.slot].nonce_tpm
        BY DEF NewerInv
      <3>3. ctx.slot \in Slots
        BY DEF AuthInv
      <3> QED BY <3>1, <3>2, <3>3 DEF SyncInv, SameSession
    <2>3. \A e \in execs' : e.call = calls => e.id = sess[ctx.slot].id
      BY <1>3, <2>2 DEF SyncInv
    <2> QED BY <2>1, <2>3
  <1>8. pc' = "replied" /\ Starts(resp)' => Awaited(resp.by)'
    <2> SUFFICES ASSUME pc' = "replied", Starts(resp')
                 PROVE  Awaited(resp.by)'
      <3>1. Starts(resp)' <=> Starts(resp')
        BY DEF Starts, frame
      <3> QED BY <3>1
    <2>1. tsess'[h] = FirstSlot(tctr + 1) /\ resp'.by = tctr + 1
      BY <1>1 DEF Starts, frame
    <2>2. \A g \in Handles : tctr + 1 \in {tsess'[g].id, tsess'[g].nonce} => g = h
      BY <1>a, <1>d, <1>1
    <2> QED BY <2>1, <2>2 DEF Awaited, InUse
  <1> QED BY <1>6, <1>7, <1>8 DEF SyncInv

\* Other clients open slots with new nonces, and free slots.
LEMMA OtherSyncInv ==
  ASSUME TypeInv, NonceInv, NewerInv, SyncInv, NEW h \in Handles, OtherStarts(h) \/ OtherFlushes(h)
  PROVE  SyncInv'
  <1>a. /\ tsess \in [Handles -> [id : Nat, nonce : Nat, key : Key, bound : Seq(Objects)]]
        /\ tctr \in Nat
    BY DEF TypeInv, TypeOK
  <1>b. sess \in [Slots -> SessionOf(Handles \cup {RH_NULL})]
    BY DEF TypeInv, TypeOK
  <1>c. execs \subseteq [call : CallIds, n : Nat, id : Nat]
    BY DEF TypeInv, TypeOK
  <1>d. /\ \A s \in Slots : sess[s].id <= tctr /\ sess[s].nonce_tpm <= tctr
        /\ \A s \in Slots : sess[s].id \in Nat /\ sess[s].nonce_tpm \in Nat
        /\ \A e \in execs : e.n <= tctr /\ e.n \in Nat
        /\ pc = "replied" => resp.by <= tctr /\ resp.by \in Nat
    <2>1. /\ \A s \in Slots : sess[s].id \in Nat /\ sess[s].nonce_tpm \in Nat
          /\ \A e \in execs : e.n \in Nat
      BY <1>b, <1>c DEF SessionOf
    <2>2. \A s \in Slots : sess[s].nonce_tpm <= tctr /\ sess[s].id <= tctr
      BY DEF NewerInv, Drawn
    <2>4. \A e \in execs : e.n <= tctr
      BY DEF NonceInv
    <2>5. resp.by <= tctr /\ resp.by \in Nat
      BY DEF NewerInv, Fresh, TypeInv, TypeOK, Reply
    <2> QED BY <2>1, <2>2, <2>4, <2>5
  <1>1. /\ UNCHANGED << sess, calls, ctx, frames, pc, resp, execs, frame >>
        /\ \A g \in Handles : \/ tsess'[g] = tsess[g]
                              \/ tsess'[g].id = 0 /\ tsess'[g].nonce = 0
                              \/ tsess'[g].id = tctr + 1 /\ tsess'[g].nonce = tctr + 1
    BY <1>a DEF OtherStarts, OtherFlushes, client, FreeSlot, frame
  <1>2. \A g \in Handles : tsess'[g].id <= tsess'[g].nonce
    BY <1>a, <1>1 DEF SyncInv, SameSession
  <1>3. \A g \in Handles : InUse(g)' =>
          \/ tsess'[g] = tsess[g] /\ InUse(g)
          \/ tsess'[g].id = tctr + 1 /\ tsess'[g].nonce = tctr + 1
    BY <1>1 DEF InUse
  <1>4. SameSession'
    <2>1. \A g \in Handles, s \in Slots :
            /\ InUse(g)' /\ tsess'[g].id = sess[s].id => tsess'[g] = tsess[g] /\ InUse(g)
            /\ InUse(g)' /\ tsess'[g].nonce = sess[s].nonce_tpm => tsess'[g] = tsess[g] /\ InUse(g)
      BY <1>a, <1>d, <1>3
    <2>2. \A g \in Handles, e \in execs : InUse(g)' /\ tsess'[g].nonce = e.n =>
            tsess'[g] = tsess[g] /\ InUse(g)
      BY <1>a, <1>d, <1>3
    <2> QED BY <1>1, <1>2, <2>1, <2>2 DEF SyncInv, SameSession
  <1>5. Starts(resp)' <=> Starts(resp)
    BY <1>1 DEF Starts
  <1>6. pc' = "replied" /\ Starts(resp)' => Awaited(resp.by)'
    <2> SUFFICES ASSUME pc = "replied", Starts(resp), NEW g \in Handles, InUse(g)',
                        resp.by \in {tsess'[g].id, tsess'[g].nonce}
                 PROVE  tsess'[g] = FirstSlot(resp.by)
      BY <1>1, <1>5 DEF Awaited
    <2>1. tsess'[g] = tsess[g] /\ InUse(g)
      BY <1>a, <1>d, <1>3
    <2>2. Awaited(resp.by)
      BY DEF SyncInv
    <2> QED BY <2>1, <2>2 DEF Awaited
  <1>7. EntryOf(frame, sess[ctx.slot], ctx.auth)' <=> EntryOf(frame, sess[ctx.slot], ctx.auth)
    BY <1>1 DEF EntryOf
  <1> QED BY <1>1, <1>4, <1>6, <1>7 DEF SyncInv

\* A verified reply moves the Session to the nonce its own execution drew.
LEMMA AbsorbSyncInv ==
  ASSUME TypeInv, NonceInv, AuthInv, NewerInv, SyncInv, ReceiveOk
  PROVE  SyncInv'
  <1>0. sess \in [Slots -> SessionOf(Handles \cup {RH_NULL})]
    BY DEF TypeInv, TypeOK
  <1>1. /\ pc = "replied" /\ parse_response(resp) = "Ok" /\ pc' = "idle"
        /\ sess' = SessionAfter(resp) /\ UNCHANGED << tsess, execs >>
    BY DEF ReceiveOk, Return, device
  <1>2. CASE sess' = sess
    <2>1. KeepsSessions
      BY <1>2 DEF KeepsSessions
    <2> QED BY <1>1, <2>1, QuietSyncInv
  <1>3. CASE sess' # sess
    <2>1. frame.mode = "session" /\ sess' = [sess EXCEPT ![ctx.slot].nonce_tpm = resp.nonce_tpm]
      BY <1>0, <1>1, <1>3 DEF SessionAfter, absorb
    <2>2. ctx.slot \in Slots
      BY <1>1, <2>1 DEF AuthInv
    <2>3. sess[ctx.slot].nonce_tpm < resp.nonce_tpm
      BY <1>1, <2>1, VerifiedIsNewer
    <2>4. PICK e \in execs : e.call = calls /\ e.n = resp.nonce_tpm
      BY <1>1, <2>1, VerifiedIsNewer
    <2>5. e.id = sess[ctx.slot].id
      BY <1>1, <2>1, <2>4 DEF SyncInv
    <2>6. resp.nonce_tpm \in Nat
      BY DEF TypeInv, TypeOK, Reply
    <2>7. \A s \in Slots :
            /\ sess'[s].handle = sess[s].handle /\ sess'[s].id = sess[s].id
            /\ sess'[s].session_key = sess[s].session_key /\ sess'[s].bound_name = sess[s].bound_name
            /\ \/ sess'[s].nonce_tpm = sess[s].nonce_tpm
               \/ s = ctx.slot /\ sess'[s].nonce_tpm = resp.nonce_tpm
      BY <1>0, <2>1, <2>2 DEF SessionOf
    <2>8. \A h \in Handles : InUse(h) /\ tsess[h].nonce = resp.nonce_tpm => tsess[h].id = sess[ctx.slot].id
      BY <2>4, <2>5 DEF SyncInv, SameSession
    <2>9. \A h \in Handles, s \in Slots : KeysAgree(tsess[h], sess[s]) => KeysAgree(tsess[h], sess'[s])
      BY <2>7 DEF KeysAgree
    <2>10. SameSession'
      BY <1>1, <2>7, <2>8, <2>9 DEF SyncInv, SameSession, InUse
    <2> QED BY <1>1, <2>10 DEF SyncInv
  <1> QED BY <1>2, <1>3

\* start_auth_session makes a Session of the slot the TPM opened for it.
LEMMA StartedSyncInv ==
  ASSUME TypeInv, NonceInv, NewerInv, SyncInv, NEW h \in Handles, ReceiveStarted(h)
  PROVE  SyncInv'
  <1>0. sess \in [Slots -> SessionOf(Handles \cup {RH_NULL})]
    BY DEF TypeInv, TypeOK
  <1>1. /\ pc = "replied" /\ parse_response(resp) = "Ok" /\ pc' = "idle"
        /\ frame.code = StartAuthSession /\ UNCHANGED << tsess, execs >>
    BY DEF ReceiveStarted, Return, device
  <1>2. CASE sess' = sess
    <2>1. KeepsSessions
      BY <1>2 DEF KeepsSessions
    <2> QED BY <1>1, <2>1, QuietSyncInv
  <1>3. CASE sess' # sess
    <2>0. PICK t : t = SessionFrom(resp, h)
      OBVIOUS
    <2>1. sess' = [sess EXCEPT ![ctx.slot] = t]
      BY <1>3, <2>0 DEF ReceiveStarted
    <2>2. /\ t.id = OpenedBy(resp) /\ t.nonce_tpm = FirstNonce(resp)
          /\ t.session_key = <<>> /\ t.bound_name = <<>>
      BY <2>0, SessionFromFields
    <2>3. \A g \in Handles : tsess[g].id \in Nat /\ tsess[g].nonce \in Nat /\ tsess[g].id <= tsess[g].nonce
      BY DEF TypeInv, TypeOK, SyncInv, SameSession
    <2>4. \A g \in Handles : InUse(g) /\ (tsess[g].id = t.id \/ tsess[g].nonce = t.nonce_tpm) =>
            tsess[g].id = t.id /\ tsess[g].key = <<>> /\ tsess[g].bound = <<>>
      <3>1. CASE Starts(resp) /\ OpenedBy(resp) = resp.by /\ FirstNonce(resp) \in {0, resp.by}
        <4>1. Awaited(resp.by)
          BY <1>1, <3>1 DEF SyncInv
        <4> QED BY <2>2, <2>3, <3>1, <4>1 DEF Awaited, InUse, FirstSlot
      <3>2. CASE OpenedBy(resp) = 0 /\ FirstNonce(resp) = 0
        BY <2>2, <2>3, <3>2 DEF InUse
      <3> QED BY <1>1, <3>1, <3>2, StartedIsNewer
    <2>5. \A s \in Slots : sess'[s] = sess[s] \/ sess'[s] = t
      BY <1>0, <2>1
    <2>6. \A g \in Handles, s \in Slots : InUse(g) /\ tsess[g].id = sess'[s].id => KeysAgree(tsess[g], sess'[s])
      BY <2>2, <2>4, <2>5 DEF SyncInv, SameSession, KeysAgree
    <2>7. \A g \in Handles, s \in Slots : InUse(g) /\ tsess[g].nonce = sess'[s].nonce_tpm =>
            tsess[g].id = sess'[s].id
      BY <2>4, <2>5 DEF SyncInv, SameSession
    <2>8. SameSession'
      BY <1>1, <2>6, <2>7 DEF SyncInv, SameSession, InUse
    <2> QED BY <1>1, <2>8 DEF SyncInv
  <1> QED BY <1>2, <1>3

\* Session::new on a session the client opened by other means: both sides
\* derive the same key, or the Session is a keyless one.
LEMMA AdoptSyncInv ==
  ASSUME TypeInv, NonceInv, NewerInv, SyncInv, NEW s \in Slots, NEW h \in Handles,
         NEW b \in {<<>>} \cup {Name(o) : o \in Objects}, NEW salt \in Salts, adopt_session(s, h, b, salt)
  PROVE  SyncInv'
  <1>a. /\ tsess \in [Handles -> [id : Nat, nonce : Nat, key : Key, bound : Seq(Objects)]]
        /\ tctr \in Nat
    BY DEF TypeInv, TypeOK
  <1>b. sess \in [Slots -> SessionOf(Handles \cup {RH_NULL})] /\ FreshNonce \in Nat
    <2>1. sess \in [Slots -> SessionOf(Handles \cup {RH_NULL})]
      BY DEF TypeInv, TypeOK
    <2>2. FreshNonce \in Nat
      BY DEF TypeInv, TypeOK, FreshNonce
    <2> QED BY <2>1, <2>2
  <1>c. execs \subseteq [call : CallIds, n : Nat, id : Nat]
    BY DEF TypeInv, TypeOK
  <1>d. /\ \A q \in Slots : sess[q].id <= tctr /\ sess[q].nonce_tpm <= tctr
        /\ \A q \in Slots : sess[q].id \in Nat /\ sess[q].nonce_tpm \in Nat
        /\ \A g \in Handles : tsess[g].id <= tctr /\ tsess[g].nonce <= tctr
        /\ \A e \in execs : e.n <= tctr /\ e.n \in Nat
    BY <1>a, <1>b, <1>c DEF NewerInv, Drawn, NonceInv, SyncInv, SameSession, SessionOf
  <1> DEFINE ba == IF b = <<>> THEN <<>> ELSE AuthOf[b[1]]
             t == new(h, tctr + 1, FreshNonce, {"CONTINUE_SESSION"}, ba, b, salt)
             w == [id |-> tctr + 1, nonce |-> tctr + 1, bound |-> b,
                   key |-> SessionKeyOf(b, salt, tctr + 1, FreshNonce)]
  <1>1. /\ sess' = [sess EXCEPT ![s] = t] /\ tsess' = [tsess EXCEPT ![h] = w]
        /\ pc = "idle" /\ pc' = "idle" /\ execs' = execs
    BY DEF adopt_session
  <1>2. ba \in Seq(Secrets) /\ salt \in Seq(Secrets)
    <2>1. b # <<>> => b[1] \in Objects
      BY DEF Name
    <2> QED BY <2>1, AuthValuesAreSequences
  <1>3. t.id = tctr + 1 /\ t.nonce_tpm = tctr + 1
    BY DEF new
  <1>4. w.id = tctr + 1 /\ w.nonce = tctr + 1
    OBVIOUS
  <1>5. KeysAgree(w, t)
    <2> DEFINE k == kdfa(ba \o salt, "ATH", tctr + 1, FreshNonce)
    <2>1. k \in KdfaTerm
      BY <1>a, <1>b, <1>2 DEF kdfa, KdfaTerm
    <2>2. t.session_key = IF ba = <<>> /\ salt = <<>> THEN <<>> ELSE <<k>>
      BY DEF new, SessionKey
    <2>3. t.bound_name = b /\ w.bound = b
      BY DEF new
    <2>4. w.key = IF b = <<>> /\ salt = <<>> THEN <<>> ELSE <<k>>
      BY DEF SessionKeyOf
    <2>5. b = <<>> => ba = <<>>
      OBVIOUS
    <2> HIDE DEF k, t, w, ba
    <2>6. <<k>> # <<>>
      OBVIOUS
    <2> QED BY <2>1, <2>2, <2>3, <2>4, <2>5, <2>6 DEF KeysAgree
  <1> HIDE DEF t, w, ba
  <1>6. \A q \in Slots : IF q = s THEN sess'[q] = t ELSE sess'[q] = sess[q]
    BY <1>b, <1>1
  <1>7. \A g \in Handles : IF g = h THEN tsess'[g] = w ELSE tsess'[g] = tsess[g]
    BY <1>a, <1>1
  <1>8. \A g \in Handles : tsess'[g].id <= tsess'[g].nonce
    <2> SUFFICES ASSUME NEW g \in Handles
                 PROVE  tsess'[g].id <= tsess'[g].nonce
      OBVIOUS
    <2>1. CASE g = h
      BY <1>a, <1>4, <1>7, <2>1
    <2>2. CASE g # h
      <3>1. tsess'[g] = tsess[g]
        BY <1>7, <2>2
      <3> QED BY <3>1 DEF SyncInv, SameSession
    <2> QED BY <2>1, <2>2
  <1>m. \A g \in Handles, q \in Slots :
          \/ g = h /\ q = s
          \/ tsess'[g].id # sess'[q].id /\ tsess'[g].nonce # sess'[q].nonce_tpm
          \/ tsess'[g] = tsess[g] /\ sess'[q] = sess[q]
    BY <1>a, <1>d, <1>3, <1>4, <1>6, <1>7
  <1>9. \A g \in Handles, q \in Slots : tsess'[g].id # 0 /\ tsess'[g].id = sess'[q].id =>
          KeysAgree(tsess'[g], sess'[q])
    <2> SUFFICES ASSUME NEW g \in Handles, NEW q \in Slots, tsess'[g].id # 0, tsess'[g].id = sess'[q].id
                 PROVE  KeysAgree(tsess'[g], sess'[q])
      OBVIOUS
    <2>1. CASE g = h /\ q = s
      BY <1>5, <1>6, <1>7, <2>1
    <2>2. CASE tsess'[g] = tsess[g] /\ sess'[q] = sess[q]
      BY <2>2 DEF SyncInv, SameSession, InUse
    <2> QED BY <1>m, <2>1, <2>2
  <1>10. \A g \in Handles, q \in Slots : tsess'[g].id # 0 /\ tsess'[g].nonce = sess'[q].nonce_tpm =>
           tsess'[g].id = sess'[q].id
    <2> SUFFICES ASSUME NEW g \in Handles, NEW q \in Slots, tsess'[g].id # 0,
                        tsess'[g].nonce = sess'[q].nonce_tpm
                 PROVE  tsess'[g].id = sess'[q].id
      OBVIOUS
    <2>1. CASE g = h /\ q = s
      BY <1>3, <1>4, <1>6, <1>7, <2>1
    <2>2. CASE tsess'[g] = tsess[g] /\ sess'[q] = sess[q]
      BY <2>2 DEF SyncInv, SameSession, InUse
    <2> QED BY <1>m, <2>1, <2>2
  <1>11. \A g \in Handles, e \in execs : tsess'[g].id # 0 /\ tsess'[g].nonce = e.n => tsess'[g].id = e.id
    BY <1>a, <1>d, <1>4, <1>7 DEF SyncInv, SameSession, InUse
  <1>12. SameSession'
    BY <1>1, <1>8, <1>9, <1>10, <1>11 DEF SameSession, InUse
  <1> QED BY <1>1, <1>12 DEF SyncInv

\* Calls of the client.
LEMMA ClientSyncInv ==
  ASSUME TypeInv, NonceInv, NewerInv, SyncInv, Client
  PROVE  SyncInv'
  <1>0. sess \in [Slots -> SessionOf(Handles \cup {RH_NULL})] /\ FreshNonce \in Nat
    <2>1. sess \in [Slots -> SessionOf(Handles \cup {RH_NULL})]
      BY DEF TypeInv, TypeOK
    <2>2. FreshNonce \in Nat
      BY DEF TypeInv, TypeOK, FreshNonce
    <2> QED BY <2>1, <2>2
  <1>k. sess' = sess => KeepsSessions
    BY DEF KeepsSessions
  <1>1. ASSUME NEW code, NEW h, NEW n, NEW context, PlainFrame(code, <<>>, h, n) \in Frame,
               Begin(PlainFrame(code, <<>>, h, n), context), sess' = sess
        PROVE  SyncInv'
    <2>1. PlainFrame(code, <<>>, h, n).mode # "session"
      BY DEF PlainFrame
    <2> QED BY <1>1, <1>k, <2>1, BeginSyncInv
  <1>2. ASSUME NEW s \in Slots, NEW alg \in Algs, StartCall(s, alg)
        PROVE  SyncInv'
    <2>1. PlainFrame(StartAuthSession, <<>>, RH_NULL, FreshNonce) \in Frame
      BY <1>0 DEF PlainFrame, Frame
    <2> QED BY <1>1, <1>2, <2>1 DEF StartCall
  <1>3. ASSUME NEW s \in Slots, NEW alg \in Algs, start_hmac_session(s, alg)
        PROVE  SyncInv'
    <2>1. CASE StartCall(s, alg)
      BY <1>2, <2>1
    <2>2. CASE ~StartCall(s, alg)
      <3>1. sess' = sess /\ pc' = "idle" /\ UNCHANGED << tsess, execs >>
        BY <1>3, <2>2 DEF start_hmac_session, device
      <3> QED BY <1>k, <3>1, QuietSyncInv
    <2> QED BY <2>1, <2>2
  <1>4. ASSUME NEW s \in Slots, flush_context(s)
        PROVE  SyncInv'
    <2>1. PlainFrame(FlushContext, <<>>, sess[s].handle, 0) \in Frame
      BY <1>0 DEF PlainFrame, Frame, SessionOf
    <2> QED BY <1>1, <1>4, <2>1 DEF flush_context
  <1>5. ASSUME NEW code \in Codes, run_none(code)
        PROVE  SyncInv'
    <2>1. PlainFrame(code, <<>>, RH_NULL, 0) \in Frame
      BY DEF PlainFrame, Frame
    <2> QED BY <1>1, <1>5, <2>1 DEF run_none
  <1>6. ASSUME NEW code \in Codes, NEW o \in Objects, NEW a \in AuthValues, run_password(code, o, a)
        PROVE  SyncInv'
    <2> DEFINE f == [mode |-> "password", code |-> code, names |-> Name(o), handle |-> RS_PW,
                     nonce |-> 0, attributes |-> {"CONTINUE_SESSION"}, hmac |-> a, id |-> 0]
    <2>1. a \in Seq(Secrets)
      BY AuthValuesAreSequences
    <2>2. a \in Seq(Secrets \cup HmacTerm)
      BY <2>1
    <2>3. f \in Frame
      BY <2>2 DEF Frame, Name, Attributes
    <2>4. sess' = sess /\ \E context : Begin(f, context)
      BY <1>6 DEF run_password
    <2> QED BY <1>k, <2>3, <2>4, BeginSyncInv
  <1>7. ASSUME NEW s \in Slots, NEW code \in Codes, NEW o \in Objects, NEW a \in AuthValues,
               run_session(s, code, o, a)
        PROVE  SyncInv'
    <2> DEFINE t == command_auth(sess[s], FreshNonce)
               m == CommandHmac(t, cp_hash(code, Name(o)), a, Name(o))
               f == [mode |-> "session", code |-> code, names |-> Name(o), handle |-> t.handle,
                     nonce |-> t.nonce_caller, attributes |-> t.attributes, hmac |-> m, id |-> t.id]
               x == [slot |-> s, auth |-> a, alg |-> NoAlg]
    <2>1. a \in Seq(Secrets)
      BY AuthValuesAreSequences
    <2>2. /\ t \in SessionOf(Handles \cup {RH_NULL})
          /\ t.handle = sess[s].handle /\ t.id = sess[s].id /\ t.nonce_tpm = sess[s].nonce_tpm
          /\ t.session_key = sess[s].session_key /\ t.bound_name = sess[s].bound_name
      BY <1>0 DEF command_auth, SessionOf
    <2>3. m \in Seq(Secrets \cup HmacTerm)
      BY <2>1, <2>2, CommandHmacType
    <2>4. Begin(f, x) /\ sess' = [sess EXCEPT ![s] = t] /\ t.handle # RH_NULL
      BY <1>7 DEF run_session
    <2>5. f.hmac = CommandHmac(t, cp_hash(f.code, f.names), x.auth, f.names)
      OBVIOUS
    <2> HIDE DEF t, m
    <2>6. f \in Frame
      BY <2>2, <2>3 DEF Frame, Name, SessionOf
    <2>7. KeepsSessions
      BY <1>0, <2>2, <2>4 DEF KeepsSessions
    <2>8. t.handle \in Handles
      BY <2>2, <2>4 DEF SessionOf
    <2>9. EntryOf(f, t, a)
      BY <2>5, <2>8 DEF EntryOf
    <2>10. sess'[x.slot] = t /\ x.auth = a
      BY <1>0, <2>4
    <2> HIDE DEF f, x
    <2> QED BY <2>4, <2>6, <2>7, <2>9, <2>10, BeginSyncInv
  <1>8. ASSUME NEW s \in Slots, NEW attributes \in SUBSET Attributes, set_attributes(s, attributes)
        PROVE  SyncInv'
    <2>1. KeepsSessions
      BY <1>0, <1>8 DEF set_attributes, KeepsSessions, SessionOf
    <2>2. pc' = "idle" /\ UNCHANGED << tsess, execs >>
      BY <1>8 DEF set_attributes, device
    <2> QED BY <2>1, <2>2, QuietSyncInv
  <1>9. ASSUME NEW s \in Slots, NEW h \in Handles, NEW b \in {<<>>} \cup {Name(o) : o \in Objects},
               NEW salt \in Salts, adopt_session(s, h, b, salt)
        PROVE  SyncInv'
    BY <1>9, AdoptSyncInv
  <1> QED BY <1>2, <1>3, <1>4, <1>5, <1>6, <1>7, <1>8, <1>9 DEF Client, start_auth_session

\* Every step keeps the invariant.
LEMMA NextSyncInv ==
  ASSUME NoStrayPlainReply, TypeInv, NonceInv, AuthInv, NewerInv, SyncInv, [Next]_vars
  PROVE  SyncInv'
  <1>0. resp \in Reply /\ sent \subseteq CallIds
    BY DEF TypeInv, TypeOK
  <1>k. sess' = sess => KeepsSessions
    BY DEF KeepsSessions
  <1>1. CASE UNCHANGED vars
    <2>1. pc # "idle" => CallGoesOn
      BY <1>1 DEF vars, CallGoesOn
    <2> QED BY <1>1, <1>k, <2>1, QuietSyncInv DEF vars
  <1>2. CASE Client
    BY <1>2, ClientSyncInv
  <1>3. CASE Loop
    <2>1. ASSUME sess' = sess, UNCHANGED << tsess, execs >>, pc' # "replied", pc' # "idle" => CallGoesOn
          PROVE  SyncInv'
      BY <2>1, <1>k, QuietSyncInv
    <2>2. CASE Transmit
      BY <2>1, <2>2 DEF Transmit, CallGoesOn, device
    <2>3. CASE TransmitFails
      BY <2>1, <2>3 DEF TransmitFails, Return, device
    <2>4. CASE Resubmit
      BY <2>1, <2>4 DEF Resubmit, CallGoesOn, device
    <2>5. CASE ReceiveError
      BY <2>1, <2>5 DEF ReceiveError, Return, device
    <2>6. CASE ReceiveStartCut
      BY <2>1, <2>6 DEF ReceiveStartCut, Return, device
    <2> QED BY <1>3, <2>2, <2>3, <2>4, <2>5, <2>6, AbsorbSyncInv, StartedSyncInv DEF Loop, Proceed
  <1>4. CASE Tpm
    <2>1. ASSUME NEW h \in Handles, TpmExecutes(h)
          PROVE  SyncInv'
      <3>0. PICK x : x = ReplyTo(calls, h)
        OBVIOUS
      <3>1. /\ calls \in CallIds /\ Executes(calls, h) /\ pc = "sent" /\ pc' = "replied" /\ resp' = x
            /\ UNCHANGED << sess, calls, ctx, frames >>
        BY <2>1, <3>0 DEF TpmExecutes, Answer, TypeInv
      <3>2. x.by = tctr + 1
        BY <3>0, <3>1, AnswersAreFresh
      <3> QED BY <3>1, <3>2, ExecuteSyncInv DEF Starts
    <2>2. ASSUME NEW rc, rc # SUCCESS, pc = "sent", Answer(ErrorReply(rc)), UNCHANGED device
          PROVE  SyncInv'
      <3>1. ErrorReply(rc).rc # SUCCESS
        BY <2>2 DEF ErrorReply
      <3>2. ~Starts(resp') /\ sess' = sess /\ CallGoesOn /\ UNCHANGED << tsess, execs >>
        BY <2>2, <3>1 DEF Answer, Starts, CallGoesOn, device
      <3> QED BY <1>k, <3>2, QuietSyncInv
    <2>3. ASSUME NEW rc \in NotReadyCodes, TpmNotReady(rc)
          PROVE  SyncInv'
      BY <2>2, <2>3, RefusalsAreFinal DEF TpmNotReady, TransientWarnings, SUCCESS
    <2>4. ASSUME NEW rc \in RefusalCodes \cup {AUTH_FAIL}, TpmRefuses(rc)
          PROVE  SyncInv'
      BY <2>2, <2>4, RefusalsAreFinal DEF TpmRefuses, AUTH_FAIL, SUCCESS
    <2> QED BY <1>4, <2>1, <2>3, <2>4 DEF Tpm
  <1>5. CASE Environment
    <2>1. ASSUME NEW c \in sent, NEW h \in Handles, LateCommand(c, h)
          PROVE  SyncInv'
      <3>1. /\ c \in CallIds /\ Executes(c, h) /\ pc # "replied"
            /\ UNCHANGED << sess, calls, ctx, frames, pc >>
        BY <1>0, <2>1 DEF LateCommand, client
      <3> QED BY <3>1, ExecuteSyncInv
    <2>2. ASSUME NEW r \in seen, StaleReply(r)
          PROVE  SyncInv'
      <3>1. /\ pc # "idle" /\ resp' = r /\ sess' = sess /\ UNCHANGED << tsess, execs >> /\ CallGoesOn
        BY <2>2 DEF StaleReply, CallGoesOn, device
      <3>2. ~Starts(resp')
        BY <3>1 DEF AuthInv, Starts
      <3> QED BY <1>k, <3>1, <3>2, QuietSyncInv
    <2>3. ASSUME NEW r, (r \in Damaged(resp) /\ Garble(r)) \/ (r = Retagged(resp) /\ Retag)
          PROVE  SyncInv'
      <3>0. r \in Damaged(resp) /\ Damages(r)
        BY <2>3, DamagedReply DEF NoStrayPlainReply
      <3>1. /\ pc = "replied" /\ resp' = r /\ resp.shape = "whole" /\ sess' = sess /\ CallGoesOn
            /\ UNCHANGED << tsess, execs >>
        BY <3>0 DEF Damages, client, device, CallGoesOn
      <3>2. r.rc = resp.rc /\ r.by = resp.by /\ r.tag = resp.tag
        BY <1>0, <3>0, DamagedType
      <3>3. Starts(resp') => Starts(resp)
        BY <3>1, <3>2 DEF Starts
      <3> QED BY <1>k, <3>1, <3>2, <3>3, QuietSyncInv
    <2>4. ASSUME NEW h \in Handles, OtherStarts(h) \/ OtherFlushes(h)
          PROVE  SyncInv'
      BY <2>4, OtherSyncInv
    <2> QED BY <1>5, <2>1, <2>2, <2>3, <2>4 DEF Environment, Garble, Retag
  <1> QED BY <1>1, <1>2, <1>3, <1>4, <1>5 DEF Next

\* The invariants hold together.
LEMMA SyncInvariant ==
  ASSUME NoStrayPlainReply
  PROVE  Spec => [](TypeInv /\ NonceInv /\ AuthInv /\ NewerInv /\ SyncInv)
  <1>1. TypeInv /\ NonceInv /\ AuthInv /\ [Next]_vars => AuthInv'
    BY NextAuthInv
  <1>2. TypeInv /\ NonceInv /\ AuthInv /\ NewerInv /\ [Next]_vars => NewerInv'
    BY NextNewerInv
  <1>3. TypeInv /\ NonceInv /\ AuthInv /\ NewerInv /\ SyncInv /\ [Next]_vars => SyncInv'
    BY NextSyncInv
  <1> QED
    BY InitNonceInv, InitAuthInv, InitNewerInv, InitSyncInv, NextNonceInv, TypeInvariant,
       <1>1, <1>2, <1>3, PTL
    DEF Spec

-----------------------------------------------------------------------------
(* The HMAC decides.                                                       *)

\* The keys of both sides are equal when what is appended to the session key
\* is: appending cannot make up for a difference.
LEMMA AppendedAlike ==
  ASSUME NEW k \in Key, NEW a \in Seq(Secrets), NEW b \in Seq(Secrets)
  PROVE  k \o a = k \o b <=> a = b
  <1>1. a \in Seq(Secrets \cup KdfaTerm) /\ b \in Seq(Secrets \cup KdfaTerm)
    OBVIOUS
  <1>2. k \in Seq(Secrets \cup KdfaTerm)
    BY DEF Key
  <1> HIDE DEF KdfaTerm
  <1>3. k \o a = k \o b => a = b
    BY <1>1, <1>2, ConcatSimplifications
  <1> QED BY <1>3

\* What the TPM compares, field by field.
LEMMA AcceptsEntry ==
  ASSUME TypeInv, AuthInv, SyncInv, pc # "idle", frame.mode = "session", NEW o, frame.names = Name(o),
         NEW t, t = sess[ctx.slot], NEW h, h = t.handle
  PROVE  Accepts(frame) <=>
           /\ InUse(h) /\ tsess[h].nonce = t.nonce_tpm
           /\ TpmKey(h, o) = hmac_key(t.session_key, t.bound_name, ctx.auth, Name(o))
  <1>1. /\ frame.handle = h /\ frame.attributes = t.attributes
        /\ frame.hmac = CommandHmac(t, cp_hash(frame.code, frame.names), ctx.auth, frame.names)
    BY DEF SyncInv, EntryOf
  <1>2. frame.nonce = t.nonce_caller
    <2>1. calls \in BySession
      BY DEF BySession, frame, TypeInv
    <2> QED BY <2>1 DEF AuthInv, frame
  <1>3. frame.names[1] = o
    BY DEF Name
  <1> DEFINE x == hmac_parts(hmac_key(t.session_key, t.bound_name, ctx.auth, Name(o)),
                             cp_hash(frame.code, frame.names), t.nonce_caller, t.nonce_tpm, t.attributes)
             y == hmac_parts(TpmKey(h, o), cp_hash(frame.code, frame.names),
                             t.nonce_caller, tsess[h].nonce, t.attributes)
  <1>4. frame.hmac = <<x>>
    BY <1>1 DEF CommandHmac
  <1>5. Accepts(frame) <=> InUse(h) /\ frame.hmac = <<y>>
    BY <1>1, <1>2, <1>3 DEF Accepts, InUse
  <1>6. x = y <=> /\ TpmKey(h, o) = hmac_key(t.session_key, t.bound_name, ctx.auth, Name(o))
                  /\ tsess[h].nonce = t.nonce_tpm
    BY DEF hmac_parts
  <1> HIDE DEF x, y
  <1>7. <<x>> = <<y>> <=> x = y
    OBVIOUS
  <1> QED BY <1>4, <1>5, <1>6, <1>7

\* The keys of both sides on one session: they differ when the Session is a
\* keyless one, whatever the auth values, because no auth value begins with a
\* derived key; otherwise they are as good as the auth value is.
LEMMA KeysMeet ==
  ASSUME TypeInv, NEW s \in Slots, NEW h \in Handles, NEW o \in Objects, NEW auth \in Seq(Secrets),
         NEW t, t = sess[s], KeysAgree(tsess[h], t)
  PROVE  TpmKey(h, o) = hmac_key(t.session_key, t.bound_name, auth, Name(o))
           <=> ~Keyless(s) /\ RightAuth(s, o, auth)
  <1>1. t.session_key \in Key /\ AuthOf[o] \in Seq(Secrets) /\ Name(o) # <<>>
    <2>1. sess \in [Slots -> SessionOf(Handles \cup {RH_NULL})]
      BY DEF TypeInv, TypeOK
    <2> QED BY <2>1, AuthValuesAreSequences DEF SessionOf, Name
  <1>2. tsess[h].bound = t.bound_name
    BY DEF KeysAgree
  <1> DEFINE mine == IF t.bound_name = Name(o) THEN <<>> ELSE auth
             its == IF t.bound_name = Name(o) THEN <<>> ELSE AuthOf[o]
  <1>3. hmac_key(t.session_key, t.bound_name, auth, Name(o)) = t.session_key \o mine
    BY <1>1 DEF hmac_key
  <1>4. TpmKey(h, o) = tsess[h].key \o its
    BY <1>2 DEF TpmKey
  <1>5. mine \in Seq(Secrets) /\ its \in Seq(Secrets)
    BY <1>1
  <1>6. mine = its <=> RightAuth(s, o, auth)
    BY DEF RightAuth
  <1> HIDE DEF mine, its
  <1>7. CASE Keyless(s)
    <2>1. t.session_key = <<>>
      BY <1>7 DEF Keyless
    <2>2. PICK k \in KdfaTerm : tsess[h].key = <<k>>
      BY <1>7, <2>1 DEF Keyless, KeysAgree
    <2>3. <<>> \o mine = mine
      BY <1>5
    <2>4. (<<k>> \o its)[1] = k /\ Len(<<k>> \o its) >= 1
      BY <1>5
    <2>5. k \notin Secrets
      BY SecretsAreNotDerived
    <2>6. Len(mine) >= 1 => mine[1] \in Secrets
      BY <1>5
    <2>7. <<k>> \o its # mine
      BY <2>4, <2>5, <2>6
    <2> QED BY <1>3, <1>4, <1>7, <2>1, <2>2, <2>3, <2>7
  <1>8. CASE ~Keyless(s)
    <2>1. tsess[h].key = t.session_key
      BY <1>8 DEF Keyless, KeysAgree
    <2>2. t.session_key \o its = t.session_key \o mine <=> its = mine
      BY <1>1, <1>5, AppendedAlike
    <2> QED BY <1>3, <1>4, <1>6, <1>8, <2>1, <2>2
  <1> QED BY <1>7, <1>8

\* While a call is under way, the TPM takes its HMAC exactly when the Session
\* is in step with its slot, both sides have derived one key, and the auth value
\* is right, or not needed because the session is bound to the object:
\* Session::command_auth and the TPM compute one HMAC.  A Session kept after its
\* slot was flushed is worth nothing on a later session with the same handle,
\* and one that is bound to an entity without an auth value, for which
\* Session::new derives no key, is worth nothing at all (AuthDecidesAcceptance).
THEOREM HmacDecidesAcceptance ==
  ASSUME NoStrayPlainReply
  PROVE  Spec => []AuthDecidesAcceptance
  <1>1. TypeInv /\ AuthInv /\ NewerInv /\ SyncInv => AuthDecidesAcceptance
    <2> SUFFICES ASSUME TypeInv, AuthInv, NewerInv, SyncInv, pc \in {"send", "sent"}, frame.mode = "session"
                 PROVE  Accepts(frame) <=>
                          /\ InStep(ctx.slot) /\ ~Keyless(ctx.slot)
                          /\ RightAuth(ctx.slot, frame.names[1], ctx.auth)
      BY DEF AuthDecidesAcceptance
    <2>1. PICK o \in Objects : frame.names = Name(o)
      BY DEF TypeInv, frame
    <2>2. PICK t : t = sess[ctx.slot]
      OBVIOUS
    <2>3. PICK h : h = t.handle
      OBVIOUS
    <2>4. ctx.slot \in Slots /\ h \in Handles /\ ctx.auth \in Seq(Secrets) /\ frame.names[1] = o
      <3>1. ctx.slot \in Slots
        BY DEF AuthInv
      <3>2. h \in Handles
        BY <2>2, <2>3 DEF SyncInv, EntryOf
      <3>3. ctx.auth \in Seq(Secrets)
        BY DEF TypeInv, TypeOK
      <3> QED BY <2>1, <3>1, <3>2, <3>3 DEF Name
    <2>5. Accepts(frame) <=>
            /\ InUse(h) /\ tsess[h].nonce = t.nonce_tpm
            /\ TpmKey(h, o) = hmac_key(t.session_key, t.bound_name, ctx.auth, Name(o))
      BY <2>1, <2>2, <2>3, AcceptsEntry
    <2>6. InUse(h) /\ tsess[h].nonce = t.nonce_tpm <=> InStep(ctx.slot)
      <3>1. InUse(h) /\ tsess[h].nonce = t.nonce_tpm => tsess[h].id = t.id
        BY <2>2, <2>4 DEF SyncInv, SameSession
      <3> QED BY <2>2, <2>3, <2>4, <3>1 DEF InStep, StillThere, InUse
    <2>7. InStep(ctx.slot) => KeysAgree(tsess[h], t)
      BY <2>2, <2>3, <2>4 DEF InStep, StillThere, InUse, SyncInv, SameSession
    <2>8. KeysAgree(tsess[h], t) =>
            (TpmKey(h, o) = hmac_key(t.session_key, t.bound_name, ctx.auth, Name(o))
               <=> ~Keyless(ctx.slot) /\ RightAuth(ctx.slot, o, ctx.auth))
      BY <2>2, <2>4, KeysMeet
    <2> QED BY <2>4, <2>5, <2>6, <2>7, <2>8
  <1> QED BY SyncInvariant, <1>1, PTL

-----------------------------------------------------------------------------
(* A link that repeats nothing and leaves the tags.  On it a reply is      *)
(* lost, or belongs to the call in progress and is damaged or not; what is *)
(* lost or damaged shows in the call's result.                             *)

OwnReplies == Faults \cap {"late", "stale", "retag"} = {}

\* The errors of run that leave open whether the TPM executed the call.
LostKinds == {"Transport", "Protocol", "Malformed"}

\* A step that leaves the slots, the executions and what the Sessions stand
\* for; a call of a session, or one that starts a session, which returns by
\* such a step though it was executed, returns an error that does not tell.
Kept ==
  /\ KeepsSessions /\ UNCHANGED << tsess, execs >>
  /\ pc # "idle" /\ pc' # "idle" => CallGoesOn
  /\ pc = "idle" /\ pc' # "idle" =>
       pc' = "send" /\ calls' = calls + 1 /\ (frames'[calls'].code = StartAuthSession => ctx'.slot \in Slots)
  /\ pc # "idle" /\ pc' = "idle" /\ ExecutionsOf(calls) # {} =>
       /\ frame.mode = "session" => results'[calls].kind \in LostKinds
       /\ frame.code = StartAuthSession => results'[calls].kind \in LostKinds \cup {"Usage"}
  /\ pc' = "replied" /\ resp'.tag = "SESSIONS" => pc = "replied" /\ resp.tag = "SESSIONS"
  /\ pc' = "replied" /\ Starts(resp') =>
       /\ pc = "replied" /\ Starts(resp) /\ resp'.by = resp.by
       /\ resp'.handles \in {resp.handles, <<>>}

\* The other steps.
Answered(h) ==
  /\ pc = "sent" /\ pc' = "replied" /\ Executes(calls, h) /\ resp' = ReplyTo(calls, h)
  /\ UNCHANGED << sess, calls, ctx, frames, results >>

Absorbed ==
  /\ pc = "replied" /\ pc' = "idle" /\ frame.mode = "session" /\ parse_response(resp) = "Ok"
  /\ sess' = [sess EXCEPT ![ctx.slot] = absorb(@, resp)]
  /\ UNCHANGED << tsess, tctr, execs >>

Opened(h) ==
  /\ pc = "replied" /\ pc' = "idle" /\ frame.code = StartAuthSession /\ parse_response(resp) = "Ok"
  /\ resp.handles # <<>> => h = resp.handles[1]
  /\ sess' = [sess EXCEPT ![ctx.slot] = SessionFrom(resp, h)]
  /\ results'[calls].kind = "Ok" /\ results'[calls].params = HandedOn(resp)
  /\ UNCHANGED << calls, tsess, tctr, execs >>

Adopted ==
  /\ "adopt" \in Uses
  /\ \E s \in Slots, h \in Handles, b \in {<<>>} \cup {Name(o) : o \in Objects}, salt \in Salts :
       adopt_session(s, h, b, salt)

\* What run has built and returned stays; only the call in progress returns.
LEMMA PastStays ==
  ASSUME TypeInv, NonceInv, [Next]_vars
  PROVE  \A c \in CallIds : c <= calls =>
           /\ frames'[c] = frames[c]
           /\ results'[c] = results[c] \/ (c = calls /\ pc # "idle" /\ pc' = "idle")
  <1>0. /\ calls \in Nat
        /\ results \in [CallIds -> Result]
    BY DEF TypeInv, TypeOK
  <1>1. frames' = frames \/ \E f, x : Begin(f, x)
    BY DEF vars, Next, Client, start_auth_session, start_hmac_session, StartCall, flush_context,
           run_none, run_password, run_session, set_attributes, adopt_session,
           Loop, Proceed, Transmit, TransmitFails, Resubmit, ReceiveError, ReceiveOk, ReceiveStarted,
           ReceiveStartCut, Tpm, TpmExecutes, TpmNotReady, TpmRefuses, Answer,
           Environment, LateCommand, StaleReply, Garble, Retag, Damages, OtherStarts, OtherFlushes, client
  <1>2. \A c \in CallIds : c <= calls => frames'[c] = frames[c]
    BY <1>0, <1>1, OldFramesStay DEF CallIds
  <1>3. StepOfRun
    BY StepsOfRun
  <1>4. results' = results \/ CallRejected \/ \E kind, rc, params, by : CallReturns(kind, rc, params, by)
    BY <1>3 DEF StepOfRun, CallBegins, FrameGoesOut, TpmAnswers, ReplyDamaged, Repeated, NothingHappens
  <1>5. ASSUME NEW c \in CallIds, c <= calls
        PROVE  results'[c] = results[c] \/ (c = calls /\ pc # "idle" /\ pc' = "idle")
    <2>1. CASE CallRejected
      BY <1>0, <1>5, <2>1 DEF CallRejected, CallIds
    <2>2. ASSUME NEW kind, NEW rc, NEW params, NEW by, CallReturns(kind, rc, params, by)
          PROVE  results'[c] = results[c] \/ (c = calls /\ pc # "idle" /\ pc' = "idle")
      BY <1>0, <1>5, <2>2 DEF CallReturns, Return
    <2> QED BY <1>4, <2>1, <2>2
  <1> QED BY <1>2, <1>5

\* Every step is one of these, on such a link.
LEMMA StepsOfSession ==
  ASSUME OwnReplies, TypeInv, NonceInv, AuthInv, NewerInv, PromiseInv, [Next]_vars
  PROVE  \/ Kept \/ Absorbed \/ Adopted
         \/ \E h \in Handles : Answered(h) \/ OtherStarts(h) \/ OtherFlushes(h) \/ Opened(h)
  <1>a. sess \in [Slots -> SessionOf(Handles \cup {RH_NULL})]
    BY DEF TypeInv, TypeOK
  <1>b. results \in [CallIds -> Result] /\ frames \in [CallIds -> Frame]
    BY DEF TypeInv, TypeOK
  <1>c. resp \in Reply
    BY DEF TypeInv, TypeOK
  <1>d. pc # "idle" => calls \in CallIds
    BY DEF TypeInv
  <1>e. frame.mode # "none" /\ pc # "idle" => frame.code # StartAuthSession
    BY <1>d, CodesAreApart DEF TypeInv, frame, StartAuthSession
  <1>k. sess' = sess => KeepsSessions
    BY DEF KeepsSessions
  <1>r. ASSUME pc # "idle", NEW kind, NEW rc, NEW params, NEW by, Return(kind, rc, params, by)
        PROVE  results'[calls].kind = kind /\ results'[calls].params = params /\ pc' = "idle"
    BY <1>b, <1>d, <1>r DEF Return
  <1>1. CASE UNCHANGED vars
    <2>1. Kept
      BY <1>1, <1>k DEF vars, Kept, CallGoesOn
    <2> QED BY <2>1
  <1>2. CASE Client
    <2>1. ASSUME NEW f, NEW x, Begin(f, x), KeepsSessions, f.code = StartAuthSession => x.slot \in Slots
          PROVE  Kept
      <3>1. pc = "idle" /\ pc' = "send" /\ calls' = calls + 1 /\ ctx' = x /\ UNCHANGED << tsess, execs >>
        BY <2>1 DEF Begin, device
      <3>2. frames'[calls'] = f
        BY <1>b, <2>1, OldFramesStay DEF Begin
      <3> QED BY <2>1, <3>1, <3>2 DEF Kept
    <2>2. ASSUME NEW s \in Slots, NEW alg \in Algs, StartCall(s, alg)
          PROVE  Kept
      BY <1>k, <2>1, <2>2 DEF StartCall
    <2>3. ASSUME pc = "idle", pc' = "idle", KeepsSessions, UNCHANGED << tsess, execs >>
          PROVE  Kept
      BY <2>3 DEF Kept
    <2>4. ASSUME NEW s \in Slots, NEW alg \in Algs, start_hmac_session(s, alg)
          PROVE  Kept
      BY <1>k, <2>2, <2>3, <2>4 DEF start_hmac_session, device
    <2>5. ASSUME NEW s \in Slots, flush_context(s)
          PROVE  Kept
      <3>1. FlushContext # StartAuthSession
        BY DEF FlushContext, StartAuthSession
      <3> QED BY <1>k, <2>1, <2>5, <3>1 DEF flush_context, PlainFrame
    <2>6. \A code \in Codes : code # StartAuthSession
      BY CodesAreApart DEF StartAuthSession
    <2>7. ASSUME NEW code \in Codes, run_none(code)
          PROVE  Kept
      BY <1>k, <2>1, <2>6, <2>7 DEF run_none, PlainFrame
    <2>8. ASSUME NEW code \in Codes, NEW o \in Objects, NEW a \in AuthValues, run_password(code, o, a)
          PROVE  Kept
      BY <1>k, <2>1, <2>6, <2>8 DEF run_password
    <2>9. ASSUME NEW s \in Slots, NEW code \in Codes, NEW o \in Objects, NEW a \in AuthValues,
                 run_session(s, code, o, a)
          PROVE  Kept
      <3>1. sess' = [sess EXCEPT ![s] = [sess[s] EXCEPT !.nonce_caller = FreshNonce]]
        BY <2>9 DEF run_session, command_auth
      <3>2. KeepsSessions
        BY <1>a, <3>1 DEF KeepsSessions, SessionOf
      <3>3. PICK f, x : Begin(f, x) /\ f.code = code
        BY <2>9 DEF run_session
      <3> QED BY <2>1, <2>6, <3>2, <3>3
    <2>10. ASSUME NEW s \in Slots, NEW attributes \in SUBSET Attributes, set_attributes(s, attributes)
           PROVE  Kept
      <3>1. KeepsSessions
        BY <1>a, <2>10 DEF set_attributes, KeepsSessions, SessionOf
      <3> QED BY <2>3, <2>10, <3>1 DEF set_attributes, device
    <2> QED
      BY <1>2, <2>2, <2>4, <2>5, <2>7, <2>8, <2>9, <2>10 DEF Client, start_auth_session, Adopted
  <1>3. CASE Loop
    <2>1. ASSUME UNCHANGED << sess, tsess, execs >>, pc # "idle", pc' # "replied", pc' # "idle",
                 CallGoesOn
          PROVE  Kept
      BY <1>k, <2>1 DEF Kept
    <2>2. ASSUME UNCHANGED << sess, tsess, execs >>, pc # "idle", pc' = "idle",
                 ExecutionsOf(calls) # {} =>
                   /\ frame.mode = "session" => results'[calls].kind \in LostKinds
                   /\ frame.code = StartAuthSession => results'[calls].kind \in LostKinds \cup {"Usage"}
          PROVE  Kept
      BY <1>k, <2>2 DEF Kept
    <2>3. CASE Transmit
      BY <2>1, <2>3 DEF Transmit, CallGoesOn, device
    <2>4. CASE TransmitFails
      BY <1>r, <2>2, <2>4 DEF TransmitFails, LostKinds, device
    <2>5. CASE Resubmit
      BY <2>1, <2>5 DEF Resubmit, CallGoesOn, device
    <2>6. CASE ReceiveError
      <3>1. parse_response(resp) \in LostKinds \cup {"Tpm"}
        BY <1>c, <2>6, ParseType DEF ReceiveError, LostKinds
      <3>2. parse_response(resp) = "Tpm" => ExecutionsOf(calls) = {}
        BY <1>c, <2>6, ParseTellsSuccess DEF ReceiveError, PromiseInv
      <3> QED BY <1>r, <2>2, <2>6, <3>1, <3>2 DEF ReceiveError, device
    <2>7. CASE ReceiveOk
      <3>0. /\ pc = "replied" /\ parse_response(resp) = "Ok" /\ frame.code # StartAuthSession
            /\ sess' = SessionAfter(resp) /\ UNCHANGED << tsess, tctr, execs >> /\ pc' = "idle"
        BY <1>r, <2>7 DEF ReceiveOk, device
      <3>1. CASE frame.mode = "session"
        <4>1. resp.tag = "SESSIONS"
          BY <3>0, <3>1, VerifiedIsNewer
        <4>2. Absorbed
          BY <3>0, <3>1, <4>1 DEF SessionAfter, Absorbed
        <4> QED BY <4>2
      <3>2. CASE frame.mode # "session"
        BY <2>2, <3>0, <3>2 DEF SessionAfter
      <3> QED BY <3>1, <3>2
    <2>8. ASSUME NEW h \in Handles, ReceiveStarted(h)
          PROVE  Kept \/ Opened(h)
      <3>1. CASE ctx.alg \in HostAlgs
        BY <1>r, <2>8, <3>1 DEF ReceiveStarted, Opened, device
      <3>2. CASE ctx.alg \notin HostAlgs
        <4>1. results'[calls].kind = "Usage" /\ frame.mode # "session" /\ pc' = "idle"
          BY <1>e, <1>r, <2>8, <3>2 DEF ReceiveStarted
        <4> QED BY <2>2, <2>8, <3>2, <4>1 DEF ReceiveStarted, device
      <3> QED BY <3>1, <3>2
    <2>9. CASE ReceiveStartCut
      <3>1. results'[calls].kind = "Malformed" /\ pc' = "idle"
        BY <1>r, <2>9 DEF ReceiveStartCut
      <3> QED BY <2>2, <2>9, <3>1 DEF ReceiveStartCut, LostKinds, device
    <2> QED BY <1>3, <2>3, <2>4, <2>5, <2>6, <2>7, <2>8, <2>9 DEF Loop, Proceed
  <1>4. CASE Tpm
    <2>1. ASSUME NEW h \in Handles, TpmExecutes(h)
          PROVE  Answered(h)
      BY <2>1 DEF TpmExecutes, Answer, Answered
    <2>2. ASSUME NEW rc, rc # SUCCESS, pc = "sent", Answer(ErrorReply(rc)), UNCHANGED device
          PROVE  Kept
      <3>1. ErrorReply(rc).rc # SUCCESS /\ ErrorReply(rc).tag = "NO_SESSIONS"
        BY <2>2 DEF ErrorReply
      <3>2. /\ ~Starts(resp') /\ sess' = sess /\ CallGoesOn /\ UNCHANGED << tsess, execs >>
            /\ resp'.tag = "NO_SESSIONS"
        BY <2>2, <3>1 DEF Answer, Starts, CallGoesOn, device
      <3>3. pc' = "replied"
        BY <2>2 DEF Answer
      <3> QED BY <1>k, <2>2, <3>2, <3>3 DEF Kept
    <2>3. ASSUME NEW rc \in NotReadyCodes, TpmNotReady(rc)
          PROVE  Kept
      BY <2>2, <2>3, RefusalsAreFinal DEF TpmNotReady, TransientWarnings, SUCCESS
    <2>4. ASSUME NEW rc \in RefusalCodes \cup {AUTH_FAIL}, TpmRefuses(rc)
          PROVE  Kept
      BY <2>2, <2>4, RefusalsAreFinal DEF TpmRefuses, AUTH_FAIL, SUCCESS
    <2> QED BY <1>4, <2>1, <2>3, <2>4 DEF Tpm
  <1>5. CASE Environment
    <2>1. \A c, h : ~LateCommand(c, h)
      BY DEF OwnReplies, LateCommand
    <2>2. \A r : ~StaleReply(r)
      BY DEF OwnReplies, StaleReply
    <2>3. ASSUME NEW r, (r \in Damaged(resp) /\ Garble(r)) \/ (r = Retagged(resp) /\ Retag)
          PROVE  Kept
      <3>0. r \in Damaged(resp) /\ Damages(r)
        BY <2>3, DamagedReply DEF OwnReplies
      <3>1. /\ pc = "replied" /\ pc' = pc /\ resp' = r /\ resp.shape = "whole" /\ sess' = sess
            /\ CallGoesOn /\ UNCHANGED << tsess, execs >>
        BY <3>0 DEF Damages, client, device, CallGoesOn
      <3>2. r.rc = resp.rc /\ r.by = resp.by /\ r.tag = resp.tag
        BY <1>c, <3>0, DamagedType
      <3>3. r.handles \in {resp.handles, <<>>}
        BY <1>c, <3>0 DEF Damaged, Reply
      <3>4. Starts(resp') => Starts(resp)
        BY <3>1, <3>2 DEF Starts
      <3> QED BY <1>k, <3>1, <3>2, <3>3, <3>4 DEF Kept
    <2> QED BY <1>5, <2>1, <2>2, <2>3 DEF Environment, Garble, Retag
  <1> QED BY <1>1, <1>2, <1>3, <1>4, <1>5 DEF Next

-----------------------------------------------------------------------------
(* Falling out of step.                                                    *)

\* A Session whose slot is still there with another nonce.
Strayed(s) == StillThere(s) /\ tsess[sess[s].handle].nonce # sess[s].nonce_tpm

\* The execution that took the slot ahead of it: one of a call whose reply did
\* not arrive, or has not arrived yet ...
LeftBehind(e, s) ==
  /\ e.call \in BySession /\ frames[e.call].handle = sess[s].handle
  /\ SpentNonce(e.call) = sess[s].nonce_tpm /\ e.id = sess[s].id
  /\ \/ results[e.call].kind \in LostKinds
     \/ pc # "idle" /\ e.call = calls

\* ... or the one that opened it, if the reply told of another nonce.
NeverInStep(e, s) ==
  /\ frames[e.call].code = StartAuthSession /\ e.n = sess[s].id
  /\ results[e.call].params = "altered"

Explains(e, s) == LeftBehind(e, s) \/ NeverInStep(e, s)

\* Two Sessions never stand for one slot, so an execution strays no Session but
\* the one whose call it is; and at the moment of its reply the slot has the
\* nonce that reply carries.
StrayInv ==
  /\ \A s1, s2 \in Slots : sess[s1].id = sess[s2].id /\ sess[s1].id # 0 => s1 = s2
  /\ \A s \in Slots : Strayed(s) => \E e \in execs : Explains(e, s)
  /\ pc = "replied" /\ frame.mode = "session" =>
       \A e \in execs : e.call = calls /\ tsess[frame.handle].id = sess[ctx.slot].id =>
         tsess[frame.handle].nonce = e.n
  /\ pc = "replied" /\ Starts(resp) => \E e \in execs : e.call = calls /\ e.n = resp.by

\* An explanation lasts until the call returns, and after it, if the call
\* returns an error that does not tell or is a start.
LEMMA ExplanationStays ==
  ASSUME TypeInv, NonceInv, PromiseInv, [Next]_vars, NEW e \in execs, NEW s \in Slots, Explains(e, s),
         sess'[s].handle = sess[s].handle, sess'[s].id = sess[s].id,
         sess'[s].nonce_tpm = sess[s].nonce_tpm,
         pc # "idle" /\ pc' # "idle" => calls' = calls,
         pc # "idle" /\ pc' = "idle" /\ e.call = calls /\ frame.mode = "session"
           /\ e.id = sess[s].id => results'[calls].kind \in LostKinds
  PROVE  Explains(e, s)'
  <1>1. e.call \in CallIds /\ e.call <= calls
    BY DEF TypeInv, TypeOK, NonceInv
  <1>2. /\ frames'[e.call] = frames[e.call]
        /\ results'[e.call] = results[e.call] \/ (e.call = calls /\ pc # "idle" /\ pc' = "idle")
    BY <1>1, PastStays
  <1>3. CASE LeftBehind(e, s)
    <2>1. e.call \in BySession /\ e.call \in BySession' /\ SpentNonce(e.call)' = SpentNonce(e.call)
      BY <1>1, <1>2, <1>3 DEF LeftBehind, BySession, SpentNonce
    <2>2. e.call = calls => frame.mode = "session"
      BY <2>1 DEF BySession, frame
    <2>3. results'[e.call].kind \in LostKinds \/ (pc' # "idle" /\ e.call = calls')
      BY <1>2, <1>3, <2>2 DEF LeftBehind
    <2> QED BY <1>2, <1>3, <2>1, <2>3 DEF LeftBehind, Explains
  <1>4. CASE NeverInStep(e, s)
    <2>1. e.call = calls => pc = "idle"
      BY <1>4 DEF NeverInStep, PromiseInv, NoResult
    <2>2. results'[e.call] = results[e.call]
      BY <1>2, <2>1
    <2> QED BY <1>2, <1>4, <2>2 DEF NeverInStep, Explains
  <1> QED BY <1>3, <1>4 DEF Explains

LEMMA InitStrayInv == Init => StrayInv
  <1> SUFFICES ASSUME Init
               PROVE  StrayInv
    OBVIOUS
  <1>1. Dropped.id = 0
    BY DEF Dropped, new
  <1> QED BY <1>1 DEF Init, StrayInv, Strayed, StillThere

\* A step that leaves slots and Sessions.
LEMMA KeptStrayInv ==
  ASSUME TypeInv, NonceInv, PromiseInv, SyncInv, StrayInv, [Next]_vars, Kept
  PROVE  StrayInv'
  <1>0. KeepsSessions /\ UNCHANGED << tsess, execs >>
    BY DEF Kept
  <1>1. \A s \in Slots : Strayed(s)' <=> Strayed(s)
    BY <1>0 DEF KeepsSessions, Strayed, StillThere
  <1>2. ASSUME NEW s \in Slots, Strayed(s)'
        PROVE  \E e \in execs' : Explains(e, s)'
    <2>1. PICK e \in execs : Explains(e, s)
      BY <1>1, <1>2 DEF StrayInv
    <2>2. e.call = calls => ExecutionsOf(calls) # {}
      BY DEF ExecutionsOf
    <2>3. Explains(e, s)'
      BY <1>0, <2>1, <2>2, ExplanationStays DEF Kept, KeepsSessions, CallGoesOn
    <2> QED BY <1>0, <2>3
  <1>3. ASSUME pc' = "replied", frame'.mode = "session", NEW e \in execs', e.call = calls',
               tsess'[frame'.handle].id = sess'[ctx'.slot].id
        PROVE  tsess'[frame'.handle].nonce = e.n
    <2>1. pc # "idle" /\ CallGoesOn
      BY <1>3 DEF Kept
    <2>2. UNCHANGED << sess, ctx, calls, frame >>
      BY <2>1 DEF CallGoesOn, frame
    <2>3. ExecutionsOf(calls) # {}
      BY <1>0, <1>3, <2>2 DEF ExecutionsOf
    <2>4. pc = "replied"
      BY <2>1, <2>3 DEF PromiseInv, TypeInv, TypeOK
    <2> QED BY <1>0, <1>3, <2>2, <2>4 DEF StrayInv
  <1>4. \A s1, s2 \in Slots : sess'[s1].id = sess'[s2].id /\ sess'[s1].id # 0 => s1 = s2
    BY <1>0 DEF KeepsSessions, StrayInv
  <1>5. ASSUME pc' = "replied", Starts(resp)'
        PROVE  \E e \in execs' : e.call = calls' /\ e.n = resp'.by
    <2>1. pc # "idle" /\ CallGoesOn
      BY <1>5 DEF Kept
    <2>2. Starts(resp')
      BY <1>5, <2>1 DEF Starts, CallGoesOn, frame
    <2>3. pc = "replied" /\ Starts(resp) /\ resp'.by = resp.by
      BY <1>5, <2>2 DEF Kept
    <2> QED BY <1>0, <2>1, <2>3 DEF StrayInv, CallGoesOn
  <1> QED BY <1>2, <1>3, <1>4, <1>5 DEF StrayInv

\* The TPM executes the call in progress: if that takes a slot ahead, it is
\* that of the call's own Session.
LEMMA AnsweredStrayInv ==
  ASSUME TypeInv, NonceInv, AuthInv, NewerInv, PromiseInv, SyncInv, StrayInv, [Next]_vars,
         NEW h \in Handles, Answered(h)
  PROVE  StrayInv'
  <1>a. /\ tsess \in [Handles -> [id : Nat, nonce : Nat, key : Key, bound : Seq(Objects)]]
        /\ tctr \in Nat
    BY DEF TypeInv, TypeOK
  <1>b. sess \in [Slots -> SessionOf(Handles \cup {RH_NULL})]
    BY DEF TypeInv, TypeOK
  <1>0. /\ calls \in CallIds /\ Executes(calls, h) /\ pc = "sent" /\ pc' = "replied"
        /\ UNCHANGED << sess, calls, ctx, frames, results, frame >>
    BY DEF Answered, TypeInv, frame
  <1>d. \A s \in Slots : sess[s].id <= tctr /\ sess[s].id \in Nat
    BY <1>a, <1>b DEF NewerInv, Drawn, SessionOf
  <1>1. \A g \in Handles : g # h => tsess'[g] = tsess[g]
    BY <1>0, ExecutionOnSlot
  <1>2. PICK id \in Nat : /\ execs' = execs \cup {[call |-> calls, n |-> tctr + 1, id |-> id]}
                          /\ SlotAfter(calls, h, id)
    BY <1>0, ExecutionOnSlot
  <1>e. PICK e0 : e0 = [call |-> calls, n |-> tctr + 1, id |-> id]
    OBVIOUS
  <1>3. e0.call = calls /\ e0.n = tctr + 1 /\ e0.id = id /\ execs' = execs \cup {e0}
    BY <1>2, <1>e
  <1>4. FreeSlot.id = 0 /\ FirstSlot(tctr + 1).id = tctr + 1
    BY DEF FreeSlot, FirstSlot
  <1>5. ASSUME calls \in BySession
        PROVE  /\ h = frame.handle /\ ctx.slot \in Slots /\ sess[ctx.slot].handle = h
               /\ SpentNonce(calls) = sess[ctx.slot].nonce_tpm /\ id = sess[ctx.slot].id
               /\ id = tsess[h].id /\ id # 0
    <2>1. /\ h = frame.handle /\ InUse(h) /\ id = tsess[h].id /\ SpentNonce(calls) = tsess[h].nonce
          /\ frame.mode = "session"
      BY <1>2, <1>5 DEF SlotAfter, frame, BySession
    <2>2. ctx.slot \in Slots
      BY <1>0, <2>1 DEF AuthInv
    <2>3. SpentNonce(calls) = sess[ctx.slot].nonce_tpm
      BY <1>0, <2>1 DEF NewerInv
    <2>4. sess[ctx.slot].handle = h
      BY <1>0, <2>1 DEF SyncInv, EntryOf
    <2>5. tsess[h].id = sess[ctx.slot].id
      BY <2>1, <2>2, <2>3 DEF SyncInv, SameSession
    <2> QED BY <2>1, <2>2, <2>3, <2>4, <2>5 DEF InUse
  <1>6. ASSUME NEW s \in Slots, Strayed(s)'
        PROVE  \E e \in execs' : Explains(e, s)'
    <2> DEFINE g == sess[s].handle
    <2>1. /\ g \in Handles /\ sess[s].id # 0
          /\ tsess'[g].id = sess[s].id /\ tsess'[g].nonce # sess[s].nonce_tpm
      BY <1>0, <1>6 DEF Strayed, StillThere
    <2>2. CASE tsess'[g] = tsess[g]
      <3>1. Strayed(s)
        BY <2>1, <2>2 DEF Strayed, StillThere
      <3>2. PICK e \in execs : Explains(e, s)
        BY <3>1 DEF StrayInv
      <3>3. Explains(e, s)'
        BY <1>0, <3>2, ExplanationStays
      <3> QED BY <1>3, <3>3
    <2>3. CASE tsess'[g] # tsess[g]
      <3>1. g = h /\ tsess'[h].id = sess[s].id
        BY <1>1, <2>1, <2>3
      <3>2. sess[s].id # 0 /\ sess[s].id # tctr + 1
        BY <1>a, <1>d, <2>1
      <3>3. calls \in BySession /\ tsess'[h] = [tsess[h] EXCEPT !.nonce = tctr + 1]
        BY <1>2, <1>4, <2>3, <3>1, <3>2 DEF SlotAfter
      <3>4. sess[s].id = sess[ctx.slot].id /\ ctx.slot \in Slots
        BY <1>a, <1>5, <3>1, <3>3
      <3>5. s = ctx.slot
        BY <3>2, <3>4 DEF StrayInv
      <3>6. SpentNonce(calls)' = SpentNonce(calls) /\ calls \in BySession'
        BY <1>0, <3>3 DEF SpentNonce, BySession
      <3>7. Explains(e0, s)'
        BY <1>0, <1>3, <1>5, <3>3, <3>5, <3>6 DEF Explains, LeftBehind, frame
      <3> QED BY <1>3, <3>7
    <2> QED BY <2>2, <2>3
  <1>7. ASSUME frame.mode = "session", NEW e \in execs', e.call = calls,
               tsess'[frame.handle].id = sess[ctx.slot].id
        PROVE  tsess'[frame.handle].nonce = e.n
    <2>1. calls \in BySession
      BY <1>0, <1>7 DEF BySession, frame
    <2>2. e = e0
      BY <1>0, <1>3, <1>7 DEF PromiseInv, ExecutionsOf
    <2>3. tsess'[h].id # 0
      BY <1>5, <1>7, <2>1
    <2>4. tsess'[h] = [tsess[h] EXCEPT !.nonce = tctr + 1]
      BY <1>2, <1>4, <2>1, <2>3 DEF SlotAfter
    <2>5. tsess'[h].nonce = tctr + 1
      BY <1>a, <2>4
    <2> QED BY <1>3, <1>5, <2>1, <2>2, <2>5
  <1>8. ASSUME Starts(resp)'
        PROVE  \E e \in execs' : e.call = calls' /\ e.n = resp'.by
    <2>1. resp'.by = tctr + 1
      BY DEF Answered, ReplyTo
    <2> QED BY <1>0, <1>3, <2>1
  <1> QED BY <1>0, <1>6, <1>7, <1>8 DEF StrayInv

\* Another client's session has an id of its own.
LEMMA OtherStrayInv ==
  ASSUME TypeInv, NonceInv, AuthInv, NewerInv, PromiseInv, SyncInv, StrayInv, [Next]_vars,
         NEW h \in Handles, OtherStarts(h) \/ OtherFlushes(h)
  PROVE  StrayInv'
  <1>a. /\ tsess \in [Handles -> [id : Nat, nonce : Nat, key : Key, bound : Seq(Objects)]]
        /\ tctr \in Nat
    BY DEF TypeInv, TypeOK
  <1>b. sess \in [Slots -> SessionOf(Handles \cup {RH_NULL})]
    BY DEF TypeInv, TypeOK
  <1>d. \A s \in Slots : sess[s].id <= tctr /\ sess[s].id \in Nat
    BY <1>a, <1>b DEF NewerInv, Drawn, SessionOf
  <1>1. /\ UNCHANGED << sess, calls, ctx, frames, results, pc, resp, execs, frame >>
        /\ \A g \in Handles : tsess'[g] = tsess[g] \/ tsess'[g].id \in {0, tctr + 1}
    BY <1>a DEF OtherStarts, OtherFlushes, client, FreeSlot, frame
  <1>2. ASSUME NEW s \in Slots, sess[s].handle \in Handles, sess[s].id # 0,
               tsess'[sess[s].handle].id = sess[s].id
        PROVE  tsess'[sess[s].handle] = tsess[sess[s].handle]
    <2>1. sess[s].id # tctr + 1
      BY <1>a, <1>d
    <2> QED BY <1>1, <1>2, <2>1
  <1>3. ASSUME NEW s \in Slots, Strayed(s)'
        PROVE  \E e \in execs' : Explains(e, s)'
    <2>1. Strayed(s)
      BY <1>1, <1>2, <1>3 DEF Strayed, StillThere
    <2>2. PICK e \in execs : Explains(e, s)
      BY <2>1 DEF StrayInv
    <2>3. Explains(e, s)'
      BY <1>1, <2>2, ExplanationStays
    <2> QED BY <1>1, <2>3
  <1>4. ASSUME pc = "replied", frame.mode = "session", NEW e \in execs, e.call = calls,
               tsess'[frame.handle].id = sess[ctx.slot].id
        PROVE  tsess'[frame.handle].nonce = e.n
    <2>1. sess[ctx.slot].handle \in Handles /\ frame.handle = sess[ctx.slot].handle
      BY <1>4 DEF SyncInv, EntryOf
    <2>2. ctx.slot \in Slots /\ sess[ctx.slot].id # 0
      <3>1. ctx.slot \in Slots
        BY <1>4 DEF AuthInv
      <3>2. SpentNonce(calls) = sess[ctx.slot].nonce_tpm
        BY <1>4 DEF NewerInv
      <3>3. calls \in BySession
        BY <1>4 DEF BySession, frame, TypeInv
      <3>4. SpentNonce(calls) # 0
        BY <1>4, <3>3 DEF NewerInv
      <3> QED BY <3>1, <3>2, <3>4 DEF NewerInv, Drawn
    <2>3. tsess'[frame.handle] = tsess[frame.handle]
      BY <1>2, <1>4, <2>1, <2>2
    <2> QED BY <1>4, <2>3 DEF StrayInv
  <1>5. Starts(resp)' <=> Starts(resp)
    BY <1>1 DEF Starts
  <1> QED BY <1>1, <1>3, <1>4, <1>5 DEF StrayInv

\* A verified reply brings its Session level with the slot.
LEMMA AbsorbedStrayInv ==
  ASSUME TypeInv, NonceInv, AuthInv, NewerInv, PromiseInv, SyncInv, StrayInv, [Next]_vars, Absorbed
  PROVE  StrayInv'
  <1>0. sess \in [Slots -> SessionOf(Handles \cup {RH_NULL})]
    BY DEF TypeInv, TypeOK
  <1>1. /\ pc = "replied" /\ pc' = "idle" /\ frame.mode = "session" /\ parse_response(resp) = "Ok"
        /\ UNCHANGED << tsess, execs >>
    BY DEF Absorbed
  <1>2. ctx.slot \in Slots
    BY <1>1 DEF AuthInv
  <1>3. \A s \in Slots :
          /\ sess'[s].handle = sess[s].handle /\ sess'[s].id = sess[s].id
          /\ s # ctx.slot => sess'[s].nonce_tpm = sess[s].nonce_tpm
          /\ s = ctx.slot => sess'[s].nonce_tpm = resp.nonce_tpm
    BY <1>0, <1>2 DEF Absorbed, absorb, SessionOf
  <1>4. PICK e0 \in execs : e0.call = calls /\ e0.n = resp.nonce_tpm
    BY <1>1, VerifiedIsNewer
  <1>5. sess[ctx.slot].handle \in Handles /\ frame.handle = sess[ctx.slot].handle
    BY <1>1 DEF SyncInv, EntryOf
  <1>6. \A s \in Slots : Strayed(s)' => s # ctx.slot
    <2>1. tsess[frame.handle].id = sess[ctx.slot].id => tsess[frame.handle].nonce = resp.nonce_tpm
      BY <1>1, <1>4 DEF StrayInv
    <2> QED BY <1>1, <1>3, <1>5, <2>1 DEF Strayed, StillThere
  <1>7. ASSUME NEW s \in Slots, Strayed(s)'
        PROVE  \E e \in execs' : Explains(e, s)'
    <2>1. s # ctx.slot
      BY <1>6, <1>7
    <2>2. Strayed(s)
      BY <1>1, <1>3, <1>7, <2>1 DEF Strayed, StillThere
    <2>3. PICK e \in execs : Explains(e, s)
      BY <2>2 DEF StrayInv
    <2>4. e.call = calls => e.id # sess[s].id
      <3>1. sess[s].id # 0
        BY <2>2 DEF Strayed, StillThere
      <3>2. e.call = calls => e.id = sess[ctx.slot].id
        BY <1>1 DEF SyncInv
      <3> QED BY <1>2, <2>1, <3>1, <3>2 DEF StrayInv
    <2>5. Explains(e, s)'
      BY <1>1, <1>3, <2>1, <2>3, <2>4, ExplanationStays
    <2> QED BY <1>1, <2>5
  <1>8. \A s1, s2 \in Slots : sess'[s1].id = sess'[s2].id /\ sess'[s1].id # 0 => s1 = s2
    BY <1>3 DEF StrayInv
  <1> QED BY <1>1, <1>7, <1>8 DEF StrayInv

\* A Session that has just been started is level with its slot, unless the
\* reply was damaged.
LEMMA OpenedStrayInv ==
  ASSUME TypeInv, NonceInv, NewerInv, PromiseInv, SyncInv, StrayInv, [Next]_vars,
         NEW h \in Handles, Opened(h)
  PROVE  StrayInv'
  <1>0. sess \in [Slots -> SessionOf(Handles \cup {RH_NULL})]
    BY DEF TypeInv, TypeOK
  <1>1. /\ pc = "replied" /\ pc' = "idle" /\ parse_response(resp) = "Ok"
        /\ frame.code = StartAuthSession /\ UNCHANGED << calls, tsess, execs >> /\ calls \in CallIds
        /\ results'[calls].params = HandedOn(resp)
    BY DEF Opened, TypeInv
  <1>2. PICK t : t = SessionFrom(resp, h)
    OBVIOUS
  <1>3. t.id = OpenedBy(resp) /\ t.nonce_tpm = FirstNonce(resp) /\ t.handle = h
    BY <1>2, SessionFromFields
  <1>4. \A s \in Slots : IF s = ctx.slot THEN sess'[s] = t ELSE sess'[s] = sess[s]
    BY <1>0, <1>2 DEF Opened
  <1>5. resp.by \in Nat /\ resp \in Reply /\ \A s \in Slots : sess[s].id \in Nat
    BY <1>0 DEF TypeInv, TypeOK, Reply, SessionOf
  <1>6. t.id # 0 => /\ Starts(resp) /\ t.id = resp.by /\ resp.nonce_tpm = resp.by
                    /\ t.nonce_tpm \in {0, resp.by}
                    /\ \A s \in Slots : sess[s].id < resp.by
    BY <1>1, <1>3, StartedIsNewer
  <1>7. \A s1, s2 \in Slots : sess'[s1].id = sess'[s2].id /\ sess'[s1].id # 0 => s1 = s2
    BY <1>4, <1>5, <1>6 DEF StrayInv
  <1>8. \A c \in CallIds : c <= calls => frames'[c] = frames[c]
    BY PastStays
  <1>9. ASSUME NEW s \in Slots, Strayed(s)'
        PROVE  \E e \in execs' : Explains(e, s)'
    <2>1. CASE s = ctx.slot
      <3>1. sess'[s] = t /\ t.id # 0 /\ tsess[h].id = t.id /\ tsess[h].nonce # t.nonce_tpm
        BY <1>1, <1>3, <1>4, <1>9, <2>1 DEF Strayed, StillThere
      <3>2. Awaited(resp.by)
        BY <1>1, <1>6, <3>1 DEF SyncInv
      <3>3. tsess[h].nonce = resp.by
        BY <1>6, <3>1, <3>2 DEF Awaited, InUse, FirstSlot
      <3>4. FirstNonce(resp) # resp.by
        BY <1>3, <3>1, <3>3
      <3>5. HandedOn(resp) = "altered"
        <4>1. resp.tag = "NO_SESSIONS"
          BY <1>6, <3>1 DEF Starts
        <4> QED BY <1>5, <1>6, <3>1, <3>4, <4>1 DEF FirstNonce, HandedOn, Reply
      <3>6. PICK e \in execs : e.call = calls /\ e.n = resp.by
        BY <1>1, <1>6, <3>1 DEF StrayInv
      <3>7. frames'[calls] = frames[calls]
        BY <1>1, <1>8 DEF CallIds
      <3>8. NeverInStep(e, s)'
        BY <1>1, <1>6, <3>1, <3>5, <3>6, <3>7 DEF NeverInStep, frame
      <3> QED BY <1>1, <3>6, <3>8 DEF Explains
    <2>2. CASE s # ctx.slot
      <3>1. sess'[s] = sess[s]
        BY <1>4, <2>2
      <3>2. Strayed(s)
        BY <1>1, <1>9, <3>1 DEF Strayed, StillThere
      <3>3. PICK e \in execs : Explains(e, s)
        BY <3>2 DEF StrayInv
      <3>4. frame.mode # "session"
        BY <1>1, CodesAreApart DEF TypeInv, frame, StartAuthSession
      <3>5. Explains(e, s)'
        BY <1>1, <3>1, <3>3, <3>4, ExplanationStays
      <3> QED BY <1>1, <3>5
    <2> QED BY <2>1, <2>2
  <1> QED BY <1>1, <1>7, <1>9 DEF StrayInv

\* One that is adopted is, in a slot no other Session stands for.
LEMMA AdoptedStrayInv ==
  ASSUME TypeInv, NonceInv, NewerInv, PromiseInv, SyncInv, StrayInv, [Next]_vars,
         NEW s \in Slots, NEW h \in Handles, NEW b, NEW salt, adopt_session(s, h, b, salt)
  PROVE  StrayInv'
  <1>a. /\ tsess \in [Handles -> [id : Nat, nonce : Nat, key : Key, bound : Seq(Objects)]]
        /\ tctr \in Nat
    BY DEF TypeInv, TypeOK
  <1>b. sess \in [Slots -> SessionOf(Handles \cup {RH_NULL})]
    BY DEF TypeInv, TypeOK
  <1>d. \A q \in Slots : sess[q].id <= tctr /\ sess[q].id \in Nat
    BY <1>a, <1>b DEF NewerInv, Drawn, SessionOf
  <1> DEFINE ba == IF b = <<>> THEN <<>> ELSE AuthOf[b[1]]
             t == new(h, tctr + 1, FreshNonce, {"CONTINUE_SESSION"}, ba, b, salt)
             w == [id |-> tctr + 1, nonce |-> tctr + 1, bound |-> b,
                   key |-> SessionKeyOf(b, salt, tctr + 1, FreshNonce)]
  <1>1. /\ sess' = [sess EXCEPT ![s] = t] /\ tsess' = [tsess EXCEPT ![h] = w]
        /\ pc = "idle" /\ pc' = "idle" /\ execs' = execs
    BY DEF adopt_session
  <1>2. t.id = tctr + 1 /\ t.nonce_tpm = tctr + 1 /\ t.handle = h
    BY DEF new
  <1>3. w.id = tctr + 1 /\ w.nonce = tctr + 1
    OBVIOUS
  <1> HIDE DEF t, w, ba
  <1>4. \A q \in Slots : IF q = s THEN sess'[q] = t ELSE sess'[q] = sess[q]
    BY <1>b, <1>1
  <1>5. \A g \in Handles : IF g = h THEN tsess'[g] = w ELSE tsess'[g] = tsess[g]
    BY <1>a, <1>1
  <1>6. \A q1, q2 \in Slots : sess'[q1].id = sess'[q2].id /\ sess'[q1].id # 0 => q1 = q2
    BY <1>a, <1>d, <1>2, <1>4 DEF StrayInv
  <1>7. ASSUME NEW q \in Slots, Strayed(q)'
        PROVE  \E e \in execs' : Explains(e, q)'
    <2>1. q # s
      BY <1>2, <1>3, <1>4, <1>5, <1>7 DEF Strayed, StillThere
    <2>2. sess'[q] = sess[q]
      BY <1>4, <2>1
    <2>3. Strayed(q)
      BY <1>a, <1>d, <1>3, <1>5, <1>7, <2>2 DEF Strayed, StillThere
    <2>4. PICK e \in execs : Explains(e, q)
      BY <2>3 DEF StrayInv
    <2>5. Explains(e, q)'
      BY <1>1, <2>2, <2>4, ExplanationStays
    <2> QED BY <1>1, <2>5
  <1> QED BY <1>1, <1>6, <1>7 DEF StrayInv

\* Every step keeps the invariant.
LEMMA NextStrayInv ==
  ASSUME OwnReplies, TypeInv, NonceInv, AuthInv, NewerInv, PromiseInv, SyncInv, StrayInv, [Next]_vars
  PROVE  StrayInv'
  BY StepsOfSession, KeptStrayInv, AnsweredStrayInv, OtherStrayInv, AbsorbedStrayInv,
     OpenedStrayInv, AdoptedStrayInv
  DEF Adopted

\* On a link that repeats nothing the invariants hold together.
LEMMA StrayInvariant ==
  ASSUME OwnReplies
  PROVE  Spec => []((TypeInv /\ NonceInv /\ AuthInv /\ NewerInv) /\ PromiseInv /\ SyncInv /\ StrayInv)
  <1>1. NoStrayPlainReply
    BY DEF OwnReplies, NoStrayPlainReply
  <1>2. Spec => [](TypeInv /\ NonceInv /\ AuthInv /\ NewerInv /\ SyncInv)
    BY <1>1, SyncInvariant
  <1>3. Spec => [](TypeInv /\ NonceInv /\ PromiseInv)
    BY PromiseInvariant DEF OwnReplies
  <1>4. TypeInv /\ NonceInv /\ AuthInv /\ NewerInv /\ PromiseInv /\ SyncInv /\ StrayInv /\ [Next]_vars
          => StrayInv'
    BY NextStrayInv
  <1> QED BY InitStrayInv, <1>2, <1>3, <1>4, PTL DEF Spec

\* A Session whose slot is still there is in step with it; or a call that the
\* TPM executed on the very nonce the Session holds ended in an error that does
\* not come from the TPM; or the unverified reply to its start was damaged
\* (OutOfStepOnlyAfterLostReply): no reply that reached verify_response, and no
\* refusal, puts a Session out of step.
THEOREM OnlyLostRepliesStray ==
  ASSUME OwnReplies
  PROVE  Spec => []OutOfStepOnlyAfterLostReply
  <1>1. StrayInv => OutOfStepOnlyAfterLostReply
    <2> SUFFICES ASSUME StrayInv, pc = "idle", NEW s \in Slots, StillThere(s), ~InStep(s)
                 PROVE  \E e \in execs :
                          \/ /\ frames[e.call].mode = "session" /\ frames[e.call].handle = sess[s].handle
                             /\ SpentNonce(e.call) = sess[s].nonce_tpm
                             /\ results[e.call].kind \in {"Transport", "Protocol", "Malformed"}
                          \/ /\ frames[e.call].code = StartAuthSession /\ e.n = sess[s].id
                             /\ results[e.call].params = "altered"
      BY DEF OutOfStepOnlyAfterLostReply
    <2>1. Strayed(s)
      BY DEF Strayed, InStep
    <2>2. PICK e \in execs : Explains(e, s)
      BY <2>1 DEF StrayInv
    <2> QED BY <2>2 DEF Explains, LeftBehind, NeverInStep, BySession, LostKinds
  <1> QED BY StrayInvariant, <1>1, PTL

-----------------------------------------------------------------------------
(* Losing a session of the TPM.                                            *)

\* How the caller knows of the slot h that execution e opened; or the reply it
\* was told by was damaged.
Reported(h, e) ==
  \/ \E s \in Slots : sess[s].id = tsess[h].id /\ sess[s].handle = h
  \/ results[e.call].kind \in {"none", "Usage"} \cup LostKinds
  \/ results[e.call].params = "altered"
  \/ \E c \in ByKind("Ok") : c > e.call /\ frames[c].code = StartAuthSession

\* The reply on its way to a start tells of the slot that start opened.
TellsOfSlot ==
  /\ \A e \in execs : e.call = calls => e.n = resp.by
  /\ \A h \in Handles : InUse(h) /\ tsess[h].id = resp.by => resp.handles \in {<<>>, <<h>>}

LostInv ==
  /\ \A h \in Handles, e \in execs :
       e.n = tsess[h].id /\ frames[e.call].code = StartAuthSession => Reported(h, e)
  /\ \A e \in execs : e.n # 0
  /\ pc # "idle" /\ frame.code = StartAuthSession => ctx.slot \in Slots
  /\ pc = "replied" /\ frame.code = StartAuthSession => resp.tag # "SESSIONS"
  /\ pc = "replied" /\ Starts(resp) => TellsOfSlot

\* A report stands as long as the Sessions do, and what replaces the "none" of
\* a call in progress reports as well.
LEMMA ReportStays ==
  ASSUME TypeInv, NonceInv, PromiseInv, [Next]_vars, NEW h \in Handles, NEW e \in execs, Reported(h, e),
         tsess'[h].id = tsess[h].id,
         \A s \in Slots : sess'[s].id = sess[s].id /\ sess'[s].handle = sess[s].handle,
         pc # "idle" /\ pc' = "idle" /\ e.call = calls => results'[calls].kind \in LostKinds \cup {"Usage"}
  PROVE  Reported(h, e)'
  <1>1. e.call \in CallIds /\ e.call <= calls /\ e.call \in Nat
    BY DEF TypeInv, TypeOK, NonceInv, CallIds
  <1>2. CASE \E s \in Slots : sess[s].id = tsess[h].id /\ sess[s].handle = h
    BY <1>2 DEF Reported
  <1>3. CASE results[e.call].kind \in {"none", "Usage"} \cup LostKinds \/ results[e.call].params = "altered"
    <2>1. results'[e.call] = results[e.call] \/ (e.call = calls /\ pc # "idle" /\ pc' = "idle")
      BY <1>1, PastStays
    <2> QED BY <1>3, <2>1 DEF Reported
  <1>4. ASSUME NEW c \in ByKind("Ok"), c > e.call, frames[c].code = StartAuthSession
        PROVE  Reported(h, e)'
    <2>1. c \in CallIds /\ results[c].kind = "Ok" /\ calls \in Nat
      BY <1>4 DEF ByKind, TypeInv, TypeOK
    <2>2. c <= calls
      BY <2>1 DEF NonceInv, NoResult, CallIds
    <2>3. c = calls => pc = "idle"
      BY <2>1 DEF PromiseInv, NoResult
    <2>4. results'[c] = results[c] /\ frames'[c] = frames[c]
      BY <2>1, <2>2, <2>3, PastStays
    <2>5. c \in ByKind("Ok")'
      BY <2>1, <2>4 DEF ByKind
    <2> QED BY <1>4, <2>4, <2>5 DEF Reported
  <1> QED BY <1>2, <1>3, <1>4 DEF Reported

\* The frame of an executed call stays.
LEMMA ExecutedFrameStays ==
  ASSUME TypeInv, NonceInv, [Next]_vars, NEW e \in execs
  PROVE  frames'[e.call] = frames[e.call]
  <1>1. e.call \in CallIds /\ e.call <= calls
    BY DEF TypeInv, TypeOK, NonceInv
  <1> QED BY <1>1, PastStays

LEMMA InitLostInv == Init => LostInv
  BY DEF Init, LostInv

LEMMA KeptLostInv ==
  ASSUME TypeInv, NonceInv, PromiseInv, LostInv, [Next]_vars, Kept
  PROVE  LostInv'
  <1>0. KeepsSessions /\ UNCHANGED << tsess, execs >>
    BY DEF Kept
  <1>1. ASSUME NEW h \in Handles, NEW e \in execs, e.n = tsess[h].id,
               frames'[e.call].code = StartAuthSession
        PROVE  Reported(h, e)'
    <2>1. frames[e.call].code = StartAuthSession
      BY <1>1, ExecutedFrameStays
    <2>2. Reported(h, e)
      BY <1>1, <2>1 DEF LostInv
    <2>3. e.call = calls => ExecutionsOf(calls) # {} /\ frame.code = StartAuthSession
      BY <2>1 DEF ExecutionsOf, frame
    <2> QED BY <1>0, <2>2, <2>3, ReportStays DEF Kept, KeepsSessions
  <1>2. pc' # "idle" /\ frame'.code = StartAuthSession => ctx'.slot \in Slots
    BY DEF Kept, CallGoesOn, LostInv, frame
  <1>3. ASSUME pc' = "replied", Starts(resp)'
        PROVE  TellsOfSlot'
    <2>1. Starts(resp')
      BY <1>3 DEF Starts, Kept, CallGoesOn, frame
    <2>2. /\ pc = "replied" /\ Starts(resp) /\ resp'.by = resp.by
          /\ resp'.handles \in {resp.handles, <<>>}
      BY <1>3, <2>1 DEF Kept
    <2>3. calls' = calls
      BY <1>3, <2>2 DEF Kept, CallGoesOn
    <2> QED BY <1>0, <2>2, <2>3 DEF LostInv, TellsOfSlot, InUse
  <1>4. pc' = "replied" /\ frame'.code = StartAuthSession => resp'.tag # "SESSIONS"
    <2> SUFFICES ASSUME pc' = "replied", frame'.code = StartAuthSession, resp'.tag = "SESSIONS"
                 PROVE  FALSE
      OBVIOUS
    <2>1. pc = "replied" /\ resp.tag = "SESSIONS" /\ CallGoesOn
      BY DEF Kept
    <2>2. frame' = frame
      BY <2>1 DEF CallGoesOn, frame
    <2> QED BY <2>1, <2>2 DEF LostInv
  <1> QED BY <1>0, <1>1, <1>2, <1>3, <1>4 DEF LostInv

\* The ids and nonces in use have been drawn.
LEMMA DrawnByNow ==
  ASSUME TypeInv, NonceInv, NewerInv, SyncInv
  PROVE  /\ tctr \in Nat
         /\ \A h \in Handles : tsess[h].id \in Nat /\ tsess[h].id <= tctr
         /\ \A e \in execs : e.n \in Nat /\ e.n <= tctr
         /\ resp.by \in Nat /\ resp.by <= tctr
  <1>1. /\ tsess \in [Handles -> [id : Nat, nonce : Nat, key : Key, bound : Seq(Objects)]]
        /\ tctr \in Nat
    BY DEF TypeInv, TypeOK
  <1>2. execs \subseteq [call : CallIds, n : Nat, id : Nat] /\ resp \in Reply
    BY DEF TypeInv, TypeOK
  <1>3. \A h \in Handles : tsess[h].id \in Nat /\ tsess[h].id <= tctr
    BY <1>1 DEF NonceInv, SyncInv, SameSession
  <1>4. \A e \in execs : e.n \in Nat /\ e.n <= tctr
    BY <1>2 DEF NonceInv
  <1> QED BY <1>1, <1>2, <1>3, <1>4 DEF NewerInv, Fresh, Reply

\* The TPM executes the call in progress, which then has no result yet.
LEMMA AnsweredLostInv ==
  ASSUME TypeInv, NonceInv, NewerInv, PromiseInv, SyncInv, LostInv, [Next]_vars,
         NEW h \in Handles, Answered(h)
  PROVE  LostInv'
  <1>a. tsess \in [Handles -> [id : Nat, nonce : Nat, key : Key, bound : Seq(Objects)]]
    BY DEF TypeInv, TypeOK
  <1>0. /\ calls \in CallIds /\ Executes(calls, h) /\ pc = "sent" /\ pc' = "replied"
        /\ UNCHANGED << sess, calls, ctx, frames, results, frame >>
    BY DEF Answered, TypeInv, frame
  <1>1. /\ \A g \in Handles : g # h => tsess'[g] = tsess[g]
        /\ frame.code = StartAuthSession => tsess'[h] = FirstSlot(tctr + 1)
    BY <1>0, ExecutionOnSlot DEF frame
  <1>2. PICK id \in Nat : /\ execs' = execs \cup {[call |-> calls, n |-> tctr + 1, id |-> id]}
                          /\ SlotAfter(calls, h, id)
    BY <1>0, ExecutionOnSlot
  <1>3. PICK e0 : e0 = [call |-> calls, n |-> tctr + 1, id |-> id]
    OBVIOUS
  <1>4. e0.call = calls /\ e0.n = tctr + 1 /\ execs' = execs \cup {e0}
    BY <1>2, <1>3
  <1>5. tsess'[h].id \in {0, tctr + 1, tsess[h].id}
    BY <1>a, <1>2 DEF SlotAfter, FreeSlot, FirstSlot
  <1>6. ASSUME NEW g \in Handles, NEW e \in execs', e.n = tsess'[g].id,
               frames'[e.call].code = StartAuthSession
        PROVE  Reported(g, e)'
    <2>1. CASE e = e0
      <3>1. results'[e.call].kind = "none"
        BY <1>0, <1>4, <2>1 DEF PromiseInv, NoResult
      <3> QED BY <3>1 DEF Reported
    <2>2. CASE e \in execs
      <3>1. e.n # 0 /\ e.n # tctr + 1
        BY <2>2, DrawnByNow DEF LostInv
      <3>2. tsess'[g].id = tsess[g].id
        BY <1>1, <1>5, <1>6, <3>1
      <3>3. Reported(g, e)
        BY <1>0, <1>6, <2>2, <3>2 DEF LostInv
      <3> QED BY <1>0, <2>2, <3>2, <3>3, ReportStays
    <2> QED BY <1>4, <2>1, <2>2
  <1>7. \A e \in execs' : e.n # 0
    BY <1>4, DrawnByNow DEF LostInv
  <1>8. ASSUME Starts(resp)'
        PROVE  TellsOfSlot'
    <2>1. frame.code = StartAuthSession
      BY <1>0, <1>8 DEF Starts
    <2>2. resp'.by = tctr + 1 /\ resp'.handles = <<h>>
      BY <2>1 DEF Answered, ReplyTo, frame
    <2>3. \A e \in execs' : e.call = calls => e.n = tctr + 1
      BY <1>0, <1>4 DEF PromiseInv, ExecutionsOf
    <2>4. \A g \in Handles : g # h => tsess'[g].id # tctr + 1
      BY <1>1, DrawnByNow
    <2> QED BY <1>0, <2>2, <2>3, <2>4 DEF TellsOfSlot
  <1>9. frame.code = StartAuthSession => resp'.tag # "SESSIONS"
    <2>1. frame.code = StartAuthSession => frame.mode = "none"
      BY <1>0, CodesAreApart DEF TypeInv, frame, StartAuthSession
    <2> QED BY <2>1 DEF Answered, ReplyTo, frame
  <1> QED BY <1>0, <1>6, <1>7, <1>8, <1>9 DEF LostInv

\* Other clients open slots with ids of their own.
LEMMA OtherLostInv ==
  ASSUME TypeInv, NonceInv, NewerInv, PromiseInv, SyncInv, LostInv, [Next]_vars,
         NEW h \in Handles, OtherStarts(h) \/ OtherFlushes(h)
  PROVE  LostInv'
  <1>a. tsess \in [Handles -> [id : Nat, nonce : Nat, key : Key, bound : Seq(Objects)]]
    BY DEF TypeInv, TypeOK
  <1>1. /\ UNCHANGED << sess, calls, ctx, frames, results, pc, resp, execs, frame >>
        /\ \A g \in Handles : tsess'[g] = tsess[g] \/ tsess'[g].id \in {0, tctr + 1}
    BY <1>a DEF OtherStarts, OtherFlushes, client, FreeSlot, frame
  <1>2. ASSUME NEW g \in Handles, NEW e \in execs, e.n = tsess'[g].id,
               frames[e.call].code = StartAuthSession
        PROVE  Reported(g, e)'
    <2>1. e.n # 0 /\ e.n # tctr + 1
      BY DrawnByNow DEF LostInv
    <2>2. tsess'[g].id = tsess[g].id
      BY <1>1, <1>2, <2>1
    <2>3. Reported(g, e)
      BY <1>2, <2>2 DEF LostInv
    <2> QED BY <1>1, <2>2, <2>3, ReportStays
  <1>3. ASSUME pc = "replied", Starts(resp)'
        PROVE  TellsOfSlot'
    <2>1. Starts(resp)
      BY <1>1, <1>3 DEF Starts
    <2>2. TellsOfSlot
      BY <1>3, <2>1 DEF LostInv
    <2>3. resp.by # tctr + 1
      BY DrawnByNow
    <2>4. \A g \in Handles : InUse(g)' /\ tsess'[g].id = resp.by =>
            InUse(g) /\ tsess[g].id = resp.by
      BY <1>1, <2>3 DEF InUse
    <2> QED BY <1>1, <2>2, <2>4 DEF TellsOfSlot
  <1> QED BY <1>1, <1>2, <1>3 DEF LostInv

\* A session call opens no slot.
LEMMA AbsorbedLostInv ==
  ASSUME TypeInv, NonceInv, AuthInv, PromiseInv, LostInv, [Next]_vars, Absorbed
  PROVE  LostInv'
  <1>0. sess \in [Slots -> SessionOf(Handles \cup {RH_NULL})]
    BY DEF TypeInv, TypeOK
  <1>1. /\ pc = "replied" /\ pc' = "idle" /\ frame.mode = "session" /\ UNCHANGED << tsess, execs >>
    BY DEF Absorbed
  <1>2. \A s \in Slots : sess'[s].handle = sess[s].handle /\ sess'[s].id = sess[s].id
    BY <1>0 DEF Absorbed, absorb, SessionOf
  <1>3. frame.code # StartAuthSession
    BY <1>1, CodesAreApart DEF TypeInv, frame, StartAuthSession
  <1>4. ASSUME NEW h \in Handles, NEW e \in execs, e.n = tsess[h].id,
               frames'[e.call].code = StartAuthSession
        PROVE  Reported(h, e)'
    <2>1. frames[e.call].code = StartAuthSession
      BY <1>4, ExecutedFrameStays
    <2>2. Reported(h, e)
      BY <1>4, <2>1 DEF LostInv
    <2>3. e.call # calls
      BY <1>3, <2>1 DEF frame
    <2> QED BY <1>1, <1>2, <2>2, <2>3, ReportStays
  <1> QED BY <1>1, <1>4 DEF LostInv

\* A start that returns Ok reports its own slot by the Session it makes, and is
\* the later start that every earlier slot may have been given up for.
LEMMA OpenedLostInv ==
  ASSUME TypeInv, NonceInv, PromiseInv, LostInv, [Next]_vars, NEW h \in Handles, Opened(h)
  PROVE  LostInv'
  <1>0. sess \in [Slots -> SessionOf(Handles \cup {RH_NULL})]
    BY DEF TypeInv, TypeOK
  <1>1. /\ pc = "replied" /\ pc' = "idle" /\ parse_response(resp) = "Ok"
        /\ frame.code = StartAuthSession /\ UNCHANGED << calls, tsess, execs >> /\ calls \in CallIds
        /\ results'[calls].kind = "Ok" /\ results'[calls].params = HandedOn(resp)
    BY DEF Opened, TypeInv
  <1>2. Starts(resp)
    <2>1. resp \in Reply
      BY DEF TypeInv, TypeOK
    <2>2. resp.tag = "NO_SESSIONS"
      BY <1>1, <2>1 DEF LostInv, Reply
    <2> QED BY <1>1, <2>1, <2>2 DEF Starts, parse_response, Reply
  <1>3. TellsOfSlot /\ ctx.slot \in Slots
    BY <1>1, <1>2 DEF LostInv
  <1>4. frames'[calls] = frames[calls] /\ calls \in Nat
    BY <1>1, PastStays DEF CallIds
  <1>5. ASSUME NEW g \in Handles, NEW e \in execs, e.n = tsess[g].id,
               frames'[e.call].code = StartAuthSession
        PROVE  Reported(g, e)'
    <2>1. e.call \in Nat /\ e.call <= calls
      BY DEF TypeInv, TypeOK, NonceInv, CallIds
    <2>2. CASE e.call # calls
      <3>1. calls > e.call /\ calls \in ByKind("Ok")'
        BY <1>1, <1>4, <2>1, <2>2 DEF ByKind
      <3> QED BY <1>1, <1>4, <3>1 DEF Reported, frame
    <2>3. CASE e.call = calls
      <3>1. tsess[g].id = resp.by /\ InUse(g)
        BY <1>3, <1>5, <2>3 DEF TellsOfSlot, LostInv, InUse
      <3>2. CASE resp.handles = <<>>
        BY <1>1, <2>3, <3>2 DEF HandedOn, Reported
      <3>3. CASE resp.handles = <<g>>
        <4>1. h = g
          BY <3>3 DEF Opened
        <4>2. PICK t : t = SessionFrom(resp, h)
          OBVIOUS
        <4>3. t.handle = g /\ t.id = resp.by
          BY <1>2, <4>1, <4>2, SessionFromFields DEF Starts, OpenedBy
        <4>4. sess'[ctx.slot] = t
          BY <1>0, <1>3, <4>2 DEF Opened
        <4> QED BY <1>1, <1>3, <3>1, <4>3, <4>4 DEF Reported
      <3> QED BY <1>3, <3>1, <3>2, <3>3 DEF TellsOfSlot
    <2> QED BY <2>2, <2>3
  <1> QED BY <1>1, <1>5 DEF LostInv

\* Every step keeps the invariant, of a client that opens its sessions itself.
LEMMA NextLostInv ==
  ASSUME OwnReplies, "adopt" \notin Uses, TypeInv, NonceInv, AuthInv, NewerInv, PromiseInv, SyncInv,
         LostInv, [Next]_vars
  PROVE  LostInv'
  BY StepsOfSession, KeptLostInv, AnsweredLostInv, OtherLostInv, AbsorbedLostInv, OpenedLostInv
  DEF Adopted

\* A slot of the TPM that a start of the client opened is held, by its handle,
\* by the Session that start made, or the caller was told: by an error of that
\* start that does not come from the TPM, or by a later start of its own making;
\* or the reply to that start, which has no HMAC, was damaged
\* (LostSessionsAreReported).
THEOREM NoSessionIsLostUnreported ==
  ASSUME OwnReplies, "adopt" \notin Uses
  PROVE  Spec => []LostSessionsAreReported
  <1>1. TypeInv /\ NonceInv /\ AuthInv /\ NewerInv /\ PromiseInv /\ SyncInv /\ LostInv /\ [Next]_vars
          => LostInv'
    BY NextLostInv
  <1>2. LostInv => LostSessionsAreReported
    <2>1. \A h, e : Reported(h, e) =>
            \/ \E s \in Slots : sess[s].id = tsess[h].id /\ sess[s].handle = h
            \/ results[e.call].kind \in {"none", "Transport", "Malformed", "Protocol", "Usage"}
            \/ results[e.call].params = "altered"
            \/ \E c \in ByKind("Ok") : c > e.call /\ frames[c].code = StartAuthSession
      BY DEF Reported, LostKinds
    <2> QED BY <2>1 DEF LostInv, LostSessionsAreReported
  <1> QED BY InitLostInv, StrayInvariant, <1>1, <1>2, PTL DEF Spec
=============================================================================
