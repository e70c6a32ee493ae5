--------------------------- MODULE DispatchProofs ---------------------------
(***************************************************************************)
(* Theorems about Dispatch, for every number of calls, slots, handles and  *)
(* objects and every set of faults: its types, the authenticity of what is *)
(* returned, and that what Tpm::run returns tells what happened to the     *)
(* call.                                                                   *)
(***************************************************************************)
EXTENDS Dispatch, FiniteSetTheorems, TLAPS


-----------------------------------------------------------------------------
(* Types.  TypeInv adds to TypeOK what keeps it inductive: the frames that *)
(* are authorised name one object, and a call in progress has a number.    *)

TypeInv ==
  /\ TypeOK
  /\ \A c \in CallIds : frames[c].mode # "none" =>
       frames[c].code \in Codes /\ \E o \in Objects : frames[c].names = Name(o)
  /\ pc # "idle" => calls \in CallIds

\* An object's Name is a sequence of one: the handle area of Tpm::run has it
\* first.
LEMMA NameType ==
  ASSUME NEW o \in Objects
  PROVE  Name(o) \in Seq(Objects) /\ Name(o)[1] = o
  BY DEF Name

\* hmac_key yields a key, whether or not the auth value is appended.
LEMMA KeyType ==
  ASSUME NEW k \in Key, NEW b \in Seq(Objects), NEW a \in Seq(Secrets), NEW n
  PROVE  hmac_key(k, b, a, n) \in Key
  <1>1. a \in Seq(Secrets \cup KdfaTerm)
    OBVIOUS
  <1>2. <<>> \in Seq(Secrets \cup KdfaTerm)
    OBVIOUS
  <1>3. k \in Seq(Secrets \cup KdfaTerm)
    BY DEF Key
  <1> HIDE DEF KdfaTerm
  <1>4. k \o a \in Key /\ k \o <<>> \in Key
    BY <1>1, <1>2, <1>3 DEF Key
  <1> QED BY <1>4 DEF hmac_key

\* The HMAC of Session::command_auth is one authorisation entry of a frame.
LEMMA CommandHmacType ==
  ASSUME NEW t \in SessionOf(Handles \cup {RH_NULL}), NEW code \in Codes, NEW o \in Objects,
         NEW a \in Seq(Secrets)
  PROVE  CommandHmac(t, cp_hash(code, Name(o)), a, Name(o)) \in Seq(Secrets \cup HmacTerm)
  <1>1. hmac_key(t.session_key, t.bound_name, a, Name(o)) \in Key
    BY KeyType DEF SessionOf
  <1>2. cp_hash(code, Name(o)) \in Digest
    BY DEF cp_hash, Digest, Name
  <1> DEFINE x == hmac_parts(hmac_key(t.session_key, t.bound_name, a, Name(o)),
                             cp_hash(code, Name(o)), t.nonce_caller, t.nonce_tpm, t.attributes)
  <1>3. x \in HmacTerm
    BY <1>1, <1>2 DEF SessionOf, hmac_parts, HmacTerm
  <1> HIDE DEF x
  <1>4. <<x>> \in Seq(Secrets \cup HmacTerm)
    BY <1>3
  <1> QED BY <1>4 DEF CommandHmac, x

\* Session::new yields a Session, for every auth value, bind entity and salt.
LEMMA NewType ==
  ASSUME NEW h \in Handles \cup {RH_NULL}, NEW nt \in Nat, NEW nc \in Nat,
         NEW attrs \in SUBSET Attributes, NEW a \in Seq(Secrets), NEW b \in Seq(Objects),
         NEW salt \in Seq(Secrets)
  PROVE  new(h, nt, nc, attrs, a, b, salt) \in SessionOf(Handles \cup {RH_NULL})
  <1> DEFINE k == kdfa(a \o salt, "ATH", nt, nc)
  <1>1. k \in KdfaTerm
    BY DEF kdfa, KdfaTerm
  <1> HIDE DEF k
  <1>2. <<k>> \in Key /\ <<>> \in Key
    BY <1>1 DEF Key
  <1>3. SessionKey(nt, nc, a, salt) \in Key
    BY <1>2 DEF SessionKey, k
  <1> QED BY <1>3 DEF new, SessionOf

\* So does what start_auth_session reads from a reply, damaged or not.
LEMMA StartedType ==
  ASSUME NEW r \in Reply, NEW h \in Handles, frame.nonce \in Nat
  PROVE  /\ SessionFrom(r, h) \in SessionOf(Handles \cup {RH_NULL})
         /\ HandedOn(r) \in {"intact", "altered"}
         /\ FirstNonce(r) \in Nat /\ OpenedBy(r) \in Nat
  <1>1. FirstNonce(r) \in Nat /\ OpenedBy(r) \in Nat
    BY DEF FirstNonce, OpenedBy, Reply
  <1>2. <<>> \in Seq(Secrets) /\ <<>> \in Seq(Objects) /\ {"CONTINUE_SESSION"} \in SUBSET Attributes
    BY DEF Attributes
  <1> DEFINE t == new(h, FirstNonce(r), frame.nonce, {"CONTINUE_SESSION"}, <<>>, <<>>, <<>>)
  <1>3. t \in SessionOf(Handles \cup {RH_NULL})
    BY <1>1, <1>2, NewType
  <1> HIDE DEF t
  <1>4. [t EXCEPT !.id = OpenedBy(r)] \in SessionOf(Handles \cup {RH_NULL})
    BY <1>1, <1>3 DEF SessionOf
  <1> QED BY <1>1, <1>4 DEF SessionFrom, t, HandedOn, Reply

\* The TPM's key of a session is a key.
LEMMA SessionKeyOfType ==
  ASSUME NEW b \in {<<>>} \cup {Name(o) : o \in Objects}, NEW salt \in Seq(Secrets),
         NEW nt \in Nat, NEW nc \in Nat
  PROVE  SessionKeyOf(b, salt, nt, nc) \in Key
  <1> DEFINE a == IF b = <<>> THEN <<>> ELSE AuthOf[b[1]]
             k == kdfa(a \o salt, "ATH", nt, nc)
  <1>1. a \in Seq(Secrets)
    BY AuthValuesAreSequences DEF Name
  <1>2. k \in KdfaTerm
    BY <1>1 DEF kdfa, KdfaTerm
  <1> HIDE DEF k
  <1>3. <<k>> \in Key /\ <<>> \in Key
    BY <1>2 DEF Key
  <1> QED BY <1>3 DEF SessionKeyOf, k

\* The empty reply and every error reply are replies.
LEMMA ReplyTypes ==
  /\ NoReply \in Reply
  /\ \A rc \in Nat : ErrorReply(rc) \in Reply
  <1>1. \A rc \in Nat : ErrorReply(rc) \in Reply
    BY DEF ErrorReply, Reply, SUCCESS
  <1>2. NoReply \in Reply
    <2> DEFINE e == ErrorReply(SUCCESS)
    <2>1. e \in Reply
      BY <1>1 DEF SUCCESS
    <2> HIDE DEF e
    <2>2. [e EXCEPT !.shape = "short"] \in Reply
      BY <2>1 DEF Reply
    <2> QED BY <2>2 DEF NoReply, e
  <1> QED BY <1>1, <1>2

\* Damage done to a reply leaves its response code, and only damage done to the
\* tag changes the tag.
LEMMA DamagedType ==
  ASSUME NEW r \in Reply, NEW d \in Damaged(r) \cup {Retagged(r)}
  PROVE  /\ d \in Reply
         /\ d.rc = r.rc /\ d.by = r.by /\ d.nonce_tpm = r.nonce_tpm /\ d.hmac = r.hmac
         /\ d \in Damaged(r) => d.tag = r.tag
  <1>1. <<>> \in Seq(Handles)
    OBVIOUS
  <1>2. CASE d \in Damaged(r)
    <2>1. \/ d = [r EXCEPT !.shape = "short"]
          \/ d = [r EXCEPT !.shape = "missized"]
          \/ d = [r EXCEPT !.shape = "cut"]
          \/ d = [r EXCEPT !.params = "altered"]
          \/ d = [r EXCEPT !.handles = <<>>]
      BY <1>2 DEF Damaged
    <2>2. [r EXCEPT !.handles = <<>>] \in Reply
      BY <1>1 DEF Reply
    <2> QED BY <2>1, <2>2 DEF Reply
  <1>3. CASE d = Retagged(r) /\ d \notin Damaged(r)
    BY <1>3 DEF Retagged, Reply
  <1> QED BY <1>2, <1>3

\* The damage the link does to the reply in hand.
LEMMA DamagedReply ==
  ASSUME NEW d, (d \in Damaged(resp) /\ Garble(d)) \/ (d = Retagged(resp) /\ Retag)
  PROVE  /\ d \in Damaged(resp) \cup {Retagged(resp)} /\ Damages(d)
         /\ "retag" \notin Faults => d \in Damaged(resp)
  BY DEF Garble, Retag

\* parse_response ends in one of its three errors or in Ok.
LEMMA ParseType ==
  ASSUME NEW r \in Reply
  PROVE  parse_response(r) \in {"Malformed", "Tpm", "Protocol", "Ok"}
  BY DEF parse_response, Reply

\* What the TPM replies to a frame of the client is a reply.
LEMMA ReplyToType ==
  ASSUME TypeInv, NEW c \in CallIds, NEW h \in Handles
  PROVE  ReplyTo(c, h) \in Reply
  <1> DEFINE f == frames[c]
             x == hmac_parts(TpmKey(h, f.names[1]), rp_hash(f.code, "intact"), tctr + 1,
                             f.nonce, f.attributes)
  <1>1. f \in Frame
    BY DEF TypeInv, TypeOK
  <1>2. tctr + 1 \in Nat
    BY DEF TypeInv, TypeOK
  <1>3. ASSUME f.mode = "session"
        PROVE  x \in HmacTerm
    <2>1. PICK o \in Objects : f.names = Name(o)
      BY <1>3 DEF TypeInv
    <2>2. f.names[1] = o
      BY <2>1 DEF Name
    <2>3. AuthOf[o] \in Seq(Secrets) /\ <<>> \in Seq(Secrets)
      BY AuthValuesAreSequences
    <2>4. tsess[h].key \in Key
      BY DEF TypeInv, TypeOK
    <2>5. TpmKey(h, o) \in Key
      <3> DEFINE a == IF tsess[h].bound = Name(o) THEN <<>> ELSE AuthOf[o]
      <3>1. a \in Seq(Secrets)
        BY <2>3
      <3> HIDE DEF a
      <3>2. hmac_key(tsess[h].key, <<>>, a, <<>>) \in Key
        <4>1. <<>> \in Seq(Objects)
          OBVIOUS
        <4> QED BY <4>1, <2>4, <3>1, KeyType
      <3>3. hmac_key(tsess[h].key, <<>>, a, <<>>) = tsess[h].key \o a
        BY DEF hmac_key
      <3> QED BY <3>2, <3>3 DEF TpmKey, a
    <2>6. f.code \in Codes
      BY <1>3 DEF TypeInv
    <2>7. rp_hash(f.code, "intact") \in Digest
      BY <2>6 DEF rp_hash, Digest
    <2> QED BY <1>1, <1>2, <2>2, <2>5, <2>7 DEF hmac_parts, HmacTerm, Frame
  <1> QED BY <1>1, <1>2, <1>3 DEF ReplyTo, Reply, Frame, SUCCESS

ContextType == [slot : Slots \cup {NoSlot}, auth : Seq(Secrets), alg : Algs \cup {NoAlg}]
SlotType == [id : Nat, nonce : Nat, key : Key, bound : Seq(Objects)]

\* The initial states satisfy the invariant.
LEMMA InitTypeInv == Init => TypeInv
  <1> SUFFICES ASSUME Init
               PROVE  TypeInv
    OBVIOUS
  <1>1. Dropped \in SessionOf(Handles \cup {RH_NULL})
    <2>1. <<>> \in Seq(Secrets) /\ <<>> \in Seq(Objects)
      OBVIOUS
    <2> QED BY <2>1, NewType DEF Dropped
  <1>2. NoFrame \in Frame /\ NoFrame.mode = "none"
    BY DEF NoFrame, PlainFrame, Frame
  <1>3. NoResult \in Result
    BY DEF NoResult, Result
  <1>4. FreeSlot \in SlotType
    BY DEF FreeSlot, SlotType, Key
  <1>5. NoContext \in ContextType
    BY DEF NoContext, ContextType
  <1>6. calls \in 0 .. MaxCalls
    BY BoundsAreNumbers DEF Init
  <1> QED
    BY <1>1, <1>2, <1>3, <1>4, <1>5, <1>6, ReplyTypes
    DEF Init, TypeInv, TypeOK, SlotType, ContextType

\* Tpm::run building a frame of one authorised object keeps the types.
LEMMA BeginType ==
  ASSUME TypeInv, NEW f \in Frame, NEW context \in ContextType,
         f.mode # "none" => f.code \in Codes /\ \E o \in Objects : f.names = Name(o),
         Begin(f, context), sess' \in [Slots -> SessionOf(Handles \cup {RH_NULL})]
  PROVE  TypeInv'
  <1>1. calls' \in 0 .. MaxCalls /\ calls' \in CallIds
    BY BoundsAreNumbers DEF Begin, TypeInv, TypeOK, CallIds
  <1>2. frames' \in [CallIds -> Frame]
    BY DEF Begin, TypeInv, TypeOK
  <1>3. \A c \in CallIds : frames'[c].mode # "none" =>
          frames'[c].code \in Codes /\ \E o \in Objects : frames'[c].names = Name(o)
    BY DEF Begin, TypeInv, TypeOK
  <1> QED BY <1>1, <1>2, <1>3 DEF Begin, TypeInv, TypeOK, ContextType, device

\* run returning any of its results keeps the types.
LEMMA ReturnType ==
  ASSUME TypeInv, pc # "idle", NEW kind \in {"Ok"} \cup Errors, NEW rc \in Nat,
         NEW params \in {"intact", "altered"}, NEW by \in Nat,
         Return(kind, rc, params, by), UNCHANGED << calls, frames, sent, seen, device >>,
         sess' \in [Slots -> SessionOf(Handles \cup {RH_NULL})]
  PROVE  TypeInv'
  <1>1. results' \in [CallIds -> Result]
    BY DEF Return, TypeInv, TypeOK, Result
  <1>2. NoContext \in ContextType
    BY DEF NoContext, ContextType
  <1> QED BY <1>1, <1>2, ReplyTypes DEF Return, TypeInv, TypeOK, ContextType, device

\* Every call of the client keeps the types.
LEMMA ClientTypeInv == TypeInv /\ Client => TypeInv'
  <1> SUFFICES ASSUME TypeInv, Client
               PROVE  TypeInv'
    OBVIOUS
  <1> USE DEF ContextType, SlotType
  <1>0. /\ sess \in [Slots -> SessionOf(Handles \cup {RH_NULL})]
        /\ FreshNonce \in Nat
        /\ <<>> \in Seq(Secrets) /\ <<>> \in Seq(Objects)
        /\ NoContext \in ContextType
    <2>1. sess \in [Slots -> SessionOf(Handles \cup {RH_NULL})]
      BY DEF TypeInv, TypeOK
    <2>2. FreshNonce \in Nat
      BY DEF TypeInv, TypeOK, FreshNonce
    <2>3. <<>> \in Seq(Secrets) /\ <<>> \in Seq(Objects)
      OBVIOUS
    <2>4. NoContext \in ContextType
      BY <2>3 DEF NoContext
    <2> QED BY <2>1, <2>2, <2>3, <2>4
  <1>a. ASSUME NEW s \in Slots, NEW alg \in Algs, StartCall(s, alg)
        PROVE  TypeInv'
    <2>1. PlainFrame(StartAuthSession, <<>>, RH_NULL, FreshNonce) \in Frame
      BY <1>0 DEF PlainFrame, Frame
    <2>2. PlainFrame(StartAuthSession, <<>>, RH_NULL, FreshNonce).mode = "none"
      BY DEF PlainFrame
    <2>3. [slot |-> s, auth |-> <<>>, alg |-> alg] \in ContextType
      BY <1>0
    <2> QED BY <1>a, <1>0, <2>1, <2>2, <2>3, BeginType DEF StartCall
  <1>1. ASSUME NEW s \in Slots, NEW alg \in Algs, start_auth_session(s, alg)
        PROVE  TypeInv'
    BY <1>1, <1>a DEF start_auth_session
  <1>2. ASSUME NEW s \in Slots, NEW alg \in Algs, start_hmac_session(s, alg)
        PROVE  TypeInv'
    <2>1. CASE StartCall(s, alg)
      BY <2>1, <1>a
    <2>2. CASE ~StartCall(s, alg)
      <3>1. [NoResult EXCEPT !.kind = "Usage"] \in Result
        <4>1. NoResult \in Result
          BY DEF NoResult, Result
        <4> QED BY <4>1 DEF Result, Errors
      <3>2. calls' \in 0 .. MaxCalls
        BY <1>2, <2>2, BoundsAreNumbers DEF start_hmac_session, TypeInv, TypeOK
      <3> QED BY <1>2, <2>2, <3>1, <3>2 DEF start_hmac_session, TypeInv, TypeOK, device
    <2> QED BY <2>1, <2>2
  <1>3. ASSUME NEW s \in Slots, flush_context(s)
        PROVE  TypeInv'
    <2> DEFINE f == PlainFrame(FlushContext, <<>>, sess[s].handle, 0)
    <2>1. f \in Frame /\ f.mode = "none"
      BY <1>0 DEF PlainFrame, Frame, SessionOf
    <2> QED BY <1>3, <1>0, <2>1, BeginType DEF flush_context
  <1>4. ASSUME NEW code \in Codes, run_none(code)
        PROVE  TypeInv'
    <2>1. PlainFrame(code, <<>>, RH_NULL, 0) \in Frame /\ PlainFrame(code, <<>>, RH_NULL, 0).mode = "none"
      BY <1>0 DEF PlainFrame, Frame
    <2> QED BY <1>4, <1>0, <2>1, BeginType DEF run_none
  <1>5. ASSUME NEW code \in Codes, NEW o \in Objects, NEW a \in AuthValues, run_password(code, o, a)
        PROVE  TypeInv'
    <2> DEFINE f == [mode |-> "password", code |-> code, names |-> Name(o), handle |-> RS_PW,
                     nonce |-> 0, attributes |-> {"CONTINUE_SESSION"}, hmac |-> a, id |-> 0]
               x == [slot |-> NoSlot, auth |-> a, alg |-> NoAlg]
    <2>1. a \in Seq(Secrets)
      BY AuthValuesAreSequences
    <2>2. a \in Seq(Secrets \cup HmacTerm)
      BY <2>1
    <2>3. f \in Frame
      BY <2>2 DEF Frame, Name, Attributes
    <2>4. x \in ContextType
      BY <2>1
    <2> QED BY <1>5, <1>0, <2>3, <2>4, BeginType DEF run_password
  <1>6. ASSUME NEW s \in Slots, NEW code \in Codes, NEW o \in Objects, NEW a \in AuthValues,
               run_session(s, code, o, a)
        PROVE  TypeInv'
    <2> DEFINE t == command_auth(sess[s], FreshNonce)
               m == CommandHmac(t, cp_hash(code, Name(o)), a, Name(o))
               f == [mode |-> "session", code |-> code, names |-> Name(o), handle |-> t.handle,
                     nonce |-> t.nonce_caller, attributes |-> t.attributes, hmac |-> m, id |-> t.id]
               x == [slot |-> s, auth |-> a, alg |-> NoAlg]
    <2>1. a \in Seq(Secrets)
      BY AuthValuesAreSequences
    <2>2. t \in SessionOf(Handles \cup {RH_NULL})
      BY <1>0 DEF command_auth, SessionOf
    <2>3. m \in Seq(Secrets \cup HmacTerm)
      BY <2>1, <2>2, CommandHmacType
    <2>4. Begin(f, x) /\ sess' = [sess EXCEPT ![s] = t]
      BY <1>6 DEF run_session
    <2> HIDE DEF t, m
    <2>5. f \in Frame /\ f.code \in Codes /\ f.names = Name(o)
      BY <2>2, <2>3 DEF Frame, Name, SessionOf
    <2>6. x \in ContextType
      BY <2>1
    <2>7. sess' \in [Slots -> SessionOf(Handles \cup {RH_NULL})]
      BY <1>0, <2>2, <2>4
    <2> QED BY <2>4, <2>5, <2>6, <2>7, BeginType
  <1>7. ASSUME NEW s \in Slots, NEW attributes \in SUBSET Attributes, set_attributes(s, attributes)
        PROVE  TypeInv'
    <2>1. sess' \in [Slots -> SessionOf(Handles \cup {RH_NULL})]
      BY <1>0, <1>7 DEF set_attributes, SessionOf
    <2> QED BY <1>7, <2>1 DEF set_attributes, TypeInv, TypeOK, device
  <1>8. ASSUME NEW s \in Slots, NEW h \in Handles, NEW b \in {<<>>} \cup {Name(o) : o \in Objects},
               NEW salt \in Salts, adopt_session(s, h, b, salt)
        PROVE  TypeInv'
    <2> DEFINE ba == IF b = <<>> THEN <<>> ELSE AuthOf[b[1]]
               k == SessionKeyOf(b, salt, tctr + 1, FreshNonce)
    <2>1. b \in Seq(Objects)
      BY <1>0, NameType
    <2>2. ba \in Seq(Secrets) /\ salt \in Seq(Secrets)
      BY <1>0, AuthValuesAreSequences DEF Name
    <2>3. tctr + 1 \in Nat
      BY DEF TypeInv, TypeOK
    <2>4. k \in Key
      BY <1>0, <2>2, <2>3, SessionKeyOfType
    <2>5. new(h, tctr + 1, FreshNonce, {"CONTINUE_SESSION"}, ba, b, salt)
            \in SessionOf(Handles \cup {RH_NULL})
      BY <1>0, <2>1, <2>2, <2>3, NewType DEF Attributes
    <2>6. sess' \in [Slots -> SessionOf(Handles \cup {RH_NULL})]
      BY <1>0, <1>8, <2>5 DEF adopt_session
    <2> HIDE DEF k
    <2>7. tsess' = [tsess EXCEPT ![h] = [id |-> tctr + 1, nonce |-> tctr + 1, bound |-> b, key |-> k]]
      BY <1>8 DEF adopt_session, k
    <2>8. tsess' \in [Handles -> SlotType]
      BY <2>1, <2>3, <2>4, <2>7 DEF TypeInv, TypeOK
    <2> QED BY <1>8, <2>3, <2>6, <2>8 DEF adopt_session, TypeInv, TypeOK
  <1> QED BY <1>1, <1>2, <1>3, <1>4, <1>5, <1>6, <1>7, <1>8 DEF Client

\* Every step of the loop of run keeps the types.
LEMMA LoopTypeInv == TypeInv /\ Loop => TypeInv'
  <1> SUFFICES ASSUME TypeInv, Loop
               PROVE  TypeInv'
    OBVIOUS
  <1>0. /\ sess \in [Slots -> SessionOf(Handles \cup {RH_NULL})]
        /\ resp \in Reply
    BY DEF TypeInv, TypeOK
  <1>0a. resp.rc \in Nat /\ resp.params \in {"intact", "altered"} /\ resp.by \in Nat
         /\ resp.nonce_tpm \in Nat
    BY <1>0 DEF Reply
  <1>0b. SUCCESS \in Nat /\ "Ok" \in {"Ok"} \cup Errors /\ "Usage" \in {"Ok"} \cup Errors
         /\ "Malformed" \in {"Ok"} \cup Errors /\ "Transport" \in {"Ok"} \cup Errors
    BY DEF SUCCESS, Errors
  <1>1. CASE Transmit
    <2>1. sent' \subseteq CallIds
      BY <1>1 DEF Transmit, TypeInv, TypeOK
    <2> QED BY <1>1, <2>1 DEF Transmit, TypeInv, TypeOK, device
  <1>2. CASE TransmitFails
    <2>1. sess' = sess /\ pc # "idle" /\ Return("Transport", 0, "intact", 0)
          /\ UNCHANGED << calls, frames, sent, seen, device >>
      BY <1>2 DEF TransmitFails
    <2> QED BY <1>0, <1>0b, <2>1, ReturnType
  <1>3. CASE Resubmit
    <2>1. attempt' \in Nat /\ resp' \in Reply /\ pc' = "send" /\ pc # "idle"
      BY <1>3, ReplyTypes DEF Resubmit, TypeInv, TypeOK
    <2> QED BY <1>3, <2>1 DEF Resubmit, TypeInv, TypeOK, device
  <1>4. CASE ReceiveError
    <2>1. parse_response(resp) \in {"Ok"} \cup Errors
      BY <1>0, ParseType DEF Errors
    <2>2. sess' = sess /\ pc # "idle" /\ Return(parse_response(resp), resp.rc, resp.params, resp.by)
          /\ UNCHANGED << calls, frames, sent, seen, device >>
      BY <1>4 DEF ReceiveError
    <2> QED BY <1>0, <1>0a, <2>1, <2>2, ReturnType
  <1>5. CASE ReceiveOk
    <2>1. sess' \in [Slots -> SessionOf(Handles \cup {RH_NULL})]
      BY <1>5, <1>0, <1>0a DEF ReceiveOk, SessionAfter, absorb, SessionOf
    <2>2. pc # "idle" /\ Return("Ok", SUCCESS, resp.params, resp.by)
          /\ UNCHANGED << calls, frames, sent, seen, device >>
      BY <1>5 DEF ReceiveOk
    <2> QED BY <1>0a, <1>0b, <2>1, <2>2, ReturnType
  <1>6. ASSUME NEW h \in Handles, ReceiveStarted(h)
        PROVE  TypeInv'
    <2>1. pc # "idle" /\ UNCHANGED << calls, frames, sent, seen, device >>
      BY <1>6 DEF ReceiveStarted
    <2>2. frame.nonce \in Nat
      BY <2>1 DEF TypeInv, TypeOK, frame, Frame
    <2>3. SessionFrom(resp, h) \in SessionOf(Handles \cup {RH_NULL})
          /\ HandedOn(resp) \in {"intact", "altered"}
      BY <1>0, <2>2, StartedType
    <2>4. sess' = sess \/ sess' = [sess EXCEPT ![ctx.slot] = SessionFrom(resp, h)]
      BY <1>6 DEF ReceiveStarted
    <2>5. sess' \in [Slots -> SessionOf(Handles \cup {RH_NULL})]
      BY <1>0, <2>3, <2>4
    <2>6. \/ Return("Ok", SUCCESS, HandedOn(resp), resp.by)
          \/ Return("Usage", SUCCESS, HandedOn(resp), resp.by)
      BY <1>6 DEF ReceiveStarted
    <2> QED BY <1>0a, <1>0b, <2>1, <2>3, <2>5, <2>6, ReturnType
  <1>7. CASE ReceiveStartCut
    <2>1. sess' = sess /\ pc # "idle" /\ Return("Malformed", SUCCESS, HandedOn(resp), resp.by)
          /\ UNCHANGED << calls, frames, sent, seen, device >>
      BY <1>7 DEF ReceiveStartCut
    <2>2. HandedOn(resp) \in {"intact", "altered"}
      BY <1>0a DEF HandedOn
    <2> QED BY <1>0, <1>0a, <1>0b, <2>1, <2>2, ReturnType
  <1> QED BY <1>1, <1>2, <1>3, <1>4, <1>5, <1>6, <1>7 DEF Loop, Proceed

\* A session slot of the TPM stays one when its nonce rolls.
LEMMA RolledSlotType ==
  ASSUME NEW t \in SlotType, NEW n \in Nat
  PROVE  [t EXCEPT !.nonce = n] \in SlotType
  BY DEF SlotType

\* An execution keeps the types of the TPM's variables.
LEMMA ExecutesType ==
  ASSUME TypeInv, NEW c \in CallIds, NEW h \in Handles, Executes(c, h)
  PROVE  /\ tctr' \in Nat
         /\ tsess' \in [Handles -> SlotType]
         /\ execs' \subseteq [call : CallIds, n : Nat, id : Nat]
  <1> USE DEF SlotType
  <1>0. tctr \in Nat /\ tsess \in [Handles -> SlotType] /\ execs \subseteq [call : CallIds, n : Nat, id : Nat]
    BY DEF TypeInv, TypeOK
  <1>1. FreeSlot \in SlotType
    BY DEF FreeSlot, Key
  <1>2. CASE StartsSession(c, h)
    <2>1. [id |-> tctr + 1, nonce |-> tctr + 1, key |-> <<>>, bound |-> <<>>] \in SlotType
      BY <1>0 DEF Key
    <2> QED BY <1>0, <1>2, <2>1 DEF StartsSession, Executed
  <1>3. CASE FlushesContext(c, h)
    BY <1>0, <1>1, <1>3 DEF FlushesContext, Executed
  <1>4. CASE RunsPlainCommand(c, h)
    BY <1>0, <1>4 DEF RunsPlainCommand, Executed
  <1>5. CASE RunsSessionCommand(c, h)
    <2>1. [tsess[h] EXCEPT !.nonce = tctr + 1] \in SlotType
      BY <1>0, RolledSlotType
    <2>2. tsess' = [tsess EXCEPT ![h] = FreeSlot]
          \/ tsess' = [tsess EXCEPT ![h] = [tsess[h] EXCEPT !.nonce = tctr + 1]]
      BY <1>0, <1>5 DEF RunsSessionCommand
    <2>3. tsess' \in [Handles -> SlotType]
      BY <1>0, <1>1, <2>1, <2>2
    <2> QED BY <1>0, <1>5, <2>3 DEF RunsSessionCommand, Executed
  <1> QED BY <1>2, <1>3, <1>4, <1>5 DEF Executes

\* Every answer of the TPM keeps the types.
LEMMA TpmTypeInv == TypeInv /\ Tpm => TypeInv'
  <1> SUFFICES ASSUME TypeInv, Tpm
               PROVE  TypeInv'
    OBVIOUS
  <1>1. ASSUME NEW r \in Reply, Answer(r), pc = "sent",
               tctr' \in Nat, tsess' \in [Handles -> SlotType],
               execs' \subseteq [call : CallIds, n : Nat, id : Nat]
        PROVE  TypeInv'
    BY <1>1 DEF Answer, Remember, TypeInv, TypeOK, SlotType
  <1>2. ASSUME NEW r \in Reply, Answer(r), pc = "sent", UNCHANGED device
        PROVE  TypeInv'
    BY <1>2, <1>1 DEF device, TypeInv, TypeOK, SlotType
  <1>3. ASSUME NEW h \in Handles, TpmExecutes(h)
        PROVE  TypeInv'
    <2>1. calls \in CallIds /\ pc = "sent" /\ Executes(calls, h) /\ Answer(ReplyTo(calls, h))
      BY <1>3 DEF TpmExecutes, TypeInv
    <2>2. ReplyTo(calls, h) \in Reply
      BY <2>1, ReplyToType
    <2> QED BY <1>1, <2>1, <2>2, ExecutesType
  <1>4. ASSUME NEW rc \in NotReadyCodes, TpmNotReady(rc)
        PROVE  TypeInv'
    <2>1. rc \in Nat
      BY RefusalsAreFinal DEF TransientWarnings
    <2> QED BY <1>2, <1>4, <2>1, ReplyTypes DEF TpmNotReady
  <1>5. ASSUME NEW rc \in RefusalCodes \cup {AUTH_FAIL}, TpmRefuses(rc)
        PROVE  TypeInv'
    <2>1. rc \in Nat
      BY RefusalsAreFinal DEF AUTH_FAIL
    <2> QED BY <1>2, <1>5, <2>1, ReplyTypes DEF TpmRefuses
  <1> QED BY <1>3, <1>4, <1>5 DEF Tpm

\* So does everything the link and the other clients do.
LEMMA EnvironmentTypeInv == TypeInv /\ Environment => TypeInv'
  <1> SUFFICES ASSUME TypeInv, Environment
               PROVE  TypeInv'
    OBVIOUS
  <1>1. ASSUME NEW c \in sent, NEW h \in Handles, LateCommand(c, h)
        PROVE  TypeInv'
    <2>1. c \in CallIds /\ Executes(c, h) /\ Remember(ReplyTo(c, h)) /\ UNCHANGED << client, resp >>
      BY <1>1 DEF LateCommand, TypeInv, TypeOK
    <2>2. ReplyTo(c, h) \in Reply
      BY <2>1, ReplyToType
    <2> QED BY <2>1, <2>2, ExecutesType DEF client, Remember, TypeInv, TypeOK, SlotType
  <1>2. ASSUME NEW r \in seen, StaleReply(r)
        PROVE  TypeInv'
    BY <1>2 DEF StaleReply, TypeInv, TypeOK, device
  <1>3. ASSUME NEW r, (r \in Damaged(resp) /\ Garble(r)) \/ (r = Retagged(resp) /\ Retag)
        PROVE  TypeInv'
    <2>1. resp \in Reply
      BY DEF TypeInv, TypeOK
    <2>2. r \in Reply /\ Damages(r)
      BY <1>3, <2>1, DamagedReply, DamagedType
    <2> QED BY <2>2 DEF Damages, client, device, TypeInv, TypeOK
  <1>4. ASSUME NEW h \in Handles, OtherStarts(h)
        PROVE  TypeInv'
    <2>1. tctr + 1 \in Nat
      BY DEF TypeInv, TypeOK
    <2>2. [id |-> tctr + 1, nonce |-> tctr + 1, key |-> <<>>, bound |-> <<>>] \in SlotType
      BY <2>1 DEF SlotType, Key
    <2>3. tsess' \in [Handles -> SlotType]
      BY <1>4, <2>2 DEF OtherStarts, TypeInv, TypeOK, SlotType
    <2> QED BY <1>4, <2>1, <2>3 DEF OtherStarts, client, TypeInv, TypeOK, SlotType
  <1>5. ASSUME NEW h \in Handles, OtherFlushes(h)
        PROVE  TypeInv'
    <2>1. FreeSlot \in SlotType
      BY DEF FreeSlot, SlotType, Key
    <2>2. tsess' \in [Handles -> SlotType]
      BY <1>5, <2>1 DEF OtherFlushes, TypeInv, TypeOK, SlotType
    <2> QED BY <1>5, <2>2 DEF OtherFlushes, client, TypeInv, TypeOK, SlotType
  <1> QED BY <1>1, <1>2, <1>3, <1>4, <1>5 DEF Environment

\* TypeInv is an invariant of the specification.
LEMMA TypeInvariant == Spec => []TypeInv
  <1>1. TypeInv /\ [Next]_vars => TypeInv'
    <2> SUFFICES ASSUME TypeInv, [Next]_vars
                 PROVE  TypeInv'
      OBVIOUS
    <2>1. CASE UNCHANGED vars
      BY <2>1 DEF vars, TypeInv, TypeOK
    <2>2. CASE Next
      BY <2>2, ClientTypeInv, LoopTypeInv, TpmTypeInv, EnvironmentTypeInv DEF Next
    <2> QED BY <2>1, <2>2
  <1> QED BY InitTypeInv, <1>1, PTL DEF Spec

\* Every variable keeps its type: whatever is replied, lost, damaged or
\* repeated, parse_response and the sessions stay in their types (TypeOK).
THEOREM TypeCorrect == Spec => []TypeOK
  <1>1. TypeInv => TypeOK
    BY DEF TypeInv
  <1> QED BY TypeInvariant, <1>1, PTL

-----------------------------------------------------------------------------
(* The rolling nonces.                                                     *)

\* Whatever the link loses, repeats, damages or delivers late, and however
\* often run resubmits: the TPM executes at most one command per nonce it gave
\* out on a handle, so no session call runs twice and no two calls authorised
\* with one nonce both run.
NonceSpentOnce ==
  \A e1, e2 \in execs :
    /\ e1.call \in BySession /\ e2.call \in BySession
    /\ frames[e1.call].handle = frames[e2.call].handle
    /\ SpentNonce(e1.call) = SpentNonce(e2.call)
    => e1 = e2

\* Why: a nonce under which a command ran is no longer any slot's nonce, and
\* it never is again, because the TPM's nonces only grow.
NonceInv ==
  /\ \A c \in CallIds : c > calls => frames[c] = NoFrame /\ results[c] = NoResult
  /\ \A c \in sent : c <= calls
  /\ \A e \in execs : e.call <= calls /\ e.n <= tctr
  /\ \A h \in Handles : tsess[h].nonce <= tctr
  /\ \A e \in execs : e.call \in BySession =>
       /\ SpentNonce(e.call) \in Nat /\ SpentNonce(e.call) <= tctr
       /\ \A h \in Handles : h = frames[e.call].handle /\ tsess[h].id # 0 =>
            tsess[h].nonce # SpentNonce(e.call)
  /\ NonceSpentOnce

\* The frames of the calls that have begun never change.
LEMMA OldFramesStay ==
  ASSUME TypeInv, NEW f, NEW context, Begin(f, context)
  PROVE  /\ calls' = calls + 1 /\ calls' \in CallIds
         /\ \A c \in CallIds : c # calls + 1 => frames'[c] = frames[c]
  BY BoundsAreNumbers DEF TypeInv, TypeOK, Begin, CallIds

\* A step of the client that leaves the TPM alone.
LEMMA BeginNonceInv ==
  ASSUME TypeInv, NonceInv, NEW f, NEW context, Begin(f, context)
  PROVE  NonceInv'
  <1>0. calls \in Nat /\ execs \subseteq [call : CallIds, n : Nat, id : Nat] /\ sent \subseteq CallIds
    BY DEF TypeInv, TypeOK
  <1>1. /\ calls' = calls + 1
        /\ \A c \in CallIds : c # calls + 1 => frames'[c] = frames[c]
    BY OldFramesStay
  <1>2. UNCHANGED << results, sent, tsess, tctr, execs >>
    BY DEF Begin, device
  <1>3. \A e \in execs : e.call \in CallIds /\ e.call <= calls /\ frames'[e.call] = frames[e.call]
    BY <1>0, <1>1 DEF NonceInv, CallIds
  <1>4. \A e \in execs : (e.call \in BySession' <=> e.call \in BySession)
                         /\ SpentNonce(e.call)' = SpentNonce(e.call)
    BY <1>3 DEF BySession, SpentNonce
  <1>5. \A c \in CallIds : c > calls' => frames'[c] = NoFrame /\ results'[c] = NoResult
    BY <1>0, <1>1, <1>2 DEF NonceInv, CallIds
  <1>6. \A c \in sent' : c <= calls'
    BY <1>0, <1>1, <1>2 DEF NonceInv, CallIds
  <1>7. NonceSpentOnce'
    BY <1>2, <1>3, <1>4 DEF NonceInv, NonceSpentOnce
  <1>8. \A e \in execs' : e.call <= calls' /\ e.n <= tctr'
    BY <1>0, <1>1, <1>2, <1>3 DEF NonceInv, CallIds
  <1>9. \A e \in execs' : (e.call \in BySession)' =>
          /\ SpentNonce(e.call)' \in Nat /\ SpentNonce(e.call)' <= tctr'
          /\ \A h \in Handles : h = frames'[e.call].handle /\ tsess'[h].id # 0 =>
               tsess'[h].nonce # SpentNonce(e.call)'
    BY <1>2, <1>3, <1>4 DEF NonceInv
  <1> QED BY <1>2, <1>5, <1>6, <1>7, <1>8, <1>9 DEF NonceInv

\* The TPM executes a session call only on the nonce of its slot: the frame's
\* HMAC covers that nonce.
LEMMA SpendsNonce ==
  ASSUME TypeInv, NEW c \in BySession, NEW h \in Handles, Executes(c, h)
  PROVE  RunsSessionCommand(c, h) /\ SpentNonce(c) = tsess[h].nonce
  <1>1. frames[c].mode = "session" /\ c \in CallIds
    BY DEF BySession
  <1>2. frames[c].code \in Codes
    BY <1>1 DEF TypeInv
  <1>3. RunsSessionCommand(c, h)
    <2>1. StartAuthSession \notin Codes /\ FlushContext \notin Codes
      BY CodesAreApart DEF StartAuthSession, FlushContext
    <2> QED BY <1>1, <1>2, <2>1 DEF Executes, StartsSession, FlushesContext, RunsPlainCommand
  <1>4. frames[c].hmac = << hmac_parts(TpmKey(h, frames[c].names[1]),
                              cp_hash(frames[c].code, frames[c].names),
                              frames[c].nonce, tsess[h].nonce, frames[c].attributes) >>
    BY <1>1, <1>3 DEF RunsSessionCommand, Accepts
  <1>5. SpentNonce(c) = tsess[h].nonce
    BY <1>4 DEF SpentNonce, hmac_parts
  <1> QED BY <1>3, <1>5

\* An execution spends the nonce of its slot: the slot's next one is larger
\* than any before.
LEMMA ExecutesNonceInv ==
  ASSUME TypeInv, NonceInv, NEW c \in CallIds, NEW h \in Handles, c <= calls, Executes(c, h),
         UNCHANGED << calls, frames, results, sent >>
  PROVE  NonceInv'
  <1>0. /\ tctr \in Nat /\ calls \in Nat
        /\ execs \subseteq [call : CallIds, n : Nat, id : Nat]
        /\ tsess \in [Handles -> [id : Nat, nonce : Nat, key : Key, bound : Seq(Objects)]]
        /\ frames \in [CallIds -> Frame]
    BY DEF TypeInv, TypeOK
  <1>1. PICK i : Executed(c, i)
    BY DEF Executes, StartsSession, FlushesContext, RunsPlainCommand, RunsSessionCommand
  <1> DEFINE e0 == [call |-> c, n |-> tctr + 1, id |-> i]
  <1>2. tctr' = tctr + 1 /\ execs' = execs \cup {e0}
    BY <1>1 DEF Executed
  <1>3. e0.call = c /\ e0.n = tctr + 1
    OBVIOUS
  <1> HIDE DEF e0
  <1>4. BySession' = BySession /\ \A x : SpentNonce(x)' = SpentNonce(x)
    BY DEF BySession, SpentNonce
  <1>5. \A g \in Handles : \/ tsess'[g] = tsess[g]
                           \/ tsess'[g].nonce = tctr + 1
                           \/ tsess'[g].id = 0 /\ tsess'[g].nonce = 0
    <2>1. CASE StartsSession(c, h)
      BY <1>0, <2>1 DEF StartsSession
    <2>2. CASE FlushesContext(c, h)
      BY <1>0, <2>2 DEF FlushesContext, FreeSlot
    <2>3. CASE RunsPlainCommand(c, h)
      BY <2>3 DEF RunsPlainCommand
    <2>4. CASE RunsSessionCommand(c, h)
      BY <1>0, <2>4 DEF RunsSessionCommand, FreeSlot
    <2> QED BY <2>1, <2>2, <2>3, <2>4 DEF Executes
  <1>6. \A g \in Handles : tsess'[g].nonce \in Nat /\ tsess'[g].nonce <= tctr'
    BY <1>0, <1>2, <1>5 DEF NonceInv
  <1>7. ASSUME c \in BySession
        PROVE  /\ h = frames[c].handle
               /\ SpentNonce(c) = tsess[h].nonce /\ tsess[h].id # 0
               /\ tsess'[h].nonce = tctr + 1 \/ tsess'[h].id = 0
    <2>1. RunsSessionCommand(c, h) /\ SpentNonce(c) = tsess[h].nonce
      BY <1>7, SpendsNonce
    <2>2. h = frames[c].handle /\ tsess[h].id # 0
      BY <1>7, <2>1 DEF RunsSessionCommand, Accepts, BySession
    <2>3. tsess'[h].nonce = tctr + 1 \/ tsess'[h].id = 0
      BY <1>0, <2>1 DEF RunsSessionCommand, FreeSlot
    <2> QED BY <2>1, <2>2, <2>3
  <1>8. ASSUME NEW e \in execs', e.call \in BySession
        PROVE  /\ SpentNonce(e.call) \in Nat /\ SpentNonce(e.call) <= tctr'
               /\ \A g \in Handles : g = frames[e.call].handle /\ tsess'[g].id # 0 =>
                    tsess'[g].nonce # SpentNonce(e.call)
    <2>1. CASE e = e0
      BY <1>0, <1>2, <1>3, <1>7, <1>8, <2>1 DEF NonceInv
    <2>2. CASE e \in execs
      <3>1. /\ SpentNonce(e.call) \in Nat /\ SpentNonce(e.call) <= tctr
            /\ \A g \in Handles : g = frames[e.call].handle /\ tsess[g].id # 0 =>
                 tsess[g].nonce # SpentNonce(e.call)
        BY <1>8, <2>2 DEF NonceInv
      <3> DEFINE n == SpentNonce(e.call)
      <3> HIDE DEF n
      <3>2. n \in Nat /\ n <= tctr
        BY <3>1 DEF n
      <3>3. ASSUME NEW g \in Handles, g = frames[e.call].handle, tsess'[g].id # 0
            PROVE  tsess'[g].nonce # n
        <4>1. CASE tsess'[g] = tsess[g]
          BY <3>1, <3>3, <4>1 DEF n
        <4>2. CASE tsess'[g].nonce = tctr + 1
          BY <1>0, <3>2, <4>2
        <4> QED BY <1>5, <3>3, <4>1, <4>2
      <3>4. n <= tctr'
        BY <1>0, <1>2, <3>2
      <3> QED BY <3>2, <3>3, <3>4 DEF n
    <2> QED BY <1>2, <1>8, <2>1, <2>2
  <1>9. NonceSpentOnce'
    <2>1. ASSUME NEW e \in execs, e.call \in BySession, c \in BySession,
                 frames[e.call].handle = frames[c].handle, SpentNonce(e.call) = SpentNonce(c)
          PROVE  FALSE
      BY <1>7, <2>1 DEF NonceInv
    <2> QED BY <1>2, <1>3, <1>4, <2>1 DEF NonceInv, NonceSpentOnce
  <1>10. \A e \in execs' : e.call <= calls' /\ e.n <= tctr'
    BY <1>0, <1>2, <1>3 DEF NonceInv
  <1> QED BY <1>2, <1>4, <1>6, <1>9, <1>8, <1>10 DEF NonceInv

\* A step that leaves the frames, the executions and the TPM alone; results
\* change at most for the call in progress, and sent gains at most that call.
LEMMA QuietNonceInv ==
  ASSUME TypeInv, NonceInv, UNCHANGED << calls, frames, device >>,
         \A c \in CallIds : c > calls => results'[c] = results[c],
         \A c \in sent' : c \in sent \/ c = calls
  PROVE  NonceInv'
  <1>0. calls \in Nat
    BY DEF TypeInv, TypeOK
  <1>1. BySession' = BySession /\ \A c : SpentNonce(c)' = SpentNonce(c)
    BY DEF BySession, SpentNonce
  <1>2. UNCHANGED << tsess, tctr, execs >>
    BY DEF device
  <1>3. \A c \in sent' : c <= calls'
    BY <1>0 DEF NonceInv
  <1>4. NonceSpentOnce'
    BY <1>1, <1>2 DEF NonceInv, NonceSpentOnce
  <1>5. \A c \in CallIds : c > calls' => frames'[c] = NoFrame /\ results'[c] = NoResult
    BY DEF NonceInv
  <1> QED BY <1>1, <1>2, <1>3, <1>4, <1>5 DEF NonceInv

\* A slot is taken with a new nonce, or freed, without a call of the client.
LEMMA SlotNonceInv ==
  ASSUME TypeInv, NonceInv, UNCHANGED << calls, frames, results, sent, execs >>,
         tctr' \in {tctr, tctr + 1},
         \A g \in Handles : \/ tsess'[g] = tsess[g]
                            \/ tsess'[g].nonce = tctr + 1 /\ tctr' = tctr + 1
                            \/ tsess'[g].id = 0 /\ tsess'[g].nonce = 0
  PROVE  NonceInv'
  <1>0. /\ tctr \in Nat /\ execs \subseteq [call : CallIds, n : Nat, id : Nat]
        /\ tsess \in [Handles -> [id : Nat, nonce : Nat, key : Key, bound : Seq(Objects)]]
    BY DEF TypeInv, TypeOK
  <1>1. BySession' = BySession /\ \A c : SpentNonce(c)' = SpentNonce(c)
    BY DEF BySession, SpentNonce
  <1>2. \A g \in Handles : tsess'[g].nonce <= tctr'
    BY <1>0 DEF NonceInv
  <1>3. ASSUME NEW e \in execs, e.call \in BySession
        PROVE  /\ SpentNonce(e.call) \in Nat /\ SpentNonce(e.call) <= tctr'
               /\ \A g \in Handles : g = frames[e.call].handle /\ tsess'[g].id # 0 =>
                    tsess'[g].nonce # SpentNonce(e.call)
    <2> DEFINE n == SpentNonce(e.call)
    <2>1. /\ n \in Nat /\ n <= tctr
          /\ \A g \in Handles : g = frames[e.call].handle /\ tsess[g].id # 0 => tsess[g].nonce # n
      BY <1>3 DEF NonceInv
    <2> HIDE DEF n
    <2>2. ASSUME NEW g \in Handles, g = frames[e.call].handle, tsess'[g].id # 0
          PROVE  tsess'[g].nonce # n
      BY <1>0, <2>1, <2>2
    <2>3. n <= tctr'
      BY <1>0, <2>1
    <2> QED BY <2>1, <2>2, <2>3 DEF n
  <1>4. NonceSpentOnce'
    BY <1>1 DEF NonceInv, NonceSpentOnce
  <1>5. \A e \in execs : e.n <= tctr'
    BY <1>0 DEF NonceInv
  <1> QED BY <1>1, <1>2, <1>3, <1>4, <1>5 DEF NonceInv

\* The initial states satisfy the invariant.
LEMMA InitNonceInv == Init => NonceInv
  BY DEF Init, NonceInv, NonceSpentOnce, FreeSlot

\* Every step of the model is one of the four kinds above.
LEMMA NextNonceInv == TypeInv /\ NonceInv /\ [Next]_vars => NonceInv'
  <1> SUFFICES ASSUME TypeInv, NonceInv, [Next]_vars
               PROVE  NonceInv'
    OBVIOUS
  <1>0. calls \in Nat /\ tctr \in Nat /\ tsess \in [Handles -> SlotType]
    BY DEF TypeInv, TypeOK, SlotType
  <1>q. ASSUME UNCHANGED << calls, frames, results, sent, device >>
        PROVE  NonceInv'
    BY <1>q, QuietNonceInv
  <1>r. ASSUME NEW kind, NEW rc, NEW params, NEW by, Return(kind, rc, params, by),
               UNCHANGED << calls, frames, sent, device >>
        PROVE  NonceInv'
    <2>1. results \in [CallIds -> Result]
      BY DEF TypeInv, TypeOK
    <2>2. \A c \in CallIds : c > calls => results'[c] = results[c]
      BY <1>0, <1>r, <2>1 DEF Return
    <2> QED BY <1>r, <2>2, QuietNonceInv
  <1>1. CASE UNCHANGED vars
    BY <1>1, <1>q DEF vars, device
  <1>2. CASE Client
    <2>1. ASSUME NEW f, NEW context, Begin(f, context)
          PROVE  NonceInv'
      BY <2>1, BeginNonceInv
    <2>2. ASSUME NEW s \in Slots, NEW alg \in Algs, start_hmac_session(s, alg)
          PROVE  NonceInv'
      <3>1. CASE StartCall(s, alg)
        BY <2>1, <3>1 DEF StartCall
      <3>2. CASE ~StartCall(s, alg)
        <4>1. calls' = calls + 1 /\ UNCHANGED << frames, sent, device >>
          BY <2>2, <3>2 DEF start_hmac_session
        <4>2. BySession' = BySession /\ \A c : SpentNonce(c)' = SpentNonce(c)
          BY <4>1 DEF BySession, SpentNonce
        <4>3. UNCHANGED << tsess, tctr, execs >>
          BY <4>1 DEF device
        <4>4. NonceSpentOnce'
          BY <4>1, <4>2, <4>3 DEF NonceInv, NonceSpentOnce
        <4>5. \A c \in CallIds : c > calls' => frames'[c] = NoFrame /\ results'[c] = NoResult
          <5>1. results' = [results EXCEPT ![calls + 1] = [NoResult EXCEPT !.kind = "Usage"]]
                /\ results \in [CallIds -> Result]
            BY <2>2, <3>2 DEF start_hmac_session, TypeInv, TypeOK
          <5> QED BY <1>0, <4>1, <5>1 DEF NonceInv, CallIds
        <4>6. execs \subseteq [call : CallIds, n : Nat, id : Nat] /\ sent \subseteq CallIds
          BY DEF TypeInv, TypeOK
        <4>7. (\A c \in sent' : c <= calls') /\ (\A e \in execs' : e.call <= calls' /\ e.n <= tctr')
          BY <1>0, <4>1, <4>3, <4>6 DEF NonceInv, CallIds
        <4> QED BY <4>1, <4>2, <4>3, <4>4, <4>5, <4>7 DEF NonceInv
      <3> QED BY <3>1, <3>2
    <2>3. ASSUME NEW s \in Slots, NEW attributes \in SUBSET Attributes, set_attributes(s, attributes)
          PROVE  NonceInv'
      BY <2>3, <1>q DEF set_attributes
    <2>4. ASSUME NEW s \in Slots, NEW h \in Handles, NEW b, NEW salt, adopt_session(s, h, b, salt)
          PROVE  NonceInv'
      <3>1. tctr' = tctr + 1 /\ UNCHANGED << calls, frames, results, sent, execs >>
        BY <2>4 DEF adopt_session
      <3>2. \A g \in Handles : tsess'[g] = tsess[g] \/ tsess'[g].nonce = tctr + 1
        BY <1>0, <2>4 DEF adopt_session
      <3> QED BY <3>1, <3>2, SlotNonceInv
    <2>5. ASSUME NEW s \in Slots, NEW alg \in Algs, start_auth_session(s, alg)
          PROVE  NonceInv'
      BY <2>1, <2>5 DEF start_auth_session, StartCall
    <2>6. ASSUME NEW s \in Slots, flush_context(s)
          PROVE  NonceInv'
      BY <2>1, <2>6 DEF flush_context
    <2>7. ASSUME NEW code \in Codes, run_none(code)
          PROVE  NonceInv'
      BY <2>1, <2>7 DEF run_none
    <2>8. ASSUME NEW code \in Codes, NEW o \in Objects, NEW a \in AuthValues, run_password(code, o, a)
          PROVE  NonceInv'
      BY <2>1, <2>8 DEF run_password
    <2>9. ASSUME NEW s \in Slots, NEW code \in Codes, NEW o \in Objects, NEW a \in AuthValues,
                 run_session(s, code, o, a)
          PROVE  NonceInv'
      BY <2>1, <2>9 DEF run_session
    <2> QED BY <1>2, <2>2, <2>3, <2>4, <2>5, <2>6, <2>7, <2>8, <2>9 DEF Client
  <1>3. CASE Loop
    <2>1. CASE Transmit
      BY <2>1, QuietNonceInv DEF Transmit
    <2>2. CASE TransmitFails
      BY <2>2, <1>r DEF TransmitFails
    <2>3. CASE Resubmit
      BY <2>3, <1>q DEF Resubmit
    <2>4. CASE ReceiveError
      BY <2>4, <1>r DEF ReceiveError
    <2>5. CASE ReceiveOk
      BY <2>5, <1>r DEF ReceiveOk
    <2>6. ASSUME NEW h \in Handles, ReceiveStarted(h)
          PROVE  NonceInv'
      BY <2>6, <1>r DEF ReceiveStarted
    <2>7. CASE ReceiveStartCut
      BY <2>7, <1>r DEF ReceiveStartCut
    <2> QED BY <1>3, <2>1, <2>2, <2>3, <2>4, <2>5, <2>6, <2>7 DEF Loop, Proceed
  <1>4. CASE Tpm
    <2>1. ASSUME NEW h \in Handles, TpmExecutes(h)
          PROVE  NonceInv'
      <3>1. calls \in CallIds /\ Executes(calls, h) /\ UNCHANGED << calls, frames, results, sent >>
        BY <2>1 DEF TpmExecutes, Answer, TypeInv
      <3> QED BY <1>0, <3>1, ExecutesNonceInv
    <2>2. ASSUME NEW rc, TpmNotReady(rc)
          PROVE  NonceInv'
      BY <2>2, <1>q DEF TpmNotReady, Answer
    <2>3. ASSUME NEW rc, TpmRefuses(rc)
          PROVE  NonceInv'
      BY <2>3, <1>q DEF TpmRefuses, Answer
    <2> QED BY <1>4, <2>1, <2>2, <2>3 DEF Tpm
  <1>5. CASE Environment
    <2>1. ASSUME NEW c \in sent, NEW h \in Handles, LateCommand(c, h)
          PROVE  NonceInv'
      <3>1. c \in CallIds /\ c <= calls
        BY DEF TypeInv, TypeOK, NonceInv
      <3>2. Executes(c, h) /\ UNCHANGED << calls, frames, results, sent >>
        BY <2>1 DEF LateCommand, client
      <3> QED BY <3>1, <3>2, ExecutesNonceInv
    <2>2. ASSUME NEW r, StaleReply(r)
          PROVE  NonceInv'
      BY <2>2, <1>q DEF StaleReply
    <2>3. ASSUME NEW r, Damages(r)
          PROVE  NonceInv'
      BY <2>3, <1>q DEF Damages, client
    <2>4. ASSUME NEW h \in Handles, OtherStarts(h)
          PROVE  NonceInv'
      <3>1. tctr' = tctr + 1 /\ UNCHANGED << calls, frames, results, sent, execs >>
        BY <2>4 DEF OtherStarts, client
      <3>2. \A g \in Handles : tsess'[g] = tsess[g] \/ tsess'[g].nonce = tctr + 1
        BY <1>0, <2>4 DEF OtherStarts
      <3> QED BY <3>1, <3>2, SlotNonceInv
    <2>5. ASSUME NEW h \in Handles, OtherFlushes(h)
          PROVE  NonceInv'
      <3>1. tctr' = tctr /\ UNCHANGED << calls, frames, results, sent, execs >>
        BY <2>5 DEF OtherFlushes, client
      <3>2. \A g \in Handles : tsess'[g] = tsess[g] \/ (tsess'[g].id = 0 /\ tsess'[g].nonce = 0)
        BY <1>0, <2>5 DEF OtherFlushes, FreeSlot
      <3> QED BY <3>1, <3>2, SlotNonceInv
    <2> QED BY <1>5, <2>1, <2>2, <2>3, <2>4, <2>5 DEF Environment, Garble, Retag
  <1> QED BY <1>1, <1>2, <1>3, <1>4, <1>5 DEF Next

-----------------------------------------------------------------------------
(* Authentic replies.                                                      *)

\* The HMAC of a reply, if it has one, is that of an execution of the call
\* whose nonce it covers, over the parameters that execution returned.
Vouched(r) ==
  r.hmac # <<>> =>
    /\ r.hmac[1].hash.params = "intact"
    /\ \E e \in execs : e.n = r.by /\ e.call = r.hmac[1].older

\* Why an Ok is authentic: the number of a session call is its nonce_caller,
\* every reply about is vouched for, and none reaches a session call without
\* the session area.
AuthInv ==
  /\ \A c \in BySession : frames[c].nonce = c
  /\ pc # "idle" /\ frame.mode = "session" => ctx.slot \in Slots /\ sess[ctx.slot].nonce_caller = calls
  /\ Vouched(resp)
  /\ \A r \in seen : Vouched(r) /\ (r.rc = SUCCESS => r.tag = "SESSIONS")
  /\ pc = "replied" /\ frame.mode = "session" =>
       resp.shape = "short" \/ resp.rc # SUCCESS \/ resp.tag = "SESSIONS"
  /\ \A c \in BySession : results[c].kind = "Ok" =>
       results[c].params = "intact" /\ \E e \in execs : e.call = c /\ e.n = results[c].by

\* A verified reply is one to the call in progress.
LEMMA VerifiedIsVouched ==
  ASSUME TypeInv, AuthInv, pc = "replied", frame.mode = "session", parse_response(resp) = "Ok"
  PROVE  resp.params = "intact" /\ \E e \in execs : e.call = calls /\ e.n = resp.by
  <1>0. resp \in Reply
    BY DEF TypeInv, TypeOK
  <1>1. resp.shape = "whole" /\ resp.rc = SUCCESS
    BY <1>0 DEF parse_response, Reply
  <1>2. resp.tag = "SESSIONS"
    BY <1>1 DEF AuthInv
  <1>3. VerifiedBySession(resp)
    BY <1>1, <1>2 DEF parse_response
  <1>4. PICK k : resp.hmac = << hmac_parts(k, rp_hash(frame.code, resp.params), resp.nonce_tpm,
                                           sess[ctx.slot].nonce_caller, resp.attributes) >>
    BY <1>3 DEF VerifiedBySession, ResponseVerifies
  <1>5. resp.hmac # <<>> /\ resp.hmac[1].older = sess[ctx.slot].nonce_caller
        /\ resp.hmac[1].hash.params = resp.params
    BY <1>4 DEF hmac_parts, rp_hash
  <1> QED BY <1>5 DEF AuthInv, Vouched

\* There is nothing to vouch for in the empty reply.
LEMMA NoReplyHasNoHmac == NoReply.hmac = <<>>
  <1> DEFINE e == ErrorReply(SUCCESS)
  <1>1. e.hmac = <<>>
    BY DEF ErrorReply
  <1>2. e \in Reply
    BY ReplyTypes DEF SUCCESS
  <1> HIDE DEF e
  <1>3. [e EXCEPT !.shape = "short"].hmac = <<>>
    BY <1>1, <1>2 DEF Reply
  <1> QED BY <1>3 DEF NoReply, e

\* The initial states satisfy the invariant.
LEMMA InitAuthInv == Init => AuthInv
  <1> SUFFICES ASSUME Init
               PROVE  AuthInv
    OBVIOUS
  <1>1. BySession = {}
    BY DEF Init, BySession, NoFrame, PlainFrame
  <1>2. NoReply.hmac = <<>>
    BY NoReplyHasNoHmac
  <1> QED BY <1>1, <1>2 DEF Init, AuthInv, Vouched

\* Beginning a call: a session call's frame is numbered like its nonce.
LEMMA BeginAuthInv ==
  ASSUME TypeInv, NonceInv, AuthInv, NEW f \in Frame, NEW context, Begin(f, context),
         f.mode = "session" => f.nonce = FreshNonce /\ context.slot \in Slots
                               /\ sess'[context.slot].nonce_caller = FreshNonce
  PROVE  AuthInv'
  <1>0. calls' = calls + 1 /\ calls' \in CallIds /\ calls \in Nat
        /\ (\A c \in CallIds : c # calls + 1 => frames'[c] = frames[c])
        /\ frames'[calls + 1] = f
    <2>1. calls' = calls + 1 /\ calls' \in CallIds
          /\ \A c \in CallIds : c # calls + 1 => frames'[c] = frames[c]
      BY OldFramesStay
    <2>2. calls \in Nat /\ frames \in [CallIds -> Frame]
      BY DEF TypeInv, TypeOK
    <2>3. frames'[calls + 1] = f
      BY <2>1, <2>2 DEF Begin
    <2> QED BY <2>1, <2>2, <2>3
  <1>1. UNCHANGED << results, resp, seen, tsess, tctr, execs >> /\ pc' = "send" /\ ctx' = context
    BY DEF Begin, device
  <1>2. results[calls + 1] = NoResult
    BY <1>0 DEF NonceInv
  <1>3. NoResult.kind # "Ok"
    BY DEF NoResult
  <1>4. \A c \in BySession' : IF c = calls + 1 THEN f.mode = "session" ELSE c \in BySession
    BY <1>0 DEF BySession
  <1>5. \A c \in BySession' : frames'[c].nonce = c
    BY <1>0, <1>4 DEF AuthInv, FreshNonce, BySession
  <1>6. \A r : Vouched(r)' <=> Vouched(r)
    BY <1>1 DEF Vouched
  <1>7. \A c \in BySession' : results'[c].kind = "Ok" =>
          results'[c].params = "intact" /\ \E e \in execs' : e.call = c /\ e.n = results'[c].by
    BY <1>1, <1>2, <1>3, <1>4 DEF AuthInv
  <1>8. frame' = f
    BY <1>0 DEF frame
  <1>9. pc' # "idle" /\ frame'.mode = "session" =>
          ctx'.slot \in Slots /\ sess'[ctx'.slot].nonce_caller = calls'
    BY <1>0, <1>1, <1>8 DEF FreshNonce
  <1>10. Vouched(resp)'
    BY <1>1, <1>6 DEF AuthInv
  <1>11. (\A r \in seen : Vouched(r) /\ (r.rc = SUCCESS => r.tag = "SESSIONS"))'
    BY <1>1, <1>6 DEF AuthInv
  <1> QED BY <1>1, <1>5, <1>7, <1>9, <1>10, <1>11 DEF AuthInv

\* Returning: the call in progress gets its result.
LEMMA ReturnAuthInv ==
  ASSUME TypeInv, AuthInv, NEW kind, NEW rc, NEW params, NEW by, Return(kind, rc, params, by),
         UNCHANGED << calls, frames, sent, seen, device >>,
         frame.mode = "session" /\ kind = "Ok" =>
           params = "intact" /\ \E e \in execs : e.call = calls /\ e.n = by
  PROVE  AuthInv'
  <1>1. UNCHANGED << tsess, tctr, execs >> /\ pc' = "idle" /\ resp' = NoReply
    BY DEF Return, device
  <1>2. NoReply.hmac = <<>>
    BY NoReplyHasNoHmac
  <1>3. BySession' = BySession /\ \A r : Vouched(r)' <=> Vouched(r)
    BY <1>1 DEF BySession, Vouched
  <1>4. Vouched(resp)'
    BY <1>1, <1>2 DEF Vouched
  <1>5. ASSUME NEW c \in BySession, results'[c].kind = "Ok"
        PROVE  results'[c].params = "intact" /\ \E e \in execs : e.call = c /\ e.n = results'[c].by
    <2>0. results \in [CallIds -> Result] /\ c \in CallIds /\ frames[c].mode = "session"
      BY DEF TypeInv, TypeOK, BySession
    <2>1. CASE c = calls
      BY <1>5, <2>0, <2>1 DEF Return, frame
    <2>2. CASE c # calls
      <3>1. results'[c] = results[c]
        BY <2>0, <2>2 DEF Return
      <3> QED BY <1>5, <3>1 DEF AuthInv
    <2> QED BY <2>1, <2>2
  <1>6. (\A r \in seen : Vouched(r) /\ (r.rc = SUCCESS => r.tag = "SESSIONS"))'
    BY <1>3 DEF AuthInv
  <1> QED BY <1>1, <1>3, <1>4, <1>5, <1>6 DEF AuthInv

\* What the TPM replies to an execution is vouched for by that execution.
LEMMA ReplyToIsVouched ==
  ASSUME TypeInv, AuthInv, NEW c \in CallIds, NEW h \in Handles, Executes(c, h),
         NEW r, r = ReplyTo(c, h)
  PROVE  /\ execs \subseteq execs'
         /\ Vouched(r)'
         /\ r.rc = SUCCESS
         /\ frames[c].mode = "session" => r.tag = "SESSIONS"
  <1>1. PICK i : Executed(c, i)
    BY DEF Executes, StartsSession, FlushesContext, RunsPlainCommand, RunsSessionCommand
  <1> DEFINE e0 == [call |-> c, n |-> tctr + 1, id |-> i]
  <1>2. execs' = execs \cup {e0} /\ e0.call = c /\ e0.n = tctr + 1
    BY <1>1 DEF Executed
  <1>3. r.by = tctr + 1 /\ r.rc = SUCCESS /\ (frames[c].mode = "session" => r.tag = "SESSIONS")
    BY DEF ReplyTo
  <1>4. ASSUME r.hmac # <<>>
        PROVE  r.hmac[1].hash.params = "intact" /\ r.hmac[1].older = c
    <2>1. frames[c].mode = "session"
      BY <1>4 DEF ReplyTo
    <2>2. frames[c].nonce = c
      BY <2>1 DEF AuthInv, BySession
    <2>3. PICK k : r.hmac = << hmac_parts(k, rp_hash(frames[c].code, "intact"), tctr + 1,
                                          frames[c].nonce, frames[c].attributes) >>
      BY <2>1 DEF ReplyTo
    <2> QED BY <2>2, <2>3 DEF hmac_parts, rp_hash
  <1> HIDE DEF e0
  <1>5. Vouched(r)'
    BY <1>2, <1>3, <1>4 DEF Vouched
  <1> QED BY <1>2, <1>3, <1>5

\* A step of the link or the TPM: executions are only added, and the replies it
\* leaves about are vouched for.
LEMMA StepAuthInv ==
  ASSUME TypeInv, AuthInv, UNCHANGED << calls, frames, results, ctx >>, execs \subseteq execs',
         pc' # "idle" => pc # "idle" /\ sess' = sess,
         Vouched(resp) => Vouched(resp)',
         \A r \in seen' : r \in seen \/ (Vouched(r)' /\ (r.rc = SUCCESS => r.tag = "SESSIONS")),
         pc' = "replied" /\ frame.mode = "session" =>
           resp'.shape = "short" \/ resp'.rc # SUCCESS \/ resp'.tag = "SESSIONS"
  PROVE  AuthInv'
  <1>1. \A r : Vouched(r) => Vouched(r)'
    BY DEF Vouched
  <1>2. BySession' = BySession /\ frame' = frame
    BY DEF BySession, frame
  <1>3. (\A r \in seen : Vouched(r) /\ (r.rc = SUCCESS => r.tag = "SESSIONS"))'
    BY <1>1 DEF AuthInv
  <1>4. \A c \in BySession : results'[c].kind = "Ok" =>
          results'[c].params = "intact" /\ \E e \in execs' : e.call = c /\ e.n = results'[c].by
    BY DEF AuthInv
  <1>5. pc' # "idle" /\ frame'.mode = "session" =>
          ctx'.slot \in Slots /\ sess'[ctx'.slot].nonce_caller = calls'
    BY <1>2 DEF AuthInv
  <1>6. Vouched(resp)'
    BY DEF AuthInv
  <1> QED BY <1>2, <1>3, <1>4, <1>5, <1>6 DEF AuthInv

\* No success without a session area reaches a call it was not given to: of the
\* replies the link hands out again none is one, and damage makes none.
NoStrayPlainReply ==
  /\ "stale" \in Faults => "plain" \notin StaleKinds
  /\ "retag" \notin Faults

\* Every step keeps the invariant, when no plain reply strays.
LEMMA NextAuthInv ==
  ASSUME NoStrayPlainReply, TypeInv, NonceInv, AuthInv, [Next]_vars
  PROVE  AuthInv'
  <1>a. calls \in Nat
    BY DEF TypeInv, TypeOK
  <1>b. sess \in [Slots -> SessionOf(Handles \cup {RH_NULL})]
    BY DEF TypeInv, TypeOK
  <1>0. calls \in Nat /\ sess \in [Slots -> SessionOf(Handles \cup {RH_NULL})]
    BY <1>a, <1>b
  <1>m. \A r : execs \subseteq execs' /\ Vouched(r) => Vouched(r)'
    BY DEF Vouched
  <1>f. ASSUME NEW r \in seen', NEW x, r \in seen \/ r = x,
               "stale" \in Faults, ReplyKind(x) \in StaleKinds
        PROVE  r \in seen \/ (r.rc = SUCCESS => r.tag = "SESSIONS")
    BY <1>f DEF NoStrayPlainReply, ReplyKind
  <1>1. CASE UNCHANGED vars
    BY <1>1, <1>m, StepAuthInv DEF vars, AuthInv
  <1>2. CASE Client
    <2>1. ASSUME NEW f \in Frame, f.mode = "none", NEW context, Begin(f, context)
          PROVE  AuthInv'
      BY <2>1, BeginAuthInv
    <2>2. ASSUME NEW s \in Slots, NEW alg \in Algs, StartCall(s, alg)
          PROVE  AuthInv'
      <3>1. FreshNonce \in Nat
        BY <1>0 DEF FreshNonce
      <3>2. PlainFrame(StartAuthSession, <<>>, RH_NULL, FreshNonce) \in Frame
            /\ PlainFrame(StartAuthSession, <<>>, RH_NULL, FreshNonce).mode = "none"
        BY <3>1 DEF PlainFrame, Frame
      <3> QED BY <2>1, <2>2, <3>2 DEF StartCall
    <2>3. ASSUME NEW s \in Slots, NEW alg \in Algs, start_hmac_session(s, alg)
          PROVE  AuthInv'
      <3>1. CASE StartCall(s, alg)
        BY <2>2, <3>1
      <3>2. CASE ~StartCall(s, alg)
        <4>1. /\ pc = "idle" /\ calls' = calls + 1 /\ pc' = pc
              /\ UNCHANGED << frames, resp, seen, device >>
              /\ results' = [results EXCEPT ![calls + 1] = [NoResult EXCEPT !.kind = "Usage"]]
          BY <2>3, <3>2 DEF start_hmac_session
        <4>2. UNCHANGED execs /\ BySession' = BySession /\ \A r : Vouched(r)' <=> Vouched(r)
          BY <4>1 DEF device, BySession, Vouched
        <4>3. \A c \in BySession : results'[c].kind = "Ok" => results'[c] = results[c]
          <5>1. results \in [CallIds -> Result] /\ BySession \subseteq CallIds
            BY DEF TypeInv, TypeOK, BySession
          <5>2. [NoResult EXCEPT !.kind = "Usage"].kind # "Ok"
            <6>1. NoResult \in Result
              BY DEF NoResult, Result
            <6> QED BY <6>1 DEF Result
          <5> QED BY <4>1, <5>1, <5>2
        <4>4. (\A r \in seen : Vouched(r) /\ (r.rc = SUCCESS => r.tag = "SESSIONS"))'
          BY <4>1, <4>2 DEF AuthInv
        <4>5. Vouched(resp)'
          BY <4>1, <4>2 DEF AuthInv
        <4> QED BY <4>1, <4>2, <4>3, <4>4, <4>5 DEF AuthInv
      <3> QED BY <3>1, <3>2
    <2>4. ASSUME NEW s \in Slots, flush_context(s)
          PROVE  AuthInv'
      <3>1. PlainFrame(FlushContext, <<>>, sess[s].handle, 0) \in Frame
            /\ PlainFrame(FlushContext, <<>>, sess[s].handle, 0).mode = "none"
        BY <1>0 DEF PlainFrame, Frame, SessionOf
      <3> QED BY <2>1, <2>4, <3>1 DEF flush_context
    <2>5. ASSUME NEW code \in Codes, run_none(code)
          PROVE  AuthInv'
      <3>1. PlainFrame(code, <<>>, RH_NULL, 0) \in Frame /\ PlainFrame(code, <<>>, RH_NULL, 0).mode = "none"
        BY DEF PlainFrame, Frame
      <3> QED BY <2>1, <2>5, <3>1 DEF run_none
    <2>6. ASSUME NEW code \in Codes, NEW o \in Objects, NEW a \in AuthValues, run_password(code, o, a)
          PROVE  AuthInv'
      <3> DEFINE f == [mode |-> "password", code |-> code, names |-> Name(o), handle |-> RS_PW,
                       nonce |-> 0, attributes |-> {"CONTINUE_SESSION"}, hmac |-> a, id |-> 0]
      <3>1. a \in Seq(Secrets)
        BY AuthValuesAreSequences
      <3>2. a \in Seq(Secrets \cup HmacTerm)
        BY <3>1
      <3>3. f \in Frame
        BY <3>2 DEF Frame, Name, Attributes
      <3>4. PICK context : Begin(f, context)
        BY <2>6 DEF run_password
      <3> QED BY <3>3, <3>4, BeginAuthInv
    <2>7. ASSUME NEW s \in Slots, NEW code \in Codes, NEW o \in Objects, NEW a \in AuthValues,
                 run_session(s, code, o, a)
          PROVE  AuthInv'
      <3> DEFINE t == command_auth(sess[s], FreshNonce)
                 m == CommandHmac(t, cp_hash(code, Name(o)), a, Name(o))
                 f == [mode |-> "session", code |-> code, names |-> Name(o), handle |-> t.handle,
                       nonce |-> t.nonce_caller, attributes |-> t.attributes, hmac |-> m, id |-> t.id]
                 x == [slot |-> s, auth |-> a, alg |-> NoAlg]
      <3>1. a \in Seq(Secrets)
        BY AuthValuesAreSequences
      <3>2. t \in SessionOf(Handles \cup {RH_NULL}) /\ t.nonce_caller = FreshNonce
        <4>1. FreshNonce \in Nat
          BY <1>a DEF FreshNonce
        <4>2. sess[s] \in SessionOf(Handles \cup {RH_NULL})
          BY <1>b
        <4>3. t \in SessionOf(Handles \cup {RH_NULL})
          BY <4>1, <4>2 DEF command_auth, SessionOf
        <4>4. t.nonce_caller = FreshNonce
          BY <4>1, <4>2 DEF command_auth, SessionOf
        <4> QED BY <4>3, <4>4
      <3>3. m \in Seq(Secrets \cup HmacTerm)
        BY <3>1, <3>2, CommandHmacType
      <3>4. Begin(f, x) /\ sess' = [sess EXCEPT ![s] = t]
        BY <2>7 DEF run_session
      <3> HIDE DEF t, m
      <3>5. f \in Frame
        BY <3>2, <3>3 DEF Frame, Name, SessionOf
      <3>6. sess'[x.slot].nonce_caller = FreshNonce /\ x.slot \in Slots /\ f.nonce = FreshNonce
        BY <1>0, <3>2, <3>4
      <3> QED BY <3>4, <3>5, <3>6, BeginAuthInv
    <2>8. ASSUME NEW s \in Slots, NEW attributes \in SUBSET Attributes, set_attributes(s, attributes)
          PROVE  AuthInv'
      <3>1. /\ pc' = "idle" /\ execs' = execs
            /\ UNCHANGED << calls, frames, results, ctx, resp, seen >>
        BY <2>8 DEF set_attributes, device
      <3> QED BY <1>m, <3>1, StepAuthInv
    <2>9. ASSUME NEW s \in Slots, NEW h \in Handles, NEW b, NEW salt, adopt_session(s, h, b, salt)
          PROVE  AuthInv'
      <3>1. /\ pc' = "idle" /\ execs' = execs
            /\ UNCHANGED << calls, frames, results, ctx, resp, seen >>
        BY <2>9 DEF adopt_session
      <3> QED BY <1>m, <3>1, StepAuthInv
    <2> QED BY <1>2, <2>2, <2>3, <2>4, <2>5, <2>6, <2>7, <2>8, <2>9 DEF Client, start_auth_session
  <1>3. CASE Loop
    <2>1. CASE Transmit
      <3>1. /\ pc' = "sent" /\ pc # "idle" /\ execs' = execs
            /\ UNCHANGED << sess, calls, frames, results, ctx, resp, seen >>
        BY <2>1 DEF Transmit, device
      <3> QED BY <1>m, <3>1, StepAuthInv
    <2>2. CASE TransmitFails
      BY <2>2, ReturnAuthInv DEF TransmitFails
    <2>3. CASE Resubmit
      <3>1. /\ pc' = "send" /\ pc # "idle" /\ execs' = execs /\ resp' = NoReply
            /\ UNCHANGED << sess, calls, frames, results, ctx, seen >>
        BY <2>3 DEF Resubmit, device
      <3>2. Vouched(resp)'
        BY <3>1, NoReplyHasNoHmac DEF Vouched
      <3> QED BY <3>1, <3>2, StepAuthInv
    <2>4. CASE ReceiveError
      BY <2>4, ReturnAuthInv DEF ReceiveError
    <2>5. CASE ReceiveOk
      BY <2>5, VerifiedIsVouched, ReturnAuthInv DEF ReceiveOk
    <2>6. ASSUME NEW h \in Handles, ReceiveStarted(h)
          PROVE  AuthInv'
      <3>1. frame.mode # "session"
        <4>1. frame.code \notin Codes /\ calls \in CallIds
          BY <2>6, CodesAreApart DEF ReceiveStarted, StartAuthSession, TypeInv
        <4> QED BY <4>1 DEF TypeInv, frame
      <3> QED BY <2>6, <3>1, ReturnAuthInv DEF ReceiveStarted
    <2>7. CASE ReceiveStartCut
      BY <2>7, ReturnAuthInv DEF ReceiveStartCut
    <2> QED BY <1>3, <2>1, <2>2, <2>3, <2>4, <2>5, <2>6, <2>7 DEF Loop, Proceed
  <1>4. CASE Tpm
    <2>1. ASSUME NEW h \in Handles, TpmExecutes(h)
          PROVE  AuthInv'
      <3> DEFINE x == ReplyTo(calls, h)
      <3>1. /\ calls \in CallIds /\ Executes(calls, h) /\ Answer(x) /\ pc = "sent"
        BY <2>1 DEF TpmExecutes, TypeInv
      <3>2. /\ execs \subseteq execs' /\ x.rc = SUCCESS
            /\ frame.mode = "session" => x.tag = "SESSIONS"
            /\ \A r : r = x => Vouched(r)'
        BY <3>1, ReplyToIsVouched DEF frame
      <3> HIDE DEF x
      <3>3. /\ UNCHANGED << sess, calls, frames, results, ctx >> /\ resp' = x /\ Remember(x)
        BY <3>1 DEF Answer
      <3>4. Vouched(resp)'
        BY <3>2, <3>3 DEF Vouched
      <3>5. \A r \in seen' : r \in seen \/ (Vouched(r)' /\ (r.rc = SUCCESS => r.tag = "SESSIONS"))
        BY <1>f, <3>2, <3>3 DEF Remember
      <3> QED BY <3>1, <3>2, <3>3, <3>4, <3>5, StepAuthInv
    <2>2. ASSUME NEW rc, rc # SUCCESS, pc = "sent", Answer(ErrorReply(rc)), UNCHANGED device
          PROVE  AuthInv'
      <3> DEFINE x == ErrorReply(rc)
      <3>1. x.hmac = <<>> /\ x.rc # SUCCESS
        BY <2>2 DEF ErrorReply
      <3> HIDE DEF x
      <3>2. /\ UNCHANGED << sess, calls, frames, results, ctx, execs >> /\ resp' = x /\ Remember(x)
        BY <2>2 DEF Answer, device, x
      <3>3. Vouched(resp)' /\ \A r : r = x => Vouched(r)'
        BY <3>1, <3>2 DEF Vouched
      <3>4. \A r \in seen' : r \in seen \/ (Vouched(r)' /\ (r.rc = SUCCESS => r.tag = "SESSIONS"))
        BY <3>1, <3>2, <3>3 DEF Remember
      <3> QED BY <2>2, <3>1, <3>2, <3>3, <3>4, StepAuthInv
    <2>3. ASSUME NEW rc \in NotReadyCodes, TpmNotReady(rc)
          PROVE  AuthInv'
      BY <2>2, <2>3, RefusalsAreFinal DEF TpmNotReady, TransientWarnings, SUCCESS
    <2>4. ASSUME NEW rc \in RefusalCodes \cup {AUTH_FAIL}, TpmRefuses(rc)
          PROVE  AuthInv'
      BY <2>2, <2>4, RefusalsAreFinal DEF TpmRefuses, AUTH_FAIL, SUCCESS
    <2> QED BY <1>4, <2>1, <2>3, <2>4 DEF Tpm
  <1>5. CASE Environment
    <2>1. ASSUME NEW c \in sent, NEW h \in Handles, LateCommand(c, h)
          PROVE  AuthInv'
      <3> DEFINE x == ReplyTo(c, h)
      <3>1. c \in CallIds /\ Executes(c, h) /\ pc # "replied" /\ Remember(x) /\ UNCHANGED << client, resp >>
        BY <2>1 DEF LateCommand, TypeInv, TypeOK
      <3>2. /\ execs \subseteq execs' /\ \A r : r = x => Vouched(r)'
        BY <3>1, ReplyToIsVouched
      <3> HIDE DEF x
      <3>3. \A r \in seen' : r \in seen \/ (Vouched(r)' /\ (r.rc = SUCCESS => r.tag = "SESSIONS"))
        BY <1>f, <3>1, <3>2 DEF Remember
      <3>4. UNCHANGED << sess, calls, frames, results, ctx, pc, resp >>
        BY <3>1 DEF client
      <3>5. Vouched(resp) => Vouched(resp)'
        BY <1>m, <3>2, <3>4
      <3> QED BY <3>1, <3>2, <3>3, <3>4, <3>5, StepAuthInv
    <2>2. ASSUME NEW r \in seen, StaleReply(r)
          PROVE  AuthInv'
      <3>1. /\ pc # "idle" /\ resp' = r /\ execs' = execs
            /\ UNCHANGED << sess, calls, frames, results, ctx, seen >>
        BY <2>2 DEF StaleReply, device
      <3>2. Vouched(r) /\ (r.rc = SUCCESS => r.tag = "SESSIONS")
        BY DEF AuthInv
      <3>3. Vouched(resp)'
        BY <3>1, <3>2 DEF Vouched
      <3> QED BY <3>1, <3>2, <3>3, StepAuthInv
    <2>3. ASSUME NEW r, (r \in Damaged(resp) /\ Garble(r)) \/ (r = Retagged(resp) /\ Retag)
          PROVE  AuthInv'
      <3>0. Damages(r) /\ r \in Damaged(resp)
        BY <2>3, DamagedReply DEF NoStrayPlainReply
      <3>1. /\ pc = "replied" /\ pc' = pc /\ resp' = r /\ resp.shape = "whole" /\ execs' = execs
            /\ UNCHANGED << sess, calls, frames, results, ctx, seen >>
        BY <3>0 DEF Damages, client, device
      <3>2. resp \in Reply
        BY DEF TypeInv, TypeOK
      <3>4. r.hmac = resp.hmac /\ r.by = resp.by /\ r.rc = resp.rc /\ r.tag = resp.tag
        BY <3>0, <3>2, DamagedType
      <3>5. Vouched(resp)'
        BY <3>1, <3>4 DEF AuthInv, Vouched
      <3>6. frame.mode = "session" => r.shape = "short" \/ r.rc # SUCCESS \/ r.tag = "SESSIONS"
        BY <3>1, <3>4 DEF AuthInv
      <3> QED BY <3>1, <3>5, <3>6, StepAuthInv
    <2>4. ASSUME NEW h \in Handles, OtherStarts(h) \/ OtherFlushes(h)
          PROVE  AuthInv'
      <3>1. UNCHANGED << sess, calls, frames, results, ctx, pc, resp, seen, execs >>
        BY <2>4 DEF OtherStarts, OtherFlushes, client
      <3> QED BY <1>m, <3>1, StepAuthInv DEF AuthInv
    <2> QED BY <1>5, <2>1, <2>2, <2>3, <2>4 DEF Environment
  <1> QED BY <1>1, <1>2, <1>3, <1>4, <1>5 DEF Next

\* A session call returns Ok only for a reply to its own, single, execution:
\* parse_response and verify_response let no other reply pass, unless replies
\* without a session area stray (OkIsAuthentic).
THEOREM OkRepliesAreAuthentic ==
  ASSUME NoStrayPlainReply
  PROVE  Spec => []OkIsAuthentic
  <1>1. NonceInv /\ AuthInv => OkIsAuthentic
    <2> SUFFICES ASSUME NonceInv, AuthInv, NEW c \in ByKind("Ok") \cap BySession
                 PROVE  /\ results[c].params = "intact"
                        /\ \E e \in execs : ExecutionsOf(c) = {e} /\ e.n = results[c].by
      BY DEF OkIsAuthentic
    <2>1. PICK e \in execs : e.call = c /\ e.n = results[c].by
      BY DEF AuthInv, ByKind
    <2>2. \A e2 \in ExecutionsOf(c) : e2 = e
      BY <2>1 DEF ExecutionsOf, NonceInv, NonceSpentOnce
    <2>3. ExecutionsOf(c) = {e}
      BY <2>1, <2>2 DEF ExecutionsOf
    <2> QED BY <2>1, <2>3 DEF AuthInv, ByKind
  <1>2. TypeInv /\ NonceInv /\ AuthInv /\ [Next]_vars => AuthInv'
    BY NextAuthInv
  <1> QED BY InitNonceInv, InitAuthInv, NextNonceInv, TypeInvariant, <1>1, <1>2, PTL DEF Spec

-----------------------------------------------------------------------------
(* Results.  Dispatch implements Execution, and a transient warning is     *)
(* returned only when the resubmissions are used up.  The proofs look at a *)
(* step of Dispatch only through what it does to the call in progress, its *)
(* result and the executions; StepOfRun says what that is.                 *)

-----------------------------------------------------------------------------
(* What a step does to a call.                                             *)

\* The client begins a call: Tpm::run has built the frame.
CallBegins ==
  /\ pc = "idle" /\ pc' = "send" /\ calls' = calls + 1 /\ calls' \in CallIds
  /\ UNCHANGED << attempt, results, resp, seen, execs >>

\* start_hmac_session returns before anything is sent.
CallRejected ==
  /\ pc = "idle" /\ pc' = "idle" /\ calls' = calls + 1 /\ calls' \in CallIds
  /\ results' = [results EXCEPT ![calls + 1] = [NoResult EXCEPT !.kind = "Usage"]]
  /\ UNCHANGED << attempt, resp, seen, execs >>

\* run returns: the transport failed, or a reply was received and, unless the
\* result is Ok, Usage or Malformed, it is what parse_response made of it.
CallReturns(kind, rc, params, by) ==
  /\ pc # "idle" /\ Return(kind, rc, params, by)
  /\ kind \in {"Ok"} \cup Errors
  /\ kind \in {"Ok", "Tpm"} =>
       pc = "replied" /\ parse_response(resp) = kind /\ rc = resp.rc /\ ~ShouldRetry(resp)
  /\ UNCHANGED << calls, execs >>

\* The frame goes out, again after a transient warning.
FrameGoesOut ==
  /\ \/ pc = "send" /\ pc' = "sent" /\ UNCHANGED << attempt, resp >>
     \/ pc = "replied" /\ ShouldRetry(resp) /\ pc' = "send" /\ attempt' = attempt + 1 /\ resp' = NoReply
  /\ UNCHANGED << calls, results, execs >>

\* The TPM executes the call in progress and its reply is a success, or it
\* answers with an error and executes nothing.
TpmAnswers ==
  /\ pc = "sent" /\ pc' = "replied" /\ UNCHANGED << calls, attempt, results >>
  /\ \/ resp'.rc = SUCCESS
        /\ \E n, id \in Nat : execs' = execs \cup {[call |-> calls, n |-> n, id |-> id]}
     \/ resp'.rc # SUCCESS /\ execs' = execs

\* The link damages a reply; its response code is not among what it damages.
ReplyDamaged ==
  /\ pc = "replied" /\ pc' = pc /\ resp'.rc = resp.rc
  /\ UNCHANGED << calls, attempt, results, execs >>

\* What only a link that repeats messages does.
Repeated ==
  /\ \/ "late" \in Faults
     \/ "stale" \in Faults
  /\ (pc = "idle") = (pc' = "idle")
  /\ UNCHANGED << calls, attempt, results >>

NothingHappens == UNCHANGED << pc, calls, attempt, results, resp, execs >>

StepOfRun ==
  \/ CallBegins \/ CallRejected \/ FrameGoesOut \/ TpmAnswers \/ ReplyDamaged \/ Repeated
  \/ NothingHappens
  \/ \E kind, rc, params, by : CallReturns(kind, rc, params, by)

\* Every step of Dispatch is one of these.
LEMMA StepsOfRun ==
  ASSUME TypeInv, [Next]_vars
  PROVE  StepOfRun
  <1>0. calls \in Nat /\ tctr \in Nat /\ resp \in Reply
    BY DEF TypeInv, TypeOK
  <1>b. ASSUME NEW f, NEW context, Begin(f, context)
        PROVE  CallBegins
    BY <1>b, OldFramesStay DEF Begin, CallBegins, device
  <1>1. CASE UNCHANGED vars
    BY <1>1 DEF vars, StepOfRun, NothingHappens
  <1>2. CASE Client
    <2>1. ASSUME NEW s \in Slots, NEW alg \in Algs, start_hmac_session(s, alg)
          PROVE  CallBegins \/ CallRejected
      <3>1. CASE StartCall(s, alg)
        BY <1>b, <3>1 DEF StartCall
      <3>2. CASE ~StartCall(s, alg)
        <4>1. calls + 1 \in CallIds
          BY <1>0, <2>1, <3>2, BoundsAreNumbers DEF start_hmac_session, CallIds
        <4> QED BY <2>1, <3>2, <4>1 DEF start_hmac_session, CallRejected, device
      <3> QED BY <3>1, <3>2
    <2>2. ASSUME NEW s \in Slots, NEW alg \in Algs, start_auth_session(s, alg)
          PROVE  CallBegins
      BY <2>2, <1>b DEF start_auth_session, StartCall
    <2>3. ASSUME NEW s \in Slots, flush_context(s)
          PROVE  CallBegins
      BY <2>3, <1>b DEF flush_context
    <2>4. ASSUME NEW code \in Codes, run_none(code)
          PROVE  CallBegins
      BY <2>4, <1>b DEF run_none
    <2>5. ASSUME NEW code \in Codes, NEW o \in Objects, NEW a \in AuthValues, run_password(code, o, a)
          PROVE  CallBegins
      BY <2>5, <1>b DEF run_password
    <2>6. ASSUME NEW s \in Slots, NEW code \in Codes, NEW o \in Objects, NEW a \in AuthValues,
                 run_session(s, code, o, a)
          PROVE  CallBegins
      BY <2>6, <1>b DEF run_session
    <2>7. ASSUME NEW s \in Slots, NEW attributes \in SUBSET Attributes, set_attributes(s, attributes)
          PROVE  NothingHappens
      BY <2>7 DEF set_attributes, device, NothingHappens
    <2>8. ASSUME NEW s \in Slots, NEW h \in Handles, NEW b, NEW salt, adopt_session(s, h, b, salt)
          PROVE  NothingHappens
      BY <2>8 DEF adopt_session, NothingHappens
    <2> QED BY <1>2, <2>1, <2>2, <2>3, <2>4, <2>5, <2>6, <2>7, <2>8 DEF Client, StepOfRun
  <1>3. CASE Loop
    <2>1. CASE Transmit
      BY <2>1 DEF Transmit, device, FrameGoesOut, StepOfRun
    <2>2. CASE TransmitFails
      <3>1. CallReturns("Transport", 0, "intact", 0)
        BY <2>2 DEF TransmitFails, CallReturns, device, Errors
      <3> QED BY <3>1 DEF StepOfRun
    <2>3. CASE Resubmit
      BY <2>3 DEF Resubmit, device, FrameGoesOut, StepOfRun
    <2>4. CASE ReceiveError
      <3>1. parse_response(resp) \in {"Ok"} \cup Errors
        BY <1>0, ParseType DEF Errors
      <3>2. CallReturns(parse_response(resp), resp.rc, resp.params, resp.by)
        BY <2>4, <3>1 DEF ReceiveError, CallReturns, device
      <3> QED BY <3>2 DEF StepOfRun
    <2>5. ASSUME pc = "replied", parse_response(resp) = "Ok",
                 NEW kind \in {"Ok", "Usage", "Malformed"}, NEW params, Return(kind, SUCCESS, params, resp.by),
                 UNCHANGED << calls, frames, sent, seen, device >>
          PROVE  StepOfRun
      <3>1. resp.rc = SUCCESS
        BY <1>0, <2>5 DEF parse_response, Reply
      <3>2. ~ShouldRetry(resp)
        BY <2>5 DEF ShouldRetry
      <3>3. CallReturns(kind, SUCCESS, params, resp.by)
        BY <2>5, <3>1, <3>2 DEF CallReturns, device, Errors
      <3> QED BY <3>3 DEF StepOfRun
    <2>6. CASE ReceiveOk
      BY <2>5, <2>6 DEF ReceiveOk
    <2>7. ASSUME NEW h \in Handles, ReceiveStarted(h)
          PROVE  StepOfRun
      BY <2>5, <2>7 DEF ReceiveStarted
    <2>8. CASE ReceiveStartCut
      BY <2>5, <2>8 DEF ReceiveStartCut
    <2> QED BY <1>3, <2>1, <2>2, <2>3, <2>4, <2>6, <2>7, <2>8 DEF Loop, Proceed
  <1>4. CASE Tpm
    <2>1. ASSUME NEW h \in Handles, TpmExecutes(h)
          PROVE  TpmAnswers
      <3>1. pc = "sent" /\ Executes(calls, h) /\ Answer(ReplyTo(calls, h)) /\ calls \in CallIds
        BY <2>1 DEF TpmExecutes, TypeInv
      <3>2. PICK i : Executed(calls, i)
        BY <3>1 DEF Executes, StartsSession, FlushesContext, RunsPlainCommand, RunsSessionCommand
      <3>3. execs' \subseteq [call : CallIds, n : Nat, id : Nat]
        BY <3>1, ExecutesType
      <3>4. execs' = execs \cup {[call |-> calls, n |-> tctr + 1, id |-> i]}
        BY <3>2 DEF Executed
      <3>5. i \in Nat /\ tctr + 1 \in Nat
        <4>1. [call |-> calls, n |-> tctr + 1, id |-> i] \in [call : CallIds, n : Nat, id : Nat]
          BY <3>3, <3>4
        <4> QED BY <1>0, <4>1
      <3>6. resp'.rc = SUCCESS
        BY <3>1 DEF Answer, ReplyTo
      <3> QED BY <3>1, <3>4, <3>5, <3>6 DEF Answer, TpmAnswers
    <2>2. ASSUME NEW rc, rc # SUCCESS, pc = "sent", Answer(ErrorReply(rc)), UNCHANGED device
          PROVE  TpmAnswers
      BY <2>2 DEF Answer, ErrorReply, device, TpmAnswers
    <2>3. ASSUME NEW rc \in NotReadyCodes, TpmNotReady(rc)
          PROVE  TpmAnswers
      BY <2>2, <2>3, RefusalsAreFinal DEF TpmNotReady, TransientWarnings, SUCCESS
    <2>4. ASSUME NEW rc \in RefusalCodes \cup {AUTH_FAIL}, TpmRefuses(rc)
          PROVE  TpmAnswers
      BY <2>2, <2>4, RefusalsAreFinal DEF TpmRefuses, AUTH_FAIL, SUCCESS
    <2> QED BY <1>4, <2>1, <2>3, <2>4 DEF Tpm, StepOfRun
  <1>5. CASE Environment
    <2>1. ASSUME NEW c \in sent, NEW h \in Handles, LateCommand(c, h)
          PROVE  Repeated
      BY <2>1 DEF LateCommand, client, Repeated
    <2>2. ASSUME NEW r \in seen, StaleReply(r)
          PROVE  Repeated
      BY <2>2 DEF StaleReply, Repeated
    <2>3. ASSUME NEW r, (r \in Damaged(resp) /\ Garble(r)) \/ (r = Retagged(resp) /\ Retag)
          PROVE  ReplyDamaged
      <3>1. r.rc = resp.rc /\ Damages(r)
        BY <1>0, <2>3, DamagedReply, DamagedType
      <3> QED BY <3>1 DEF Damages, client, device, ReplyDamaged
    <2>4. ASSUME NEW h \in Handles, OtherStarts(h) \/ OtherFlushes(h)
          PROVE  NothingHappens
      BY <2>4 DEF OtherStarts, OtherFlushes, client, NothingHappens
    <2> QED BY <1>5, <2>1, <2>2, <2>3, <2>4 DEF Environment, StepOfRun
  <1> QED BY <1>1, <1>2, <1>3, <1>4, <1>5 DEF Next

-----------------------------------------------------------------------------
(* The retries.                                                            *)

PatienceInv == attempt <= MAX_TRANSIENT_RETRIES /\ PatienceExhausted

\* The loop counts its resubmissions and stops at the limit.
LEMMA NextPatienceInv ==
  ASSUME TypeInv, PatienceInv, [Next]_vars
  PROVE  PatienceInv'
  <1>0. /\ attempt \in Nat /\ MAX_TRANSIENT_RETRIES \in Nat
        /\ results \in [CallIds -> Result]
        /\ pc # "idle" => calls \in CallIds
    BY BoundsAreNumbers DEF TypeInv, TypeOK
  <1>1. StepOfRun
    BY StepsOfRun
  <1>2. CASE attempt' = attempt /\ results' = results
    BY <1>2 DEF PatienceInv, PatienceExhausted
  <1>3. CASE FrameGoesOut
    BY <1>0, <1>2, <1>3 DEF FrameGoesOut, ShouldRetry, PatienceInv, PatienceExhausted
  <1>4. CASE CallRejected
    <2> DEFINE x == [NoResult EXCEPT !.kind = "Usage"]
    <2>1. x.kind = "Usage" /\ x.tries = 0
      BY DEF NoResult
    <2>2. attempt' = attempt /\ results' = [results EXCEPT ![calls + 1] = x]
      BY <1>4 DEF CallRejected
    <2> HIDE DEF x
    <2>3. \A c \in CallIds : results'[c] = results[c] \/ results'[c] = x
      BY <1>0, <2>2
    <2> QED BY <1>0, <2>1, <2>2, <2>3 DEF PatienceInv, PatienceExhausted
  <1>5. ASSUME NEW kind, NEW rc, NEW params, NEW by, CallReturns(kind, rc, params, by)
        PROVE  PatienceInv'
    <2> DEFINE x == [kind |-> kind, rc |-> rc, tries |-> attempt + 1, params |-> params, by |-> by]
    <2>1. attempt' = 0 /\ results' = [results EXCEPT ![calls] = x] /\ calls \in CallIds
      BY <1>0, <1>5 DEF CallReturns, Return
    <2>2. x.tries <= MAX_TRANSIENT_RETRIES + 1
      BY <1>0 DEF PatienceInv
    <2>3. x.kind = "Tpm" /\ is_transient(x.rc) => x.tries = MAX_TRANSIENT_RETRIES + 1
      BY <1>0, <1>5 DEF CallReturns, ShouldRetry, PatienceInv
    <2> HIDE DEF x
    <2>4. \A c \in CallIds : results'[c] = results[c] \/ results'[c] = x
      BY <1>0, <2>1
    <2> QED BY <1>0, <2>1, <2>2, <2>3, <2>4 DEF PatienceInv, PatienceExhausted
  <1> QED
    BY <1>1, <1>2, <1>3, <1>4, <1>5
    DEF StepOfRun, CallBegins, TpmAnswers, ReplyDamaged, Repeated, NothingHappens

\* Whatever the link and the TPM do, no call is submitted more than
\* MAX_TRANSIENT_RETRIES + 1 times, and Tpm::run gives a transient warning to
\* its caller only after that many (PatienceExhausted).
THEOREM WarningsAreRetried == Spec => []PatienceExhausted
  <1>1. Init => PatienceInv
    BY BoundsAreNumbers DEF Init, PatienceInv, PatienceExhausted, NoResult
  <1>2. TypeInv /\ PatienceInv /\ [Next]_vars => PatienceInv'
    BY NextPatienceInv
  <1>3. PatienceInv => PatienceExhausted
    BY DEF PatienceInv
  <1> QED BY TypeInvariant, <1>1, <1>2, <1>3, PTL DEF Spec

-----------------------------------------------------------------------------
(* Results and executions, on a link that repeats nothing.                 *)

\* A reply that is a success is all that tells the client of an execution: the
\* call in progress is executed once that reply is there, and not before.
PromiseInv ==
  /\ pc # "idle" => results[calls] = NoResult
  /\ pc \in {"send", "sent"} => ExecutionsOf(calls) = {}
  /\ pc = "replied" => (resp.rc = SUCCESS <=> ExecutionsOf(calls) # {})
  /\ \A c \in CallIds : /\ results[c].kind = "Ok" => ExecutionsOf(c) # {}
                        /\ results[c].kind = "Tpm" => ExecutionsOf(c) = {}
  /\ \A e1, e2 \in execs : e1.call = e2.call => e1 = e2

\* A call that has not begun has no result and was not executed.
LEMMA NothingAhead ==
  ASSUME TypeInv, NonceInv
  PROVE  \A c \in CallIds : c > calls => results[c] = NoResult /\ ExecutionsOf(c) = {}
  <1>1. calls \in Nat /\ execs \subseteq [call : CallIds, n : Nat, id : Nat]
    BY DEF TypeInv, TypeOK
  <1> QED BY <1>1 DEF NonceInv, ExecutionsOf, CallIds

\* parse_response reports a TPM error for a reply that is not a success, and Ok
\* for one that is.
LEMMA ParseTellsSuccess ==
  ASSUME NEW r \in Reply
  PROVE  /\ parse_response(r) = "Ok" => r.rc = SUCCESS
         /\ parse_response(r) = "Tpm" => r.rc # SUCCESS
  BY DEF parse_response, Reply

\* Each step keeps results and executions in agreement.
LEMMA NextPromiseInv ==
  ASSUME Faults \cap {"late", "stale"} = {}, TypeInv, NonceInv, PromiseInv, [Next]_vars
  PROVE  PromiseInv'
  <1>a. results \in [CallIds -> Result]
    BY DEF TypeInv, TypeOK
  <1>b. execs \subseteq [call : CallIds, n : Nat, id : Nat]
    BY DEF TypeInv, TypeOK
  <1>0. /\ calls \in Nat /\ resp \in Reply
        /\ results \in [CallIds -> Result]
        /\ execs \subseteq [call : CallIds, n : Nat, id : Nat]
        /\ pc # "idle" => calls \in CallIds
    BY <1>a, <1>b DEF TypeInv, TypeOK
  <1>1. StepOfRun
    BY StepsOfRun
  <1>2. ASSUME execs' = execs
        PROVE  \A c : ExecutionsOf(c)' = ExecutionsOf(c)
    BY <1>2 DEF ExecutionsOf
  <1>3. CASE NothingHappens
    BY <1>2, <1>3 DEF NothingHappens, PromiseInv
  <1>4. CASE CallBegins
    <2>1. results[calls + 1] = NoResult /\ ExecutionsOf(calls + 1) = {}
      BY <1>0, <1>4, NothingAhead DEF CallBegins
    <2> QED BY <1>2, <1>4, <2>1 DEF CallBegins, PromiseInv
  <1>5. CASE CallRejected
    <2>1. [NoResult EXCEPT !.kind = "Usage"].kind = "Usage"
      BY DEF NoResult
    <2>2. \A c \in CallIds : results'[c] = results[c] \/ results'[c].kind = "Usage"
      BY <1>0, <1>5, <2>1 DEF CallRejected
    <2> QED BY <1>2, <1>5, <2>2 DEF CallRejected, PromiseInv
  <1>6. CASE FrameGoesOut
    <2>1. pc = "replied" => resp.rc # SUCCESS
      BY <1>0, <1>6, ParseTellsSuccess DEF FrameGoesOut, ShouldRetry
    <2>2. ExecutionsOf(calls) = {} /\ pc' \in {"send", "sent"} /\ results[calls] = NoResult
      BY <1>6, <2>1 DEF FrameGoesOut, PromiseInv
    <2>3. pc' # "replied"
      BY <2>2
    <2> QED BY <1>2, <1>6, <2>2, <2>3 DEF FrameGoesOut, PromiseInv
  <1>7. CASE TpmAnswers
    <2>0. /\ pc = "sent" /\ pc' = "replied" /\ UNCHANGED << calls, results >>
          /\ results[calls] = NoResult /\ ExecutionsOf(calls) = {} /\ calls \in CallIds
      BY <1>0, <1>7 DEF TpmAnswers, PromiseInv
    <2>1. CASE resp'.rc # SUCCESS /\ execs' = execs
      BY <1>2, <2>0, <2>1 DEF PromiseInv
    <2>2. ASSUME resp'.rc = SUCCESS, NEW n \in Nat, NEW id \in Nat,
                 execs' = execs \cup {[call |-> calls, n |-> n, id |-> id]}
          PROVE  PromiseInv'
      <3> DEFINE e0 == [call |-> calls, n |-> n, id |-> id]
      <3>1. e0.call = calls /\ execs' = execs \cup {e0}
        BY <2>2
      <3> HIDE DEF e0
      <3>2. \A e \in execs : e.call # calls
        BY <2>0 DEF ExecutionsOf
      <3>3. ExecutionsOf(calls)' # {}
        BY <2>0, <3>1 DEF ExecutionsOf
      <3>4. \A c : c # calls => ExecutionsOf(c)' = ExecutionsOf(c)
        BY <3>1 DEF ExecutionsOf
      <3>5. \A e1, e2 \in execs' : e1.call = e2.call => e1 = e2
        BY <3>1, <3>2 DEF PromiseInv
      <3>6. results[calls].kind = "none"
        BY <2>0 DEF NoResult
      <3> QED BY <2>0, <2>2, <3>3, <3>4, <3>5, <3>6 DEF PromiseInv
    <2> QED BY <1>7, <2>1, <2>2 DEF TpmAnswers
  <1>8. CASE ReplyDamaged
    BY <1>2, <1>8 DEF ReplyDamaged, PromiseInv
  <1>9. ASSUME NEW kind, NEW rc, NEW params, NEW by, CallReturns(kind, rc, params, by)
        PROVE  PromiseInv'
    <2> DEFINE x == [kind |-> kind, rc |-> rc, tries |-> attempt + 1, params |-> params, by |-> by]
    <2>1. /\ pc' = "idle" /\ results' = [results EXCEPT ![calls] = x] /\ calls \in CallIds
          /\ calls' = calls /\ execs' = execs
      BY <1>0, <1>9 DEF CallReturns, Return
    <2>2. /\ x.kind = "Ok" => ExecutionsOf(calls) # {}
          /\ x.kind = "Tpm" => ExecutionsOf(calls) = {}
      BY <1>0, <1>9, ParseTellsSuccess DEF CallReturns, PromiseInv
    <2> HIDE DEF x
    <2>3. \A c \in CallIds : results'[c] = IF c = calls THEN x ELSE results[c]
      BY <1>0, <2>1
    <2> QED BY <1>2, <2>1, <2>2, <2>3 DEF PromiseInv
  <1> QED BY <1>1, <1>3, <1>4, <1>5, <1>6, <1>7, <1>8, <1>9 DEF StepOfRun, Repeated

\* The three invariants together.
LEMMA PromiseInvariant ==
  ASSUME Faults \cap {"late", "stale"} = {}
  PROVE  Spec => [](TypeInv /\ NonceInv /\ PromiseInv)
  <1>1. Init => PromiseInv
    BY DEF Init, PromiseInv, NoResult
  <1>2. TypeInv /\ NonceInv /\ PromiseInv /\ [Next]_vars => PromiseInv'
    BY NextPromiseInv
  <1> QED BY TypeInvariant, InitNonceInv, NextNonceInv, <1>1, <1>2, PTL DEF Spec

\* A call is executed once or never.
LEMMA CountOfExecutions ==
  ASSUME PromiseInv, NEW c
  PROVE  Cardinality(ExecutionsOf(c)) = IF ExecutionsOf(c) = {} THEN 0 ELSE 1
  <1>1. CASE ExecutionsOf(c) = {}
    BY <1>1, FS_EmptySet
  <1>2. CASE ExecutionsOf(c) # {}
    <2>1. PICK e : e \in ExecutionsOf(c)
      BY <1>2
    <2>2. ExecutionsOf(c) = {e}
      BY <2>1 DEF ExecutionsOf, PromiseInv
    <2> QED BY <1>2, <2>2, FS_Singleton
  <1> QED BY <1>1, <1>2

\* Ok means the call was executed exactly once, a TPM error that it was not,
\* and no call is executed twice, whatever the link loses or damages
\* (ResultTellsExecution): run resubmits only what the TPM did not execute.
THEOREM ResultsTellExecutions ==
  ASSUME Faults \cap {"late", "stale"} = {}
  PROVE  Spec => []ResultTellsExecution
  <1>1. PromiseInv => ResultTellsExecution
    <2> SUFFICES ASSUME PromiseInv, NEW c \in CallIds
                 PROVE  /\ results[c].kind = "Ok" => Cardinality(ExecutionsOf(c)) = 1
                        /\ results[c].kind = "Tpm" => ExecutionsOf(c) = {}
                        /\ Cardinality(ExecutionsOf(c)) <= 1
      BY DEF ResultTellsExecution
    <2>1. Cardinality(ExecutionsOf(c)) = IF ExecutionsOf(c) = {} THEN 0 ELSE 1
      BY CountOfExecutions
    <2> QED BY <2>1 DEF PromiseInv
  <1> QED BY PromiseInvariant, <1>1, PTL

-----------------------------------------------------------------------------
(* The refinement.                                                         *)

\* What Execution sees of the executions and of the results.
Count == [c \in CallIds |-> Cardinality(ExecutionsOf(c))]
Told == [c \in CallIds |-> OutcomeOf(results[c])]

\* Nothing has been told of a call that has no result, and what is told of one
\* that returned is one of the outcomes of a call that was sent.
LEMMA OutcomeTypes ==
  /\ OutcomeOf(NoResult) = "none"
  /\ OutcomeOf([NoResult EXCEPT !.kind = "Usage"]) = "Rejected"
  /\ \A x \in Result : x.kind # "none" /\ x.tries > 0 =>
       /\ OutcomeOf(x) \in {"Ok", "Tpm", "Error"}
       /\ OutcomeOf(x) = "Ok" => x.kind = "Ok"
       /\ OutcomeOf(x) = "Tpm" => x.kind = "Tpm"
  BY DEF OutcomeOf, NoResult, Result, Errors

\* Each step is a step of Execution or changes nothing it sees.
LEMMA NextRefines ==
  ASSUME Faults \cap {"late", "stale"} = {},
         TypeInv, NonceInv, PromiseInv, TypeInv', PromiseInv', [Next]_vars
  PROVE  [Promise!Next]_(Promise!vars)
  <1> DEFINE running == pc # "idle"
  <1>0. /\ calls \in Nat /\ MaxCalls \in Nat /\ CallIds = 1 .. MaxCalls
        /\ results \in [CallIds -> Result]
        /\ pc # "idle" => calls \in CallIds
        /\ attempt \in Nat
    <2>1. results \in [CallIds -> Result]
      BY DEF TypeInv, TypeOK
    <2> QED BY <2>1, BoundsAreNumbers DEF TypeInv, TypeOK, CallIds
  <1>1. StepOfRun
    BY StepsOfRun
  <1>2. ASSUME execs' = execs
        PROVE  Count' = Count
    BY <1>2 DEF Count, ExecutionsOf
  <1>3. ASSUME results' = results
        PROVE  Told' = Told
    BY <1>3 DEF Told
  <1>4. ASSUME UNCHANGED << calls, results, execs >>, (pc # "idle") = (pc' # "idle")
        PROVE  UNCHANGED Promise!vars
    BY <1>2, <1>3, <1>4, Zenon DEF Promise!vars, Count, Told
  <1>5. CASE NothingHappens \/ FrameGoesOut \/ ReplyDamaged
    <2>1. UNCHANGED << calls, results, execs >> /\ (pc # "idle") = (pc' # "idle")
      BY <1>5 DEF NothingHappens, FrameGoesOut, ReplyDamaged
    <2> QED BY <1>4, <2>1
  <1>6. CASE CallBegins
    <2>1. Promise!Call
      <3>1. calls < MaxCalls /\ calls' = calls + 1 /\ ~running /\ running' = TRUE
        BY <1>0, <1>6 DEF CallBegins
      <3>2. Count' = Count /\ Told' = Told
        BY <1>2, <1>3, <1>6 DEF CallBegins
      <3> QED BY <3>1, <3>2, Zenon DEF Promise!Call, Count, Told
    <2> QED BY <2>1 DEF Promise!Next
  <1>7. CASE CallRejected
    <2> DEFINE x == [NoResult EXCEPT !.kind = "Usage"]
    <2>1. calls < MaxCalls /\ calls' = calls + 1 /\ ~running /\ running' = running
      BY <1>0, <1>7 DEF CallRejected
    <2>2. OutcomeOf(x) = "Rejected"
      BY OutcomeTypes
    <2>3. results' = [results EXCEPT ![calls + 1] = x] /\ calls + 1 \in CallIds
      BY <1>7 DEF CallRejected
    <2> HIDE DEF x
    <2>4. Told' = [Told EXCEPT ![calls + 1] = "Rejected"]
      BY <1>0, <2>2, <2>3 DEF Told
    <2>5. Count' = Count
      BY <1>2, <1>7 DEF CallRejected
    <2>6. Promise!Reject
      BY <2>1, <2>4, <2>5, Zenon DEF Promise!Reject, Count, Told
    <2> QED BY <2>6 DEF Promise!Next
  <1>8. CASE TpmAnswers
    <2>0. /\ pc = "sent" /\ UNCHANGED << calls, results >> /\ calls \in CallIds
          /\ (pc # "idle") = (pc' # "idle")
          /\ results[calls] = NoResult /\ ExecutionsOf(calls) = {}
      BY <1>0, <1>8 DEF TpmAnswers, PromiseInv
    <2>1. CASE execs' = execs
      BY <1>4, <2>0, <2>1
    <2>2. ASSUME NEW n \in Nat, NEW id \in Nat,
                 execs' = execs \cup {[call |-> calls, n |-> n, id |-> id]}
          PROVE  Promise!Execute(calls)
      <3> DEFINE e0 == [call |-> calls, n |-> n, id |-> id]
      <3>1. e0.call = calls /\ execs' = execs \cup {e0}
        BY <2>2
      <3> HIDE DEF e0
      <3>2. Count = [c \in CallIds |-> Cardinality({e \in execs : e.call = c})]
        BY DEF Count, ExecutionsOf
      <3>3. Count' = [c \in CallIds |-> Cardinality({e \in execs' : e.call = c})]
        BY DEF Count, ExecutionsOf
      <3>4. Count[calls] = 0
        BY <2>0, CountOfExecutions DEF Count
      <3>5. Count'[calls] = 1
        <4>1. {e \in execs' : e.call = calls} = {e0}
          BY <2>0, <3>1 DEF ExecutionsOf
        <4> QED BY <2>0, <3>3, <4>1, FS_Singleton
      <3>6. Count' = [Count EXCEPT ![calls] = @ + 1]
        <4>1. \A c \in CallIds : c # calls => Count'[c] = Count[c]
          <5>1. \A c \in CallIds : c # calls => {e \in execs' : e.call = c} = {e \in execs : e.call = c}
            BY <3>1
          <5> QED BY <3>2, <3>3, <5>1
        <4>2. DOMAIN Count = CallIds /\ DOMAIN Count' = CallIds
          BY DEF Count
        <4>3. \A c \in CallIds : Count'[c] = [Count EXCEPT ![calls] = @ + 1][c]
          BY <2>0, <3>4, <3>5, <4>1, <4>2
        <4> DEFINE f == [Count EXCEPT ![calls] = @ + 1]
        <4>4. Count' = [c \in CallIds |-> Count'[c]] /\ f = [c \in CallIds |-> f[c]]
          BY <3>2, <3>3, <4>2
        <4> QED BY <4>3, <4>4
      <3>7. Told[calls] = "none" /\ Told' = Told
        BY <1>3, <2>0, OutcomeTypes DEF Told
      <3> QED BY <2>0, <3>4, <3>6, <3>7, Zenon DEF Promise!Execute, Promise!CallIds, CallIds, Count, Told
    <2>3. calls \in Promise!CallIds
      BY <2>0 DEF Promise!CallIds, CallIds
    <2> QED BY <1>8, <2>1, <2>2, <2>3 DEF TpmAnswers, Promise!Next
  <1>9. ASSUME NEW kind, NEW rc, NEW params, NEW by, CallReturns(kind, rc, params, by)
        PROVE  Promise!Next
    <2> DEFINE x == [kind |-> kind, rc |-> rc, tries |-> attempt + 1, params |-> params, by |-> by]
    <2>1. /\ pc # "idle" /\ pc' = "idle" /\ results' = [results EXCEPT ![calls] = x]
          /\ calls \in CallIds /\ calls' = calls /\ execs' = execs
      BY <1>0, <1>9 DEF CallReturns, Return
    <2>2. x.kind # "none" /\ x.tries > 0
      BY <1>0, <1>9 DEF CallReturns, Errors
    <2> HIDE DEF x
    <2>3. results' \in [CallIds -> Result] /\ results'[calls] = x
      BY <1>0, <2>1 DEF TypeInv, TypeOK
    <2>4. /\ OutcomeOf(x) \in {"Ok", "Tpm", "Error"}
          /\ OutcomeOf(x) = "Ok" => x.kind = "Ok"
          /\ OutcomeOf(x) = "Tpm" => x.kind = "Tpm"
      BY <2>1, <2>2, <2>3, OutcomeTypes
    <2>5. Count' = Count /\ ExecutionsOf(calls)' = ExecutionsOf(calls)
      BY <1>2, <2>1 DEF ExecutionsOf
    <2>6. /\ OutcomeOf(x) = "Ok" => Count[calls] = 1
          /\ OutcomeOf(x) = "Tpm" => Count[calls] = 0
      <3>1. /\ x.kind = "Ok" => ExecutionsOf(calls) # {}
            /\ x.kind = "Tpm" => ExecutionsOf(calls) = {}
        BY <2>1, <2>3, <2>5 DEF PromiseInv
      <3> QED BY <2>1, <2>4, <3>1, CountOfExecutions DEF Count
    <2>7. Told' = [Told EXCEPT ![calls] = OutcomeOf(x)]
      BY <1>0, <2>1 DEF Told
    <2>8. Promise!Return(OutcomeOf(x))
      BY <2>1, <2>5, <2>6, <2>7, Zenon DEF Promise!Return, Count, Told
    <2> QED BY <2>4, <2>8 DEF Promise!Next
  <1> QED
    BY <1>1, <1>5, <1>6, <1>7, <1>8, <1>9 DEF StepOfRun, Repeated

\* Tpm::run keeps what the command wrappers are promised, on any link that does
\* not repeat messages: its steps, the link's and the TPM's are those of
\* Execution (RunKeepsItsPromise).
THEOREM RunImplementsExecution ==
  ASSUME Faults \cap {"late", "stale"} = {}
  PROVE  Spec => RunKeepsItsPromise
  <1>1. Init => Promise!Init
    <2> SUFFICES ASSUME Init
                 PROVE  Promise!Init
      OBVIOUS
    <2>1. \A c : ExecutionsOf(c) = {}
      BY DEF Init, ExecutionsOf
    <2>2. Count = [c \in CallIds |-> 0]
      BY <2>1, FS_EmptySet DEF Count
    <2>3. Told = [c \in CallIds |-> "none"]
      BY OutcomeTypes DEF Init, Told
    <2>4. calls = 0 /\ (pc # "idle") = FALSE
      BY DEF Init
    <2> QED BY <2>2, <2>3, <2>4, Zenon DEF Promise!Init, Promise!CallIds, CallIds, Count, Told
  <1>2. TypeInv /\ NonceInv /\ PromiseInv /\ TypeInv' /\ PromiseInv' /\ [Next]_vars
          => [Promise!Next]_(Promise!vars)
    BY NextRefines
  <1> QED BY PromiseInvariant, <1>1, <1>2, PTL DEF Spec, RunKeepsItsPromise, Promise!Spec
=============================================================================
