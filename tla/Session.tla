------------------------------ MODULE Session ------------------------------
(***************************************************************************)
(* struct Session of src/src/session.rs: the client's half of an HMAC      *)
(* session.  Every operation is an operator on a Session record.           *)
(*                                                                         *)
(* Cryptography is symbolic: a digest, a KDFa output or an HMAC is the     *)
(* record of what went into it, so two of them are equal exactly when all  *)
(* their inputs are.  A byte string whose only interesting features are    *)
(* its parts and whether it is empty (a key, an auth value, a Name, an     *)
(* HMAC) is a sequence of such atoms; concatenation is \o.  A nonce is a   *)
(* natural number, 0 when empty.                                           *)
(***************************************************************************)
EXTENDS Naturals, Sequences

CONSTANTS
  Objects,   \* entities a command can authorise
  Secrets,   \* what non-empty auth values and salts consist of
  Codes      \* command codes of the authorised commands

Attributes == {"CONTINUE_SESSION"}

-----------------------------------------------------------------------------
(* The terms. *)

\* An object's Name; permanent_name is the Name of a handle with no public area.
Name(o) == <<o>>

Digest == [what : {"cp", "rp"}, code : Codes, names : Seq(Objects), params : {"intact", "altered"}]

cp_hash(code, names) == [what |-> "cp", code |-> code, names |-> names, params |-> "intact"]

rp_hash(code, params) == [what |-> "rp", code |-> code, names |-> <<>>, params |-> params]

KdfaTerm == [key : Seq(Secrets), label : {"ATH"}, contextU : Nat, contextV : Nat]

kdfa(key, label, contextU, contextV) ==
  [key |-> key, label |-> label, contextU |-> contextU, contextV |-> contextV]

Key == Seq(Secrets \cup KdfaTerm)

HmacTerm == [key : Key, hash : Digest, newer : Nat, older : Nat, attributes : SUBSET Attributes]

\* HMAC(key, hash || nonceNewer || nonceOlder || attributes).
hmac_parts(key, hash, newer, older, attributes) ==
  [key |-> key, hash |-> hash, newer |-> newer, older |-> older, attributes |-> attributes]

-----------------------------------------------------------------------------
(* The record.  `id' is not in the code: it is the nonce the TPM opened    *)
(* the session with, and tells its sessions apart when a handle value is   *)
(* used again.                                                             *)

SessionOf(Handle) ==
  [handle : Handle, attributes : SUBSET Attributes, session_key : Key,
   nonce_tpm : Nat, nonce_caller : Nat, bound_name : Seq(Objects), id : Nat]

SessionKey(nonce_tpm, nonce_caller, bind_auth, salt) ==
  IF bind_auth = <<>> /\ salt = <<>>
    THEN <<>>
    ELSE << kdfa(bind_auth \o salt, "ATH", nonce_tpm, nonce_caller) >>

\* Session::new, for an algorithm whose digest_size is known.
new(handle, nonce_tpm, nonce_caller, attributes, bind_auth, bind_name, salt) ==
  [handle |-> handle, attributes |-> attributes,
   session_key |-> SessionKey(nonce_tpm, nonce_caller, bind_auth, salt),
   nonce_tpm |-> nonce_tpm, nonce_caller |-> nonce_caller,
   bound_name |-> bind_name, id |-> nonce_tpm]

\* Slip: the auth value of the bind entity is appended like any other.
hmac_key_IgnoresBind(session_key, bound_name, auth_value, object_name) ==
  session_key \o auth_value

\* The key of both HMACs; the TPM computes it from its own copy of the session.
hmac_key(session_key, bound_name, auth_value, object_name) ==
  LET bound == bound_name # <<>> /\ bound_name = object_name
  IN session_key \o (IF bound THEN <<>> ELSE auth_value)

-----------------------------------------------------------------------------
(* command_auth: the session remembers nonce_caller; the entry carries it. *)

command_auth(s, nonce_caller) == [s EXCEPT !.nonce_caller = nonce_caller]

CommandHmac(s, hash, auth_value, object_name) ==
  << hmac_parts(hmac_key(s.session_key, s.bound_name, auth_value, object_name),
                hash, s.nonce_caller, s.nonce_tpm, s.attributes) >>

(* verify_response: the test, and the nonce it absorbs once it succeeded.  *)
(* A password reply carries an empty HMAC, which fails the length test.    *)

\* Slip: the HMAC is taken over the reply's own account of the caller's nonce.
ResponseVerifies_AnyCaller(s, hash, auth_value, object_name, r) ==
  /\ r.hmac # <<>>
  /\ r.hmac = << hmac_parts(hmac_key(s.session_key, s.bound_name, auth_value, object_name),
                            hash, r.nonce_tpm, r.hmac[1].older, r.attributes) >>

ResponseVerifies(s, hash, auth_value, object_name, r) ==
  r.hmac = << hmac_parts(hmac_key(s.session_key, s.bound_name, auth_value, object_name),
                         hash, r.nonce_tpm, s.nonce_caller, r.attributes) >>

\* Slip: a verified reply leaves the old nonce in place.
absorb_Forgets(s, r) == s

absorb(s, r) == [s EXCEPT !.nonce_tpm = r.nonce_tpm]
=============================================================================
