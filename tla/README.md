# A TLA+ model of purecrypto-tpm

purecrypto-tpm is a TPM 2.0 command layer in Rust: it marshals a command, adds
an authorisation (a password or an HMAC session), sends it over a transport,
resubmits it when the TPM is busy, and parses and verifies the reply. This
directory models that path from the call to the wire and back, checks it with
TLC and proves its central properties with TLAPS.

Paths below are relative to the repository's root; `src/tpm.rs` is the file the
manifest `PROJECT.json` calls `src/src/tpm.rs`.

## 1. Inventory

| Component | State | Operations | Modelled in |
|---|---|---|---|
| Dispatcher, `src/tpm.rs` | the frame and `attempt` of the call in progress, on the stack of `run` | `run`, `parse_response`, `is_transient` | `Dispatch` |
| Session, `src/session.rs` | `handle`, `attributes`, `session_key`, `nonce_tpm`, `nonce_caller`, `bound_name` | `new`, `hmac_key`, `command_auth`, `verify_response` | `Session`, `Dispatch` |
| Session commands, `src/commands/session.rs` | none | `start_auth_session`, `start_hmac_session`, `flush_context` | `Dispatch`; of an object, `Commands` |
| Response codes, `src/error.rs` | none | `is_format_one`, `is_warning`, `base`, `arg_number`, `arg_kind` | `TpmRc` |
| Wire encoding, `src/marshal.rs` | `Reader { buf, pos }` | `take`, `u8` .. `u64`, `tpm2b`, `marshal_tpm2b` | `Wire`, `Marshal` |
| Structures, `src/types/structures.rs` | none | `Buffer`, `Public` and its templates, `SensitiveCreate`, `PcrSelection`, lists | `Structures`, `Marshal` |
| Transport trait, `src/transport/mod.rs` | none | `transmit` | `Transport` |
| Simulator transport, `src/transport/simulator.rs` | two sockets, `locality` | `connect*`, `transmit`, `power_on`, `set_locality`, `session_end` | `Simulator` |
| Device transport, `src/transport/device.rs` | one file | `open*`, `transmit` | `Device` |
| Object commands, `src/commands/object.rs` | none | `create_primary`, `create`, `load`, `unseal` | `Commands`; their bytes, `Structures` |
| PCR commands, `src/commands/pcr.rs` | none | `pcr_read`, `pcr_read_one`, `pcr_extend` | `Commands`; their bytes, `Structures` |
| Other commands, `src/commands/misc.rs` | none | `startup`, `shutdown`, `self_test`, `get_random`, `stir_random`, `get_capability` | `Commands` |
| Cryptography, `src/crypto.rs` | none | `hash_parts`, `hmac_parts`, `kdfa`, `digest_size`, `aes_cfb` | `Crypto`; symbolic, in `Session` |
| Constants, `src/types/constants.rs`, `attributes.rs`, `handles.rs` | none | code points, bit sets | where they are used |

**How they interact.** A command wrapper marshals its parameters and calls
`Tpm::run` with the handles, their Names and an `Auth`. For `Auth::Session`, `run`
asks the `Session` for a fresh nonce and an HMAC (`command_auth` records the nonce
in the Session), builds the frame *once*, and hands the same bytes to
`Transport::transmit` until the reply is not a transient warning.
`parse_response` gives the reply's HMAC to `Session::verify_response`, which moves
`nonce_tpm` on if it is right. Everything is synchronous and takes `&mut self`:
one client has one call in progress. The concurrency is outside: the TPM, the
link and other clients of the same TPM act between any two steps of the loop.

**What is hard.**

- Client and TPM each keep half of a rolling nonce chain. A lost reply moves one
  half and not the other.
- A resubmission is right only if the TPM did not execute the command.
- A `Session` value is not tied to the TPM's session: handles are flushed, by this
  client and by others, and given out again.
- A reply may be an old one, a damaged one, or one to something else.
- The simulator's stream has no marks: an error in the middle of a frame puts the
  next one out of step.
- Lengths and counts come from the peer, and limits (65535, the retries, bitmap
  sizes) are where marshalling goes wrong.
- A command that failed may have been executed, or may be executed later: an object
  the caller has no handle of, a flush that evicts what has the handle by then, a
  PCR that no log of the calls explains.
- The kernel's driver refuses a command while it keeps a response nobody has read.
- There is no timeout anywhere; that calls return depends on the peer.

**What makes each component correct.** The dispatcher: what it returns tells
what happened; a command is not executed twice; a verified reply is the reply to
this call; retries are bounded; calls return. The session: both sides derive
one key (section 5 has the exception); the chain only moves forward, and breaks only
when a reply is lost or damaged. The codes: the fields come apart as they were put together, and only the three
warnings are resubmitted. The encoding: what is written is read back, and what is
cut short is found out, and what does not fit never becomes something else. The
commands: what the caller is told of objects and PCRs is what the TPM has. KDFa: the
octets of the standard for every length. A transport: one command, one response.

## 2. Modules

| Module | What it is |
|---|---|
| `TpmRc` | response codes as numbers; bit masks as arithmetic |
| `Session` | the `Session` record and its operations over symbolic cryptography |
| `Execution` | abstract: what `Tpm::run` promises the command wrappers |
| `Dispatch` | the core: client, loop of `run`, link, TPM and other clients; shown to implement `Execution` |
| `DispatchProofs` | theorems about `Dispatch`: types, nonces, authenticity, what results tell; it implements `Execution` |
| `SessionProofs` | the two halves of a session: the nonce chain, acceptance, being out of step, lost slots |
| `Commands` | the wrappers for objects, PCRs and the rest, over `Execution` |
| `CommandsProofs` | theorems about `Commands` |
| `Crypto` | the algorithm lists of `crypto.rs` and the octets of `kdfa` |
| `Transport` | abstract: the contract of the `Transport` trait |
| `Simulator` | the simulator transport, shown to implement `Transport` |
| `SimulatorProofs` | the proof that it does, and that power comes before NV |
| `Device` | the character device transport, shown to implement `Transport` |
| `DeviceProofs` | the proof that it does |
| `Wire` | the primitives of the encoding: integers, TPM2Bs, the reads of a `Reader` |
| `Structures` | the structures the commands send and read, and a TPM's reading of them |
| `Marshal` | the two ends: a writer, a delivery that may cut, a reader |
| `MarshalProofs` | theorems about `Marshal`, through the definitions of `MCMarshal` |
| `Iteration` | lemmas about loops over a sequence, for any step of the loop |
| `MCDispatch`, `MCCommands`, `MCMarshal`, `MCNumbers` | instances for TLC, and reference definitions |
| `NumbersProofs` | theorems about `TpmRc` and the lists of `Crypto`, through the definitions of `MCNumbers` |

`SessionProofs` EXTENDS `DispatchProofs`: each invariant is proved on top of the ones
before it. `NumbersProofs` and `MarshalProofs` instantiate `Iteration` once for each
loop they reason about.

The layers meet at the two abstract modules. `Commands` takes `run` to be what
`Execution` allows, and `dispatch_lossy` shows that `Dispatch` allows no more;
`Dispatch` has the link of `Transport` with faults added, and `Simulator` and `Device`
implement `Transport`. `Marshal` EXTENDS `Structures` EXTENDS `Wire`; `Dispatch`
EXTENDS `Session` and `TpmRc`; `MCNumbers` EXTENDS `TpmRc` and `Crypto`. Definitions
whose comment begins with *Slip* are plausible mistakes in a definition beside
them. They are in no specification; substituting one for its original must make
the named property fail.

### Dispatch and the code

| In `Dispatch` | In the code |
|---|---|
| `sess` | the caller's `Session` values, by variable |
| `frames[c]` | the bytes `run` builds for call `c`, tpm.rs:94-142 |
| `pc`, `attempt` | the position in the loop, tpm.rs:147-157: `"send"` before `transmit`, `"sent"` in it, `"replied"` after it |
| `ctx` | what is on the stack of `run` and its caller: the session, the auth value, the hash algorithm |
| `results[c]` | the `Result` of call `c`, with ghost fields: how often it was submitted, and the execution its reply belonged to |
| `run_none`, `run_password`, `run_session` | the three arms of `Auth` up to the frame |
| `Transmit`, `TransmitFails` | `self.transport.transmit(&frame)?` |
| `Resubmit` | the guarded arm, tpm.rs:151-154 |
| `ReceiveError`, `ReceiveOk` | `other => return other`, after `parse_response` |
| `ReceiveStarted`, `ReceiveStartCut`, `SessionFrom`, `FirstNonce` | the rest of `start_auth_session`: the handle and the nonce it reads from the reply, or the `Reader` running out |
| `parse_response`, `ResponseVerifies`, `absorb` | the parser in the order it looks at the bytes, and the two effects of `verify_response` |
| `set_attributes`, `adopt_session` | the public field `attributes`; `Session::new`, public too, for a session started by other means |
| `tsess`, `tctr`, `execs` and the actions on them | the TPM: external, as far as the code depends on it |
| `LateCommand`, `StaleReply`, `Garble`, `Retag`, `OtherStarts`, `OtherFlushes` | the link and other clients: external |

Abstractions. A digest, a KDFa output or an HMAC is the record of its inputs,
so two are equal exactly when their inputs are (no collisions, no forgeries). A
nonce is a number: the client's is the number of the call (fresh nonces do not
repeat), the TPM's counts up. Parameters are `"intact"` or `"altered"`. A damaged
reply (`"garble"`) is too short, of a wrong size, cut inside, altered in its
parameters or without its handle. The nonce of a start's reply lies in the
parameters (src/commands/session.rs:44), which no HMAC covers: from altered ones
`FirstNonce` reads bytes that are no nonce of the TPM's, written 0, and in place of a
handle that is not there `ReceiveStarted` takes any, so that the caller gets an Ok with
a Session that stands for nothing. A damaged tag (`"retag"`) is a fault of its own: it
turns a reply with a session area into one without, whose parameters are then altered,
or has the parameters of one without taken for a length. A damaged response code is
not modelled beyond an old error reply handed out
again (`"stale"`). The `id` of a Session and `by` are ghosts: no guard reads them. Usage errors
found while the frame is built change nothing and are left out, except that of
`start_hmac_session`, which differs from the one `start_auth_session` raises after
the TPM has opened a session.

`adopt_session` is `Session::new` called with every combination of bind entity and salt,
an entity with an empty auth value included. The two sides decide in different ways
whether there is a session key: the code by whether the auth value and the salt are
empty (src/session.rs:117), the TPM (`SessionKeyOf`) by whether there is an entity or a
salt. `Keyless` names the Sessions about which they differ; section 5 has what follows.

The link of `Dispatch` and the contract `Transport` differ in one point: `Transport`, and
the simulator over a broken connection, may deliver the command of a failed call when the
next call has begun already, as long as nothing of that one has reached the TPM. In
`Dispatch` only `"late"` does so, and `Execution` forbids it. What the client does between
the failure and its next `transmit` is local, so such a delivery can as well be thought to
happen just before the call fails, as in `Dispatch`, where others act at that moment too:
every order of commands that reaches the TPM is in the model, and neither frames nor
results depend on more. The argument is not mechanised, and does not cover
`adopt_session`, by which the client has to do with the TPM outside of `run`.

### Execution and Commands

`Execution` counts how often each call was executed and keeps how it ended. Its
guards are the promise: at most once, not behind a later call, not after Ok or a
TPM error; Ok only if executed, a TPM error only if not. After any other error the
call may still be executed, until the next one begins. `RunKeepsItsPromise` maps
`execs` and `results` of `Dispatch` to it. A link that delivers a command behind a
later one (`"late"`) breaks the promise whatever `run` does, so the mapping is checked
on a link that loses and damages.

In `Commands` a request is what a wrapper hands `run`, and `given` is what it makes
of `run`'s Ok. Each wrapper is an action that asks; `ReturnOk`, `ReturnMalformed` and
`ReturnError` are the ways back, `Tpm...` what the TPM does when it executes, and
`Other...` and `Reset` what others do to it at any time. Callers use any handle they
were ever given, stale ones included. A Name stands for one public area; a
sealed object's data and auth value are named after the call that sealed it, so
that a swap shows. A wrapper may fail to parse a reply (`ReturnMalformed`) unless a
session vouched for it. `shutdown`, `self_test`, `get_random`, `stir_random` and
`get_capability` are one action, `inert`: one call, nothing kept, the reply handed on.

### Wire, Structures and Marshal

`Wire` writes integers in base `B`, 256 in the code, so that the largest TPM2B
(`B^2 - 1` bytes), the largest bitmap (`B - 1`) and the digest list's count limit are
short enough to reach. A read takes a position and yields the next one with a
value; `AndThen` is the code's `?`. In `Structures` object attributes are one power of
two per defined bit, the reserved bits left out. What the crate only writes is
read back by a TPM's reader (`ReadCreate`, `ReadDigestValue`), which the standard
determines: sizes are exact, selectors known, nothing left over. `Marshal` is
the state machine: one action marshals a field, one delivers any prefix, one
reads the next field.

### Crypto

An octet of KDFa is a record: the HMAC block it comes from, that block's counter
and total, its place in it, and how many of its bits are kept. `MCNumbers` states
the standard's definition without a loop and compares. `HashOutput` and
`HmacOutput` are the lists of the two `match`es, kept apart as they are in the code.

### Simulator and Device

In `Simulator` a stream is a queue of u32, u8 and four-byte pieces of data; `pc`
names the field `transmit` is writing or reading, so that each `write_all` and
`read_exact` is a step and a connection can break between any two. `Number` gives
what `read_u32` makes of data read out of frame: anything. The platform socket
and the two signals of `power_on` have a queue of their own.

In `Device` each system call is a step. The driver is external and modelled as
Linux's `/dev/tpm0` behaves towards this code: it hands a command to the TPM
within `write`, keeps the response until it has been read to its end or a timer
expires, and answers EBUSY to a write in the meantime. A write may fail
before or after the TPM has got the command; a read that fails leaves the response. With `/dev/tpmrm0` the driver behaves alike.

## 3. Runs

| Run | Question | Result |
|---|---|---|
| `dispatch_lossy` | Does the result tell what was executed, do retries stop where they should, and does every call return, on a link that loses and damages? | `ResultTellsExecution`, `PatienceExhausted`, `LostSessionsAreReported`, `RunKeepsItsPromise`, `CallsReturn` hold |
| `dispatch_hostile` | Can a late command, an old reply or a damaged one be taken for an answer, or move the chain back? | no: `TypeOK`, `OkIsAuthentic`, `NonceOnlyAdvances` hold |
| `dispatch_sessions` | Which calls does the TPM accept, with started and adopted sessions, plain, salted and bound, handles used again and other clients? What breaks a nonce chain? | those in step, with the right auth value or bound to the object, that are not keyless: `AuthDecidesAcceptance` holds; a lost or damaged reply only: `OutOfStepOnlyAfterLostReply` holds |
| `dispatch_unverified` | Is a reply with an unexpected tag, an old or a damaged one, a Protocol error, as error.rs says? | violated, see section 5 |
| `dispatch_keyless` | Does the TPM accept each call in step and with the right auth value, bound sessions included? | violated, see section 5 |
| `commands` | Is what the caller is told of objects and PCRs what the TPM has, after errors, stale handles, resets and other clients' doings? | `StrandedOnlyAfterError`, `KeptUntilFlushed`, `UnsealGivesWhatWasSealed`, `ExtendedOnceInOrder`, `ValuesMatchSelection` hold |
| `numbers` | Do all 12-bit codes decode, and are only warnings resubmitted? Do the algorithm lists agree? Does `kdfa` return the standard's octets? | `ParameterAndHandleCodesDecode`, `OnlyWarningsAreResubmitted`, `DigestListsAgree`, `KdfaIsTheStandard` hold |
| `rc_session_numbers` | Do session numbers decode as documented? | violated, see section 5 |
| `marshal_codec` | Is what is written read back, a cut found out, and no other object made than the one asked for? Does a one-PCR bitmap select one PCR? | `RoundTrip`, `CutIsMalformed`, `NeverAnotherObject`, `OnePcrSelected` hold |
| `simulator_link` | Does the simulator transport keep the trait's contract when connections break, and does each call return? | `TypeOK`, `PowerComesFirst`, `TransmitIsOneExchange`, `TransmitReturns` hold |
| `simulator_oversized` | ... and after a response that is too large? | violated, see section 5 |
| `device_link` | Does the device transport keep the contract when system calls fail and responses are left or dropped? | `NothingLeftBehind`, `TransmitIsOneExchange`, `TransmitReturns` hold |

Deadlock checking is off: a client may stop calling, and the bounds stop it.

**Bounds.** `MaxCalls` is 2 or 3: a property about replies and nonces relates a
call to one before it, and a third call allows a lost, then an old, then a good
reply. `MaxRolls` bounds the nonces the TPM draws, and with them executions and
sessions opened; 3 or 4 leaves room for a session, a command, and a repeated one or
another client's session. `dispatch_lossy` has 2: a session and a command, or two
sessions. `MAX_TRANSIENT_RETRIES` is 12 in the code and 0 or 1
here: the loop treats all attempts alike but the last. There is one session handle and
one slot, so that sessions meet by using a handle again, one after the other;
`dispatch_lossy` has two handles, for only with two can a caller lose one session
and be given another. That two slots do not disturb each other is left to the
theorems, which have any number of both. Of two
objects one has an auth value and the other the empty one. One warning code and one
refusal stand for their classes in `Dispatch`; `numbers` covers the classes. Each
run of `Dispatch` names the faults and the uses it allows (`Faults`, `Uses`), since
all of them together are out of TLC's reach; the theorems have no such limit.

`commands` has four calls, the length of create_primary, create, load, unseal; two slots;
one thing others do, at any moment, a reset included; and at most two calls that
do not return Ok, enough for one failure to meet another. A client keeps to one
kind of command (`Clients`): objects and PCRs share no state in the TPM but the reset.
Handles are interchangeable and used as a symmetry. Two banks, one of them not
allocated, are the two cases of a selection.

`numbers` visits every code up to 0xFFF, all the bits the decoder looks at, and
every `bits` up to 600 for each algorithm: more than one block of all but one, and
every remainder modulo 8. In `marshal_codec` B is 12: a TPM2B holds 143
bytes and a bitmap 11. Two fields of any two kinds follow each other, with
lengths 0, 1 and the largest; the parts of a create have lengths that fit alone, fit
together or just do not, and do not fit alone; PCR numbers are all of a TPM's (0 to 23)
and the last a bitmap can hold. In `simulator_link` there are
two transmits and two attempts at power_on: a transmit can only be confused by the
one before it, and the retry of a half-done power_on is the second attempt.
`device_link` has four transmits, for a response left behind, a call refused, a response
drained and one call after it, and responses of one byte and of the
largest size, 3.

**Fairness.** `FairSpec` of `Dispatch` assumes that the thread in `run` keeps
running (`WF(Proceed)`), which is what a synchronous function with no lock does, and
that the TPM answers what it is handed (`WF(Tpm)`). The second is not guaranteed by
the code but relied on: no transport sets a timeout. `Proceed` is the loop without
`TransmitFails`, so a call does not return because a fault is bound to happen. Nothing is
assumed of the client's calls, the link's faults or other clients. `FairSpec` of `Simulator`
assumes the same of the client's thread and of the simulator's two servers; a
broken connection ends reads with an error and needs no fairness. There the
faults do not include `"oversized"`: after it, a client out of frame may wait for
bytes that never come. `FairSpec` of `Device` assumes that each system call comes back:
the client's thread and the driver proceed. No fault is ever assumed to happen,
nor the driver's timer to expire, so a call returns without their help.

## 4. Proofs

A theorem holds for every value of the constants that satisfies the assumptions
of its module, hence for any number of calls, retries, handles, slots, objects,
banks, fields or bytes, and for any set of faults unless it names one. TLC evaluates
the assumptions in every run of the module: the bounds are numbers, the reserved
handles are not session handles, auth values are sequences of secrets, warnings
are transient and refusals are not, codes are distinct, sizes are in range, and what
is marshalled is what a caller can pass (see below).
The cryptographic assumption is in the model: terms are equal only if their parts
are. A proof of invariance has a lemma per kind of step (the client's calls, the
loop, the TPM, the link) and a step per action under it. TLC checked each
invariant below on a run before it was proved.

Of the 30 properties of the passing runs, 27 are theorems; the other three are
liveness.

### The dispatcher (`DispatchProofs`)

- **`TypeCorrect`**: `Spec => []TypeOK`. `TypeInv` adds that an authorised frame names
  one object and has a code of `Codes`, and that a call in progress has a number;
  without these the HMAC of a frame has no type.
- **`OkRepliesAreAuthentic`** (`OkIsAuthentic`), under `NoStrayPlainReply`. `AuthInv`: the
  number of a session call is its nonce, each reply that has an HMAC is vouched for by
  an execution of the call whose nonce the HMAC covers, and no reply without a
  session area reaches a session call. `NonceInv`: a nonce under which a command ran is no
  slot's nonce any more, and never will be, since new ones exceed all old; so that
  execution is the only one.
- **`WarningsAreRetried`** (`PatienceExhausted`), under any faults: submissions are
  counted by `attempt`, which stays within `MAX_TRANSIENT_RETRIES` (`PatienceInv`).
- **`ResultsTellExecutions`** (`ResultTellsExecution`) and **`RunImplementsExecution`**
  (`RunKeepsItsPromise`), on a link that neither delivers late nor hands out old
  replies. `PromiseInv`: until its reply is there the call in progress was not
  executed, and the reply that is there is a success exactly if it was. That is why
  a resubmission is safe. `StepOfRun` reduces the twenty-odd actions of `Dispatch` to
  what each does to the call in progress, its result and the executions; every
  such step is then one of `Execution` or a stutter.

### Sessions (`SessionProofs`)

- **`NoncesAdvance`** (`NonceOnlyAdvances`), under `NoStrayPlainReply`. `NewerInv`: an
  execution draws a nonce after the one it spends, a verified reply carries it, and a
  call was made on the nonce its Session holds. The reply to a start opens a Session
  newer than all others, or one that stands for no session of the TPM's.
- **`HmacDecidesAcceptance`** (`AuthDecidesAcceptance`), under `NoStrayPlainReply`.
  `SyncInv`: a slot is known by the nonce it was opened with; a Session that holds
  that nonce, or the slot's present one, stands for that slot, and the two keys agree
  (`KeysAgree`): they are the same, or the Session is keyless and the slot has a key
  derived from nothing. The frame of the call in progress is authorised from
  the Session as it is now. `KeysMeet` compares the keys of the two HMACs, which the
  auth value is part of: no auth value makes up for the key a keyless Session lacks.
- **`OnlyLostRepliesStray`** (`OutOfStepOnlyAfterLostReply`), under `OwnReplies`. `StrayInv`:
  two Sessions never stand for one slot, so that only a call of its own can take a
  slot ahead of its Session; and such a call is in progress, or ended in an error
  that does not come from the TPM, or was the start, whose reply was damaged.
- **`NoSessionIsLostUnreported`** (`LostSessionsAreReported`), under `OwnReplies` and without
  `adopt_session`. `LostInv`: the reply to a start is that of the execution that opened
  the slot, and has its handle or none; what `ReceiveStarted` makes of it has that
  handle, or is marked as damaged.

### Commands (`CommandsProofs`)

Five theorems, with no hypothesis beyond `ConstantsFit`: others may load, evict,
extend and reset at any time, and abandoned calls may be executed late. `Inv` has the
types, how a request, its outcome and what was made of it hang together, and that
requests name what the caller was given.

- **`StrandedObjectsAreReported`** (`StrandedOnlyAfterError`) and
  **`ObjectsAreKeptUntilFlushed`** (`KeptUntilFlushed`), from `ObjectInv`: each object the
  client made is in one slot; the caller holds its handle and Name, or the reply
  that tells them is on its way; and an object goes only by others or by a flush
  that was asked for after it was handed out.
- **`UnsealInvertsCreate`** (`UnsealGivesWhatWasSealed`), from `SealInv`: a Name goes with the
  data sealed under it, in the slots, the blobs and the replies.
- **`ExtendsTakeEffectInOrder`** (`ExtendedOnceInOrder`), from `ExtendInv`: a bank has
  executed extends only, in order, and all since the latest reset.
- **`ReadsShowWhatWasExtended`** (`ValuesMatchSelection`), from `ReadInv`: the answer to a
  selection is that of its allocated banks in order, and what it showed when it was
  given stays true of the calls before and after.

### Transports (`DeviceProofs`, `SimulatorProofs`)

- **`NothingIsLeftBehind`** (`NothingLeftBehind`) and **`DeviceImplementsTransport`**
  (`TransmitIsOneExchange`). `CallInv`: what the driver keeps while it reads is all of
  this call's response or nothing, for with an earlier one the write would have been
  refused. `KeptInv`: a response outlives only calls that failed. `OneReadIsEnough`
  is where `MAX_RESPONSE` comes in. `Submit` maps to the contract's Deliver, the end
  of a call to its Answer or Fail, every other step to a stutter.
- **`TypesAreKept`** (`TypeOK`), with oversized responses too. `HeaderInv` is what it needs:
  a locality byte is followed by the length of a command, and data is of some call;
  so the simulator always takes a request off the stream as a whole.
- **`NvOnlyUnderPower`** (`PowerComesFirst`). `PowerInv`: at most one signal or answer is
  on its way, and on an open connection the client waits for it. A signal left
  over on a broken connection may still switch something on, never NV without power.
- **`SimulatorImplementsTransport`** (`TransmitIsOneExchange`), without `"oversized"`.
  `RequestInv`: behind at most one session end, the stream to the simulator carries part
  of the request of one call, not executed yet and not behind a later one, and
  on an open connection exactly as much as the call in progress has written.
  `ReplyInv`: what the client reads is the rest, or a beginning of the rest, of one
  reply to its own command, counted from the field it is at; so the length it reads is
  never too long, the body is that response whole, and the result code empties
  the stream. `CallInv` ties both to the results. `Serve` maps to Deliver.

### Numbers (`NumbersProofs`)

`CodesAreTakenApart`, `ErrorsAreNotResubmitted` and `ListsOfAlgorithmsAgree` state
`ParameterAndHandleCodesDecode`, `OnlyWarningsAreResubmitted` and `DigestListsAgree`
of every number there is, where `numbers` counts to 0xFFF.

**`KdfaAgrees`** states `KdfaIsTheStandard` for any number of bits. The loop of `kdfa`
keeps whole blocks (`WholeBlocks`): after each turn octet `k` comes from block
`(k - 1) \div size` at the place that is left over. The rest is that truncating and
masking the first octet is the standard's choice of the leftmost bits.

### Loops (`Iteration`)

What a loop computes for every input takes induction over data. The library's
induction rules take a predicate as a parameter, which the provers cannot
instantiate, so `Iteration` does it with sets: `NatSets` says that a set with 0 and
every successor has all of `Nat`, from the fact that `<` is well-founded on `Nat` (`WFMin`,
a fact about sets). From it follow that the recursive function inside `FoldLeft`
exists and that a `FoldLeft` is a run: a sequence of states, one per element, each the
step of the one before. `Step` is a constant of the module, so each loop of the
models is an instance, and what it computes is proved by `NatSets` along its run.

### Marshalling (`MarshalProofs`)

The bases of this proof are laws for single reads, from small to large. `Gives` is
what reading a string that was written, and then perhaps cut, comes to: the value and
the position behind it if all of it is there, a failed read if not. `Codes` says that a
kind of primitive gives back a value from a string, wherever the string stands. Integers
and TPM2Bs do by arithmetic in base `B`; sequences of them, counted lists and
templates do by iteration.

The other direction is needed for what goes wrong. `create` drops a `Buffer` that does
not fit, and the TPM reads what is left. `Succession` has the positions of a
*successful* read of bytes nobody wrote so: each field lies behind the one before by
its least size at least. By it a sensitive part that lost a buffer has one TPM2B where
two are read to its very end (`NotTwoSized`); a public part is matched by no layout but
its own, because type and symmetric algorithm are read where they were written,
and by its own only if the policy is there, because without it what follows would have to
be a policy of the size that an algorithm's identifier would be (`OnlyLikeIt`,
`OnlyOwn`); and a command that lost a whole part ends before its fields do
(`PartDropped`). So `CreateRefused`: the TPM refuses it, cut short or not.

The inductive invariant `IInv` says where the reader stands, which no property
does: behind exactly as many of the written strings as it has read (`PlainRead`), so
that the next read begins where a field was written and the laws apply; that
what was delivered is a beginning of what was marshalled (`Delivered`); that
it was malformed only if cut; and what has become of a create or a capability,
which are read to the end of the string (`CreateRead`, `CapabilityRead`).

- **`RoundTrips`** (`RoundTrip`): what is marshalled is read back to the last byte.
- **`CutsAreFound`** (`CutIsMalformed`): a string cut anywhere is never read to its end,
  but for a capability, whose data is whatever is left of the reply.
- **`NoOtherObject`** (`NeverAnotherObject`): a create with a part that does not fit is
  refused and never read as another create.
- **`OneSelected`** (`OnePcrSelected`): the bitmap of `PcrSelection::single` selects its
  PCR and no other, by arithmetic on its one byte that is not zero.

What they assume of the constants:

- `IdentifiersFit`, `UINT16_MAX >= 128`: every algorithm, curve and key size the
  crate writes as a UINT16 is one. With the code's base of 256 it is; it is what
  an instance with a smaller base has to keep.
- `InputsAreFields`: what is marshalled is `WellFormed`. Integers have the width of
  their type. Bytes a caller passes have any length, what a TPM sends fits its TPM2B.
  A list has no more elements than its UINT32 can count (digests: than `read_digest_list`
  takes), as a Vec in memory has. A bitmap
  has at most `UINT8_MAX` bytes: `PcrSelection::select` is a public field whose length is
  written `as u8` (src/types/structures.rs), and `PcrSelection::single`, whose PCR is
  a u8, makes no longer one than 32. A digest to extend has the size of its algorithm,
  which `pcr_extend` leaves to its caller. What is created is one of the templates,
  with any policy.

`RoundTrip`, `CutIsMalformed` and `OnePcrSelected` are stated of a `Buffer` that fits its
TPM2B; what becomes of a command whose policy does not is the subject of `NeverAnotherObject`.

### The hypotheses

- `NoStrayPlainReply`: if the link hands out old replies, none is a success without a
  session area, and it damages no tag. Authenticity needs both: `dispatch_unverified` has
  the two counterexamples. `NoncesAdvance` needs the first: from an old reply to a start,
  which has no HMAC, `start_auth_session` makes a Session with an earlier nonce than the
  one it replaces (three calls). That it excludes damaged tags, and that
  `HmacDecidesAcceptance` has the hypothesis at all, comes from `AuthInv`, on which both
  proofs rest; TLC finds no counterexample there. The cause is always that of
  `dispatch_unverified`: the tag of the reply decides, not that of the command.
- `OwnReplies`: the link delivers nothing late, hands out no old reply and damages no tag. A
  late command or an old error would otherwise put a Session out of step, or leave a
  slot behind, with a result that says otherwise. With a damaged tag a session call
  returns Ok without `verify_response`, and its Session is a nonce behind. For lost
  slots the last part is not needed: `dispatch_lossy` checks `LostSessionsAreReported` with
  damaged tags.
- Without `adopt_session`: a Session built by the caller around a handle may take the
  place of one whose slot is still open. That is the caller's doing, not a loss.
- Without `"oversized"`: `simulator_oversized` is the counterexample.

### Model-checked only

- Liveness: `CallsReturn` and both `TransmitReturns`. Fairness and ENABLED are beyond
  the proof system.

What becomes of a `Public` a caller fills in by hand, other than a template with its
policy, is neither proved nor checked: `WellFormed` leaves it out.

## 5. Where the code and its documents differ

1. `rc_session_numbers`: `arg_number` (src/error.rs:76) masks four bits, the top one of
   which says *session*. Session 1 is reported as 9.
2. `dispatch_unverified`: `parse_response` (src/tpm.rs:186) looks for an authorisation
   area only if the reply's tag says so. A success reply without one, an old one or its own
   with a damaged tag, is accepted for a session call, unverified, although error.rs:149
   counts an unexpected tag as a Protocol error and tpm.rs:8 announces that the session
   HMAC is verified.
3. `dispatch_keyless`: `Session::new` (src/session.rs:117) derives no session key if the auth
   value of the bind entity and the salt are empty; the TPM derives one for every bound session.
   A session bound to an entity nobody protected never authorises anything, though
   session.rs:59 and :102 have the key empty for *unbound*, unsalted sessions only and
   session.rs:25 counts bound sessions among what is implemented.
4. `simulator_oversized`: a response announced as too large (src/transport/simulator.rs:153)
   stays in the stream; the next `transmit` reads it, against the contract in
   src/transport/mod.rs:24.

A fifth has no run of its own: `Buffer::marshal` (src/types/structures.rs:88) drops the error
of `marshal_tpm2b` for a buffer of more than 65535 bytes and writes nothing, though the
comment above it promises a truncated but consistent one. `Buffer` in `Structures` does
the same, and `NeverAnotherObject` says what it can come to in a create.

## 6. Not modelled, and the plan

Not modelled on purpose: wording (`Display`, `Debug`), sleeping between retries,
constant-time comparison, memory wiping, `aes_cfb` and the predicates on handles
(neither is called by the crate), the code points no control flow depends on, the
crate root, `std::io` below the granularity of `write_all`, `read_exact`, `write` and
`read`. Policies: the crate has no policy commands; an `auth_policy` is bytes that
`Public` carries. In `Commands`: a reply damaged so that it still parses reaches the
caller of an unauthenticated command as it is, which is the caller's risk and not
modelled; session state, which `Dispatch` has.

`start_auth_session` loses the session's slot if `Session::new` refuses the
algorithm after the TPM has opened the session (src/commands/session.rs:47).
Nothing in the repository says that it does not happen; what
`LostSessionsAreReported` checks is that the caller then gets an error that tells it
apart from a refusal by the TPM. If the reply to the start is damaged so that it still
parses, the caller gets an Ok and a Session of another handle or nonce, and the slot stays
taken: nothing authenticates that reply, in the code as in the standard.

Next:

1. Proofs: `OkRepliesAreAuthentic` for a `parse_response` that looks at the tag of the
   command, as a statement of what the missing check would buy.
2. Proofs: that a read of `Wire` stays within its buffer whatever the bytes, as a
   theorem about a reader of arbitrary bytes. `Succession` has most of it.
