# TLA+ models of ledger-sovereign

This directory specifies the Sovereign application for Ledger devices in TLA+:
what the application promises to a host computer and to the person holding the
device, models of the code that TLC checks against those promises on small
instances, and TLAPS proofs of the central ones for all instances. Paths below
are relative to the repository (`src/` here).

## The system

A host sends commands (APDUs) over a transport that carries one command and its
answer at a time. The application answers at once, or opens review screens and
answers from a callback when the user has decided. There are three commands:
`GET_VERSION`, `INS_GET_ADDR` (a public key and address, with or without the
user's confirmation) and `INS_SIGN` (an upload: one `P1_INIT` chunk with the
derivation path, any number of `P1_ADD` chunks, one `P1_LAST` chunk, then a
review and a signature).

| Component | State it keeps | Operations | Correct when |
| --- | --- | --- | --- |
| APDU handler, `app/src/apdu_handler.c` | `tx_initialized` | `handleApdu` and the handlers it dispatches to; `extractHDPath`, `process_chunk` | an upload is in progress exactly as the host was told; each command is refused, answered or reviewed |
| Actions, `common/actions.h` | `action_addrResponseLen` | `app_fill_address`; the callbacks `app_sign`, `app_reply_address`, `app_reject`, `app_reply_error` | each ends a review with one answer, about what was reviewed |
| Transaction buffer, `common/tx.c` | RAM array, flash array, `tx_obj`, `ctx_parsed_tx` | `tx_initialize`, `tx_reset`, `tx_append`, `tx_get_buffer`, `tx_parse`, `tx_getItem` | a message is kept whole and in order wherever it is |
| Parser, `parser.c`, `parser_impl.c` | pointers into the buffer | `parser_parse`, `parser_validate`, `parser_getItem` | the review shows the bytes that will be signed |
| Address review, `addr.c` | none; reads `G_io_apdu_buffer`, `hdPath` | `addr_getNumItems`, `addr_getItem` | shows the address that will be sent |
| Keys, `crypto.c`, `crypto_helper.c` | `hdPath` | `crypto_sign`, `crypto_fillAddress`, `crypto_extractPublicKey` | only own keys; nothing secret left behind after any step fails |
| Start-up, `common/main.c` | none | `main` | starts with no upload and no answer |
| Library and device (`deps/ledger-zxlib`, SDK; not in the repository) | `G_io_apdu_buffer`, registered callbacks, PIN | transport, screens, buffering, exceptions | assumed, see below |
| sr25519 library, `app/rust` | none; secret key and signature buffer of the caller | `get_sr25519_sk`, `sign_sr25519_phase1`, `sign_sr25519_phase2` | the witness of phase 1 is used once; what comes out verifies |
| Tests, fuzzers, emulator scripts, build | | | not modelled |

Interaction is by function call and by shared memory: handlers, review screens
and callbacks all work on `G_io_apdu_buffer`, `hdPath` and the transaction
buffer. Nothing is copied when a review opens, the buffer is not cleared between
a command and its answer, and the code keeps no "busy" flag. The hard behaviour is therefore in what may happen between two
steps of one request: other commands between two chunks, a chunk that is
refused, an answer that gets lost, an IO reset that restarts transport and
screens while static variables survive, a device that locks over an open
review. `PROJECT.json` lists these hazards at the lines where they bite.

## The modules

| Module | Role |
| --- | --- |
| `Payloads` | words and payloads, shared by the two below |
| `Apdu` | commands, status words, answers, derivation paths |
| `MessageLog` | abstract: a bounded log that takes a chunk whole or not at all |
| `TxBuffer` | RAM and flash behind `tx.c`; `ImplementsLog` is its refinement of `MessageLog` |
| `SovereignApp` | the application with transport, host, user and PIN |
| `SovereignProperties` | types, safety, liveness, refinement, inductive invariant |
| `SignService` | abstract: what is promised to host and user |
| `Exchange` | abstract: the protocol of commands and answers, whatever is in them |
| `KeyService` | abstract: one use of a key is one step, all of it or nothing |
| `ReviewItems` | the items and pages of a review, and the walk over them |
| `CryptoKeys` | one key use after another, call by call |
| `ApduBytes` | commands and answers as bytes of the one shared buffer |
| `Sr25519` | the sr25519 library and the protocol of its callers |
| `TxBuffer_proofs`, `SovereignApp_proofs`, `SignService_proofs`, `Exchange_proofs`, `CryptoKeys_proofs`, `ReviewItems_proofs`, `ApduBytes_proofs`, `Sr25519_proofs` | the proofs |
| `MCTxBuffer`, `MCSovereignApp`, `MCDocClaims`, `MCReviewItems`, `MCCryptoKeys`, `MCApduBytes`, `MCSr25519` | instances for TLC |

`SovereignApp` composes `Apdu`, `Payloads` and an instance of `TxBuffer`;
`SovereignProperties` maps it to `SignService`, and `TxBuffer` maps itself to
`MessageLog`. `SovereignApp` and `ApduBytes` are two views of the same handlers,
one with merged headers and symbolic contents, one with header bytes and status
words; both implement `Exchange`, which says when a command is refused,
answered or reviewed and what becomes of the upload, so that the two views
cannot drift apart there. `CryptoKeys` implements `KeyService`, in which a use
of a key is the one step `SovereignApp` takes for it. `ReviewItems` and `CryptoKeys` each open up what is one step in
`SovereignApp` (`Look`, and a key use) and stand beside it. `ApduBytes` follows
the same commands below the level at which `SovereignApp` speaks of paths,
messages and signatures. `Sr25519` stands alone: no C code of this commit calls
the library.

Names follow the code. A name with a suffix (`tx_reset_forgotten`,
`AbandonUpload_forgotten`) is a sensitivity variant: the definition of the same
name as a slip in the code would have it. No specification uses one; putting it
in the place of the real definition makes a stated property fail.

### How SovereignApp corresponds to the code

One command is one round of `link`: `ready` → `command` (`Receive`) → handled
by one action, which leads to `replying` (a `THROW` caught at the end of
`handleApdu`, operator `Throw` or `Respond`) or to `review` (`Review`: the
handler returned with `IO_ASYNCH_REPLY`) → a button (`Approve`, `Reject`,
`ViewError`) → `replying` → `Deliver` → `ready`.

- A handler runs to its end before anything else does, as the event loop runs
  it: a handler is one action with everything it calls. `handleSign` is split
  by P1 and outcome (`signInit`, `signUninitialized`, `signAdd`, `signLast`,
  `signBadP1`). `extractHDPath` is `AbandonUpload` with `RejectPath` or
  `AcceptPath`: it clears `tx_initialized` before it looks at the path, and
  keeps a path it refuses in `hdPath`.
- `io` is `G_io_apdu_buffer`: the command until a handler overwrites it, then
  the body of the answer. A signature is the term `Signature(path, message)`,
  an address `Address(path)`: what key it took and what it covers.
- `tx_obj` is where the parsed transaction points and its length. Screens read
  through it (`TxMessage`), `app_sign` asks the buffer again (`SignedMessage`);
  that both give the same is a property, not an assumption.
- Lengths pass through `uint16` where the code narrows them.
- The walk over the screens is one step, `Look`: the user sees what the screens
  can read at that moment, and only then may approve. A user may refuse at any
  time. That the walk does show everything is the subject of `ReviewItems`.
- Key derivation and signing may fail at every use; `CryptoKeys` has the steps.

### How ReviewItems corresponds to the code

`tx_getItem`, `parser_getItem`, `parser_validate`, `addr_getNumItems` and
`addr_getItem` are operators of the same names, on lengths: a text is the number
of its characters and a screen (`Page`) the range of characters on it. A message
has two items, a notice on one page and the message in hexadecimal; an address
has one, or two in expert mode. The item number is compared as a signed number in
`tx_getItem` and passed on as a `uint8`. `pageString` and `pageStringHex` are in
the library; they are modelled by their contract, of which it matters that the
number of pages comes back through a `uint8_t`. The actions are the walk that
`fuzz/parser_parse.cpp` and `tests/utils/common.cpp` take and the screens of the
device are built for: all pages of an item (`NextPage`), then the next item
(`NextItem`), until the last was seen (`LastSeen`). `readTo` is a ghost: how far
the reader has come without a gap.

### How CryptoKeys corresponds to the code

`pc` is the call that comes next inside `crypto_sign` or, for an address,
`crypto_fillAddress` with `crypto_extractPublicKey`. Each call of the device's
cryptography succeeds or fails, and one that fails may have written its result
or part of it. The label `catch_cx_error` is one action, reached from every call
as well as by falling through. `buffer` is what `G_io_apdu_buffer` holds
and how much of it; `privateKeyData` and `cx_privateKey` are the stack variables,
followed after the function returned since what is there stays there.
`action_addrResponseLen` is static and survives. The checks of pointers and
sizes at the head of the functions are constant for the buffers they are called
with; `KeyAssumption` states what makes them pass.

### How ApduBytes corresponds to the code

`G_io_apdu_buffer` maps every byte to where it comes from: received with this
command, written for this answer, zeroed, part of the status word, or `stale`,
left over from an earlier exchange. `rx` and `tx` are the lengths of the code,
`header` the class, instruction and P1 bytes as the handlers find them, which
with a short command are not of this command. `taken` is a ghost: the origins
of the bytes the last path or chunk was made of. The actions are the exits of
`handleApdu`, in the order of its checks, and the four callbacks. Numbers are
those of the build: codes, their folding into status words (`StatusWord`), the
lengths of paths, keys, addresses and of the one error text that is sent.
`PathTooShort` subtracts as unsigned numbers do. A handler that throws writes its
status word at `tx`, on top of what is in the buffer. An exception of the SDK
inside a handler (`ThrownBySdk`) is any of 16 bits: `EXCEPTION_IO_RESET` is thrown
again and has no answer, others are folded. `IoReset` is the same exception out
of the event loop, with a command, a review or an answer under way; either way
transport and screens start over and the buffer keeps what it had (`StartOver`).
The second length check of `process_chunk` is left out: behind that of
`handleApdu` it never fails.

### How Sr25519 corresponds to the code

`get_sr25519_sk` converts the secret key of the caller in place; phase 1 leaves
the witness in the second half of the signature; the caller multiplies it with
the base point and puts the result into the first half; phase 2 reads both
halves and replaces the witness by the response. That is the order in the test
of the crate (`lib.rs:196-252`), the only caller there is. What is computed is a
term: a transcript is what was appended to it, a challenge or a witness is what
it was drawn from. Both phases are told public key, context and message, and
phase 2 keeps nothing of what phase 1 was told: it may be called for another
request than phase 1 was. The signature then verifies for the request of phase 2
(`SignatureVerifies`). The witness is another matter: it is drawn for phase 1, and
with a generator that repeats itself two such calls could answer two challenges
with it. That both phases are called for the same, as the test does, is what
`WitnessOnce` presupposes; `responses` records those calls.
Nothing is assumed of `fill_bytes`, whose values may repeat
and, in a host build without tests, always do (`bolos.rs:74-76`). Callers break
off anywhere (`Leave`) and start again in buffers that still hold a witness or
a signature. The second phase is modelled with the converted key, as the test
calls it; the parameter names of `sr25519.h` call it `sk_ed25519_expanded`.

### The environment, and what is assumed of it

None of this is in the repository; it is modelled from how the code uses it.

- The transport delivers a command only when the last one is answered
  (`Receive` requires `link = "ready"`). The code depends on it: no flag in the
  application refuses a command while a review is open, and an `INIT` arriving
  then would empty the buffer `app_sign` reads.
- The buffering library takes a chunk whole or not at all, moves RAM contents
  to flash when a chunk does not fit RAM, and reports what it stored.
- `acked` is what a host following the protocol concludes from status words:
  the path and chunks that were answered `OK`. When an answer to `INIT` or
  `ADD` is lost the host knows nothing of the upload (`lost`); chunks carry no
  number, so a repeated `ADD` cannot be told from a new one. A
  `COMMAND_NOT_ALLOWED` leaves the host's belief as it was, because it stands
  for a locked device as well as for a refusal.
- `IoReset` may happen in every state, also between a handler and its answer.
  Static variables survive it. `Restart` zeroes them.

## What is checked

`MCTxBuffer` (run *buffer*): chunks of 0 to 3 words over a two-word alphabet,
3 words of RAM and 6 of flash, so that messages end in RAM, exactly at the
end of RAM, spill, fill flash exactly, and overflow from RAM as well as from
flash. 127 states, complete.

`MCSovereignApp` (runs *core* and *liveness*): two own paths that differ in the
last word, one foreign path, one too short; chunks of 0, 1 and 2 words; RAM of
one word, flash of three, `uint16` range four. All commands of every shape the
handlers tell apart, in any order. Messages of every length up to full flash,
spills and overflows occur both in `ADD` and `LAST`, with empty messages too.
Two own paths are what it takes to sign with the wrong one; two different words
are what it takes to reorder a message. 371 766 states, complete, in well under
a minute; no state constraint is used.

`MCReviewItems` (run *review*): the widths of the build. A page has 39
characters, what the 40 byte buffer of `parser_validate` leaves; a `uint8` counts
to 256; messages of 1, 19, 20, 39 and 4972 bytes, whose hexadecimal form ends
within the first page, one short of a page's end, just beyond it, at the end of
the second page exactly, and on page 255, the last that can be counted; of 4973
bytes, which take one page more, and of 16384, all that `tx.c` has room for. Item
numbers -128 to 127, all an `int8_t` holds. 707 states, complete.

`MCCryptoKeys` (run *keys*): the sizes of `coin.h`, addresses of six lengths up
to the longest the encoder's buffer holds, uses of keys in any order without
end, a failure at every call. 139 states, complete.

`MCApduBytes` (run *bytes*): the buffer of 260 bytes and the codes of the build;
commands of no byte, one short of a header, a header, one data byte, one short
of a path, a path, and the longest; every header byte the handlers tell apart;
exceptions 1 to 19 of the SDK, `EXCEPTION_IO_RESET` among them, and nine more of
16 bits: two that fold onto application codes, three that fold onto the word of
exception 1, three that are not folded, one of which is that same word, and the
largest; two address lengths, one of them the longest. One
command after another without end. `UINT32_RANGE` is 1 000 000 instead of 2^32,
which TLC's numbers do not hold; it only has to exceed every length. 8210
states, complete.

`MCSr25519` (run *sr25519*): two callers, two messages, two values of the random
bytes, one key and one context. With one key every two responses are
comparable, which is the hard case; two values are what it takes to repeat one
and to draw another. Callers, messages and values are interchangeable, hence the
symmetry. 122 087 states, complete.

| Property | Says |
| --- | --- |
| `TypeOK`, `TxTypeOK` | types, and buffer bounds |
| `UploadAgreed` | counting the answer under way, host and device agree on whether an upload is open, for which path, and with which words |
| `SignedAsUploaded` | a signature answers a `LAST`, with the path and the chunks acknowledged since `INIT`, in order |
| `OneSignaturePerUpload` | no second signature without a new upload |
| `ReviewedIsSigned` | the message signed is the one looked at in this very review |
| `AddressAsAsked` | an address is for the path the pending command asked for, complete, and was confirmed if P1 asked |
| `KeyUseStaysInApp` | only keys under `44'/1551'`, though foreign paths stay in `hdPath` |
| `QuestionFitsCommand` | during a review, callbacks, buffers and the pending command belong to one request and no upload is open |
| `IInv` | the inductive invariant used by the proofs, checked here first |
| `ImplementsService` | every step is a step of `SignService`, under a mapping that looks at device state only |
| `ImplementsLog` | RAM and flash together are one log |
| `KeepsProtocol` | (of the application and of its bytes) every step is a step of `Exchange`: one answer for a command, a review only for a whole upload that is then over or for an address, an upload that opens only with the `OK` of an `INIT` |
| `CommandAnswered` | every command is answered or its link dropped |
| `ReviewTypeOK`, `KeysTypeOK` | types; page numbers fit a `uint8_t`, answers have the lengths they may have |
| `ReviewIsComplete` | at the last screen, every character of address and path has been on a screen, and every character of the message exactly if its pages can be counted |
| `NoErrorScreen` | what `parser_validate` accepted never fails to be shown |
| `ItemsBelowCount` | items exist exactly below the number of items, for any number asked for |
| `SecretsWiped` | once a key function is left, whichever call failed, neither seed nor private key is on the stack |
| `AnswerIsWhole` | with `OK` goes a whole signature or a public key with its address, from the call that is answered |
| `FailureLeavesNothing` | a failed use leaves neither a partial signature nor a public key in the buffer |
| `LengthIsOfThisAddress` | the length to send is never that of an earlier address |
| `ImplementsKeyService` | each use of a key ends with the whole of what was asked for or with an error and an empty buffer, in what amounts to one step |
| `WalkAdvances` | a step of the walk goes on to a later page or a later item |
| `WalkEnds` | the walk over a review comes to its end, also over 255 pages counted in a `uint8_t` |
| `BytesTypeOK`, `SrTypeOK` | types; answers stay within the buffer; a witness is where phase 2 looks for it |
| `AnswerIsOwn` | every byte sent was written for this answer, and the status word comes last |
| `TakesOnlyReceived` | no path and no chunk contains a byte an earlier command left in the buffer |
| `AddressTerminated` | the address the screens print as a C string ends where it should |
| `StatusWordTells` | no error becomes success; an application code arrives as it is; two exceptions of 16 bits become the same status word exactly if they agree in the eleven bits that folding keeps and neither keeps a word outside `0x6800`..`0x6FFF` (`Alike`) |
| `WitnessOnce` | where both phases are for the same request, no witness answers two challenges, which would give the key away |
| `SignatureVerifies` | a finished signature answers the challenge of what phase 2 was called for, with the converted key |

**Fairness** (`FairSpec`). The event loop runs the handler of a received
command and sends its answer: weak fairness of `handleApdu` and `Deliver`.
That the user decides is an assumption on the environment and not on the code:
the PIN is entered sooner or later (weak fairness of `Unlock`) and, as the
device may lock any number of times, a button is pressed if the review is open
to it infinitely often (strong fairness of `Approve \/ Reject`). Neither IO
resets nor looks are fair. What is shown is that no handler path and no
callback swallows a command; `SigningFails_silently` is what it excludes.
In `ReviewItems` the walk goes on (weak fairness of its three actions): the
loops of `fuzz/parser_parse.cpp` and `tests/utils/common.cpp` do nothing else
until their conditions fail. Expert mode can be switched between two walks, not
within one.

**Documentation.** Three runs show where
`docs/APDUSPEC.md` and the code differ:
`DocSignatureLength` (65 bytes documented, 64 sent), `DocVersionLength` (8
bytes documented, 12 sent) and `DocPathHardened` (a hardened third path word
documented, any accepted). A fourth, *review_long*, is about a comment:
`parser_validate` iterates "to check that all can be shown" (`parser.c:53`), but
asks only for page 0 of each item. A message of 4973 bytes needs 256 pages, which
the `uint8_t` page count takes for none; it is accepted, and the walk over
it ends early (`ValidatedIsShown`). `ReviewIsComplete` says exactly which
messages are shown whole: those of up to 255 pages, whatever the width of a page.

## What is proved

For all values of the constants that meet the assumptions: any words, payloads
and commands, RAM not larger than flash, flash smaller than the `uint16` range
(`tx.c`: 16384 or 8192 bytes against 65536).

- `TxBuffer_proofs`: `TxTypeCorrect`, and `BufferImplementsLog` (the buffer
  implements the log). Both rest on two lemmas: what an append leaves in the
  buffer (`AppendResult`) and that it keeps the types (`AppendType`).
- `SovereignApp_proofs`: `Invariance` (`Spec => []IInv`) and, from it,
  `TypeCorrect`, `UploadIsAgreed`, `SignedIsUploaded`, `SignedOnce`,
  `SignedIsReviewed`, `AddressIsAsked`, `KeysAreOwn`, `QuestionIsCommand`.

The safety properties are not inductive: a signature is a good one because of
what was true while the review was open, and that because of what was true of
the upload before. `IInv` carries this back. `LinkInUse` ties `link`
to the command the host waits for. `UploadAgreed` relates `acked` to
`tx_initialized`, `hdPath` and the buffer during an upload. `QuestionFitsCommand`
says the same of an open review, with `AskedToSign` and `AskedForAddress`:
which callbacks are registered, that `tx_obj` is still the parse of the buffer
that `app_sign` will read, that the path is ours, that what was seen is what
is there. `AnswersRight` states the properties of the answer. The proof has a
lemma per action that says which of these it must establish anew. The bound
of the flash array by the `uint16` range is used where a length is narrowed:
`uint16(Len(message)) = Len(message)`.

- `SignService_proofs`: `AppImplementsService`, the refinement of `SignService`
  by `SovereignApp`, from `Invariance`: every handler, button and fault of the
  environment is a step of the service or leaves upload, question and key use
  alone. The invariant is needed where a step reads what an earlier one left:
  `Approve` answers what was asked because the path and the buffer are still
  those of the question. And `AppKeepsLog`: the application does nothing to its
  buffer that `TxSpec` does not allow, so `BufferImplementsLog` holds inside it.
- `Exchange_proofs`: `AppKeepsProtocol`, the refinement of `Exchange` by
  `SovereignApp`, from `Invariance`, with what one answer, one refusal and one
  opened review look like from the protocol as lemmas (`AnswerSeen`,
  `RefusalSeen`, `ReviewSeen`). A handler needs of the invariant that the buffer
  holds the command the host waits for, and a button that a review is open when
  there is one to press.
- `CryptoKeys_proofs`: `KeysTypeCorrect`, `KeysAreWiped`, `AnswersAreWhole`,
  `FailuresLeaveNothing` and `LengthsAreOwn`, for all sizes and address lengths
  that meet `KeyAssumption`. Their inductive invariant `KeysInv` adds
  `CallUnderWay` (which calls belong to which caller; while an address is being
  made its length is still the zero it was reset to; the error stays
  `zxerr_unknown` up to the last call) and `ErrorTells` (what is in the buffer
  when the error is cleared). Without the first, an address could end with an
  old length; without the second, nothing connects `zxerr_ok` with what is sent.
  `KeysImplementService` is the refinement of `KeyService`: the calls in between
  stutter, and at the answer `KeysInv` says that it is whole or nothing.
- `ReviewItems_proofs`: `ReviewTypeCorrect`, `WalkNeverFails`,
  `ItemsAreBelowCount`, `ReviewsAreComplete` and `WalksAdvance`, for messages of
  every length and screens and counters of any size. Of address and path
  `AddressAssumption` says that their pages can be counted: an address has fewer
  than `ADDRESS_MAX_LENGTH` = 66 characters and a path of three words at most 35,
  so two pages each at the screen's 39. Of messages nothing is assumed: one
  with too many pages is shown in part, and `ReviewsAreComplete` says so.
  `WalkInv` says that the walk is on an item that exists; `ReadInv` that what was
  read is all items before it and all pages before this one, which takes what
  one more page adds (`Division`, `Monotone`).
- `ApduBytes_proofs`: `BytesTypeCorrect`, `AnswersAreOwn`, `OnlyReceivedTaken`,
  `AddressesTerminated` and `StatusWordsTell`, for any buffer that holds the
  largest answer, commands of any length up to the buffer's, any exceptions of 16
  bits except 0, which is none, and `0x9000`, with which the handlers themselves
  say `OK` (`BytesAssumption`), and `UINT32_RANGE` beyond the buffer's size.
  `StatusWordsTell` says what folding 16 bits to eleven does: `SameWord` is the
  lemma that two exceptions get one status word exactly if they are `Alike`. So
  the old exceptions of the SDK, all below `0x800`, are told from one another,
  while `0x1001` and `0x1801` are not, and `0x600` arrives as `CLA_NOT_SUPPORTED`.
  `BInv` adds what each stage finds in the buffer: a command its own bytes
  (`CommandReceived`), a review its address (`AddressInPlace`), an answer a
  status word made from what was thrown (`StatusOfThrown`). `BytesKeepProtocol`
  is the refinement of `Exchange`, IO resets included: whatever is thrown, only
  `OK` is seen as one (`OnlyOkIsOk`: folded words stay in a range where `0x9000`
  is not), and the bytes of the header tell requests apart as the symbolic ones
  do (`RequestIs`).
- `Sr25519_proofs`: `SrTypeCorrect`, `WitnessesUsedOnce` and `SignaturesVerify`,
  for any callers, keys, contexts, messages and random values. `SrInv` says that
  between the phases a caller's witness is drawn from its own transcript, that a
  finished signature answers the challenge of what phase 2 was called for
  (`OwnResponse`), and that where this is what phase 1 was called for the
  challenge is the one its witness fixes (`ResponsesOK`).

Model-checked only: `CommandAnswered` and `WalkEnds`, since liveness is beyond
the prover. What can be proved of each is: `KeepsProtocol` says that a command
leads nowhere but to an answer or to a review, and a review nowhere but to an
answer, unless transport or application start over; `WalkAdvances` that a walk
never comes back to a screen. That the steps are taken is left to TLC.

## Not modelled, and the plan

Written, in this order: buffer and log, the application with its properties and
proofs, the abstract service, reviews, key uses, the bytes of commands and
answers, the sr25519 protocol, and proofs for each. A composition of `ReviewItems`
with the review of `SovereignApp`, in place of `Look`, was considered and left:
the two share only what `Look` hands over (nothing changes the buffers under an
open review, which is `QuestionFitsCommand`, and the walk over unchanged texts
shows all of them, which is `ReviewIsComplete`), and their product would
multiply the states without a new interleaving.

What remains has no behaviour of its own to model: tests, fuzzers and emulator
scripts exercise the code (the walk of the fuzzer is in `ReviewItems`), and the
build files run nothing on the device. `parser_impl.c` has a `_read` that reads
nothing yet, and texts; the headers of `common/` have constants and declarations.

Left out: glyphs and menus (`view` of the library), logging, stack canaries, the
`INS_TEST` command of `APP_TESTING` builds, build files, tests and fuzzers.
