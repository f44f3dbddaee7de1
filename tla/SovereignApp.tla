----------------------------- MODULE SovereignApp -----------------------------
(***************************************************************************)
(* The application between a host and a user: command handlers             *)
(* (apdu_handler.c), the actions behind the review buttons                 *)
(* (common/actions.h) and the transaction they work on (common/tx.c,       *)
(* parser.c), with the transport, the review screens and the PIN of the    *)
(* device around them, which the source only calls.                        *)
(*                                                                         *)
(* link says where one command stands:                                     *)
(*   ready    the host may send                                            *)
(*   command  a command is in G_io_apdu_buffer, not handled                *)
(*   review   handled with IO_ASYNCH_REPLY: the user is asked              *)
(*   replying an answer is in G_io_apdu_buffer, not heard by the host      *)
(***************************************************************************)
EXTENDS Apdu, TxBuffer

CONSTANT UINT16_RANGE     \* 2^16 in the build: the width of message lengths

ASSUME LengthAssumption ==
    UINT16_RANGE \in Nat \ {0} /\ FLASH_BUFFER_SIZE < UINT16_RANGE

VARIABLES
    \* application
    tx_initialized,         \* is an upload in progress?
    hdPath,                 \* path the next key is derived from
    tx_obj,                 \* the parsed transaction: where it is, how long
    action_addrResponseLen, \* bytes of the address answer being prepared
    io,                     \* G_io_apdu_buffer: a command, then its answer
    \* device and library
    link,
    reply,                  \* status word and body length handed to transport
    viewdata,               \* callbacks registered with the review screens
    pin_validated,
    \* host and user
    sent,                   \* the command the host awaits an answer to
    acked,                  \* the upload, as far as the host was told
    seen                    \* what the user looked at in this review

appVars  == <<tx_initialized, hdPath, tx_obj, action_addrResponseLen>>
linkVars == <<io, link, reply>>
hostVars == <<sent, acked>>
vars == <<txVars, appVars, linkVars, viewdata, pin_validated, hostVars, seen>>

-------------------------------------------------------------------------------
(* Values *)

NoCommand == [cla |-> FALSE, whole |-> FALSE, ins |-> "INS_OTHER",
              p1 |-> 0, payload |-> <<>>]
NoReply   == [sw |-> "OK", len |-> 0]
NoTx      == [ptr |-> "NULL", len |-> 0]
NoView    == [getItem |-> "none", accept |-> "none"]
NoUpload  == [state |-> "closed", path |-> <<>>, msg |-> <<>>]
Unknown   == [state |-> "lost", path |-> <<>>, msg |-> <<>>]

(***************************************************************************)
(* Application start: static storage is zero, an empty hdPath stands for   *)
(* the all-zero path.                                                      *)
(***************************************************************************)
AppStart ==
    /\ tx_initialized = FALSE
    /\ hdPath = <<>>
    /\ tx_obj = NoTx
    /\ action_addrResponseLen = 0
    /\ io = Nothing

Init ==
    /\ TxInit
    /\ AppStart
    /\ link = "ready"
    /\ reply = NoReply
    /\ viewdata = NoView
    /\ pin_validated = TRUE
    /\ sent = NoCommand
    /\ acked = NoUpload
    /\ seen = Nothing

-------------------------------------------------------------------------------
(* Answers *)

Respond(sw, len) ==
    /\ link' = "replying"
    /\ reply' = [sw |-> sw, len |-> len]

(***************************************************************************)
(* A THROW caught at the end of handleApdu with *tx = 0.                   *)
(***************************************************************************)
Throw(sw) == io' = Nothing /\ Respond(sw, 0)

(***************************************************************************)
(* view_review_init and view_review_show, with IO_ASYNCH_REPLY: the        *)
(* screens are open and the handler returns without an answer.             *)
(***************************************************************************)
Review(getItem, accept) ==
    /\ viewdata' = [getItem |-> getItem, accept |-> accept]
    /\ seen' = Nothing
    /\ link' = "review"
    /\ UNCHANGED reply

NoReview == UNCHANGED <<viewdata, seen>>

-------------------------------------------------------------------------------
(* handleApdu *)

(***************************************************************************)
(* A command for the handler of this instruction, past every check of      *)
(* handleApdu.                                                             *)
(***************************************************************************)
Dispatched(ins) ==
    /\ link = "command"
    /\ io.cla /\ io.whole
    /\ io.ins = ins
    /\ ins \in {"INS_GET_ADDR", "INS_SIGN"} => pin_validated

refuse ==
    /\ link = "command"
    /\ \/ ~io.cla /\ Throw("CLA_NOT_SUPPORTED")
       \/ io.cla /\ ~io.whole /\ Throw("WRONG_LENGTH")
       \/ /\ io.cla /\ io.whole /\ io.ins = "INS_OTHER"
          /\ Throw("INS_NOT_SUPPORTED")
       \/ /\ io.cla /\ io.whole /\ io.ins \in {"INS_GET_ADDR", "INS_SIGN"}
          /\ ~pin_validated
          /\ Throw("COMMAND_NOT_ALLOWED")
    /\ UNCHANGED <<txVars, appVars, viewdata, pin_validated, hostVars, seen>>

handle_getversion ==
    /\ Dispatched("INS_GET_VERSION")
    /\ io' = Version
    /\ Respond("OK", VERSION_LEN)
    /\ UNCHANGED <<txVars, appVars, viewdata, pin_validated, hostVars, seen>>

-------------------------------------------------------------------------------
(* extractHDPath: the upload is abandoned before the path is looked at, and *)
(* a path that is not ours is kept in hdPath although it is refused.        *)

AbandonUpload_forgotten == UNCHANGED tx_initialized
AbandonUpload == tx_initialized' = FALSE

RejectPath ==
    \/ /\ PathTooShort(io.payload)
       /\ UNCHANGED hdPath
       /\ Throw("WRONG_LENGTH")
    \/ /\ ~PathTooShort(io.payload)
       /\ hdPath' = PathOf(io.payload)
       /\ ~Mainnet(PathOf(io.payload))
       /\ Throw("DATA_INVALID")

AcceptPath_anyPath ==
    /\ ~PathTooShort(io.payload)
    /\ hdPath' = PathOf(io.payload)

AcceptPath ==
    /\ ~PathTooShort(io.payload)
    /\ hdPath' = PathOf(io.payload)
    /\ Mainnet(PathOf(io.payload))

-------------------------------------------------------------------------------
(* handleGetAddr *)

(***************************************************************************)
(* P1 is read before app_fill_address zeroes the buffer it is in.          *)
(***************************************************************************)
requireConfirmation_readLate == FALSE
requireConfirmation == io.p1 # 0

DerivationFails ==
    /\ action_addrResponseLen' = 0
    /\ Throw("EXECUTION_ERROR")
    /\ NoReview

AddressFilled ==
    /\ action_addrResponseLen' = ADDR_RESPONSE_LEN
    /\ io' = Address(hdPath')
    /\ \/ /\ requireConfirmation
          /\ Review("addr_getItem", "app_reply_address")
       \/ /\ ~requireConfirmation
          /\ Respond("OK", ADDR_RESPONSE_LEN)
          /\ NoReview

handleGetAddr ==
    /\ Dispatched("INS_GET_ADDR")
    /\ AbandonUpload
    /\ \/ RejectPath /\ NoReview /\ UNCHANGED action_addrResponseLen
       \/ AcceptPath /\ (DerivationFails \/ AddressFilled)
    /\ UNCHANGED <<txVars, tx_obj, pin_validated, hostVars>>

-------------------------------------------------------------------------------
(* handleSign *)

signInit ==
    /\ io.p1 = P1_INIT
    /\ tx_reset
    /\ \/ RejectPath /\ AbandonUpload
       \/ /\ AcceptPath
          /\ tx_initialized' = TRUE
          /\ Throw("OK")
    /\ NoReview
    /\ UNCHANGED <<tx_obj, action_addrResponseLen>>

signUninitialized ==
    /\ io.p1 \in {P1_ADD, P1_LAST}
    /\ ~tx_initialized
    /\ Throw("TX_NOT_INITIALIZED")
    /\ NoReview
    /\ UNCHANGED <<txVars, appVars>>

AllAdded == added(io.payload) = Len(io.payload)

UploadGoesOn_always == UNCHANGED tx_initialized
UploadGoesOn == tx_initialized' = AllAdded

signAdd ==
    /\ io.p1 = P1_ADD
    /\ tx_initialized
    /\ tx_append(io.payload)
    /\ UploadGoesOn
    /\ Throw(IF AllAdded THEN "OK" ELSE "OUTPUT_BUFFER_TOO_SMALL")
    /\ NoReview
    /\ UNCHANGED <<hdPath, tx_obj, action_addrResponseLen>>

(***************************************************************************)
(* A message length as parser_init_context and crypto_sign receive it.     *)
(***************************************************************************)
uint16(n) == n % UINT16_RANGE

(***************************************************************************)
(* parser_parse fails for an empty buffer and for no other, and what it    *)
(* keeps is a pointer into the buffer, not a copy.                         *)
(***************************************************************************)
ParsedTx_alwaysRam ==
    IF uint16(tx_get_buffer_length) = 0
    THEN NoTx
    ELSE [ptr |-> "ram_buffer", len |-> uint16(tx_get_buffer_length)]

ParsedTx ==
    IF uint16(tx_get_buffer_length) = 0
    THEN NoTx
    ELSE [ptr |-> IF in_flash THEN "N_appdata" ELSE "ram_buffer",
          len |-> uint16(tx_get_buffer_length)]

(***************************************************************************)
(* tx_parse clears tx_obj and parses; parser_validate finds the two items  *)
(* of any transaction that parsed.                                         *)
(***************************************************************************)
tx_parse == tx_obj' = ParsedTx'

ReviewTx ==
    \/ /\ tx_obj' = NoTx
       /\ io' = ErrorText
       /\ Respond("DATA_INVALID", ERROR_TEXT_LEN)
       /\ NoReview
    \/ /\ tx_obj' # NoTx
       /\ UNCHANGED io
       /\ Review("tx_getItem", "app_sign")

signLast ==
    /\ io.p1 = P1_LAST
    /\ tx_initialized
    /\ tx_append(io.payload)
    /\ AbandonUpload
    /\ \/ /\ AllAdded
          /\ tx_parse
          /\ ReviewTx
       \/ /\ ~AllAdded
          /\ Throw("OUTPUT_BUFFER_TOO_SMALL")
          /\ NoReview
          /\ UNCHANGED tx_obj
    /\ UNCHANGED <<hdPath, action_addrResponseLen>>

signBadP1 ==
    /\ io.p1 \notin {P1_INIT, P1_ADD, P1_LAST}
    /\ Throw("INVALIDP1P2")
    /\ NoReview
    /\ UNCHANGED <<txVars, appVars>>

handleSign ==
    /\ Dispatched("INS_SIGN")
    /\ signInit \/ signUninitialized \/ signAdd \/ signLast \/ signBadP1
    /\ UNCHANGED <<pin_validated, hostVars>>

handleApdu == refuse \/ handle_getversion \/ handleGetAddr \/ handleSign

-------------------------------------------------------------------------------
(* The user at the review screens *)

(***************************************************************************)
(* What the screens read at this moment, through the registered getItem:   *)
(* the memory tx_obj points into, or the address in G_io_apdu_buffer.      *)
(* Beyond the position of a memory there are no words of a message.        *)
(***************************************************************************)
TxMessage ==
    LET memory == IF tx_obj.ptr = "N_appdata" THEN N_appdata ELSE ram_buffer
    IN  SubSeq(memory, 1,
               IF tx_obj.len < Len(memory) THEN tx_obj.len ELSE Len(memory))

Shown ==
    IF viewdata.getItem = "tx_getItem" THEN Message(TxMessage) ELSE io

UserAt == viewdata # NoView /\ pin_validated

Look ==
    /\ UserAt
    /\ seen = Nothing
    /\ seen' = Shown
    /\ UNCHANGED <<txVars, appVars, linkVars, viewdata, pin_validated, hostVars>>

(***************************************************************************)
(* Both callbacks work on what is in the buffers when the button is        *)
(* pressed.  Key derivation and signing may fail.                          *)
(***************************************************************************)
SignedMessage == SubSeq(tx_get_buffer, 1, uint16(tx_get_buffer_length))

SigningFails_silently == io' = Nothing /\ UNCHANGED <<link, reply>>
SigningFails == Throw("SIGN_VERIFY_ERROR")

app_sign ==
    /\ viewdata.accept = "app_sign"
    /\ \/ /\ SignedMessage # <<>>
          /\ io' = Signature(hdPath, SignedMessage)
          /\ Respond("OK", SK_LEN_25519)
       \/ SigningFails

app_reply_address ==
    /\ viewdata.accept = "app_reply_address"
    /\ Respond("OK", action_addrResponseLen)
    /\ UNCHANGED io

Approve ==
    /\ UserAt
    /\ seen # Nothing
    /\ app_sign \/ app_reply_address
    /\ viewdata' = NoView
    /\ UNCHANGED <<txVars, appVars, pin_validated, hostVars, seen>>

(***************************************************************************)
(* The user refuses (app_reject), or an item cannot be drawn               *)
(* (app_reply_error).                                                      *)
(***************************************************************************)
Reject ==
    /\ UserAt
    /\ Throw("COMMAND_NOT_ALLOWED")
    /\ viewdata' = NoView
    /\ UNCHANGED <<txVars, appVars, pin_validated, hostVars, seen>>

ViewError ==
    /\ UserAt
    /\ Throw("DATA_INVALID")
    /\ viewdata' = NoView
    /\ UNCHANGED <<txVars, appVars, pin_validated, hostVars, seen>>

-------------------------------------------------------------------------------
(* Transport, device and host: outside the repository, modelled from what   *)
(* app_main and the callbacks need of them.                                 *)

(***************************************************************************)
(* The transport takes one command at a time: the next one is received     *)
(* only after the answer to the last one has been sent.                    *)
(***************************************************************************)
Receive(c) ==
    /\ link = "ready"
    /\ link' = "command"
    /\ io' = c
    /\ sent' = c
    /\ UNCHANGED <<txVars, appVars, reply, viewdata, pin_validated, acked, seen>>

Uploading(c, p1) == c.ins = "INS_SIGN" /\ c.p1 = p1

(***************************************************************************)
(* What the host concludes about its upload from an answer to command c.   *)
(* COMMAND_NOT_ALLOWED says either that the PIN was not validated or that  *)
(* the user refused: the host cannot tell, and believes what it believed.  *)
(***************************************************************************)
AfterAnswer(c, sw) ==
    IF \/ ~c.cla \/ ~c.whole
       \/ c.ins \notin {"INS_GET_ADDR", "INS_SIGN"}
       \/ sw \in {"COMMAND_NOT_ALLOWED", "INVALIDP1P2"}
    THEN acked
    ELSE IF sw = "OK" /\ Uploading(c, P1_INIT)
    THEN [state |-> "open", path |-> PathOf(c.payload), msg |-> <<>>]
    ELSE IF sw = "OK" /\ Uploading(c, P1_ADD)
    THEN IF acked.state = "open"
         THEN [acked EXCEPT !.msg = acked.msg \o c.payload] ELSE acked
    ELSE NoUpload

(***************************************************************************)
(* The host gets no answer.  Of an INIT or ADD it does not know whether    *)
(* it was carried out; the other commands can only end the upload, which   *)
(* the next LAST would report.                                             *)
(***************************************************************************)
AfterSilence(c) ==
    IF /\ link # "ready"
       /\ c.cla /\ c.whole
       /\ Uploading(c, P1_INIT) \/ Uploading(c, P1_ADD)
    THEN Unknown ELSE acked

Deliver ==
    /\ link = "replying"
    /\ link' = "ready"
    /\ acked' = AfterAnswer(sent, reply.sw)
    /\ reply' = NoReply
    /\ sent' = NoCommand
    /\ UNCHANGED <<txVars, appVars, io, viewdata, pin_validated, seen>>

LinkDown ==
    /\ link' = "ready"
    /\ reply' = NoReply
    /\ viewdata' = NoView
    /\ acked' = AfterSilence(sent)
    /\ sent' = NoCommand
    /\ seen' = Nothing

(***************************************************************************)
(* EXCEPTION_IO_RESET, which handleApdu rethrows: transport and screens    *)
(* start over, the static variables of the application stay as they are.   *)
(***************************************************************************)
IoReset ==
    /\ LinkDown
    /\ UNCHANGED <<txVars, appVars, io, pin_validated>>

(***************************************************************************)
(* The application is left and started again, or the device loses power.   *)
(***************************************************************************)
Restart ==
    /\ LinkDown
    /\ tx_reset
    /\ tx_initialized' = FALSE
    /\ hdPath' = <<>>
    /\ tx_obj' = NoTx
    /\ action_addrResponseLen' = 0
    /\ io' = Nothing
    /\ pin_validated' = TRUE

Lock ==
    /\ pin_validated
    /\ pin_validated' = FALSE
    /\ UNCHANGED <<txVars, appVars, linkVars, viewdata, hostVars, seen>>

Unlock ==
    /\ ~pin_validated
    /\ pin_validated' = TRUE
    /\ UNCHANGED <<txVars, appVars, linkVars, viewdata, hostVars, seen>>

Next ==
    \/ \E c \in Command : Receive(c)
    \/ handleApdu
    \/ Look \/ Approve \/ Reject \/ ViewError
    \/ Deliver
    \/ IoReset \/ Restart
    \/ Lock \/ Unlock

Spec == Init /\ [][Next]_vars

(***************************************************************************)
(* The event loop runs a handler to its end and sends what it answers; the *)
(* owner of the device enters the PIN sooner or later, and decides however *)
(* often the device locks itself over an open review.                      *)
(***************************************************************************)
Fairness ==
    /\ WF_vars(handleApdu)
    /\ WF_vars(Deliver)
    /\ WF_vars(Unlock)
    /\ SF_vars(Approve \/ Reject)

FairSpec == Spec /\ Fairness
===============================================================================
