-------------------------- MODULE SovereignApp_proofs --------------------------
(***************************************************************************)
(* The safety properties of SovereignApp, for every set of words, payloads *)
(* and commands and every buffer size, by one inductive invariant.         *)
(***************************************************************************)
EXTENDS SovereignProperties, TxBuffer_proofs

-------------------------------------------------------------------------------
(* Commands, paths, bodies and lengths *)

(***************************************************************************)
(* A command the host may send carries a payload of words.                 *)
(***************************************************************************)
LEMMA CommandPayload ==
    ASSUME NEW c \in Command
    PROVE  c \in CommandType /\ c.payload \in Payload /\ c.payload \in Seq(Word)
  BY ApduAssumption, PayloadAssumption DEF CommandType

(***************************************************************************)
(* The path taken from a payload that is long enough is made of words      *)
(* (apdu_handler.c:38-42).                                                 *)
(***************************************************************************)
LEMMA PathOfType ==
    ASSUME NEW payload \in Seq(Word), ~PathTooShort(payload)
    PROVE  PathOf(payload) \in Seq(Word)
  <1>1. 3 <= Len(payload) /\ Len(payload) \in Nat
    BY DEF PathTooShort, HDPATH_LEN_DEFAULT
  <1>2. \A i \in 1..3 : payload[i] \in Word
    BY <1>1
  <1> QED
    BY <1>2, SubSeqProperties DEF PathOf, HDPATH_LEN_DEFAULT

(***************************************************************************)
(* The bodies of answers have the type of answers.                         *)
(***************************************************************************)
LEMMA BodyTypes ==
    /\ {Nothing, Version, ErrorText} \subseteq BodyType
    /\ \A p \in Seq(Word) : Address(p) \in BodyType
    /\ \A m \in Seq(Word) : Message(m) \in BodyType
    /\ \A p, m \in Seq(Word) : Signature(p, m) \in BodyType
  BY EmptyMessage DEF Nothing, Version, ErrorText, Address, Message,
     Signature, Body, BodyType

(***************************************************************************)
(* A length the buffer can have survives the conversion to uint16 of       *)
(* parser_parse and app_sign (tx.c:65, actions.h:45).                      *)
(***************************************************************************)
LEMMA LengthFits ==
    ASSUME TxTypeOK
    PROVE  uint16(tx_get_buffer_length) = tx_get_buffer_length
  <1>1. /\ tx_get_buffer_length \in Nat
        /\ UINT16_RANGE \in Nat
        /\ tx_get_buffer_length < UINT16_RANGE
    BY BufferBounded, BufferAssumption, LengthAssumption
  <1> QED
    BY <1>1 DEF uint16

(***************************************************************************)
(* What app_sign signs is the whole buffer (actions.h:44-47), and so is    *)
(* what the screens show when tx_obj points to it (parser.c:46-47, 112).   *)
(***************************************************************************)
LEMMA WholeBuffer ==
    ASSUME TxTypeOK
    PROVE  /\ SignedMessage = tx_get_buffer
           /\ tx_obj = ParsedTx /\ tx_get_buffer # <<>> => TxMessage = tx_get_buffer
  <1>1. SignedMessage = tx_get_buffer
    BY BufferBounded, LengthFits, SubSeqFull DEF SignedMessage, tx_get_buffer_length
  <1>2. ASSUME tx_obj = ParsedTx, tx_get_buffer # <<>>
        PROVE  TxMessage = tx_get_buffer
    <2>1. tx_get_buffer_length # 0
      BY <1>2, BufferBounded, EmptySeq DEF tx_get_buffer_length
    <2>2. tx_obj = [ptr |-> IF in_flash THEN "N_appdata" ELSE "ram_buffer",
                    len |-> tx_get_buffer_length]
      BY <1>2, <2>1, LengthFits DEF ParsedTx
    <2>3. tx_obj.len = Len(tx_get_buffer) /\ Len(tx_get_buffer) \in Nat
      BY <2>2, BufferBounded DEF tx_get_buffer_length
    <2>4. TxMessage = SubSeq(tx_get_buffer, 1, Len(tx_get_buffer))
      <3>1. CASE in_flash
        BY <2>2, <2>3, <3>1 DEF TxMessage, tx_get_buffer
      <3>2. CASE ~in_flash
        BY <2>2, <2>3, <3>2 DEF TxMessage, tx_get_buffer
      <3> QED
        BY <3>1, <3>2
    <2> QED
      BY <2>4, BufferBounded, SubSeqFull DEF tx_get_buffer_length
  <1> QED
    BY <1>1, <1>2

(***************************************************************************)
(* The transaction tx_parse keeps has the type of tx_obj (tx.c:62-81).     *)
(***************************************************************************)
LEMMA ParsedTxType ==
    TxTypeOK => ParsedTx \in [ptr : {"NULL", "ram_buffer", "N_appdata"}, len : Nat]
  BY LengthFits, BufferBounded DEF ParsedTx, NoTx

(***************************************************************************)
(* tx_parse reports an error for the empty buffer and for no other         *)
(* (parser.c:29-42).                                                       *)
(***************************************************************************)
LEMMA ParsedTxEmpty ==
    TxTypeOK => (ParsedTx = NoTx <=> tx_get_buffer = <<>>)
  <1> SUFFICES ASSUME TxTypeOK PROVE ParsedTx = NoTx <=> tx_get_buffer = <<>>
    OBVIOUS
  <1>1. tx_get_buffer_length = 0 <=> tx_get_buffer = <<>>
    BY BufferBounded, EmptySeq DEF tx_get_buffer_length
  <1> QED
    BY <1>1, LengthFits DEF ParsedTx, NoTx

(***************************************************************************)
(* tx_append reports the whole chunk exactly when it stored it             *)
(* (apdu_handler.c:70, 81).                                                *)
(***************************************************************************)
LEMMA AllAddedAppends ==
    ASSUME TxTypeOK, io.payload \in Payload, tx_append(io.payload), AllAdded
    PROVE  tx_get_buffer' = tx_get_buffer \o io.payload
  <1>1. Len(io.payload) \in Nat
    BY PayloadAssumption
  <1>2. Fits(tx_get_buffer, io.payload, FLASH_BUFFER_SIZE)
    BY <1>1, BufferBounded, BufferAssumption
       DEF AllAdded, added, Fits, tx_get_buffer_length
  <1> QED
    BY <1>2, AppendResult

-------------------------------------------------------------------------------
(* What the steps have in common *)

(***************************************************************************)
(* A step that leaves the buffer alone leaves everything read from it as   *)
(* it was.                                                                 *)
(***************************************************************************)
LEMMA BufferUnchanged ==
    ASSUME TxTypeOK, UNCHANGED txVars
    PROVE  TxTypeOK' /\ tx_get_buffer' = tx_get_buffer /\ ParsedTx' = ParsedTx
  BY DEF txVars, TxTypeOK, tx_get_buffer, ParsedTx, tx_get_buffer_length

(***************************************************************************)
(* Only an address or a signature on its way has to be accounted for.      *)
(***************************************************************************)
LEMMA NoKeyUse ==
    ASSUME \/ link' # "replying"
           \/ io' \in {Nothing, Version, ErrorText}
    PROVE  AnswersRight'
  BY DEF AnswersRight, SignedAsUploaded, OneSignaturePerUpload,
     ReviewedIsSigned, AddressAsAsked, KeyUseStaysInApp, Answering, Nothing,
     Version, ErrorText, Body

(***************************************************************************)
(* What the host concludes has the type of acked.                          *)
(***************************************************************************)
LEMMA AfterAnswerType ==
    ASSUME acked \in UploadType, NEW c \in Command, NEW sw \in StatusWord,
           sw = "OK" /\ Uploading(c, P1_INIT) => ~PathTooShort(c.payload)
    PROVE  AfterAnswer(c, sw) \in UploadType
  <1>1. c.payload \in Seq(Word)
    BY CommandPayload
  <1>2. CASE sw = "OK" /\ Uploading(c, P1_INIT)
    BY <1>1, <1>2, PathOfType, EmptyMessage DEF AfterAnswer, UploadType
  <1>3. CASE acked.state = "open"
    BY <1>1, <1>2, <1>3, EmptyMessage, ConcatProperties
       DEF AfterAnswer, UploadType, NoUpload
  <1> QED
    BY <1>2, <1>3, EmptyMessage DEF AfterAnswer, UploadType, NoUpload

(***************************************************************************)
(* While no upload is in progress there is nothing to disagree about.      *)
(***************************************************************************)
LEMMA AgreedWhenClosed ==
    ASSUME tx_initialized' = FALSE, (HostView \in UploadType)'
    PROVE  UploadAgreed' /\ (tx_initialized' => Mainnet(hdPath'))
  BY DEF UploadAgreed, Agrees

(***************************************************************************)
(* The invariant while a command waits: no screens are open, and the       *)
(* buffer of the exchange holds what the host sent.                        *)
(***************************************************************************)
LEMMA WaitingCommand ==
    ASSUME IInv, link = "command"
    PROVE  /\ io = sent /\ sent \in Command /\ io \in CommandType
           /\ io.payload \in Payload /\ io.payload \in Seq(Word)
           /\ viewdata = NoView
           /\ Agrees(acked)
  BY CommandPayload DEF IInv, LinkInUse, UploadAgreed, HostView

(***************************************************************************)
(* Some answers say nothing about the upload.                              *)
(***************************************************************************)
LEMMA HostUnmoved ==
    ASSUME link' = "replying", UNCHANGED hostVars,
           \/ ~sent.cla \/ ~sent.whole
           \/ sent.ins \notin {"INS_GET_ADDR", "INS_SIGN"}
           \/ reply'.sw \in {"COMMAND_NOT_ALLOWED", "INVALIDP1P2"}
    PROVE  HostView' = acked
  BY DEF HostView, AfterAnswer, hostVars

(***************************************************************************)
(* An answer keeps the invariant if it ends the review, leaves the host    *)
(* alone and is right.                                                     *)
(***************************************************************************)
LEMMA AnswerGiven ==
    ASSUME IInv, link # "ready", link' = "replying", viewdata' = NoView,
           UNCHANGED <<pin_validated, hostVars, seen>>,
           TxTypeOK', AppTypeOK', io' \in BodyType,
           reply' \in [sw : StatusWord, len : Nat],
           UploadAgreed', tx_initialized' => Mainnet(hdPath'), AnswersRight'
    PROVE  IInv'
  <1>1. UserTypeOK'
    BY DEF IInv, TypeOK, UserTypeOK, NoView
  <1>2. TypeOK'
    BY <1>1 DEF IInv, TypeOK, LinkTypeOK, HostTypeOK, hostVars
  <1>3. LinkInUse'
    BY DEF IInv, LinkInUse, hostVars
  <1>4. QuestionFitsCommand'
    BY DEF QuestionFitsCommand
  <1> QED
    BY <1>2, <1>3, <1>4 DEF IInv

(***************************************************************************)
(* The same for a handler, which finds no review open.                     *)
(***************************************************************************)
LEMMA HandlerAnswers ==
    ASSUME IInv, link = "command", link' = "replying",
           UNCHANGED <<viewdata, pin_validated, hostVars, seen>>,
           TxTypeOK', AppTypeOK', io' \in BodyType,
           reply' \in [sw : StatusWord, len : Nat],
           UploadAgreed', tx_initialized' => Mainnet(hdPath'), AnswersRight'
    PROVE  IInv'
  BY WaitingCommand, AnswerGiven

(***************************************************************************)
(* A handler that opens a review keeps the invariant if the upload is over *)
(* and the question is the one of the command.                             *)
(***************************************************************************)
LEMMA HandlerAsks ==
    ASSUME IInv, link = "command", link' = "review",
           UNCHANGED <<reply, pin_validated, hostVars>>,
           TxTypeOK', AppTypeOK', io' \in CommandType \cup BodyType,
           seen' = Nothing, tx_initialized' = FALSE,
           sent.cla, sent.whole, AskedToSign' \/ AskedForAddress'
    PROVE  IInv'
  <1>1. viewdata' \in [getItem : {"none", "tx_getItem", "addr_getItem"},
                       accept : {"none", "app_sign", "app_reply_address"}]
    <2>1. \/ viewdata' = [getItem |-> "tx_getItem", accept |-> "app_sign"]
          \/ viewdata' = [getItem |-> "addr_getItem", accept |-> "app_reply_address"]
      BY Zenon DEF AskedToSign, AskedForAddress
    <2> QED
      BY <2>1
  <1>2. TypeOK'
    BY <1>1, BodyTypes
       DEF IInv, TypeOK, LinkTypeOK, UserTypeOK, HostTypeOK, hostVars
  <1>3. LinkInUse'
    BY DEF IInv, LinkInUse, hostVars
  <1>4. QuestionFitsCommand'
    BY DEF QuestionFitsCommand, hostVars
  <1>5. (HostView \in UploadType)'
    BY <1>2 DEF HostView, TypeOK, HostTypeOK
  <1> QED
    BY <1>2, <1>3, <1>4, <1>5, AgreedWhenClosed, NoKeyUse DEF IInv

(***************************************************************************)
(* The host concludes something well formed from any answer.               *)
(***************************************************************************)
LEMMA HostViewType ==
    ASSUME IInv, link # "ready", link' = "replying", UNCHANGED hostVars,
           reply' \in [sw : StatusWord, len : Nat],
           reply'.sw = "OK" /\ Uploading(sent, P1_INIT)
               => ~PathTooShort(sent.payload)
    PROVE  (HostView \in UploadType)'
  <1>1. acked \in UploadType /\ sent \in Command /\ reply'.sw \in StatusWord
    BY DEF IInv, TypeOK, HostTypeOK, LinkInUse
  <1>2. AfterAnswer(sent, reply'.sw) \in UploadType
    BY <1>1, AfterAnswerType
  <1> QED
    BY <1>2 DEF HostView, AfterAnswer, hostVars

-------------------------------------------------------------------------------
(* The steps of handleApdu *)

(***************************************************************************)
(* A command refused before it reaches a handler (apdu_handler.c:167-201). *)
(***************************************************************************)
LEMMA RefuseStep == IInv /\ refuse => IInv'
  <1> SUFFICES ASSUME IInv, refuse PROVE IInv'
    OBVIOUS
  <1>1. link = "command" /\ TxTypeOK /\ AppTypeOK /\ acked \in UploadType
    BY DEF refuse, IInv, TypeOK, HostTypeOK
  <1>2. /\ link' = "replying" /\ io' = Nothing
        /\ reply' \in [sw : StatusWord, len : Nat]
        /\ UNCHANGED <<txVars, appVars, viewdata, pin_validated, hostVars, seen>>
    BY DEF refuse, Throw, Respond, StatusWord
  <1>3. HostView' = acked
    <2>1. \/ ~io.cla \/ ~io.whole \/ io.ins = "INS_OTHER"
          \/ reply'.sw = "COMMAND_NOT_ALLOWED"
      BY DEF refuse, Throw, Respond
    <2> QED
      BY <1>1, <1>2, <2>1, WaitingCommand, HostUnmoved
  <1>4. UploadAgreed' /\ (tx_initialized' => Mainnet(hdPath'))
    BY <1>1, <1>2, <1>3, WaitingCommand, BufferUnchanged
       DEF UploadAgreed, Agrees, appVars, IInv
  <1>5. AppTypeOK'
    BY <1>1, <1>2 DEF AppTypeOK, appVars
  <1> QED
    BY <1>1, <1>2, <1>4, <1>5, BufferUnchanged, NoKeyUse, BodyTypes,
       HandlerAnswers

(***************************************************************************)
(* GET_VERSION (apdu_handler.c:131-156).                                   *)
(***************************************************************************)
LEMMA VersionStep == IInv /\ handle_getversion => IInv'
  <1> SUFFICES ASSUME IInv, handle_getversion PROVE IInv'
    OBVIOUS
  <1>1. link = "command" /\ TxTypeOK /\ AppTypeOK /\ acked \in UploadType
    BY DEF handle_getversion, Dispatched, IInv, TypeOK, HostTypeOK
  <1>2. /\ link' = "replying" /\ io' = Version
        /\ reply' \in [sw : StatusWord, len : Nat]
        /\ UNCHANGED <<txVars, appVars, viewdata, pin_validated, hostVars, seen>>
    BY DEF handle_getversion, Respond, StatusWord, VERSION_LEN
  <1>3. HostView' = acked
    BY <1>1, <1>2, WaitingCommand, HostUnmoved DEF handle_getversion, Dispatched
  <1>4. UploadAgreed' /\ (tx_initialized' => Mainnet(hdPath'))
    BY <1>1, <1>2, <1>3, WaitingCommand, BufferUnchanged
       DEF UploadAgreed, Agrees, appVars, IInv
  <1>5. AppTypeOK'
    BY <1>1, <1>2 DEF AppTypeOK, appVars
  <1> QED
    BY <1>1, <1>2, <1>4, <1>5, BufferUnchanged, NoKeyUse, BodyTypes,
       HandlerAnswers

(***************************************************************************)
(* extractHDPath, whichever way it ends, leaves a path of words in hdPath  *)
(* (apdu_handler.c:35-49).                                                 *)
(***************************************************************************)
LEMMA PathKept ==
    ASSUME hdPath \in Seq(Word), io.payload \in Seq(Word), RejectPath \/ AcceptPath
    PROVE  hdPath' \in Seq(Word)
  BY PathOfType DEF RejectPath, AcceptPath

(***************************************************************************)
(* GET_ADDR: refused, failed, answered, or put to the user                 *)
(* (apdu_handler.c:92-109, actions.h:29-41).                               *)
(***************************************************************************)
LEMMA AddressStep == IInv /\ handleGetAddr => IInv'
  <1> SUFFICES ASSUME IInv, handleGetAddr PROVE IInv'
    OBVIOUS
  <1>1. /\ link = "command" /\ io.cla /\ io.whole /\ io.ins = "INS_GET_ADDR"
        /\ tx_initialized' = FALSE
        /\ UNCHANGED <<txVars, tx_obj, pin_validated, hostVars>>
    BY DEF handleGetAddr, Dispatched, AbandonUpload
  <1>2. /\ io = sent /\ sent \in Command /\ io.payload \in Seq(Word)
        /\ viewdata = NoView
    BY <1>1, WaitingCommand
  <1>3. TxTypeOK /\ AppTypeOK /\ TxTypeOK'
    BY <1>1, BufferUnchanged DEF IInv, TypeOK
  <1>4. hdPath' \in Seq(Word)
    BY <1>2, <1>3, PathKept DEF handleGetAddr, AppTypeOK
  <1>5. action_addrResponseLen' \in {0, ADDR_RESPONSE_LEN}
    BY <1>3 DEF handleGetAddr, AppTypeOK, DerivationFails, AddressFilled
  <1>6. AppTypeOK'
    BY <1>1, <1>3, <1>4, <1>5 DEF AppTypeOK
  <1>7. ASSUME link' = "replying", reply' \in [sw : StatusWord, len : Nat]
        PROVE  UploadAgreed' /\ (tx_initialized' => Mainnet(hdPath'))
    BY <1>1, <1>2, <1>7, HostViewType, AgreedWhenClosed DEF Uploading
  <1>8. CASE \/ RejectPath /\ NoReview
             \/ DerivationFails
    <2>1. /\ link' = "replying" /\ io' = Nothing
          /\ reply' \in [sw : StatusWord, len : Nat]
          /\ UNCHANGED <<viewdata, seen>>
      BY <1>8 DEF RejectPath, DerivationFails, NoReview, Throw, Respond, StatusWord
    <2> QED
      BY <1>1, <1>3, <1>6, <1>7, <2>1, NoKeyUse, BodyTypes, HandlerAnswers
  <1>9. CASE AcceptPath /\ AddressFilled
    <2>1. /\ hdPath' = PathOf(sent.payload) /\ Mainnet(hdPath')
          /\ io' = Address(hdPath') /\ io' \in BodyType
          /\ action_addrResponseLen' = ADDR_RESPONSE_LEN
      BY <1>2, <1>4, <1>9, BodyTypes DEF AcceptPath, AddressFilled
    <2>2. CASE requireConfirmation
      <3>1. /\ link' = "review" /\ UNCHANGED reply /\ seen' = Nothing
            /\ viewdata' = [getItem |-> "addr_getItem",
                            accept |-> "app_reply_address"]
        BY <1>9, <2>2 DEF AddressFilled, Review
      <3>2. AskedForAddress'
        BY <1>1, <1>2, <2>1, <3>1 DEF AskedForAddress, hostVars, Address, Body
      <3> QED
        BY <1>1, <1>2, <1>3, <1>6, <2>1, <3>1, <3>2, HandlerAsks
    <2>3. CASE ~requireConfirmation
      <3>1. /\ link' = "replying" /\ UNCHANGED <<viewdata, seen>>
            /\ reply' = [sw |-> "OK", len |-> ADDR_RESPONSE_LEN]
            /\ sent.p1 = 0
        BY <1>2, <1>9, <2>3
           DEF AddressFilled, Respond, NoReview, requireConfirmation
      <3>2. reply' \in [sw : StatusWord, len : Nat]
        BY <3>1, ApduAssumption DEF StatusWord
      <3>3. AnswersRight'
        BY <1>1, <1>2, <2>1, <3>1
           DEF AnswersRight, Answering, SignedAsUploaded, OneSignaturePerUpload,
               ReviewedIsSigned, AddressAsAsked, KeyUseStaysInApp, hostVars,
               Address, Body
      <3> QED
        BY <1>1, <1>3, <1>6, <1>7, <2>1, <3>1, <3>2, <3>3, HandlerAnswers
    <2> QED
      BY <2>2, <2>3
  <1> QED
    BY <1>8, <1>9 DEF handleGetAddr

(***************************************************************************)
(* INIT: the buffer is emptied, and an upload is opened if the path is     *)
(* accepted (apdu_handler.c:59-64).                                        *)
(***************************************************************************)
LEMMA SignInitStep ==
    ASSUME IInv, Dispatched("INS_SIGN"), signInit,
           UNCHANGED <<pin_validated, hostVars>>
    PROVE  IInv'
  <1>1. /\ link = "command" /\ io.cla /\ io.whole /\ io.ins = "INS_SIGN"
        /\ io = sent /\ sent \in Command /\ io.payload \in Seq(Word)
        /\ Uploading(sent, P1_INIT)
    BY WaitingCommand DEF Dispatched, signInit, Uploading
  <1>2. /\ TxTypeOK' /\ tx_get_buffer' = <<>>
        /\ UNCHANGED <<tx_obj, action_addrResponseLen, viewdata, seen>>
    BY ResetEmpties DEF signInit, NoReview
  <1>3. /\ link' = "replying" /\ io' = Nothing
        /\ reply' \in [sw : StatusWord, len : Nat]
    BY DEF signInit, RejectPath, Throw, Respond, StatusWord
  <1>4. hdPath' \in Seq(Word)
    BY <1>1, PathKept DEF signInit, IInv, TypeOK, AppTypeOK
  <1>5. AppTypeOK'
    BY <1>2, <1>4 DEF signInit, AbandonUpload, IInv, TypeOK, AppTypeOK
  <1>6. CASE RejectPath /\ AbandonUpload
    <2>1. (HostView \in UploadType)'
      <3>1. reply'.sw # "OK"
        BY <1>6 DEF RejectPath, Throw, Respond
      <3> QED
        BY <1>1, <1>3, <3>1, HostViewType
    <2> QED
      BY <1>1, <1>2, <1>3, <1>5, <1>6, <2>1, AgreedWhenClosed, NoKeyUse,
         BodyTypes, HandlerAnswers DEF AbandonUpload
  <1>7. CASE AcceptPath /\ tx_initialized' = TRUE /\ Throw("OK")
    <2>1. /\ hdPath' = PathOf(sent.payload) /\ Mainnet(hdPath')
          /\ ~PathTooShort(sent.payload) /\ reply'.sw = "OK"
      BY <1>1, <1>7 DEF AcceptPath, Throw, Respond
    <2>2. (HostView \in UploadType)'
      BY <1>1, <1>3, <2>1, HostViewType
    <2>3. HostView' = [state |-> "open", path |-> PathOf(sent.payload), msg |-> <<>>]
      BY <1>1, <1>3, <2>1 DEF HostView, AfterAnswer, Uploading, hostVars
    <2>4. UploadAgreed'
      BY <1>2, <2>1, <2>2, <2>3 DEF UploadAgreed, Agrees
    <2> QED
      BY <1>1, <1>2, <1>3, <1>5, <2>1, <2>4, NoKeyUse, BodyTypes, HandlerAnswers
  <1> QED
    BY <1>6, <1>7 DEF signInit

(***************************************************************************)
(* ADD and LAST without an upload in progress (apdu_handler.c:66-68,       *)
(* 76-78).                                                                 *)
(***************************************************************************)
LEMMA SignUninitializedStep ==
    ASSUME IInv, Dispatched("INS_SIGN"), signUninitialized,
           UNCHANGED <<pin_validated, hostVars>>
    PROVE  IInv'
  <1>1. link = "command" /\ TxTypeOK /\ AppTypeOK
    BY DEF Dispatched, IInv, TypeOK
  <1>2. /\ link' = "replying" /\ io' = Nothing /\ reply'.sw # "OK"
        /\ reply' \in [sw : StatusWord, len : Nat]
        /\ tx_initialized' = FALSE
        /\ UNCHANGED <<txVars, appVars, viewdata, seen>>
    BY <1>1 DEF signUninitialized, Throw, Respond, StatusWord, NoReview, appVars,
       AppTypeOK
  <1>3. UploadAgreed' /\ (tx_initialized' => Mainnet(hdPath'))
    BY <1>1, <1>2, HostViewType, AgreedWhenClosed
  <1>4. AppTypeOK'
    BY <1>1, <1>2 DEF AppTypeOK, appVars
  <1> QED
    BY <1>1, <1>2, <1>3, <1>4, BufferUnchanged, NoKeyUse, BodyTypes, HandlerAnswers

(***************************************************************************)
(* A P1 that names no step of an upload (apdu_handler.c:89).               *)
(***************************************************************************)
LEMMA SignBadP1Step ==
    ASSUME IInv, Dispatched("INS_SIGN"), signBadP1,
           UNCHANGED <<pin_validated, hostVars>>
    PROVE  IInv'
  <1>1. link = "command" /\ TxTypeOK /\ AppTypeOK /\ acked \in UploadType
    BY DEF Dispatched, IInv, TypeOK, HostTypeOK
  <1>2. /\ link' = "replying" /\ io' = Nothing /\ reply'.sw = "INVALIDP1P2"
        /\ reply' \in [sw : StatusWord, len : Nat]
        /\ UNCHANGED <<txVars, appVars, viewdata, seen>>
    BY DEF signBadP1, Throw, Respond, StatusWord, NoReview
  <1>3. HostView' = acked
    BY <1>2, HostUnmoved
  <1>4. UploadAgreed' /\ (tx_initialized' => Mainnet(hdPath'))
    BY <1>1, <1>2, <1>3, WaitingCommand, BufferUnchanged
       DEF UploadAgreed, Agrees, appVars, IInv
  <1>5. AppTypeOK'
    BY <1>1, <1>2 DEF AppTypeOK, appVars
  <1> QED
    BY <1>1, <1>2, <1>4, <1>5, BufferUnchanged, NoKeyUse, BodyTypes, HandlerAnswers

(***************************************************************************)
(* ADD: the chunk extends the upload on both sides, or ends it on both     *)
(* (apdu_handler.c:65-74).                                                 *)
(***************************************************************************)
LEMMA SignAddStep ==
    ASSUME IInv, Dispatched("INS_SIGN"), signAdd,
           UNCHANGED <<pin_validated, hostVars>>
    PROVE  IInv'
  <1>1. /\ link = "command" /\ io.cla /\ io.whole /\ io.ins = "INS_SIGN"
        /\ io = sent /\ sent \in Command /\ io.payload \in Payload
        /\ Uploading(sent, P1_ADD) /\ ~Uploading(sent, P1_INIT)
    BY WaitingCommand DEF Dispatched, signAdd, Uploading, P1_INIT, P1_ADD
  <1>2. /\ tx_initialized /\ tx_append(io.payload)
        /\ UNCHANGED <<hdPath, tx_obj, action_addrResponseLen, viewdata, seen>>
    BY DEF signAdd, NoReview
  <1>3. TxTypeOK /\ AppTypeOK /\ TxTypeOK'
    BY <1>1, <1>2, AppendType DEF IInv, TypeOK
  <1>4. /\ link' = "replying" /\ io' = Nothing
        /\ reply'.sw = IF AllAdded THEN "OK" ELSE "OUTPUT_BUFFER_TOO_SMALL"
        /\ reply' \in [sw : StatusWord, len : Nat]
    BY DEF signAdd, Throw, Respond, StatusWord
  <1>5. (HostView \in UploadType)'
    BY <1>1, <1>4, HostViewType
  <1>6. CASE AllAdded
    <2>1. tx_initialized' = TRUE
      BY <1>6 DEF signAdd, UploadGoesOn
    <2>2. tx_get_buffer' = tx_get_buffer \o sent.payload
      BY <1>1, <1>2, <1>3, <1>6, AllAddedAppends
    <2>3. acked.state \in {"open", "lost"}
      BY <1>1, <1>2, WaitingCommand DEF Agrees, IInv, TypeOK, HostTypeOK, UploadType
    <2>4. ASSUME acked.state = "open" PROVE UploadAgreed'
      <3>1. hdPath = acked.path /\ tx_get_buffer = acked.msg
        BY <1>1, <1>2, <2>4, WaitingCommand DEF Agrees
      <3>2. HostView' = [acked EXCEPT !.msg = acked.msg \o sent.payload]
        BY <1>1, <1>4, <1>6, <2>4
           DEF HostView, AfterAnswer, Uploading, hostVars
      <3>3. HostView'.path = hdPath' /\ HostView'.msg = tx_get_buffer'
        BY <1>2, <2>2, <3>1, <3>2 DEF IInv, TypeOK, HostTypeOK, UploadType
      <3>4. HostView'.state = "open"
        BY <2>4, <3>2 DEF IInv, TypeOK, HostTypeOK, UploadType
      <3> QED
        BY <1>5, <3>3, <3>4 DEF UploadAgreed, Agrees
    <2>5. ASSUME acked.state = "lost" PROVE UploadAgreed'
      <3>1. HostView' = acked
        BY <1>1, <1>4, <1>6, <2>5
           DEF HostView, AfterAnswer, Uploading, hostVars
      <3> QED
        BY <1>5, <2>5, <3>1 DEF UploadAgreed, Agrees
    <2>6. UploadAgreed' => IInv'
      <3>1. AppTypeOK' /\ Mainnet(hdPath')
        BY <1>2, <1>3, <2>1 DEF AppTypeOK, IInv
      <3> QED
        BY <1>1, <1>2, <1>3, <1>4, <3>1, NoKeyUse, BodyTypes, HandlerAnswers
    <2> QED
      <3>1. UploadAgreed'
        BY <2>3, <2>4, <2>5
      <3> QED
        BY <2>6, <3>1
  <1>7. CASE ~AllAdded
    <2>1. tx_initialized' = FALSE
      BY <1>7 DEF signAdd, UploadGoesOn
    <2>2. AppTypeOK'
      BY <1>2, <1>3, <2>1 DEF AppTypeOK
    <2> QED
      BY <1>1, <1>2, <1>3, <1>4, <1>5, <2>1, <2>2, AgreedWhenClosed, NoKeyUse,
         BodyTypes, HandlerAnswers
  <1> QED
    BY <1>6, <1>7

(***************************************************************************)
(* LAST: the upload is over; what was uploaded is put to the user, or      *)
(* refused for being too long or empty (apdu_handler.c:75-86, 117-128).    *)
(***************************************************************************)
LEMMA SignLastStep ==
    ASSUME IInv, Dispatched("INS_SIGN"), signLast,
           UNCHANGED <<pin_validated, hostVars>>
    PROVE  IInv'
  <1>1. /\ link = "command" /\ io.cla /\ io.whole /\ io.ins = "INS_SIGN"
        /\ io = sent /\ sent \in Command /\ io.payload \in Payload
        /\ io \in CommandType
        /\ Uploading(sent, P1_LAST) /\ ~Uploading(sent, P1_INIT)
    BY WaitingCommand DEF Dispatched, signLast, Uploading, P1_INIT, P1_LAST
  <1>2. /\ tx_initialized /\ tx_append(io.payload) /\ tx_initialized' = FALSE
        /\ UNCHANGED <<hdPath, action_addrResponseLen>>
    BY DEF signLast, AbandonUpload
  <1>3. TxTypeOK /\ AppTypeOK /\ TxTypeOK'
    BY <1>1, <1>2, AppendType DEF IInv, TypeOK
  <1>4. AppTypeOK'
    <2>1. ParsedTx' \in [ptr : {"NULL", "ram_buffer", "N_appdata"}, len : Nat]
      <3>1. (TxTypeOK => ParsedTx \in [ptr : {"NULL", "ram_buffer", "N_appdata"},
                                      len : Nat])'
        BY ParsedTxType, PTL
      <3> QED
        BY <1>3, <3>1
    <2>2. tx_obj' = tx_obj \/ tx_obj' = ParsedTx'
      BY DEF signLast, tx_parse
    <2> QED
      BY <1>2, <1>3, <2>1, <2>2 DEF AppTypeOK
  <1>5. ASSUME link' = "replying", io' \in {Nothing, ErrorText}, reply'.sw # "OK",
               reply' \in [sw : StatusWord, len : Nat], NoReview
        PROVE  IInv'
    <2>1. UploadAgreed' /\ (tx_initialized' => Mainnet(hdPath'))
      BY <1>1, <1>2, <1>5, HostViewType, AgreedWhenClosed
    <2> QED
      BY <1>1, <1>3, <1>4, <1>5, <2>1, NoKeyUse, BodyTypes, HandlerAnswers
         DEF NoReview
  <1>6. CASE Throw("OUTPUT_BUFFER_TOO_SMALL") /\ NoReview
    BY <1>5, <1>6 DEF Throw, Respond, StatusWord
  <1>7. CASE AllAdded /\ tx_obj' = ParsedTx' /\ ReviewTx
    <2>1. CASE /\ io' = ErrorText /\ Respond("DATA_INVALID", ERROR_TEXT_LEN)
               /\ NoReview
      BY <1>5, <2>1 DEF Respond, StatusWord, ERROR_TEXT_LEN
    <2>2. CASE tx_obj' # NoTx /\ UNCHANGED io /\ Review("tx_getItem", "app_sign")
      <3>1. tx_get_buffer' = tx_get_buffer \o sent.payload
        BY <1>1, <1>2, <1>3, <1>7, AllAddedAppends
      <3>2. tx_get_buffer' # <<>>
        <4>1. (TxTypeOK => (ParsedTx = NoTx <=> tx_get_buffer = <<>>))'
          BY ParsedTxEmpty, PTL
        <4> QED
          BY <1>3, <1>7, <2>2, <4>1
      <3>3. Mainnet(hdPath') /\ acked.state # "closed"
        BY <1>1, <1>2, WaitingCommand DEF Agrees, IInv
      <3>4. acked.state = "open" =>
              hdPath = acked.path /\ tx_get_buffer = acked.msg
        BY <1>1, <1>2, WaitingCommand DEF Agrees
      <3>5. /\ viewdata' = [getItem |-> "tx_getItem", accept |-> "app_sign"]
            /\ link' = "review" /\ seen' = Nothing /\ UNCHANGED reply
        BY <2>2 DEF Review
      <3>6. AskedToSign'
        BY <1>1, <1>2, <1>7, <3>1, <3>2, <3>3, <3>4, <3>5
           DEF AskedToSign, Uploading, hostVars
      <3> QED
        BY <1>1, <1>2, <1>3, <1>4, <2>2, <3>5, <3>6, HandlerAsks
    <2> QED
      BY <1>7, <2>1, <2>2 DEF ReviewTx
  <1> QED
    BY <1>6, <1>7 DEF signLast, tx_parse

(***************************************************************************)
(* Every way through handleApdu keeps the invariant                        *)
(* (apdu_handler.c:162-222).                                               *)
(***************************************************************************)
LEMMA HandlerStep == IInv /\ handleApdu => IInv'
  BY RefuseStep, VersionStep, AddressStep, SignInitStep, SignUninitializedStep,
     SignAddStep, SignLastStep, SignBadP1Step DEF handleApdu, handleSign

-------------------------------------------------------------------------------
(* The steps of the user *)

(***************************************************************************)
(* The invariant while the screens of a review are open.                   *)
(***************************************************************************)
LEMMA OpenReview ==
    ASSUME IInv, UserAt
    PROVE  /\ link = "review" /\ sent \in Command /\ sent.cla /\ sent.whole
           /\ tx_initialized = FALSE
           /\ TxTypeOK /\ AppTypeOK
           /\ AskedToSign \/ AskedForAddress
  BY DEF IInv, TypeOK, AppTypeOK, LinkInUse, QuestionFitsCommand, UserAt

(***************************************************************************)
(* The user looks at what the buffers hold at that moment (tx.c:95-115,    *)
(* addr.c:37-60).                                                          *)
(***************************************************************************)
LEMMA LookStep == IInv /\ Look => IInv'
  <1> SUFFICES ASSUME IInv, Look PROVE IInv'
    OBVIOUS
  <1>1. /\ UserAt /\ seen' = Shown
        /\ UNCHANGED <<txVars, appVars, linkVars, viewdata, pin_validated, hostVars>>
    BY DEF Look
  <1>2. /\ link = "review" /\ link' = "review" /\ TxTypeOK /\ TxTypeOK'
        /\ tx_initialized' = FALSE
        /\ tx_get_buffer' = tx_get_buffer /\ ParsedTx' = ParsedTx
    BY <1>1, OpenReview, BufferUnchanged DEF linkVars, appVars
  <1>3. AppTypeOK' /\ LinkTypeOK' /\ HostTypeOK' /\ LinkInUse'
    BY <1>1 DEF IInv, TypeOK, AppTypeOK, LinkTypeOK, HostTypeOK, LinkInUse,
       appVars, linkVars, hostVars
  <1>4. (HostView \in UploadType)'
    BY <1>2, <1>3 DEF HostView, HostTypeOK
  <1>5. ASSUME seen' \in BodyType, AskedToSign' \/ AskedForAddress' PROVE IInv'
    <2>1. TypeOK'
      BY <1>1, <1>2, <1>3, <1>5 DEF IInv, TypeOK, UserTypeOK
    <2>2. QuestionFitsCommand'
      BY <1>1, <1>2, <1>5, OpenReview DEF QuestionFitsCommand, hostVars
    <2> QED
      BY <1>2, <1>3, <1>4, <2>1, <2>2, AgreedWhenClosed, NoKeyUse DEF IInv
  <1>6. CASE AskedToSign
    <2>1. seen' = Message(tx_get_buffer)
      BY <1>1, <1>2, <1>6, WholeBuffer DEF AskedToSign, Shown
    <2>2. seen' \in BodyType
      BY <1>2, <2>1, BufferBounded, BodyTypes
    <2>3. AskedToSign'
      BY <1>1, <1>2, <1>6, <2>1 DEF AskedToSign, hostVars, appVars
    <2> QED
      BY <1>5, <2>2, <2>3
  <1>7. CASE AskedForAddress
    <2>1. seen' = io
      BY <1>1, <1>7 DEF AskedForAddress, Shown
    <2>2. io \in BodyType
      BY <1>7, BodyTypes DEF AskedForAddress, IInv, TypeOK, AppTypeOK
    <2>3. AskedForAddress'
      BY <1>1, <1>7, <2>1 DEF AskedForAddress, hostVars, appVars, linkVars
    <2> QED
      BY <1>5, <2>1, <2>2, <2>3
  <1> QED
    BY <1>1, <1>6, <1>7, OpenReview

(***************************************************************************)
(* An answer of the user's that uses no key (actions.h:58-62, 69-72).      *)
(***************************************************************************)
LEMMA RefusalStep == IInv /\ (Reject \/ ViewError) => IInv'
  <1> SUFFICES ASSUME IInv, Reject \/ ViewError PROVE IInv'
    OBVIOUS
  <1>1. /\ UserAt /\ viewdata' = NoView
        /\ UNCHANGED <<txVars, appVars, pin_validated, hostVars, seen>>
        /\ link' = "replying" /\ io' = Nothing /\ reply'.sw # "OK"
        /\ reply' \in [sw : StatusWord, len : Nat]
    BY DEF Reject, ViewError, Throw, Respond, StatusWord
  <1>2. UploadAgreed' /\ (tx_initialized' => Mainnet(hdPath'))
    BY <1>1, OpenReview, HostViewType, AgreedWhenClosed DEF appVars
  <1>3. TxTypeOK' /\ AppTypeOK'
    BY <1>1, OpenReview, BufferUnchanged DEF AppTypeOK, appVars
  <1> QED
    BY <1>1, <1>2, <1>3, OpenReview, NoKeyUse, BodyTypes, AnswerGiven

(***************************************************************************)
(* Approval: app_sign signs what was uploaded and seen, app_reply_address  *)
(* sends the address that was asked for and seen (actions.h:43-67).        *)
(***************************************************************************)
LEMMA ApproveStep == IInv /\ Approve => IInv'
  <1> SUFFICES ASSUME IInv, Approve PROVE IInv'
    OBVIOUS
  <1>1. /\ UserAt /\ seen # Nothing /\ viewdata' = NoView
        /\ UNCHANGED <<txVars, appVars, pin_validated, hostVars, seen>>
        /\ link' = "replying"
    BY DEF Approve, app_sign, SigningFails, Throw, app_reply_address, Respond
  <1>2. /\ link = "review" /\ sent \in Command /\ tx_initialized' = FALSE
        /\ TxTypeOK /\ AppTypeOK
    BY <1>1, OpenReview DEF appVars
  <1>3. TxTypeOK' /\ AppTypeOK'
    BY <1>1, <1>2, BufferUnchanged DEF AppTypeOK, appVars
  <1>4. ASSUME io' \in BodyType, reply' \in [sw : StatusWord, len : Nat],
               ~Uploading(sent, P1_INIT), AnswersRight'
        PROVE  IInv'
    <2>1. UploadAgreed' /\ (tx_initialized' => Mainnet(hdPath'))
      BY <1>1, <1>2, <1>4, HostViewType, AgreedWhenClosed
    <2> QED
      BY <1>1, <1>2, <1>3, <1>4, <2>1, AnswerGiven
  <1>5. CASE AskedToSign
    <2>1. ~Uploading(sent, P1_INIT) /\ app_sign
      BY <1>5 DEF AskedToSign, Approve, app_reply_address, Uploading, P1_INIT, P1_LAST
    <2>2. reply' \in [sw : StatusWord, len : Nat]
      BY <2>1 DEF app_sign, SigningFails, Throw, Respond,
         StatusWord, SK_LEN_25519
    <2>3. CASE io' = Nothing
      BY <1>4, <2>1, <2>2, <2>3, NoKeyUse, BodyTypes
    <2>4. CASE io' = Signature(hdPath, SignedMessage)
      <3>1. io' = Signature(hdPath, tx_get_buffer)
        BY <1>2, <2>4, WholeBuffer
      <3>2. io' \in BodyType
        BY <1>2, <3>1, BodyTypes, BufferBounded DEF AppTypeOK
      <3>3. AnswersRight'
        BY <1>1, <1>5, <3>1
           DEF AskedToSign, AnswersRight, Answering, SignedAsUploaded,
               OneSignaturePerUpload, ReviewedIsSigned, AddressAsAsked,
               KeyUseStaysInApp, hostVars, Signature, Message, Body
      <3> QED
        BY <1>4, <2>1, <2>2, <3>2, <3>3
    <2> QED
      BY <2>1, <2>3, <2>4 DEF app_sign, SigningFails, Throw
  <1>6. CASE AskedForAddress
    <2>1. ~Uploading(sent, P1_INIT) /\ app_reply_address
      BY <1>6 DEF AskedForAddress, Approve, app_sign, Uploading
    <2>2. reply' = [sw |-> "OK", len |-> ADDR_RESPONSE_LEN] /\ io' = io
      BY <1>6, <2>1 DEF AskedForAddress, app_reply_address, Respond
    <2>3. io' \in BodyType
      BY <1>1, <1>6, <2>2 DEF AskedForAddress, IInv, TypeOK, UserTypeOK
    <2>4. AnswersRight'
      BY <1>1, <1>6, <2>2
         DEF AskedForAddress, AnswersRight, Answering, SignedAsUploaded,
             OneSignaturePerUpload, ReviewedIsSigned, AddressAsAsked,
             KeyUseStaysInApp, hostVars, Address, Body
    <2> QED
      BY <1>4, <2>1, <2>2, <2>3, <2>4, ApduAssumption DEF StatusWord
  <1> QED
    BY <1>1, <1>5, <1>6, OpenReview

-------------------------------------------------------------------------------
(* The steps of host, transport and device *)

(***************************************************************************)
(* A command arrives: nothing but the exchange buffer changes.             *)
(***************************************************************************)
LEMMA ReceiveStep == \A c \in Command : IInv /\ Receive(c) => IInv'
  <1> SUFFICES ASSUME NEW c \in Command, IInv, Receive(c) PROVE IInv'
    OBVIOUS
  <1>1. /\ link = "ready" /\ link' = "command" /\ io' = c /\ sent' = c
        /\ UNCHANGED <<txVars, appVars, reply, viewdata, pin_validated, acked, seen>>
        /\ c \in CommandType /\ TxTypeOK
    BY CommandPayload DEF Receive, IInv, TypeOK
  <1>2. TypeOK'
    BY <1>1, BufferUnchanged DEF IInv, TypeOK, AppTypeOK, LinkTypeOK, UserTypeOK,
       HostTypeOK, appVars
  <1>3. LinkInUse'
    BY <1>1 DEF IInv, LinkInUse
  <1>4. UploadAgreed'
    BY <1>1, BufferUnchanged DEF IInv, UploadAgreed, HostView, Agrees, appVars
  <1>5. QuestionFitsCommand' /\ (tx_initialized' => Mainnet(hdPath'))
    BY <1>1 DEF QuestionFitsCommand, IInv, appVars
  <1> QED
    BY <1>1, <1>2, <1>3, <1>4, <1>5, NoKeyUse DEF IInv

(***************************************************************************)
(* The host hears the answer, and concludes what UploadAgreed foresaw.     *)
(***************************************************************************)
LEMMA DeliverStep == IInv /\ Deliver => IInv'
  <1> SUFFICES ASSUME IInv, Deliver PROVE IInv'
    OBVIOUS
  <1>1. /\ link = "replying" /\ link' = "ready" /\ acked' = HostView
        /\ reply' = NoReply /\ sent' = NoCommand
        /\ UNCHANGED <<txVars, appVars, io, viewdata, pin_validated, seen>>
        /\ TxTypeOK /\ acked' \in UploadType
    BY DEF Deliver, HostView, IInv, TypeOK, UploadAgreed
  <1>2. TypeOK'
    BY <1>1, BufferUnchanged DEF IInv, TypeOK, AppTypeOK, LinkTypeOK, UserTypeOK,
       HostTypeOK, appVars, NoReply, StatusWord
  <1>3. LinkInUse'
    BY <1>1 DEF IInv, LinkInUse
  <1>4. UploadAgreed'
    <2>1. HostView' = HostView
      BY <1>1 DEF HostView
    <2> QED
      BY <1>1, <2>1, BufferUnchanged DEF IInv, UploadAgreed, Agrees, appVars
  <1>5. QuestionFitsCommand' /\ (tx_initialized' => Mainnet(hdPath'))
    BY <1>1 DEF QuestionFitsCommand, IInv, appVars
  <1> QED
    BY <1>1, <1>2, <1>3, <1>4, <1>5, NoKeyUse DEF IInv

(***************************************************************************)
(* When the link goes down the host loses at most the knowledge of what    *)
(* became of its command; it never believes what is not so.                *)
(***************************************************************************)
LEMMA SilenceAgrees ==
    ASSUME IInv, LinkDown, UNCHANGED <<txVars, appVars>>
    PROVE  UploadAgreed'
  <1>1. /\ link' = "ready" /\ acked' = AfterSilence(sent)
        /\ TxTypeOK /\ acked \in UploadType /\ Agrees(HostView)
    BY DEF LinkDown, IInv, TypeOK, HostTypeOK, UploadAgreed
  <1>2. HostView' = AfterSilence(sent)
    BY <1>1 DEF HostView
  <1>3. tx_get_buffer' = tx_get_buffer
    BY <1>1, BufferUnchanged
  <1>4. AfterSilence(sent) \in UploadType
    BY <1>1, EmptyMessage DEF AfterSilence, Unknown, UploadType
  <1>5. CASE AfterSilence(sent) = Unknown
    BY <1>2, <1>4, <1>5 DEF UploadAgreed, Agrees, Unknown
  <1>6. CASE AfterSilence(sent) = acked /\ acked # Unknown
    <2>1. CASE tx_initialized = FALSE
      BY <1>2, <1>4, <2>1 DEF UploadAgreed, Agrees, appVars
    <2>2. CASE HostView = acked
      BY <1>1, <1>2, <1>3, <1>4, <1>6, <2>2 DEF UploadAgreed, Agrees, appVars
    <2>3. HostView \in {acked, NoUpload} \/ tx_initialized = FALSE
      <3>1. CASE link = "replying"
        BY <1>6, <3>1 DEF HostView, AfterAnswer, AfterSilence
      <3>2. CASE link # "replying"
        BY <3>2 DEF HostView
      <3> QED
        BY <3>1, <3>2
    <2>4. HostView = NoUpload => tx_initialized = FALSE
      BY <1>1 DEF Agrees, NoUpload, IInv, TypeOK, AppTypeOK
    <2> QED
      BY <2>1, <2>2, <2>3, <2>4
  <1> QED
    BY <1>5, <1>6 DEF AfterSilence

(***************************************************************************)
(* A transport reset drops command, review and answer, and keeps the       *)
(* static variables (apdu_handler.c:204).                                  *)
(***************************************************************************)
LEMMA IoResetStep == IInv /\ IoReset => IInv'
  <1> SUFFICES ASSUME IInv, IoReset PROVE IInv'
    OBVIOUS
  <1>1. /\ LinkDown /\ UNCHANGED <<txVars, appVars, io, pin_validated>>
        /\ link' = "ready" /\ TxTypeOK
    BY DEF IoReset, LinkDown, IInv, TypeOK
  <1>2. UploadAgreed'
    BY <1>1, SilenceAgrees
  <1>3. acked' \in UploadType
    BY <1>1, <1>2 DEF UploadAgreed, HostView
  <1>4. TypeOK'
    BY <1>1, <1>3, BufferUnchanged, BodyTypes
       DEF IInv, TypeOK, AppTypeOK, LinkTypeOK, UserTypeOK, HostTypeOK, appVars,
           LinkDown, NoReply, NoView, StatusWord
  <1>5. LinkInUse' /\ QuestionFitsCommand'
    BY <1>1 DEF LinkInUse, QuestionFitsCommand, LinkDown
  <1>6. tx_initialized' => Mainnet(hdPath')
    BY <1>1 DEF IInv, appVars
  <1> QED
    BY <1>1, <1>2, <1>4, <1>5, <1>6, NoKeyUse DEF IInv

(***************************************************************************)
(* After a restart there is no upload (main.c:22-38).                      *)
(***************************************************************************)
LEMMA RestartStep == IInv /\ Restart => IInv'
  <1> SUFFICES ASSUME IInv, Restart PROVE IInv'
    OBVIOUS
  <1>1. /\ LinkDown /\ tx_reset /\ link' = "ready" /\ tx_initialized' = FALSE
        /\ TxTypeOK'
    BY ResetEmpties DEF Restart, LinkDown
  <1>2. acked' \in UploadType
    BY <1>1, EmptyMessage
       DEF LinkDown, AfterSilence, Unknown, UploadType, IInv, TypeOK, HostTypeOK
  <1>3. AppTypeOK'
    BY EmptyMessage DEF Restart, AppTypeOK, NoTx
  <1>4. LinkTypeOK' /\ UserTypeOK' /\ HostTypeOK'
    BY <1>1, <1>2, BodyTypes
       DEF Restart, LinkTypeOK, UserTypeOK, HostTypeOK, LinkDown, NoReply,
           NoView, StatusWord
  <1>5. LinkInUse' /\ QuestionFitsCommand'
    BY <1>1 DEF LinkInUse, QuestionFitsCommand, LinkDown
  <1>6. (HostView \in UploadType)'
    BY <1>1, <1>2 DEF HostView
  <1> QED
    BY <1>1, <1>3, <1>4, <1>5, <1>6, AgreedWhenClosed, NoKeyUse DEF IInv, TypeOK

(***************************************************************************)
(* Steps that change at most whether the PIN is validated.                 *)
(***************************************************************************)
LEMMA PinStep ==
    ASSUME IInv, pin_validated' \in BOOLEAN,
           UNCHANGED <<txVars, appVars, linkVars, viewdata, hostVars, seen>>
    PROVE  IInv'
  <1>1. TxTypeOK /\ TxTypeOK' /\ tx_get_buffer' = tx_get_buffer /\ ParsedTx' = ParsedTx
    BY BufferUnchanged DEF IInv, TypeOK
  <1>2. TypeOK'
    BY <1>1 DEF IInv, TypeOK, AppTypeOK, LinkTypeOK, UserTypeOK, HostTypeOK,
       appVars, linkVars, hostVars
  <1>3. LinkInUse'
    BY DEF IInv, LinkInUse, linkVars, hostVars
  <1>4. UploadAgreed'
    <2>1. HostView' = HostView
      BY DEF HostView, AfterAnswer, linkVars, hostVars
    <2> QED
      BY <1>1, <2>1 DEF IInv, UploadAgreed, Agrees, appVars
  <1>5. QuestionFitsCommand'
    <2>1. (AskedToSign => AskedToSign') /\ (AskedForAddress => AskedForAddress')
      BY <1>1 DEF AskedToSign, AskedForAddress, appVars, linkVars, hostVars
    <2> QED
      BY <2>1 DEF IInv, QuestionFitsCommand, appVars, linkVars, hostVars
  <1>6. tx_initialized' => Mainnet(hdPath')
    BY DEF IInv, appVars
  <1>7. AnswersRight'
    BY DEF IInv, AnswersRight, Answering, SignedAsUploaded,
       OneSignaturePerUpload, ReviewedIsSigned, AddressAsAsked,
       KeyUseStaysInApp, linkVars, hostVars
  <1> QED
    BY <1>2, <1>3, <1>4, <1>5, <1>6, <1>7 DEF IInv

-------------------------------------------------------------------------------
(* The theorems *)

(***************************************************************************)
(* The inductive invariant holds initially and is kept by every step.      *)
(***************************************************************************)
LEMMA IInvInit == Init => IInv
  <1> SUFFICES ASSUME Init PROVE IInv
    OBVIOUS
  <1>1. TxTypeOK
    <2>1. ram_buffer \in Seq(Word) /\ Len(ram_buffer) <= RAM_BUFFER_SIZE
      BY BufferAssumption, EmptyMessage DEF Init, TxInit
    <2>2. N_appdata \in Seq(Word) /\ Len(N_appdata) <= FLASH_BUFFER_SIZE
      BY BufferAssumption, EmptyMessage DEF Init, TxInit
    <2> QED
      BY <2>1, <2>2 DEF Init, TxInit, TxTypeOK
  <1>2. AppTypeOK /\ LinkTypeOK /\ UserTypeOK /\ HostTypeOK
    BY EmptyMessage, BodyTypes
       DEF Init, AppStart, AppTypeOK, LinkTypeOK, UserTypeOK, HostTypeOK, NoTx,
           NoReply, NoView, NoUpload, UploadType, StatusWord
  <1>3. LinkInUse /\ QuestionFitsCommand
    BY DEF Init, LinkInUse, QuestionFitsCommand
  <1>4. UploadAgreed /\ (tx_initialized => Mainnet(hdPath))
    BY <1>2 DEF Init, AppStart, UploadAgreed, HostView, Agrees, HostTypeOK
  <1>5. AnswersRight
    BY DEF Init, AnswersRight, Answering, SignedAsUploaded,
       OneSignaturePerUpload, ReviewedIsSigned, AddressAsAsked, KeyUseStaysInApp
  <1> QED
    BY <1>1, <1>2, <1>3, <1>4, <1>5 DEF IInv, TypeOK

LEMMA IInvStep == IInv /\ [Next]_vars => IInv'
  <1> SUFFICES ASSUME IInv, [Next]_vars PROVE IInv'
    OBVIOUS
  <1>1. CASE Lock \/ Unlock \/ UNCHANGED vars
    BY <1>1, PinStep DEF Lock, Unlock, vars, IInv, TypeOK, UserTypeOK
  <1>2. CASE \E c \in Command : Receive(c)
    BY <1>2, ReceiveStep
  <1>3. CASE handleApdu
    BY <1>3, HandlerStep
  <1>4. CASE Look \/ Approve \/ Reject \/ ViewError
    BY <1>4, LookStep, ApproveStep, RefusalStep
  <1>5. CASE Deliver \/ IoReset \/ Restart
    BY <1>5, DeliverStep, IoResetStep, RestartStep
  <1> QED
    BY <1>1, <1>2, <1>3, <1>4, <1>5 DEF Next

(***************************************************************************)
(* Every reachable state satisfies the inductive invariant, for every set  *)
(* of commands and every pair of buffer sizes.                             *)
(***************************************************************************)
THEOREM Invariance == Spec => []IInv
  BY IInvInit, IInvStep, PTL DEF Spec

(***************************************************************************)
(* The types of all variables, and the bounds of the transaction buffer.   *)
(***************************************************************************)
THEOREM TypeCorrect == Spec => []TypeOK
  <1>1. IInv => TypeOK
    BY DEF IInv
  <1> QED
    BY <1>1, Invariance, PTL

(***************************************************************************)
(* Host and device agree on the upload whenever the host was told          *)
(* (apdu_handler.c:33-90).                                                 *)
(***************************************************************************)
THEOREM UploadIsAgreed == Spec => []UploadAgreed
  <1>1. IInv => UploadAgreed
    BY DEF IInv
  <1> QED
    BY <1>1, Invariance, PTL

(***************************************************************************)
(* A signature covers exactly the path and the chunks that were            *)
(* acknowledged (apdu_handler.c:51-90, actions.h:43-56).                   *)
(***************************************************************************)
THEOREM SignedIsUploaded == Spec => []SignedAsUploaded
  <1>1. IInv => SignedAsUploaded
    BY DEF IInv, AnswersRight
  <1> QED
    BY <1>1, Invariance, PTL

(***************************************************************************)
(* An upload is signed at most once (apdu_handler.c:75-86).                *)
(***************************************************************************)
THEOREM SignedOnce == Spec => []OneSignaturePerUpload
  <1>1. IInv => OneSignaturePerUpload
    BY DEF IInv, AnswersRight
  <1> QED
    BY <1>1, Invariance, PTL

(***************************************************************************)
(* What is signed is what the user looked at (tx.c:62-115, actions.h:43-56).*)
(***************************************************************************)
THEOREM SignedIsReviewed == Spec => []ReviewedIsSigned
  <1>1. IInv => ReviewedIsSigned
    BY DEF IInv, AnswersRight
  <1> QED
    BY <1>1, Invariance, PTL

(***************************************************************************)
(* An address is the one asked for, and confirmed where confirmation was   *)
(* required (apdu_handler.c:92-109).                                       *)
(***************************************************************************)
THEOREM AddressIsAsked == Spec => []AddressAsAsked
  <1>1. IInv => AddressAsAsked
    BY DEF IInv, AnswersRight
  <1> QED
    BY <1>1, Invariance, PTL

(***************************************************************************)
(* No key outside the subtree of the application is used                   *)
(* (apdu_handler.c:42-48).                                                 *)
(***************************************************************************)
THEOREM KeysAreOwn == Spec => []KeyUseStaysInApp
  <1>1. IInv => KeyUseStaysInApp
    BY DEF IInv, AnswersRight
  <1> QED
    BY <1>1, Invariance, PTL

(***************************************************************************)
(* While the user is asked, the question is that of the pending command    *)
(* (apdu_handler.c:101-106, 126-128).                                      *)
(***************************************************************************)
THEOREM QuestionIsCommand == Spec => []QuestionFitsCommand
  <1>1. IInv => QuestionFitsCommand
    BY DEF IInv
  <1> QED
    BY <1>1, Invariance, PTL
===============================================================================
