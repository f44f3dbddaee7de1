-------------------------- MODULE SignService_proofs --------------------------
(***************************************************************************)
(* SovereignApp implements SignService: under the inductive invariant      *)
(* every step of the application is one of the service or leaves upload,   *)
(* question and key use as they are.                                       *)
(***************************************************************************)
EXTENDS SovereignApp_proofs

Unmoved == UNCHANGED <<UploadInProgress, Question, KeyUse>>

ServiceStep == [Service!Next]_(Service!vars)

(***************************************************************************)
(* What the service sees of a state of the exchange.                       *)
(***************************************************************************)
LEMMA Seen ==
    /\ link # "review" => Question = Nothing
    /\ link # "replying" => KeyUse = Nothing
    /\ io \in {Nothing, Version, ErrorText} => KeyUse = Nothing
    /\ ~tx_initialized => UploadInProgress = Nothing
    /\ Service!Missing = Nothing
  BY DEF Question, KeyUse, Answering, UploadInProgress, Nothing, Version, ErrorText,
     Body, Service!Missing

LEMMA SeenNext ==
    /\ link' # "review" => Question' = Nothing
    /\ link' # "replying" => KeyUse' = Nothing
    /\ io' \in {Nothing, Version, ErrorText} => KeyUse' = Nothing
    /\ ~tx_initialized' => UploadInProgress' = Nothing
  BY DEF Question, KeyUse, Answering, UploadInProgress, Nothing, Version, ErrorText,
     Body

(***************************************************************************)
(* The upload is read from three parts of the state.                       *)
(***************************************************************************)
LEMMA UploadUnmoved ==
    ASSUME UNCHANGED <<txVars, tx_initialized, hdPath>>
    PROVE  UploadInProgress' = UploadInProgress
  BY DEF UploadInProgress, txVars, tx_get_buffer

LEMMA StutterIsStep == Unmoved => ServiceStep
  BY DEF Unmoved, ServiceStep, Service!vars

(***************************************************************************)
(* A handler starts with nothing asked and nothing told.                   *)
(***************************************************************************)
LEMMA HandlerIdle ==
    ASSUME link = "command" PROVE Service!Idle /\ Question = Nothing /\ KeyUse = Nothing
  BY Seen DEF Service!Idle

LEMMA CloseIsStep ==
    ASSUME link = "command", link' = "replying", io' \in {Nothing, Version, ErrorText},
           ~tx_initialized'
    PROVE  ServiceStep
  <1>1. Service!Close
    BY HandlerIdle, Seen, SeenNext DEF Service!Close
  <1> QED
    BY <1>1 DEF ServiceStep, Service!Next

LEMMA AnswerIsStep ==
    ASSUME link = "command", link' = "replying", io' \in {Nothing, Version, ErrorText},
           UNCHANGED <<txVars, tx_initialized, hdPath>>
    PROVE  ServiceStep
  BY HandlerIdle, SeenNext, UploadUnmoved, StutterIsStep DEF Unmoved

(***************************************************************************)
(* Paths the application accepts are its own (apdu_handler.c:44-48).       *)
(***************************************************************************)
LEMMA AcceptedIsOwn ==
    ASSUME io.payload \in Payload, AcceptPath
    PROVE  hdPath' \in OwnPaths
  BY DEF AcceptPath, OwnPaths

LEMMA AddressServes == IInv /\ handleGetAddr => ServiceStep
  <1> SUFFICES ASSUME IInv, handleGetAddr PROVE ServiceStep
    OBVIOUS
  <1>1. /\ link = "command" /\ ~tx_initialized' /\ io.payload \in Payload
        /\ UNCHANGED txVars
    BY WaitingCommand DEF handleGetAddr, Dispatched, AbandonUpload
  <1>2. UploadInProgress' = Nothing
    BY <1>1, SeenNext
  <1>3. CASE RejectPath \/ DerivationFails
    BY <1>1, <1>3, CloseIsStep DEF RejectPath, DerivationFails, Throw, Respond
  <1>4. CASE AcceptPath /\ AddressFilled
    <2>1. hdPath' \in OwnPaths /\ io' = Address(hdPath')
      BY <1>1, <1>4, AcceptedIsOwn DEF AddressFilled
    <2>2. Address(hdPath') = Service!Request("address", hdPath', <<>>)
      BY DEF Address, Body, Service!Request
    <2>3. CASE requireConfirmation
      <3>1. /\ link' = "review"
            /\ viewdata' = [getItem |-> "addr_getItem", accept |-> "app_reply_address"]
        BY <1>4, <2>3 DEF AddressFilled, Review
      <3>2. Question' = Address(hdPath')
        BY <3>1 DEF Question, Address
      <3>3. Service!AskForAddress(hdPath')
        BY <1>1, <1>2, <2>2, <3>1, <3>2, HandlerIdle, Seen, SeenNext
           DEF Service!AskForAddress
      <3> QED
        BY <2>1, <3>3 DEF ServiceStep, Service!Next
    <2>4. CASE ~requireConfirmation
      <3>1. link' = "replying"
        BY <1>4, <2>4 DEF AddressFilled, Respond
      <3>2. KeyUse' = Address(hdPath')
        BY <2>1, <3>1 DEF KeyUse, Answering, Address, Body
      <3>3. Service!TellAddress(hdPath')
        BY <1>1, <1>2, <2>2, <3>1, <3>2, HandlerIdle, Seen, SeenNext
           DEF Service!TellAddress
      <3> QED
        BY <2>1, <3>3 DEF ServiceStep, Service!Next
    <2> QED
      BY <2>3, <2>4
  <1> QED
    BY <1>3, <1>4 DEF handleGetAddr

LEMMA InitServes ==
    ASSUME IInv, Dispatched("INS_SIGN"), signInit PROVE ServiceStep
  <1>1. link = "command" /\ io.payload \in Payload /\ tx_get_buffer' = <<>>
    BY WaitingCommand, ResetEmpties DEF Dispatched, signInit
  <1>2. CASE RejectPath /\ AbandonUpload
    BY <1>1, <1>2, CloseIsStep DEF RejectPath, AbandonUpload, Throw, Respond
  <1>3. CASE AcceptPath /\ tx_initialized' = TRUE /\ Throw("OK")
    <2>1. hdPath' \in OwnPaths /\ link' = "replying" /\ io' = Nothing
      BY <1>1, <1>3, AcceptedIsOwn DEF Throw, Respond
    <2>2. UploadInProgress' = Service!Request("upload", hdPath', <<>>)
      BY <1>1, <1>3 DEF UploadInProgress, Body, Service!Request
    <2>3. Service!Open(hdPath')
      BY <1>1, <2>1, <2>2, HandlerIdle, SeenNext DEF Service!Open
    <2> QED
      BY <2>1, <2>3 DEF ServiceStep, Service!Next
  <1> QED
    BY <1>2, <1>3 DEF signInit

LEMMA AddServes ==
    ASSUME IInv, Dispatched("INS_SIGN"), signAdd PROVE ServiceStep
  <1>1. /\ link = "command" /\ io.payload \in Payload /\ TxTypeOK
        /\ link' = "replying" /\ io' = Nothing
        /\ tx_initialized /\ tx_append(io.payload) /\ tx_initialized' = AllAdded
        /\ hdPath' = hdPath
    BY WaitingCommand DEF Dispatched, signAdd, UploadGoesOn, Throw, Respond, IInv, TypeOK
  <1>2. CASE ~AllAdded
    BY <1>1, <1>2, CloseIsStep
  <1>3. CASE AllAdded
    <2>1. tx_get_buffer' = tx_get_buffer \o io.payload
      BY <1>1, <1>3, AllAddedAppends
    <2>2. /\ UploadInProgress = Body("upload", hdPath, tx_get_buffer)
          /\ UploadInProgress' = Body("upload", hdPath, tx_get_buffer \o io.payload)
      BY <1>1, <1>3, <2>1 DEF UploadInProgress
    <2>3. UploadInProgress # Service!Missing
      BY <2>2, Seen DEF Body, Nothing
    <2>4. UploadInProgress' = Service!Request("upload", UploadInProgress.path,
                                             UploadInProgress.msg \o io.payload)
      BY <2>2 DEF Service!Request, Body
    <2>5. UNCHANGED <<Question, KeyUse>>
      BY <1>1, HandlerIdle, SeenNext
    <2>6. Service!Extend(io.payload)
      BY <1>1, <2>3, <2>4, <2>5, HandlerIdle DEF Service!Extend
    <2> QED
      BY <1>1, <2>6 DEF ServiceStep, Service!Next
  <1> QED
    BY <1>2, <1>3

LEMMA WholeParsed ==
    TxTypeOK /\ tx_obj = ParsedTx /\ tx_get_buffer # <<>> => TxMessage = tx_get_buffer
  BY WholeBuffer

LEMMA LastServes ==
    ASSUME IInv, IInv', Dispatched("INS_SIGN"), signLast PROVE ServiceStep
  <1>1. /\ link = "command" /\ io.payload \in Payload /\ TxTypeOK
        /\ tx_initialized /\ tx_append(io.payload) /\ ~tx_initialized'
        /\ hdPath' = hdPath
    BY WaitingCommand DEF Dispatched, signLast, AbandonUpload, IInv, TypeOK
  <1>2. CASE link' = "replying" /\ io' \in {Nothing, ErrorText}
    BY <1>1, <1>2, CloseIsStep
  <1>3. CASE AllAdded /\ tx_obj' = ParsedTx' /\ tx_obj' # NoTx
             /\ Review("tx_getItem", "app_sign")
    <2>1. tx_get_buffer' = tx_get_buffer \o io.payload
      BY <1>1, <1>3, AllAddedAppends
    <2>2. TxTypeOK'
      BY DEF IInv, TypeOK
    <2>3. tx_get_buffer' # <<>>
      <3>1. (TxTypeOK => (ParsedTx = NoTx <=> tx_get_buffer = <<>>))'
        BY ParsedTxEmpty, PTL
      <3> QED
        BY <1>3, <2>2, <3>1 DEF NoTx
    <2>4. TxMessage' = tx_get_buffer'
      <3>1. (TxTypeOK /\ tx_obj = ParsedTx /\ tx_get_buffer # <<>>
                => TxMessage = tx_get_buffer)'
        BY WholeParsed, PTL
      <3> QED
        BY <1>3, <2>2, <2>3, <3>1
    <2>5. link' = "review" /\ viewdata'.accept = "app_sign"
      BY <1>3 DEF Review
    <2>6. Question' = Signature(hdPath, tx_get_buffer \o io.payload)
      BY <1>1, <2>1, <2>4, <2>5 DEF Question, Signature
    <2>7. UploadInProgress = Body("upload", hdPath, tx_get_buffer)
      BY <1>1 DEF UploadInProgress
    <2>8. Service!AskToSign(io.payload)
      BY <1>1, <2>1, <2>3, <2>5, <2>6, <2>7, HandlerIdle, Seen, SeenNext
         DEF Service!AskToSign, Service!Request, Signature, Body, Nothing
    <2> QED
      BY <1>1, <2>8 DEF ServiceStep, Service!Next
  <1> QED
    BY <1>2, <1>3 DEF signLast, tx_parse, ReviewTx, Throw, Respond

LEMMA HandlerServes == IInv /\ IInv' /\ handleApdu => ServiceStep
  <1> SUFFICES ASSUME IInv, IInv', handleApdu PROVE ServiceStep
    OBVIOUS
  <1>1. CASE refuse
    BY <1>1, AnswerIsStep DEF refuse, Throw, Respond, appVars
  <1>2. CASE handle_getversion
    BY <1>2, AnswerIsStep DEF handle_getversion, Dispatched, Respond, appVars
  <1>3. CASE Dispatched("INS_SIGN") /\ (signUninitialized \/ signBadP1)
    BY <1>3, AnswerIsStep
       DEF Dispatched, signUninitialized, signBadP1, Throw, Respond, appVars
  <1> QED
    BY <1>1, <1>2, <1>3, AddressServes, InitServes, AddServes, LastServes
       DEF handleApdu, handleSign

-------------------------------------------------------------------------------
(* The steps outside the handlers *)

(***************************************************************************)
(* An open review asks for exactly what the buttons will use.              *)
(***************************************************************************)
LEMMA QuestionIs ==
    ASSUME IInv, link = "review"
    PROVE  /\ viewdata.accept = "app_sign" =>
                  Question = Signature(hdPath, SignedMessage)
           /\ viewdata.accept = "app_reply_address" => Question = io /\ io = Address(hdPath)
           /\ Question # Nothing /\ UploadInProgress = Nothing /\ KeyUse = Nothing
  <1>1. ~tx_initialized /\ TxTypeOK /\ (AskedToSign \/ AskedForAddress)
    BY DEF IInv, TypeOK, QuestionFitsCommand
  <1>2. UploadInProgress = Nothing /\ KeyUse = Nothing
    BY <1>1, Seen
  <1>3. CASE AskedToSign
    <2>1. TxMessage = tx_get_buffer /\ SignedMessage = tx_get_buffer
      BY <1>1, <1>3, WholeBuffer DEF AskedToSign
    <2>2. viewdata.accept = "app_sign"
      BY <1>3 DEF AskedToSign
    <2> QED
      BY <1>2, <2>1, <2>2 DEF Question, Signature, Nothing, Body
  <1>4. CASE AskedForAddress
    <2>1. viewdata.accept = "app_reply_address" /\ io = Address(hdPath)
      BY <1>4 DEF AskedForAddress
    <2> QED
      BY <1>2, <2>1 DEF Question, Address, Nothing, Body
  <1> QED
    BY <1>1, <1>3, <1>4

LEMMA RefusalServes ==
    ASSUME IInv, link = "review", link' # "review", UploadInProgress' = UploadInProgress,
           KeyUse' = Nothing
    PROVE  ServiceStep
  <1>1. Service!Refuse
    BY QuestionIs, Seen, SeenNext DEF Service!Refuse
  <1> QED
    BY <1>1 DEF ServiceStep, Service!Next

LEMMA UserServes == IInv /\ (Approve \/ Reject \/ ViewError) => ServiceStep
  <1> SUFFICES ASSUME IInv, Approve \/ Reject \/ ViewError PROVE ServiceStep
    OBVIOUS
  <1>1. link = "review"
    BY OpenReview DEF Approve, Reject, ViewError, UserAt
  <1>2. UploadInProgress' = UploadInProgress /\ link' = "replying"
    BY UploadUnmoved DEF Approve, Reject, ViewError, appVars, app_sign, SigningFails,
       app_reply_address, Throw, Respond
  <1>3. CASE io' = Nothing
    BY <1>1, <1>2, <1>3, RefusalServes, SeenNext
  <1>4. ASSUME Question = io', io'.is \in {"signature", "address"} PROVE ServiceStep
    <2>1. KeyUse' = Question
      BY <1>2, <1>4 DEF KeyUse, Answering
    <2>2. Service!Approve
      BY <1>1, <1>2, <2>1, QuestionIs, Seen, SeenNext DEF Service!Approve
    <2> QED
      BY <2>2 DEF ServiceStep, Service!Next
  <1>5. CASE Approve /\ io' # Nothing
    <2>1. CASE app_sign
      <3>1. viewdata.accept = "app_sign" /\ io' = Signature(hdPath, SignedMessage)
        BY <1>5, <2>1 DEF app_sign, SigningFails, Throw
      <3> QED
        BY <1>1, <1>4, <3>1, QuestionIs DEF Signature, Body
    <2>2. CASE app_reply_address
      <3>1. viewdata.accept = "app_reply_address" /\ io' = io
        BY <2>2 DEF app_reply_address
      <3> QED
        BY <1>1, <1>4, <3>1, QuestionIs DEF Address, Body
    <2> QED
      BY <1>5, <2>1, <2>2 DEF Approve
  <1> QED
    BY <1>3, <1>5 DEF Reject, ViewError, Throw

LEMMA EnvironmentServes ==
    ASSUME IInv,
           \/ \E c \in Command : Receive(c)
           \/ Look \/ Deliver \/ IoReset \/ Restart \/ Lock \/ Unlock
    PROVE  ServiceStep
  <1>1. ASSUME NEW c \in Command, Receive(c) PROVE ServiceStep
    BY <1>1, Seen, SeenNext, UploadUnmoved, StutterIsStep
       DEF Receive, appVars, Unmoved
  <1>2. CASE Look \/ Lock \/ Unlock
    <2>1. UNCHANGED <<txVars, appVars, linkVars, viewdata>>
      BY <1>2 DEF Look, Lock, Unlock
    <2> QED
      BY <2>1, StutterIsStep
         DEF Unmoved, txVars, appVars, linkVars, UploadInProgress, Question, KeyUse,
             Answering, TxMessage, tx_get_buffer
  <1>3. CASE Deliver \/ IoReset
    <2>1. link' = "ready" /\ UploadInProgress' = UploadInProgress
      BY <1>3, UploadUnmoved DEF Deliver, IoReset, LinkDown, appVars
    <2>2. CASE link = "review"
      BY <2>1, <2>2, RefusalServes, SeenNext
    <2>3. CASE link # "review"
      <3>1. Service!Heard
        BY <2>1, <2>3, Seen, SeenNext DEF Service!Heard
      <3> QED
        BY <3>1 DEF ServiceStep, Service!Next
    <2> QED
      BY <2>2, <2>3
  <1>4. CASE Restart
    <2>1. Service!Restart
      BY <1>4, Seen, SeenNext DEF Restart, LinkDown, Service!Restart
    <2> QED
      BY <2>1 DEF ServiceStep, Service!Next
  <1> QED
    BY <1>1, <1>2, <1>3, <1>4

LEMMA StepServes == IInv /\ [Next]_vars => ServiceStep
  <1> SUFFICES ASSUME IInv, [Next]_vars PROVE ServiceStep
    OBVIOUS
  <1>1. IInv'
    BY IInvStep
  <1>2. CASE UNCHANGED vars
    BY <1>2, StutterIsStep
       DEF vars, Unmoved, txVars, appVars, linkVars, UploadInProgress, Question,
           KeyUse, Answering, TxMessage, tx_get_buffer
  <1> QED
    BY <1>1, <1>2, HandlerServes, UserServes, EnvironmentServes DEF Next

LEMMA InitServed == Init => Service!Init
  BY Seen DEF Init, AppStart, Service!Init

(***************************************************************************)
(* The application keeps the promise to host and user: nothing is asked,   *)
(* signed or told except as the upload, the question and the approval say  *)
(* (apdu_handler.c:51-129, actions.h:29-72).                               *)
(***************************************************************************)
THEOREM AppImplementsService == Spec => ImplementsService
  <1>1. Init => Service!Init
    BY InitServed
  <1>2. IInv /\ [Next]_vars => [Service!Next]_(Service!vars)
    BY StepServes DEF ServiceStep
  <1> QED
    BY <1>1, <1>2, Invariance, PTL DEF Spec, ImplementsService, Service!Spec

-------------------------------------------------------------------------------
(* The buffer inside the application *)

BufferStep == [TxNext]_txVars

LEMMA HandlerBuffers == IInv /\ handleApdu => BufferStep
  <1> SUFFICES ASSUME IInv, handleApdu PROVE BufferStep
    OBVIOUS
  <1>1. CASE refuse \/ handle_getversion
    BY <1>1 DEF refuse, handle_getversion, BufferStep
  <1>2. CASE handleGetAddr
    BY <1>2 DEF handleGetAddr, BufferStep
  <1>3. CASE Dispatched("INS_SIGN") /\ (signUninitialized \/ signBadP1)
    BY <1>3 DEF signUninitialized, signBadP1, BufferStep
  <1>4. CASE Dispatched("INS_SIGN") /\ signInit
    BY <1>4 DEF signInit, BufferStep, TxNext
  <1>5. CASE Dispatched("INS_SIGN") /\ (signAdd \/ signLast)
    <2>1. io.payload \in Payload /\ tx_append(io.payload)
      BY <1>5, WaitingCommand DEF Dispatched, signAdd, signLast
    <2> QED
      BY <2>1 DEF BufferStep, TxNext
  <1> QED
    BY <1>1, <1>2, <1>3, <1>4, <1>5 DEF handleApdu, handleSign

LEMMA StepBuffers == IInv /\ [Next]_vars => BufferStep
  <1> SUFFICES ASSUME IInv, [Next]_vars PROVE BufferStep
    OBVIOUS
  <1>1. CASE UNCHANGED txVars
    BY <1>1 DEF BufferStep
  <1>2. CASE Restart
    BY <1>2 DEF Restart, BufferStep, TxNext
  <1>3. CASE Approve \/ Reject \/ ViewError \/ Look
    BY <1>3, <1>1 DEF Approve, Reject, ViewError, Look, app_sign, app_reply_address
  <1>4. CASE (\E c \in Command : Receive(c)) \/ Deliver \/ IoReset \/ Lock \/ Unlock
    BY <1>4, <1>1 DEF Receive, Deliver, IoReset, Lock, Unlock
  <1>5. CASE UNCHANGED vars
    BY <1>5, <1>1 DEF vars
  <1> QED
    BY <1>2, <1>3, <1>4, <1>5, HandlerBuffers DEF Next

(***************************************************************************)
(* Whatever the commands, buttons, resets and restarts, the message of the *)
(* application is a log of whole chunks: the buffer inside it does nothing *)
(* but what TxBuffer allows (apdu_handler.c:61-84, tx.c:34-64).            *)
(***************************************************************************)
THEOREM AppKeepsLog == Spec => ImplementsLog
  <1>1. Init => TxInit
    BY DEF Init
  <1>2. IInv /\ [Next]_vars => [TxNext]_txVars
    BY StepBuffers DEF BufferStep
  <1>3. Spec => TxSpec
    BY <1>1, <1>2, Invariance, PTL DEF Spec, TxSpec
  <1> QED
    BY <1>3, BufferImplementsLog
===============================================================================
