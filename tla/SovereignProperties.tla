-------------------------- MODULE SovereignProperties --------------------------
(***************************************************************************)
(* What must hold of SovereignApp: types, what an answer may say, that     *)
(* every command is answered, the implementation of SignService, and the   *)
(* inductive invariant from which the safety properties are proved.        *)
(***************************************************************************)
EXTENDS SovereignApp

AppTypeOK ==
    /\ tx_initialized \in BOOLEAN
    /\ hdPath \in Seq(Word)
    /\ tx_obj \in [ptr : {"NULL", "ram_buffer", "N_appdata"}, len : Nat]
    /\ action_addrResponseLen \in {0, ADDR_RESPONSE_LEN}

LinkTypeOK ==
    /\ io \in CommandType \cup BodyType
    /\ link \in {"ready", "command", "review", "replying"}
    /\ reply \in [sw : StatusWord, len : Nat]

UserTypeOK ==
    /\ viewdata \in [getItem : {"none", "tx_getItem", "addr_getItem"},
                     accept : {"none", "app_sign", "app_reply_address"}]
    /\ pin_validated \in BOOLEAN
    /\ seen \in BodyType

UploadType == [state : {"closed", "open", "lost"}, path : Seq(Word), msg : Seq(Word)]

HostTypeOK ==
    /\ sent \in CommandType \cup {NoCommand}
    /\ acked \in UploadType

(***************************************************************************)
(* Types of the variables, and the bounds of the transaction buffer.       *)
(***************************************************************************)
TypeOK == TxTypeOK /\ AppTypeOK /\ LinkTypeOK /\ UserTypeOK /\ HostTypeOK

Answering(is) == link = "replying" /\ io.is = is

(***************************************************************************)
(* Once the answer on its way is counted in, host and device agree on the  *)
(* upload: a closed one is not in progress on the device, and one still in *)
(* progress there has the path and the words the host was told were        *)
(* accepted.  tx_initialized (apdu_handler.c:33) must fall on every way    *)
(* out of an upload for this to hold.                                      *)
(***************************************************************************)
Agrees(a) ==
    /\ a.state = "closed" => ~tx_initialized
    /\ a.state = "open" /\ tx_initialized =>
           hdPath = a.path /\ tx_get_buffer = a.msg

HostView == IF link = "replying" THEN AfterAnswer(sent, reply.sw) ELSE acked

UploadAgreed == HostView \in UploadType /\ Agrees(HostView)

(***************************************************************************)
(* A signature answers a LAST command, and covers exactly the path and the *)
(* chunks acknowledged since the last INIT, in order, then the chunk of    *)
(* the LAST itself (unless an answer in between was lost, when the host    *)
(* does not know what was acknowledged).  app_sign reads hdPath and the    *)
(* buffer only when the user approves (actions.h:43-47).                   *)
(***************************************************************************)
SignedAsUploaded ==
    Answering("signature") =>
        /\ Uploading(sent, P1_LAST)
        /\ acked.state = "open" =>
               io = Signature(acked.path, acked.msg \o sent.payload)

(***************************************************************************)
(* No upload yields a second signature: the host never hears one it did    *)
(* not open an upload for since the last (apdu_handler.c:75-86).           *)
(***************************************************************************)
OneSignaturePerUpload == Answering("signature") => acked.state # "closed"

(***************************************************************************)
(* The message signed is the one the user looked at in this review, though *)
(* the screens and app_sign read it from the buffer separately, through    *)
(* tx_obj (tx.c:62-115) and through tx_get_buffer (actions.h:44).          *)
(***************************************************************************)
ReviewedIsSigned == Answering("signature") => seen = Message(io.msg)

(***************************************************************************)
(* An address answers the GET_ADDR that asked for that path, is complete,  *)
(* and was seen by the user when P1 asked for confirmation                 *)
(* (apdu_handler.c:92-109, actions.h:64-67).                               *)
(***************************************************************************)
AddressAsAsked ==
    Answering("address") =>
        /\ sent.ins = "INS_GET_ADDR"
        /\ io.path = PathOf(sent.payload)
        /\ reply.len = ADDR_RESPONSE_LEN
        /\ sent.p1 # 0 => seen = io

(***************************************************************************)
(* No key outside the subtree of this application is ever used, although   *)
(* a refused command leaves a path outside of it in hdPath                 *)
(* (apdu_handler.c:42-48).                                                 *)
(***************************************************************************)
KeyUseStaysInApp ==
    Answering("signature") \/ Answering("address") => Mainnet(io.path)

(***************************************************************************)
(* Every command is answered or abandoned by the transport: no review is   *)
(* left without a way to end, and no handler returns without an answer or  *)
(* a review (apdu_handler.c:162-222, actions.h:43-72).                     *)
(***************************************************************************)
CommandAnswered == link = "command" ~> link = "ready"

-------------------------------------------------------------------------------
(***************************************************************************)
(* The promise to host and user, SignService, read off the state of the    *)
(* device alone (neither acked nor seen is used): the upload is hdPath and *)
(* the buffer while tx_initialized, the question is what is in hdPath and  *)
(* the buffers while a review is open, the answer is what is in            *)
(* G_io_apdu_buffer when it is an address or a signature.                  *)
(***************************************************************************)
OwnPaths ==
    {PathOf(payload) : payload \in
        {p \in Payload : ~PathTooShort(p) /\ Mainnet(PathOf(p))}}

UploadInProgress ==
    IF tx_initialized THEN Body("upload", hdPath, tx_get_buffer) ELSE Nothing

Question ==
    IF link # "review" THEN Nothing
    ELSE IF viewdata.accept = "app_sign" THEN Signature(hdPath, TxMessage)
    ELSE Address(hdPath)

KeyUse ==
    IF Answering("signature") \/ Answering("address") THEN io ELSE Nothing

Service == INSTANCE SignService WITH
             Chunk <- Payload, OwnPath <- OwnPaths,
             upload <- UploadInProgress, ask <- Question, answer <- KeyUse

(***************************************************************************)
(* Every step of the application is one SignService allows: nothing is     *)
(* asked, signed or told except as the upload, the question and the        *)
(* approval say, and the question stays what it is until it is answered    *)
(* (apdu_handler.c:51-129, actions.h:29-72).                               *)
(***************************************************************************)
ImplementsService == Service!Spec

(***************************************************************************)
(* The handlers keep to the protocol of commands and answers, Exchange, as *)
(* they do byte by byte in ApduBytes, and so do resets, restarts and locks *)
(* at any moment (apdu_handler.c:35-128, 162-222, actions.h:43-72).        *)
(***************************************************************************)
RequestOf(c) ==
    IF ~c.cla \/ ~c.whole THEN "other"
    ELSE CASE c.ins = "INS_GET_VERSION" -> "version"
           [] c.ins = "INS_GET_ADDR" -> IF c.p1 = 0 THEN "address" ELSE "show"
           [] Uploading(c, P1_INIT) -> "init"
           [] Uploading(c, P1_ADD) -> "add"
           [] Uploading(c, P1_LAST) -> "last"
           [] OTHER -> "other"

Protocol == INSTANCE Exchange WITH
              stage <- IF link = "replying" THEN "answer" ELSE link,
              request <- IF link = "ready" THEN "none" ELSE RequestOf(sent),
              verdict <- IF link # "replying" THEN "none"
                         ELSE IF reply.sw = "OK" THEN "ok" ELSE "refused",
              uploading <- tx_initialized,
              asked <- IF link # "review" THEN "nothing"
                       ELSE IF viewdata.accept = "app_sign" THEN "message"
                       ELSE "address"

KeepsProtocol == Protocol!Spec

-------------------------------------------------------------------------------
(* The inductive invariant behind the safety properties.                    *)

AskedToSign ==
    /\ viewdata = [getItem |-> "tx_getItem", accept |-> "app_sign"]
    /\ Uploading(sent, P1_LAST)
    /\ tx_obj = ParsedTx
    /\ tx_get_buffer # <<>>
    /\ acked.state # "closed"
    /\ acked.state = "open" =>
           hdPath = acked.path /\ tx_get_buffer = acked.msg \o sent.payload
    /\ Mainnet(hdPath)
    /\ seen \in {Nothing, Message(tx_get_buffer)}

AskedForAddress ==
    /\ viewdata = [getItem |-> "addr_getItem", accept |-> "app_reply_address"]
    /\ sent.ins = "INS_GET_ADDR"
    /\ hdPath = PathOf(sent.payload)
    /\ io = Address(hdPath)
    /\ action_addrResponseLen = ADDR_RESPONSE_LEN
    /\ Mainnet(io.path)
    /\ seen \in {Nothing, io}

(***************************************************************************)
(* While the user is asked, no upload is in progress, and question,        *)
(* buffers, registered callbacks and the command of the host all belong to *)
(* the same request (apdu_handler.c:101-106 and 126-128).                  *)
(***************************************************************************)
QuestionFitsCommand ==
    link = "review" =>
        /\ sent.cla /\ sent.whole
        /\ ~tx_initialized
        /\ AskedToSign \/ AskedForAddress

LinkInUse ==
    /\ link # "ready" => sent \in Command
    /\ link = "command" => io = sent
    /\ link = "replying" => io \in BodyType
    /\ link # "review" => viewdata = NoView

AnswersRight ==
    /\ SignedAsUploaded /\ OneSignaturePerUpload /\ ReviewedIsSigned
    /\ AddressAsAsked /\ KeyUseStaysInApp

IInv ==
    /\ TypeOK
    /\ LinkInUse
    /\ UploadAgreed
    /\ QuestionFitsCommand
    /\ tx_initialized => Mainnet(hdPath)
    /\ AnswersRight
===============================================================================
