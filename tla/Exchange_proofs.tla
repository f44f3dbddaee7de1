--------------------------- MODULE Exchange_proofs ----------------------------
(***************************************************************************)
(* SovereignApp keeps to the protocol of commands and answers, Exchange:   *)
(* under the inductive invariant every step of the application, the user,  *)
(* the transport and the device is one of the protocol or leaves it where  *)
(* it was.                                                                 *)
(***************************************************************************)
EXTENDS SovereignApp_proofs

ExchangeStep == [Protocol!Next]_(Protocol!vars)

LEMMA StillIsStep ==
    ASSUME UNCHANGED <<link, sent, reply, tx_initialized, viewdata>>
    PROVE  ExchangeStep
  BY DEF ExchangeStep, Protocol!vars

LEMMA RequestIs ==
    ASSUME NEW c \in Command
    PROVE  /\ RequestOf(c) \in Protocol!Requests
           /\ RequestOf(c) = "version" => c.cla /\ c.whole /\ c.ins = "INS_GET_VERSION"
           /\ c.cla /\ c.whole /\ c.ins = "INS_GET_VERSION" => RequestOf(c) = "version"
           /\ c.cla /\ c.whole /\ c.ins = "INS_GET_ADDR" =>
                 RequestOf(c) = IF c.p1 = 0 THEN "address" ELSE "show"
           /\ c.cla /\ c.whole /\ c.ins = "INS_SIGN" =>
                 /\ c.p1 = P1_INIT => RequestOf(c) = "init"
                 /\ c.p1 = P1_ADD => RequestOf(c) = "add"
                 /\ c.p1 = P1_LAST => RequestOf(c) = "last"
  BY DEF RequestOf, Uploading, Protocol!Requests, P1_INIT, P1_ADD, P1_LAST

-------------------------------------------------------------------------------
(* What the protocol sees of a handler *)

LEMMA AnswerSeen ==
    ASSUME IInv, link = "command", UNCHANGED sent, NEW sw, NEW len, Respond(sw, len)
    PROVE  /\ sw = "OK" => Protocol!Answer("ok")
           /\ sw # "OK" => Protocol!Answer("refused")
           /\ io = sent /\ sent \in Command
  <1>1. /\ link' = "replying" /\ reply'.sw = sw
        /\ io = sent /\ sent \in Command
    BY WaitingCommand DEF Respond
  <1> QED
    BY <1>1 DEF Protocol!Answer

LEMMA RefusalSeen ==
    ASSUME IInv, link = "command", UNCHANGED sent, NEW sw, NEW len, Respond(sw, len),
           sw # "OK", RequestOf(sent) # "version",
           tx_initialized' \in {FALSE, tx_initialized},
           RequestOf(sent) = "other" => UNCHANGED tx_initialized
    PROVE  ExchangeStep
  <1>1. Protocol!Refuse
    BY AnswerSeen DEF Protocol!Refuse
  <1> QED
    BY <1>1 DEF ExchangeStep, Protocol!Next

LEMMA ReviewSeen ==
    ASSUME IInv, link = "command", UNCHANGED sent, NEW getItem, NEW accept,
           Review(getItem, accept), tx_initialized' = FALSE
    PROVE  /\ accept = "app_sign" => Protocol!Ask("message")
           /\ accept = "app_reply_address" => Protocol!Ask("address")
  <1>1. link' = "review" /\ viewdata'.accept = accept
    BY DEF Review
  <1> QED
    BY <1>1 DEF Protocol!Ask

LEMMA PathSeen ==
    ASSUME IInv, link = "command", UNCHANGED sent, RejectPath, tx_initialized' = FALSE,
           RequestOf(sent) \notin {"version", "other"}
    PROVE  ExchangeStep
  BY RefusalSeen DEF RejectPath, Throw

LEMMA PlainKeeps ==
    ASSUME IInv, refuse \/ handle_getversion
    PROVE  ExchangeStep
  <1>1. CASE refuse
    <2>1. link = "command" /\ UNCHANGED <<sent, tx_initialized>>
      BY <1>1 DEF refuse, appVars, hostVars
    <2>2. RequestOf(sent) # "version"
      BY <1>1, <2>1, WaitingCommand, RequestIs DEF refuse
    <2>3. \E sw \in StatusWord \ {"OK"} : Respond(sw, 0)
      BY <1>1 DEF refuse, Throw, StatusWord
    <2> QED
      BY <2>1, <2>2, <2>3, RefusalSeen
  <1>2. CASE handle_getversion
    <2>1. /\ link = "command" /\ UNCHANGED <<sent, tx_initialized>>
          /\ Respond("OK", VERSION_LEN)
      BY <1>2 DEF handle_getversion, Dispatched, appVars, hostVars
    <2>2. Protocol!Answer("ok") /\ RequestOf(sent) = "version"
      BY <1>2, <2>1, AnswerSeen, RequestIs DEF handle_getversion, Dispatched
    <2>3. Protocol!TellVersion
      BY <2>1, <2>2 DEF Protocol!TellVersion
    <2> QED
      BY <2>3 DEF ExchangeStep, Protocol!Next
  <1> QED
    BY <1>1, <1>2

LEMMA AddressKeeps ==
    ASSUME IInv, handleGetAddr
    PROVE  ExchangeStep
  <1>1. /\ link = "command" /\ UNCHANGED sent /\ tx_initialized' = FALSE
        /\ io.cla /\ io.whole /\ io.ins = "INS_GET_ADDR"
    BY DEF handleGetAddr, Dispatched, hostVars, AbandonUpload
  <1>2. io = sent /\ RequestOf(sent) = IF sent.p1 = 0 THEN "address" ELSE "show"
    BY <1>1, WaitingCommand, RequestIs
  <1>3. CASE RejectPath
    BY <1>1, <1>2, <1>3, PathSeen
  <1>4. CASE DerivationFails
    BY <1>1, <1>2, <1>4, RefusalSeen DEF DerivationFails, Throw
  <1>5. CASE AddressFilled /\ requireConfirmation
    <2>1. Protocol!Ask("address")
      BY <1>1, <1>5, ReviewSeen DEF AddressFilled, requireConfirmation
    <2>2. Protocol!AskForAddress
      BY <1>1, <1>2, <1>5, <2>1 DEF Protocol!AskForAddress, requireConfirmation
    <2> QED
      BY <2>2 DEF ExchangeStep, Protocol!Next
  <1>6. CASE AddressFilled /\ ~requireConfirmation
    <2>1. Protocol!Answer("ok")
      BY <1>1, <1>6, AnswerSeen DEF AddressFilled
    <2>2. Protocol!TellAddress
      BY <1>1, <1>2, <1>6, <2>1 DEF Protocol!TellAddress, requireConfirmation
    <2> QED
      BY <2>2 DEF ExchangeStep, Protocol!Next
  <1> QED
    BY <1>3, <1>4, <1>5, <1>6 DEF handleGetAddr

LEMMA SignKeeps ==
    ASSUME IInv, handleSign
    PROVE  ExchangeStep
  <1>1. /\ link = "command" /\ UNCHANGED sent /\ io = sent /\ sent \in Command
        /\ sent.cla /\ sent.whole /\ sent.ins = "INS_SIGN"
        /\ tx_initialized \in BOOLEAN
    <2>1. link = "command" /\ UNCHANGED sent /\ io.cla /\ io.whole /\ io.ins = "INS_SIGN"
      BY DEF handleSign, Dispatched, hostVars
    <2> QED
      BY <2>1, WaitingCommand DEF IInv, TypeOK, AppTypeOK
  <1>2. /\ sent.p1 = P1_INIT => RequestOf(sent) = "init"
        /\ sent.p1 = P1_ADD => RequestOf(sent) = "add"
        /\ sent.p1 = P1_LAST => RequestOf(sent) = "last"
        /\ RequestOf(sent) # "version"
    BY <1>1, RequestIs
  <1>3. CASE signInit
    <2>1. CASE RejectPath /\ AbandonUpload
      BY <1>1, <1>2, <1>3, <2>1, PathSeen DEF signInit, AbandonUpload
    <2>2. CASE Throw("OK") /\ tx_initialized' = TRUE
      <3>1. Protocol!Answer("ok")
        BY <1>1, <2>2, AnswerSeen DEF Throw
      <3>2. Protocol!Open
        BY <1>1, <1>2, <1>3, <2>2, <3>1 DEF Protocol!Open, signInit
      <3> QED
        BY <3>2 DEF ExchangeStep, Protocol!Next
    <2> QED
      BY <1>3, <2>1, <2>2 DEF signInit
  <1>4. CASE signUninitialized \/ signBadP1
    BY <1>1, <1>2, <1>4, RefusalSeen DEF signUninitialized, signBadP1, Throw, appVars
  <1>5. CASE signAdd /\ AllAdded
    <2>1. /\ Protocol!Answer("ok") /\ tx_initialized
          /\ tx_initialized' = tx_initialized /\ sent.p1 = P1_ADD
      BY <1>1, <1>5, AnswerSeen DEF signAdd, UploadGoesOn, Throw
    <2>2. Protocol!Extend
      BY <1>1, <1>2, <2>1 DEF Protocol!Extend
    <2> QED
      BY <2>2 DEF ExchangeStep, Protocol!Next
  <1>6. CASE (signAdd \/ signLast) /\ ~AllAdded
    <2>1. tx_initialized' = FALSE /\ Respond("OUTPUT_BUFFER_TOO_SMALL", 0)
      BY <1>6 DEF signAdd, UploadGoesOn, signLast, AbandonUpload, Throw
    <2>2. RequestOf(sent) \in {"add", "last"}
      BY <1>1, <1>2, <1>6 DEF signAdd, signLast
    <2> QED
      BY <1>1, <2>1, <2>2, RefusalSeen
  <1>7. CASE signLast /\ AllAdded
    <2>1. /\ ReviewTx /\ tx_initialized /\ tx_initialized' = FALSE
          /\ RequestOf(sent) = "last"
      BY <1>1, <1>2, <1>7 DEF signLast, AbandonUpload
    <2>2. CASE Respond("DATA_INVALID", ERROR_TEXT_LEN)
      BY <1>1, <2>1, <2>2, RefusalSeen
    <2>3. CASE Review("tx_getItem", "app_sign")
      <3>1. Protocol!Ask("message")
        BY <1>1, <2>1, <2>3, ReviewSeen
      <3>2. Protocol!AskToSign
        BY <1>1, <2>1, <3>1 DEF Protocol!AskToSign
      <3> QED
        BY <3>2 DEF ExchangeStep, Protocol!Next
    <2> QED
      BY <2>1, <2>2, <2>3 DEF ReviewTx
  <1> QED
    BY <1>3, <1>4, <1>5, <1>6, <1>7 DEF handleSign, signAdd, signLast

-------------------------------------------------------------------------------
(* What the protocol sees of user, transport and device *)

LEMMA UserKeeps ==
    ASSUME IInv, Approve \/ Reject \/ ViewError
    PROVE  ExchangeStep
  <1>1. link = "review" /\ UNCHANGED <<sent, tx_initialized>>
    BY OpenReview DEF Approve, Reject, ViewError, UserAt, appVars, hostVars
  <1>2. \E sw, len : Respond(sw, len)
    BY DEF Approve, app_sign, SigningFails, app_reply_address,
        Reject, ViewError, Throw
  <1>3. link' = "replying"
    BY <1>2 DEF Respond
  <1>4. Protocol!Decide("ok") \/ Protocol!Decide("refused")
    BY <1>1, <1>3 DEF Protocol!Decide
  <1> QED
    BY <1>4 DEF ExchangeStep, Protocol!Next

LEMMA EnvironmentKeeps ==
    ASSUME IInv,
           \/ \E c \in Command : Receive(c)
           \/ Look \/ Deliver \/ IoReset \/ Restart \/ Lock \/ Unlock
    PROVE  ExchangeStep
  <1>1. ASSUME NEW c \in Command, Receive(c) PROVE ExchangeStep
    <2>1. /\ link = "ready" /\ link' = "command" /\ sent' = c
          /\ UNCHANGED tx_initialized
      BY <1>1 DEF Receive, appVars
    <2>2. Protocol!Receive(RequestOf(c))
      BY <2>1 DEF Protocol!Receive
    <2> QED
      BY <2>2, RequestIs DEF ExchangeStep, Protocol!Next
  <1>2. CASE Look \/ Lock \/ Unlock
    BY <1>2, StillIsStep DEF Look, Lock, Unlock, appVars, linkVars, hostVars
  <1>3. CASE Deliver
    <2>1. link = "replying" /\ link' = "ready" /\ UNCHANGED tx_initialized
      BY <1>3 DEF Deliver, appVars
    <2>2. Protocol!Send
      BY <2>1 DEF Protocol!Send
    <2> QED
      BY <2>2 DEF ExchangeStep, Protocol!Next
  <1>4. CASE IoReset \/ Restart
    <2>1. link' = "ready" /\ tx_initialized' \in {FALSE, tx_initialized}
      BY <1>4 DEF IoReset, Restart, LinkDown, appVars
    <2>2. Protocol!Reset
      BY <2>1 DEF Protocol!Reset
    <2> QED
      BY <2>2 DEF ExchangeStep, Protocol!Next
  <1> QED
    BY <1>1, <1>2, <1>3, <1>4

(***************************************************************************)
(* Whatever the host, the user, the transport and the device do and in     *)
(* whatever order, a command gets at most one answer, the user is asked    *)
(* only about a whole upload that has just ended or an address, and an     *)
(* upload opens only with the OK of an INIT (apdu_handler.c:51-129,        *)
(* 162-222, actions.h:43-72).                                              *)
(***************************************************************************)
THEOREM AppKeepsProtocol == Spec => KeepsProtocol
  <1>1. Init => Protocol!Init
    BY DEF Init, AppStart, Protocol!Init
  <1>2. IInv /\ [Next]_vars => [Protocol!Next]_(Protocol!vars)
    <2> SUFFICES ASSUME IInv, [Next]_vars PROVE ExchangeStep
      BY DEF ExchangeStep
    <2>1. CASE UNCHANGED vars
      BY <2>1, StillIsStep DEF vars, appVars, linkVars, hostVars
    <2> QED
      BY <2>1, PlainKeeps, AddressKeeps, SignKeeps, UserKeeps, EnvironmentKeeps
         DEF Next, handleApdu
  <1> QED
    BY <1>1, <1>2, Invariance, PTL DEF Spec, KeepsProtocol, Protocol!Spec
===============================================================================
