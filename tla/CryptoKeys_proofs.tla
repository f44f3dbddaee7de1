--------------------------- MODULE CryptoKeys_proofs ---------------------------
(***************************************************************************)
(* The properties of CryptoKeys, for all sizes and all lengths of address, *)
(* by one inductive invariant.                                             *)
(***************************************************************************)
EXTENDS CryptoKeys, TLAPS

(***************************************************************************)
(* What the properties at the end of a call rest on while it runs: which   *)
(* call belongs to which caller, that the length was reset when an address *)
(* was begun, and what the buffer holds whenever the error is cleared.     *)
(***************************************************************************)
CallUnderWay ==
    /\ pc \in {"cx_ecfp_generate_pair", "crypto_computeAddress"} =>
           caller = "app_fill_address"
    /\ pc = "cx_eddsa_sign" => caller = "app_sign"
    /\ pc \in Calls /\ caller = "app_fill_address" => action_addrResponseLen = 0
    /\ pc \in Calls \ {"catch_cx_error", "crypto_computeAddress"} =>
           error = "zxerr_unknown"
    /\ pc = "crypto_computeAddress" => error = "zxerr_ok"

ErrorTells ==
    /\ pc = "catch_cx_error" /\ error = "zxerr_ok" /\ caller = "app_sign" =>
           buffer = Holds("signature", ED25519_SIGNATURE_SIZE)
    /\ pc = "respond" /\ error = "zxerr_ok" =>
           IF caller = "app_sign"
           THEN buffer = Holds("signature", ED25519_SIGNATURE_SIZE)
           ELSE /\ buffer = Holds("address", action_addrResponseLen)
                /\ action_addrResponseLen # 0
    /\ answer.sw = "OK" => pc = "answered"

KeysInv ==
    /\ KeysTypeOK
    /\ SecretsWiped
    /\ AnswerIsWhole
    /\ FailureLeavesNothing
    /\ LengthIsOfThisAddress
    /\ CallUnderWay
    /\ ErrorTells

(***************************************************************************)
(* A new application has used no key.                                      *)
(***************************************************************************)
LEMMA KeysInit == Init => KeysInv
  BY DEF Init, KeysInv, KeysTypeOK, SecretsWiped, AnswerIsWhole, FailureLeavesNothing,
     LengthIsOfThisAddress, CallUnderWay, ErrorTells, Calls, AddrResponseLen,
     Command, Holds, NoReply, Reply, BufferType, AnswerType

(***************************************************************************)
(* What the lengths of answers are, so that the set of them need not be    *)
(* taken apart below.                                                      *)
(***************************************************************************)
LEMMA AnswerLengths ==
    /\ 0 \in AddrResponseLen
    /\ AddrResponseLen \subseteq Nat
    /\ \A len \in AddressLen :
          PK_LEN_25519 + len \in AddrResponseLen /\ PK_LEN_25519 + len # 0
    /\ ED25519_SIGNATURE_SIZE \in Nat
    /\ PK_LEN_25519 \in Nat
  BY KeyAssumption DEF AddrResponseLen

(***************************************************************************)
(* The same for what the buffer may hold.                                  *)
(***************************************************************************)
LEMMA BufferHolds ==
    /\ {Blank, Command} \subseteq BufferType
    /\ Holds("public key", PK_LEN_25519) \in BufferType
    /\ Holds("signature", ED25519_SIGNATURE_SIZE) \in BufferType
    /\ Holds("part of a signature", 1) \in BufferType
    /\ \A len \in AddressLen : Holds("address", PK_LEN_25519 + len) \in BufferType
    /\ \A is, len : Holds(is, len).len = len
  <1>1. /\ PK_LEN_25519 \in Nat /\ ED25519_SIGNATURE_SIZE \in Nat
        /\ 0 \in Nat /\ 1 \in Nat
    BY KeyAssumption
  <1>2. \A is \in {"command", "blank", "public key", "address", "signature",
                "part of a signature"}, len \in Nat : Holds(is, len) \in BufferType
    BY DEF BufferType, Holds
  <1>3. \A is, len : Holds(is, len).len = len
    BY DEF Holds
  <1>4. ASSUME NEW len \in AddressLen
        PROVE  Holds("address", PK_LEN_25519 + len) \in BufferType
    <2>1. PK_LEN_25519 + len \in Nat
      BY KeyAssumption
    <2> QED
      BY <1>2, <2>1
  <1> QED
    BY <1>1, <1>2, <1>3, <1>4 DEF Blank, Command

(***************************************************************************)
(* The same for the answers.                                               *)
(***************************************************************************)
LEMMA AnswerIs ==
    /\ NoReply \in AnswerType /\ NoReply.sw = "none"
    /\ Reply("OK", ED25519_SIGNATURE_SIZE) \in AnswerType
    /\ \A len \in AddrResponseLen : Reply("OK", len) \in AnswerType
    /\ Reply("SIGN_VERIFY_ERROR", 0) \in AnswerType
    /\ Reply("EXECUTION_ERROR", 0) \in AnswerType
    /\ \A sw, len : Reply(sw, len).sw = sw /\ Reply(sw, len).len = len
  <1> DEFINE Len == AddrResponseLen \cup {ED25519_SIGNATURE_SIZE}
  <1>1. 0 \in Len /\ ED25519_SIGNATURE_SIZE \in Len /\ AddrResponseLen \subseteq Len
    BY AnswerLengths
  <1>2. AnswerType = [sw : {"none", "OK", "SIGN_VERIFY_ERROR", "EXECUTION_ERROR"},
                      len : Len]
    BY DEF AnswerType
  <1> HIDE DEF Len
  <1>3. NoReply \in AnswerType /\ NoReply.sw = "none"
    BY <1>1, <1>2 DEF NoReply, Reply
  <1>4. \A len \in Len, sw \in {"OK", "SIGN_VERIFY_ERROR", "EXECUTION_ERROR"} :
            Reply(sw, len) \in AnswerType
    BY <1>2 DEF Reply
  <1>5. \A sw, len : Reply(sw, len).sw = sw /\ Reply(sw, len).len = len
    BY DEF Reply
  <1> QED
    BY <1>1, <1>3, <1>4, <1>5

(***************************************************************************)
(* Every call, failed or not, preserves the types.                         *)
(***************************************************************************)
LEMMA KeysTypeStep == KeysTypeOK /\ [Next]_vars => KeysTypeOK'
  <1> SUFFICES ASSUME KeysTypeOK, [Next]_vars
               PROVE  KeysTypeOK'
    OBVIOUS
  <1> USE AnswerLengths, BufferHolds, AnswerIs
          DEF KeysTypeOK, Calls, stack, output, kept
  <1>1. CASE app_sign
    BY <1>1 DEF app_sign, EnterKeyFunction
  <1>2. CASE app_fill_address
    BY <1>2 DEF app_fill_address, EnterKeyFunction, ResetLength
  <1>3. CASE os_derive_bip32
    BY <1>3 DEF os_derive_bip32
  <1>4. CASE cx_ecfp_init_private_key
    BY <1>4 DEF cx_ecfp_init_private_key
  <1>5. CASE cx_ecfp_generate_pair
    BY <1>5 DEF cx_ecfp_generate_pair
  <1>6. CASE cx_eddsa_sign
    BY <1>6 DEF cx_eddsa_sign
  <1>7. CASE catch_cx_error
    BY <1>7 DEF catch_cx_error, WipeKeys, WipeOutput
  <1>8. CASE crypto_computeAddress
    BY <1>8 DEF crypto_computeAddress, addrResponseLen
  <1>9. CASE Respond
    BY <1>9 DEF Respond, SignReply, AddressReply
  <1>10. CASE NextCommand
    BY <1>10 DEF NextCommand
  <1>11. CASE UNCHANGED vars
    BY <1>11 DEF vars
  <1> QED
    BY <1>1, <1>2, <1>3, <1>4, <1>5, <1>6, <1>7, <1>8, <1>9, <1>10, <1>11 DEF Next

(***************************************************************************)
(* Every call, failed or not, preserves the invariant.                     *)
(***************************************************************************)
LEMMA KeysStep == KeysInv /\ [Next]_vars => KeysInv'
  <1> SUFFICES ASSUME KeysInv, [Next]_vars
               PROVE  KeysInv'
    OBVIOUS
  <1>0. KeysTypeOK'
    BY KeysTypeStep DEF KeysInv
  <1> USE <1>0 DEF KeysInv, SecretsWiped, AnswerIsWhole, FailureLeavesNothing,
          LengthIsOfThisAddress, CallUnderWay, ErrorTells, Calls, stack, output, kept
  <1>1. CASE app_sign
    BY <1>1 DEF app_sign, EnterKeyFunction
  <1>2. CASE app_fill_address
    BY <1>2 DEF app_fill_address, EnterKeyFunction, ResetLength
  <1>3. CASE os_derive_bip32
    BY <1>3 DEF os_derive_bip32
  <1>4. CASE cx_ecfp_init_private_key
    <2>1. CASE pc' = "catch_cx_error"
      BY <1>4, <2>1 DEF cx_ecfp_init_private_key
    <2>2. CASE caller = "app_sign" /\ pc' = "cx_eddsa_sign"
      BY <1>4, <2>2 DEF cx_ecfp_init_private_key
    <2>3. CASE caller # "app_sign" /\ pc' = "cx_ecfp_generate_pair"
      <3>1. caller = "app_fill_address"
        BY <2>3 DEF KeysTypeOK
      <3> QED
        BY <1>4, <2>3, <3>1 DEF cx_ecfp_init_private_key
    <2> QED
      BY <1>4, <2>1, <2>2, <2>3 DEF cx_ecfp_init_private_key
  <1>5. CASE cx_ecfp_generate_pair
    BY <1>5 DEF cx_ecfp_generate_pair
  <1>6. CASE cx_eddsa_sign
    BY <1>6 DEF cx_eddsa_sign
  <1>7. CASE catch_cx_error
    <2>1. caller \in {"app_sign", "app_fill_address"}
      BY DEF KeysTypeOK
    <2>2. CASE error = "zxerr_ok" /\ caller = "app_sign"
      BY <1>7, <2>2 DEF catch_cx_error, WipeKeys, WipeOutput
    <2>3. CASE error = "zxerr_ok" /\ caller = "app_fill_address"
      BY <1>7, <2>3 DEF catch_cx_error, WipeKeys, WipeOutput
    <2>4. CASE error # "zxerr_ok"
      BY <1>7, <2>1, <2>4 DEF catch_cx_error, WipeKeys, WipeOutput
    <2> QED
      BY <2>1, <2>2, <2>3, <2>4
  <1>8. CASE crypto_computeAddress
    BY <1>8, BufferHolds, AnswerLengths DEF crypto_computeAddress, addrResponseLen
  <1>9. CASE Respond
    BY <1>9, AnswerIs DEF Respond, SignReply, AddressReply
  <1>10. CASE NextCommand
    BY <1>10, AnswerIs DEF NextCommand
  <1>11. CASE UNCHANGED vars
    BY <1>11 DEF vars
  <1> QED
    BY <1>1, <1>2, <1>3, <1>4, <1>5, <1>6, <1>7, <1>8, <1>9, <1>10, <1>11 DEF Next

(***************************************************************************)
(* Seed and private key are wiped on every way out of the key functions    *)
(* (crypto.c:51-53, 81-83).                                                *)
(***************************************************************************)
THEOREM KeysAreWiped == Spec => []SecretsWiped
  <1>1. KeysInv => SecretsWiped
    BY DEF KeysInv
  <1> QED
    BY <1>1, KeysInit, KeysStep, PTL DEF Spec

(***************************************************************************)
(* An answer with OK carries the whole result of the call it answers       *)
(* (actions.h:43-67).                                                      *)
(***************************************************************************)
THEOREM AnswersAreWhole == Spec => []AnswerIsWhole
  <1>1. KeysInv => AnswerIsWhole
    BY DEF KeysInv
  <1> QED
    BY <1>1, KeysInit, KeysStep, PTL DEF Spec

(***************************************************************************)
(* A use that failed leaves nothing of a signature or a public key in the  *)
(* buffer (crypto.c:55-57, 85-87, 106-109).                                *)
(***************************************************************************)
THEOREM FailuresLeaveNothing == Spec => []FailureLeavesNothing
  <1>1. KeysInv => FailureLeavesNothing
    BY DEF KeysInv
  <1> QED
    BY <1>1, KeysInit, KeysStep, PTL DEF Spec

(***************************************************************************)
(* The length of an address is never that of an earlier one                *)
(* (actions.h:33-38).                                                      *)
(***************************************************************************)
THEOREM LengthsAreOwn == Spec => []LengthIsOfThisAddress
  <1>1. KeysInv => LengthIsOfThisAddress
    BY DEF KeysInv
  <1> QED
    BY <1>1, KeysInit, KeysStep, PTL DEF Spec

(***************************************************************************)
(* Types, and the room an answer needs (crypto.c:92-119, actions.h:47-54). *)
(***************************************************************************)
THEOREM KeysTypeCorrect == Spec => []KeysTypeOK
  <1>1. KeysInv => KeysTypeOK
    BY DEF KeysInv
  <1> QED
    BY <1>1, KeysInit, KeysStep, PTL DEF Spec

-------------------------------------------------------------------------------
(* Every use is one step of KeyService. *)

ServiceStep == [Service!Next]_(Service!vars)

Use == IF InUse THEN caller ELSE "none"

LEMMA ServiceVars ==
    /\ Service!vars = <<Use, Told>>
    /\ Service!NoAnswer = [sw |-> "none", is |-> "nothing", len |-> 0]
    /\ pc # "answered" => Told = Service!NoAnswer
  BY DEF Service!vars, Service!NoAnswer, Use, Told

LEMMA UseStarts ==
    ASSUME EnterKeyFunction, caller' \in {"app_sign", "app_fill_address"}
    PROVE  ServiceStep
  <1>1. /\ Use = "none" /\ Told = Service!NoAnswer
        /\ Use' = caller' /\ Told' = Told
    BY DEF EnterKeyFunction, Use, InUse, Told, Service!NoAnswer
  <1>2. Service!Ask(caller')
    BY <1>1 DEF Service!Ask, Use
  <1> QED
    BY <1>2 DEF ServiceStep, Service!Next

(***************************************************************************)
(* Between its first call and its answer nothing of a use is seen.         *)
(***************************************************************************)
LEMMA UseGoesOn ==
    ASSUME InUse, InUse', caller' = caller PROVE ServiceStep
  <1>1. Use' = Use /\ Told' = Told
    BY DEF Use, Told, InUse
  <1> QED
    BY <1>1, ServiceVars DEF ServiceStep, Use, Service!vars

(***************************************************************************)
(* The answer of a use that went well has all of its result, and the       *)
(* answer of one that failed finds a blank buffer.                         *)
(***************************************************************************)
LEMMA UseServed == ASSUME KeysInv, Respond PROVE ServiceStep
  <1>1. /\ caller \in {"app_sign", "app_fill_address"} /\ pc = "respond"
        /\ pc' = "answered" /\ buffer' = buffer
        /\ answer' = IF caller = "app_sign" THEN SignReply ELSE AddressReply
    BY DEF KeysInv, KeysTypeOK, Respond, output
  <1>2. Use = caller /\ Use' = "none" /\ caller # "none"
    BY <1>1 DEF Use, InUse
  <1>3. Told' = [sw |-> answer'.sw, is |-> buffer.is, len |-> buffer.len]
    BY <1>1 DEF Told
  <1>4. Told' \in Service!Whole(caller) \cup {Service!Failure(caller)}
    <2>1. CASE error # "zxerr_ok"
      <3>1. buffer = Blank
        BY <1>1, <2>1 DEF KeysInv, FailureLeavesNothing
      <3>2. Told' = Service!Failure(caller)
        BY <1>1, <1>3, <2>1, <3>1
           DEF SignReply, AddressReply, Reply, Blank, Holds, Service!Failure
      <3> QED
        BY <3>2
    <2>2. CASE error = "zxerr_ok" /\ caller = "app_sign"
      <3>1. buffer = Holds("signature", ED25519_SIGNATURE_SIZE)
        BY <1>1, <2>2 DEF KeysInv, ErrorTells
      <3> QED
        BY <1>1, <1>3, <2>2, <3>1 DEF SignReply, Reply, Holds, Service!Whole
    <2>3. CASE error = "zxerr_ok" /\ caller = "app_fill_address"
      <3>1. /\ buffer = Holds("address", action_addrResponseLen)
            /\ action_addrResponseLen # 0
        BY <1>1, <2>3 DEF KeysInv, ErrorTells
      <3>2. PICK len \in AddressLen : action_addrResponseLen = PK_LEN_25519 + len
        BY <3>1 DEF KeysInv, KeysTypeOK, AddrResponseLen
      <3>3. Told' = [sw |-> "OK", is |-> "address", len |-> PK_LEN_25519 + len]
        BY <1>1, <1>3, <2>3, <3>1, <3>2 DEF AddressReply, Reply, Holds
      <3> QED
        BY <2>3, <3>3 DEF Service!Whole
    <2> QED
      BY <1>1, <2>1, <2>2, <2>3
  <1>5. Service!Serve
    BY <1>2, <1>4 DEF Service!Serve, Use
  <1> QED
    BY <1>5 DEF ServiceStep, Service!Next

LEMMA AnswerHeard == ASSUME NextCommand PROVE ServiceStep
  <1>1. Use' = Use /\ Told' = Service!NoAnswer
    BY ServiceVars DEF NextCommand, Use, InUse, Told, Service!NoAnswer
  <1>2. CASE Told = Service!NoAnswer
    BY <1>1, <1>2 DEF ServiceStep, Use, Service!vars
  <1>3. CASE Told # Service!NoAnswer
    BY <1>1, <1>3 DEF ServiceStep, Service!Next, Service!Heard, Use
  <1> QED
    BY <1>2, <1>3

LEMMA KeysServe == KeysInv /\ [Next]_vars => ServiceStep
  <1> SUFFICES ASSUME KeysInv, [Next]_vars PROVE ServiceStep
    OBVIOUS
  <1>1. CASE app_sign \/ app_fill_address
    BY <1>1, UseStarts DEF app_sign, app_fill_address
  <1>2. CASE os_derive_bip32 \/ cx_ecfp_init_private_key \/ cx_ecfp_generate_pair
             \/ cx_eddsa_sign \/ catch_cx_error \/ crypto_computeAddress
    <2>1. InUse /\ InUse' /\ caller' = caller
      BY <1>2 DEF os_derive_bip32, cx_ecfp_init_private_key, cx_ecfp_generate_pair,
                  cx_eddsa_sign, catch_cx_error, crypto_computeAddress, InUse, kept
    <2> QED
      BY <2>1, UseGoesOn
  <1>3. CASE Respond
    BY <1>3, UseServed
  <1>4. CASE NextCommand
    BY <1>4, AnswerHeard
  <1>5. CASE UNCHANGED vars
    <2>1. Use' = Use /\ Told' = Told
      BY <1>5 DEF vars, kept, output, Use, Told, InUse
    <2> QED
      BY <2>1 DEF ServiceStep, Use, Service!vars
  <1> QED
    BY <1>1, <1>2, <1>3, <1>4, <1>5 DEF Next

(***************************************************************************)
(* Whatever fails on the way, a use of a key is for its caller one step    *)
(* that yields all of the result or an error and a blank buffer            *)
(* (crypto.c:25-120, actions.h:29-56).                                     *)
(***************************************************************************)
THEOREM KeysImplementService == Spec => ImplementsKeyService
  <1>1. Init => Service!Init
    BY DEF Init, InUse, Told, Service!Init, Service!NoAnswer
  <1>2. KeysInv /\ [Next]_vars => [Service!Next]_(Service!vars)
    BY KeysServe DEF ServiceStep
  <1> QED
    BY <1>1, <1>2, KeysInit, KeysStep, PTL
       DEF Spec, ImplementsKeyService, Service!Spec
===============================================================================
