------------------------------ MODULE CryptoKeys -------------------------------
(***************************************************************************)
(* One use of a key after another: crypto_sign and crypto_fillAddress      *)
(* (crypto.c), called by app_sign and app_fill_address (actions.h), with   *)
(* every call of the device's cryptography that may fail on the way.       *)
(* SovereignApp takes each use as one step that succeeds or fails.         *)
(*                                                                         *)
(* The checks of pointers and sizes at the head of these functions pass    *)
(* for the only buffer they are given, G_io_apdu_buffer, and for a message *)
(* that was parsed, which is not empty: the assumption says so.            *)
(***************************************************************************)
EXTENDS Naturals

CONSTANTS AddressLen,           \* lengths an encoded address may have
          PK_LEN_25519,
          ADDRESS_MAX_LENGTH,
          ED25519_SIGNATURE_SIZE,
          IO_APDU_BUFFER_SIZE

ASSUME KeyAssumption ==
    /\ {PK_LEN_25519, ADDRESS_MAX_LENGTH, ED25519_SIGNATURE_SIZE,
        IO_APDU_BUFFER_SIZE} \subseteq Nat \ {0}
    /\ AddressLen \subseteq 1..(ADDRESS_MAX_LENGTH - 1)
    /\ PK_LEN_25519 + ADDRESS_MAX_LENGTH <= IO_APDU_BUFFER_SIZE
    /\ ED25519_SIGNATURE_SIZE <= IO_APDU_BUFFER_SIZE - 3

VARIABLES
    pc,              \* idle, or the call that comes next
    caller,          \* app_sign or app_fill_address
    privateKeyData,  \* on the stack: blank, secret, or whatever was there
    cx_privateKey,
    buffer,          \* what G_io_apdu_buffer holds, and how much of it
    error,
    action_addrResponseLen,
    answer           \* status word and length, "none" between commands

stack  == <<privateKeyData, cx_privateKey>>
output == <<buffer, error>>
kept   == <<caller, action_addrResponseLen, answer>>
vars   == <<pc, stack, output, kept>>

Holds(is, len) == [is |-> is, len |-> len]
Blank          == Holds("blank", 0)
Command        == Holds("command", 0)

Reply(sw, len) == [sw |-> sw, len |-> len]
NoReply        == Reply("none", 0)

Init ==
    /\ pc = "idle"
    /\ caller = "app_sign"
    /\ privateKeyData = "garbage" /\ cx_privateKey = "garbage"
    /\ buffer = Command
    /\ error = "zxerr_ok"
    /\ action_addrResponseLen = 0
    /\ answer = NoReply

(***************************************************************************)
(* The stack frame of a key function: privateKeyData starts as zeros,      *)
(* cx_privateKey is not initialized.                                       *)
(***************************************************************************)
EnterKeyFunction ==
    /\ pc = "idle"
    /\ pc' = "os_derive_bip32"
    /\ privateKeyData' = "blank"
    /\ error' = "zxerr_unknown"
    /\ UNCHANGED <<cx_privateKey, answer>>

app_sign ==
    /\ EnterKeyFunction
    /\ caller' = "app_sign"
    /\ UNCHANGED <<buffer, action_addrResponseLen>>

ResetLength_forgotten == UNCHANGED action_addrResponseLen
ResetLength == action_addrResponseLen' = 0

app_fill_address ==
    /\ EnterKeyFunction
    /\ caller' = "app_fill_address"
    /\ buffer' = Blank
    /\ ResetLength

-------------------------------------------------------------------------------
(* The calls between EnterKeyFunction and the label catch_cx_error.  One    *)
(* that fails may have written what it was to write, or not.                *)

os_derive_bip32 ==
    /\ pc = "os_derive_bip32"
    /\ \/ privateKeyData' = "secret" /\ pc' = "cx_ecfp_init_private_key"
       \/ privateKeyData' \in {"blank", "secret"} /\ pc' = "catch_cx_error"
    /\ UNCHANGED <<cx_privateKey, output, kept>>

cx_ecfp_init_private_key ==
    /\ pc = "cx_ecfp_init_private_key"
    /\ \/ /\ cx_privateKey' = "secret"
          /\ pc' = IF caller = "app_sign" THEN "cx_eddsa_sign"
                   ELSE "cx_ecfp_generate_pair"
       \/ cx_privateKey' \in {cx_privateKey, "secret"} /\ pc' = "catch_cx_error"
    /\ UNCHANGED <<privateKeyData, output, kept>>

(***************************************************************************)
(* cx_ecfp_init_public_key and cx_ecfp_generate_pair, which can only fail  *)
(* alike; the public key is copied to the buffer only when the pair is     *)
(* there.                                                                  *)
(***************************************************************************)
cx_ecfp_generate_pair ==
    /\ pc = "cx_ecfp_generate_pair"
    /\ pc' = "catch_cx_error"
    /\ \/ buffer' = Holds("public key", PK_LEN_25519) /\ error' = "zxerr_ok"
       \/ UNCHANGED output
    /\ UNCHANGED <<stack, kept>>

cx_eddsa_sign ==
    /\ pc = "cx_eddsa_sign"
    /\ pc' = "catch_cx_error"
    /\ \/ buffer' = Holds("signature", ED25519_SIGNATURE_SIZE) /\ error' = "zxerr_ok"
       \/ buffer' \in {buffer, Holds("part of a signature", 1)} /\ UNCHANGED error
    /\ UNCHANGED <<stack, kept>>

-------------------------------------------------------------------------------
(***************************************************************************)
(* catch_cx_error: reached by falling through as well as by every failure. *)
(***************************************************************************)
WipeKeys_onlyOnError ==
    IF error = "zxerr_ok" THEN UNCHANGED stack
    ELSE cx_privateKey' = "blank" /\ privateKeyData' = "blank"

WipeKeys == cx_privateKey' = "blank" /\ privateKeyData' = "blank"

WipeOutput_forgotten == UNCHANGED buffer
WipeOutput == buffer' = IF error = "zxerr_ok" THEN buffer ELSE Blank

catch_cx_error ==
    /\ pc = "catch_cx_error"
    /\ WipeKeys /\ WipeOutput
    /\ pc' = IF caller = "app_fill_address" /\ error = "zxerr_ok"
             THEN "crypto_computeAddress" ELSE "respond"
    /\ UNCHANGED <<error, kept>>

(***************************************************************************)
(* The rest of crypto_fillAddress: hash and encode the public key, and put *)
(* the address after it.  An address too long for the buffer, which        *)
(* KeyAssumption excludes, would end as a failed encoding does: with the   *)
(* buffer cleared and an error.                                            *)
(***************************************************************************)
addrResponseLen_withoutKey(len) == len
addrResponseLen(len) == PK_LEN_25519 + len

crypto_computeAddress ==
    /\ pc = "crypto_computeAddress"
    /\ pc' = "respond"
    /\ \/ /\ buffer' = Blank
          /\ error' = "zxerr_encoding_failed"
          /\ UNCHANGED action_addrResponseLen
       \/ \E len \in AddressLen :
             /\ buffer' = Holds("address", PK_LEN_25519 + len)
             /\ action_addrResponseLen' = addrResponseLen(len)
             /\ UNCHANGED error
    /\ UNCHANGED <<caller, stack, answer>>

-------------------------------------------------------------------------------
(* What the callers answer. *)

SignReply_ignoresError == Reply("OK", ED25519_SIGNATURE_SIZE)

SignReply ==
    IF error = "zxerr_ok" THEN Reply("OK", ED25519_SIGNATURE_SIZE)
    ELSE Reply("SIGN_VERIFY_ERROR", 0)

AddressReply ==
    IF error = "zxerr_ok" /\ action_addrResponseLen # 0
    THEN Reply("OK", action_addrResponseLen)
    ELSE Reply("EXECUTION_ERROR", 0)

Respond ==
    /\ pc = "respond"
    /\ pc' = "answered"
    /\ answer' = IF caller = "app_sign" THEN SignReply ELSE AddressReply
    /\ UNCHANGED <<caller, action_addrResponseLen, stack, output>>

(***************************************************************************)
(* The answer is sent, another command comes in.                           *)
(***************************************************************************)
NextCommand ==
    /\ pc = "answered"
    /\ pc' = "idle"
    /\ buffer' = Command
    /\ answer' = NoReply
    /\ UNCHANGED <<caller, action_addrResponseLen, stack, error>>

Next ==
    \/ app_sign \/ app_fill_address
    \/ os_derive_bip32 \/ cx_ecfp_init_private_key
    \/ cx_ecfp_generate_pair \/ cx_eddsa_sign
    \/ catch_cx_error \/ crypto_computeAddress
    \/ Respond \/ NextCommand

Spec == Init /\ [][Next]_vars

-------------------------------------------------------------------------------
Calls == {"os_derive_bip32", "cx_ecfp_init_private_key", "cx_ecfp_generate_pair",
          "cx_eddsa_sign", "catch_cx_error", "crypto_computeAddress"}

AddrResponseLen == {0} \cup {PK_LEN_25519 + len : len \in AddressLen}

BufferType == [is : {"command", "blank", "public key", "address", "signature",
                     "part of a signature"}, len : Nat]

AnswerType == [sw : {"none", "OK", "SIGN_VERIFY_ERROR", "EXECUTION_ERROR"},
               len : AddrResponseLen \cup {ED25519_SIGNATURE_SIZE}]

(***************************************************************************)
(* Types; an address answer has room for the public key and the address.   *)
(***************************************************************************)
KeysTypeOK ==
    /\ pc \in Calls \cup {"idle", "respond", "answered"}
    /\ caller \in {"app_sign", "app_fill_address"}
    /\ privateKeyData \in {"garbage", "blank", "secret"}
    /\ cx_privateKey \in {"garbage", "blank", "secret"}
    /\ buffer \in BufferType
    /\ error \in {"zxerr_ok", "zxerr_unknown", "zxerr_encoding_failed"}
    /\ action_addrResponseLen \in AddrResponseLen
    /\ answer \in AnswerType

(***************************************************************************)
(* Whichever call failed, seed and private key are wiped before the key    *)
(* functions return: nothing secret is on the stack while an address is    *)
(* encoded, an answer is sent or a command awaited (crypto.c:51-53, 81-83).*)
(***************************************************************************)
SecretsWiped ==
    pc \in {"idle", "crypto_computeAddress", "respond", "answered"} =>
        "secret" \notin {privateKeyData, cx_privateKey}

(***************************************************************************)
(* What is sent with OK is a whole signature, or a public key with all of  *)
(* its address, made by the call that is answered (actions.h:43-67).       *)
(***************************************************************************)
AnswerIsWhole ==
    answer.sw = "OK" =>
        buffer = Holds(IF caller = "app_sign" THEN "signature" ELSE "address",
                       answer.len)

(***************************************************************************)
(* A use that failed leaves neither a part of a signature nor a public key *)
(* in the buffer (crypto.c:55-57, 85-87, 106-109).                         *)
(***************************************************************************)
FailureLeavesNothing ==
    pc = "respond" /\ error # "zxerr_ok" => buffer = Blank

(***************************************************************************)
(* The length app_reply_address will send is that of the address in the    *)
(* buffer, never one left over from an earlier address (actions.h:33-38).  *)
(***************************************************************************)
LengthIsOfThisAddress ==
    pc = "respond" /\ caller = "app_fill_address" =>
        action_addrResponseLen = IF error = "zxerr_ok" THEN buffer.len ELSE 0

(***************************************************************************)
(* Each use is one step that succeeds or fails, as SovereignApp takes it:  *)
(* KeyService, with what the buffer holds as the content of the answer     *)
(* (crypto.c:25-120, actions.h:29-56).                                     *)
(***************************************************************************)
InUse == pc \notin {"idle", "answered"}

Told == IF pc = "answered" THEN [sw |-> answer.sw, is |-> buffer.is, len |-> buffer.len]
        ELSE [sw |-> "none", is |-> "nothing", len |-> 0]

Service == INSTANCE KeyService WITH
             use <- IF InUse THEN caller ELSE "none", told <- Told

ImplementsKeyService == Service!Spec
===============================================================================
