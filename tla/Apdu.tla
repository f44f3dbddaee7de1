--------------------------------- MODULE Apdu ---------------------------------
(***************************************************************************)
(* Commands of the host, answers of the application and derivation paths,  *)
(* as apdu_handler.c, coin.h and docs/APDUSPEC.md lay them out.  Header    *)
(* bytes that no handler tells apart are merged; a payload is a sequence   *)
(* of words, the first three of which are the path where one is expected.  *)
(***************************************************************************)
EXTENDS Payloads

CONSTANTS Command,            \* the commands the host may send
          HDPATH_0_DEFAULT,   \* the two path words this application owns
          HDPATH_1_DEFAULT,
          ADDR_RESPONSE_LEN   \* bytes of a public key and its address

HDPATH_LEN_DEFAULT == 3
SK_LEN_25519 == 64
VERSION_LEN == 12
ERROR_TEXT_LEN == 25          \* "Initialized empty context"

P1_INIT == 0
P1_ADD  == 1
P1_LAST == 2

Instruction == {"INS_GET_VERSION", "INS_GET_ADDR", "INS_SIGN", "INS_OTHER"}

(***************************************************************************)
(* cla: is the class byte ours?  whole: is the header complete?            *)
(***************************************************************************)
CommandType == [cla : BOOLEAN, whole : BOOLEAN, ins : Instruction,
                p1 : 0..255, payload : Payload]

ASSUME ApduAssumption ==
    /\ Command \subseteq CommandType
    /\ {HDPATH_0_DEFAULT, HDPATH_1_DEFAULT} \subseteq Word
    /\ ADDR_RESPONSE_LEN \in Nat \ {0}

StatusWord == {"OK", "CLA_NOT_SUPPORTED", "INS_NOT_SUPPORTED", "INVALIDP1P2",
               "WRONG_LENGTH", "DATA_INVALID", "TX_NOT_INITIALIZED",
               "OUTPUT_BUFFER_TOO_SMALL", "COMMAND_NOT_ALLOWED",
               "EXECUTION_ERROR", "SIGN_VERIFY_ERROR"}

(***************************************************************************)
(* What an answer carries besides its status word.  An address stands for  *)
(* the key it was derived from, a signature for the key and the message.   *)
(***************************************************************************)
BodyType == [is : {"nothing", "version", "address", "signature", "message",
                   "error_text"},
             path : Seq(Word), msg : Seq(Word)]

Body(is, path, msg) == [is |-> is, path |-> path, msg |-> msg]

Nothing             == Body("nothing", <<>>, <<>>)
Version             == Body("version", <<>>, <<>>)
ErrorText           == Body("error_text", <<>>, <<>>)
Address(path)       == Body("address", path, <<>>)
Message(msg)        == Body("message", <<>>, msg)
Signature(path, msg) == Body("signature", path, msg)

(***************************************************************************)
(* extractHDPath: a payload shorter than a path is refused; the words      *)
(* after the path are ignored; only the first two words are compared.      *)
(***************************************************************************)
PathTooShort(payload) == Len(payload) < HDPATH_LEN_DEFAULT

PathOf(payload) == SubSeq(payload, 1, HDPATH_LEN_DEFAULT)

Mainnet(path) == path[1] = HDPATH_0_DEFAULT /\ path[2] = HDPATH_1_DEFAULT
===============================================================================
