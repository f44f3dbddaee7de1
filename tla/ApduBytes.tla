------------------------------- MODULE ApduBytes -------------------------------
(***************************************************************************)
(* Commands and answers as bytes of G_io_apdu_buffer: which bytes a        *)
(* handler may take from it, which it has written when it answers, and     *)
(* which two it ends with (apdu_handler.c, actions.h).  SovereignApp says  *)
(* what the answers mean; here they are ranges of bytes, each tagged with  *)
(* where it comes from, because the buffer is never cleared between a      *)
(* command and its answer, nor between an answer and the next command.     *)
(***************************************************************************)
EXTENDS Naturals

CONSTANTS RxLen,                \* how many bytes a command may have
          Header,               \* the class, instruction and P1 bytes to try
          AddressLen,           \* lengths of an encoded address
          SdkException,         \* what a call of the SDK may throw, 16 bits
          IO_APDU_BUFFER_SIZE,
          UINT32_RANGE          \* 2^32 in the build

CLA == 100
PK_LEN_25519 == 32
ADDRESS_MAX_LENGTH == 66
SK_LEN_25519 == 64
PATH_BYTES == 12                \* sizeof(uint32_t) * HDPATH_LEN_DEFAULT
OFFSET_DATA == 5
APDU_MIN_LENGTH == 5

APDU_CODE == [OK                      |-> 36864,   \* 0x9000
              EXECUTION_ERROR         |-> 25600,   \* 0x6400
              WRONG_LENGTH            |-> 26368,   \* 0x6700
              OUTPUT_BUFFER_TOO_SMALL |-> 27011,   \* 0x6983
              DATA_INVALID            |-> 27012,   \* 0x6984
              COMMAND_NOT_ALLOWED     |-> 27014,   \* 0x6986
              TX_NOT_INITIALIZED      |-> 27015,   \* 0x6987
              INVALIDP1P2             |-> 27392,   \* 0x6B00
              INS_NOT_SUPPORTED       |-> 27904,   \* 0x6D00
              CLA_NOT_SUPPORTED       |-> 28160,   \* 0x6E00
              SIGN_VERIFY_ERROR       |-> 28417]   \* 0x6F01

Code == {APDU_CODE[name] : name \in DOMAIN APDU_CODE}

Status == 0..65535
EXCEPTION_BASE == 26624         \* 0x6800
EXCEPTION_IO_RESET == 16        \* 0x10 in the device SDK
HeaderType == [cla : 0..255, ins : 0..255, p1 : 0..255]

ASSUME BytesAssumption ==
    /\ IO_APDU_BUFFER_SIZE \in Nat /\ UINT32_RANGE \in Nat
    /\ PK_LEN_25519 + ADDRESS_MAX_LENGTH + 3 <= IO_APDU_BUFFER_SIZE
    /\ IO_APDU_BUFFER_SIZE < UINT32_RANGE
    /\ RxLen \subseteq 0..IO_APDU_BUFFER_SIZE
    /\ Header \subseteq HeaderType
    /\ AddressLen \subseteq 1..(ADDRESS_MAX_LENGTH - 1)
    /\ SdkException \subseteq Status \ {0, APDU_CODE.OK}

VARIABLES
    stage,             \* ready, command, review, answer
    rx,                \* bytes received
    header,            \* the first bytes of the buffer, received or left over
    G_io_apdu_buffer,  \* for every byte, where it comes from
    tx,                \* bytes to send
    thrown,            \* the code that was thrown or set
    sw,                \* the status word it became
    taken,             \* where the bytes of the last path or chunk came from
    tx_initialized,
    held,              \* has the upload any byte?
    action_addrResponseLen,
    reviewing          \* nothing, message or address

staticVars == <<tx_initialized, held, action_addrResponseLen>>
vars == <<stage, rx, header, G_io_apdu_buffer, tx, thrown, sw, taken,
          staticVars, reviewing>>

Byte == 0..(IO_APDU_BUFFER_SIZE - 1)
Origin == {"stale", "received", "zero", "answer", "code"}

NoHeader == [cla |-> 0, ins |-> 0, p1 |-> 0]

Write(buffer, bytes, origin) ==
    [i \in DOMAIN buffer |-> IF i \in bytes THEN origin ELSE buffer[i]]

From(first, last) == {G_io_apdu_buffer[i] : i \in first..last}

MEMZERO_oneMore == [i \in 0..IO_APDU_BUFFER_SIZE |-> "zero"]
MEMZERO == [i \in Byte |-> "zero"]

Init ==
    /\ stage = "ready" /\ reviewing = "nothing"
    /\ rx = 0 /\ tx = 0
    /\ header = NoHeader
    /\ G_io_apdu_buffer = [i \in Byte |-> "zero"]
    /\ thrown = 0 /\ sw = 0
    /\ taken = {}
    /\ tx_initialized = FALSE /\ held = FALSE /\ action_addrResponseLen = 0

-------------------------------------------------------------------------------
(***************************************************************************)
(* CATCH_OTHER: exceptions 0x6xxx and 0x9xxx, the application codes and OK *)
(* among them, are status words already; of the 16 bits of any other the   *)
(* status word keeps eleven.                                               *)
(***************************************************************************)
Folded(e) == e \div 4096 \notin {6, 9}

StatusWord_unknown(e) == IF Folded(e) THEN 28416 ELSE e

StatusWord(e) == IF Folded(e) THEN EXCEPTION_BASE + (e % 2048) ELSE e

(***************************************************************************)
(* A status word set after the first n bytes of the buffer.                *)
(***************************************************************************)
set_code(buffer, n, code) ==
    /\ G_io_apdu_buffer' = Write(buffer, n..(n + 1), "code")
    /\ tx' = n + 2
    /\ sw' = code
    /\ stage' = "answer"
    /\ reviewing' = "nothing"
    /\ UNCHANGED <<rx, header>>

Throw(e, n, buffer) == thrown' = e /\ set_code(buffer, n, StatusWord(e))

(***************************************************************************)
(* Transport and screens start over; what is in the buffer is left over.   *)
(***************************************************************************)
StartOver ==
    /\ stage' = "ready" /\ reviewing' = "nothing"
    /\ G_io_apdu_buffer' = Write(G_io_apdu_buffer, Byte, "stale")
    /\ rx' = 0 /\ header' = NoHeader
    /\ tx' = 0 /\ thrown' = 0 /\ sw' = 0

(***************************************************************************)
(* An exception of the SDK inside a handler: EXCEPTION_IO_RESET is thrown  *)
(* again and has no answer, every other becomes a status word.             *)
(***************************************************************************)
ThrownBySdk(e, n, buffer) ==
    \/ e = EXCEPTION_IO_RESET /\ StartOver
    \/ e # EXCEPTION_IO_RESET /\ Throw(e, n, buffer)

Refuse(name) == Throw(APDU_CODE[name], 0, G_io_apdu_buffer)

Review(what, buffer) ==
    /\ G_io_apdu_buffer' = buffer
    /\ stage' = "review"
    /\ reviewing' = what
    /\ UNCHANGED <<rx, header, tx, thrown, sw>>

NothingTaken == taken' = {}

EndUpload_forgotten == UNCHANGED tx_initialized
EndUpload == tx_initialized' = FALSE

-------------------------------------------------------------------------------
(* handleApdu: the class is looked at before the length is, which with      *)
(* fewer than five bytes is a byte left over from before.                   *)

notForUs ==
    /\ stage = "command"
    /\ \/ header.cla # CLA /\ Refuse("CLA_NOT_SUPPORTED")
       \/ header.cla = CLA /\ rx < APDU_MIN_LENGTH /\ Refuse("WRONG_LENGTH")
       \/ /\ header.cla = CLA /\ rx >= APDU_MIN_LENGTH /\ header.ins \notin 0..2
          /\ Refuse("INS_NOT_SUPPORTED")
    /\ NothingTaken /\ UNCHANGED staticVars

Dispatched(ins) ==
    /\ stage = "command"
    /\ header.cla = CLA /\ rx >= APDU_MIN_LENGTH /\ header.ins = ins

pinNotValidated ==
    /\ Dispatched(1) \/ Dispatched(2)
    /\ Refuse("COMMAND_NOT_ALLOWED")
    /\ NothingTaken /\ UNCHANGED staticVars

handle_getversion_noTarget ==
    /\ Dispatched(0)
    /\ Throw(APDU_CODE.OK, 12, Write(G_io_apdu_buffer, 0..7, "answer"))
    /\ NothingTaken /\ UNCHANGED staticVars

handle_getversion ==
    /\ Dispatched(0)
    /\ Throw(APDU_CODE.OK, 12, Write(G_io_apdu_buffer, 0..11, "answer"))
    /\ NothingTaken /\ UNCHANGED staticVars

(***************************************************************************)
(* extractHDPath: unsigned subtraction, then the twelve bytes of a path.   *)
(***************************************************************************)
PathTooShort_fromZero == rx < PATH_BYTES

PathTooShort ==
    (rx + UINT32_RANGE - OFFSET_DATA) % UINT32_RANGE < PATH_BYTES

PathRefused ==
    \/ PathTooShort /\ Refuse("WRONG_LENGTH") /\ NothingTaken
    \/ /\ ~PathTooShort
       /\ taken' = From(OFFSET_DATA, OFFSET_DATA + PATH_BYTES - 1)
       /\ Refuse("DATA_INVALID")

PathTaken ==
    /\ ~PathTooShort
    /\ taken' = From(OFFSET_DATA, OFFSET_DATA + PATH_BYTES - 1)

(***************************************************************************)
(* app_fill_address clears the buffer, and public key and address go to    *)
(* its beginning.                                                          *)
(***************************************************************************)
AddressAt_uncleared(n) == Write(G_io_apdu_buffer, 0..(n - 1), "answer")
AddressAt(n) == Write(MEMZERO, 0..(n - 1), "answer")

handleGetAddr ==
    /\ Dispatched(1)
    /\ EndUpload
    /\ UNCHANGED held
    /\ \/ PathRefused /\ UNCHANGED action_addrResponseLen
       \/ /\ PathTaken
          /\ \/ \E e \in SdkException \cup {APDU_CODE.EXECUTION_ERROR} :
                   action_addrResponseLen' = 0 /\ ThrownBySdk(e, 0, MEMZERO)
             \/ \E len \in AddressLen :
                   LET n == PK_LEN_25519 + len
                   IN  /\ action_addrResponseLen' = n
                       /\ IF header.p1 # 0
                          THEN Review("address", AddressAt(n))
                          ELSE Throw(APDU_CODE.OK, n, AddressAt(n))

-------------------------------------------------------------------------------
(* handleSign *)

signInit ==
    /\ header.p1 = 0
    /\ held' = FALSE /\ UNCHANGED action_addrResponseLen
    /\ \/ PathRefused /\ EndUpload
       \/ PathTaken /\ Refuse("OK") /\ tx_initialized' = TRUE

signOther ==
    /\ \/ header.p1 \in {1, 2} /\ ~tx_initialized /\ Refuse("TX_NOT_INITIALIZED")
       \/ header.p1 \notin 0..2 /\ Refuse("INVALIDP1P2")
    /\ NothingTaken /\ UNCHANGED staticVars

chunkRefused ==
    /\ header.p1 \in {1, 2} /\ tx_initialized
    /\ EndUpload
    /\ Refuse("OUTPUT_BUFFER_TOO_SMALL")
    /\ NothingTaken /\ UNCHANGED <<held, action_addrResponseLen>>

chunkTaken ==
    /\ tx_initialized
    /\ taken' = From(OFFSET_DATA, rx - 1)
    /\ held' = (held \/ rx > OFFSET_DATA)
    /\ UNCHANGED action_addrResponseLen

signAdd ==
    /\ header.p1 = 1
    /\ chunkTaken
    /\ Refuse("OK")
    /\ UNCHANGED tx_initialized

(***************************************************************************)
(* The length of the text for parser_init_context_empty.                   *)
(***************************************************************************)
parser_getErrorDescription == 25

(***************************************************************************)
(* tx_parse fails for an empty message only; its text goes to the          *)
(* beginning of the buffer, over the command.                              *)
(***************************************************************************)
signLast ==
    /\ header.p1 = 2
    /\ chunkTaken
    /\ EndUpload
    /\ IF held'
       THEN Review("message", G_io_apdu_buffer)
       ELSE LET n == parser_getErrorDescription
            IN  Throw(APDU_CODE.DATA_INVALID, n,
                      Write(G_io_apdu_buffer, 0..(n - 1), "answer"))

(***************************************************************************)
(* process_chunk checks the length of a header once more: behind the check *)
(* of handleApdu that never fails.                                         *)
(***************************************************************************)
handleSign ==
    /\ Dispatched(2)
    /\ signInit \/ signOther \/ chunkRefused \/ signAdd \/ signLast

handleApdu ==
    \/ notForUs \/ pinNotValidated
    \/ handle_getversion \/ handleGetAddr \/ handleSign

-------------------------------------------------------------------------------
(* The callbacks of a review *)

Answer(n, buffer, name) ==
    /\ thrown' = APDU_CODE[name]
    /\ set_code(buffer, n, APDU_CODE[name])
    /\ NothingTaken /\ UNCHANGED staticVars

app_sign ==
    /\ stage = "review" /\ reviewing = "message"
    /\ \/ Answer(SK_LEN_25519,
                 Write(G_io_apdu_buffer, 0..(SK_LEN_25519 - 1), "answer"), "OK")
       \/ Answer(0, Write(G_io_apdu_buffer, 0..(IO_APDU_BUFFER_SIZE - 4), "zero"),
                 "SIGN_VERIFY_ERROR")

app_reply_address ==
    /\ stage = "review" /\ reviewing = "address"
    /\ Answer(action_addrResponseLen, G_io_apdu_buffer, "OK")

app_reject ==
    /\ stage = "review"
    /\ Answer(0, MEMZERO, "COMMAND_NOT_ALLOWED")

app_reply_error ==
    /\ stage = "review"
    /\ Answer(0, G_io_apdu_buffer, "DATA_INVALID")

(***************************************************************************)
(* The transport sends tx bytes and receives the next command over what is *)
(* left in the buffer; app_main starts every command with *tx = 0.         *)
(***************************************************************************)
Send ==
    /\ stage = "answer"
    /\ StartOver
    /\ NothingTaken /\ UNCHANGED staticVars

(***************************************************************************)
(* EXCEPTION_IO_RESET out of the event loop: before a handler, over an     *)
(* open review, or before an answer has left.                              *)
(***************************************************************************)
IoReset ==
    /\ stage # "ready"
    /\ StartOver
    /\ NothingTaken /\ UNCHANGED staticVars

Receive(n, h) ==
    /\ stage = "ready"
    /\ stage' = "command"
    /\ rx' = n /\ header' = h
    /\ G_io_apdu_buffer' = Write(G_io_apdu_buffer, 0..(n - 1), "received")
    /\ UNCHANGED <<tx, thrown, sw, taken, staticVars, reviewing>>

Next ==
    \/ \E n \in RxLen, h \in Header : Receive(n, h)
    \/ handleApdu
    \/ app_sign \/ app_reply_address \/ app_reject \/ app_reply_error
    \/ Send \/ IoReset

Spec == Init /\ [][Next]_vars

-------------------------------------------------------------------------------
(***************************************************************************)
(* Types; neither an answer nor its status word runs over the buffer.      *)
(***************************************************************************)
BytesTypeOK ==
    /\ stage \in {"ready", "command", "review", "answer"}
    /\ rx \in 0..IO_APDU_BUFFER_SIZE
    /\ header \in HeaderType
    /\ G_io_apdu_buffer \in [Byte -> Origin]
    /\ {tx, action_addrResponseLen} \subseteq 0..IO_APDU_BUFFER_SIZE
    /\ {thrown, sw} \subseteq Status
    /\ taken \subseteq Origin
    /\ tx_initialized \in BOOLEAN /\ held \in BOOLEAN
    /\ reviewing \in {"nothing", "message", "address"}

(***************************************************************************)
(* Every byte sent was written for this answer and the status word comes   *)
(* last: nothing of the command, of an earlier answer or of the message    *)
(* under review is sent back (apdu_handler.c:107, 119-122, 132-154,        *)
(* 215-217, actions.h:43-72).                                              *)
(***************************************************************************)
AnswerIsOwn ==
    stage = "answer" =>
        \A i \in 0..(tx - 1) :
            G_io_apdu_buffer[i] = IF i < tx - 2 THEN "answer" ELSE "code"

(***************************************************************************)
(* Paths and chunks are made of bytes of the command they came with, never *)
(* of what an earlier one left in the buffer, although the length is       *)
(* checked after the class, P1 before the length, and extractHDPath        *)
(* subtracts without a sign (apdu_handler.c:38-42, 51-55, 69, 167-173).    *)
(***************************************************************************)
TakesOnlyReceived == taken \subseteq {"received"}

(***************************************************************************)
(* The screens print the address out of the buffer up to the first zero    *)
(* byte: while it is reviewed, that byte comes right after the address     *)
(* (addr.c:44, actions.h:31, crypto.c:101).                                *)
(***************************************************************************)
AddressTerminated ==
    stage = "review" /\ reviewing = "address" =>
        /\ From(PK_LEN_25519, action_addrResponseLen - 1) = {"answer"}
        /\ G_io_apdu_buffer[action_addrResponseLen] = "zero"

(***************************************************************************)
(* What the host can tell from a status word: only OK becomes 0x9000, a    *)
(* code of the application arrives as it is, and two exceptions look alike *)
(* exactly when folding cannot tell them: they agree in the low eleven     *)
(* bits, and neither keeps a status word outside 0x6800..0x6FFF.  So       *)
(* exceptions below 0x800 are told from one another, 0x1001 and 0x1801 are *)
(* not, and 0x600 looks like CLA_NOT_SUPPORTED (apdu_handler.c:204-213).   *)
(***************************************************************************)
Alike(e, f) ==
    /\ e % 2048 = f % 2048
    /\ \A x \in {e, f} : Folded(x) \/ x \in EXCEPTION_BASE..(EXCEPTION_BASE + 2047)

StatusWordTells ==
    stage = "answer" =>
        /\ thrown # EXCEPTION_IO_RESET
        /\ sw = APDU_CODE.OK <=> thrown = APDU_CODE.OK
        /\ thrown \in Code => sw = thrown
        /\ \A e \in Code \cup SdkException : StatusWord(e) = sw <=> Alike(e, thrown) \/ e = thrown

(***************************************************************************)
(* The handlers keep to the protocol: one answer for a command, and an     *)
(* upload that opens with the OK of an INIT, goes on with that of an ADD,  *)
(* and is over before the user is asked (apdu_handler.c:35-128, 162-222).  *)
(***************************************************************************)
Whole == header.cla = CLA /\ rx >= APDU_MIN_LENGTH

Request ==
    CASE Whole /\ header.ins = 0 -> "version"
      [] Whole /\ header.ins = 1 -> IF header.p1 = 0 THEN "address" ELSE "show"
      [] Whole /\ header.ins = 2 /\ header.p1 = 0 -> "init"
      [] Whole /\ header.ins = 2 /\ header.p1 = 1 -> "add"
      [] Whole /\ header.ins = 2 /\ header.p1 = 2 -> "last"
      [] OTHER -> "other"

Protocol == INSTANCE Exchange WITH
              request <- IF stage = "ready" THEN "none" ELSE Request,
              verdict <- IF stage # "answer" THEN "none"
                         ELSE IF sw = APDU_CODE.OK THEN "ok" ELSE "refused",
              uploading <- tx_initialized,
              asked <- reviewing

KeepsProtocol == Protocol!Spec
===============================================================================
