--------------------------- MODULE ApduBytes_proofs ---------------------------
(***************************************************************************)
(* The bytes of commands and answers for every buffer size, command length *)
(* and set of exceptions.                                                  *)
(***************************************************************************)
EXTENDS ApduBytes, Integers, TLAPS

(***************************************************************************)
(* What the buffer holds in each stage, besides the properties themselves. *)
(***************************************************************************)
CommandReceived ==
    stage = "command" => \A i \in 0..(rx - 1) : G_io_apdu_buffer[i] = "received"

AddressInPlace ==
    stage = "review" /\ reviewing = "address" =>
        /\ action_addrResponseLen \in
             (PK_LEN_25519 + 1)..(PK_LEN_25519 + ADDRESS_MAX_LENGTH - 1)
        /\ \A i \in 0..(action_addrResponseLen - 1) : G_io_apdu_buffer[i] = "answer"
        /\ G_io_apdu_buffer[action_addrResponseLen] = "zero"

StatusOfThrown ==
    stage = "answer" => /\ thrown \in (Code \cup SdkException) \ {EXCEPTION_IO_RESET}
                        /\ sw = StatusWord(thrown)

BInv ==
    /\ BytesTypeOK
    /\ CommandReceived /\ AddressInPlace /\ StatusOfThrown
    /\ AnswerIsOwn /\ TakesOnlyReceived

-------------------------------------------------------------------------------
(* Arithmetic of codes and lengths *)

LEMMA CodesAre ==
    Code = {36864, 25600, 26368, 27011, 27012, 27014, 27015, 27392, 27904, 28160, 28417}
  BY SMT DEF Code, APDU_CODE

LEMMA CodeIsWord == \A e \in Code : StatusWord(e) = e /\ e \in Status
  BY SMT, CodesAre DEF StatusWord, Folded, Status

LEMMA ThrownInStatus == \A e \in Code \cup SdkException : e \in Status
  <1>1. \A e \in SdkException : e \in Status
    BY Zenon, BytesAssumption
  <1> QED
    BY Zenon, <1>1, CodeIsWord

(***************************************************************************)
(* A folded exception goes to 0x6800..0x6FFF, where OK is not.             *)
(***************************************************************************)
FoldRange == EXCEPTION_BASE..(EXCEPTION_BASE + 2047)

LEMMA FoldedInRange == \A e \in Status : Folded(e) => StatusWord(e) \in FoldRange
  BY SMT DEF StatusWord, Status, EXCEPTION_BASE, FoldRange

LEMMA WordInStatus == \A e \in Status : StatusWord(e) \in Status
  <1>1. \A w \in FoldRange : w \in Status
    BY SMTT(30) DEF FoldRange, EXCEPTION_BASE, Status
  <1>2. \A e \in Status : ~Folded(e) => StatusWord(e) = e
    BY DEF StatusWord
  <1> QED
    BY <1>1, <1>2, FoldedInRange

LEMMA OkNotInRange == APDU_CODE.OK \notin FoldRange
  BY SMT DEF APDU_CODE, FoldRange, EXCEPTION_BASE

(***************************************************************************)
(* Inside the range the low eleven bits say which word it is.              *)
(***************************************************************************)
LEMMA LowBits ==
    /\ \A e \in FoldRange : e = EXCEPTION_BASE + (e % 2048) /\ e % 2048 \in Nat
    /\ \A e \in Status : e % 2048 \in Nat
  BY SMT DEF FoldRange, EXCEPTION_BASE, Status

LEMMA BaseCancels ==
    \A m, n \in Nat : EXCEPTION_BASE + m = EXCEPTION_BASE + n => m = n
  BY SMT DEF EXCEPTION_BASE

(***************************************************************************)
(* Two exceptions get one status word exactly when they look alike.        *)
(***************************************************************************)
LEMMA SameWord ==
    ASSUME NEW e \in Status, NEW f \in Status
    PROVE  StatusWord(e) = StatusWord(f) <=> Alike(e, f) \/ e = f
  <1>1. \A x \in Status :
           /\ Folded(x) => StatusWord(x) = EXCEPTION_BASE + (x % 2048)
           /\ ~Folded(x) => StatusWord(x) = x
    BY DEF StatusWord
  <1>2. Alike(e, f) <=> /\ e % 2048 = f % 2048
                        /\ Folded(e) \/ e \in FoldRange
                        /\ Folded(f) \/ f \in FoldRange
    BY DEF Alike, FoldRange
  <1>3. CASE Folded(e) /\ Folded(f)
    BY <1>1, <1>2, <1>3, LowBits, BaseCancels
  <1>4. CASE Folded(e) /\ ~Folded(f)
    BY <1>1, <1>2, <1>4, LowBits, BaseCancels, FoldedInRange
  <1>5. CASE ~Folded(e) /\ Folded(f)
    BY <1>1, <1>2, <1>5, LowBits, BaseCancels, FoldedInRange
  <1>6. CASE ~Folded(e) /\ ~Folded(f)
    BY <1>1, <1>2, <1>6, LowBits
  <1> QED
    BY <1>3, <1>4, <1>5, <1>6

LEMMA StatusInRange ==
    \A e \in Code \cup SdkException : e \in Status /\ StatusWord(e) \in Status
  BY ThrownInStatus, WordInStatus

LEMMA ZeroTypes == 0 \in Status /\ NoHeader \in HeaderType
  BY SMT DEF Status, HeaderType, NoHeader

LEMMA Origins == \A o \in {"stale", "received", "zero", "answer", "code"} : o \in Origin
  BY DEF Origin

LEMMA CodeIsNoReset == EXCEPTION_IO_RESET \notin Code
  BY SMT, CodesAre DEF EXCEPTION_IO_RESET

LEMMA NamesAreCodes ==
    \A name \in DOMAIN APDU_CODE :
        APDU_CODE[name] \in Code /\ APDU_CODE[name] # EXCEPTION_IO_RESET
  BY CodeIsNoReset DEF Code

LEMMA Names ==
    {"OK", "EXECUTION_ERROR", "WRONG_LENGTH", "OUTPUT_BUFFER_TOO_SMALL", "DATA_INVALID",
     "COMMAND_NOT_ALLOWED", "TX_NOT_INITIALIZED", "INVALIDP1P2", "INS_NOT_SUPPORTED",
     "CLA_NOT_SUPPORTED", "SIGN_VERIFY_ERROR"} = DOMAIN APDU_CODE
  BY SMT DEF APDU_CODE

(***************************************************************************)
(* The status word of OK is that of no other code and of no exception.     *)
(***************************************************************************)
LEMMA OnlyOkIsOk ==
    /\ StatusWord(APDU_CODE.OK) = APDU_CODE.OK
    /\ \A e \in Code \cup SdkException :
          e # APDU_CODE.OK => StatusWord(e) # APDU_CODE.OK
    /\ \A name \in DOMAIN APDU_CODE :
          APDU_CODE[name] \in Code /\ (name # "OK" => APDU_CODE[name] # APDU_CODE.OK)
  <1>1. APDU_CODE.OK \in Code /\ StatusWord(APDU_CODE.OK) = APDU_CODE.OK
    BY NamesAreCodes, Names, CodeIsWord
  <1>2. \A name \in DOMAIN APDU_CODE : name # "OK" => APDU_CODE[name] # APDU_CODE.OK
    BY SMT DEF APDU_CODE
  <1>3. ASSUME NEW e \in Code \cup SdkException, StatusWord(e) = APDU_CODE.OK
        PROVE  e = APDU_CODE.OK
    <2>1. ~Folded(e)
      BY <1>3, ThrownInStatus, FoldedInRange, OkNotInRange
    <2> QED
      BY <1>3, <2>1 DEF StatusWord
  <1> QED
    BY <1>1, <1>2, <1>3, NamesAreCodes

(***************************************************************************)
(* The subtraction of extractHDPath does not wrap once the length of a     *)
(* header has been checked.                                                *)
(***************************************************************************)
LEMMA PathLength ==
    ASSUME rx \in 0..IO_APDU_BUFFER_SIZE, rx >= APDU_MIN_LENGTH, ~PathTooShort
    PROVE  OFFSET_DATA + PATH_BYTES <= rx
  <1>1. \A n, m \in Nat : n < m => n % m = n
    OBVIOUS
  <1>2. \A n, m \in Nat : n < m => (n + m) % m = n
    BY <1>1
  <1>3. rx - OFFSET_DATA \in Nat /\ rx - OFFSET_DATA < UINT32_RANGE
    BY BytesAssumption DEF OFFSET_DATA, APDU_MIN_LENGTH
  <1>4. rx + UINT32_RANGE - OFFSET_DATA = (rx - OFFSET_DATA) + UINT32_RANGE
    BY BytesAssumption DEF OFFSET_DATA
  <1>5. (rx + UINT32_RANGE - OFFSET_DATA) % UINT32_RANGE = rx - OFFSET_DATA
    BY <1>2, <1>3, <1>4, BytesAssumption
  <1> QED
    BY <1>5 DEF PathTooShort, OFFSET_DATA, PATH_BYTES

-------------------------------------------------------------------------------
(* Bytes *)

LEMMA Written ==
    ASSUME NEW b \in [Byte -> Origin], NEW bytes, NEW origin \in Origin
    PROVE  /\ Write(b, bytes, origin) \in [Byte -> Origin]
           /\ \A i \in Byte : /\ i \in bytes => Write(b, bytes, origin)[i] = origin
                              /\ i \notin bytes => Write(b, bytes, origin)[i] = b[i]
  BY DEF Write

LEMMA ZeroBuffer == MEMZERO \in [Byte -> Origin] /\ \A i \in Byte : MEMZERO[i] = "zero"
  BY DEF MEMZERO, Origin

(***************************************************************************)
(* An answer is right when its first n bytes were written for it.          *)
(***************************************************************************)
LEMMA Answers ==
    ASSUME BInv, NEW n \in Nat, n + 3 <= IO_APDU_BUFFER_SIZE, NEW b \in [Byte -> Origin],
           \A i \in 0..(n - 1) : b[i] = "answer",
           NEW e \in Code \cup SdkException, e # EXCEPTION_IO_RESET,
           thrown' = e, set_code(b, n, StatusWord(e)),
           taken' \subseteq {"received"},
           tx_initialized' \in BOOLEAN, held' \in BOOLEAN,
           action_addrResponseLen' \in 0..IO_APDU_BUFFER_SIZE
    PROVE  BInv'
  <1> USE DEF BInv, BytesTypeOK
  <1>1. /\ stage' = "answer" /\ reviewing' = "nothing" /\ tx' = n + 2
        /\ sw' = StatusWord(e) /\ UNCHANGED <<rx, header>>
        /\ G_io_apdu_buffer' = Write(b, n..(n + 1), "code")
    BY DEF set_code
  <1>2. IO_APDU_BUFFER_SIZE \in Nat
    BY BytesAssumption
  <1>3. /\ G_io_apdu_buffer' \in [Byte -> Origin]
        /\ \A i \in Byte : G_io_apdu_buffer'[i] = IF i \in n..(n + 1) THEN "code" ELSE b[i]
    BY <1>1, Written DEF Origin
  <1>4. BytesTypeOK'
    BY <1>1, <1>2, <1>3, StatusInRange DEF Origin
  <1>5. AnswerIsOwn'
    <2> SUFFICES ASSUME NEW i \in 0..(n + 1)
                 PROVE  G_io_apdu_buffer'[i] = IF i < n THEN "answer" ELSE "code"
      BY <1>1 DEF AnswerIsOwn
    <2>1. i \in Byte
      BY <1>2 DEF Byte
    <2>2. i < n <=> i \in 0..(n - 1)
      OBVIOUS
    <2> QED
      BY <1>3, <2>1, <2>2
  <1> QED
    BY <1>1, <1>4, <1>5
       DEF CommandReceived, AddressInPlace, StatusOfThrown, TakesOnlyReceived

(***************************************************************************)
(* A refusal has nothing before its status word.                           *)
(***************************************************************************)
LEMMA Refusals ==
    ASSUME BInv, NEW b \in [Byte -> Origin], NEW e \in Code \cup SdkException,
           e # EXCEPTION_IO_RESET, Throw(e, 0, b), taken' \subseteq {"received"},
           tx_initialized' \in BOOLEAN, held' \in BOOLEAN,
           action_addrResponseLen' \in 0..IO_APDU_BUFFER_SIZE
    PROVE  BInv'
  <1>1. 0 + 3 <= IO_APDU_BUFFER_SIZE
    BY BytesAssumption DEF PK_LEN_25519, ADDRESS_MAX_LENGTH
  <1>2. \A i \in 0..(0 - 1) : b[i] = "answer"
    OBVIOUS
  <1> QED
    BY <1>1, <1>2, Answers DEF Throw

(***************************************************************************)
(* Nothing is asked of the buffer when the transport starts over.          *)
(***************************************************************************)
LEMMA StartsOver ==
    ASSUME BInv, StartOver, taken' \subseteq {"received"},
           tx_initialized' \in BOOLEAN, held' \in BOOLEAN,
           action_addrResponseLen' \in 0..IO_APDU_BUFFER_SIZE
    PROVE  BInv'
  <1>1. G_io_apdu_buffer' \in [Byte -> Origin]
    BY Written DEF StartOver, BInv, BytesTypeOK, Origin
  <1>2. BytesTypeOK'
    BY <1>1, BytesAssumption, ZeroTypes DEF StartOver, BytesTypeOK, Origin
  <1> QED
    BY <1>2 DEF StartOver, BInv, CommandReceived, AddressInPlace, StatusOfThrown,
                AnswerIsOwn, TakesOnlyReceived

(***************************************************************************)
(* Bytes of a command that was received are received bytes.                *)
(***************************************************************************)
LEMMA TakesReceived ==
    ASSUME BInv, stage = "command", NEW last \in Int, last < rx
    PROVE  From(OFFSET_DATA, last) \subseteq {"received"}
  <1>1. /\ rx \in Nat /\ OFFSET_DATA \in Nat
        /\ \A i \in 0..(rx - 1) : G_io_apdu_buffer[i] = "received"
    BY BytesAssumption DEF BInv, BytesTypeOK, CommandReceived, OFFSET_DATA
  <1>2. \A i \in OFFSET_DATA..last : i \in 0..(rx - 1)
    BY <1>1
  <1> QED
    BY <1>1, <1>2 DEF From

LEMMA PathTakesReceived ==
    ASSUME BInv, stage = "command", rx >= APDU_MIN_LENGTH, ~PathTooShort
    PROVE  From(OFFSET_DATA, OFFSET_DATA + PATH_BYTES - 1) \subseteq {"received"}
  <1>1. OFFSET_DATA + PATH_BYTES - 1 \in Int /\ OFFSET_DATA + PATH_BYTES - 1 < rx
    BY PathLength DEF BInv, BytesTypeOK, OFFSET_DATA, PATH_BYTES
  <1> QED
    BY <1>1, TakesReceived

-------------------------------------------------------------------------------
(* The steps *)

LEMMA InitHolds == Init => BInv
  <1> SUFFICES ASSUME Init PROVE BInv
    OBVIOUS
  <1>1. G_io_apdu_buffer \in [Byte -> Origin]
    BY Origins DEF Init
  <1>2. 0 \in 0..IO_APDU_BUFFER_SIZE
    BY BytesAssumption
  <1>3. BytesTypeOK
    BY <1>1, <1>2, ZeroTypes DEF Init, BytesTypeOK
  <1> QED
    BY <1>3 DEF Init, BInv, CommandReceived, AddressInPlace, StatusOfThrown,
                AnswerIsOwn, TakesOnlyReceived

LEMMA NotForUsKeeps == BInv /\ (notForUs \/ pinNotValidated) => BInv'
  <1> SUFFICES ASSUME BInv, notForUs \/ pinNotValidated PROVE BInv'
    OBVIOUS
  <1>1. /\ taken' \subseteq {"received"} /\ UNCHANGED staticVars
        /\ \E name \in DOMAIN APDU_CODE : Refuse(name)
    BY Names DEF notForUs, pinNotValidated, NothingTaken
  <1> QED
    BY <1>1, Refusals, NamesAreCodes DEF BInv, BytesTypeOK, Refuse, staticVars

LEMMA VersionKeeps == BInv /\ handle_getversion => BInv'
  <1> SUFFICES ASSUME BInv, handle_getversion PROVE BInv'
    OBVIOUS
  <1> DEFINE b == Write(G_io_apdu_buffer, 0..11, "answer")
  <1>1. b \in [Byte -> Origin] /\ \A i \in Byte : i \in 0..11 => b[i] = "answer"
    BY Written DEF BInv, BytesTypeOK, Origin
  <1>2. 12 + 3 <= IO_APDU_BUFFER_SIZE /\ \A i \in 0..(12 - 1) : i \in Byte
    BY BytesAssumption DEF PK_LEN_25519, ADDRESS_MAX_LENGTH, Byte
  <1>3. APDU_CODE.OK \in Code /\ APDU_CODE.OK # EXCEPTION_IO_RESET
    BY NamesAreCodes, Names
  <1>4. thrown' = APDU_CODE.OK /\ set_code(b, 12, StatusWord(APDU_CODE.OK))
    BY DEF handle_getversion, Throw
  <1>5. taken' \subseteq {"received"} /\ UNCHANGED staticVars
    BY DEF handle_getversion, NothingTaken
  <1> HIDE DEF b
  <1> QED
    BY <1>1, <1>2, <1>3, <1>4, <1>5, Answers DEF BInv, BytesTypeOK, staticVars

LEMMA PathRefusedKeeps ==
    ASSUME BInv, stage = "command", rx >= APDU_MIN_LENGTH, PathRefused,
           tx_initialized' \in BOOLEAN, held' \in BOOLEAN, UNCHANGED action_addrResponseLen
    PROVE  BInv'
  <1>1. taken' \subseteq {"received"}
    BY PathTakesReceived DEF PathRefused, NothingTaken
  <1>2. \E name \in DOMAIN APDU_CODE : Refuse(name)
    BY Names DEF PathRefused
  <1> QED
    BY <1>1, <1>2, Refusals, NamesAreCodes DEF BInv, BytesTypeOK, Refuse

(***************************************************************************)
(* The buffer with public key and address in it.                           *)
(***************************************************************************)
LEMMA AddressWritten ==
    ASSUME NEW len \in AddressLen
    PROVE  LET n == PK_LEN_25519 + len
           IN  /\ n \in (PK_LEN_25519 + 1)..(PK_LEN_25519 + ADDRESS_MAX_LENGTH - 1)
               /\ n + 3 <= IO_APDU_BUFFER_SIZE
               /\ AddressAt(n) \in [Byte -> Origin]
               /\ \A i \in 0..(n - 1) : AddressAt(n)[i] = "answer"
               /\ AddressAt(n)[n] = "zero"
  <1> DEFINE n == PK_LEN_25519 + len
  <1>1. /\ n \in (PK_LEN_25519 + 1)..(PK_LEN_25519 + ADDRESS_MAX_LENGTH - 1)
        /\ n + 3 <= IO_APDU_BUFFER_SIZE /\ n \in Nat /\ IO_APDU_BUFFER_SIZE \in Nat
    BY BytesAssumption DEF PK_LEN_25519, ADDRESS_MAX_LENGTH
  <1> HIDE DEF n
  <1>2. n \in Byte /\ n \notin 0..(n - 1) /\ \A i \in 0..(n - 1) : i \in Byte
    BY <1>1 DEF Byte
  <1>3. /\ AddressAt(n) \in [Byte -> Origin]
        /\ \A i \in Byte : /\ i \in 0..(n - 1) => AddressAt(n)[i] = "answer"
                           /\ i \notin 0..(n - 1) => AddressAt(n)[i] = MEMZERO[i]
    <2>1. MEMZERO \in [Byte -> Origin] /\ "answer" \in Origin
      BY ZeroBuffer, Origins
    <2>2. ASSUME NEW bytes
          PROVE  /\ Write(MEMZERO, bytes, "answer") \in [Byte -> Origin]
                 /\ \A i \in Byte :
                       /\ i \in bytes => Write(MEMZERO, bytes, "answer")[i] = "answer"
                       /\ i \notin bytes => Write(MEMZERO, bytes, "answer")[i] = MEMZERO[i]
      BY <2>1, Written
    <2>3. AddressAt(n) = Write(MEMZERO, 0..(n - 1), "answer")
      BY DEF AddressAt
    <2> QED
      BY <2>2, <2>3
  <1>4. AddressAt(n)[n] = "zero" /\ \A i \in 0..(n - 1) : AddressAt(n)[i] = "answer"
    BY <1>2, <1>3, ZeroBuffer
  <1> QED
    BY <1>1, <1>3, <1>4 DEF n

LEMMA AddressKeeps == BInv /\ handleGetAddr => BInv'
  <1> SUFFICES ASSUME BInv, handleGetAddr PROVE BInv'
    OBVIOUS
  <1>1. stage = "command" /\ rx >= APDU_MIN_LENGTH /\ tx_initialized' = FALSE /\ held' = held
    BY DEF handleGetAddr, Dispatched, EndUpload
  <1>2. tx_initialized' \in BOOLEAN /\ held' \in BOOLEAN
    BY <1>1 DEF BInv, BytesTypeOK
  <1>3. CASE PathRefused /\ UNCHANGED action_addrResponseLen
    BY <1>1, <1>2, <1>3, PathRefusedKeeps
  <1>4. ASSUME PathTaken PROVE taken' \subseteq {"received"}
    BY <1>1, <1>4, PathTakesReceived DEF PathTaken
  <1>5. ASSUME PathTaken, NEW e \in SdkException \cup {APDU_CODE.EXECUTION_ERROR},
               action_addrResponseLen' = 0, ThrownBySdk(e, 0, MEMZERO)
        PROVE  BInv'
    <2>1. e \in Code \cup SdkException
      BY NamesAreCodes, Names
    <2>2. CASE StartOver
      BY <1>2, <1>4, <1>5, <2>2, StartsOver, BytesAssumption
    <2>3. CASE e # EXCEPTION_IO_RESET /\ Throw(e, 0, MEMZERO)
      BY <1>2, <1>4, <1>5, <2>1, <2>3, Refusals, ZeroBuffer, BytesAssumption
    <2> QED
      BY <1>5, <2>2, <2>3 DEF ThrownBySdk
  <1>6. ASSUME PathTaken, NEW len \in AddressLen,
               action_addrResponseLen' = PK_LEN_25519 + len,
               IF header.p1 # 0
               THEN Review("address", AddressAt(PK_LEN_25519 + len))
               ELSE Throw(APDU_CODE.OK, PK_LEN_25519 + len, AddressAt(PK_LEN_25519 + len))
        PROVE  BInv'
    <2> DEFINE n == PK_LEN_25519 + len
    <2>1. /\ n \in (PK_LEN_25519 + 1)..(PK_LEN_25519 + ADDRESS_MAX_LENGTH - 1)
          /\ n + 3 <= IO_APDU_BUFFER_SIZE
          /\ AddressAt(n) \in [Byte -> Origin]
          /\ \A i \in 0..(n - 1) : AddressAt(n)[i] = "answer"
          /\ AddressAt(n)[n] = "zero"
      BY AddressWritten
    <2>2. /\ IF header.p1 # 0
             THEN Review("address", AddressAt(n))
             ELSE Throw(APDU_CODE.OK, n, AddressAt(n))
          /\ action_addrResponseLen' = n
      BY <1>6
    <2> HIDE DEF n
    <2>3. n \in Nat /\ n \in 0..IO_APDU_BUFFER_SIZE
      BY <2>1, BytesAssumption DEF PK_LEN_25519, ADDRESS_MAX_LENGTH
    <2>4. CASE header.p1 # 0
      <3>1. /\ G_io_apdu_buffer' = AddressAt(n) /\ stage' = "review"
            /\ reviewing' = "address" /\ UNCHANGED <<rx, header, tx, thrown, sw>>
        BY <2>2, <2>4 DEF Review
      <3>2. BytesTypeOK'
        BY <1>2, <1>4, <1>6, <2>1, <2>2, <2>3, <3>1 DEF BInv, BytesTypeOK, Origin
      <3> QED
        BY <1>4, <1>6, <2>1, <2>2, <3>1, <3>2
           DEF BInv, CommandReceived, AddressInPlace, StatusOfThrown, AnswerIsOwn,
               TakesOnlyReceived
    <2>5. CASE ~(header.p1 # 0)
      <3>1. APDU_CODE.OK \in Code \cup SdkException /\ APDU_CODE.OK # EXCEPTION_IO_RESET
        BY NamesAreCodes, Names
      <3>2. thrown' = APDU_CODE.OK /\ set_code(AddressAt(n), n, StatusWord(APDU_CODE.OK))
        BY <2>2, <2>5 DEF Throw
      <3> QED
        BY <1>2, <1>4, <1>6, <2>1, <2>2, <2>3, <3>1, <3>2, Answers
    <2> QED
      BY <2>4, <2>5
  <1> QED
    BY <1>3, <1>5, <1>6 DEF handleGetAddr

-------------------------------------------------------------------------------
(* The message *)

LEMMA ChunkTakes ==
    ASSUME BInv, stage = "command", chunkTaken
    PROVE  /\ taken' \subseteq {"received"} /\ held' \in BOOLEAN
           /\ action_addrResponseLen' \in 0..IO_APDU_BUFFER_SIZE
  <1>1. rx - 1 \in Int /\ rx - 1 < rx
    BY DEF BInv, BytesTypeOK
  <1>2. taken' \subseteq {"received"}
    BY <1>1, TakesReceived DEF chunkTaken
  <1> QED
    BY <1>2 DEF chunkTaken, BInv, BytesTypeOK

LEMMA LastKeeps ==
    ASSUME BInv, stage = "command", signLast PROVE BInv'
  <1>1. /\ taken' \subseteq {"received"} /\ held' \in BOOLEAN
        /\ action_addrResponseLen' \in 0..IO_APDU_BUFFER_SIZE /\ tx_initialized' = FALSE
    BY ChunkTakes DEF signLast, EndUpload
  <1>2. CASE held'
    <2>1. /\ G_io_apdu_buffer' = G_io_apdu_buffer /\ stage' = "review"
          /\ reviewing' = "message" /\ UNCHANGED <<rx, header, tx, thrown, sw>>
      BY <1>2 DEF signLast, Review
    <2>2. BytesTypeOK'
      BY <1>1, <2>1 DEF BInv, BytesTypeOK, Origin
    <2> QED
      BY <1>1, <2>1, <2>2
         DEF BInv, CommandReceived, AddressInPlace, StatusOfThrown, AnswerIsOwn,
             TakesOnlyReceived
  <1>3. CASE ~held'
    <2> DEFINE b == Write(G_io_apdu_buffer, 0..(25 - 1), "answer")
    <2>1. thrown' = APDU_CODE.DATA_INVALID /\ set_code(b, 25, StatusWord(APDU_CODE.DATA_INVALID))
      BY <1>3 DEF signLast, Throw, parser_getErrorDescription
    <2>2. b \in [Byte -> Origin] /\ \A i \in Byte : i \in 0..(25 - 1) => b[i] = "answer"
      BY Written DEF BInv, BytesTypeOK, Origin
    <2>3. 25 + 3 <= IO_APDU_BUFFER_SIZE /\ \A i \in 0..(25 - 1) : i \in Byte
      BY BytesAssumption DEF PK_LEN_25519, ADDRESS_MAX_LENGTH, Byte
    <2>4. APDU_CODE.DATA_INVALID \in Code /\ APDU_CODE.DATA_INVALID # EXCEPTION_IO_RESET
      BY NamesAreCodes, Names
    <2> HIDE DEF b
    <2> QED
      BY <1>1, <2>1, <2>2, <2>3, <2>4, Answers
  <1> QED
    BY <1>2, <1>3

LEMMA SignKeeps == BInv /\ handleSign => BInv'
  <1> SUFFICES ASSUME BInv, handleSign PROVE BInv'
    OBVIOUS
  <1>1. stage = "command" /\ rx >= APDU_MIN_LENGTH
    BY DEF handleSign, Dispatched
  <1>2. G_io_apdu_buffer \in [Byte -> Origin]
    BY DEF BInv, BytesTypeOK
  <1>3. CASE signInit
    <2>1. CASE PathRefused
      BY <1>1, <1>3, <2>1, PathRefusedKeeps DEF signInit, EndUpload
    <2>2. CASE PathTaken /\ Refuse("OK") /\ tx_initialized' = TRUE
      <3>1. taken' \subseteq {"received"}
        BY <1>1, <2>2, PathTakesReceived DEF PathTaken
      <3>2. held' = FALSE /\ UNCHANGED action_addrResponseLen
        BY <1>3 DEF signInit
      <3> QED
        BY <1>2, <2>2, <3>1, <3>2, Refusals, NamesAreCodes, Names
           DEF Refuse, BInv, BytesTypeOK
    <2> QED
      BY <1>3, <2>1, <2>2 DEF signInit
  <1>4. CASE signOther \/ chunkRefused
    <2>1. /\ taken' \subseteq {"received"} /\ tx_initialized' \in BOOLEAN
          /\ UNCHANGED <<held, action_addrResponseLen>>
      BY <1>4 DEF signOther, chunkRefused, EndUpload, NothingTaken, staticVars, BInv,
                  BytesTypeOK
    <2>2. \E name \in DOMAIN APDU_CODE : Refuse(name)
      BY <1>4, Names DEF signOther, chunkRefused
    <2> QED
      BY <1>2, <2>1, <2>2, Refusals, NamesAreCodes DEF Refuse, BInv, BytesTypeOK
  <1>5. CASE signAdd
    <2>1. chunkTaken /\ Refuse("OK") /\ UNCHANGED tx_initialized
      BY <1>5 DEF signAdd
    <2>2. tx_initialized' \in BOOLEAN
      BY <2>1 DEF BInv, BytesTypeOK
    <2> QED
      BY <1>1, <1>2, <2>1, <2>2, ChunkTakes, Refusals, NamesAreCodes, Names
         DEF Refuse
  <1> QED
    BY <1>1, <1>3, <1>4, <1>5, LastKeeps DEF handleSign

-------------------------------------------------------------------------------
(* Reviews and transport *)

LEMMA ReviewKeeps ==
    BInv /\ (app_sign \/ app_reply_address \/ app_reject \/ app_reply_error) => BInv'
  <1> SUFFICES ASSUME BInv, app_sign \/ app_reply_address \/ app_reject \/ app_reply_error
               PROVE  BInv'
    OBVIOUS
  <1> USE DEF BInv, BytesTypeOK
  <1>1. ASSUME NEW n \in Nat, n + 3 <= IO_APDU_BUFFER_SIZE, NEW b \in [Byte -> Origin],
               \A i \in 0..(n - 1) : b[i] = "answer",
               NEW name \in DOMAIN APDU_CODE, Answer(n, b, name)
        PROVE  BInv'
    <2>1. /\ thrown' = APDU_CODE[name] /\ set_code(b, n, StatusWord(APDU_CODE[name]))
          /\ taken' \subseteq {"received"} /\ UNCHANGED staticVars
      BY <1>1, NamesAreCodes, CodeIsWord DEF Answer, NothingTaken
    <2>2. APDU_CODE[name] \in Code \cup SdkException /\ APDU_CODE[name] # EXCEPTION_IO_RESET
      BY NamesAreCodes
    <2> QED
      BY <1>1, <2>1, <2>2, Answers DEF staticVars
  <1>2. PK_LEN_25519 + ADDRESS_MAX_LENGTH + 3 <= IO_APDU_BUFFER_SIZE
        /\ IO_APDU_BUFFER_SIZE \in Nat /\ 0 \in Nat /\ 64 \in Nat
        /\ 0 + 3 <= IO_APDU_BUFFER_SIZE /\ 64 + 3 <= IO_APDU_BUFFER_SIZE
    BY BytesAssumption DEF PK_LEN_25519, ADDRESS_MAX_LENGTH
  <1>3. \A b \in [Byte -> Origin] : \A i \in 0..(0 - 1) : b[i] = "answer"
    OBVIOUS
  <1>4. /\ "OK" \in DOMAIN APDU_CODE
        /\ "SIGN_VERIFY_ERROR" \in DOMAIN APDU_CODE
        /\ "COMMAND_NOT_ALLOWED" \in DOMAIN APDU_CODE
        /\ "DATA_INVALID" \in DOMAIN APDU_CODE
    BY Names
  <1>5. CASE app_sign
    <2>1. CASE Answer(64, Write(G_io_apdu_buffer, 0..(64 - 1), "answer"), "OK")
      <3> DEFINE b == Write(G_io_apdu_buffer, 0..(64 - 1), "answer")
      <3>1. b \in [Byte -> Origin] /\ \A i \in Byte : i \in 0..(64 - 1) => b[i] = "answer"
        BY Written DEF Origin
      <3>2. \A i \in 0..(64 - 1) : i \in Byte
        BY <1>2 DEF Byte
      <3>3. Answer(64, b, "OK")
        BY <2>1
      <3> HIDE DEF b
      <3> QED
        BY <1>1, <1>2, <1>4, <3>1, <3>2, <3>3
    <2>2. CASE Answer(0, Write(G_io_apdu_buffer, 0..(IO_APDU_BUFFER_SIZE - 4), "zero"),
                      "SIGN_VERIFY_ERROR")
      <3>1. Write(G_io_apdu_buffer, 0..(IO_APDU_BUFFER_SIZE - 4), "zero") \in [Byte -> Origin]
        BY Written DEF Origin
      <3> QED
        BY <1>1, <1>2, <1>3, <1>4, <2>2, <3>1
    <2> QED
      BY <1>5, <2>1, <2>2 DEF app_sign, SK_LEN_25519
  <1>6. CASE app_reply_address
    <2>1. /\ action_addrResponseLen \in
               (PK_LEN_25519 + 1)..(PK_LEN_25519 + ADDRESS_MAX_LENGTH - 1)
          /\ \A i \in 0..(action_addrResponseLen - 1) : G_io_apdu_buffer[i] = "answer"
          /\ Answer(action_addrResponseLen, G_io_apdu_buffer, "OK")
      BY <1>6 DEF app_reply_address, AddressInPlace
    <2>2. action_addrResponseLen \in Nat /\ action_addrResponseLen + 3 <= IO_APDU_BUFFER_SIZE
      BY <1>2, <2>1 DEF PK_LEN_25519, ADDRESS_MAX_LENGTH
    <2> QED
      BY <1>1, <1>4, <2>1, <2>2
  <1>7. CASE app_reject
    BY <1>1, <1>2, <1>3, <1>4, <1>7, ZeroBuffer DEF app_reject
  <1>8. CASE app_reply_error
    BY <1>1, <1>2, <1>3, <1>4, <1>8 DEF app_reply_error
  <1> QED
    BY <1>5, <1>6, <1>7, <1>8

LEMMA SendKeeps == BInv /\ (Send \/ IoReset) => BInv'
  <1> SUFFICES ASSUME BInv, Send \/ IoReset PROVE BInv'
    OBVIOUS
  <1>1. StartOver /\ taken' = {} /\ UNCHANGED staticVars
    BY DEF Send, IoReset, NothingTaken
  <1> QED
    BY <1>1, StartsOver DEF BInv, BytesTypeOK, staticVars

LEMMA ReceiveKeeps ==
    ASSUME BInv, NEW n \in RxLen, NEW h \in Header, Receive(n, h) PROVE BInv'
  <1>1. n \in 0..IO_APDU_BUFFER_SIZE /\ h \in HeaderType
        /\ IO_APDU_BUFFER_SIZE \in Nat
    BY BytesAssumption
  <1>2. /\ G_io_apdu_buffer' \in [Byte -> Origin]
        /\ \A i \in Byte : i \in 0..(n - 1) => G_io_apdu_buffer'[i] = "received"
    <2>1. /\ G_io_apdu_buffer \in [Byte -> Origin] /\ "received" \in Origin
          /\ G_io_apdu_buffer' = Write(G_io_apdu_buffer, 0..(n - 1), "received")
      BY Origins DEF Receive, BInv, BytesTypeOK
    <2>2. ASSUME NEW bytes
          PROVE  /\ Write(G_io_apdu_buffer, bytes, "received") \in [Byte -> Origin]
                 /\ \A i \in Byte : i \in bytes =>
                        Write(G_io_apdu_buffer, bytes, "received")[i] = "received"
      BY <2>1, Written
    <2> QED
      BY <2>1, <2>2
  <1>3. \A i \in 0..(n - 1) : i \in Byte
    BY <1>1 DEF Byte
  <1>4. BytesTypeOK'
    BY <1>1, <1>2 DEF Receive, BInv, BytesTypeOK, staticVars, Origin
  <1> QED
    BY <1>2, <1>3, <1>4
       DEF Receive, BInv, CommandReceived, AddressInPlace, StatusOfThrown, AnswerIsOwn,
           TakesOnlyReceived

LEMMA BInvStep == BInv /\ [Next]_vars => BInv'
  <1> SUFFICES ASSUME BInv, [Next]_vars PROVE BInv'
    OBVIOUS
  <1>1. CASE UNCHANGED vars
    <2>1. BytesTypeOK'
      BY <1>1 DEF vars, staticVars, BInv, BytesTypeOK
    <2> QED
      BY <1>1, <2>1
         DEF vars, staticVars, BInv, CommandReceived, AddressInPlace, StatusOfThrown,
             AnswerIsOwn, TakesOnlyReceived
  <1> QED
    BY <1>1, NotForUsKeeps, VersionKeeps, AddressKeeps, SignKeeps, ReviewKeeps, SendKeeps,
       ReceiveKeeps DEF Next, handleApdu

LEMMA BytesInvariance == Spec => []BInv
  BY InitHolds, BInvStep, PTL DEF Spec

-------------------------------------------------------------------------------
(***************************************************************************)
(* Types, and no answer with its status word outgrows the buffer           *)
(* (apdu_handler.c:107-154, actions.h:29-72).                              *)
(***************************************************************************)
THEOREM BytesTypeCorrect == Spec => []BytesTypeOK
  <1>1. BInv => BytesTypeOK
    BY DEF BInv
  <1> QED
    BY <1>1, BytesInvariance, PTL

(***************************************************************************)
(* Whatever came before, an answer consists of bytes written for it and of *)
(* its status word (apdu_handler.c:107, 119-122, 132-154, 215-217).        *)
(***************************************************************************)
THEOREM AnswersAreOwn == Spec => []AnswerIsOwn
  <1>1. BInv => AnswerIsOwn
    BY DEF BInv
  <1> QED
    BY <1>1, BytesInvariance, PTL

(***************************************************************************)
(* No path and no chunk contains a byte its command did not bring          *)
(* (apdu_handler.c:38-42, 69, 167-173).                                    *)
(***************************************************************************)
THEOREM OnlyReceivedTaken == Spec => []TakesOnlyReceived
  <1>1. BInv => TakesOnlyReceived
    BY DEF BInv
  <1> QED
    BY <1>1, BytesInvariance, PTL

(***************************************************************************)
(* A reviewed address ends where its text ends (addr.c:44, actions.h:31).  *)
(***************************************************************************)
THEOREM AddressesTerminated == Spec => []AddressTerminated
  <1>1. BInv => AddressTerminated
    <2> SUFFICES ASSUME BInv, stage = "review", reviewing = "address"
                 PROVE  /\ From(PK_LEN_25519, action_addrResponseLen - 1) = {"answer"}
                        /\ G_io_apdu_buffer[action_addrResponseLen] = "zero"
      BY DEF AddressTerminated
    <2>1. /\ action_addrResponseLen - 1 \in Int
          /\ PK_LEN_25519 \in PK_LEN_25519..(action_addrResponseLen - 1)
          /\ \A i \in PK_LEN_25519..(action_addrResponseLen - 1) :
                 G_io_apdu_buffer[i] = "answer"
          /\ G_io_apdu_buffer[action_addrResponseLen] = "zero"
      BY DEF BInv, AddressInPlace, PK_LEN_25519, ADDRESS_MAX_LENGTH
    <2> QED
      BY <2>1 DEF From
  <1> QED
    BY <1>1, BytesInvariance, PTL

(***************************************************************************)
(* What a host can tell from a status word, for any exceptions of 16 bits: *)
(* OK is OK, application codes arrive as they are, and exactly those       *)
(* exceptions look alike that agree in the eleven bits folding keeps       *)
(* (apdu_handler.c:204-213).                                               *)
(***************************************************************************)
THEOREM StatusWordsTell == Spec => []StatusWordTells
  <1>1. BInv => StatusWordTells
    <2> SUFFICES ASSUME BInv, stage = "answer"
                 PROVE  /\ thrown # EXCEPTION_IO_RESET
                        /\ sw = APDU_CODE.OK <=> thrown = APDU_CODE.OK
                        /\ thrown \in Code => sw = thrown
                        /\ \A e \in Code \cup SdkException :
                              StatusWord(e) = sw <=> Alike(e, thrown) \/ e = thrown
      BY DEF StatusWordTells
    <2>1. /\ thrown \in Code \cup SdkException /\ sw = StatusWord(thrown)
          /\ thrown # EXCEPTION_IO_RESET
      BY DEF BInv, StatusOfThrown
    <2> QED
      BY <2>1, OnlyOkIsOk, CodeIsWord, SameWord, ThrownInStatus
  <1> QED
    BY <1>1, BytesInvariance, PTL

-------------------------------------------------------------------------------
(* Every step is one of the protocol, Exchange. *)

Verdict ==
    IF stage # "answer" THEN "none" ELSE IF sw = APDU_CODE.OK THEN "ok" ELSE "refused"

Asking == IF stage = "ready" THEN "none" ELSE Request

ProtocolStep == [Protocol!Next]_(Protocol!vars)

Unmoved == UNCHANGED <<stage, Asking, Verdict, tx_initialized, reviewing>>

LEMMA StutterIsStep == Unmoved => ProtocolStep
  BY DEF Unmoved, ProtocolStep, Protocol!vars, Asking, Verdict

(***************************************************************************)
(* Only a review has a question.                                           *)
(***************************************************************************)
OnlyInReview == stage # "review" => reviewing = "nothing"

LEMMA RequestIs ==
    /\ Request = "version" => Whole /\ header.ins = 0
    /\ Whole /\ header.ins = 0 => Request = "version"
    /\ Whole /\ header.ins = 1 => Request = IF header.p1 = 0 THEN "address" ELSE "show"
    /\ Whole /\ header.ins = 2 /\ header.p1 = 0 => Request = "init"
    /\ Whole /\ header.ins = 2 /\ header.p1 = 1 => Request = "add"
    /\ Whole /\ header.ins = 2 /\ header.p1 = 2 => Request = "last"
    /\ Request \in Protocol!Requests
  BY SMT DEF Request, Protocol!Requests

LEMMA RequestKept == UNCHANGED <<rx, header>> => Request' = Request
  BY DEF Request, Whole

LEMMA NoExceptionIsOk == \A e \in SdkException : e # APDU_CODE.OK
  BY BytesAssumption

(***************************************************************************)
(* What the protocol sees of an answer.                                    *)
(***************************************************************************)
LEMMA SeenAnswer ==
    ASSUME NEW n, NEW b, NEW e \in Code \cup SdkException, Throw(e, n, b)
    PROVE  /\ stage' = "answer" /\ reviewing' = "nothing" /\ Asking' = Request
           /\ Verdict' = IF e = APDU_CODE.OK THEN "ok" ELSE "refused"
  <1>1. /\ stage' = "answer" /\ reviewing' = "nothing" /\ sw' = StatusWord(e)
        /\ UNCHANGED <<rx, header>>
    BY DEF Throw, set_code
  <1>2. Asking' = Request
    BY <1>1, RequestKept DEF Asking
  <1> QED
    BY <1>1, <1>2, OnlyOkIsOk DEF Verdict

LEMMA Refused ==
    ASSUME stage = "command", OnlyInReview, NEW n, NEW b,
           NEW e \in Code \cup SdkException, e # APDU_CODE.OK, Throw(e, n, b),
           Request # "version", tx_initialized' \in {FALSE, tx_initialized},
           Request = "other" => UNCHANGED tx_initialized
    PROVE  ProtocolStep
  <1>1. /\ stage' = "answer" /\ reviewing' = reviewing /\ Asking' = Asking
        /\ Asking = Request /\ Verdict' = "refused"
    BY SeenAnswer DEF OnlyInReview, Asking
  <1>2. Protocol!Refuse
    BY <1>1 DEF Protocol!Refuse, Protocol!Answer, Asking, Verdict
  <1> QED
    BY <1>2 DEF ProtocolStep, Protocol!Next

LEMMA RefusedByName ==
    ASSUME stage = "command", OnlyInReview, NEW name \in DOMAIN APDU_CODE, name # "OK",
           Refuse(name), Request # "version", tx_initialized' \in {FALSE, tx_initialized},
           Request = "other" => UNCHANGED tx_initialized
    PROVE  ProtocolStep
  BY Refused, OnlyOkIsOk DEF Refuse

LEMMA Accepted ==
    ASSUME stage = "command", OnlyInReview, NEW n, NEW b, Throw(APDU_CODE.OK, n, b)
    PROVE  /\ Protocol!Answer("ok")
           /\ Asking = Request
  <1>1. /\ stage' = "answer" /\ reviewing' = reviewing /\ Asking' = Asking
        /\ Asking = Request /\ Verdict' = "ok"
    BY SeenAnswer, OnlyOkIsOk, Names DEF OnlyInReview, Asking
  <1> QED
    BY <1>1 DEF Protocol!Answer, Asking, Verdict

LEMMA Asked ==
    ASSUME stage = "command", OnlyInReview, NEW what, NEW b, Review(what, b),
           tx_initialized' = FALSE
    PROVE  Protocol!Ask(what) /\ Asking = Request
  <1>1. /\ stage' = "review" /\ reviewing' = what /\ UNCHANGED <<rx, header>>
    BY DEF Review
  <1>2. Asking' = Asking /\ Asking = Request /\ Verdict' = Verdict
    BY <1>1, RequestKept DEF Asking, Verdict
  <1> QED
    BY <1>1, <1>2 DEF Protocol!Ask, Asking, Verdict

LEMMA NamesOfRefusals ==
    ASSUME stage = "command", OnlyInReview, PathRefused, Request \notin {"version", "other"},
           tx_initialized' = FALSE
    PROVE  ProtocolStep
  BY RefusedByName, Names DEF PathRefused

LEMMA ResetFollows ==
    ASSUME StartOver, tx_initialized' \in {FALSE, tx_initialized} PROVE ProtocolStep
  <1>1. Protocol!Reset
    BY DEF StartOver, Protocol!Reset
  <1> QED
    BY <1>1 DEF ProtocolStep, Protocol!Next

LEMMA AddressFollows ==
    ASSUME OnlyInReview, handleGetAddr PROVE ProtocolStep
  <1>1. stage = "command" /\ Whole /\ header.ins = 1 /\ tx_initialized' = FALSE
    BY DEF handleGetAddr, Dispatched, Whole, EndUpload
  <1>2. Request = IF header.p1 = 0 THEN "address" ELSE "show"
    BY <1>1, RequestIs
  <1>3. CASE PathRefused
    BY <1>1, <1>2, <1>3, NamesOfRefusals
  <1>4. ASSUME NEW e \in SdkException \cup {APDU_CODE.EXECUTION_ERROR},
               ThrownBySdk(e, 0, MEMZERO)
        PROVE  ProtocolStep
    <2>1. e \in Code \cup SdkException /\ e # APDU_CODE.OK
      BY Names, OnlyOkIsOk, NoExceptionIsOk
    <2>2. CASE StartOver
      BY <1>1, <2>2, ResetFollows
    <2>3. CASE Throw(e, 0, MEMZERO)
      BY <1>1, <1>2, <2>1, <2>3, Refused
    <2> QED
      BY <1>4, <2>2, <2>3 DEF ThrownBySdk
  <1>5. ASSUME NEW len \in AddressLen,
               IF header.p1 # 0
               THEN Review("address", AddressAt(PK_LEN_25519 + len))
               ELSE Throw(APDU_CODE.OK, PK_LEN_25519 + len, AddressAt(PK_LEN_25519 + len))
        PROVE  ProtocolStep
    <2>1. CASE header.p1 # 0
      <3>1. Protocol!Ask("address") /\ Asking = "show"
        BY <1>1, <1>2, <1>5, <2>1, Asked
      <3> QED
        BY <3>1 DEF ProtocolStep, Protocol!Next, Protocol!AskForAddress, Asking
    <2>2. CASE header.p1 = 0
      <3>1. Protocol!Answer("ok") /\ Asking = "address"
        BY <1>1, <1>2, <1>5, <2>2, Accepted
      <3> QED
        BY <1>1, <3>1 DEF ProtocolStep, Protocol!Next, Protocol!TellAddress, Asking
    <2> QED
      BY <2>1, <2>2
  <1> QED
    BY <1>3, <1>4, <1>5 DEF handleGetAddr

LEMMA SignFollows ==
    ASSUME OnlyInReview, handleSign PROVE ProtocolStep
  <1>1. stage = "command" /\ Whole /\ header.ins = 2 /\ Request # "version"
    <2>1. stage = "command" /\ Whole /\ header.ins = 2
      BY DEF handleSign, Dispatched, Whole
    <2> QED
      BY <2>1, RequestIs
  <1>2. CASE signInit
    <2>1. Request = "init"
      BY <1>1, <1>2, RequestIs DEF signInit
    <2>2. CASE PathRefused /\ EndUpload
      BY <1>1, <2>1, <2>2, NamesOfRefusals DEF EndUpload
    <2>3. CASE Refuse("OK") /\ tx_initialized' = TRUE
      <3>1. Protocol!Answer("ok") /\ Asking = "init"
        BY <1>1, <2>1, <2>3, Accepted DEF Refuse
      <3> QED
        BY <2>3, <3>1 DEF ProtocolStep, Protocol!Next, Protocol!Open, Asking
    <2> QED
      BY <1>2, <2>2, <2>3 DEF signInit
  <1>3. CASE signOther
    BY <1>1, <1>3, RefusedByName, Names DEF signOther, staticVars
  <1>4. header.p1 \in {1, 2} => Request \in {"add", "last"}
    BY <1>1, RequestIs
  <1>5. CASE chunkRefused
    BY <1>1, <1>4, <1>5, RefusedByName, Names DEF chunkRefused, EndUpload
  <1>6. CASE signAdd
    <2>1. Request = "add"
      BY <1>1, <1>6, RequestIs DEF signAdd
    <2>2. Protocol!Answer("ok") /\ Asking = "add"
      BY <1>1, <1>6, <2>1, Accepted DEF Refuse, signAdd
    <2> QED
      BY <1>6, <2>2
         DEF ProtocolStep, Protocol!Next, Protocol!Extend, Asking, signAdd, chunkTaken
  <1>7. CASE signLast
    <2>1. Request = "last" /\ tx_initialized /\ tx_initialized' = FALSE
      BY <1>1, <1>7, RequestIs DEF signLast, chunkTaken, EndUpload
    <2>2. CASE held'
      <3>1. Protocol!Ask("message") /\ Asking = "last"
        BY <1>1, <1>7, <2>1, <2>2, Asked DEF signLast
      <3> QED
        BY <2>1, <3>1 DEF ProtocolStep, Protocol!Next, Protocol!AskToSign, Asking
    <2>3. CASE ~held'
      <3>1. \E n, b : Throw(APDU_CODE.DATA_INVALID, n, b)
        BY <1>7, <2>3 DEF signLast
      <3>2. /\ APDU_CODE.DATA_INVALID \in Code \cup SdkException
            /\ APDU_CODE.DATA_INVALID # APDU_CODE.OK
        BY Names, OnlyOkIsOk
      <3> QED
        BY <1>1, <2>1, <3>1, <3>2, Refused
    <2> QED
      BY <2>2, <2>3
  <1> QED
    BY <1>2, <1>3, <1>5, <1>6, <1>7 DEF handleSign

LEMMA OthersFollow ==
    ASSUME OnlyInReview, rx \in Nat, notForUs \/ pinNotValidated \/ handle_getversion
    PROVE  ProtocolStep
  <1>1. CASE notForUs \/ pinNotValidated
    <2>1. stage = "command" /\ ~(Whole /\ header.ins = 0) /\ UNCHANGED tx_initialized
      BY <1>1 DEF notForUs, pinNotValidated, Dispatched, Whole, staticVars, APDU_MIN_LENGTH
    <2>2. Request # "version"
      BY <2>1, RequestIs
    <2> QED
      BY <1>1, <2>1, <2>2, RefusedByName, Names DEF notForUs, pinNotValidated
  <1>2. CASE handle_getversion
    <2>1. stage = "command" /\ Whole /\ header.ins = 0
      BY <1>2 DEF handle_getversion, Dispatched, Whole
    <2>2. Protocol!Answer("ok") /\ Asking = "version"
      BY <1>2, <2>1, Accepted, RequestIs DEF handle_getversion
    <2> QED
      BY <1>2, <2>2 DEF ProtocolStep, Protocol!Next, Protocol!TellVersion, Asking,
                        handle_getversion, staticVars
  <1> QED
    BY <1>1, <1>2

LEMMA ReviewFollows ==
    ASSUME app_sign \/ app_reply_address \/ app_reject \/ app_reply_error
    PROVE  ProtocolStep
  <1>1. /\ stage = "review" /\ stage' = "answer" /\ reviewing' = "nothing"
        /\ UNCHANGED <<rx, header, tx_initialized>>
    BY DEF app_sign, app_reply_address, app_reject, app_reply_error, Answer, set_code,
           staticVars
  <1>2. Asking' = Asking /\ Verdict' \in {"ok", "refused"}
    BY <1>1, RequestKept DEF Asking, Verdict
  <1>3. Protocol!Decide(Verdict')
    BY <1>1, <1>2 DEF Protocol!Decide, Asking, Verdict
  <1> QED
    BY <1>2, <1>3 DEF ProtocolStep, Protocol!Next

LEMMA RequestAmong == Request \in Protocol!Requests
  BY RequestIs

LEMMA TransportFollows ==
    ASSUME Send \/ IoReset \/ \E n \in RxLen, h \in Header : Receive(n, h)
    PROVE  ProtocolStep
  <1>1. CASE Send \/ IoReset
    <2>1. StartOver /\ UNCHANGED tx_initialized
      BY <1>1 DEF Send, IoReset, staticVars
    <2> QED
      BY <2>1, ResetFollows
  <1>2. CASE \E n \in RxLen, h \in Header : Receive(n, h)
    <2>1. /\ stage = "ready" /\ stage' = "command"
          /\ UNCHANGED <<tx_initialized, reviewing>>
      BY <1>2 DEF Receive, staticVars
    <2>2. (Request \in Protocol!Requests)'
      BY RequestAmong, PTL
    <2>3. Request' \in Protocol!Requests
      BY <2>2 DEF Protocol!Requests
    <2>4. Protocol!Receive(Request')
      BY <2>1 DEF Protocol!Receive, Asking, Verdict
    <2> QED
      BY <2>3, <2>4 DEF ProtocolStep, Protocol!Next
  <1> QED
    BY <1>1, <1>2

LEMMA OnlyInReviewStep == OnlyInReview /\ [Next]_vars => OnlyInReview'
  <1> SUFFICES ASSUME OnlyInReview, [Next]_vars PROVE OnlyInReview'
    OBVIOUS
  <1>1. CASE handleApdu
    BY <1>1 DEF handleApdu, notForUs, pinNotValidated, handle_getversion, handleGetAddr,
       handleSign, signInit, signOther, chunkRefused, signAdd, signLast, PathRefused, Refuse,
       ThrownBySdk, StartOver, Throw, set_code, Review, OnlyInReview
  <1>2. CASE app_sign \/ app_reply_address \/ app_reject \/ app_reply_error
    BY <1>2 DEF app_sign, app_reply_address, app_reject, app_reply_error, Answer,
       set_code, OnlyInReview
  <1>3. CASE Send \/ IoReset \/ \E n \in RxLen, h \in Header : Receive(n, h)
    BY <1>3 DEF Send, IoReset, StartOver, Receive, OnlyInReview
  <1>4. CASE UNCHANGED vars
    BY <1>4 DEF vars, OnlyInReview
  <1> QED
    BY <1>1, <1>2, <1>3, <1>4 DEF Next

(***************************************************************************)
(* One answer for a command, and an upload that opens with the OK of an    *)
(* INIT and is over before the user is asked, for commands of any length,  *)
(* whatever is thrown and whenever transport and screens start over        *)
(* (apdu_handler.c:35-128, 162-222).                                       *)
(***************************************************************************)
THEOREM BytesKeepProtocol == Spec => KeepsProtocol
  <1>1. Init => OnlyInReview /\ Protocol!Init
    BY DEF Init, OnlyInReview, Protocol!Init
  <1>2. OnlyInReview /\ BytesTypeOK /\ [Next]_vars => [Protocol!Next]_(Protocol!vars)
    <2> SUFFICES ASSUME OnlyInReview, rx \in Nat, [Next]_vars PROVE ProtocolStep
      BY BytesAssumption DEF ProtocolStep, BytesTypeOK
    <2>1. CASE UNCHANGED vars
      BY <2>1, RequestKept, StutterIsStep
         DEF vars, staticVars, Unmoved, Asking, Verdict
    <2> QED
      BY <2>1, AddressFollows, SignFollows, OthersFollow, ReviewFollows, TransportFollows
         DEF Next, handleApdu
  <1> QED
    BY <1>1, <1>2, OnlyInReviewStep, BytesTypeCorrect, PTL DEF Spec, KeepsProtocol, Protocol!Spec
===============================================================================
