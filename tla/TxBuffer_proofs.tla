---------------------------- MODULE TxBuffer_proofs ----------------------------
(***************************************************************************)
(* Theorems about the transaction buffer, for every word set, payload set  *)
(* and pair of memory sizes: its bounds hold, and it implements one        *)
(* bounded log.                                                            *)
(***************************************************************************)
EXTENDS TxBuffer, SequenceTheorems, TLAPS

(***************************************************************************)
(* An empty memory is a sequence of words of length zero.                  *)
(***************************************************************************)
LEMMA EmptyMessage == <<>> \in Seq(Word) /\ Len(<<>>) = 0
  BY EmptySeq

(***************************************************************************)
(* The buffer read through tx_get_buffer is a sequence of words no longer  *)
(* than flash, in whichever memory it is (tx.c:58-60).                     *)
(***************************************************************************)
LEMMA BufferBounded ==
    ASSUME TxTypeOK
    PROVE  /\ tx_get_buffer \in Seq(Word)
           /\ tx_get_buffer_length \in Nat
           /\ tx_get_buffer_length <= FLASH_BUFFER_SIZE
  BY BufferAssumption DEF TxTypeOK, tx_get_buffer, tx_get_buffer_length

(***************************************************************************)
(* tx_append, through whichever memories it goes, adds the whole chunk to  *)
(* what is read through tx_get_buffer, or leaves that as it is and reports *)
(* having added nothing (tx.c:56, apdu_handler.c:69-73).                   *)
(***************************************************************************)
LEMMA AppendResult ==
    ASSUME TxTypeOK, NEW chunk \in Payload, tx_append(chunk)
    PROVE  tx_get_buffer' = IF Fits(tx_get_buffer, chunk, FLASH_BUFFER_SIZE)
                            THEN tx_get_buffer \o chunk
                            ELSE tx_get_buffer
  <1>1. Len(chunk) \in Nat /\ Len(ram_buffer) \in Nat
    BY PayloadAssumption DEF TxTypeOK
  <1>2. CASE AppendToRam(chunk)
    <2>1. Fits(ram_buffer, chunk, FLASH_BUFFER_SIZE)
      BY <1>1, <1>2, BufferAssumption DEF AppendToRam, Fits
    <2> QED
      BY <1>2, <2>1 DEF AppendToRam, tx_get_buffer
  <1>3. CASE SpillToFlash(chunk)
    BY <1>3 DEF SpillToFlash, tx_get_buffer
  <1>4. CASE AppendToFlash(chunk)
    BY <1>4 DEF AppendToFlash, tx_get_buffer
  <1> QED
    BY <1>2, <1>3, <1>4 DEF tx_append

(***************************************************************************)
(* tx_append keeps both memories within their sizes, and one of them empty *)
(* (tx.c:26-56).                                                           *)
(***************************************************************************)
LEMMA AppendType ==
    ASSUME TxTypeOK, NEW chunk \in Payload, tx_append(chunk)
    PROVE  TxTypeOK'
  <1>1. chunk \in Seq(Word) /\ Len(chunk) \in Nat
    BY PayloadAssumption
  <1>2. ASSUME NEW held \in Seq(Word), NEW size \in Nat, Fits(held, chunk, size)
        PROVE  held \o chunk \in Seq(Word) /\ Len(held \o chunk) <= size
    BY <1>1, <1>2 DEF Fits
  <1>3. CASE AppendToRam(chunk)
    BY <1>2, <1>3, BufferAssumption DEF AppendToRam, TxTypeOK
  <1>4. CASE SpillToFlash(chunk)
    <2>1. ram_buffer \in Seq(Word) /\ Len(ram_buffer) <= FLASH_BUFFER_SIZE
      BY BufferAssumption DEF TxTypeOK
    <2>2. N_appdata' \in Seq(Word) /\ Len(N_appdata') <= FLASH_BUFFER_SIZE
      BY <1>2, <1>4, <2>1, BufferAssumption DEF SpillToFlash
    <2> QED
      BY <1>4, <2>2, BufferAssumption DEF SpillToFlash, TxTypeOK
  <1>5. CASE AppendToFlash(chunk)
    <2>1. N_appdata' \in Seq(Word) /\ Len(N_appdata') <= FLASH_BUFFER_SIZE
      BY <1>2, <1>5, BufferAssumption DEF AppendToFlash, TxTypeOK
    <2> QED
      BY <1>5, <2>1 DEF AppendToFlash, TxTypeOK
  <1> QED
    BY <1>3, <1>4, <1>5 DEF tx_append

(***************************************************************************)
(* tx_initialize and tx_reset leave an empty buffer (tx.c:50-54).          *)
(***************************************************************************)
LEMMA ResetEmpties ==
    ASSUME tx_reset
    PROVE  TxTypeOK' /\ tx_get_buffer' = <<>>
  <1>1. ram_buffer' \in Seq(Word) /\ Len(ram_buffer') <= RAM_BUFFER_SIZE
    BY BufferAssumption, EmptyMessage DEF tx_reset
  <1>2. N_appdata' \in Seq(Word) /\ Len(N_appdata') <= FLASH_BUFFER_SIZE
    BY BufferAssumption, EmptyMessage DEF tx_reset
  <1> QED
    BY <1>1, <1>2 DEF tx_reset, TxTypeOK, tx_get_buffer

(***************************************************************************)
(* The bounds of both memories hold in every state of the buffer, whatever *)
(* the chunks are (tx.c:34-60).                                            *)
(***************************************************************************)
THEOREM TxTypeCorrect == TxSpec => []TxTypeOK
  <1>1. TxInit => TxTypeOK
    <2> SUFFICES ASSUME TxInit PROVE TxTypeOK
      OBVIOUS
    <2>1. ram_buffer \in Seq(Word) /\ Len(ram_buffer) <= RAM_BUFFER_SIZE
      BY BufferAssumption, EmptyMessage DEF TxInit
    <2>2. N_appdata \in Seq(Word) /\ Len(N_appdata) <= FLASH_BUFFER_SIZE
      BY BufferAssumption, EmptyMessage DEF TxInit
    <2> QED
      BY <2>1, <2>2 DEF TxInit, TxTypeOK
  <1>2. TxTypeOK /\ [TxNext]_txVars => TxTypeOK'
    <2> SUFFICES ASSUME TxTypeOK, [TxNext]_txVars PROVE TxTypeOK'
      OBVIOUS
    <2>1. CASE tx_reset
      BY <2>1, ResetEmpties
    <2>2. CASE \E chunk \in Payload : tx_append(chunk)
      BY <2>2, AppendType
    <2>3. CASE UNCHANGED txVars
      BY <2>3 DEF TxTypeOK, txVars
    <2> QED
      BY <2>1, <2>2, <2>3 DEF TxNext
  <1> QED
    BY <1>1, <1>2, PTL DEF TxSpec

(***************************************************************************)
(* The two memories together are one bounded log: no word is lost,         *)
(* repeated or reordered by moving from RAM to flash, and a refused chunk  *)
(* changes nothing that can be read (tx.c:34-60).                          *)
(***************************************************************************)
THEOREM BufferImplementsLog == TxSpec => ImplementsLog
  <1>1. TxInit => Log!Init
    BY DEF TxInit, Log!Init, tx_get_buffer
  <1>2. TxTypeOK /\ [TxNext]_txVars => [Log!Next]_tx_get_buffer
    <2> SUFFICES ASSUME TxTypeOK, [TxNext]_txVars
                 PROVE  [Log!Next]_tx_get_buffer
      OBVIOUS
    <2>1. CASE tx_reset
      BY <2>1, ResetEmpties DEF Log!Next, Log!Clear
    <2>2. ASSUME NEW chunk \in Payload, tx_append(chunk)
          PROVE  [Log!Next]_tx_get_buffer
      <3>1. CASE Fits(tx_get_buffer, chunk, FLASH_BUFFER_SIZE)
        BY <2>2, <3>1, AppendResult DEF Log!Next, Log!Extend, Fits
      <3>2. CASE ~Fits(tx_get_buffer, chunk, FLASH_BUFFER_SIZE)
        BY <2>2, <3>2, AppendResult
      <3> QED
        BY <3>1, <3>2
    <2>3. CASE UNCHANGED txVars
      BY <2>3 DEF txVars, tx_get_buffer
    <2> QED
      BY <2>1, <2>2, <2>3 DEF TxNext
  <1> QED
    BY <1>1, <1>2, TxTypeCorrect, PTL DEF TxSpec, ImplementsLog, Log!Spec
===============================================================================
