------------------------------- MODULE TxBuffer -------------------------------
(***************************************************************************)
(* The transaction buffer behind app/src/common/tx.c.  tx_initialize hands *)
(* the buffering library a RAM array and a larger flash array; chunks are  *)
(* kept in RAM until one does not fit, and from then on in flash.  The     *)
(* library (deps/ledger-zxlib) is outside the repository: its part is      *)
(* modelled from the way tx.c and apdu_handler.c use it, namely that an    *)
(* append takes the whole chunk or reports having taken nothing.           *)
(*                                                                         *)
(* A memory is the sequence of what was written to it up to its position;  *)
(* lengths count words.                                                    *)
(***************************************************************************)
EXTENDS Payloads

CONSTANTS RAM_BUFFER_SIZE, FLASH_BUFFER_SIZE

ASSUME BufferAssumption ==
    /\ RAM_BUFFER_SIZE \in Nat
    /\ FLASH_BUFFER_SIZE \in Nat
    /\ RAM_BUFFER_SIZE <= FLASH_BUFFER_SIZE

VARIABLES ram_buffer,  \* contents of the RAM array
          N_appdata,   \* contents of the flash array
          in_flash     \* has the message moved to flash?

txVars == <<ram_buffer, N_appdata, in_flash>>

(***************************************************************************)
(* tx_get_buffer()->data up to ->pos, and that position.                   *)
(***************************************************************************)
tx_get_buffer == IF in_flash THEN N_appdata ELSE ram_buffer

tx_get_buffer_length == Len(tx_get_buffer)

(***************************************************************************)
(* Does a chunk still fit the memory of the given size after what it       *)
(* already holds?                                                          *)
(***************************************************************************)
Fits(held, chunk, size) == Len(held) + Len(chunk) <= size

(***************************************************************************)
(* The result of tx_append: the number of words it stored.                 *)
(***************************************************************************)
added(chunk) ==
    IF Fits(tx_get_buffer, chunk, FLASH_BUFFER_SIZE) THEN Len(chunk) ELSE 0

(***************************************************************************)
(* tx_initialize followed by tx_reset, as P1_INIT calls them.              *)
(***************************************************************************)
tx_reset_forgotten == UNCHANGED txVars

tx_reset_flagOnly == in_flash' = FALSE /\ UNCHANGED <<ram_buffer, N_appdata>>

tx_reset ==
    /\ ram_buffer' = <<>>
    /\ N_appdata' = <<>>
    /\ in_flash' = FALSE

AppendToRam(chunk) ==
    /\ ~in_flash
    /\ Fits(ram_buffer, chunk, RAM_BUFFER_SIZE)
    /\ ram_buffer' = ram_buffer \o chunk
    /\ UNCHANGED <<N_appdata, in_flash>>

(***************************************************************************)
(* The chunk does not fit RAM: what RAM holds is copied to flash first,    *)
(* whether or not flash has room for the chunk.                            *)
(***************************************************************************)
SpillToFlash(chunk) ==
    /\ ~in_flash
    /\ ~Fits(ram_buffer, chunk, RAM_BUFFER_SIZE)
    /\ in_flash' = TRUE
    /\ ram_buffer' = <<>>
    /\ N_appdata' = IF Fits(ram_buffer, chunk, FLASH_BUFFER_SIZE)
                    THEN ram_buffer \o chunk
                    ELSE ram_buffer

AppendToFlash(chunk) ==
    /\ in_flash
    /\ N_appdata' = IF Fits(N_appdata, chunk, FLASH_BUFFER_SIZE)
                    THEN N_appdata \o chunk
                    ELSE N_appdata
    /\ UNCHANGED <<ram_buffer, in_flash>>

tx_append_losesRam(chunk) ==
    \/ AppendToRam(chunk) \/ AppendToFlash(chunk)
    \/ /\ ~in_flash /\ ~Fits(ram_buffer, chunk, RAM_BUFFER_SIZE)
       /\ in_flash' = TRUE /\ ram_buffer' = <<>> /\ N_appdata' = chunk

tx_append(chunk) ==
    AppendToRam(chunk) \/ SpillToFlash(chunk) \/ AppendToFlash(chunk)

-------------------------------------------------------------------------------
(***************************************************************************)
(* The buffer on its own: any sequence of resets and appends.              *)
(***************************************************************************)
TxInit ==
    /\ ram_buffer = <<>>
    /\ N_appdata = <<>>
    /\ in_flash = FALSE

TxNext == tx_reset \/ \E chunk \in Payload : tx_append(chunk)

TxSpec == TxInit /\ [][TxNext]_txVars

(***************************************************************************)
(* Types and bounds of the two memories; one of them is always empty.      *)
(***************************************************************************)
TxTypeOK ==
    /\ ram_buffer \in Seq(Word) /\ Len(ram_buffer) <= RAM_BUFFER_SIZE
    /\ N_appdata \in Seq(Word) /\ Len(N_appdata) <= FLASH_BUFFER_SIZE
    /\ in_flash \in BOOLEAN
    /\ IF in_flash THEN ram_buffer = <<>> ELSE N_appdata = <<>>

(***************************************************************************)
(* Whatever the mixture of chunk sizes, moving the message from RAM to     *)
(* flash (tx.c:34-58) neither loses, repeats nor reorders a word, and a    *)
(* refused chunk leaves the message as it was.                             *)
(***************************************************************************)
Log == INSTANCE MessageLog WITH
         log <- tx_get_buffer, Chunk <- Payload, Capacity <- FLASH_BUFFER_SIZE

ImplementsLog == Log!Spec
===============================================================================
