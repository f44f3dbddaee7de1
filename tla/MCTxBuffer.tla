------------------------------ MODULE MCTxBuffer ------------------------------
(* Constants for checking TxBuffer: chunks of 0 to 3 words over two words,  *)
(* RAM of 3 and flash of 6, so that messages stay in RAM, spill with and    *)
(* without room for the chunk, and overflow flash.                          *)
EXTENDS TxBuffer

CONSTANTS a, b

MCWord == {a, b}
MCPayload == {<<>>, <<a>>, <<b>>, <<a, b>>, <<b, b, a>>}
===============================================================================
