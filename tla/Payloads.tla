------------------------------- MODULE Payloads -------------------------------
(***************************************************************************)
(* The data of a command (apdu_handler.c reads it at OFFSET_DATA).  One    *)
(* word is a byte of a message or one uint32 of a derivation path: no code *)
(* of the application tells more of it apart than that.                    *)
(***************************************************************************)
EXTENDS Naturals, Sequences

CONSTANTS Word,      \* what a payload is made of
          Payload    \* the payloads a command may carry

ASSUME PayloadAssumption == Payload \subseteq Seq(Word)
===============================================================================
