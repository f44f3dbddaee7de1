------------------------------ MODULE MessageLog ------------------------------
(***************************************************************************)
(* What the transaction buffer of tx.c promises its callers: one bounded   *)
(* sequence that only ever grows by whole chunks, refuses a chunk that     *)
(* does not fit without losing what it holds, and can be emptied.          *)
(* TxBuffer, with its two memories, implements this specification.         *)
(***************************************************************************)
EXTENDS Naturals, Sequences

CONSTANTS Chunk,      \* what one ADD or LAST command may carry
          Capacity    \* the most a message may hold

VARIABLE log

Init == log = <<>>

Extend(chunk) ==
    /\ Len(log) + Len(chunk) <= Capacity
    /\ log' = log \o chunk

Clear == log' = <<>>

Next == Clear \/ \E chunk \in Chunk : Extend(chunk)

Spec == Init /\ [][Next]_log
===============================================================================
