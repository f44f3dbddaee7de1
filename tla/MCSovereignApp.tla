---------------------------- MODULE MCSovereignApp ----------------------------
(* Constants for checking SovereignApp.  Two path words belong to the       *)
(* application; x and y are any others.  Payloads are one path of each      *)
(* kind (two of ours, one of another application, one too short) and        *)
(* chunks of 0 to 2 words; flash holds 3 words, RAM one, so that messages   *)
(* stay in RAM, spill and overflow.                                         *)
EXTENDS SovereignProperties

CONSTANTS h0, h1, x, y

MCWord == {h0, h1, x, y}

Paths == {<<h0, h1, x>>, <<h0, h1, y>>, <<h0, x, x>>, <<h0>>}
Chunks == {<<>>, <<x>>, <<x, y>>}

MCPayload == Paths \cup Chunks

Cmd(ins, p1, payload) ==
    [cla |-> TRUE, whole |-> TRUE, ins |-> ins, p1 |-> p1, payload |-> payload]

MCCommand ==
         {Cmd("INS_GET_VERSION", 0, <<>>), Cmd("INS_OTHER", 0, <<>>)}
    \cup {[Cmd("INS_SIGN", P1_INIT, <<h0, h1, x>>) EXCEPT !.cla = FALSE]}
    \cup {[Cmd("INS_SIGN", P1_INIT, <<>>) EXCEPT !.whole = FALSE]}
    \cup {Cmd("INS_GET_ADDR", p1, path) : p1 \in {0, 1}, path \in Paths}
    \cup {Cmd("INS_SIGN", P1_INIT, path) : path \in Paths}
    \cup {Cmd("INS_SIGN", p1, chunk) : p1 \in {P1_ADD, P1_LAST}, chunk \in Chunks}
    \cup {Cmd("INS_SIGN", 3, <<x>>)}
===============================================================================
