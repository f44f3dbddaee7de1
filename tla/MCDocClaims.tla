----------------------------- MODULE MCDocClaims ------------------------------
(* What docs/APDUSPEC.md says of answers and paths, checked against what    *)
(* the code does.  x stands for a path word without the hardened bit, y for *)
(* one with it.                                                             *)
EXTENDS MCSovereignApp

Hardened == {h0, h1, y}

(***************************************************************************)
(* APDUSPEC.md:133: the signature in the answer to INS_SIGN is 65 bytes    *)
(* (app_sign, actions.h:53-54, sends SK_LEN_25519 of them).                *)
(***************************************************************************)
DocSignatureLength == Answering("signature") => reply.len = 65

(***************************************************************************)
(* APDUSPEC.md:63-67: the answer to GET_VERSION has 1 + 2 + 2 + 2 + 1      *)
(* bytes before the status word (handle_getversion, apdu_handler.c:154,    *)
(* adds TARGET_ID).                                                        *)
(***************************************************************************)
DocVersionLength == Answering("version") => reply.len = 8

(***************************************************************************)
(* APDUSPEC.md:121: the last word of the path of an upload is hardened     *)
(* (extractHDPath, apdu_handler.c:44, compares the other two only).        *)
(***************************************************************************)
DocPathHardened == tx_initialized => hdPath[HDPATH_LEN_DEFAULT] \in Hardened
===============================================================================
