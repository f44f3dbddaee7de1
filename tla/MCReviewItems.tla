---------------------------- MODULE MCReviewItems -----------------------------
(* Constants for checking ReviewItems: the widths of the build, the value   *)
(* buffer of parser_validate (40 bytes, parser.c:58), and messages whose    *)
(* hexadecimal form ends within a page, just beyond one, fills as many      *)
(* pages as a uint8_t can count (2 * 4972 = 255 * 39 - 1), one page more,   *)
(* and is as long as a flash buffer takes.                                  *)
EXTENDS ReviewItems

MCMessageLen == {1, 19, 20, 39, 4972, 4973, 16384}

\* what a flash buffer can hold beyond that (tx.c:26-32)
MCLongMessages == {1, 4973, 8192, 16384}

MCIndex == -128..127

(***************************************************************************)
(* parser.c:53, in parser_validate: "Iterate through all items to check    *)
(* that all can be shown and are valid".                                   *)
(***************************************************************************)
ValidatedIsShown ==
    stage = "decide" /\ asked.kind = "message" => readTo["Txn"] = 2 * asked.len
===============================================================================
