------------------------------ MODULE MCApduBytes -----------------------------
(* Constants for checking ApduBytes: the buffer of the build, commands      *)
(* shorter than a header, just a header, one byte short of a path, exactly  *)
(* a path, and the longest; every header byte the handlers tell apart; the  *)
(* exceptions of the device SDK, the reset among them, and some of 16 bits: *)
(* folded onto application codes (0x300, 0x600), onto each other (1,        *)
(* 0x1001, 0x1801, 0x7001), the largest, and not folded ones (0x6001,       *)
(* 0x6801, 0x9001).                                                         *)
EXTENDS ApduBytes

MCRxLen == {0, 4, 5, 6, 12, 16, 17, 260}
MCHeader == [cla : {0, CLA}, ins : 0..3, p1 : 0..3]
MCAddressLen == {55, 65}
MCSdkException ==
    1..19 \cup {768, 1536, 4097, 6145, 24577, 26625, 28673, 36865, 65535}
===============================================================================
