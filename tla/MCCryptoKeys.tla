---------------------------- MODULE MCCryptoKeys ------------------------------
(* Constants for checking CryptoKeys: the sizes of the build (coin.h), and  *)
(* addresses of several lengths, the longest the encoder's buffer holds     *)
(* among them.                                                              *)
EXTENDS CryptoKeys

MCAddressLen == {1, 32, 54, 55, 64, 65}
===============================================================================
