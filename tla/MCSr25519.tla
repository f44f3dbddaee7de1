------------------------------- MODULE MCSr25519 -------------------------------
(* Constants for checking Sr25519: two callers, two messages in one context, *)
(* one key, and a generator that repeats its bytes or not.  Callers,         *)
(* messages and random bytes are interchangeable.                            *)
EXTENDS Sr25519, TLC

Symmetry == Permutations(Caller) \cup Permutations(Message) \cup Permutations(Random)
===============================================================================
