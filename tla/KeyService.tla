------------------------------ MODULE KeyService -------------------------------
(***************************************************************************)
(* What a use of a key promises its caller, without the calls of the       *)
(* device's cryptography in between: a signature or an address is asked    *)
(* for, and in one step there is all of it or an error with nothing.       *)
(* CryptoKeys, with a failure after any call, implements this.             *)
(***************************************************************************)
EXTENDS Naturals

CONSTANTS AddressLen, PK_LEN_25519, ED25519_SIGNATURE_SIZE

VARIABLES use,   \* whose use is under way
          told   \* the answer: status word, and what is sent with it

vars == <<use, told>>

NoAnswer == [sw |-> "none", is |-> "nothing", len |-> 0]

Whole(caller) ==
    IF caller = "app_sign"
    THEN {[sw |-> "OK", is |-> "signature", len |-> ED25519_SIGNATURE_SIZE]}
    ELSE {[sw |-> "OK", is |-> "address", len |-> PK_LEN_25519 + len] :
             len \in AddressLen}

Failure(caller) ==
    [sw |-> IF caller = "app_sign" THEN "SIGN_VERIFY_ERROR" ELSE "EXECUTION_ERROR",
     is |-> "blank", len |-> 0]

Init == use = "none" /\ told = NoAnswer

Ask(caller) ==
    /\ use = "none" /\ told = NoAnswer
    /\ use' = caller
    /\ UNCHANGED told

Serve ==
    /\ use # "none"
    /\ told' \in Whole(use) \cup {Failure(use)}
    /\ use' = "none"

Heard ==
    /\ told # NoAnswer
    /\ told' = NoAnswer
    /\ UNCHANGED use

Next == Serve \/ Heard \/ \E caller \in {"app_sign", "app_fill_address"} : Ask(caller)

Spec == Init /\ [][Next]_vars
===============================================================================
