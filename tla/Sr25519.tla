-------------------------------- MODULE Sr25519 --------------------------------
(***************************************************************************)
(* The sr25519 library (app/rust/src/lib.rs) and the protocol its callers  *)
(* follow: a signature is made in two calls, and between them the caller   *)
(* turns the witness that phase 1 left in the second half of the signature *)
(* into the point R of the first half.  The library keeps no state: all of *)
(* it is in buffers of the caller.  Several callers may be at work, each   *)
(* with buffers of its own that it uses again and again.                   *)
(*                                                                         *)
(* Curve arithmetic and transcripts are terms: a transcript is what was    *)
(* appended to it, a challenge or a witness is the transcript it was drawn *)
(* from.  Random is what the generator may return, any value any number of *)
(* times: where fill_bytes is empty (bolos.rs:74-76) it is always the same.*)
(***************************************************************************)
EXTENDS Naturals

CONSTANTS Caller, Key, Context, Message, Random

VARIABLES
    step,       \* how far each caller is
    asked,      \* public key, context and message of its last call
    sk,         \* its secret key buffer
    signature,  \* its signature buffer
    responses   \* history: responses of calls for what phase 1 was called for

vars == <<step, asked, sk, signature, responses>>

Request == [key : Key, context : Context, msg : Message]

ed25519(key) == [curve |-> "ed25519", of |-> key]
sr25519(key) == [curve |-> "sr25519", of |-> key]

Zero     == [is |-> "zero"]
Point(x) == [is |-> "point", of |-> x]
Blank    == [R |-> Zero, s |-> Zero]

At(c, from, to) == step[c] = from /\ step' = [step EXCEPT ![c] = to]

Init ==
    /\ step = [c \in Caller |-> "idle"]
    /\ asked \in [Caller -> Request]
    /\ sk = [c \in Caller |-> ed25519(asked[c].key)]
    /\ signature = [c \in Caller |-> Blank]
    /\ responses = {}

(***************************************************************************)
(* A caller loads a key; its signature buffer may be the one it used last. *)
(***************************************************************************)
Begin(c) ==
    /\ At(c, "idle", "loaded")
    /\ \E request \in Request :
          /\ asked' = [asked EXCEPT ![c] = request]
          /\ sk' = [sk EXCEPT ![c] = ed25519(request.key)]
    /\ \/ signature' = [signature EXCEPT ![c] = Blank]
       \/ UNCHANGED signature
    /\ UNCHANGED responses

get_sr25519_sk(c) ==
    /\ At(c, "loaded", "phase1")
    /\ sk' = [sk EXCEPT ![c] = sr25519(@.of)]
    /\ UNCHANGED <<asked, signature, responses>>

-------------------------------------------------------------------------------
(* Each phase is told public key, context and message anew, and begins its  *)
(* transcript with them.                                                    *)

Transcript(request) ==
    [context |-> request.context, msg |-> request.msg, pk |-> request.key]

(***************************************************************************)
(* The witness is drawn from the transcript, the second half of the secret *)
(* key and random bytes.                                                   *)
(***************************************************************************)
Witness_withoutMessage(request, seed, rng) ==
    [is |-> "witness", transcript |-> request.context, seed |-> seed, rng |-> rng]

Witness(request, seed, rng) ==
    [is |-> "witness", transcript |-> Transcript(request), seed |-> seed, rng |-> rng]

sign_sr25519_phase1_firstHalf(c, request) ==
    /\ At(c, "phase1", "fill")
    /\ \E rng \in Random :
          signature' = [signature EXCEPT ![c].R = Witness(request, sk[c], rng)]
    /\ asked' = [asked EXCEPT ![c] = request]
    /\ UNCHANGED <<sk, responses>>

sign_sr25519_phase1(c, request) ==
    /\ At(c, "phase1", "fill")
    /\ \E rng \in Random :
          signature' = [signature EXCEPT ![c].s = Witness(request, sk[c], rng)]
    /\ asked' = [asked EXCEPT ![c] = request]
    /\ UNCHANGED <<sk, responses>>

(***************************************************************************)
(* The caller: R is the witness times the base point.                      *)
(***************************************************************************)
ristretto_scalarmult(c) ==
    /\ At(c, "fill", "phase2")
    /\ signature' = [signature EXCEPT ![c].R = Point(signature[c].s)]
    /\ UNCHANGED <<asked, sk, responses>>

(***************************************************************************)
(* The response to the challenge: challenge times key plus witness.        *)
(***************************************************************************)
Challenge_withoutR(request, R) == [transcript |-> Transcript(request), R |-> Zero]

Challenge(request, R) == [transcript |-> Transcript(request), R |-> R]

Response(request, key, sig) ==
    [is |-> "response", challenge |-> Challenge(request, sig.R), key |-> key,
     witness |-> sig.s]

sign_sr25519_phase2(c, request) ==
    /\ At(c, "phase2", "done")
    /\ signature' = [signature EXCEPT ![c].s = Response(request, sk[c], signature[c])]
    /\ \/ request # asked[c] /\ UNCHANGED responses
       \/ /\ request = asked[c]
          /\ responses' = responses \cup {Response(request, sk[c], signature[c])}
    /\ asked' = [asked EXCEPT ![c] = request]
    /\ UNCHANGED sk

(***************************************************************************)
(* The signature is used, or the caller gives up half way.                 *)
(***************************************************************************)
Leave(c) ==
    /\ step[c] # "idle"
    /\ step' = [step EXCEPT ![c] = "idle"]
    /\ UNCHANGED <<asked, sk, signature, responses>>

Next ==
    \E c \in Caller :
        \/ Begin(c) \/ get_sr25519_sk(c)
        \/ sign_sr25519_phase1(c, asked[c])
        \/ ristretto_scalarmult(c)
        \/ \E request \in Request : sign_sr25519_phase2(c, request)
        \/ Leave(c)

Spec == Init /\ [][Next]_vars

-------------------------------------------------------------------------------
(***************************************************************************)
(* Types: a witness is in the second half exactly while its R is missing   *)
(* or its challenge unanswered.                                            *)
(***************************************************************************)
SrTypeOK ==
    /\ step \in [Caller -> {"idle", "loaded", "phase1", "fill", "phase2", "done"}]
    /\ asked \in [Caller -> Request]
    /\ \A c \in Caller :
          /\ \E key \in Key : sk[c] \in {ed25519(key), sr25519(key)}
          /\ step[c] \in {"fill", "phase2"} => signature[c].s.is = "witness"
          /\ step[c] = "done" => signature[c].s.is = "response"

(***************************************************************************)
(* As long as phase 2 is called for what phase 1 was called for, no        *)
(* witness answers two challenges, whoever signs what, and even if the     *)
(* generator repeats itself: two responses to different challenges with    *)
(* one witness are two equations for the secret key (lib.rs:110-117 and    *)
(* 139-153).                                                               *)
(***************************************************************************)
WitnessOnce ==
    \A a, b \in responses :
        a.witness = b.witness /\ a.key = b.key => a.challenge = b.challenge

(***************************************************************************)
(* A finished signature verifies, for what phase 2 was called for whatever *)
(* phase 1 was: R is its witness, and it answers the challenge of this     *)
(* context, message, public key and R, with the converted key if the       *)
(* public key is that of the secret key (the test, lib.rs:239-252).        *)
(***************************************************************************)
SignatureVerifies ==
    \A c \in Caller : step[c] = "done" =>
        LET s == signature[c].s
        IN  /\ signature[c].R = Point(s.witness)
            /\ s.challenge.R = signature[c].R
            /\ s.challenge.transcript =
                  [context |-> asked[c].context, msg |-> asked[c].msg,
                   pk |-> asked[c].key]
            /\ asked[c].key = sk[c].of => s.key = sr25519(asked[c].key)
===============================================================================
