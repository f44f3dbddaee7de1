---------------------------- MODULE Sr25519_proofs ----------------------------
(***************************************************************************)
(* Proofs about Sr25519, for any number of callers and any keys, messages, *)
(* contexts and random bytes.  The argument: R is computed from the        *)
(* witness, so the signature verifies for whatever transcript phase 2      *)
(* makes; and where that is the transcript of phase 1, the witness alone   *)
(* determines the challenge, so neither who signs nor what the generator   *)
(* returns matters.                                                        *)
(***************************************************************************)
EXTENDS Sr25519, TLAPS

Converted == {"phase1", "fill", "phase2", "done"}

ShapesOK ==
    /\ step \in [Caller -> {"idle", "loaded", "phase1", "fill", "phase2", "done"}]
    /\ asked \in [Caller -> Request]
    /\ sk = [c \in Caller |-> sk[c]]
    /\ signature = [c \in Caller |-> [R |-> signature[c].R, s |-> signature[c].s]]

SecretKey == {ed25519(key) : key \in Key} \cup {sr25519(key) : key \in Key}
ConvertedKey == {sr25519(key) : key \in Key}

KeysOK ==
    \A c \in Caller :
        /\ sk[c] \in SecretKey
        /\ step[c] \in Converted => sk[c] \in ConvertedKey

(***************************************************************************)
(* Between the phases the witness of this request is in the buffer, after  *)
(* them the response to the challenge phase 2 was called for.              *)
(***************************************************************************)
OwnWitness(c, w) == w.is = "witness" /\ w.transcript = Transcript(asked[c])

OwnResponse(c, s) ==
    /\ s.is = "response"
    /\ s.challenge = [transcript |-> Transcript(asked[c]), R |-> Point(s.witness)]
    /\ s.key = sk[c]

BuffersOK ==
    \A c \in Caller :
        /\ step[c] \in {"fill", "phase2"} => OwnWitness(c, signature[c].s)
        /\ step[c] = "phase2" => signature[c].R = Point(signature[c].s)
        /\ step[c] = "done" =>
              /\ OwnResponse(c, signature[c].s)
              /\ signature[c].R = Point(signature[c].s.witness)

(***************************************************************************)
(* The challenge a response answers is determined by its witness.          *)
(***************************************************************************)
ResponsesOK ==
    \A r \in responses :
        r.challenge = [transcript |-> r.witness.transcript, R |-> Point(r.witness)]

SrInv == ShapesOK /\ KeysOK /\ BuffersOK /\ ResponsesOK

LEMMA SrInvInit == Init => SrInv
BY DEF Init, SrInv, ShapesOK, KeysOK, BuffersOK, ResponsesOK, Request, Converted,
       SecretKey, Blank, Zero

LEMMA SrInvNext == SrInv /\ [Next]_vars => SrInv'
<1> SUFFICES ASSUME SrInv, [Next]_vars PROVE SrInv'
    OBVIOUS
<1> USE DEF SrInv, ShapesOK, KeysOK, BuffersOK, ResponsesOK, Converted, OwnWitness,
            OwnResponse
<1>1. CASE UNCHANGED vars
    BY <1>1 DEF vars, Transcript
<1>2. ASSUME NEW c \in Caller, Begin(c) PROVE SrInv'
    <2>1. PICK request \in Request :
             /\ asked' = [asked EXCEPT ![c] = request]
             /\ sk' = [sk EXCEPT ![c] = ed25519(request.key)]
        BY <1>2 DEF Begin
    <2>2. /\ step' = [step EXCEPT ![c] = "loaded"]
          /\ responses' = responses
          /\ signature' = signature \/ signature' = [signature EXCEPT ![c] = Blank]
        BY <1>2 DEF Begin, At
    <2>3. ShapesOK'
        BY <2>1, <2>2 DEF Blank
    <2>4. \A d \in Caller \ {c} :
             /\ step'[d] = step[d] /\ asked'[d] = asked[d] /\ sk'[d] = sk[d]
             /\ signature'[d] = signature[d]
        BY <2>1, <2>2
    <2>5. KeysOK'
        <3>1. sk'[c] \in SecretKey
            BY <2>1 DEF Request, SecretKey
        <3> QED
            BY <2>1, <2>2, <2>4, <3>1
    <2>6. BuffersOK'
        BY <2>2, <2>4 DEF Transcript
    <2> QED
        BY <2>2, <2>3, <2>5, <2>6
<1>3. ASSUME NEW c \in Caller, get_sr25519_sk(c) PROVE SrInv'
    <2>1. /\ step[c] = "loaded"
          /\ step' = [step EXCEPT ![c] = "phase1"]
          /\ sk' = [sk EXCEPT ![c] = sr25519(sk[c].of)]
          /\ UNCHANGED <<asked, signature, responses>>
        BY <1>3 DEF get_sr25519_sk, At
    <2>2. sk'[c] \in ConvertedKey /\ sk'[c] \in SecretKey
        BY <2>1 DEF ed25519, sr25519, SecretKey, ConvertedKey
    <2>3. \A d \in Caller \ {c} : sk'[d] = sk[d] /\ step'[d] = step[d]
        BY <2>1
    <2>4. ShapesOK' /\ BuffersOK'
        BY <2>1 DEF Transcript
    <2>5. KeysOK' /\ ResponsesOK'
        BY <2>1, <2>2, <2>3
    <2> QED
        BY <2>4, <2>5
<1>4. ASSUME NEW c \in Caller, sign_sr25519_phase1(c, asked[c]) PROVE SrInv'
    <2>1. PICK rng \in Random :
             signature' = [signature EXCEPT ![c].s = Witness(asked[c], sk[c], rng)]
        BY <1>4 DEF sign_sr25519_phase1
    <2>2. /\ step[c] = "phase1"
          /\ step' = [step EXCEPT ![c] = "fill"]
          /\ asked' = asked
          /\ UNCHANGED <<sk, responses>>
        BY <1>4 DEF sign_sr25519_phase1, At
    <2>3. OwnWitness(c, signature'[c].s)
        BY <2>1 DEF Witness
    <2>4. \A d \in Caller \ {c} : signature'[d] = signature[d] /\ step'[d] = step[d]
        BY <2>1, <2>2
    <2>5. ShapesOK' /\ KeysOK' /\ ResponsesOK'
        BY <2>1, <2>2
    <2>6. BuffersOK'
        BY <2>1, <2>2, <2>3, <2>4 DEF Transcript
    <2> QED
        BY <2>5, <2>6
<1>5. ASSUME NEW c \in Caller, ristretto_scalarmult(c) PROVE SrInv'
    <2>1. /\ step[c] = "fill"
          /\ step' = [step EXCEPT ![c] = "phase2"]
          /\ signature' = [signature EXCEPT ![c].R = Point(signature[c].s)]
          /\ UNCHANGED <<asked, sk, responses>>
        BY <1>5 DEF ristretto_scalarmult, At
    <2>2. signature'[c].s = signature[c].s /\ signature'[c].R = Point(signature[c].s)
        BY <2>1
    <2>3. \A d \in Caller \ {c} : signature'[d] = signature[d] /\ step'[d] = step[d]
        BY <2>1
    <2>4. ShapesOK'
        BY <2>1
    <2>5. KeysOK' /\ ResponsesOK'
        BY <2>1
    <2>6. BuffersOK'
        BY <2>1, <2>2, <2>3 DEF Transcript
    <2> QED
        BY <2>4, <2>5, <2>6
<1>6. ASSUME NEW c \in Caller, NEW request \in Request, sign_sr25519_phase2(c, request)
      PROVE  SrInv'
    <2> DEFINE response == Response(request, sk[c], signature[c])
    <2>1. /\ step[c] = "phase2"
          /\ step' = [step EXCEPT ![c] = "done"]
          /\ asked' = [asked EXCEPT ![c] = request]
          /\ signature' = [signature EXCEPT ![c].s = response]
          /\ \/ UNCHANGED responses
             \/ request = asked[c] /\ responses' = responses \cup {response}
          /\ UNCHANGED sk
        BY <1>6 DEF sign_sr25519_phase2, At
    <2>2. /\ response.is = "response"
          /\ response.challenge =
                [transcript |-> Transcript(request), R |-> Point(signature[c].s)]
          /\ response.witness = signature[c].s
          /\ response.key = sk[c]
        BY <2>1 DEF Response, Challenge
    <2>3. signature[c].s.transcript = Transcript(asked[c])
        BY <2>1
    <2> HIDE DEF response
    <2>4. /\ signature'[c].R = signature[c].R
          /\ signature'[c].s = response
          /\ asked'[c] = request /\ step'[c] = "done"
          /\ \A d \in Caller \ {c} :
                signature'[d] = signature[d] /\ step'[d] = step[d] /\ asked'[d] = asked[d]
        BY <2>1
    <2>5. ShapesOK'
        <3>1. step' \in [Caller -> {"idle", "loaded", "phase1", "fill", "phase2", "done"}]
            BY <2>1
        <3>2. asked' \in [Caller -> Request] /\ sk' = [d \in Caller |-> sk'[d]]
            BY <2>1
        <3>3. signature' = [d \in Caller |-> [R |-> signature'[d].R, s |-> signature'[d].s]]
            BY <2>1
        <3> QED
            BY <3>1, <3>2, <3>3
    <2>6. KeysOK'
        BY <2>1, <2>4
    <2>7. BuffersOK'
        BY <2>1, <2>2, <2>4 DEF Transcript
    <2>8. ResponsesOK'
        BY <2>1, <2>2, <2>3
    <2> QED
        BY <2>5, <2>6, <2>7, <2>8
<1>7. ASSUME NEW c \in Caller, Leave(c) PROVE SrInv'
    BY <1>7 DEF Leave, Transcript
<1> QED
    BY <1>1, <1>2, <1>3, <1>4, <1>5, <1>6, <1>7 DEF Next

LEMMA SrInvariance == Spec => []SrInv
BY SrInvInit, SrInvNext, PTL DEF Spec

(***************************************************************************)
(* Types, and what the second half of a signature buffer is when (lib.rs:  *)
(* 117, 153).                                                              *)
(***************************************************************************)
THEOREM SrTypeCorrect == Spec => []SrTypeOK
<1>1. SrInv => SrTypeOK
    BY DEF SrInv, ShapesOK, KeysOK, BuffersOK, SrTypeOK, OwnWitness, OwnResponse,
           SecretKey
<1> QED
    BY <1>1, SrInvariance, PTL

(***************************************************************************)
(* No witness answers two challenges when phase 2 is called for what phase *)
(* 1 was called for (lib.rs:110-117, 139-153).                             *)
(***************************************************************************)
THEOREM WitnessesUsedOnce == Spec => []WitnessOnce
<1>1. SrInv => WitnessOnce
    BY DEF SrInv, ResponsesOK, WitnessOnce
<1> QED
    BY <1>1, SrInvariance, PTL

(***************************************************************************)
(* A finished signature verifies, for what phase 2 was called for (the     *)
(* test, lib.rs:239-252).                                                  *)
(***************************************************************************)
THEOREM SignaturesVerify == Spec => []SignatureVerifies
<1>1. SrInv => SignatureVerifies
    <2> SUFFICES ASSUME SrInv, NEW c \in Caller, step[c] = "done"
                 PROVE  LET s == signature[c].s
                        IN  /\ signature[c].R = Point(s.witness)
                            /\ s.challenge.R = signature[c].R
                            /\ s.challenge.transcript = Transcript(asked[c])
                            /\ asked[c].key = sk[c].of => s.key = sr25519(asked[c].key)
        BY DEF SignatureVerifies, Transcript
    <2>1. OwnResponse(c, signature[c].s) /\ signature[c].R = Point(signature[c].s.witness)
        BY DEF SrInv, BuffersOK
    <2>2. sk[c] = sr25519(sk[c].of)
        BY DEF SrInv, KeysOK, Converted, ConvertedKey, sr25519
    <2> QED
        BY <2>1, <2>2 DEF OwnResponse
<1> QED
    BY <1>1, SrInvariance, PTL
===============================================================================
