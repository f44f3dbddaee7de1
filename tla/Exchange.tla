------------------------------- MODULE Exchange --------------------------------
(***************************************************************************)
(* The protocol of commands and answers, whatever is in them: each command *)
(* gets one answer, at once or after a review, and what it was for and     *)
(* whether it was answered OK decide what becomes of the upload.  Both     *)
(* SovereignApp and ApduBytes, two views of the same handlers, implement   *)
(* this specification.                                                     *)
(***************************************************************************)
VARIABLES stage,      \* ready, command, review or answer
          request,    \* what the command is for
          verdict,    \* what the answer says: ok or refused
          uploading,  \* is an upload in progress?
          asked       \* what the user is asked: nothing, message or address

vars == <<stage, request, verdict, uploading, asked>>

(***************************************************************************)
(* address and show: an address without and with confirmation; init, add   *)
(* and last: the three kinds of INS_SIGN.                                  *)
(***************************************************************************)
Requests == {"version", "address", "show", "init", "add", "last", "other"}

Init ==
    /\ stage = "ready" /\ request = "none" /\ verdict = "none"
    /\ uploading = FALSE
    /\ asked = "nothing"

Receive(r) ==
    /\ stage = "ready"
    /\ stage' = "command"
    /\ request' = r
    /\ UNCHANGED <<verdict, uploading, asked>>

Answer(v) ==
    /\ stage = "command"
    /\ stage' = "answer"
    /\ verdict' = v
    /\ UNCHANGED <<request, asked>>

(***************************************************************************)
(* Whatever is for an upload or a key may be refused, which ends the       *)
(* upload or leaves it alone.                                              *)
(***************************************************************************)
Refuse ==
    /\ Answer("refused")
    /\ request # "version"
    /\ uploading' \in {FALSE, uploading}
    /\ request = "other" => UNCHANGED uploading

TellVersion == request = "version" /\ Answer("ok") /\ UNCHANGED uploading

TellAddress == request = "address" /\ Answer("ok") /\ uploading' = FALSE

Open == request = "init" /\ Answer("ok") /\ uploading' = TRUE

Extend == request = "add" /\ uploading /\ Answer("ok") /\ UNCHANGED uploading

(***************************************************************************)
(* The user is asked, with no upload in progress any more.                 *)
(***************************************************************************)
Ask(what) ==
    /\ stage = "command"
    /\ stage' = "review"
    /\ asked' = what
    /\ uploading' = FALSE
    /\ UNCHANGED <<request, verdict>>

AskToSign == request = "last" /\ uploading /\ Ask("message")

AskForAddress == request = "show" /\ Ask("address")

Decide(v) ==
    /\ stage = "review"
    /\ stage' = "answer"
    /\ verdict' = v
    /\ asked' = "nothing"
    /\ UNCHANGED <<request, uploading>>

Send ==
    /\ stage = "answer"
    /\ stage' = "ready"
    /\ request' = "none" /\ verdict' = "none"
    /\ UNCHANGED <<uploading, asked>>

(***************************************************************************)
(* The transport or the application starts over.                           *)
(***************************************************************************)
Reset ==
    /\ stage' = "ready" /\ request' = "none" /\ verdict' = "none"
    /\ uploading' \in {FALSE, uploading}
    /\ asked' = "nothing"

Next ==
    \/ \E r \in Requests : Receive(r)
    \/ Refuse \/ TellVersion \/ TellAddress \/ Open \/ Extend
    \/ AskToSign \/ AskForAddress
    \/ \E v \in {"ok", "refused"} : Decide(v)
    \/ Send \/ Reset

Spec == Init /\ [][Next]_vars
===============================================================================
