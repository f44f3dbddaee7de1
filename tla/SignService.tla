----------------------------- MODULE SignService ------------------------------
(***************************************************************************)
(* What the application promises a host and a user, without buffers,       *)
(* callbacks or transport: a host opens an upload for a path and adds      *)
(* chunks to it; it may ask once for the signature of the whole, which     *)
(* closes the upload; an approval answers exactly what was asked, and only *)
(* keys of this application are used.                                      *)
(***************************************************************************)
EXTENDS Sequences

CONSTANTS Chunk,     \* what a command may add to a message
          OwnPath    \* the paths this application may use

Missing == [is |-> "nothing", path |-> <<>>, msg |-> <<>>]

Request(act, path, msg) == [is |-> act, path |-> path, msg |-> msg]

VARIABLES upload,   \* the upload in progress
          ask,      \* what the user is asked to approve
          answer    \* the key use on its way to the host

vars == <<upload, ask, answer>>

Init == upload = Missing /\ ask = Missing /\ answer = Missing

Idle == ask = Missing /\ answer = Missing

Open(path) ==
    /\ Idle
    /\ upload' = Request("upload", path, <<>>)
    /\ UNCHANGED <<ask, answer>>

Extend(chunk) ==
    /\ Idle /\ upload # Missing
    /\ upload' = Request("upload", upload.path, upload.msg \o chunk)
    /\ UNCHANGED <<ask, answer>>

Close ==
    /\ Idle
    /\ upload' = Missing
    /\ UNCHANGED <<ask, answer>>

AskToSign(chunk) ==
    /\ Idle /\ upload # Missing
    /\ upload.msg \o chunk # <<>>
    /\ ask' = Request("signature", upload.path, upload.msg \o chunk)
    /\ upload' = Missing
    /\ UNCHANGED answer

AskForAddress(path) ==
    /\ Idle
    /\ ask' = Request("address", path, <<>>)
    /\ upload' = Missing
    /\ UNCHANGED answer

TellAddress(path) ==
    /\ Idle
    /\ answer' = Request("address", path, <<>>)
    /\ upload' = Missing
    /\ UNCHANGED ask

Approve ==
    /\ ask # Missing
    /\ answer' = ask
    /\ ask' = Missing
    /\ UNCHANGED upload

Refuse ==
    /\ ask' = Missing
    /\ UNCHANGED <<upload, answer>>

Heard ==
    /\ answer' = Missing
    /\ UNCHANGED <<upload, ask>>

Restart == upload' = Missing /\ ask' = Missing /\ answer' = Missing

Next ==
    \/ \E path \in OwnPath : Open(path) \/ AskForAddress(path) \/ TellAddress(path)
    \/ \E chunk \in Chunk : Extend(chunk) \/ AskToSign(chunk)
    \/ Close \/ Approve \/ Refuse \/ Heard \/ Restart

Spec == Init /\ [][Next]_vars
===============================================================================
