---------------------------- MODULE AtomicUpload ----------------------------
(***************************************************************************)
(* What a file upload promises to the one who asked for it: the target     *)
(* appears in one step, with the whole body, and an upload that has been   *)
(* stopped never makes it appear.  "ok" is answered only when it is there; *)
(* an error says nothing, because the file may have been stored, or may    *)
(* yet be, when the answer to it is lost.  Upload.tla implements this.     *)
(***************************************************************************)
EXTENDS Naturals, Sequences

CONSTANT NoFile  \* the target before the upload

VARIABLES
    body,    \* what the browser sends
    target,  \* the target file
    state,   \* "open", "stored" or "stopped"
    answer   \* "none", "ok" or "error"

vars == <<body, target, state, answer>>

Init ==
    /\ body \in Seq(Nat)
    /\ target = NoFile /\ state = "open" /\ answer = "none"

Store ==
    /\ state = "open"
    /\ target' = body /\ state' = "stored"
    /\ UNCHANGED <<body, answer>>

Stop ==
    /\ state = "open"
    /\ state' = "stopped"
    /\ UNCHANGED <<body, target, answer>>

AnswerOk ==
    /\ answer = "none" /\ state = "stored"
    /\ answer' = "ok"
    /\ UNCHANGED <<body, target, state>>

AnswerError ==
    /\ answer = "none"
    /\ answer' = "error"
    /\ UNCHANGED <<body, target, state>>

Next == Store \/ Stop \/ AnswerOk \/ AnswerError

Spec == Init /\ [][Next]_vars
=============================================================================
