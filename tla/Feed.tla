-------------------------------- MODULE Feed --------------------------------
(***************************************************************************)
(* What the receiver thread promises the session about the responses the   *)
(* server sent: it hands them over in order, each once, and none is left   *)
(* behind unless it reports a failure or has ended.  After a failure the   *)
(* responses that are handed over may be any.                              *)
(***************************************************************************)
EXTENDS Naturals, Sequences

VARIABLES
    sent,       \* the responses the server has sent
    given,      \* those handed over to the session
    failed,     \* a failure was reported
    over        \* the thread has ended

vars == <<sent, given, failed, over>>

Init ==
    /\ sent = <<>> /\ given = <<>>
    /\ failed = FALSE /\ over = FALSE

\* t is s with one more element.
Extends(t, s) == Len(t) = Len(s) + 1 /\ SubSeq(t, 1, Len(s)) = s

Send ==
    /\ Extends(sent', sent)
    /\ UNCHANGED <<given, failed, over>>

Give ==
    /\ ~over
    /\ Extends(given', given)
    /\ ~failed => Len(given) < Len(sent) /\ given'[Len(given')] = sent[Len(given')]
    /\ UNCHANGED <<sent, failed, over>>

Fail ==
    /\ ~over
    /\ failed' = TRUE
    /\ over' \in BOOLEAN
    /\ UNCHANGED <<sent, given>>

End ==
    /\ over' = TRUE
    /\ UNCHANGED <<sent, given, failed>>

Next == Send \/ Give \/ Fail \/ End

Safety == Init /\ [][Next]_vars

Settled == Len(given) = Len(sent) \/ failed \/ over

Spec == Safety /\ []<>Settled
=============================================================================
