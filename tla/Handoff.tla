------------------------------- MODULE Handoff -------------------------------
(***************************************************************************)
(* What the two threads of a Session promise each other: every response    *)
(* the receiver puts in is taken out by the main thread at most once and   *)
(* in order; a response is only taken by a wait; and a wait ends, with a   *)
(* response or without one, the queue then being as it was.                *)
(***************************************************************************)
EXTENDS Naturals, Sequences

VARIABLES
    queue,    \* the responses put in and not yet taken
    wait,     \* whether the main thread waits; broken after undefined behaviour
    hand      \* the response the main thread holds, if any, as a sequence

vars == <<queue, wait, hand>>

Init ==
    /\ queue = <<>>
    /\ wait = "no"
    /\ hand = <<>>

Put ==
    /\ Len(queue') = Len(queue) + 1
    /\ SubSeq(queue', 1, Len(queue)) = queue
    /\ UNCHANGED <<wait, hand>>

Wait ==
    /\ wait = "no" /\ hand = <<>>
    /\ wait' = "waiting"
    /\ UNCHANGED <<queue, hand>>

Take ==
    /\ wait = "waiting" /\ queue # <<>>
    /\ hand' = <<Head(queue)>>
    /\ queue' = Tail(queue)
    /\ wait' = "no"

GiveUp ==
    /\ wait = "waiting"
    /\ wait' = "no"
    /\ UNCHANGED <<queue, hand>>

\* The response is done with; the caller may wait for the next one.
Drop ==
    /\ wait = "no" /\ hand # <<>>
    /\ hand' = <<>>
    /\ wait' \in {"no", "waiting", "broken"}
    /\ UNCHANGED queue

\* A response is taken though there is none.
Break ==
    /\ wait = "waiting" /\ queue = <<>>
    /\ wait' = "broken"
    /\ UNCHANGED <<queue, hand>>

Next == Put \/ Wait \/ Take \/ GiveUp \/ Drop \/ Break

Safety == Init /\ [][Next]_vars

Spec == Safety /\ WF_vars(Take \/ GiveUp \/ Break)
=============================================================================
