------------------------------- MODULE Download -------------------------------
(***************************************************************************)
(* What the batch mode of main() promises its user: greeting, LOGIN,       *)
(* SELECT, SEARCH and FETCH come in this order and each only after the one *)
(* before succeeded; only what the SEARCH found is written, nothing before *)
(* the FETCH is complete; it ends in success only if all of it was         *)
(* written; and it does end.                                               *)
(*                                                                         *)
(* A connection can break in a way after which only part of this is left:  *)
(* the order, and that nothing is written that was not found.              *)
(***************************************************************************)
CONSTANT Messages

VARIABLES
    stage,    \* the step in progress, or how it ended
    wanted,   \* what SEARCH found
    saved,    \* what was written
    broken    \* the connection is one of which success means little

vars == <<stage, wanted, saved, broken>>

Init ==
    /\ stage = "greeting"
    /\ wanted = {}
    /\ saved = {}
    /\ broken = FALSE

After(s) == CASE s = "greeting" -> "login"
              [] s = "login"    -> "select"
              [] s = "select"   -> "search"
              [] s = "fetch"    -> "save"

Proceed ==
    /\ stage \in {"greeting", "login", "select", "fetch"}
    /\ stage' = After(stage)
    /\ UNCHANGED <<wanted, saved, broken>>

Find ==
    /\ stage = "search"
    /\ wanted' \in SUBSET Messages
    /\ stage' = IF wanted' = {} THEN "done" ELSE "fetch"
    /\ UNCHANGED <<saved, broken>>

\* Files are written one by one, and the last may fail after all were written.
Write ==
    /\ stage = "save"
    /\ saved' \in SUBSET wanted
    /\ stage' = "failed" \/ (stage' = "done" /\ (saved' = wanted \/ broken))
    /\ UNCHANGED <<wanted, broken>>

\* The FETCH is taken for complete although nothing came.
Lose ==
    /\ stage = "fetch" /\ broken
    /\ stage' = "done"
    /\ UNCHANGED <<wanted, saved, broken>>

Fail ==
    /\ stage \notin {"done", "failed"}
    /\ stage' = "failed"
    /\ UNCHANGED <<wanted, saved, broken>>

Break ==
    /\ ~broken
    /\ broken' = TRUE
    /\ UNCHANGED <<stage, wanted, saved>>

Work == Proceed \/ Find \/ Write \/ Lose \/ Fail

Safety == Init /\ [][Work \/ Break]_vars

Spec == Safety /\ WF_vars(Work)
=============================================================================
