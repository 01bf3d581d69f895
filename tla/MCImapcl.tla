------------------------------ MODULE MCImapcl ------------------------------
(* The program on one mailbox of two messages, or on two of one each.      *)
EXTENDS Imapcl

CONSTANTS main_box, other, m1, m2

OneMailbox   == (main_box :> {m1, m2})
TwoMailboxes == (main_box :> {m1}) @@ (other :> {m2})
=============================================================================
