------------------------------ MODULE MCSession ------------------------------
(* Session on a small instance, under an open client and an open server.   *)
EXTENDS Session
=============================================================================
