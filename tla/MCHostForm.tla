----------------------------- MODULE MCHostForm -----------------------------
(* Two extras that share a row, one that is deleted and one that may end the session, and a certificate. *)
EXTENDS HostForm
=============================================================================
