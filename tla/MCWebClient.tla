---------------------------- MODULE MCWebClient ----------------------------
(* Two requests of each control, from one or two dialogs, and one change by somebody else. *)
EXTENDS WebClient
=============================================================================
