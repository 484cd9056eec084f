---------------------------- MODULE MCHostCache ----------------------------
(* Two clients, one host with two columns that updates write, one of which  *)
(* names a certificate or an access list.                                   *)
EXTENDS HostCache, TLC

CONSTANTS c1, c2, h1, f1, f2, none, v1, ok, error

TwoClients == {c1, c2}
OneHost == {h1}
TwoFields == {f1, f2}
OneReference == {f2}
TwoValues == {none, v1}
TwoMarks == {ok, error}

\* Clients are interchangeable.
Symmetry == Permutations(TwoClients)
=============================================================================
