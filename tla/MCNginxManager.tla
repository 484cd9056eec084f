--------------------------- MODULE MCNginxManager ---------------------------
(* Two goroutines, two hosts and their data, as the runs of NginxManager use them. *)
EXTENDS NginxManager

CONSTANTS p1, p2, h1, h2, n1, n2, good, other, bad

MCProcs == {p1, p2}
MCHosts == {h1, h2}
MCNames == {n1, n2}
MCBodies == {good, other, bad}
MCBadBodies == {bad}

\* Each host keeps its name and its cloud-provider blocking: h1 has it, h2 has not.
Kept == {[host |-> h1, name |-> n1, body |-> b, waf |-> w, cloud |-> TRUE] :
             b \in MCBodies, w \in BOOLEAN}
Second == {[host |-> h2, name |-> n2, body |-> b, waf |-> TRUE, cloud |-> FALSE] :
             b \in {good, bad}}
KeptInputs == Kept \cup Second

\* h1 may drop its cloud-provider blocking.
CloudInputs == {[host |-> h1, name |-> n1, body |-> b, waf |-> FALSE, cloud |-> c] :
                  b \in {good, bad}, c \in BOOLEAN}

\* h1 may be renamed; nginx rejects it under both names at once.
OneHost == {h1}
RenameInputs == {[host |-> h1, name |-> n, body |-> good, waf |-> TRUE, cloud |-> TRUE] : n \in MCNames}

LockedOps == {"generate", "wafonly", "remove"}
RollbackOps == {"generate", "wafonly"}
EveryOp == {"generate", "cleanup", "wafonly", "remove", "test", "reload", "testreload"}
=============================================================================
