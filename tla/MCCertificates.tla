--------------------------- MODULE MCCertificates ---------------------------
(* Two tasks on one certificate of any provider. *)
EXTENDS Certificates, TLC

CONSTANTS t1, t2

TwoTasks == {t1, t2}
AllProviders == {"letsencrypt", "selfsigned", "custom"}
=============================================================================
