-------------------------- MODULE MCNginxReloader --------------------------
(* NginxReloader with two callers, three timers and three configurations. *)
EXTENDS NginxReloader

CONSTANTS c1, c2, t1, t2, t3

MCCallers == {c1, c2}
MCTimers == {t1, t2, t3}
=============================================================================
