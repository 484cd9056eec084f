---------------------------- MODULE ServedConfig ----------------------------
(* What the configuration manager promises: nginx goes from one accepted      *)
(* configuration to the next in whole operations, each on one host.           *)

CONSTANTS Names,      \* configuration file names
          BadBodies,  \* what nginx rejects
          NoFile,
          Inputs      \* the host data an operation is for

VARIABLE served  \* by file name, the datum in force and what its WAF file says

Accepted(x) == x.body \notin BadBodies

Init == served = [n \in Names |-> NoFile]

\* A host is configured as its datum says.
Configure(x) ==
  /\ Accepted(x)
  /\ served' = [served EXCEPT ![x.name] = <<x, IF x.waf THEN x.body ELSE NoFile>>]

\* The WAF rules of a host are renewed, where it uses them.
RenewWAF(x) ==
  served' = [n \in Names |->
    IF served[n] # NoFile /\ served[n][1].host = x.host /\ served[n][1].waf
    THEN <<served[n][1], x.body>>
    ELSE served[n]]

\* A host is taken off.
Remove(x) == served' = [served EXCEPT ![x.name] = NoFile]

Next == \E x \in Inputs : Configure(x) \/ (Accepted(x) /\ RenewWAF(x)) \/ Remove(x)

Spec == Init /\ [][Next]_served
=============================================================================
