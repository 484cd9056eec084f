---------------------------- MODULE MCProxyHosts ----------------------------
(* Small instances of ProxyHosts: two hosts, two domains, a good body, another
   and one that nginx rejects. *)
EXTENDS ProxyHosts, TLC

CONSTANTS p1, p2, h1, h2, d1, d2, n1, n2, good, other, bad

OneClient == {p1}
TwoClients == {p1, p2}
OneHost == {h1}
TwoHosts == {h1, h2}
TwoDomains == {d1, d2}
TwoNames == {n1, n2}
MCBodies == {good, other, bad}
MCBadBodies == {bad}
GoodBodies == {}

\* Each domain has a file of its own.  With [d \in TwoDomains |-> n1] both have one, as *.a.b
\* and a.b have, and DBIsNginx and NoOrphans do not hold.
OwnFiles == (d1 :> n1) @@ (d2 :> n2)

AllData == [host : Hosts, name : Names, body : Bodies, waf : BOOLEAN, cloud : BOOLEAN]
ManagerOps == {"generate", "cleanup", "remove", "test", "reload"}

NewRow(d, b, e) == [enabled |-> e, domain |-> d, body |-> b, waf |-> TRUE, cloud |-> FALSE]
GoodNewRows == {NewRow(d, good, TRUE) : d \in Domains}
DisabledNewRows == {NewRow(d1, good, e) : e \in BOOLEAN}

ToggleRequests == {("enabled" :> e) : e \in BOOLEAN}
DomainRequests == {("domain" :> d) : d \in Domains}
SerialRequests == ToggleRequests \cup DomainRequests \cup {("waf" :> FALSE)}
EndRequests == {("domain" :> d2) @@ ("body" :> bad)}

AllOps == {"create", "update", "updateDBOnly", "updateWithoutReload", "refresh", "regenerate",
           "delete", "refreshWithoutReload"}
EndOps == {"create", "update", "delete", "updateWithoutReload"}
=============================================================================
