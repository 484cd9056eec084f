---------------------------- MODULE MCConfigSync ----------------------------
(* Small instances of ConfigSync: one client, two or three hosts. *)
EXTENDS ConfigSync, TLC

CONSTANTS p1, h1, h2, h3, d1, d2, d3, n1, n2, n3, good, bad

OneClient == {p1}
TwoHosts == {h1, h2}
ThreeHosts == {h1, h2, h3}
TwoDomains == {d1, d2}
ThreeDomains == {d1, d2, d3}
TwoNames == {n1, n2}
ThreeNames == {n1, n2, n3}
MCBodies == {good, bad}
MCBadBodies == {bad}

\* Each domain has a file of its own,
OwnFiles == (d1 :> n1) @@ (d2 :> n2) @@ (d3 :> n3)
OwnTwoFiles == (d1 :> n1) @@ (d2 :> n2)
\* whose name leads back to it, except that of d3, a wildcard, say;
NotThird == {<<FileOf[d], d>> : d \in Domains \ {d3}}
\* that of domains which are prefixes of one another leads to both.
AnyFound == Names \X Domains

AllData == [host : Hosts, name : Names, body : Bodies, waf : BOOLEAN, cloud : BOOLEAN]
ManagerOps == {"generate", "cleanup", "remove", "test", "reload"}

\* A new host has the WAF and blocks no cloud provider.
NewRow(d, b) == [enabled |-> TRUE, domain |-> d, body |-> b, waf |-> TRUE, cloud |-> FALSE]
AnyRows == {NewRow(d, b) : d \in Domains, b \in Bodies}

\* An update that nginx accepts, and that changes every file of the host; a settings change
\* synchronises all hosts.
GoodRequests == {("body" :> good) @@ ("waf" :> FALSE) @@ ("cloud" :> TRUE)}
CrashOps == {"create", "update", "delete", "sync"}
EndOps == {"create", "delete", "sync"}

\* Nothing distinguishes the hosts: calls that are about none carry a datum they do not read.
HostSymmetry == Permutations(Hosts)
=============================================================================
