------------------------------ MODULE MCNodeSystem ------------------------------
(***************************************************************************)
(* Configurations of one node for TLC.                                      *)
(***************************************************************************)
EXTENDS NodeSystem

CONSTANTS h1, b1, b2, k1, k2, v1, v2, ns2, d1

\* A hostname, one value, nameservers of the host.
Plain == [hostname |-> h1, block |-> b1, sysctl |-> [k \in {k1} |-> v1],
          dns |-> TRUE, nameservers |-> <<>>, search |-> {}]
\* Nodes changed; no values and no dns block.
Bare == [hostname |-> Unset, block |-> b2, sysctl |-> <<>>,
         dns |-> FALSE, nameservers |-> <<>>, search |-> {}]
\* A key the kernel does not know, nameservers and a search domain given.
Full == [hostname |-> h1, block |-> b2, sysctl |-> [k \in {k1, k2} |-> v2],
         dns |-> TRUE, nameservers |-> <<ns2>>, search |-> {d1}]

MCConfigs == {Plain, Bare, Full}
===============================================================================
