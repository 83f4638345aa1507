------------------------------- MODULE MCFirewall -------------------------------
(***************************************************************************)
(* Two configurations of one node that differ in every group of rules, and  *)
(* a third that renders the same script as the second.                      *)
(***************************************************************************)
EXTENDS Firewall

CONSTANTS admin, peer, p1

Tight == [ssh |-> {admin}, wg |-> TRUE, peers |-> {peer}, http |-> FALSE,
          https |-> TRUE, kubeApi |-> FALSE, admins |-> {}, extra |-> {}]
Open == [ssh |-> {admin, peer}, wg |-> FALSE, peers |-> {peer}, http |-> TRUE,
         https |-> TRUE, kubeApi |-> TRUE, admins |-> {}, extra |-> {p1}]
OpenTwin == [Open EXCEPT !.peers = {}]

MCConfigs == {Tight, Open, OpenTwin}
===============================================================================
