--------------------------- MODULE MCClusterResource ---------------------------
(***************************************************************************)
(* Configurations of up to three nodes for TLC, and the sets of them the    *)
(* runs let the user choose from.                                           *)
(***************************************************************************)
EXTENDS ClusterResource

CONSTANTS t1, t2, o1, o2

Make(nodes, servers, token, wg, firewall, opts, sorted) ==
    [nodes |-> nodes, servers |-> servers, token |-> token, wg |-> wg,
     firewall |-> firewall, opts |-> opts, sorted |-> sorted]

\* One server and one agent; a token is generated.
Pair == Make({1, 3}, {1}, NoToken, TRUE, TRUE, o1, TRUE)
\* A node that sorts between them joins, so the agent's address changes; both
\* become servers, the token is set.
Trio == Make({1, 2, 3}, {1, 2, 3}, t1, TRUE, FALSE, o1, TRUE)
\* The last node leaves; nothing is tunnelled.
Plain == Make({1, 2}, {1}, NoToken, FALSE, TRUE, o2, TRUE)

\* The first one, its agent listed before its server.
Shuffled == [Pair EXCEPT !.sorted = FALSE]

Growing == {Pair, Trio, Plain, Shuffled}

\* Three servers and a configured token.
Quorum == {Make({1, 2, 3}, {1, 2, 3}, t1, TRUE, TRUE, o1, TRUE)}
\* One server without WireGuard; its token is generated.
Single == {Make({1}, {1}, NoToken, FALSE, FALSE, o1, TRUE)}
\* The same, and what is rendered into config.yaml changes.
Editing == Single \cup {Make({1}, {1}, NoToken, FALSE, FALSE, o2, TRUE)}
\* The first server is not the first node once two servers are added.
Prepending == {Make({2}, {2}, t1, TRUE, FALSE, o1, TRUE),
               Make({1, 2, 3}, {1, 2, 3}, t1, TRUE, FALSE, o1, TRUE)}
\* An agent is added, which sorts after the server.
Adding == {Make({1}, {1}, t1, TRUE, FALSE, o1, TRUE),
           Make({1, 2}, {1}, t1, TRUE, FALSE, o1, TRUE)}
===============================================================================
