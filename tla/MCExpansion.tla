------------------------------- MODULE MCExpansion -------------------------------
(***************************************************************************)
(* Lists of nodes and admin peers for TLC.  1 to 3 are public IPs, 5 and 6   *)
(* hostnames, 7 to 9 "node-1" to "node-3"; the hostname 1 looks like an IP.  *)
(***************************************************************************)
EXTENDS Expansion

CONSTANTS g1

MCIPs == {1, 2, 3}
MCHosts == {1, 5, 6, 8}
MCPositionName == <<7, 8, 9>>

Server(ip, host) == [ip |-> ip, host |-> host, server |-> TRUE]
Agent(ip, host) == [ip |-> ip, host |-> host, server |-> FALSE]
Auto == [ip |-> None, key |-> None]
Given == [ip |-> None, key |-> g1]
At3 == [ip |-> 3, key |-> None]

ConfigOf(nodes, wg, admin, peers) ==
    [nodes |-> nodes, wg |-> wg, admin |-> admin, adminIP |-> None, peers |-> peers]
\* admin_peer with an address of its own
AdminAt(nodes, ip) == [ConfigOf(nodes, TRUE, TRUE, <<>>) EXCEPT !.adminIP = ip]

MCConfigs == {
    \* one server, one generated client
    ConfigOf(<<Server(1, None)>>, TRUE, FALSE, (11 :> Auto)),
    \* an agent that sorts first; the client asks for an address
    ConfigOf(<<Server(1, 6), Agent(2, 5)>>, TRUE, FALSE, (11 :> Auto) @@ (12 :> At3)),
    \* names by position; a key is given
    ConfigOf(<<Server(1, None), Agent(2, None)>>, TRUE, FALSE, (11 :> Given) @@ (12 :> At3)),
    \* the agent first; admin_peer
    ConfigOf(<<Agent(2, None), Server(1, 5)>>, TRUE, TRUE, <<>>),
    \* admin_peer at an address that clients of other configurations ask for
    AdminAt(<<Server(1, 5)>>, 3),
    \* three servers
    ConfigOf(<<Server(1, 6), Server(2, 5), Server(3, None)>>, TRUE, FALSE, (12 :> Auto)),
    \* one key given to two clients
    ConfigOf(<<Server(1, 5)>>, TRUE, FALSE, (11 :> Given) @@ (13 :> Given)),
    \* no mesh
    ConfigOf(<<Server(1, 5)>>, FALSE, FALSE, <<>>),
    \* identities that collide, or would
    ConfigOf(<<Server(2, 1), Agent(1, None)>>, TRUE, FALSE, <<>>),
    ConfigOf(<<Server(1, 8), Agent(2, None)>>, TRUE, FALSE, <<>>),
    ConfigOf(<<Server(1, 5), Agent(2, 5)>>, TRUE, FALSE, <<>>),
    ConfigOf(<<Server(1, 5), Agent(1, 6)>>, TRUE, FALSE, <<>>),
    \* refused: a client without mesh, one that asks for a taken address, and too many
    ConfigOf(<<Server(1, 6), Server(2, 5), Server(3, None)>>, TRUE, FALSE, (11 :> At3)),
    ConfigOf(<<Server(1, 5)>>, FALSE, TRUE, <<>>),
    AdminAt(<<Server(1, 5), Agent(2, 6)>>, 2),
    ConfigOf(<<Server(1, 5), Agent(2, 6)>>, TRUE, FALSE, (11 :> Auto) @@ (12 :> Auto) @@ (13 :> Auto))}
===============================================================================
