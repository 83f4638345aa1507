-------------------------------- MODULE Expansion --------------------------------
(***************************************************************************)
(* From the configured list of nodes and admin peers to machines and state   *)
(* (internal/provider/models.go, validators.go, wireguard.go): which         *)
(* configurations a plan accepts, the identity and the name of each node,    *)
(* the keys that are reused and generated, the WireGuard file of each        *)
(* machine, the client configs in state.                                    *)
(*                                                                         *)
(* A call configures machine by machine and saves at its end; it may fail    *)
(* after any machine.  Names are numbers: the order is that of the strings. *)
(***************************************************************************)
EXTENDS Integers, Sequences, FiniteSets, SequencesExt

CONSTANTS
    Configs,       \* the configurations the user may apply
    IPs, Hosts,    \* public IPs and hostnames; a hostname may look like an IP
    PositionName,  \* "node-1", "node-2", ... in this order
    Clients,       \* keys of admin_peers, not Legacy
    Legacy,        \* legacyAdminPeerKey, before every client
    GivenKeys,     \* public keys the user may give
    Usable,        \* hosts of the subnet
    MaxCalls,      \* bound on the number of calls
    MaxFailures,   \* bound on the number of failures
    None

Node == [ip : IPs, host : Hosts \cup {None}, server : BOOLEAN]
Peer == [ip : 1 .. Usable \cup {None}, key : GivenKeys \cup {None}]

ASSUME ConfigAssumption ==
    \A c \in Configs :
        /\ c.nodes \in Seq(Node) /\ c.nodes # <<>> /\ c.wg \in BOOLEAN
        /\ c.admin \in BOOLEAN /\ c.adminIP \in 1 .. Usable \cup {None}
        /\ c.peers \in UNION {[S -> Peer] : S \in SUBSET Clients}

ASSUME NameAssumption ==
    /\ IPs \cup Hosts \cup Range(PositionName) \cup Clients \cup {Legacy} \subseteq Nat
    /\ \A n \in Clients : Legacy < n
    /\ (Clients \cup {Legacy}) \cap (IPs \cup Hosts) = {}   \* a client and a node of one name: two numbers
    /\ None \notin Nat \cup GivenKeys

\* Every position has a name of its own, and a map has finitely many keys.
ASSUME ListAssumption ==
    /\ \A c \in Configs : DOMAIN c.nodes \subseteq DOMAIN PositionName /\ IsFiniteSet(DOMAIN c.peers)
    /\ IsInjective(PositionName)

ASSUME BoundsAssumption == Usable \in Nat /\ MaxCalls \in Nat /\ MaxFailures \in Nat

Address == 1 .. Usable
KeyPairs == {<<"given", g>> : g \in GivenKeys}
            \cup {<<"generated", i, n>> : i \in 1 .. MaxCalls, n \in IPs \cup Hosts \cup Clients \cup {Legacy}}
PeerEntry == [key : KeyPairs, addr : Address, endpoint : IPs]
ClientEntry == [client : Clients \cup {Legacy}, key : KeyPairs, addr : Address]
WireGuardFile == [key : KeyPairs, addr : Address, peers : SUBSET PeerEntry, clients : SUBSET ClientEntry]

ASSUME FileAssumption == None \notin WireGuardFile

VARIABLES
    todo,      \* <<step, key>> still to do in this call; <<>> before the state is saved
    busy,      \* a call runs
    cfg,       \* what it asks for, or what the last one asked for
    result,    \* how the last call ended
    tf,        \* the resource in state, or None
    mesh,      \* machine -> its WireGuard file, or None
    name,      \* machine -> its node-name in K3s, or None
    calls,     \* calls made
    failures   \* calls that failed

vars == <<todo, busy, cfg, result, tf, mesh, name, calls, failures>>

Init ==
    /\ todo = <<>> /\ busy = FALSE /\ cfg \in Configs /\ result = "none"
    /\ tf = None
    /\ mesh = [m \in IPs |-> None] /\ name = [m \in IPs |-> None]
    /\ calls = 0 /\ failures = 0

-----------------------------------------------------------------------------
(* Nodes *)

Identity(n) == IF n.host # None THEN n.host ELSE n.ip

\* sort.Strings
Sorted(list) ==
    LET order == CHOOSE p \in Bijection(DOMAIN list, DOMAIN list) :
                    \A i, j \in DOMAIN list : i < j => list[p[i]] <= list[p[j]]
    IN  [i \in DOMAIN list |-> list[order[i]]]

\* cfg.NodeNames; two nodes of one identity are in it twice.
NodeNames(c) == Sorted([i \in DOMAIN c.nodes |-> Identity(c.nodes[i])])
KeysOf(c) == Range(NodeNames(c))

\* cfg.Nodes is a map: the last node of an identity stays.
PositionOf(c, k) == SelectLastInSeq(c.nodes, LAMBDA n : Identity(n) = k)
NodeAt(c, k) == c.nodes[PositionOf(c, k)]

\* Mutant: servers and agents are counted separately.
NodeNameByRole(c, k) ==
    IF NodeAt(c, k).host # None THEN NodeAt(c, k).host
    ELSE PositionName[Cardinality({i \in 1 .. PositionOf(c, k) : c.nodes[i].server = NodeAt(c, k).server})]

NodeName(c, k) ==
    IF NodeAt(c, k).host # None THEN NodeAt(c, k).host ELSE PositionName[PositionOf(c, k)]

\* Mutant: the network address is handed out.
NodeAddressFromZero(c, k) == SelectLastInSeq(NodeNames(c), LAMBDA j : j = k) - 1

\* Mutant: the first host is skipped, the limit of the admin peers is not moved.
NodeAddressFromTwo(c, k) == SelectLastInSeq(NodeNames(c), LAMBDA j : j = k) + 1

\* assignWireGuardIPs: nodes from the lowest host on.
NodeAddress(c, k) == SelectLastInSeq(NodeNames(c), LAMBDA j : j = k)

(* Admin peers *)

\* adminPeerIPRequests
Requests(c) ==
    [n \in (IF c.admin THEN {Legacy} ELSE {}) \cup DOMAIN c.peers |->
        IF n = Legacy THEN [ip |-> c.adminIP, key |-> None] ELSE c.peers[n]]

\* Explicit addresses as given, others from the highest free host; None when
\* one cannot be given out.
ClientAddresses(c) ==
    LET names == Sorted(SetToSeq(DOMAIN Requests(c)))
        Free(given) == 1 .. Usable \ (1 .. Len(NodeNames(c)) \cup Range(given))
        Give(given, n) ==
            LET ip == Requests(c)[n].ip
                can == IF ip = None THEN Free(given) ELSE Free(given) \cap {ip}
            IN  IF can = {} THEN None
                ELSE [m \in DOMAIN given \cup {n} |-> IF m = n THEN Max(can) ELSE given[m]]
        upTo[i \in 0 .. Len(names)] ==
            IF i = 0 THEN <<>>
            ELSE IF upTo[i - 1] = None THEN None
            ELSE Give(upTo[i - 1], names[i])
    IN  upTo[Len(names)]

(* validatePlan *)

IPsDistinct(c) == \A i, j \in DOMAIN c.nodes : i # j => c.nodes[i].ip # c.nodes[j].ip
HostsDistinct(c) ==
    \A i, j \in DOMAIN c.nodes : i # j /\ c.nodes[i].host # None => c.nodes[i].host # c.nodes[j].host
Servers(c) == {i \in DOMAIN c.nodes : c.nodes[i].server}

AddressesFit(c) ==
    /\ Len(c.nodes) + Cardinality(DOMAIN Requests(c)) <= Usable
    /\ ClientAddresses(c) # None

\* Mutant: public IPs are not compared.
ValidSameIP(c) ==
    /\ HostsDistinct(c)
    /\ Cardinality(Servers(c)) % 2 = 1
    /\ c.admin => c.peers = <<>>
    /\ c.admin \/ c.peers # <<>> => c.wg
    /\ c.wg => AddressesFit(c)

Valid(c) ==
    /\ IPsDistinct(c)
    /\ HostsDistinct(c)
    /\ Cardinality(Servers(c)) % 2 = 1
    /\ c.admin => c.peers = <<>>
    /\ c.admin \/ c.peers # <<>> => c.wg
    /\ c.wg => AddressesFit(c)

-----------------------------------------------------------------------------
(* Keys and files *)

\* A key pair: generated in a call for a node or a client, or given.
NewKey(of) == <<"generated", calls, of>>
GivenKey(key) == <<"given", key>>

Prior(field) == IF tf = None THEN <<>> ELSE tf[field]

NodeKey(k) == IF k \in DOMAIN Prior("nodeKeys") THEN tf.nodeKeys[k] ELSE NewKey(k)

Generated(c) == {n \in DOMAIN Requests(c) : Requests(c)[n].key = None}

\* Mutant: a key in state wins over a given one.
ClientKeyFromState(n) ==
    IF n \in DOMAIN Prior("clientKeys") THEN tf.clientKeys[n]
    ELSE IF n \in Generated(cfg) THEN NewKey(n) ELSE GivenKey(cfg.peers[n].key)
\* Mutant: client keys are not taken from state.
ClientKeyNew(n) == IF n \in Generated(cfg) THEN NewKey(n) ELSE GivenKey(cfg.peers[n].key)

ClientKey(n) ==
    IF n \notin Generated(cfg) THEN GivenKey(cfg.peers[n].key)
    ELSE IF n \in DOMAIN Prior("clientKeys") THEN tf.clientKeys[n]
    ELSE NewKey(n)

PeerOf(k) == [key |-> NodeKey(k), addr |-> NodeAddress(cfg, k), endpoint |-> NodeAt(cfg, k).ip]
ClientOf(n) == [client |-> n, key |-> ClientKey(n), addr |-> ClientAddresses(cfg)[n]]

\* renderNodeWireGuardConfig
MeshFile(k) ==
    [key |-> NodeKey(k), addr |-> NodeAddress(cfg, k),
     peers |-> {PeerOf(j) : j \in KeysOf(cfg) \ {k}},
     clients |-> {ClientOf(n) : n \in DOMAIN Requests(cfg)}]

\* renderAdminWireGuardConfig, renderAdminPeerConfig
ClientConfig(n) ==
    [key |-> ClientKey(n), addr |-> ClientAddresses(cfg)[n],
     peers |-> {PeerOf(k) : k \in KeysOf(cfg)}]

\* Mutant: a key stays in state as long as its client is configured.
StateWithPriorKeys ==
    [ips |-> {cfg.nodes[i].ip : i \in DOMAIN cfg.nodes},
     nodeKeys |-> [k \in IF cfg.wg THEN KeysOf(cfg) ELSE {} |-> NodeKey(k)],
     clientKeys |-> [n \in Generated(cfg) \cup DOMAIN Prior("clientKeys") |->
                        IF n \in Generated(cfg) THEN ClientKey(n) ELSE tf.clientKeys[n]],
     configs |-> [n \in Generated(cfg) |-> ClientConfig(n)]]

\* clusterToState: the private keys of given clients are not known, and the key
\* of admin_peer stays when it is disabled.
State ==
    [ips |-> {cfg.nodes[i].ip : i \in DOMAIN cfg.nodes},
     nodeKeys |-> [k \in IF cfg.wg THEN KeysOf(cfg) ELSE {} |-> NodeKey(k)],
     clientKeys |-> [n \in Generated(cfg) \cup ({Legacy} \cap DOMAIN Prior("clientKeys")) |->
                        IF n \in Generated(cfg) THEN ClientKey(n) ELSE tf.clientKeys[n]],
     configs |-> [n \in Generated(cfg) |-> ClientConfig(n)]]

-----------------------------------------------------------------------------
(* A call *)

Steps(c, step) == [i \in DOMAIN NodeNames(c) |-> <<step, NodeNames(c)[i]>>]

Apply(c) ==
    /\ ~busy /\ calls < MaxCalls
    /\ Valid(c)
    /\ calls' = calls + 1
    /\ busy' = TRUE /\ cfg' = c /\ result' = "none"
    /\ todo' = (IF c.wg THEN Steps(c, "mesh") ELSE <<>>) \o Steps(c, "k3s")
    /\ UNCHANGED <<tf, mesh, name, failures>>

At(step) == busy /\ todo # <<>> /\ Head(todo)[1] = step
Key == Head(todo)[2]

ConfigureMesh ==
    /\ At("mesh")
    /\ mesh' = [mesh EXCEPT ![NodeAt(cfg, Key).ip] = MeshFile(Key)]
    /\ todo' = Tail(todo)
    /\ UNCHANGED <<busy, cfg, result, tf, name, calls, failures>>

InstallK3s ==
    /\ At("k3s")
    /\ name' = [name EXCEPT ![NodeAt(cfg, Key).ip] = NodeName(cfg, Key)]
    /\ todo' = Tail(todo)
    /\ UNCHANGED <<busy, cfg, result, tf, mesh, calls, failures>>

Save ==
    /\ busy /\ todo = <<>>
    /\ tf' = State
    /\ busy' = FALSE /\ result' = "ok"
    /\ UNCHANGED <<todo, cfg, mesh, name, calls, failures>>

\* An error before the end leaves the state as it was.
Fail ==
    /\ busy /\ failures < MaxFailures
    /\ failures' = failures + 1
    /\ busy' = FALSE /\ todo' = <<>> /\ result' = "error"
    /\ UNCHANGED <<cfg, tf, mesh, name, calls>>

\* The files stay on the machines.
Destroy ==
    /\ ~busy /\ tf # None
    /\ tf' = None /\ result' = "none"
    /\ UNCHANGED <<todo, busy, cfg, mesh, name, calls, failures>>

Next ==
    \/ \E c \in Configs : Apply(c)
    \/ ConfigureMesh
    \/ InstallK3s
    \/ Save
    \/ Fail
    \/ Destroy

Spec == Init /\ [][Next]_vars

-----------------------------------------------------------------------------
(* Properties *)

TypeOK ==
    /\ todo \in Seq({"mesh", "k3s"} \X (IPs \cup Hosts))
    /\ busy \in BOOLEAN /\ cfg \in Configs /\ result \in {"none", "ok", "error"}
    /\ mesh \in [IPs -> WireGuardFile \cup {None}]
    /\ name \in [IPs -> Hosts \cup Range(PositionName) \cup {None}]
    /\ tf # None => tf.ips \subseteq IPs /\ \A n \in DOMAIN tf.configs : tf.configs[n].addr \in Address
    /\ calls \in Nat /\ failures \in Nat

Succeeded == ~busy /\ result = "ok"
Machines == {cfg.nodes[i].ip : i \in DOMAIN cfg.nodes}

\* A hostname that is another node's public IP, when that node has no hostname:
\* the plan is accepted and one of them is never visited.
Aliased(c) ==
    \E i, j \in DOMAIN c.nodes : c.nodes[j].host = None /\ c.nodes[i].host = c.nodes[j].ip

\* A hostname that is the name the list gives to a node without hostname.
Renamed(c) ==
    \E i, j \in DOMAIN c.nodes : c.nodes[j].host = None /\ c.nodes[i].host = PositionName[j]

EntryOf(m) == [key |-> mesh[m].key, addr |-> mesh[m].addr, endpoint |-> m]

\* "Stable identity is hostname when set, otherwise public_ip" (docs/resources/
\* cluster.md:27).  After a call every machine of the list was visited: it has
\* keys and an address of its own and exactly the other machines as peers,
\* whatever failed calls and earlier lists left on them.  Excepted are lists in
\* which a hostname is the public IP of a node without one.
MachinesConfigured ==
    Succeeded /\ cfg.wg /\ ~Aliased(cfg) =>
        /\ \A m \in Machines : mesh[m] # None /\ mesh[m].peers = {EntryOf(x) : x \in Machines \ {m}}
        /\ \A m, x \in Machines : m # x => mesh[m].key # mesh[x].key /\ mesh[m].addr # mesh[x].addr

\* The file of a machine, which WireGuard reads as maps from AllowedIPs and from
\* keys to peers, names every address once, and every key that was not given:
\* no client takes the traffic of a node or of another client.  It holds on all
\* machines at all times, whatever lists and failed calls the file is from.
EntriesApart ==
    \A m \in IPs : mesh[m] # None =>
        LET entries == mesh[m].peers \cup mesh[m].clients
        IN  /\ \A e \in entries : e.addr # mesh[m].addr /\ e.key # mesh[m].key
            /\ \A e, x \in entries : e # x =>
                  e.addr # x.addr /\ (e.key = x.key => e.key \in {GivenKey(g) : g \in GivenKeys})

\* After a call no two machines of its list have one Kubernetes node name, unless
\* a hostname is the public IP of a node without one, or the name the list gives
\* that node.
NamesDistinct ==
    Succeeded /\ ~Aliased(cfg) /\ ~Renamed(cfg) =>
        \A m, x \in Machines : name[m] # None /\ (m # x => name[m] # name[x])

\* "returns a ready client config" (cluster.md:202): after a call each config
\* in state has the key, the address and the endpoint of every machine, and every
\* machine has exactly the clients of this call as peers, each with the key and
\* the address of its config, or with the given key: a client that was removed,
\* or whose key was replaced, is out.  Lists are excepted as above.
ClientsMatch ==
    Succeeded /\ cfg.wg /\ ~Aliased(cfg) =>
        /\ \A n \in DOMAIN tf.configs : tf.configs[n].peers = {EntryOf(m) : m \in Machines}
        /\ \A m \in Machines :
              /\ {c.client : c \in mesh[m].clients} = DOMAIN Requests(cfg)
              /\ \A c \in mesh[m].clients :
                    IF c.client \in DOMAIN tf.configs
                    THEN tf.configs[c.client].key = c.key /\ tf.configs[c.client].addr = c.addr
                    ELSE c.key = GivenKey(cfg.peers[c.client].key)

\* "If public_key is provided, the provider does not know or store that peer's
\* private key" (README.md:94): also when it had generated one before.
GivenKeysNotStored ==
    Succeeded => \A n \in DOMAIN cfg.peers :
        cfg.peers[n].key # None => n \notin DOMAIN tf.clientKeys \cup DOMAIN tf.configs

\* A client config that was handed out keeps its key while the client stays in
\* the configuration without a key of its own.
GeneratedKeyKept ==
    [][tf # None /\ tf' # None =>
          \A n \in DOMAIN tf.configs \cap DOMAIN tf'.configs : tf'.configs[n].key = tf.configs[n].key]_vars
===============================================================================
