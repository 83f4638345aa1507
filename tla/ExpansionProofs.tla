----------------------------- MODULE ExpansionProofs -----------------------------
(***************************************************************************)
(* Proofs about the lists of nodes and admin peers, for every list, every    *)
(* number of machines, clients, calls and failures.                          *)
(*                                                                         *)
(* A call goes from machine to machine and saves at its end; what it has     *)
(* done is kept node by node, because two keys of one list never name one    *)
(* machine.                                                                 *)
(***************************************************************************)
EXTENDS Expansion, DataLemmas, SequenceTheorems, FiniteSetTheorems

IpOf(k) == NodeAt(cfg, k).ip

\* A call was accepted by the plan, and its steps are about its nodes.
CallInv ==
    /\ calls \in 0 .. MaxCalls /\ failures \in Nat
    /\ busy => Valid(cfg) /\ calls >= 1
    /\ ~busy => todo = <<>>
    /\ todo \in Seq({"mesh", "k3s"} \X KeysOf(cfg))
    /\ \A x \in Range(todo) : x[1] = "mesh" => cfg.wg

Left(step, k) == <<step, k>> \in Range(todo)

\* A node of the call is still to be visited, or has what the call gives it.
DoneInv ==
    busy => \A k \in KeysOf(cfg) :
        /\ cfg.wg => Left("mesh", k) \/ mesh[IpOf(k)] = MeshFile(k)
        /\ Left("k3s", k) \/ name[IpOf(k)] = NodeName(cfg, k)

\* A generated key carries its owner: no two nodes have one key.
Generations(k) == {<<"generated", i, k>> : i \in 1 .. calls}

StateInv ==
    tf # None =>
        /\ tf.ips \subseteq IPs
        /\ \A k \in DOMAIN tf.nodeKeys : tf.nodeKeys[k] \in Generations(k)
        /\ \A n \in DOMAIN tf.clientKeys : tf.clientKeys[n] \in Generations(n)
        /\ \A n \in DOMAIN tf.configs :
              n \in DOMAIN tf.clientKeys /\ tf.configs[n].key = tf.clientKeys[n] /\ tf.configs[n].addr \in Address

\* A file names every address once, and every key that was not given.
Apart(file) ==
    LET entries == file.peers \cup file.clients
    IN  /\ \A e \in entries : e.addr # file.addr /\ e.key # file.key
        /\ \A e, x \in entries : e # x =>
              e.addr # x.addr /\ (e.key = x.key => e.key \in {GivenKey(g) : g \in GivenKeys})

Inv ==
    /\ TypeOK /\ CallInv /\ DoneInv /\ StateInv
    /\ EntriesApart /\ MachinesConfigured /\ NamesDistinct /\ ClientsMatch /\ GivenKeysNotStored

-----------------------------------------------------------------------------
(* Lists of nodes *)

LEMMA NodesAre ==
    ASSUME NEW c \in Configs
    PROVE  /\ c.nodes \in Seq(Node) /\ Len(c.nodes) \in Nat /\ DOMAIN c.nodes = 1 .. Len(c.nodes)
           /\ \A i \in 1 .. Len(c.nodes) : /\ c.nodes[i] \in Node
                                           /\ Identity(c.nodes[i]) \in IPs \cup Hosts
                                           /\ Identity(c.nodes[i]) \in Nat
<1>1. c.nodes \in Seq(Node)
    BY ConfigAssumption
<1>2. \A n \in Node : Identity(n) \in IPs \cup Hosts
    BY DEF Node, Identity
<1> QED
    BY <1>1, <1>2, NameAssumption

LEMMA SortedIs ==
    ASSUME NEW n \in Nat, NEW list \in [1 .. n -> Nat]
    PROVE  /\ DOMAIN Sorted(list) = 1 .. n
           /\ \A i \in 1 .. n : \E j \in 1 .. n : Sorted(list)[i] = list[j]
           /\ \A j \in 1 .. n : \E i \in 1 .. n : Sorted(list)[i] = list[j]
           /\ \A i, j \in 1 .. n : i < j => Sorted(list)[i] <= Sorted(list)[j]
<1> DEFINE Sorts(p) == \A i, j \in 1 .. n : i < j => list[p[i]] <= list[p[j]]
           order == CHOOSE p \in Bijection(1 .. n, 1 .. n) : Sorts(p)
<1>1. \E p \in Bijection(1 .. n, 1 .. n) : Sorts(p)
    BY SortExists
<1>2. order \in Bijection(1 .. n, 1 .. n) /\ Sorts(order)
    <2> HIDE DEF Sorts
    <2> QED
        BY <1>1
<1>3. order \in [1 .. n -> 1 .. n] /\ \A y \in 1 .. n : \E i \in 1 .. n : order[i] = y
    BY <1>2 DEF Bijection, Injection, Surjection
<1>4. DOMAIN list = 1 .. n
    OBVIOUS
<1>5. Sorted(list) = [i \in 1 .. n |-> list[order[i]]]
    BY <1>4 DEF Sorted
<1> HIDE DEF order
<1>6. \A i \in 1 .. n : Sorted(list)[i] = list[order[i]] /\ order[i] \in 1 .. n
    BY <1>3, <1>5
<1>7. ASSUME NEW j \in 1 .. n
      PROVE  \E i \in 1 .. n : Sorted(list)[i] = list[j]
    <2>1. PICK i \in 1 .. n : order[i] = j
        BY <1>3
    <2>2. Sorted(list)[i] = list[j]
        BY <1>6, <2>1
    <2> QED
        BY <2>2
<1>8. \A i, j \in 1 .. n : i < j => Sorted(list)[i] <= Sorted(list)[j]
    BY <1>2, <1>6
<1> QED
    BY <1>5, <1>6, <1>7, <1>8

\* NodeNames is the list of the identities in another order.
LEMMA NodeNamesAre ==
    ASSUME NEW c \in Configs
    PROVE  /\ NodeNames(c) \in Seq(KeysOf(c)) /\ Len(NodeNames(c)) = Len(c.nodes)
           /\ DOMAIN NodeNames(c) = 1 .. Len(c.nodes)
           /\ KeysOf(c) = {Identity(c.nodes[i]) : i \in 1 .. Len(c.nodes)}
           /\ KeysOf(c) \subseteq IPs \cup Hosts
<1> DEFINE n == Len(c.nodes)
           ids == [i \in 1 .. n |-> Identity(c.nodes[i])]
           names == NodeNames(c)
<1>1. n \in Nat /\ \A i \in 1 .. n : Identity(c.nodes[i]) \in IPs \cup Hosts /\ Identity(c.nodes[i]) \in Nat
    BY NodesAre
<1>2. ids \in [1 .. n -> Nat] /\ \A i \in 1 .. n : ids[i] = Identity(c.nodes[i])
    BY <1>1
<1>3. names = Sorted(ids)
    BY NodesAre DEF NodeNames
<1> HIDE DEF n, ids, names
<1>4. /\ DOMAIN names = 1 .. n
      /\ \A i \in 1 .. n : \E j \in 1 .. n : names[i] = ids[j]
      /\ \A j \in 1 .. n : \E i \in 1 .. n : names[i] = ids[j]
    BY <1>1, <1>2, <1>3, SortedIs
<1>5. Range(names) = {names[i] : i \in 1 .. n}
    BY <1>4 DEF Range
<1>6. Range(names) = {ids[i] : i \in 1 .. n}
    <2>1. \A x : x \in Range(names) => x \in {ids[i] : i \in 1 .. n}
        <3>1. ASSUME NEW i \in 1 .. n
              PROVE  names[i] \in {ids[j] : j \in 1 .. n}
            <4>1. PICK j \in 1 .. n : names[i] = ids[j]
                BY <1>4
            <4> QED
                BY <4>1
        <3> QED
            BY <1>5, <3>1
    <2>2. \A x : x \in {ids[i] : i \in 1 .. n} => x \in Range(names)
        <3>1. ASSUME NEW j \in 1 .. n
              PROVE  ids[j] \in Range(names)
            <4>1. PICK i \in 1 .. n : names[i] = ids[j]
                BY <1>4
            <4> QED
                BY <1>5, <4>1
        <3> QED
            BY <3>1
    <2> QED
        BY <2>1, <2>2
<1>7. names \in [1 .. n -> Range(names)]
    <2>1. names = [i \in 1 .. n |-> names[i]]
        BY <1>3, <1>4 DEF Sorted
    <2> QED
        BY <1>5, <2>1
<1>8. names \in Seq(Range(names)) /\ Len(names) = n
    BY <1>1, <1>7
<1> QED
    BY <1>1, <1>2, <1>4, <1>6, <1>8 DEF KeysOf, names, n


LEMMA PositionIs ==
    ASSUME NEW c \in Configs, NEW k \in KeysOf(c)
    PROVE  /\ PositionOf(c, k) \in 1 .. Len(c.nodes) /\ Identity(NodeAt(c, k)) = k
           /\ NodeAt(c, k) = c.nodes[PositionOf(c, k)] /\ NodeAt(c, k) \in Node
           /\ NodeAddress(c, k) \in 1 .. Len(c.nodes) /\ NodeNames(c)[NodeAddress(c, k)] = k
<1> DEFINE n == Len(c.nodes)
           I == {i \in 1 .. n : Identity(c.nodes[i]) = k}
           J == {i \in 1 .. n : NodeNames(c)[i] = k}
<1>1. n \in Nat /\ \A i \in 1 .. n : c.nodes[i] \in Node
    BY NodesAre
<1>2. I \in SUBSET (0 .. n) /\ I # {}
    BY <1>1, NodeNamesAre
<1>3. J \in SUBSET (0 .. n) /\ J # {}
    <2>1. \E i \in 1 .. n : NodeNames(c)[i] = k
        BY NodeNamesAre DEF KeysOf, Range
    <2> QED
        BY <2>1
<1>4. PositionOf(c, k) = Max(I)
    BY <1>2 DEF PositionOf, SelectLastInSeq
<1>5. NodeAddress(c, k) = Max(J)
    BY <1>3, NodeNamesAre DEF NodeAddress, SelectLastInSeq
<1>6. Max(I) \in I /\ Max(J) \in J
    <2> HIDE DEF I, J, n
    <2> QED
        BY <1>1, <1>2, <1>3, MaxIsGreatest
<1> QED
    BY <1>1, <1>4, <1>5, <1>6 DEF NodeAt

\* Two keys are two machines, with two addresses.
LEMMA MachinesDiffer ==
    ASSUME NEW c \in Configs, Valid(c), NEW k \in KeysOf(c), NEW j \in KeysOf(c), k # j
    PROVE  /\ NodeAt(c, k).ip # NodeAt(c, j).ip
           /\ PositionOf(c, k) # PositionOf(c, j)
           /\ NodeAddress(c, k) # NodeAddress(c, j)
<1>1. PositionOf(c, k) # PositionOf(c, j) /\ NodeAddress(c, k) # NodeAddress(c, j)
    BY PositionIs
<1>2. PositionOf(c, k) \in DOMAIN c.nodes /\ PositionOf(c, j) \in DOMAIN c.nodes
    BY PositionIs, NodesAre
<1> QED
    BY <1>1, <1>2 DEF Valid, IPsDistinct, NodeAt

\* Every machine of the list is the one of a key, when no hostname is taken for
\* the public IP of another node.
LEMMA AllMachines ==
    ASSUME NEW c \in Configs, Valid(c), ~Aliased(c)
    PROVE  {c.nodes[i].ip : i \in DOMAIN c.nodes} = {NodeAt(c, k).ip : k \in KeysOf(c)}
<1>1. DOMAIN c.nodes = 1 .. Len(c.nodes) /\ \A i \in DOMAIN c.nodes : c.nodes[i] \in Node
    BY NodesAre
<1>2. ASSUME NEW i \in DOMAIN c.nodes
      PROVE  Identity(c.nodes[i]) \in KeysOf(c) /\ PositionOf(c, Identity(c.nodes[i])) = i
    <2> DEFINE k == Identity(c.nodes[i])
               p == PositionOf(c, k)
    <2>1. k \in KeysOf(c)
        BY <1>1, NodeNamesAre
    <2> HIDE DEF k
    <2>2. p \in DOMAIN c.nodes /\ Identity(c.nodes[p]) = k
        BY <1>1, <2>1, PositionIs
    <2> HIDE DEF p
    <2>3. Identity(c.nodes[p]) = Identity(c.nodes[i])
        BY <2>2 DEF k
    <2>4. p = i
        BY <1>1, <2>2, <2>3 DEF Identity, Valid, IPsDistinct, HostsDistinct, Aliased
    <2> QED
        BY <2>1, <2>4 DEF k, p
<1>3. \A k \in KeysOf(c) : PositionOf(c, k) \in DOMAIN c.nodes /\ NodeAt(c, k) = c.nodes[PositionOf(c, k)]
    BY <1>1, PositionIs
<1>4. \A i \in DOMAIN c.nodes : c.nodes[i].ip = NodeAt(c, Identity(c.nodes[i])).ip
    BY <1>2 DEF NodeAt
<1> QED
    BY <1>2, <1>3, <1>4

\* Without such hostnames the i-th key of the sorted list is the i-th smallest key
\* and has the i-th address: no node is in the list twice.
THEOREM ExpansionRank ==
    ASSUME NEW c \in Configs, Valid(c), ~Aliased(c)
    PROVE  /\ Cardinality(KeysOf(c)) = Len(c.nodes)
           /\ \A k \in KeysOf(c) : NodeAddress(c, k) = Cardinality({m \in KeysOf(c) : m <= k})
<1> DEFINE n == Len(c.nodes)
           K == KeysOf(c)
           names == NodeNames(c)
           ids == [i \in 1 .. n |-> Identity(c.nodes[i])]
           address == [k \in K |-> NodeAddress(c, k)]
<1>1. n \in Nat /\ K \subseteq Nat /\ IsFiniteSet(1 .. n) /\ Cardinality(1 .. n) = n
    <2>1. n \in Nat /\ K \subseteq Nat
        BY NodesAre, NodeNamesAre
    <2> HIDE DEF n, K
    <2> QED
        BY <2>1, FS_Interval
<1>2. /\ \A i, j \in 1 .. n : i < j => names[i] <= names[j]
      /\ \A i \in 1 .. n : names[i] \in K
    <2>1. ids \in [1 .. n -> Nat] /\ names = Sorted(ids) /\ n \in Nat
        BY NodesAre DEF NodeNames
    <2>2. \A i \in 1 .. n : names[i] \in Range(names)
        BY NodeNamesAre DEF Range
    <2> HIDE DEF ids, n
    <2> QED
        BY <2>1, <2>2, SortedIs DEF KeysOf
<1>3. ids \in Bijection(1 .. n, K)
    <2>1. ids \in [1 .. n -> K] /\ \A k \in K : \E i \in 1 .. n : ids[i] = k
        BY NodeNamesAre
    <2>2. \A i, j \in 1 .. n : i # j => Identity(c.nodes[i]) # Identity(c.nodes[j])
        BY NodesAre DEF Identity, Valid, IPsDistinct, HostsDistinct, Aliased
    <2>3. \A i, j \in 1 .. n : ids[i] = ids[j] => i = j
        BY <2>2
    <2> QED
        BY <2>1, <2>3 DEF Bijection, Injection, Surjection, IsInjective
<1>4. IsFiniteSet(K) /\ Cardinality(K) = n
    <2>1. ExistsBijection(1 .. n, K)
        BY <1>3 DEF ExistsBijection
    <2> HIDE DEF n, K
    <2> QED
        BY <1>1, <2>1, FS_Bijection
<1>5. \A k \in K : address[k] \in 1 .. n /\ names[address[k]] = k
    BY PositionIs
<1>6. ASSUME NEW i \in 1 .. n
      PROVE  address[names[i]] = i
    <2> HIDE DEF address, names, K, n
    <2>1. address \in Injection(K, 1 .. n)
        BY <1>5 DEF address, Injection, IsInjective
    <2>2. address \in Surjection(K, 1 .. n)
        BY <1>1, <1>4, <2>1, FS_Injection
    <2>3. PICK k \in K : address[k] = i
        BY <2>2 DEF Surjection
    <2> QED
        BY <1>5, <2>3
<1> HIDE DEF address, names, K, n, ids
<1>7. ASSUME NEW k \in K
      PROVE  address[k] = Cardinality({m \in K : m <= k})
    <2> DEFINE p == address[k]
               low == {m \in K : m <= k}
               first == [i \in 1 .. p |-> names[i]]
    <2>1. p \in 1 .. n /\ names[p] = k /\ p \in Nat
        BY <1>1, <1>5
    <2>2. \A i \in 1 .. p : i \in 1 .. n /\ names[i] \in Nat /\ k \in Nat
        <3>1. \A i \in 1 .. p : i \in 1 .. n
            <4> HIDE DEF p
            <4> QED
                BY <1>1, <2>1
        <3> QED
            BY <1>1, <1>2, <3>1
    <2>3. \A i \in 1 .. p : names[i] \in low
        <3>1. \A i \in 1 .. p : i < p \/ i = p
            BY <2>1
        <3> QED
            BY <1>2, <2>1, <2>2, <3>1
    <2>4. ASSUME NEW m \in low
          PROVE  \E i \in 1 .. p : names[i] = m
        <3>1. address[m] \in 1 .. n /\ names[address[m]] = m /\ m \in Nat /\ m <= k /\ k \in Nat
            BY <1>1, <1>5
        <3>2. ASSUME p < address[m]
              PROVE  FALSE
            <4>1. names[p] <= names[address[m]]
                BY <1>2, <2>1, <3>1, <3>2
            <4>2. m = k
                BY <2>1, <3>1, <4>1
            <4> QED
                BY <1>1, <3>1, <3>2, <4>2
        <3>3. address[m] \in 1 .. p
            BY <1>1, <2>1, <3>1, <3>2
        <3> QED
            BY <3>1, <3>3
    <2>5. \A i, j \in 1 .. p : names[i] = names[j] => i = j
        BY <1>6, <2>2
    <2> HIDE DEF p, low
    <2>6. first \in Bijection(1 .. p, low)
        BY <2>3, <2>4, <2>5 DEF Bijection, Injection, Surjection, IsInjective
    <2>7. ExistsBijection(1 .. p, low)
        BY <2>6 DEF ExistsBijection
    <2> QED
        BY <2>1, <2>7, FS_CountingElements DEF p, low
<1> QED
    BY <1>4, <1>7 DEF address, K, n

-----------------------------------------------------------------------------
(* Admin peers *)

LEMMA RequestsAre ==
    ASSUME NEW c \in Configs
    PROVE  /\ IsFiniteSet(DOMAIN Requests(c)) /\ DOMAIN Requests(c) \subseteq Clients \cup {Legacy}
           /\ DOMAIN Requests(c) \subseteq Nat /\ Legacy \notin DOMAIN c.peers
           /\ \A n \in DOMAIN Requests(c) : Requests(c)[n] \in Peer
           /\ \A n \in DOMAIN c.peers : n \in DOMAIN Requests(c) /\ Requests(c)[n] = c.peers[n]
           /\ \A n \in DOMAIN Requests(c) : n # Legacy => n \in DOMAIN c.peers /\ Requests(c)[n] = c.peers[n]
           /\ Requests(c)[Legacy].key = None \/ Legacy \notin DOMAIN Requests(c)
<1>1. /\ IsFiniteSet(DOMAIN c.peers) /\ DOMAIN c.peers \subseteq Clients
      /\ \A n \in DOMAIN c.peers : c.peers[n] \in Peer
    BY ConfigAssumption, ListAssumption
<1>2. Legacy \notin Clients /\ Clients \cup {Legacy} \subseteq Nat
    BY NameAssumption
<1> DEFINE S == (IF c.admin THEN {Legacy} ELSE {}) \cup DOMAIN c.peers
           shortcut == [ip |-> c.adminIP, key |-> None]
<1>3. DOMAIN Requests(c) = S /\ \A n \in S : Requests(c)[n] = IF n = Legacy THEN shortcut ELSE c.peers[n]
    BY DEF Requests
<1>4. IsFiniteSet(S)
    <2>1. IsFiniteSet({Legacy}) /\ IsFiniteSet({})
        BY FS_Singleton, FS_EmptySet
    <2>2. IsFiniteSet(IF c.admin THEN {Legacy} ELSE {})
        BY <2>1
    <2> QED
        BY <1>1, <2>2, FS_Union
<1>5. shortcut \in Peer /\ shortcut.key = None
    BY ConfigAssumption DEF Peer
<1>6. S \subseteq Clients \cup {Legacy} /\ \A n \in S : n # Legacy => n \in DOMAIN c.peers
    BY <1>1
<1>7. \A n \in DOMAIN c.peers : n \in S /\ n # Legacy
    BY <1>1, <1>2
<1> HIDE DEF S, shortcut
<1> QED
    BY <1>1, <1>2, <1>3, <1>4, <1>5, <1>6, <1>7

\* The names of the requests in their order: each of them, and nothing else.
LEMMA RequestNamesAre ==
    ASSUME NEW c \in Configs
    PROVE  LET D == DOMAIN Requests(c)
               m == Cardinality(D)
               names == Sorted(SetToSeq(D))
           IN  /\ m \in Nat /\ Len(names) = m
               /\ \A i \in 1 .. m : names[i] \in D
               /\ D = {names[i] : i \in 1 .. m}
<1> DEFINE D == DOMAIN Requests(c)
           m == Cardinality(D)
           list == SetToSeq(D)
           names == Sorted(list)
<1>1. IsFiniteSet(D) /\ D \subseteq Nat /\ m \in Nat
    BY RequestsAre, FS_CardinalityType
<1>2. IsFiniteSet(1 .. m) /\ Cardinality(1 .. m) = m
    <2>1. \A b \in Nat : IsFiniteSet(1 .. b) /\ Cardinality(1 .. b) = b
        BY FS_Interval
    <2> HIDE DEF m
    <2> QED
        BY <1>1, <2>1, Zenon
<1>3. list \in Injection(1 .. m, D)
    <2>1. ExistsBijection(1 .. m, D)
        BY <1>1, FS_CardinalityType
    <2>2. \E f \in [1 .. m -> D] : IsInjective(f)
        BY <2>1 DEF ExistsBijection, Bijection, Injection
    <2>3. list = CHOOSE f \in [1 .. m -> D] : IsInjective(f)
        BY DEF SetToSeq
    <2> HIDE DEF list, m, D
    <2> QED
        BY <2>2, <2>3 DEF Injection
<1>4. list \in Surjection(1 .. m, D)
    <2>1. Cardinality(1 .. m) = Cardinality(D)
        BY <1>2 DEF m
    <2> QED
        BY <1>1, <1>3, <2>1, FS_Injection
<1> HIDE DEF D, m, list
<1>5. list \in [1 .. m -> Nat] /\ \A i \in 1 .. m : list[i] \in D
    BY <1>1, <1>3 DEF Injection
<1>6. \A n \in D : \E i \in 1 .. m : list[i] = n
    BY <1>4 DEF Surjection
<1>7. /\ DOMAIN names = 1 .. m
      /\ \A i \in 1 .. m : \E j \in 1 .. m : names[i] = list[j]
      /\ \A j \in 1 .. m : \E i \in 1 .. m : names[i] = list[j]
    BY <1>1, <1>5, SortedIs
<1>8. Len(names) = m
    <2>1. names = [i \in 1 .. m |-> names[i]]
        BY <1>7 DEF Sorted
    <2> HIDE DEF names
    <2> QED
        BY <1>1, <2>1
<1> HIDE DEF names
<1>9. \A i \in 1 .. m : names[i] \in D
    BY <1>5, <1>7
<1>10. ASSUME NEW n \in D
       PROVE  n \in {names[i] : i \in 1 .. m}
    <2>1. PICK j \in 1 .. m : list[j] = n
        BY <1>6
    <2>2. PICK i \in 1 .. m : names[i] = list[j]
        BY <1>7
    <2> QED
        BY <2>1, <2>2
<1>11. D = {names[i] : i \in 1 .. m}
    BY <1>9, <1>10
<1> QED
    BY <1>1, <1>8, <1>9, <1>11 DEF D, m, list, names

\* Addresses of their own for the clients of K, none of them that of a node.
Spread(c, K) ==
    {g \in [K -> Address] : /\ \A n \in K : g[n] \notin 1 .. Len(NodeNames(c))
                            /\ \A n, j \in K : n # j => g[n] # g[j]}

\* The clients get addresses of their own, in whatever order explicit and free
\* ones are served.
LEMMA ClientAddressesAre ==
    ASSUME NEW c \in Configs, ClientAddresses(c) # None
    PROVE  ClientAddresses(c) \in Spread(c, DOMAIN Requests(c))
<1> DEFINE D == DOMAIN Requests(c)
           m == Cardinality(D)
           names == Sorted(SetToSeq(D))
           Free(given) == 1 .. Usable \ (1 .. Len(NodeNames(c)) \cup Range(given))
           Give(given, n) ==
               LET ip == Requests(c)[n].ip
                   can == IF ip = None THEN Free(given) ELSE Free(given) \cap {ip}
               IN  IF can = {} THEN None
                   ELSE [x \in DOMAIN given \cup {n} |-> IF x = n THEN Max(can) ELSE given[x]]
           Step(given, n) == IF given = None THEN None ELSE Give(given, n)
           Body(h) == [i \in 0 .. m |-> IF i = 0 THEN <<>> ELSE Step(h[i - 1], names[i])]
           upTo == CHOOSE h : h = Body(h)
           Partial == {None} \cup UNION {Spread(c, K) : K \in SUBSET D}
<1>1. m \in Nat /\ Len(names) = m /\ (\A i \in 1 .. m : names[i] \in D) /\ D = {names[i] : i \in 1 .. m}
    BY RequestNamesAre
<1>2. ASSUME NEW K \in SUBSET D, NEW given \in Spread(c, K), NEW n \in D
      PROVE  Step(given, n) = None \/ Step(given, n) \in Spread(c, K \cup {n})
    <2> DEFINE can == IF Requests(c)[n].ip = None THEN Free(given) ELSE Free(given) \cap {Requests(c)[n].ip}
               g == [x \in K \cup {n} |-> IF x = n THEN Max(can) ELSE given[x]]
    <2>0. DOMAIN given = K
        BY DEF Spread
    <2>1. can \subseteq Address
        BY DEF Address
    <2>2. Step(given, n) = IF given = None \/ can = {} THEN None ELSE g
        BY <2>0
    <2>3. ASSUME can # {}
          PROVE  Max(can) \in can /\ Max(can) \in Address
        <3>1. can \in SUBSET (0 .. Usable)
            BY <2>1, BoundsAssumption DEF Address
        <3> HIDE DEF can
        <3>2. Max(can) \in can
            BY <2>3, <3>1, BoundsAssumption, MaxIsGreatest
        <3> QED
            BY <2>1, <3>2
    <2>4. \A a \in can : a \notin 1 .. Len(NodeNames(c)) /\ \A x \in K : given[x] # a
        BY <2>0 DEF Range
    <2> DEFINE a == Max(can)
    <2> HIDE DEF Step, can, Free
    <2>5. ASSUME can # {}
          PROVE  g \in Spread(c, K \cup {n})
        <3>1. /\ a \in Address /\ a \notin 1 .. Len(NodeNames(c))
              /\ \A x \in K : given[x] # a
            BY <2>3, <2>4, <2>5
        <3>2. \A x \in K \cup {n} : g[x] = IF x = n THEN a ELSE given[x]
            OBVIOUS
        <3> HIDE DEF a
        <3>3. g \in [K \cup {n} -> Address]
            BY <3>1, <3>2 DEF Spread
        <3> HIDE DEF g
        <3>4. \A x \in K \cup {n} : g[x] \notin 1 .. Len(NodeNames(c))
            BY <3>1, <3>2 DEF Spread
        <3>5. \A x, y \in K \cup {n} : x # y => g[x] # g[y]
            BY <3>1, <3>2 DEF Spread
        <3> QED
            BY <3>3, <3>4, <3>5 DEF Spread
    <2> HIDE DEF g
    <2> QED
        BY <2>2, <2>5
<1> HIDE DEF Step
<1>3. \A given \in Partial, n \in D : Step(given, n) \in Partial
    <2>1. ASSUME NEW n \in D
          PROVE  Step(None, n) = None
        BY DEF Step
    <2>2. ASSUME NEW K \in SUBSET D, NEW given \in Spread(c, K), NEW n \in D
          PROVE  Step(given, n) \in Partial
        <3>1. K \cup {n} \in SUBSET D
            OBVIOUS
        <3>2. Spread(c, K \cup {n}) \subseteq Partial
            BY <3>1
        <3> HIDE DEF D
        <3>3. Step(given, n) = None \/ Step(given, n) \in Spread(c, K \cup {n})
            BY <1>2
        <3> QED
            BY <3>2, <3>3
    <2> QED
        BY <2>1, <2>2
<1>4. <<>> \in Partial
    <2>1. <<>> \in Spread(c, {}) /\ {} \in SUBSET D
        BY DEF Spread
    <2> QED
        BY <2>1
<1> HIDE DEF Partial, D, m, names
<1>5. PICK f \in [0 .. m -> Partial] : f[0] = <<>> /\ \A i \in 1 .. m : f[i] = Step(f[i - 1], names[i])
    <2> DEFINE next == [q \in Partial \X (1 .. m) |-> Step(q[1], names[q[2]])]
    <2>1. \A given \in Partial, i \in 1 .. m : next[<<given, i>>] = Step(given, names[i])
        OBVIOUS
    <2>2. next \in [Partial \X (1 .. m) -> Partial]
        BY <1>1, <1>3
    <2> HIDE DEF next
    <2>3. PICK f \in [0 .. m -> Partial] : f[0] = <<>> /\ \A i \in 1 .. m : f[i] = next[<<f[i - 1], i>>]
        <3>1. Iteration(Partial, <<>>, m, next) # {}
            <4>1. m \in Nat
                BY <1>1
            <4> QED
                BY <1>4, <2>2, <4>1, IterationExists
        <3> QED
            BY <3>1 DEF Iteration
    <2>4. \A i \in 1 .. m : f[i - 1] \in Partial
        BY <1>1
    <2>5. \A i \in 1 .. m : f[i] = Step(f[i - 1], names[i])
        BY <2>1, <2>3, <2>4
    <2> QED
        BY <2>3, <2>5
<1>6. f = Body(f)
    <2>1. ASSUME NEW i \in 0 .. m
          PROVE  f[i] = Body(f)[i]
        <3>1. CASE i = 0
            BY <1>5, <3>1
        <3>2. CASE i # 0
            <4>1. i \in 1 .. m
                BY <1>1, <3>2
            <4> QED
                BY <1>5, <3>2, <4>1
        <3> QED
            BY <3>1, <3>2
    <2>2. f = [i \in 0 .. m |-> f[i]] /\ Body(f) = [i \in 0 .. m |-> Body(f)[i]]
        OBVIOUS
    <2> HIDE DEF Body
    <2> QED
        BY <2>1, <2>2
<1>7. upTo = Body(upTo)
    <2> HIDE DEF Body
    <2> QED
        BY <1>6
<1>8. ClientAddresses(c) = upTo[m]
    BY <1>1 DEF ClientAddresses, names, D, Step
<1> HIDE DEF upTo
<1>9. upTo[0] = <<>> /\ \A i \in 1 .. m : upTo[i] = Step(upTo[i - 1], names[i])
    <2>1. \A i \in 0 .. m : upTo[i] = Body(upTo)[i]
        <3> HIDE DEF Body
        <3> QED
            BY <1>7
    <2>2. 0 \in 0 .. m /\ \A i \in 1 .. m : i \in 0 .. m /\ i # 0
        BY <1>1
    <2>3. upTo[0] = <<>>
        BY <2>1, <2>2
    <2>4. ASSUME NEW i \in 1 .. m
          PROVE  upTo[i] = Step(upTo[i - 1], names[i])
        BY <2>1, <2>2
    <2> QED
        BY <2>3, <2>4
<1> HIDE DEF Body
<1> DEFINE Given(i) == {names[j] : j \in 1 .. i}
           N == {i \in Nat : i <= m => upTo[i] = None \/ upTo[i] \in Spread(c, Given(i))}
<1>10. 0 \in N
    <2>1. Given(0) = {}
        OBVIOUS
    <2> HIDE DEF Given
    <2>2. <<>> \in Spread(c, Given(0))
        BY <2>1 DEF Spread
    <2> QED
        BY <1>9, <2>2
<1>11. ASSUME NEW i \in Nat, i \in N
       PROVE  i + 1 \in N
    <2> SUFFICES ASSUME i + 1 <= m
                 PROVE  upTo[i + 1] = None \/ upTo[i + 1] \in Spread(c, Given(i + 1))
        OBVIOUS
    <2>1. i + 1 \in 1 .. m /\ (i + 1) - 1 = i /\ i <= m
        <3>1. m \in Nat
            BY <1>1
        <3> HIDE DEF Given, N
        <3> QED
            BY <3>1
    <2>2. upTo[i + 1] = Step(upTo[i], names[i + 1]) /\ names[i + 1] \in D
        BY <1>1, <1>9, <2>1
    <2>3. Given(i) \in SUBSET D /\ Given(i) \cup {names[i + 1]} = Given(i + 1)
        <3>1. \A j \in 1 .. i + 1 : j \in 1 .. i \/ j = i + 1
            OBVIOUS
        <3>2. \A j \in 1 .. i : j \in 1 .. i + 1 /\ j \in 1 .. m
            BY <1>1, <2>1
        <3>3. i + 1 \in 1 .. i + 1
            OBVIOUS
        <3> QED
            BY <1>1, <3>1, <3>2, <3>3
    <2>4. upTo[i] = None \/ upTo[i] \in Spread(c, Given(i))
        BY <1>11, <2>1
    <2> HIDE DEF Given
    <2>5. CASE upTo[i] = None
        BY <2>2, <2>5 DEF Step
    <2>6. CASE upTo[i] \in Spread(c, Given(i))
        <3> DEFINE n == names[i + 1]
                   K == Given(i)
        <3>1. n \in D /\ K \in SUBSET D /\ upTo[i] \in Spread(c, K)
            BY <2>2, <2>3, <2>6
        <3> HIDE DEF n, K
        <3>2. Step(upTo[i], n) = None \/ Step(upTo[i], n) \in Spread(c, K \cup {n})
            BY <1>2, <3>1
        <3> QED
            BY <2>2, <2>3, <3>2 DEF n, K
    <2> QED
        BY <2>4, <2>5, <2>6
<1>12. m \in N
    <2> HIDE DEF N
    <2> QED
        BY <1>1, <1>10, <1>11, NatSetInduction
<1>13. Given(m) = D
    BY <1>1
<1>14. upTo[m] = None \/ upTo[m] \in Spread(c, Given(m))
    BY <1>1, <1>12
<1> QED
    BY <1>8, <1>13, <1>14 DEF D

-----------------------------------------------------------------------------
(* Steps of a call *)

LEMMA StepsAre ==
    ASSUME NEW c \in Configs, NEW step \in {"mesh", "k3s"}
    PROVE  /\ Steps(c, step) \in Seq({"mesh", "k3s"} \X KeysOf(c))
           /\ \A k \in KeysOf(c) : <<step, k>> \in Range(Steps(c, step))
<1> DEFINE n == Len(c.nodes)
           names == NodeNames(c)
           steps == Steps(c, step)
<1>1. n \in Nat /\ DOMAIN names = 1 .. n /\ (\A i \in 1 .. n : names[i] \in KeysOf(c)) /\ KeysOf(c) = Range(names)
    BY NodesAre, NodeNamesAre DEF KeysOf
<1>2. steps = [i \in 1 .. n |-> <<step, names[i]>>]
    BY <1>1 DEF Steps
<1> HIDE DEF n, names, steps
<1>3. steps \in [1 .. n -> {"mesh", "k3s"} \X KeysOf(c)]
    BY <1>1, <1>2
<1>4. ASSUME NEW k \in KeysOf(c)
      PROVE  <<step, k>> \in Range(steps)
    <2>1. PICK i \in 1 .. n : names[i] = k
        BY <1>1 DEF Range
    <2>2. i \in DOMAIN steps /\ steps[i] = <<step, k>>
        BY <1>2, <2>1
    <2> QED
        BY <2>2 DEF Range
<1> QED
    BY <1>1, <1>3, <1>4 DEF steps

LEMMA RangeOfConcat ==
    ASSUME NEW S, NEW u \in Seq(S), NEW v \in Seq(S)
    PROVE  u \o v \in Seq(S) /\ Range(u) \subseteq Range(u \o v) /\ Range(v) \subseteq Range(u \o v)
<1> DEFINE w == u \o v
<1>1. /\ w \in Seq(S) /\ Len(w) = Len(u) + Len(v) /\ Len(u) \in Nat /\ Len(v) \in Nat
      /\ \A i \in 1 .. Len(u) : w[i] = u[i]
      /\ \A i \in 1 .. Len(v) : w[Len(u) + i] = v[i]
    BY Glued
<1> HIDE DEF w
<1>2. DOMAIN w = 1 .. Len(u) + Len(v) /\ DOMAIN u = 1 .. Len(u) /\ DOMAIN v = 1 .. Len(v)
    BY <1>1
<1>3. \A i \in 1 .. Len(u) : i \in DOMAIN w
    BY <1>1, <1>2
<1>4. \A i \in 1 .. Len(v) : Len(u) + i \in DOMAIN w
    BY <1>1, <1>2
<1>5. Range(u) \subseteq Range(w)
    BY <1>1, <1>2, <1>3 DEF Range
<1>6. Range(v) \subseteq Range(w)
    BY <1>1, <1>2, <1>4 DEF Range
<1> QED
    BY <1>1, <1>5, <1>6 DEF w

LEMMA RangeOfTail ==
    ASSUME NEW S, NEW s \in Seq(S), s # <<>>
    PROVE  /\ Tail(s) \in Seq(S) /\ Head(s) \in S
           /\ \A x \in Range(s) : x = Head(s) \/ x \in Range(Tail(s))
           /\ Range(Tail(s)) \subseteq Range(s) /\ Head(s) \in Range(s)
<1> DEFINE t == Tail(s)
<1>1. /\ t \in Seq(S) /\ Head(s) \in S /\ Len(s) \in Nat /\ Len(s) >= 1
      /\ DOMAIN s = 1 .. Len(s) /\ DOMAIN t = 1 .. Len(s) - 1 /\ Head(s) = s[1]
      /\ \A j \in 1 .. Len(s) - 1 : t[j] = s[j + 1]
    OBVIOUS
<1> HIDE DEF t
<1>2. ASSUME NEW i \in 1 .. Len(s), i # 1
      PROVE  s[i] \in Range(t)
    <2>1. i - 1 \in 1 .. Len(s) - 1 /\ (i - 1) + 1 = i
        BY <1>1, <1>2
    <2>2. t[i - 1] = s[i]
        BY <1>1, <2>1
    <2> QED
        BY <1>1, <2>1, <2>2 DEF Range
<1>3. \A x \in Range(s) : x = Head(s) \/ x \in Range(t)
    BY <1>1, <1>2 DEF Range
<1>4. \A j \in 1 .. Len(s) - 1 : j + 1 \in 1 .. Len(s)
    BY <1>1
<1>5. Range(t) \subseteq Range(s)
    BY <1>1, <1>4 DEF Range
<1>6. Head(s) \in Range(s)
    BY <1>1 DEF Range
<1> QED
    BY <1>1, <1>3, <1>5, <1>6 DEF t

LEMMA AtIs ==
    ASSUME CallInv, busy, todo # <<>>
    PROVE  /\ Head(todo)[1] \in {"mesh", "k3s"} /\ Key \in KeysOf(cfg) /\ Head(todo) = <<Head(todo)[1], Key>>
           /\ Tail(todo) \in Seq({"mesh", "k3s"} \X KeysOf(cfg))
           /\ \A x \in Range(todo) : x = Head(todo) \/ x \in Range(Tail(todo))
           /\ \A x \in Range(Tail(todo)) : x[1] = "mesh" => cfg.wg
           /\ Head(todo)[1] = "mesh" => cfg.wg
<1> DEFINE S == {"mesh", "k3s"} \X KeysOf(cfg)
<1>1. todo \in Seq(S)
    BY DEF CallInv
<1> HIDE DEF S
<1>2. /\ Tail(todo) \in Seq(S) /\ Head(todo) \in S
      /\ \A x \in Range(todo) : x = Head(todo) \/ x \in Range(Tail(todo))
      /\ Range(Tail(todo)) \subseteq Range(todo) /\ Head(todo) \in Range(todo)
    BY <1>1, RangeOfTail
<1>3. Head(todo)[1] \in {"mesh", "k3s"} /\ Head(todo)[2] \in KeysOf(cfg) /\ Head(todo) = <<Head(todo)[1], Head(todo)[2]>>
    BY <1>2 DEF S
<1> QED
    BY <1>2, <1>3 DEF S, Key, CallInv

LEMMA CallStep ==
    ASSUME TypeOK, CallInv, [Next]_vars
    PROVE  CallInv'
<1>0. cfg \in Configs /\ calls \in 0 .. MaxCalls /\ failures \in Nat /\ calls \in Nat /\ MaxCalls \in Nat
    BY BoundsAssumption DEF TypeOK, CallInv
<1>1. ASSUME NEW c \in Configs, Apply(c)
      PROVE  CallInv'
    <2> DEFINE S == {"mesh", "k3s"} \X KeysOf(c)
    <2>1. Steps(c, "mesh") \in Seq(S) /\ Steps(c, "k3s") \in Seq(S)
        BY StepsAre
    <2>2. (IF c.wg THEN Steps(c, "mesh") ELSE <<>>) \in Seq(S)
        BY <2>1
    <2> HIDE DEF S
    <2>3. todo' \in Seq(S)
        BY <1>1, <2>1, <2>2, RangeOfConcat DEF Apply
    <2>4. calls' \in 0 .. MaxCalls /\ calls' >= 1
        BY <1>0, <1>1 DEF Apply
    <2>5. cfg' = c /\ busy' /\ failures' = failures /\ Valid(c)
        BY <1>1 DEF Apply
    <2>6. ~c.wg => todo' = Steps(c, "k3s")
        <3>1. <<>> \o Steps(c, "k3s") = Steps(c, "k3s")
            BY <2>1
        <3> QED
            BY <1>1, <3>1 DEF Apply
    <2>7. \A x \in Range(Steps(c, "k3s")) : x[1] = "k3s"
        BY DEF Steps, Range
    <2>8. \A x \in Range(todo') : x[1] = "mesh" => c.wg
        BY <2>6, <2>7
    <2> QED
        BY <1>0, <2>3, <2>4, <2>5, <2>8 DEF CallInv, S
<1>2. ASSUME busy, busy', todo # <<>>, todo' = Tail(todo), UNCHANGED <<cfg, calls, failures>>
      PROVE  CallInv'
    <2>1. /\ Tail(todo) \in Seq({"mesh", "k3s"} \X KeysOf(cfg))
          /\ \A x \in Range(Tail(todo)) : x[1] = "mesh" => cfg.wg
        BY <1>2, AtIs
    <2> QED
        BY <1>2, <2>1 DEF CallInv
<1>3. CASE ConfigureMesh \/ InstallK3s
    BY <1>2, <1>3 DEF ConfigureMesh, InstallK3s, At, CallInv
<1>4. CASE Save \/ Destroy
    BY <1>4 DEF Save, Destroy, CallInv
<1>5. CASE Fail
    <2>1. Range(<<>>) = {}
        BY DEF Range
    <2> QED
        BY <1>5, <2>1 DEF Fail, CallInv
<1>6. CASE UNCHANGED vars
    BY <1>6 DEF vars, CallInv
<1> QED
    BY <1>1, <1>3, <1>4, <1>5, <1>6 DEF Next

LEMMA IpType ==
    ASSUME cfg \in Configs, NEW k \in KeysOf(cfg)
    PROVE  IpOf(k) \in IPs
BY PositionIs DEF IpOf, Node

LEMMA MeshFileStays ==
    ASSUME NEW k, UNCHANGED <<cfg, tf, calls>>
    PROVE  MeshFile(k)' = MeshFile(k)
BY DEF MeshFile, NodeKey, PeerOf, ClientOf, ClientKey, Prior, NewKey, Generated

LEMMA DoneStep ==
    ASSUME TypeOK, CallInv, DoneInv, [Next]_vars
    PROVE  DoneInv'
<1>0. cfg \in Configs /\ mesh \in [IPs -> WireGuardFile \cup {None}]
      /\ name \in [IPs -> Hosts \cup Range(PositionName) \cup {None}]
    BY DEF TypeOK
<1>1. ASSUME NEW c \in Configs, Apply(c)
      PROVE  DoneInv'
    <2> DEFINE S == {"mesh", "k3s"} \X KeysOf(c)
               first == IF c.wg THEN Steps(c, "mesh") ELSE <<>>
    <2>1. /\ Steps(c, "mesh") \in Seq(S) /\ Steps(c, "k3s") \in Seq(S)
          /\ \A k \in KeysOf(c) : <<"mesh", k>> \in Range(Steps(c, "mesh")) /\ <<"k3s", k>> \in Range(Steps(c, "k3s"))
        BY StepsAre
    <2>2. first \in Seq(S) /\ (c.wg => first = Steps(c, "mesh"))
        BY <2>1
    <2>3. todo' = first \o Steps(c, "k3s") /\ cfg' = c
        BY <1>1 DEF Apply
    <2> HIDE DEF S, first
    <2>4. Range(first) \subseteq Range(todo') /\ Range(Steps(c, "k3s")) \subseteq Range(todo')
        BY <2>1, <2>2, <2>3, RangeOfConcat
    <2>5. \A k \in KeysOf(c) : (c.wg => <<"mesh", k>> \in Range(todo')) /\ <<"k3s", k>> \in Range(todo')
        BY <2>1, <2>2, <2>4
    <2> QED
        BY <2>3, <2>5 DEF DoneInv, Left
<1>2. ASSUME busy, UNCHANGED <<cfg, tf, calls>>, todo # <<>>, todo' = Tail(todo), NEW k \in KeysOf(cfg),
             cfg.wg => Head(todo) # <<"mesh", k>> \/ mesh'[IpOf(k)] = MeshFile(k),
             mesh'[IpOf(k)] # mesh[IpOf(k)] => mesh'[IpOf(k)] = MeshFile(k),
             Head(todo) # <<"k3s", k>> \/ name'[IpOf(k)] = NodeName(cfg, k),
             name'[IpOf(k)] # name[IpOf(k)] => name'[IpOf(k)] = NodeName(cfg, k)
      PROVE  /\ cfg'.wg => Left("mesh", k)' \/ mesh'[IpOf(k)'] = MeshFile(k)'
             /\ Left("k3s", k)' \/ name'[IpOf(k)'] = NodeName(cfg', k)
    <2>1. \A x \in Range(todo) : x = Head(todo) \/ x \in Range(todo')
        BY <1>2, AtIs
    <2>2. IpOf(k)' = IpOf(k) /\ MeshFile(k)' = MeshFile(k) /\ cfg' = cfg
        BY <1>2, MeshFileStays DEF IpOf
    <2>3. /\ cfg.wg => <<"mesh", k>> \in Range(todo) \/ mesh[IpOf(k)] = MeshFile(k)
          /\ <<"k3s", k>> \in Range(todo) \/ name[IpOf(k)] = NodeName(cfg, k)
        BY <1>2 DEF DoneInv, Left
    <2>4. cfg.wg => <<"mesh", k>> \in Range(todo') \/ mesh'[IpOf(k)] = MeshFile(k)
        BY <1>2, <2>1, <2>3
    <2>5. <<"k3s", k>> \in Range(todo') \/ name'[IpOf(k)] = NodeName(cfg, k)
        BY <1>2, <2>1, <2>3
    <2> QED
        BY <2>2, <2>4, <2>5 DEF Left
<1>3. ASSUME busy, NEW k \in KeysOf(cfg), Key \in KeysOf(cfg), k # Key
      PROVE  IpOf(k) # IpOf(Key)
    BY <1>0, <1>3, MachinesDiffer DEF IpOf, CallInv
<1>4. CASE ConfigureMesh
    <2>1. busy /\ todo # <<>> /\ Head(todo)[1] = "mesh" /\ UNCHANGED <<cfg, tf, calls>> /\ todo' = Tail(todo)
        BY <1>4 DEF ConfigureMesh, At
    <2>2. Key \in KeysOf(cfg) /\ Head(todo) = <<"mesh", Key>>
        BY <2>1, AtIs
    <2>3. mesh' = [mesh EXCEPT ![IpOf(Key)] = MeshFile(Key)] /\ name' = name
        BY <1>4 DEF ConfigureMesh, IpOf
    <2>4. ASSUME NEW k \in KeysOf(cfg)
          PROVE  /\ k = Key => mesh'[IpOf(k)] = MeshFile(k)
                 /\ k # Key => mesh'[IpOf(k)] = mesh[IpOf(k)] /\ Head(todo) # <<"mesh", k>>
                 /\ Head(todo) # <<"k3s", k>>
        <3>1. IpOf(k) \in IPs
            BY <1>0, IpType
        <3>2. k # Key => IpOf(k) # IpOf(Key)
            BY <1>3, <2>1, <2>2
        <3> QED
            BY <1>0, <2>2, <2>3, <3>1, <3>2
    <2>5. \A k \in KeysOf(cfg) :
              /\ cfg'.wg => Left("mesh", k)' \/ mesh'[IpOf(k)'] = MeshFile(k)'
              /\ Left("k3s", k)' \/ name'[IpOf(k)'] = NodeName(cfg', k)
        <3>1. ASSUME NEW k \in KeysOf(cfg)
              PROVE  /\ cfg.wg => Head(todo) # <<"mesh", k>> \/ mesh'[IpOf(k)] = MeshFile(k)
                     /\ mesh'[IpOf(k)] # mesh[IpOf(k)] => mesh'[IpOf(k)] = MeshFile(k)
                     /\ Head(todo) # <<"k3s", k>> /\ name'[IpOf(k)] = name[IpOf(k)]
            BY <2>3, <2>4
        <3> QED
            BY <1>2, <2>1, <3>1
    <2> QED
        BY <2>1, <2>5 DEF DoneInv
<1>5. CASE InstallK3s
    <2>1. busy /\ todo # <<>> /\ Head(todo)[1] = "k3s" /\ UNCHANGED <<cfg, tf, calls>> /\ todo' = Tail(todo)
        BY <1>5 DEF InstallK3s, At
    <2>2. Key \in KeysOf(cfg) /\ Head(todo) = <<"k3s", Key>>
        BY <2>1, AtIs
    <2>3. name' = [name EXCEPT ![IpOf(Key)] = NodeName(cfg, Key)] /\ mesh' = mesh
        BY <1>5 DEF InstallK3s, IpOf
    <2>4. ASSUME NEW k \in KeysOf(cfg)
          PROVE  /\ k = Key => name'[IpOf(k)] = NodeName(cfg, k)
                 /\ k # Key => name'[IpOf(k)] = name[IpOf(k)] /\ Head(todo) # <<"k3s", k>>
                 /\ Head(todo) # <<"mesh", k>>
        <3>1. IpOf(k) \in IPs
            BY <1>0, IpType
        <3>2. k # Key => IpOf(k) # IpOf(Key)
            BY <1>3, <2>1, <2>2
        <3> QED
            BY <1>0, <2>2, <2>3, <3>1, <3>2
    <2>5. \A k \in KeysOf(cfg) :
              /\ cfg'.wg => Left("mesh", k)' \/ mesh'[IpOf(k)'] = MeshFile(k)'
              /\ Left("k3s", k)' \/ name'[IpOf(k)'] = NodeName(cfg', k)
        <3>1. ASSUME NEW k \in KeysOf(cfg)
              PROVE  /\ Head(todo) # <<"mesh", k>> /\ mesh'[IpOf(k)] = mesh[IpOf(k)]
                     /\ Head(todo) # <<"k3s", k>> \/ name'[IpOf(k)] = NodeName(cfg, k)
                     /\ name'[IpOf(k)] # name[IpOf(k)] => name'[IpOf(k)] = NodeName(cfg, k)
            BY <2>3, <2>4
        <3> QED
            BY <1>2, <2>1, <3>1
    <2> QED
        BY <2>1, <2>5 DEF DoneInv
<1>6. CASE Save \/ Fail \/ Destroy
    BY <1>6 DEF Save, Fail, Destroy, DoneInv
<1>7. CASE UNCHANGED vars
    <2>1. UNCHANGED <<cfg, tf, calls, todo, busy, mesh, name>>
        BY <1>7 DEF vars
    <2>2. \A k : MeshFile(k)' = MeshFile(k) /\ IpOf(k)' = IpOf(k)
        BY <2>1, MeshFileStays DEF IpOf
    <2> QED
        BY <2>1, <2>2 DEF DoneInv, Left
<1> QED
    BY <1>1, <1>4, <1>5, <1>6, <1>7 DEF Next

-----------------------------------------------------------------------------
(* Keys, files and state *)

LEMMA GenerationsAre ==
    ASSUME CallInv, NEW k \in IPs \cup Hosts \cup Clients \cup {Legacy}
    PROVE  Generations(k) \subseteq KeyPairs
<1>1. \A i \in 1 .. calls : i \in 1 .. MaxCalls
    BY BoundsAssumption DEF CallInv
<1> QED
    BY <1>1 DEF Generations, KeyPairs

LEMMA NewKeyIs ==
    ASSUME CallInv, busy, NEW k
    PROVE  NewKey(k) \in Generations(k)
<1>1. calls \in 1 .. calls
    BY BoundsAssumption DEF CallInv
<1> QED
    BY <1>1 DEF Generations, NewKey

LEMMA NodeKeyIs ==
    ASSUME TypeOK, CallInv, StateInv, busy, NEW k \in KeysOf(cfg)
    PROVE  NodeKey(k) \in Generations(k) /\ NodeKey(k) \in KeyPairs
<1>1. NodeKey(k) \in Generations(k)
    <2>1. CASE tf = None
        BY <2>1, NewKeyIs DEF NodeKey, Prior
    <2>2. CASE tf # None
        BY <2>2, NewKeyIs DEF NodeKey, Prior, StateInv
    <2> QED
        BY <2>1, <2>2
<1>2. k \in IPs \cup Hosts
    BY NodeNamesAre DEF TypeOK
<1> QED
    BY <1>1, <1>2, GenerationsAre

LEMMA ClientKeyIs ==
    ASSUME TypeOK, CallInv, StateInv, busy, NEW n \in DOMAIN Requests(cfg)
    PROVE  /\ ClientKey(n) \in KeyPairs
           /\ n \in Generated(cfg) => ClientKey(n) \in Generations(n)
           /\ n \notin Generated(cfg) => ClientKey(n) = GivenKey(cfg.peers[n].key) /\ cfg.peers[n].key \in GivenKeys
<1>0. cfg \in Configs /\ n \in Clients \cup {Legacy}
    BY RequestsAre DEF TypeOK
<1>1. ASSUME n \in Generated(cfg)
      PROVE  ClientKey(n) \in Generations(n)
    <2>1. CASE tf = None
        BY <1>1, <2>1, NewKeyIs DEF ClientKey, Prior
    <2>2. CASE tf # None
        BY <1>1, <2>2, NewKeyIs DEF ClientKey, Prior, StateInv
    <2> QED
        BY <2>1, <2>2
<1>2. ASSUME n \notin Generated(cfg)
      PROVE  /\ ClientKey(n) = GivenKey(cfg.peers[n].key) /\ cfg.peers[n].key \in GivenKeys
             /\ GivenKey(cfg.peers[n].key) \in KeyPairs
    <2>1. Requests(cfg)[n].key # None /\ Requests(cfg)[n] \in Peer
        BY <1>0, <1>2, RequestsAre DEF Generated
    <2>2. Requests(cfg)[n] = cfg.peers[n]
        <3>1. n # Legacy
            BY <1>0, <2>1, RequestsAre
        <3> QED
            BY <1>0, <3>1, RequestsAre
    <2>3. cfg.peers[n].key \in GivenKeys
        BY <2>1, <2>2 DEF Peer
    <2> QED
        BY <1>2, <2>3 DEF ClientKey, GivenKey, KeyPairs
<1> QED
    BY <1>0, <1>1, <1>2, GenerationsAre

\* With the mesh on, the plan has seen that the addresses fit.
LEMMA AddressIs ==
    ASSUME TypeOK, CallInv, busy, cfg.wg
    PROVE  /\ \A k \in KeysOf(cfg) : NodeAddress(cfg, k) \in Address
           /\ \A n \in DOMAIN Requests(cfg) : ClientAddresses(cfg)[n] \in Address
<1>1. cfg \in Configs /\ Valid(cfg)
    BY DEF TypeOK, CallInv
<1>2. ClientAddresses(cfg) # None /\ Len(cfg.nodes) + Cardinality(DOMAIN Requests(cfg)) <= Usable
    BY <1>1 DEF Valid, AddressesFit
<1>3. ClientAddresses(cfg) \in [DOMAIN Requests(cfg) -> Address]
    BY <1>1, <1>2, ClientAddressesAre DEF Spread
<1>4. Cardinality(DOMAIN Requests(cfg)) \in Nat
    BY <1>1, RequestsAre, FS_CardinalityType
<1>5. Len(cfg.nodes) \in Nat /\ \A k \in KeysOf(cfg) : NodeAddress(cfg, k) \in 1 .. Len(cfg.nodes)
    BY <1>1, NodesAre, PositionIs
<1>6. Len(cfg.nodes) <= Usable
    BY <1>2, <1>4, <1>5, BoundsAssumption
<1>7. 1 .. Len(cfg.nodes) \subseteq Address
    BY <1>5, <1>6, BoundsAssumption DEF Address
<1> QED
    BY <1>3, <1>5, <1>7

\* No two entries of the file that a call gives a node have one address, or one
\* key that was generated.
LEMMA MeshFileApart ==
    ASSUME TypeOK, CallInv, StateInv, busy, cfg.wg, NEW k \in KeysOf(cfg)
    PROVE  Apart(MeshFile(k))
<1> DEFINE f == MeshFile(k)
           R == DOMAIN Requests(cfg)
           low == 1 .. Len(NodeNames(cfg))
           given == {GivenKey(g) : g \in GivenKeys}
           N == KeysOf(cfg) \cup R
           Addr(x) == IF x \in R THEN ClientAddresses(cfg)[x] ELSE NodeAddress(cfg, x)
           KeyFor(x) == IF x \in R THEN ClientKey(x) ELSE NodeKey(x)
           Entry(x) == IF x \in R THEN ClientOf(x) ELSE PeerOf(x)
<1>1. cfg \in Configs /\ Valid(cfg)
    BY DEF TypeOK, CallInv
<1>2. \A j \in KeysOf(cfg) : NodeAddress(cfg, j) \in low /\ NodeKey(j) \in Generations(j) /\ j \in IPs \cup Hosts
    BY <1>1, PositionIs, NodeNamesAre, NodeKeyIs
<1>3. ClientAddresses(cfg) \in Spread(cfg, R)
    BY <1>1, ClientAddressesAre DEF Valid, AddressesFit
<1>4. \A n \in R : ClientKey(n) \in Generations(n) \cup given /\ n \in Clients \cup {Legacy}
    BY <1>1, ClientKeyIs, RequestsAre
<1>5. k \notin R /\ \A j \in KeysOf(cfg) : j \notin R
    BY <1>2, <1>4, NameAssumption
<1>6. \A x, y \in N : x # y => Addr(x) # Addr(y)
    <2>1. \A x, y \in KeysOf(cfg) : x # y => NodeAddress(cfg, x) # NodeAddress(cfg, y)
        BY <1>1, MachinesDiffer
    <2>2. \A x \in R : ClientAddresses(cfg)[x] \notin low
        BY <1>3 DEF Spread
    <2>3. \A x, y \in R : x # y => ClientAddresses(cfg)[x] # ClientAddresses(cfg)[y]
        BY <1>3 DEF Spread
    <2> HIDE DEF R, low
    <2> QED
        BY <1>2, <1>5, <2>1, <2>2, <2>3
<1>7. \A x \in N : KeyFor(x) \in Generations(x) \/ (x \in R /\ KeyFor(x) \in given)
    BY <1>2, <1>4, <1>5
<1>8. \A x, y \in N : x # y => Generations(x) \cap Generations(y) = {}
    BY DEF Generations
<1>9. \A x : Generations(x) \cap given = {}
    BY DEF Generations, GivenKey
<1>10. \A x \in N : Entry(x).addr = Addr(x) /\ Entry(x).key = KeyFor(x)
    BY DEF ClientOf, PeerOf
<1>11. f.addr = Addr(k) /\ f.key = KeyFor(k)
    BY <1>5 DEF MeshFile
<1>12. \A e \in f.peers \cup f.clients : \E x \in N \ {k} : e = Entry(x)
    <2>1. \A e \in f.peers : \E x \in KeysOf(cfg) \ {k} : e = PeerOf(x)
        BY DEF MeshFile
    <2>2. \A e \in f.clients : \E x \in R : e = ClientOf(x)
        BY DEF MeshFile
    <2> HIDE DEF f, R
    <2> QED
        BY <1>5, <2>1, <2>2
<1>13. k \in N
    OBVIOUS
<1>14. \A x, y \in N : x # y /\ KeyFor(x) = KeyFor(y) => KeyFor(x) \in given /\ x \in R /\ y \in R
    BY <1>7, <1>8, <1>9
<1> HIDE DEF f, R, low, given, N, Addr, KeyFor, Entry
<1>15. ASSUME NEW e \in f.peers \cup f.clients
       PROVE  e.addr # f.addr /\ e.key # f.key
    <2>1. PICK x \in N \ {k} : e = Entry(x)
        BY <1>12
    <2> QED
        BY <1>5, <1>6, <1>10, <1>11, <1>13, <1>14, <2>1
<1>16. ASSUME NEW e \in f.peers \cup f.clients, NEW u \in f.peers \cup f.clients, e # u
       PROVE  e.addr # u.addr /\ (e.key = u.key => e.key \in given)
    <2>1. PICK x \in N \ {k} : e = Entry(x)
        BY <1>12
    <2>2. PICK y \in N \ {k} : u = Entry(y)
        BY <1>12
    <2>3. x # y
        BY <1>16, <2>1, <2>2
    <2> QED
        BY <1>6, <1>10, <1>14, <2>1, <2>2, <2>3
<1> QED
    BY <1>15, <1>16 DEF Apart, f, given

LEMMA MeshFileIs ==
    ASSUME TypeOK, CallInv, StateInv, busy, cfg.wg, NEW k \in KeysOf(cfg)
    PROVE  MeshFile(k) \in WireGuardFile
<1>1. cfg \in Configs
    BY DEF TypeOK
<1>2. \A j \in KeysOf(cfg) : PeerOf(j) \in PeerEntry
    BY <1>1, AddressIs, NodeKeyIs, IpType DEF PeerOf, PeerEntry, IpOf
<1>3. \A n \in DOMAIN Requests(cfg) : ClientOf(n) \in ClientEntry
    BY <1>1, AddressIs, ClientKeyIs, RequestsAre DEF ClientOf, ClientEntry
<1>4. {PeerOf(j) : j \in KeysOf(cfg) \ {k}} \subseteq PeerEntry
    BY <1>2
<1>5. {ClientOf(n) : n \in DOMAIN Requests(cfg)} \subseteq ClientEntry
    BY <1>3
<1>6. NodeKey(k) \in KeyPairs /\ NodeAddress(cfg, k) \in Address
    BY AddressIs, NodeKeyIs
<1> QED
    BY <1>4, <1>5, <1>6 DEF MeshFile, WireGuardFile

\* No mesh, no client.
LEMMA ClientsNeedMesh ==
    ASSUME TypeOK, CallInv, busy, ~cfg.wg
    PROVE  DOMAIN Requests(cfg) = {}
<1>1. cfg \in Configs /\ Valid(cfg) /\ cfg.wg \in BOOLEAN
    BY ConfigAssumption DEF TypeOK, CallInv
<1>2. ~cfg.admin /\ cfg.peers = <<>>
    BY <1>1 DEF Valid
<1> QED
    BY <1>2 DEF Requests

LEMMA StateStep ==
    ASSUME TypeOK, CallInv, StateInv, [Next]_vars
    PROVE  StateInv'
<1>0. cfg \in Configs
    BY DEF TypeOK
<1>1. ASSUME NEW k, calls' = calls \/ (calls' = calls + 1)
      PROVE  Generations(k) \subseteq Generations(k)'
    <2>1. 1 .. calls \subseteq 1 .. calls'
        BY <1>1, BoundsAssumption DEF CallInv
    <2> QED
        BY <2>1 DEF Generations
<1>2. ASSUME tf' = tf, calls' = calls \/ (calls' = calls + 1)
      PROVE  StateInv'
    BY <1>1, <1>2 DEF StateInv
<1>3. CASE \E c \in Configs : Apply(c)
    BY <1>2, <1>3 DEF Apply
<1>4. CASE Save
    <2> DEFINE s == State
    <2>1. busy /\ tf' = s /\ cfg' = cfg /\ calls' = calls
        BY <1>4 DEF Save
    <2>2. s.ips \subseteq IPs
        BY <1>0, NodesAre DEF State, Node
    <2>3. \A k \in DOMAIN s.nodeKeys : k \in KeysOf(cfg) /\ s.nodeKeys[k] = NodeKey(k)
        BY DEF State
    <2>4. /\ DOMAIN s.clientKeys = Generated(cfg) \cup ({Legacy} \cap DOMAIN Prior("clientKeys"))
          /\ \A n \in DOMAIN s.clientKeys :
                 s.clientKeys[n] = IF n \in Generated(cfg) THEN ClientKey(n) ELSE tf.clientKeys[n]
        BY DEF State
    <2>5. DOMAIN s.configs = Generated(cfg) /\ \A n \in Generated(cfg) : s.configs[n] = ClientConfig(n)
        BY DEF State
    <2> HIDE DEF s
    <2>6. \A n \in Generated(cfg) : n \in DOMAIN Requests(cfg)
        BY DEF Generated
    <2>7. \A n \in Generated(cfg) : cfg.wg
        BY <2>1, <2>6, ClientsNeedMesh
    <2>8. \A k \in DOMAIN s.nodeKeys : s.nodeKeys[k] \in Generations(k)
        BY <2>1, <2>3, NodeKeyIs
    <2>9. \A n \in DOMAIN s.clientKeys : s.clientKeys[n] \in Generations(n)
        <3>1. ASSUME NEW n \in DOMAIN s.clientKeys
              PROVE  s.clientKeys[n] \in Generations(n)
            <4>1. CASE n \in Generated(cfg)
                BY <2>1, <2>4, <2>6, <4>1, ClientKeyIs
            <4>2. CASE n \notin Generated(cfg)
                <5>1. n \in DOMAIN Prior("clientKeys")
                    BY <2>4, <4>2
                <5>2. tf # None /\ n \in DOMAIN tf.clientKeys
                    BY <5>1 DEF Prior
                <5> QED
                    BY <2>4, <4>2, <5>2 DEF StateInv
            <4> QED
                BY <4>1, <4>2
        <3> QED
            BY <3>1
    <2>10. ASSUME NEW n \in DOMAIN s.configs
           PROVE  n \in DOMAIN s.clientKeys /\ s.configs[n].key = s.clientKeys[n] /\ s.configs[n].addr \in Address
        <3>1. n \in Generated(cfg) /\ n \in DOMAIN Requests(cfg) /\ cfg.wg
            BY <2>5, <2>6, <2>7
        <3>2. s.configs[n].key = ClientKey(n) /\ s.configs[n].addr = ClientAddresses(cfg)[n]
            <4>1. ClientConfig(n).key = ClientKey(n) /\ ClientConfig(n).addr = ClientAddresses(cfg)[n]
                BY DEF ClientConfig
            <4> QED
                BY <2>5, <3>1, <4>1, Zenon
        <3> QED
            BY <2>1, <2>4, <3>1, <3>2, AddressIs
    <2>11. \A k : Generations(k)' = Generations(k)
        BY <2>1 DEF Generations
    <2> QED
        BY <2>1, <2>2, <2>8, <2>9, <2>10, <2>11 DEF StateInv
<1>5. CASE Destroy
    BY <1>5 DEF Destroy, StateInv
<1>6. CASE ConfigureMesh \/ InstallK3s \/ Fail \/ UNCHANGED vars
    BY <1>2, <1>6 DEF ConfigureMesh, InstallK3s, Fail, vars
<1> QED
    BY <1>3, <1>4, <1>5, <1>6 DEF Next

LEMMA NodeNameIs ==
    ASSUME NEW c \in Configs, NEW k \in KeysOf(c)
    PROVE  NodeName(c, k) \in Hosts \cup Range(PositionName) /\ NodeName(c, k) # None
<1>1. NodeAt(c, k) \in Node /\ PositionOf(c, k) \in DOMAIN PositionName
    BY PositionIs, NodesAre, ListAssumption
<1>2. NodeName(c, k) \in Hosts \cup Range(PositionName)
    BY <1>1 DEF NodeName, Node, Range
<1> QED
    BY <1>2, NameAssumption

LEMMA TypeStep ==
    ASSUME TypeOK, CallInv, StateInv, StateInv', CallInv', [Next]_vars
    PROVE  TypeOK'
<1>0. /\ cfg \in Configs /\ calls \in Nat /\ failures \in Nat /\ cfg' \in Configs
      /\ mesh \in [IPs -> WireGuardFile \cup {None}]
      /\ name \in [IPs -> Hosts \cup Range(PositionName) \cup {None}]
      /\ result' \in {"none", "ok", "error"} /\ busy' \in BOOLEAN
    BY DEF TypeOK, Next, Apply, ConfigureMesh, InstallK3s, Save, Fail, Destroy, vars
<1>1. todo' \in Seq({"mesh", "k3s"} \X (IPs \cup Hosts))
    <2> DEFINE S == {"mesh", "k3s"} \X KeysOf(cfg')
               T == {"mesh", "k3s"} \X (IPs \cup Hosts)
    <2>1. S \subseteq T
        BY <1>0, NodeNamesAre
    <2>2. todo' \in Seq(S)
        BY DEF CallInv
    <2> HIDE DEF S, T
    <2>3. todo' \in Seq(T)
        BY <2>1, <2>2
    <2> QED
        BY <2>3 DEF T
<1>2. calls' \in Nat /\ failures' \in Nat
    BY BoundsAssumption DEF CallInv
<1>3. tf' # None => tf'.ips \subseteq IPs /\ \A n \in DOMAIN tf'.configs : tf'.configs[n].addr \in Address
    BY DEF StateInv
<1>4. mesh' \in [IPs -> WireGuardFile \cup {None}]
    <2>1. CASE ConfigureMesh
        <3>1. busy /\ todo # <<>> /\ Key \in KeysOf(cfg) /\ cfg.wg
            BY <2>1, AtIs DEF ConfigureMesh, At
        <3>2. mesh' = [mesh EXCEPT ![NodeAt(cfg, Key).ip] = MeshFile(Key)]
            BY <2>1 DEF ConfigureMesh
        <3> QED
            BY <1>0, <3>1, <3>2, MeshFileIs
    <2>2. CASE ~ConfigureMesh
        BY <1>0, <2>2 DEF Next, Apply, InstallK3s, Save, Fail, Destroy, vars
    <2> QED
        BY <2>1, <2>2
<1>5. name' \in [IPs -> Hosts \cup Range(PositionName) \cup {None}]
    <2>1. CASE InstallK3s
        <3>1. busy /\ todo # <<>> /\ Key \in KeysOf(cfg)
            BY <2>1, AtIs DEF InstallK3s, At
        <3>2. name' = [name EXCEPT ![NodeAt(cfg, Key).ip] = NodeName(cfg, Key)]
            BY <2>1 DEF InstallK3s
        <3>3. NodeName(cfg, Key) \in Hosts \cup Range(PositionName)
            BY <1>0, <3>1, NodeNameIs
        <3> QED
            BY <1>0, <3>2, <3>3
    <2>2. CASE ~InstallK3s
        BY <1>0, <2>2 DEF Next, Apply, ConfigureMesh, Save, Fail, Destroy, vars
    <2> QED
        BY <2>1, <2>2
<1> QED
    BY <1>0, <1>1, <1>2, <1>3, <1>4, <1>5 DEF TypeOK

-----------------------------------------------------------------------------
(* What a call leaves on the machines *)

\* The save of a call comes after its last step.
LEMMA Saved ==
    ASSUME TypeOK, CallInv, DoneInv, Save, NEW k \in KeysOf(cfg)
    PROVE  /\ cfg.wg => mesh[IpOf(k)] = MeshFile(k)
           /\ name[IpOf(k)] = NodeName(cfg, k)
<1>1. Range(<<>>) = {}
    BY DEF Range
<1>2. ~Left("mesh", k) /\ ~Left("k3s", k)
    BY <1>1 DEF Left, Save
<1> QED
    BY <1>2 DEF DoneInv, Save

\* At its end the file of a machine is that of its key.
LEMMA EntryIs ==
    ASSUME TypeOK, CallInv, DoneInv, StateInv, Save, cfg.wg, NEW k \in KeysOf(cfg)
    PROVE  /\ mesh[IpOf(k)] # None /\ EntryOf(IpOf(k)) = PeerOf(k)
           /\ mesh[IpOf(k)].key = NodeKey(k) /\ mesh[IpOf(k)].addr = NodeAddress(cfg, k)
           /\ mesh[IpOf(k)].peers = {PeerOf(j) : j \in KeysOf(cfg) \ {k}}
           /\ mesh[IpOf(k)].clients = {ClientOf(n) : n \in DOMAIN Requests(cfg)}
<1>1. mesh[IpOf(k)] = MeshFile(k)
    BY Saved
<1>2. MeshFile(k) \in WireGuardFile
    BY MeshFileIs DEF Save
<1>3. /\ MeshFile(k).key = NodeKey(k) /\ MeshFile(k).addr = NodeAddress(cfg, k)
      /\ MeshFile(k).peers = {PeerOf(j) : j \in KeysOf(cfg) \ {k}}
      /\ MeshFile(k).clients = {ClientOf(n) : n \in DOMAIN Requests(cfg)}
    BY DEF MeshFile
<1> QED
    BY <1>1, <1>2, <1>3, FileAssumption DEF EntryOf, PeerOf, IpOf

\* Every machine of the list is that of a key, and two keys have two machines.
LEMMA MachinesAre ==
    ASSUME TypeOK, CallInv, busy, ~Aliased(cfg)
    PROVE  /\ Machines = {IpOf(k) : k \in KeysOf(cfg)}
           /\ \A k, j \in KeysOf(cfg) : k # j => IpOf(k) # IpOf(j)
<1>1. cfg \in Configs /\ Valid(cfg)
    BY DEF TypeOK, CallInv
<1>2. Machines = {IpOf(k) : k \in KeysOf(cfg)}
    BY <1>1, AllMachines DEF Machines, IpOf
<1>3. \A k, j \in KeysOf(cfg) : k # j => IpOf(k) # IpOf(j)
    BY <1>1, MachinesDiffer DEF IpOf
<1> QED
    BY <1>2, <1>3

LEMMA MachinesStep ==
    ASSUME TypeOK, CallInv, DoneInv, StateInv, MachinesConfigured, [Next]_vars
    PROVE  MachinesConfigured'
<1>1. CASE Save
    <2>1. mesh' = mesh /\ cfg' = cfg /\ busy
        BY <1>1 DEF Save
    <2>2. ASSUME cfg.wg, ~Aliased(cfg)
          PROVE  /\ \A m \in Machines : mesh[m] # None /\ mesh[m].peers = {EntryOf(x) : x \in Machines \ {m}}
                 /\ \A m, x \in Machines : m # x => mesh[m].key # mesh[x].key /\ mesh[m].addr # mesh[x].addr
        <3>0. cfg \in Configs /\ Valid(cfg)
            BY <2>1 DEF TypeOK, CallInv
        <3>1. /\ Machines = {IpOf(k) : k \in KeysOf(cfg)}
              /\ \A k, j \in KeysOf(cfg) : k # j => IpOf(k) # IpOf(j)
            BY <2>1, <2>2, MachinesAre
        <3>2. \A k \in KeysOf(cfg) :
                  /\ mesh[IpOf(k)] # None /\ EntryOf(IpOf(k)) = PeerOf(k)
                  /\ mesh[IpOf(k)].key = NodeKey(k) /\ mesh[IpOf(k)].addr = NodeAddress(cfg, k)
                  /\ mesh[IpOf(k)].peers = {PeerOf(j) : j \in KeysOf(cfg) \ {k}}
            BY <1>1, <2>2, EntryIs
        <3>3. ASSUME NEW k \in KeysOf(cfg)
              PROVE  {PeerOf(j) : j \in KeysOf(cfg) \ {k}} = {EntryOf(x) : x \in Machines \ {IpOf(k)}}
            <4>1. \A j \in KeysOf(cfg) \ {k} : IpOf(j) \in Machines \ {IpOf(k)} /\ EntryOf(IpOf(j)) = PeerOf(j)
                BY <3>1, <3>2
            <4>2. \A x \in Machines \ {IpOf(k)} : \E j \in KeysOf(cfg) \ {k} : x = IpOf(j)
                BY <3>1
            <4>3. \A x \in Machines \ {IpOf(k)} : \E j \in KeysOf(cfg) \ {k} : EntryOf(x) = PeerOf(j)
                BY <4>1, <4>2
            <4> QED
                BY <4>1, <4>3
        <3>4. ASSUME NEW k \in KeysOf(cfg), NEW j \in KeysOf(cfg), k # j
              PROVE  NodeKey(k) # NodeKey(j) /\ NodeAddress(cfg, k) # NodeAddress(cfg, j)
            <4>1. NodeKey(k) \in Generations(k) /\ NodeKey(j) \in Generations(j)
                BY <2>1, NodeKeyIs
            <4>2. NodeKey(k) # NodeKey(j)
                BY <3>4, <4>1 DEF Generations
            <4> QED
                BY <3>0, <3>4, <4>2, MachinesDiffer
        <3>5. \A m \in Machines : \E k \in KeysOf(cfg) : m = IpOf(k)
            BY <3>1
        <3>6. \A m \in Machines : mesh[m] # None /\ mesh[m].peers = {EntryOf(x) : x \in Machines \ {m}}
            BY <3>2, <3>3, <3>5
        <3>7. \A m, x \in Machines : m # x => mesh[m].key # mesh[x].key /\ mesh[m].addr # mesh[x].addr
            BY <3>2, <3>4, <3>5
        <3> QED
            BY <3>6, <3>7
    <2> QED
        BY <2>1, <2>2 DEF MachinesConfigured, Machines, EntryOf
<1>2. CASE UNCHANGED vars
    BY <1>2 DEF vars, MachinesConfigured, Succeeded, Machines, EntryOf
<1>3. CASE Next /\ ~Save
    BY <1>3 DEF Next, Apply, ConfigureMesh, InstallK3s, Fail, Destroy, At, MachinesConfigured, Succeeded
<1> QED
    BY <1>1, <1>2, <1>3

LEMMA NamesStep ==
    ASSUME TypeOK, CallInv, DoneInv, NamesDistinct, [Next]_vars
    PROVE  NamesDistinct'
<1>1. CASE Save
    <2>1. name' = name /\ cfg' = cfg /\ busy
        BY <1>1 DEF Save
    <2>2. ASSUME ~Aliased(cfg), ~Renamed(cfg)
          PROVE  \A m, x \in Machines : name[m] # None /\ (m # x => name[m] # name[x])
        <3>0. cfg \in Configs /\ Valid(cfg)
            BY <2>1 DEF TypeOK, CallInv
        <3>1. Machines = {IpOf(k) : k \in KeysOf(cfg)}
            BY <2>1, <2>2, MachinesAre
        <3>2. \A k \in KeysOf(cfg) : name[IpOf(k)] = NodeName(cfg, k) /\ NodeName(cfg, k) # None
            BY <1>1, <3>0, Saved, NodeNameIs
        <3>3. ASSUME NEW k \in KeysOf(cfg), NEW j \in KeysOf(cfg), k # j
              PROVE  NodeName(cfg, k) # NodeName(cfg, j)
            <4> DEFINE p == PositionOf(cfg, k)
                       q == PositionOf(cfg, j)
            <4>1. /\ p \in DOMAIN cfg.nodes /\ q \in DOMAIN cfg.nodes /\ p # q
                  /\ p \in DOMAIN PositionName /\ q \in DOMAIN PositionName
                  /\ NodeAt(cfg, k) = cfg.nodes[p] /\ NodeAt(cfg, j) = cfg.nodes[q]
                BY <3>0, <3>3, NodesAre, PositionIs, MachinesDiffer, ListAssumption
            <4>2. PositionName[p] # PositionName[q]
                BY <4>1, ListAssumption DEF IsInjective
            <4>3. /\ NodeName(cfg, k) = IF cfg.nodes[p].host # None THEN cfg.nodes[p].host ELSE PositionName[p]
                  /\ NodeName(cfg, j) = IF cfg.nodes[q].host # None THEN cfg.nodes[q].host ELSE PositionName[q]
                BY <4>1 DEF NodeName
            <4> HIDE DEF p, q
            <4> QED
                BY <2>2, <3>0, <4>1, <4>2, <4>3 DEF Renamed, Valid, HostsDistinct
        <3> QED
            BY <3>1, <3>2, <3>3
    <2> QED
        BY <2>1, <2>2 DEF NamesDistinct, Machines
<1>2. CASE UNCHANGED vars
    BY <1>2 DEF vars, NamesDistinct, Succeeded, Machines
<1>3. CASE Next /\ ~Save
    BY <1>3 DEF Next, Apply, ConfigureMesh, InstallK3s, Fail, Destroy, At, NamesDistinct, Succeeded
<1> QED
    BY <1>1, <1>2, <1>3

\* ClientsMatch as a relation between state, files and configuration.
Matching(s, f, c) ==
    LET M == {c.nodes[i].ip : i \in DOMAIN c.nodes}
        Entry(m) == [key |-> f[m].key, addr |-> f[m].addr, endpoint |-> m]
    IN  /\ \A n \in DOMAIN s.configs : s.configs[n].peers = {Entry(m) : m \in M}
        /\ \A m \in M :
              /\ {x.client : x \in f[m].clients} = DOMAIN Requests(c)
              /\ \A x \in f[m].clients :
                    IF x.client \in DOMAIN s.configs
                    THEN s.configs[x.client].key = x.key /\ s.configs[x.client].addr = x.addr
                    ELSE x.key = GivenKey(c.peers[x.client].key)

LEMMA ClientsStep ==
    ASSUME TypeOK, CallInv, DoneInv, StateInv, ClientsMatch, [Next]_vars
    PROVE  ClientsMatch'
<1>0. /\ ClientsMatch <=> (Succeeded /\ cfg.wg /\ ~Aliased(cfg) => Matching(tf, mesh, cfg))
      /\ ClientsMatch' <=> (Succeeded' /\ cfg'.wg /\ ~Aliased(cfg') => Matching(tf', mesh', cfg'))
    BY Zenon DEF ClientsMatch, Matching, Machines, EntryOf
<1>1. CASE Save
    <2> DEFINE s == State
    <2>1. mesh' = mesh /\ cfg' = cfg /\ busy /\ tf' = s
        BY <1>1 DEF Save
    <2>2. DOMAIN s.configs = Generated(cfg) /\ \A n \in Generated(cfg) : s.configs[n] = ClientConfig(n)
        BY DEF State
    <2> HIDE DEF s
    <2>3. ASSUME cfg.wg, ~Aliased(cfg)
          PROVE  /\ \A n \in DOMAIN s.configs : s.configs[n].peers = {EntryOf(m) : m \in Machines}
                 /\ \A m \in Machines :
                       /\ {c.client : c \in mesh[m].clients} = DOMAIN Requests(cfg)
                       /\ \A c \in mesh[m].clients :
                             IF c.client \in DOMAIN s.configs
                             THEN s.configs[c.client].key = c.key /\ s.configs[c.client].addr = c.addr
                             ELSE c.key = GivenKey(cfg.peers[c.client].key)
        <3>1. Machines = {IpOf(k) : k \in KeysOf(cfg)}
            BY <2>1, <2>3, MachinesAre
        <3>2. \A k \in KeysOf(cfg) :
                  /\ EntryOf(IpOf(k)) = PeerOf(k)
                  /\ mesh[IpOf(k)].clients = {ClientOf(n) : n \in DOMAIN Requests(cfg)}
            BY <1>1, <2>3, EntryIs
        <3>3. {PeerOf(k) : k \in KeysOf(cfg)} = {EntryOf(m) : m \in Machines}
            BY <3>1, <3>2
        <3>4. \A n : /\ ClientConfig(n).key = ClientKey(n) /\ ClientConfig(n).addr = ClientAddresses(cfg)[n]
                     /\ ClientConfig(n).peers = {PeerOf(k) : k \in KeysOf(cfg)}
            BY DEF ClientConfig
        <3>5. \A n : /\ ClientOf(n).client = n /\ ClientOf(n).key = ClientKey(n)
                     /\ ClientOf(n).addr = ClientAddresses(cfg)[n]
            BY DEF ClientOf
        <3>6. \A n \in DOMAIN s.configs : s.configs[n].peers = {EntryOf(m) : m \in Machines}
            BY <2>2, <3>3, <3>4
        <3>7. ASSUME NEW m \in Machines
              PROVE  /\ {c.client : c \in mesh[m].clients} = DOMAIN Requests(cfg)
                     /\ \A c \in mesh[m].clients :
                           IF c.client \in DOMAIN s.configs
                           THEN s.configs[c.client].key = c.key /\ s.configs[c.client].addr = c.addr
                           ELSE c.key = GivenKey(cfg.peers[c.client].key)
            <4>1. mesh[m].clients = {ClientOf(n) : n \in DOMAIN Requests(cfg)}
                BY <3>1, <3>2
            <4>2. {c.client : c \in mesh[m].clients} = DOMAIN Requests(cfg)
                <5>1. \A c \in mesh[m].clients : c.client \in DOMAIN Requests(cfg)
                    BY <3>5, <4>1
                <5>2. \A n \in DOMAIN Requests(cfg) : ClientOf(n) \in mesh[m].clients /\ ClientOf(n).client = n
                    BY <3>5, <4>1
                <5> QED
                    BY <5>1, <5>2
            <4>3. ASSUME NEW n \in DOMAIN Requests(cfg)
                  PROVE  IF n \in DOMAIN s.configs
                         THEN s.configs[n].key = ClientKey(n) /\ s.configs[n].addr = ClientAddresses(cfg)[n]
                         ELSE ClientKey(n) = GivenKey(cfg.peers[n].key)
                BY <2>1, <2>2, <3>4, ClientKeyIs
            <4>4. \A c \in mesh[m].clients :
                      IF c.client \in DOMAIN s.configs
                      THEN s.configs[c.client].key = c.key /\ s.configs[c.client].addr = c.addr
                      ELSE c.key = GivenKey(cfg.peers[c.client].key)
                BY <3>5, <4>1, <4>3
            <4> QED
                BY <4>2, <4>4
        <3> QED
            BY <3>6, <3>7
    <2>4. cfg.wg /\ ~Aliased(cfg) => Matching(s, mesh, cfg)
        BY <2>3 DEF Matching, Machines, EntryOf
    <2> QED
        BY <1>0, <2>1, <2>4
<1>2. CASE UNCHANGED vars
    BY <1>0, <1>2 DEF vars, Succeeded
<1>3. CASE Next /\ ~Save
    BY <1>3 DEF Next, Apply, ConfigureMesh, InstallK3s, Fail, Destroy, At, ClientsMatch, Succeeded
<1> QED
    BY <1>1, <1>2, <1>3

LEMMA ApartStep ==
    ASSUME TypeOK, CallInv, StateInv, EntriesApart, [Next]_vars
    PROVE  EntriesApart'
<1>0. EntriesApart = \A m \in IPs : mesh[m] # None => Apart(mesh[m])
    BY DEF EntriesApart, Apart
<1>1. CASE ConfigureMesh
    <2>1. busy /\ cfg.wg /\ Key \in KeysOf(cfg) /\ mesh' = [mesh EXCEPT ![NodeAt(cfg, Key).ip] = MeshFile(Key)]
        BY <1>1, AtIs DEF ConfigureMesh, At
    <2>2. Apart(MeshFile(Key))
        BY <2>1, MeshFileApart
    <2>3. mesh \in [IPs -> WireGuardFile \cup {None}]
        BY DEF TypeOK
    <2>4. \A m \in IPs : mesh'[m] = mesh[m] \/ mesh'[m] = MeshFile(Key)
        BY <2>1, <2>3
    <2>5. \A m \in IPs : mesh'[m] # None => Apart(mesh'[m])
        BY <1>0, <2>2, <2>4
    <2> QED
        BY <2>5 DEF EntriesApart, Apart
<1>2. CASE UNCHANGED mesh
    BY <1>2 DEF EntriesApart
<1>3. ConfigureMesh \/ UNCHANGED mesh
    BY DEF Next, Apply, InstallK3s, Save, Fail, Destroy, vars
<1> QED
    BY <1>1, <1>2, <1>3

LEMMA GivenStep ==
    ASSUME TypeOK, GivenKeysNotStored, [Next]_vars
    PROVE  GivenKeysNotStored'
<1>1. CASE Save
    <2> DEFINE s == State
    <2>1. cfg' = cfg /\ tf' = s /\ cfg \in Configs
        BY <1>1 DEF Save, TypeOK
    <2>2. /\ DOMAIN s.configs = Generated(cfg)
          /\ DOMAIN s.clientKeys \subseteq Generated(cfg) \cup {Legacy}
        BY DEF State
    <2> HIDE DEF s
    <2>3. ASSUME NEW n \in DOMAIN cfg.peers, cfg.peers[n].key # None
          PROVE  n \notin Generated(cfg) /\ n # Legacy
        BY <2>1, <2>3, RequestsAre DEF Generated
    <2> QED
        BY <2>1, <2>2, <2>3 DEF GivenKeysNotStored
<1>2. CASE UNCHANGED vars
    BY <1>2 DEF vars, GivenKeysNotStored, Succeeded
<1>3. CASE Next /\ ~Save
    BY <1>3 DEF Next, Apply, ConfigureMesh, InstallK3s, Fail, Destroy, At, GivenKeysNotStored, Succeeded
<1> QED
    BY <1>1, <1>2, <1>3

-----------------------------------------------------------------------------

LEMMA InitInv == Init => Inv
<1> SUFFICES ASSUME Init
             PROVE  Inv
    OBVIOUS
<1>1. TypeOK
    <2>1. /\ todo = <<>> /\ busy = FALSE /\ cfg \in Configs /\ result = "none" /\ tf = None
          /\ mesh = [m \in IPs |-> None] /\ name = [m \in IPs |-> None] /\ calls = 0 /\ failures = 0
        BY DEF Init
    <2>2. todo \in Seq({"mesh", "k3s"} \X (IPs \cup Hosts))
        BY <2>1
    <2>3. mesh \in [IPs -> WireGuardFile \cup {None}] /\ name \in [IPs -> Hosts \cup Range(PositionName) \cup {None}]
        BY <2>1
    <2> QED
        BY <2>1, <2>2, <2>3 DEF TypeOK
<1>2. CallInv
    <2>1. Range(<<>>) = {}
        BY DEF Range
    <2> QED
        BY <2>1, BoundsAssumption DEF Init, CallInv
<1>3. DoneInv /\ StateInv
    BY DEF Init, DoneInv, StateInv
<1>4. EntriesApart /\ MachinesConfigured /\ NamesDistinct /\ ClientsMatch /\ GivenKeysNotStored
    BY DEF Init, EntriesApart, MachinesConfigured, NamesDistinct, ClientsMatch, GivenKeysNotStored, Succeeded
<1> QED
    BY <1>1, <1>2, <1>3, <1>4 DEF Inv

LEMMA InvStep == Inv /\ [Next]_vars => Inv'
<1> SUFFICES ASSUME Inv, [Next]_vars
             PROVE  Inv'
    OBVIOUS
<1>1. CallInv' /\ StateInv'
    BY CallStep, StateStep DEF Inv
<1>2. TypeOK'
    BY <1>1, TypeStep DEF Inv
<1>3. DoneInv'
    BY DoneStep DEF Inv
<1>4. EntriesApart' /\ MachinesConfigured' /\ NamesDistinct'
    BY ApartStep, MachinesStep, NamesStep DEF Inv
<1>5. ClientsMatch' /\ GivenKeysNotStored'
    BY ClientsStep, GivenStep DEF Inv
<1> QED
    BY <1>1, <1>2, <1>3, <1>4, <1>5 DEF Inv

LEMMA Invariance == Spec => []Inv
BY InitInv, InvStep, PTL DEF Spec

\* Files and names are those of machines, clients and keys that exist, and every
\* address that is written or stored is a host of the subnet (ipam.go).
THEOREM ExpansionTypeOK == Spec => []TypeOK
<1>1. Inv => TypeOK
    BY DEF Inv
<1> QED
    BY <1>1, Invariance, PTL

\* After a call that succeeded every machine of the list has a key and an address
\* of its own and exactly the other machines as peers, whatever earlier calls that
\* failed and earlier lists left on them (wireguard.go, renderNodeWireGuardConfig),
\* when no hostname is taken for the public IP of another node.
THEOREM ExpansionMachinesConfigured == Spec => []MachinesConfigured
<1>1. Inv => MachinesConfigured
    BY DEF Inv
<1> QED
    BY <1>1, Invariance, PTL

\* The WireGuard file of a machine names no address twice and no generated key
\* twice (ipam.go, wireguard.go renderNodeWireGuardConfig): explicit addresses and
\* free ones from the top never meet each other or the nodes.
THEOREM ExpansionEntriesApart == Spec => []EntriesApart
<1>1. Inv => EntriesApart
    BY DEF Inv
<1> QED
    BY <1>1, Invariance, PTL

\* After a call two machines of its list have two Kubernetes node names (models.go,
\* the node-name of a node), when no hostname is the public IP of a node without
\* one or the name the list gives that node.
THEOREM ExpansionNamesDistinct == Spec => []NamesDistinct
<1>1. Inv => NamesDistinct
    BY DEF Inv
<1> QED
    BY <1>1, Invariance, PTL

\* The client configs in state have key, address and endpoint of every machine,
\* and the machines have exactly the clients of the call as peers, with the keys
\* and addresses of these configs or the key that was given (wireguard.go,
\* models.go clusterToState), when no hostname is the public IP of another node.
THEOREM ExpansionClientsMatch == Spec => []ClientsMatch
<1>1. Inv => ClientsMatch
    BY DEF Inv
<1> QED
    BY <1>1, Invariance, PTL

\* State holds no private key and no config of a client whose public key is
\* given, also when one was generated for it before (models.go clusterToState).
THEOREM ExpansionGivenKeysNotStored == Spec => []GivenKeysNotStored
<1>1. Inv => GivenKeysNotStored
    BY DEF Inv
<1> QED
    BY <1>1, Invariance, PTL

\* The key of a client config in state does not change while the client stays
\* (wireguard.go, the keys taken from prior state).
THEOREM ExpansionGeneratedKeyKept == Spec => GeneratedKeyKept
<1> DEFINE Kept == tf # None /\ tf' # None =>
                       \A n \in DOMAIN tf.configs \cap DOMAIN tf'.configs : tf'.configs[n].key = tf.configs[n].key
<1>1. Inv /\ [Next]_vars => [Kept]_vars
    <2> SUFFICES ASSUME Inv, Next
                 PROVE  Kept
        OBVIOUS
    <2>1. CASE Save
        <3> DEFINE s == State
        <3>1. tf' = s
            BY <2>1 DEF Save
        <3>2. DOMAIN s.configs = Generated(cfg) /\ \A n \in Generated(cfg) : s.configs[n] = ClientConfig(n)
            BY DEF State
        <3> HIDE DEF s
        <3>3. \A n : ClientConfig(n).key = ClientKey(n)
            BY DEF ClientConfig
        <3>4. ASSUME tf # None, NEW n \in DOMAIN tf.configs \cap Generated(cfg)
              PROVE  ClientKey(n) = tf.configs[n].key
            BY <3>4 DEF Inv, StateInv, ClientKey, Prior
        <3> QED
            BY <3>1, <3>2, <3>3, <3>4
    <2>2. CASE ~Save
        <3>1. tf' = tf \/ tf' = None
            BY <2>2 DEF Next, Apply, ConfigureMesh, InstallK3s, Fail, Destroy
        <3> QED
            BY <3>1
    <2> QED
        BY <2>1, <2>2
<1>2. GeneratedKeyKept <=> [][Kept]_vars
    BY DEF GeneratedKeyKept
<1> QED
    BY <1>1, <1>2, Invariance, PTL DEF Spec
=============================================================================
