------------------------------ MODULE IpamProofs ------------------------------
(***************************************************************************)
(* Proofs about assignWireGuardIPs for every address space, every set of   *)
(* subnets, every number of nodes and every list of admin requests.        *)
(***************************************************************************)
EXTENDS Ipam, FiniteSetTheorems, TLAPS

\* What both loops keep: node i has the i-th address of the subnet, and the
\* capacity checked once covers the nodes assigned so far.
NodesInOrder ==
    /\ Len(nodeIP) <= nodes
    /\ \A i \in DOMAIN nodeIP : nodeIP[i] = net.base + i
    /\ pc = "capacity" => nodeIP = <<>>
    /\ pc \in {"capacity", "nodes"} => adminIP = <<>>

CapacityHeld ==
    pc # "capacity" /\ nodeIP # <<>> => nodes + Len(reqs) <= Usable

CapacityChecked ==
    pc = "nodes" => nodes + Len(reqs) <= Usable

AdminsApart ==
    /\ \A i, j \in DOMAIN adminIP : i # j => adminIP[i] # adminIP[j]
    /\ \A i \in DOMAIN nodeIP, j \in DOMAIN adminIP : nodeIP[i] # adminIP[j]

AdminsAreHosts ==
    net.size >= 2 =>
        \A j \in DOMAIN adminIP : net.base < adminIP[j] /\ adminIP[j] < net.base + net.size - 1

IInv ==
    /\ TypeOK
    /\ NodesInOrder
    /\ CapacityHeld
    /\ CapacityChecked
    /\ AdminsApart
    /\ AdminsAreHosts

-----------------------------------------------------------------------------
\* A subnet is a block of natural numbers.
LEMMA SubnetType ==
    ASSUME TypeOK
    PROVE  net.base \in Nat /\ net.size \in Nat \ {0} /\ Usable \in Int /\ (net.size >= 2 => Usable = net.size - 2)
BY SubnetAssumption, AddressAssumption DEF TypeOK, Usable

LEMMA InitInv == Init => IInv
<1> SUFFICES ASSUME Init PROVE IInv
    OBVIOUS
<1>1. TypeOK
    <2>1. PICK k \in 0 .. MaxAdmins : reqs \in [1 .. k -> Request]
        BY DEF Init
    <2>2. reqs \in Seq(Request)
        BY <2>1, BoundAssumption
    <2> QED
        BY <2>2 DEF Init, TypeOK, Ends
<1> QED
    BY <1>1, BoundAssumption DEF Init, IInv, NodesInOrder, CapacityHeld, CapacityChecked, AdminsApart, AdminsAreHosts, TypeOK

\* An admin address that is unused and a host keeps the invariant: the step
\* common to the explicit and the automatic case.
LEMMA AppendAdmin ==
    ASSUME IInv, NEW a \in Nat, a \notin Used, pc = "admins",
           net.size >= 2 => net.base < a /\ a < net.base + net.size - 1,
           adminIP' = Append(adminIP, a),
           UNCHANGED <<net, nodes, reqs, pc, nodeIP>>
    PROVE  IInv'
<1> USE DEF IInv
<1>1. TypeOK'
    BY DEF TypeOK
<1>2. NodesInOrder' /\ CapacityHeld' /\ CapacityChecked'
    BY DEF NodesInOrder, CapacityHeld, CapacityChecked, Usable, TypeOK
<1>3. AdminsApart'
    <2>1. \A j \in DOMAIN adminIP : adminIP[j] # a
        BY DEF Used
    <2>2. \A i \in DOMAIN nodeIP : nodeIP[i] # a
        BY DEF Used
    <2>3. /\ DOMAIN adminIP' = DOMAIN adminIP \cup {Len(adminIP) + 1}
          /\ adminIP'[Len(adminIP) + 1] = a
          /\ \A j \in DOMAIN adminIP : adminIP'[j] = adminIP[j]
          /\ Len(adminIP) + 1 \notin DOMAIN adminIP
        BY DEF TypeOK
    <2> QED
        BY <2>1, <2>2, <2>3 DEF AdminsApart
<1>4. AdminsAreHosts'
    BY DEF AdminsAreHosts, TypeOK
<1> QED
    BY <1>1, <1>2, <1>3, <1>4

LEMMA StepInv == IInv /\ [Next]_vars => IInv'
<1> SUFFICES ASSUME IInv, [Next]_vars PROVE IInv'
    OBVIOUS
<1> USE DEF IInv
<1>a. /\ net.base \in Nat
      /\ net.size \in Nat \ {0}
      /\ Usable \in Int
      /\ net.size >= 2 => Usable = net.size - 2
    BY SubnetType
<1>1. CASE CheckCapacity
    BY <1>1, <1>a DEF CheckCapacity, TypeOK, NodesInOrder, CapacityHeld, CapacityChecked, AdminsApart, AdminsAreHosts, Usable, Ends
<1>2. CASE AssignNode
    <2>1. CASE Overflows(Len(nodeIP) + 1)
        BY <1>2, <2>1 DEF AssignNode, TypeOK, NodesInOrder, CapacityHeld, CapacityChecked, AdminsApart, AdminsAreHosts, Usable, Ends
    <2>2. CASE ~Overflows(Len(nodeIP) + 1)
        <3>1. /\ nodeIP' = Append(nodeIP, net.base + Len(nodeIP) + 1)
              /\ UNCHANGED <<net, nodes, reqs, pc, adminIP>>
              /\ pc = "nodes"
              /\ Len(nodeIP) < nodes
            BY <1>2, <2>2 DEF AssignNode
        <3>2. TypeOK'
            BY <3>1, <1>a DEF TypeOK
        <3>3. NodesInOrder'
            <4>1. /\ DOMAIN nodeIP' = DOMAIN nodeIP \cup {Len(nodeIP) + 1}
                  /\ Len(nodeIP') = Len(nodeIP) + 1
                  /\ nodeIP'[Len(nodeIP) + 1] = net.base + (Len(nodeIP) + 1)
                  /\ \A i \in DOMAIN nodeIP : nodeIP'[i] = nodeIP[i]
                <5>1. Len(nodeIP) \in Nat /\ nodeIP \in Seq(Nat)
                    BY DEF TypeOK
                <5>2. net.base + Len(nodeIP) + 1 \in Nat
                    BY <5>1, <1>a
                <5> DEFINE e == net.base + Len(nodeIP) + 1
                <5>3. nodeIP' = Append(nodeIP, e) /\ e \in Nat
                    BY <3>1, <5>2
                <5>4. e = net.base + (Len(nodeIP) + 1)
                    <6>1. \A a, b \in Nat : a + b + 1 = a + (b + 1)
                        OBVIOUS
                    <6> QED
                        BY <6>1, <5>1, <1>a DEF e
                <5> HIDE DEF e
                <5> QED
                    BY <5>1, <5>3, <5>4
            <4>2. Len(nodeIP) + 1 <= nodes
                BY <3>1, <1>a DEF TypeOK
            <4>3. \A i \in DOMAIN nodeIP' : nodeIP'[i] = net'.base + i
                BY <4>1, <3>1 DEF NodesInOrder
            <4> QED
                BY <4>1, <4>2, <4>3, <3>1 DEF NodesInOrder
        <3>4. CapacityHeld' /\ CapacityChecked'
            BY <3>1 DEF CapacityHeld, CapacityChecked, Usable
        <3>5. AdminsApart' /\ AdminsAreHosts'
            BY <3>1 DEF NodesInOrder, AdminsApart, AdminsAreHosts
        <3> QED
            BY <3>2, <3>3, <3>4, <3>5
    <2> QED
        BY <2>1, <2>2
<1>3. CASE NodesDone
    BY <1>3 DEF NodesDone, TypeOK, NodesInOrder, CapacityHeld, CapacityChecked, AdminsApart, AdminsAreHosts, Usable, Ends
<1>4. CASE AssignRequested
    <2> DEFINE a == reqs[Len(adminIP) + 1]
    <2>1. a \in Request /\ a # AutoIP
        BY <1>4 DEF AssignRequested, TypeOK
    <2>2. CASE Acceptable(a)
        <3>1. a \in Nat /\ a \notin Used
            BY <2>1, <2>2, AddressAssumption DEF Acceptable, Request, Addr
        <3>2. net.size >= 2 => net.base < a /\ a < net.base + net.size - 1
            <4> SUFFICES ASSUME net.size >= 2
                         PROVE  net.base < a /\ a < net.base + net.size - 1
                OBVIOUS
            <4>1. BroadcastOffset = net.size - 1
                BY <1>a, SubnetAssumption, AddressAssumption DEF BroadcastOffset, TypeOK
            <4>2. /\ net.base <= a
                  /\ a < net.base + net.size
                  /\ a # net.base
                  /\ a # net.base + BroadcastOffset
                BY <2>2 DEF Acceptable, InNet
            <4> HIDE DEF a
            <4> QED
                BY <4>1, <4>2, <3>1, <1>a
        <3>3. /\ adminIP' = Append(adminIP, a)
              /\ UNCHANGED <<net, nodes, reqs, pc, nodeIP>>
              /\ pc = "admins"
            BY <1>4, <2>2 DEF AssignRequested
        <3> QED
            BY <3>1, <3>2, <3>3, AppendAdmin
    <2>3. CASE ~Acceptable(a)
        BY <1>4, <2>3 DEF AssignRequested, TypeOK, NodesInOrder, CapacityHeld, CapacityChecked, AdminsApart, AdminsAreHosts, Usable, Ends
    <2> QED
        BY <2>2, <2>3
<1>5. CASE AssignAuto
    <2>1. CASE Overflows(Usable) \/ FreeOffsets = {}
        BY <1>5, <2>1 DEF AssignAuto, TypeOK, NodesInOrder, CapacityHeld, CapacityChecked, AdminsApart, AdminsAreHosts, Usable, Ends
    <2>2. CASE ~(Overflows(Usable) \/ FreeOffsets = {})
        <3>1. PICK o \in FreeOffsets : adminIP' = Append(adminIP, net.base + o)
            BY <1>5, <2>2 DEF AssignAuto
        <3>2. o \in 1 .. Usable /\ net.base + o \notin Used
            BY DEF FreeOffsets
        <3>3. net.base + o \in Nat
            BY <3>2, <1>a
        <3>4. net.size >= 2 => net.base < net.base + o /\ net.base + o < net.base + net.size - 1
            BY <3>2, <1>a
        <3>5. pc = "admins" /\ UNCHANGED <<net, nodes, reqs, pc, nodeIP>>
            BY <1>5, <2>2 DEF AssignAuto
        <3> QED
            BY <3>1, <3>2, <3>3, <3>4, <3>5, AppendAdmin
    <2> QED
        BY <2>1, <2>2
<1>6. CASE AdminsDone
    BY <1>6 DEF AdminsDone, TypeOK, NodesInOrder, CapacityHeld, CapacityChecked, AdminsApart, AdminsAreHosts, Usable, Ends
<1>7. CASE UNCHANGED vars
    BY <1>7 DEF vars, TypeOK, NodesInOrder, CapacityHeld, CapacityChecked, AdminsApart, AdminsAreHosts, Usable
<1> QED
    BY <1>1, <1>2, <1>3, <1>4, <1>5, <1>6, <1>7 DEF Next

LEMMA Inductive == Spec => []IInv
BY InitInv, StepInv, PTL DEF Spec

\* Every variable of the assignment keeps its type.
THEOREM IpamTypeOK == Spec => []TypeOK
<1>1. IInv => TypeOK
    BY DEF IInv
<1> QED
    BY <1>1, Inductive, PTL

\* No two peers of the mesh ever receive the same address (ipam.go:33-63).
THEOREM IpamDistinct == Spec => []Distinct
<1>1. IInv => Distinct
    <2> SUFFICES ASSUME IInv PROVE Distinct
        OBVIOUS
    <2>1. net.base \in Nat
        BY SubnetType DEF IInv
    <2>2. \A i, j \in DOMAIN nodeIP : i # j => nodeIP[i] # nodeIP[j]
        BY <2>1 DEF IInv, NodesInOrder, TypeOK
    <2> QED
        BY <2>2 DEF IInv, AdminsApart, Distinct
<1> QED
    BY <1>1, Inductive, PTL

\* In every subnet larger than a /32 only host addresses are handed out: the
\* capacity check before the loops (ipam.go:27-31) bounds the node addresses.
THEOREM IpamHostsOnly == Spec => []HostsOnly
<1>1. IInv => HostsOnly
    <2> SUFFICES ASSUME IInv, net.size >= 2, NEW a \in Used
                 PROVE  net.base < a /\ a < net.base + net.size - 1
        BY DEF HostsOnly
    <2>a. net.base \in Nat /\ net.size \in Nat /\ Usable = net.size - 2
        BY SubnetType DEF IInv
    <2>1. CASE \E i \in DOMAIN nodeIP : a = nodeIP[i]
        <3>1. PICK i \in DOMAIN nodeIP : a = net.base + i
            BY <2>1 DEF IInv, NodesInOrder
        <3>2. i \in Nat /\ 1 <= i /\ i <= nodes /\ nodes \in Nat
            BY BoundAssumption DEF IInv, NodesInOrder, TypeOK
        <3>3. nodes <= Usable
            <4>1. Len(reqs) \in Nat /\ nodes \in Nat /\ nodeIP # <<>>
                BY DEF IInv, TypeOK
            <4>2. pc # "capacity"
                BY <4>1 DEF IInv, NodesInOrder
            <4>3. nodes + Len(reqs) <= Usable
                BY <4>1, <4>2 DEF IInv, CapacityHeld
            <4> QED
                BY <4>1, <4>3, <2>a
        <3> QED
            BY <3>1, <3>2, <3>3, <2>a
    <2>2. CASE \E j \in DOMAIN adminIP : a = adminIP[j]
        BY <2>2 DEF IInv, AdminsAreHosts
    <2> QED
        BY <2>1, <2>2 DEF Used
<1> QED
    BY <1>1, Inductive, PTL

-----------------------------------------------------------------------------
(* The search for a free address *)

\* What the search relies on: an admin peer is still to be served, and the
\* capacity check counted it.
Room ==
    /\ Len(adminIP) <= Len(reqs)
    /\ pc = "admins" => Len(nodeIP) = nodes /\ nodes + Len(reqs) <= Usable
    /\ pc # "exhausted"

\* With fewer addresses handed out than there are hosts, one of them is free.
LEMMA SomeOffsetFree ==
    ASSUME IInv, Len(nodeIP) + Len(adminIP) < Usable
    PROVE  FreeOffsets # {}
<1> SUFFICES ASSUME FreeOffsets = {}
             PROVE  FALSE
    OBVIOUS
<1>1. PICK n, m \in Nat : n = Len(nodeIP) /\ m = Len(adminIP)
    BY DEF IInv, TypeOK
<1>2. PICK base \in Nat, u \in Nat : base = net.base /\ u = Usable /\ n + m < u
    <2>1. net.base \in Nat /\ Usable \in Int
        BY SubnetType DEF IInv
    <2>2. n + m < Usable
        BY <1>1, Zenon
    <2> HIDE DEF Usable
    <2>3. PICK u \in Int : u = Usable
        BY <2>1
    <2>4. n + m < u
        BY <2>2, <2>3
    <2>5. u \in Nat
        BY <2>4
    <2> QED
        BY <2>1, <2>3, <2>4, <2>5, Zenon
<1> DEFINE Has(k, o) == (k <= n /\ nodeIP[k] = base + o) \/ (k > n /\ adminIP[k - n] = base + o)
           f == [o \in 1 .. u |-> CHOOSE k \in 1 .. n + m : Has(k, o)]
<1>3. ASSUME NEW o \in 1 .. u
      PROVE  \E k \in 1 .. n + m : Has(k, o)
    <2>1. base + o \in Used
        BY <1>2 DEF FreeOffsets
    <2>2. (\E i \in 1 .. n : nodeIP[i] = base + o) \/ (\E j \in 1 .. m : adminIP[j] = base + o)
        BY <1>1, <2>1 DEF Used, IInv, TypeOK
    <2>3. ASSUME NEW i \in 1 .. n, nodeIP[i] = base + o
          PROVE  \E k \in 1 .. n + m : Has(k, o)
        BY <2>3
    <2>4. ASSUME NEW j \in 1 .. m, adminIP[j] = base + o
          PROVE  \E k \in 1 .. n + m : Has(k, o)
        <3>1. n + j \in 1 .. n + m /\ n + j > n /\ (n + j) - n = j
            OBVIOUS
        <3> QED
            BY <2>4, <3>1
    <2> QED
        BY <2>2, <2>3, <2>4
<1> HIDE DEF Has
<1>4. \A o \in 1 .. u : f[o] \in 1 .. n + m /\ Has(f[o], o)
    BY <1>3
<1>5. f \in [1 .. u -> 1 .. n + m]
    BY <1>4
<1> HIDE DEF f
<1>6. /\ IsFiniteSet(1 .. u) /\ Cardinality(1 .. u) = u
      /\ IsFiniteSet(1 .. n + m) /\ Cardinality(1 .. n + m) = n + m
    <2>1. n + m \in Nat /\ 1 \in Int
        OBVIOUS
    <2>2. \A b \in Nat : IsFiniteSet(1 .. b) /\ Cardinality(1 .. b) = b
        BY FS_Interval
    <2> QED
        BY <2>1, <2>2, Zenon
<1>7. PICK x, y \in 1 .. u : x # y /\ f[x] = f[y]
    BY <1>2, <1>5, <1>6, FS_PigeonHole
<1>8. PICK k \in 1 .. n + m : Has(k, x) /\ Has(k, y)
    BY <1>4, <1>7
<1>9. base + x = base + y
    <2>1. CASE k <= n
        <3>1. nodeIP[k] = base + x /\ nodeIP[k] = base + y
            BY <1>8, <2>1 DEF Has
        <3> QED
            BY <3>1, Zenon
    <2>2. CASE k > n
        <3>1. adminIP[k - n] = base + x /\ adminIP[k - n] = base + y
            BY <1>8, <2>2 DEF Has
        <3> QED
            BY <3>1, Zenon
    <2> QED
        BY <2>1, <2>2
<1> QED
    BY <1>7, <1>9

LEMMA RoomStep == IInv /\ Room /\ [Next]_vars => Room'
<1> SUFFICES ASSUME IInv, Room, [Next]_vars
             PROVE  Room'
    OBVIOUS
<1>0. /\ nodes \in Nat /\ Len(nodeIP) \in Nat /\ Len(adminIP) \in Nat /\ Len(reqs) \in Nat /\ Usable \in Int
    BY SubnetType, BoundAssumption DEF IInv, TypeOK
<1>1. CASE CheckCapacity
    BY <1>1 DEF CheckCapacity, Room, Usable
<1>2. CASE AssignNode
    BY <1>2 DEF AssignNode, Room, Usable
<1>3. CASE NodesDone
    BY <1>3 DEF NodesDone, Room, IInv, CapacityChecked, Usable
<1>4. ASSUME NEW a, pc = "admins", Len(adminIP) < Len(reqs), adminIP' = Append(adminIP, a), a \in Nat,
             UNCHANGED <<net, nodes, reqs, pc, nodeIP>>
      PROVE  Room'
    <2>1. Len(adminIP') = Len(adminIP) + 1
        BY <1>4 DEF IInv, TypeOK
    <2>2. Len(adminIP') <= Len(reqs')
        BY <1>0, <1>4, <2>1
    <2> QED
        BY <1>4, <2>2 DEF Room, Usable
<1>5. CASE AssignRequested
    <2> DEFINE a == reqs[Len(adminIP) + 1]
    <2>1. CASE Acceptable(a)
        <3>1. a \in Nat
            BY <1>5, <2>1, AddressAssumption DEF AssignRequested, Acceptable, Request, Addr, IInv, TypeOK
        <3>2. /\ pc = "admins" /\ Len(adminIP) < Len(reqs) /\ adminIP' = Append(adminIP, a)
              /\ UNCHANGED <<net, nodes, reqs, pc, nodeIP>>
            BY <1>5, <2>1 DEF AssignRequested
        <3> HIDE DEF a
        <3> QED
            BY <1>4, <3>1, <3>2
    <2>2. CASE ~Acceptable(a)
        BY <1>5, <2>2 DEF AssignRequested, Room, Usable
    <2> QED
        BY <2>1, <2>2
<1>6. CASE AssignAuto
    <2>1. FreeOffsets # {}
        <3>1. Len(nodeIP) + Len(adminIP) < Usable
            <4>1. Len(nodeIP) = nodes /\ nodes + Len(reqs) <= Usable /\ Len(adminIP) < Len(reqs)
                BY <1>6 DEF AssignAuto, Room
            <4> HIDE DEF Usable
            <4> QED
                BY <1>0, <4>1
        <3> QED
            BY <3>1, SomeOffsetFree
    <2>2. CASE Overflows(Usable)
        BY <1>6, <2>2 DEF AssignAuto, Room, Usable
    <2>3. CASE ~Overflows(Usable)
        <3>1. PICK o \in FreeOffsets : adminIP' = Append(adminIP, net.base + o)
            BY <1>6, <2>1, <2>3 DEF AssignAuto
        <3>2. net.base + o \in Nat
            BY SubnetType DEF FreeOffsets, IInv
        <3>3. pc = "admins" /\ Len(adminIP) < Len(reqs) /\ UNCHANGED <<net, nodes, reqs, pc, nodeIP>>
            BY <1>6, <2>1, <2>3 DEF AssignAuto
        <3> QED
            BY <1>4, <3>1, <3>2, <3>3
    <2> QED
        BY <2>2, <2>3
<1>7. CASE AdminsDone
    BY <1>7 DEF AdminsDone, Room, Usable
<1>8. CASE UNCHANGED vars
    BY <1>8 DEF vars, Room, Usable
<1> QED
    BY <1>1, <1>2, <1>3, <1>5, <1>6, <1>7, <1>8 DEF Next

\* The error "no free IP available" (ipam.go:59-61) is unreachable: the capacity
\* check leaves a free address for every automatic admin peer.
THEOREM IpamNeverExhausted == Spec => []NeverExhausted
<1>1. Init => Room
    BY DEF Init, Room
<1>2. Room => NeverExhausted
    BY DEF Room, NeverExhausted
<1> QED
    BY <1>1, <1>2, RoomStep, Inductive, PTL DEF Spec
===============================================================================
