---------------------------------- MODULE Ipam ----------------------------------
(***************************************************************************)
(* assignWireGuardIPs (internal/provider/ipam.go): the WireGuard address   *)
(* of every node and of every admin peer.  The function is a loop over the *)
(* sorted node names followed by a loop over the sorted admin names; each  *)
(* iteration is a step here.  Names are abstracted to their positions: the *)
(* i-th node of the sorted list, the i-th admin request.                   *)
(*                                                                         *)
(* An address is a number below AddrSpace (2^32 in the code) and a subnet  *)
(* is [base, size].  Offsets are uint64 in the code: they are computed     *)
(* modulo Word (2^64 there).                                               *)
(***************************************************************************)
EXTENDS Integers, Sequences

CONSTANTS
    AddrSpace,   \* the number of IPv4 addresses
    Word,        \* the modulus of the unsigned offset arithmetic
    Subnets,     \* the subnets a configuration may name
    MaxNodes,    \* bound on the number of nodes
    MaxAdmins,   \* bound on the number of admin peers
    AutoIP,        \* an admin peer without wg_ip
    InvalidIP      \* a wg_ip that does not parse as an IPv4 address

Addr == 0 .. AddrSpace - 1
Request == Addr \cup {AutoIP, InvalidIP}

ASSUME AddressAssumption ==
    /\ AddrSpace \in Nat \ {0}
    /\ Word \in Nat
    /\ AddrSpace <= Word

\* net.ParseCIDR masks the base, so the whole block lies in the address space.
ASSUME SubnetAssumption ==
    Subnets \subseteq {s \in [base : Nat, size : Nat \ {0}] : s.base + s.size <= AddrSpace}

ASSUME BoundAssumption == MaxNodes \in Nat /\ MaxAdmins \in Nat

ASSUME RequestAssumption == AutoIP \notin Nat /\ InvalidIP \notin Nat /\ AutoIP # InvalidIP

VARIABLES
    net,      \* the parsed subnet
    nodes,    \* how many node names are passed
    reqs,     \* requestedAdminIPs, in the order of adminNames
    pc,       \* where the function is; "done", "error" and "panic" are its ends
    nodeIP,   \* out.NodeIPs, in the order of nodeNames
    adminIP   \* out.AdminIPs, in the order of adminNames

vars == <<net, nodes, reqs, pc, nodeIP, adminIP>>

\* Mutant: the broadcast address counted as usable.
UsableWithBroadcast == net.size - 1

\* (uint64(1) << (32 - ones)) - 2, which wraps around for a /32.
Usable == IF net.size >= 2 THEN net.size - 2 ELSE net.size + Word - 2

\* usable+1, the offset of the broadcast address, in the same arithmetic.
BroadcastOffset == IF Usable + 1 = Word THEN 0 ELSE Usable + 1

\* The set the code keeps in the map "used".
Used == {nodeIP[i] : i \in DOMAIN nodeIP} \cup {adminIP[i] : i \in DOMAIN adminIP}

\* addIPv4 copies the bytes of the sum into four: a fifth byte makes it panic.
Overflows(offset) == net.base + offset >= AddrSpace

InNet(a) == net.base <= a /\ a < net.base + net.size

\* Mutants: the explicit wg_ip compared with nothing handed out before, or
\* never parsed and looked up in the subnet.
AcceptableAlthoughUsed(a) ==
    a # InvalidIP /\ InNet(a) /\ a # net.base /\ a # net.base + BroadcastOffset
AcceptableUnparsed(a) ==
    a \notin Used /\ a # net.base /\ a # net.base + BroadcastOffset

\* The checks on an explicit wg_ip: the network and broadcast addresses are
\* refused, and so is every address already handed out.
Acceptable(a) ==
    /\ a # InvalidIP
    /\ InNet(a)
    /\ a \notin Used
    /\ a # net.base
    /\ a # net.base + BroadcastOffset

\* The offsets the search for a free address would accept.
FreeOffsets == {o \in 1 .. Usable : net.base + o \notin Used}

Init ==
    /\ net \in Subnets
    /\ nodes \in 1 .. MaxNodes
    /\ reqs \in UNION {[1 .. k -> Request] : k \in 0 .. MaxAdmins}
    /\ pc = "capacity"
    /\ nodeIP = <<>>
    /\ adminIP = <<>>

\* Mutant: the admin peers left out of the required addresses.
CheckNodeCapacity ==
    /\ pc = "capacity"
    /\ pc' = IF Usable < nodes THEN "error" ELSE "nodes"
    /\ UNCHANGED <<net, nodes, reqs, nodeIP, adminIP>>

\* ipam.go:27-31
CheckCapacity ==
    /\ pc = "capacity"
    /\ pc' = IF Usable < nodes + Len(reqs) THEN "error" ELSE "nodes"
    /\ UNCHANGED <<net, nodes, reqs, nodeIP, adminIP>>

\* ipam.go:34-38: node i receives the address base + i + 1.
AssignNode ==
    /\ pc = "nodes"
    /\ Len(nodeIP) < nodes
    /\ IF Overflows(Len(nodeIP) + 1)
       THEN pc' = "panic" /\ UNCHANGED nodeIP
       ELSE nodeIP' = Append(nodeIP, net.base + Len(nodeIP) + 1) /\ UNCHANGED pc
    /\ UNCHANGED <<net, nodes, reqs, adminIP>>

NodesDone ==
    /\ pc = "nodes"
    /\ Len(nodeIP) = nodes
    /\ pc' = "admins"
    /\ UNCHANGED <<net, nodes, reqs, nodeIP, adminIP>>

\* ipam.go:40-49: an explicit wg_ip is taken as it is or refused.
AssignRequested ==
    /\ pc = "admins"
    /\ Len(adminIP) < Len(reqs)
    /\ LET a == reqs[Len(adminIP) + 1]
       IN  /\ a # AutoIP
           /\ IF Acceptable(a)
              THEN adminIP' = Append(adminIP, a) /\ UNCHANGED pc
              ELSE pc' = "error" /\ UNCHANGED adminIP
    /\ UNCHANGED <<net, nodes, reqs, nodeIP>>

\* ipam.go:50-64: the search goes down from the highest usable offset and
\* stops at the first one whose address is free.
AssignAuto ==
    /\ pc = "admins"
    /\ Len(adminIP) < Len(reqs)
    /\ reqs[Len(adminIP) + 1] = AutoIP
    /\ IF Overflows(Usable) \/ FreeOffsets = {}
       THEN /\ pc' = IF Overflows(Usable) THEN "panic" ELSE "exhausted"
            /\ UNCHANGED adminIP
       ELSE /\ \E o \in FreeOffsets :
                  /\ \A other \in FreeOffsets : other <= o
                  /\ adminIP' = Append(adminIP, net.base + o)
            /\ UNCHANGED pc
    /\ UNCHANGED <<net, nodes, reqs, nodeIP>>

AdminsDone ==
    /\ pc = "admins"
    /\ Len(adminIP) = Len(reqs)
    /\ pc' = "done"
    /\ UNCHANGED <<net, nodes, reqs, nodeIP, adminIP>>

Next ==
    \/ CheckCapacity
    \/ AssignNode
    \/ NodesDone
    \/ AssignRequested
    \/ AssignAuto
    \/ AdminsDone

Spec == Init /\ [][Next]_vars

-----------------------------------------------------------------------------
(* Properties *)

Ends == {"done", "error", "panic", "exhausted"}

TypeOK ==
    /\ net \in Subnets
    /\ nodes \in 1 .. MaxNodes
    /\ reqs \in Seq(Request)
    /\ pc \in {"capacity", "nodes", "admins"} \cup Ends
    /\ nodeIP \in Seq(Nat)
    /\ adminIP \in Seq(Nat)

\* No address is handed out twice, whatever mix of nodes, explicit wg_ip and
\* automatic assignment asked for it (the map "used", ipam.go:33-63).
Distinct ==
    /\ \A i, j \in DOMAIN nodeIP : i # j => nodeIP[i] # nodeIP[j]
    /\ \A i, j \in DOMAIN adminIP : i # j => adminIP[i] # adminIP[j]
    /\ \A i \in DOMAIN nodeIP, j \in DOMAIN adminIP : nodeIP[i] # adminIP[j]

\* Every address handed out is a host of the subnet, neither its network nor
\* its broadcast address, for every subnet larger than a /32.  The bound on
\* the nodes comes from the capacity check made once, before both loops.
HostsOnly ==
    net.size >= 2 => \A a \in Used : net.base < a /\ a < net.base + net.size - 1

\* The error "no free IP available" (ipam.go:59-61) is unreachable: the
\* capacity check leaves a free address for every automatic admin peer, even
\* when the explicit ones before it took the highest addresses.
NeverExhausted == pc # "exhausted"
===============================================================================
