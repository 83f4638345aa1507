------------------------- MODULE ClusterResourceProofs -------------------------
(***************************************************************************)
(* Proofs about the resource for every set of nodes and configurations, and *)
(* any number of calls, failures, reboots and token rotations.              *)
(***************************************************************************)
EXTENDS ClusterResource, FiniteSetTheorems, TLAPS

\* What a step of a call relies on and the step before it established.
CallShape ==
    /\ phase # "idle" => cfg \in Expanded
    /\ Busy => cfg.plan.servers # {} /\ op \in {"create", "update"}
    /\ phase = "activate" => \A n \in Nodes : Turn(n) => wgFile[n] = MeshOf(cfg)
    /\ phase = "start" => \A n \in Nodes : Turn(n) => k3sFile[n] = RenderK3sConfig(cfg, n)

TypeInv == TypeOK /\ CallShape

-----------------------------------------------------------------------------
(* Operators *)

\* Every set of servers has a first one.
LEMMA FirstServerIsServer ==
    ASSUME NEW c \in Config, c.servers # {}
    PROVE  FirstServer(c) \in c.servers /\ FirstServer(c) \in Nodes
<1>1. c.servers \subseteq Nat /\ c.servers \subseteq Nodes
    BY NodesAssumption DEF Config
<1>2. \E n \in c.servers : \A m \in c.servers : n <= m
    BY <1>1, NodesAssumption
<1>3. FirstServer(c) \in c.servers
    BY <1>2 DEF FirstServer
<1> QED
    BY <1>1, <1>3

LEMMA RankType ==
    ASSUME NEW S \in SUBSET Nodes, NEW n
    PROVE  Rank(S, n) \in Nat
<1>1. {m \in S : m <= n} \in SUBSET Nodes
    OBVIOUS
<1>2. IsFiniteSet({m \in S : m <= n})
    BY <1>1, NodesAssumption, FS_Subset
<1> QED
    BY <1>2, FS_CardinalityType DEF Rank

LEMMA RenderType ==
    ASSUME NEW x \in Expanded, x.plan.servers # {}, NEW n \in Nodes
    PROVE  RenderK3sConfig(x, n) \in K3sConfig
<1>1. x.plan \in Config /\ x.token \in Token /\ x.plan.opts \in Opts /\ x.plan.wg \in BOOLEAN
      /\ x.plan.nodes \in SUBSET Nodes
    BY DEF Expanded, Config
<1>2. FirstServer(x.plan) \in Nodes
    BY <1>1, FirstServerIsServer
<1>3. \A m \in Nodes : AddressOf(x.plan, m) \in Address
    BY <1>1, RankType, NodesAssumption DEF AddressOf, Address
<1>4. RoleOf(x.plan, n) \in Roles
    BY DEF RoleOf, Roles
<1> QED
    BY <1>1, <1>2, <1>3, <1>4 DEF RenderK3sConfig, K3sConfig

LEMMA MeshType ==
    ASSUME NEW x \in Expanded
    PROVE  MeshOf(x) \in Mesh
BY DEF MeshOf, Mesh, Expanded, Config

LEMMA UpType ==
    ASSUME NEW file \in Mesh, NEW n
    PROVE  Up(file, n) \in Interface
<1>1. file.nodes \in SUBSET Nodes
    BY DEF Mesh
<1>2. \A m : Rank(file.nodes, m) \in Nat
    BY <1>1, RankType
<1> QED
    BY <1>2 DEF Up, Interface

LEMMA ExpandType ==
    ASSUME TypeOK, NEW c \in Config, NEW fresh \in Nat
    PROVE  ExpandClusterConfig(c, fresh) \in Expanded
<1>1. PriorToken \in Token \cup {NoToken} /\ PriorKeys \in Keys
    BY DEF TypeOK, PriorToken, PriorKeys, Saved, Keys
<1>2. c.token \in Tokens \cup {NoToken} /\ c.wg \in BOOLEAN
    BY DEF Config
<1>3. ResolveToken(c.token, PriorToken, fresh) \in Token
    BY <1>1, <1>2 DEF ResolveToken, Token
<1>4. ResolveKeys(c, PriorKeys, fresh) \in Keys
    <2> SUFFICES ASSUME NEW n \in Nodes
                 PROVE  ResolveKeys(c, PriorKeys, fresh)[n] \in Nat
        BY DEF ResolveKeys, Keys
    <2> QED
        BY <1>1, <1>2 DEF ResolveKeys, Keys
<1> QED
    BY <1>3, <1>4 DEF ExpandClusterConfig, Expanded

\* A valid plan has a server.
LEMMA ValidPlanHasServer ==
    ASSUME NEW c \in Config, ValidPlan(c)
    PROVE  c.servers # {}
BY FS_EmptySet DEF ValidPlan

\* Ending a call makes every phase condition void.
LEMMA EndCallShape ==
    ASSUME NEW r, EndCall(r)
    PROVE  CallShape'
BY DEF EndCall, CallShape, Busy

\* The nodes left after one is finished, and the phases that follow.
LEMMA AdvanceType ==
    ASSUME TypeOK, cfg \in Expanded, NEW n \in Nodes, NEW here, NEW next, Advance(n, here, next)
    PROVE  todo' \in SUBSET Nodes /\ phase' \in {here, next}
BY DEF Advance, TypeOK, Expanded, Config

LEMMA AfterMeshType ==
    ASSUME cfg \in Expanded
    PROVE  AfterMesh \in {"firewall", "install"}
BY DEF AfterMesh

-----------------------------------------------------------------------------
(* Types *)

LEMMA TypeInit == Init => TypeInv
<1> SUFFICES ASSUME Init PROVE TypeInv
    OBVIOUS
<1>1. TypeOK
    <2>1. tf \in Saved \cup {Absent} /\ cfg \in Expanded \cup {Absent}
        BY DEF Init
    <2>2. /\ wgFile \in [Nodes -> Mesh \cup {Absent}]
          /\ wgLive \in [Nodes -> Interface \cup {Absent, Stopped}]
          /\ k3sFile \in [Nodes -> K3sConfig \cup {Absent}]
        BY DEF Init
    <2>3. unit \in [Nodes -> [Roles -> K3sConfig \cup {Absent, Stopped}]]
        BY DEF Init
    <2>4. member \in [Nodes -> Nodes \cup {0}] /\ secret \in [Nodes -> Token \cup {NoToken}]
        BY DEF Init
    <2> QED
        BY <2>1, <2>2, <2>3, <2>4 DEF Init, TypeOK
<1>2. CallShape
    BY DEF Init, CallShape, Busy
<1> QED
    BY <1>1, <1>2 DEF TypeInv

\* What a server that starts leaves in the datastores.
LEMMA JoinsType ==
    ASSUME TypeOK, NEW n \in Nodes, NEW conf \in K3sConfig, Joins(n, conf)
    PROVE  member' \in [Nodes -> Nodes \cup {0}] /\ secret' \in [Nodes -> Token \cup {NoToken}]
<1>1. conf.server \in Nodes /\ conf.token \in Token
    BY DEF K3sConfig
<1>2. member[n] \in Nodes \cup {0} /\ member[conf.server] \in Nodes \cup {0}
    BY <1>1 DEF TypeOK
<1> DEFINE cluster == CASE member[n] # 0 -> member[n]
                       [] Founds(n, conf) -> n
                       [] OTHER -> member[conf.server]
<1>3. cluster \in Nodes \cup {0}
    BY <1>2 DEF Founds
<1>4. member' = [member EXCEPT ![n] = cluster]
    BY DEF Joins
<1> HIDE DEF cluster
<1>5. member' \in [Nodes -> Nodes \cup {0}]
    BY <1>3, <1>4 DEF TypeOK
<1>6. secret' \in [Nodes -> Token \cup {NoToken}]
    BY <1>1 DEF Joins, TypeOK
<1> QED
    BY <1>5, <1>6

LEMMA TypeStep == TypeInv /\ [Next]_vars => TypeInv'
<1> SUFFICES ASSUME TypeInv, [Next]_vars PROVE TypeInv'
    OBVIOUS
<1> USE DEF TypeInv
<1>a. TypeOK /\ CallShape
    OBVIOUS
<1>1. ASSUME NEW c \in Configs, NEW known \in TokenKnown, Apply(c, known)
      PROVE  TypeInv'
    <2>1. c \in Config /\ c.servers # {} /\ c.nodes \in SUBSET Nodes
        BY <1>1, ConfigAssumption, ValidPlanHasServer DEF Apply, Config
    <2>2. run + 1 \in Nat
        BY DEF TypeOK
    <2>3. cfg' \in Expanded /\ cfg'.plan = c
        BY <1>1, <2>1, <2>2, ExpandType DEF Apply, ExpandClusterConfig
    <2>4. warned' \in BOOLEAN
        BY <1>1 DEF Apply, TokenRotates
    <2>5. TypeOK'
        BY <1>1, <2>1, <2>2, <2>3, <2>4 DEF Apply, TypeOK, wireguard, k3s
    <2>6. CallShape'
        BY <1>1, <2>1, <2>3 DEF Apply, CallShape, Busy
    <2> QED
        BY <2>5, <2>6
<1>2. ASSUME NEW n \in Nodes, PrepareNode(n)
      PROVE  TypeInv'
    <2>1. cfg \in Expanded /\ AfterMesh \in {"firewall", "install"}
        BY <1>2, AfterMeshType DEF PrepareNode, CallShape
    <2>2. todo' \in SUBSET Nodes /\ phase' \in {"prepare", "firewall", "install"}
        BY <1>2, <2>1, AdvanceType DEF PrepareNode
    <2> QED
        BY <1>2, <2>1, <2>2 DEF PrepareNode, TypeOK, CallShape, Busy, wireguard, k3s
<1>3. ASSUME NEW n \in Nodes, UploadWireGuard(n)
      PROVE  TypeInv'
    <2>1. cfg \in Expanded /\ MeshOf(cfg) \in Mesh
        BY <1>3, MeshType DEF UploadWireGuard, CallShape
    <2>2. TypeOK'
        BY <1>3, <2>1 DEF UploadWireGuard, TypeOK, k3s
    <2>3. \A m \in Nodes : Turn(m)' => m = n
        BY <1>3, NodesAssumption DEF UploadWireGuard, Turn
    <2>4. wgFile'[n] = MeshOf(cfg)'
        BY <1>3 DEF UploadWireGuard, TypeOK, MeshOf
    <2>5. CallShape'
        BY <1>3, <2>1, <2>3, <2>4 DEF UploadWireGuard, CallShape, Busy
    <2> QED
        BY <2>2, <2>5
<1>4. ASSUME NEW n \in Nodes, ActivateWireGuard(n)
      PROVE  TypeInv'
    <2>1. cfg \in Expanded /\ wgFile[n] = MeshOf(cfg) /\ wgFile[n] \in Mesh
        BY <1>4, MeshType DEF ActivateWireGuard, CallShape
    <2>2. todo' \in SUBSET Nodes /\ phase' \in {"prepare", "check"}
        BY <1>4, <2>1, AdvanceType DEF ActivateWireGuard
    <2>3. Up(wgFile[n], n) \in Interface
        BY <2>1, UpType
    <2>4. ~NeedsRestart(wgLive[n], Rank(cfg.plan.nodes, n)) =>
              [wgLive[n] EXCEPT !.mesh = wgFile[n]] \in Interface
        BY <2>1 DEF NeedsRestart, TypeOK, Interface
    <2>5. wgLive' \in [Nodes -> Interface \cup {Absent, Stopped}]
        BY <1>4, <2>3, <2>4 DEF ActivateWireGuard, TypeOK
    <2>6. TypeOK'
        BY <1>4, <2>2, <2>5 DEF ActivateWireGuard, TypeOK, k3s
    <2>7. CallShape'
        BY <1>4, <2>1, <2>2 DEF ActivateWireGuard, CallShape, Busy
    <2> QED
        BY <2>6, <2>7
<1>5. ASSUME NEW n \in Nodes, CheckNode(n)
      PROVE  TypeInv'
    <2>1. CASE \A m \in cfg.plan.nodes \ {n} : Reaches(n, m)
        <3>1. cfg \in Expanded /\ AfterMesh \in {"firewall", "install"}
            BY <1>5, AfterMeshType DEF CheckNode, CallShape
        <3>2. todo' \in SUBSET Nodes /\ phase' \in {"check", "firewall", "install"}
            BY <1>5, <2>1, <3>1, AdvanceType DEF CheckNode
        <3> QED
            BY <1>5, <2>1, <3>1, <3>2 DEF CheckNode, TypeOK, CallShape, Busy, wireguard, k3s
    <2>2. CASE ~ \A m \in cfg.plan.nodes \ {n} : Reaches(n, m)
        BY <1>5, <2>2, EndCallShape DEF CheckNode, EndCall, TypeOK, wireguard, k3s
    <2> QED
        BY <2>1, <2>2
<1>6. ASSUME NEW n \in Nodes, FirewallNode(n)
      PROVE  TypeInv'
    <2>1. cfg \in Expanded
        BY <1>6 DEF FirewallNode, CallShape
    <2>2. todo' \in SUBSET Nodes /\ phase' \in {"firewall", "install"}
        BY <1>6, <2>1, AdvanceType DEF FirewallNode
    <2>3. TypeOK'
        BY <1>6, <2>1, <2>2 DEF FirewallNode, TypeOK, wireguard, k3s
    <2>4. CallShape'
        BY <1>6, <2>1, <2>2 DEF FirewallNode, CallShape, Busy
    <2> QED
        BY <2>3, <2>4
<1>7. ASSUME NEW n \in Nodes, WriteK3sConfig(n)
      PROVE  TypeInv'
    <2>1. cfg \in Expanded /\ RenderK3sConfig(cfg, n) \in K3sConfig
        BY <1>7, RenderType DEF WriteK3sConfig, CallShape, Busy
    <2>2. TypeOK'
        BY <1>7, <2>1 DEF WriteK3sConfig, TypeOK, wireguard
    <2>3. \A m \in Nodes : Turn(m)' => m = n
        BY <1>7, NodesAssumption DEF WriteK3sConfig, Turn
    <2>4. k3sFile'[n] = RenderK3sConfig(cfg, n) /\ cfg' = cfg
        BY <1>7 DEF WriteK3sConfig, TypeOK
    <2>5. CallShape'
        BY <1>7, <2>1, <2>3, <2>4 DEF WriteK3sConfig, CallShape, Busy
    <2> QED
        BY <2>2, <2>5
<1>8. ASSUME NEW n \in Nodes, StartK3s(n)
      PROVE  TypeInv'
    <2> DEFINE r == RoleOf(cfg.plan, n)
    <2> DEFINE conf == k3sFile[n]
    <2>1. cfg \in Expanded /\ cfg.plan.servers # {} /\ phase = "start" /\ Turn(n)
        BY <1>8 DEF StartK3s, CallShape, Busy
    <2>2. conf \in K3sConfig
        BY <2>1, RenderType DEF CallShape
    <2>3. r \in Roles
        BY DEF RoleOf, Roles
    <2>4. CASE LeavesAlone(n, r)
        <3>1. /\ Advance(n, "install", "finish")
              /\ UNCHANGED <<tf, op, cfg, same, warned, result, unit, member, secret, wireguard, k3sFile, run, events>>
            BY <1>8, <2>4 DEF StartK3s
        <3>2. todo' \in SUBSET Nodes /\ phase' \in {"install", "finish"}
            BY <2>1, <3>1, AdvanceType
        <3> QED
            BY <2>1, <3>1, <3>2 DEF TypeOK, CallShape, Busy, wireguard
    <2>5. CASE ~LeavesAlone(n, r) /\ CanStart(n, r, conf)
        <3>1. /\ unit' = [unit EXCEPT ![n][r] = conf]
              /\ IF r = "server" THEN Joins(n, conf) ELSE UNCHANGED <<member, secret>>
              /\ Advance(n, "install", "finish")
              /\ UNCHANGED <<tf, op, cfg, same, warned, result, wireguard, k3sFile, run, events>>
            BY <1>8, <2>5 DEF StartK3s
        <3> HIDE DEF r, conf
        <3>2. todo' \in SUBSET Nodes /\ phase' \in {"install", "finish"}
            BY <2>1, <3>1, AdvanceType
        <3>3. unit' \in [Nodes -> [Roles -> K3sConfig \cup {Absent, Stopped}]]
            BY <2>2, <2>3, <3>1 DEF TypeOK
        <3>4. member' \in [Nodes -> Nodes \cup {0}] /\ secret' \in [Nodes -> Token \cup {NoToken}]
            BY <2>2, <3>1, JoinsType DEF TypeOK
        <3>5. TypeOK'
            BY <3>1, <3>2, <3>3, <3>4 DEF TypeOK, wireguard
        <3>6. CallShape'
            BY <2>1, <3>1, <3>2 DEF CallShape, Busy
        <3> QED
            BY <3>5, <3>6
    <2>6. CASE ~LeavesAlone(n, r) /\ ~CanStart(n, r, conf)
        <3>1. /\ unit' = [unit EXCEPT ![n][r] = Stopped]
              /\ EndCall("error")
              /\ UNCHANGED <<tf, member, secret, wireguard, k3sFile, run, events>>
            BY <1>8, <2>6 DEF StartK3s
        <3> HIDE DEF r, conf
        <3>2. unit' \in [Nodes -> [Roles -> K3sConfig \cup {Absent, Stopped}]]
            BY <2>3, <3>1 DEF TypeOK
        <3> QED
            BY <3>1, <3>2, EndCallShape DEF EndCall, TypeOK, wireguard
    <2> QED
        BY <2>4, <2>5, <2>6
<1>9. ASSUME NEW n \in Nodes, StopNode(n)
      PROVE  TypeInv'
    <2>1. cfg \in Expanded
        BY <1>9 DEF StopNode, CallShape
    <2>2. todo' \in SUBSET Nodes /\ phase' \in {"delete", "remove"}
        BY <1>9, <2>1, AdvanceType DEF StopNode
    <2>3. unit' \in [Nodes -> [Roles -> K3sConfig \cup {Absent, Stopped}]]
        BY <1>9 DEF StopNode, TypeOK, StopUnit
    <2>4. wgLive' \in [Nodes -> Interface \cup {Absent, Stopped}]
        BY <1>9 DEF StopNode, TypeOK, StopUnit
    <2>5. TypeOK'
        BY <1>9, <2>2, <2>3, <2>4 DEF StopNode, TypeOK
    <2>6. CallShape'
        BY <1>9, <2>1, <2>2 DEF StopNode, CallShape, Busy
    <2> QED
        BY <2>5, <2>6
<1>10. CASE Finish
    <2>1. cfg \in Expanded
        BY <1>10 DEF Finish, CallShape
    <2>2. [cfg.plan EXCEPT !.sorted = TRUE] \in Config
        BY <2>1 DEF Expanded, Config
    <2>3. tf' \in Saved
        BY <1>10, <2>1, <2>2 DEF Finish, Saved, Expanded, Config
    <2> QED
        BY <1>10, <2>3, EndCallShape DEF Finish, EndCall, TypeOK, wireguard, k3s
<1>11. CASE RemoveResource
    BY <1>11, EndCallShape DEF RemoveResource, EndCall, TypeOK, wireguard, k3s
<1>12. CASE Destroy
    <2>1. tf \in Saved /\ tf.plan \in Config /\ tf.plan.nodes \in SUBSET Nodes
        BY <1>12 DEF Destroy, TypeOK, Saved, Config
    <2>2. cfg' \in Expanded
        BY <1>12, <2>1, ExpandType DEF Destroy, TypeOK
    <2>3. TypeOK'
        BY <1>12, <2>1, <2>2 DEF Destroy, TypeOK, wireguard, k3s
    <2>4. CallShape'
        BY <1>12, <2>2 DEF Destroy, CallShape, Busy
    <2> QED
        BY <2>3, <2>4
<1>13. CASE Failure
    <2>1. EndCall("error") /\ events' = events + 1 /\ UNCHANGED <<tf, wireguard, k3s, run>>
        BY <1>13 DEF Failure, Happens
    <2>2. events' \in Nat /\ tf' \in Saved \cup {Absent} /\ run' \in Nat
        BY <2>1 DEF TypeOK
    <2>3. TypeOK'
        BY <2>1, <2>2 DEF EndCall, TypeOK, wireguard, k3s
    <2> QED
        BY <2>1, <2>3, EndCallShape
<1>14. ASSUME NEW n \in Nodes, SkipNode(n)
       PROVE  TypeInv'
    <2>1. cfg \in Expanded
        BY <1>14 DEF SkipNode, CallShape
    <2>2. todo' \in SUBSET Nodes /\ phase' \in {"delete", "remove"}
        BY <1>14, <2>1, AdvanceType DEF SkipNode
    <2> QED
        BY <1>14, <2>1, <2>2 DEF SkipNode, Happens, TypeOK, CallShape, Busy, wireguard, k3s
<1>15. ASSUME NEW n \in Nodes, Reboot(n)
       PROVE  TypeInv'
    <2> DEFINE conf == k3sFile[n]
    <2> DEFINE up(r) == unit[n][r] # Absent /\ conf # Absent /\ CanStart(n, r, conf)
    <2>1. conf \in K3sConfig \cup {Absent}
        BY DEF TypeOK
    <2>2. /\ unit' = [unit EXCEPT ![n] = [r \in Roles |-> IF up(r) THEN conf ELSE StopUnit(@[r])]]
          /\ IF up("server") THEN Joins(n, conf) ELSE UNCHANGED <<member, secret>>
        BY <1>15 DEF Reboot
    <2>3. \A r \in Roles : up(r) => conf \in K3sConfig
        BY <2>1
    <2> HIDE DEF conf
    <2>4. [r \in Roles |-> IF up(r) THEN conf ELSE StopUnit(unit[n][r])]
              \in [Roles -> K3sConfig \cup {Absent, Stopped}]
        BY <2>3 DEF StopUnit
    <2>5. up("server") => conf \in K3sConfig
        BY <2>3 DEF Roles
    <2> HIDE DEF up
    <2>6. unit' \in [Nodes -> [Roles -> K3sConfig \cup {Absent, Stopped}]]
        BY <2>2, <2>4 DEF TypeOK
    <2>7. member' \in [Nodes -> Nodes \cup {0}] /\ secret' \in [Nodes -> Token \cup {NoToken}]
        BY <2>2, <2>5, JoinsType DEF TypeOK
    <2>8. wgLive' \in [Nodes -> Interface \cup {Absent, Stopped}]
        <3>1. wgFile[n] # Absent => Up(wgFile[n], n) \in Interface
            BY UpType DEF TypeOK
        <3>2. wgLive' = [wgLive EXCEPT ![n] =
                  IF @ = Absent \/ wgFile[n] = Absent THEN @ ELSE Up(wgFile[n], n)]
            BY <1>15 DEF Reboot
        <3> QED
            BY <3>1, <3>2 DEF TypeOK
    <2>9. TypeOK'
        BY <1>15, <2>6, <2>7, <2>8 DEF Reboot, Happens, TypeOK, call
    <2>10. CallShape'
        <3>1. UNCHANGED <<phase, todo, cfg, op, wgFile, k3sFile>>
            BY <1>15 DEF Reboot, call
        <3> QED
            BY <3>1 DEF CallShape, Busy, Turn, MeshOf, RenderK3sConfig
    <2> QED
        BY <2>9, <2>10
<1>16. ASSUME NEW n \in Nodes, NEW t \in Tokens, RotateToken(n, t)
       PROVE  TypeInv'
    <2>1. secret' \in [Nodes -> Token \cup {NoToken}]
        BY <1>16 DEF RotateToken, TypeOK, Token
    <2>2. TypeOK'
        BY <1>16, <2>1 DEF RotateToken, Happens, TypeOK, call, wireguard
    <2>3. CallShape'
        BY <1>16 DEF RotateToken, CallShape, Busy, call, wireguard
    <2> QED
        BY <2>2, <2>3
<1>17. CASE UNCHANGED vars
    <2>1. TypeOK'
        BY <1>17 DEF vars, TypeOK, call, wireguard, k3s
    <2>2. CallShape'
        BY <1>17 DEF vars, CallShape, Busy, Turn, MeshOf, RenderK3sConfig, call, wireguard, k3s
    <2> QED
        BY <2>1, <2>2
<1> QED
    BY <1>1, <1>2, <1>3, <1>4, <1>5, <1>6, <1>7, <1>8, <1>9, <1>10, <1>11, <1>12, <1>13, <1>14, <1>15, <1>16, <1>17
       DEF Next, ProviderStep, UserStep, Event

LEMMA TypeInvariant == Spec => []TypeInv
BY TypeInit, TypeStep, PTL DEF Spec

\* Every variable keeps its type, through failures, reboots and rotations.
THEOREM ClusterTypeOK == Spec => []TypeOK
<1>1. TypeInv => TypeOK
    BY DEF TypeInv
<1> QED
    BY <1>1, TypeInvariant, PTL

-----------------------------------------------------------------------------
(* The mesh *)

MeshReady(n) == wgFile[n] = MeshOf(cfg) /\ InMesh(cfg, n)

ReachesAll(n) == \A m \in cfg.plan.nodes \ {n} : Reaches(n, m)

\* MeshAgreement is what is left of this once the first phases are over: until
\* then the nodes already visited are ready, those already checked reach the
\* others, and the rest may be anything.
MeshInv ==
    /\ phase = "activate" => cfg.plan.wg
    /\ Busy /\ cfg.plan.wg =>
          \A n \in cfg.plan.nodes :
              /\ (phase \in {"prepare", "activate"} /\ n \in todo) \/ MeshReady(n)
              /\ phase \in {"prepare", "activate"} \/ (phase = "check" /\ n \in todo) \/ ReachesAll(n)

\* An interface that comes up from the file of the call is in its mesh, and
\* has a route to every other address.
LEMMA UpMesh ==
    ASSUME NEW n
    PROVE  /\ Up(MeshOf(cfg), n).mesh = MeshOf(cfg)
           /\ Up(MeshOf(cfg), n).addr = Rank(cfg.plan.nodes, n)
           /\ \A m \in cfg.plan.nodes \ {n} : Rank(cfg.plan.nodes, m) \in Up(MeshOf(cfg), n).routes
BY DEF Up, MeshOf

\* A step that leaves the mesh and its part of the call alone.
LEMMA MeshUnchanged ==
    ASSUME MeshInv, UNCHANGED <<cfg, wgFile, wgLive>>, Busy,
           phase \notin {"prepare", "activate", "check"}, phase' \notin {"prepare", "activate", "check"}
    PROVE  MeshInv'
BY DEF MeshInv, MeshReady, InMesh, ReachesAll, Reaches, MeshOf

\* No call is under way after the step.
LEMMA MeshIdle ==
    ASSUME phase' \in {"idle", "delete", "remove"}
    PROVE  MeshInv'
BY DEF MeshInv, Busy

LEMMA MeshStep == TypeInv /\ MeshInv /\ [Next]_vars => MeshInv'
<1> SUFFICES ASSUME TypeInv, MeshInv, [Next]_vars PROVE MeshInv'
    OBVIOUS
<1>1. ASSUME NEW c \in Configs, NEW known \in TokenKnown, Apply(c, known)
      PROVE  MeshInv'
    <2>1. phase' = "prepare" /\ todo' = c.nodes /\ cfg'.plan = c
        BY <1>1 DEF Apply, ExpandClusterConfig
    <2> QED
        BY <2>1 DEF MeshInv
<1>2. ASSUME NEW n \in Nodes, PrepareNode(n)
      PROVE  MeshInv'
    <2>1. ~cfg.plan.wg /\ cfg' = cfg /\ phase' \in {"prepare", AfterMesh} /\ phase = "prepare"
        BY <1>2 DEF PrepareNode, Advance
    <2> QED
        BY <2>1 DEF MeshInv, AfterMesh
<1>3. ASSUME NEW n \in Nodes, UploadWireGuard(n)
      PROVE  MeshInv'
    <2>1. /\ phase = "prepare" /\ phase' = "activate" /\ cfg.plan.wg
          /\ UNCHANGED <<todo, cfg, wgLive>>
          /\ wgFile' = [wgFile EXCEPT ![n] = MeshOf(cfg)]
          /\ n \in todo
        BY <1>3 DEF UploadWireGuard, Turn
    <2>2. \A m \in cfg.plan.nodes : m \notin todo => MeshReady(m)'
        BY <2>1 DEF MeshInv, Busy, MeshReady, InMesh, MeshOf
    <2> QED
        BY <2>1, <2>2 DEF MeshInv
<1>4. ASSUME NEW n \in Nodes, ActivateWireGuard(n)
      PROVE  MeshInv'
    <2>1. /\ phase = "activate" /\ cfg.plan.wg /\ cfg \in Expanded /\ wgFile[n] = MeshOf(cfg)
          /\ UNCHANGED <<cfg, wgFile>>
        BY <1>4 DEF ActivateWireGuard, TypeInv, CallShape, MeshInv
    <2> DEFINE addr == Rank(cfg.plan.nodes, n)
    <2>2. wgLive' = [wgLive EXCEPT ![n] = IF NeedsRestart(@, addr) THEN Up(MeshOf(cfg), n)
                                          ELSE [@ EXCEPT !.mesh = MeshOf(cfg)]]
        BY <1>4, <2>1 DEF ActivateWireGuard
    <2>3. wgLive'[n] \in Interface /\ wgLive'[n].mesh = MeshOf(cfg) /\ wgLive'[n].addr = addr
        <3>1. MeshOf(cfg) \in Mesh
            BY <2>1, MeshType
        <3>2. CASE NeedsRestart(wgLive[n], addr)
            BY <2>2, <3>1, <3>2, UpType, UpMesh DEF TypeInv, TypeOK
        <3>3. CASE ~NeedsRestart(wgLive[n], addr)
            <4>1. wgLive[n] \in Interface /\ wgLive[n].addr = addr
                BY <3>3 DEF NeedsRestart, TypeInv, TypeOK
            <4>2. wgLive'[n] = [wgLive[n] EXCEPT !.mesh = MeshOf(cfg)]
                BY <2>2, <3>3 DEF TypeInv, TypeOK
            <4> QED
                BY <3>1, <4>1, <4>2 DEF Interface
        <3> QED
            BY <3>2, <3>3
    <2>4. \A m \in Nodes \ {n} : wgLive'[m] = wgLive[m]
        BY <2>2 DEF TypeInv, TypeOK
    <2>5. MeshReady(n)'
        BY <2>1, <2>3, NullAssumption DEF MeshReady, InMesh, MeshOf
    <2>6. \A m \in cfg.plan.nodes : m \notin todo => MeshReady(m)'
        <3> SUFFICES ASSUME NEW m \in cfg.plan.nodes, m \notin todo PROVE MeshReady(m)'
            OBVIOUS
        <3>1. MeshReady(m)
            BY <2>1 DEF MeshInv, Busy
        <3>2. m # n
            BY <1>4 DEF ActivateWireGuard, Turn
        <3>3. wgLive'[m] = wgLive[m]
            BY <2>1, <2>4, <3>2 DEF Expanded, Config
        <3> QED
            BY <3>1, <3>3, <2>1 DEF MeshReady, InMesh, MeshOf
    <2>7. \/ todo = {n} /\ phase' = "check" /\ todo' = cfg.plan.nodes
          \/ phase' = "prepare" /\ todo' = todo \ {n}
        BY <1>4 DEF ActivateWireGuard, Advance
    <2> QED
        BY <2>1, <2>5, <2>6, <2>7 DEF MeshInv
<1>5. ASSUME NEW n \in Nodes, CheckNode(n)
      PROVE  MeshInv'
    <2>1. CASE ~ \A m \in cfg.plan.nodes \ {n} : Reaches(n, m)
        BY <1>5, <2>1, MeshIdle DEF CheckNode, EndCall
    <2>2. CASE \A m \in cfg.plan.nodes \ {n} : Reaches(n, m)
        <3>1. /\ phase = "check" /\ UNCHANGED <<cfg, wgFile, wgLive>>
              /\ \/ todo = {n} /\ phase' = AfterMesh
                 \/ phase' = "check" /\ todo' = todo \ {n}
            BY <1>5, <2>2 DEF CheckNode, Advance, wireguard
        <3>2. \A m \in Nodes : (MeshReady(m) => MeshReady(m)') /\ (ReachesAll(m) => ReachesAll(m)')
            BY <3>1 DEF MeshReady, InMesh, ReachesAll, Reaches, MeshOf
        <3>3. ReachesAll(n)
            BY <2>2 DEF ReachesAll
        <3>4. cfg.plan.nodes \subseteq Nodes
            BY <3>1 DEF TypeInv, CallShape, Expanded, Config
        <3> QED
            BY <3>1, <3>2, <3>3, <3>4 DEF MeshInv, AfterMesh, Busy
    <2> QED
        BY <2>1, <2>2
<1>6. ASSUME NEW n \in Nodes, FirewallNode(n)
      PROVE  MeshInv'
    <2>1. phase' \in {"firewall", "install"}
        BY <1>6 DEF FirewallNode, Advance
    <2> QED
        BY <1>6, <2>1, MeshUnchanged DEF FirewallNode, Busy, wireguard
<1>7. ASSUME NEW n \in Nodes, WriteK3sConfig(n)
      PROVE  MeshInv'
    BY <1>7, MeshUnchanged DEF WriteK3sConfig, Busy, wireguard
<1>8. ASSUME NEW n \in Nodes, StartK3s(n)
      PROVE  MeshInv'
    <2>1. phase = "start" /\ UNCHANGED <<wgFile, wgLive>>
        BY <1>8 DEF StartK3s, wireguard
    <2>2. phase' = "idle" \/ (cfg' = cfg /\ phase' \in {"install", "finish"})
        BY <1>8 DEF StartK3s, Advance, EndCall
    <2> QED
        BY <2>1, <2>2, MeshUnchanged, MeshIdle DEF Busy
<1>9. ASSUME NEW n \in Nodes, StopNode(n)
      PROVE  MeshInv'
    <2>1. phase' \in {"delete", "remove"}
        BY <1>9 DEF StopNode, Advance
    <2> QED
        BY <2>1, MeshIdle
<1>10. CASE Finish
    BY <1>10, MeshIdle DEF Finish, EndCall
<1>11. CASE RemoveResource
    BY <1>11, MeshIdle DEF RemoveResource, EndCall
<1>12. CASE Destroy
    BY <1>12, MeshIdle DEF Destroy
<1>13. CASE Failure
    BY <1>13, MeshIdle DEF Failure, EndCall
<1>14. ASSUME NEW n \in Nodes, SkipNode(n)
       PROVE  MeshInv'
    <2>1. phase' \in {"delete", "remove"}
        BY <1>14 DEF SkipNode, Advance
    <2> QED
        BY <2>1, MeshIdle
<1>15. ASSUME NEW n \in Nodes, Reboot(n)
       PROVE  MeshInv'
    <2>1. UNCHANGED <<phase, todo, cfg, wgFile>>
        BY <1>15 DEF Reboot, call
    <2>2. wgLive' = [wgLive EXCEPT ![n] =
              IF @ = Absent \/ wgFile[n] = Absent THEN @ ELSE Up(wgFile[n], n)]
        BY <1>15 DEF Reboot
    <2>3. MeshReady(n) => wgLive'[n] = Up(MeshOf(cfg), n) /\ Up(MeshOf(cfg), n) \in Interface
        <3>1. wgFile[n] \in Mesh \cup {Absent}
            BY DEF TypeInv, TypeOK
        <3>2. MeshReady(n) => wgFile[n] # Absent
            BY NullAssumption DEF MeshReady, InMesh, TypeInv, TypeOK, Interface
        <3> QED
            BY <2>2, <3>1, <3>2, UpType DEF MeshReady, InMesh, TypeInv, TypeOK
    <2>4. \A m \in Nodes \ {n} : wgLive'[m] = wgLive[m]
        BY <2>2 DEF TypeInv, TypeOK
    <2>5. \A m \in Nodes : MeshReady(m) => MeshReady(m)'
        <3> SUFFICES ASSUME NEW m \in Nodes, MeshReady(m) PROVE MeshReady(m)'
            OBVIOUS
        <3>1. CASE m # n
            BY <2>1, <2>4, <3>1 DEF MeshReady, InMesh, MeshOf
        <3>2. CASE m = n
            BY <2>1, <2>3, <3>2, UpMesh, NullAssumption DEF MeshReady, InMesh, MeshOf
        <3> QED
            BY <3>1, <3>2
    <2>6. ASSUME NEW m \in cfg.plan.nodes, NEW p \in cfg.plan.nodes \ {m}, m \in Nodes, p \in Nodes,
                 MeshReady(m), MeshReady(p), Reaches(m, p)
          PROVE  Reaches(m, p)'
        <3>1. CASE n \notin {m, p}
            BY <2>1, <2>4, <2>6, <3>1 DEF Reaches
        <3>2. /\ wgLive[m].mesh = MeshOf(cfg) /\ wgLive[m].addr = Rank(cfg.plan.nodes, m)
              /\ wgLive[p].mesh = MeshOf(cfg) /\ wgLive[p].addr = Rank(cfg.plan.nodes, p)
            BY <2>6 DEF MeshReady, InMesh
        <3>3. CASE n = m
            <4>1. wgLive'[m] = Up(MeshOf(cfg), m) /\ wgLive'[m] \notin {Absent, Stopped} /\ wgLive'[p] = wgLive[p]
                BY <2>3, <2>4, <2>6, <3>3, NullAssumption
            <4> QED
                BY <2>1, <2>6, <3>2, <4>1, UpMesh DEF Reaches
        <3>4. CASE n = p
            <4>1. wgLive'[p] = Up(MeshOf(cfg), p) /\ wgLive'[p] \notin {Absent, Stopped} /\ wgLive'[m] = wgLive[m]
                BY <2>3, <2>4, <2>6, <3>4, NullAssumption
            <4> QED
                BY <2>1, <2>6, <3>2, <4>1, UpMesh DEF Reaches
        <3> QED
            BY <3>1, <3>3, <3>4
    <2>7. Busy => cfg.plan.nodes \subseteq Nodes
        BY DEF TypeInv, CallShape, Busy, Expanded, Config
    <2>8. CASE Busy /\ cfg.plan.wg
        <3>1. ASSUME NEW m \in cfg.plan.nodes
              PROVE  /\ (phase \in {"prepare", "activate"} /\ m \in todo) \/ MeshReady(m)'
                     /\ phase \in {"prepare", "activate"} \/ (phase = "check" /\ m \in todo) \/ ReachesAll(m)'
            <4>1. m \in Nodes
                BY <2>7, <2>8
            <4>2. (phase \in {"prepare", "activate"} /\ m \in todo) \/ MeshReady(m)'
                BY <2>5, <2>8, <4>1 DEF MeshInv
            <4>3. ASSUME phase \notin {"prepare", "activate"}, ReachesAll(m)
                  PROVE  ReachesAll(m)'
                <5>1. \A p \in cfg.plan.nodes : p \in Nodes /\ MeshReady(p)
                    BY <2>7, <2>8, <4>3 DEF MeshInv
                <5>2. \A p \in cfg.plan.nodes \ {m} : Reaches(m, p)'
                    BY <2>6, <4>3, <5>1 DEF ReachesAll
                <5> QED
                    BY <2>1, <5>2 DEF ReachesAll
            <4> QED
                BY <2>8, <4>2, <4>3 DEF MeshInv
        <3> QED
            BY <2>1, <2>8, <3>1 DEF MeshInv
    <2> QED
        BY <2>1, <2>8 DEF MeshInv, Busy
<1>16. ASSUME NEW n \in Nodes, NEW t \in Tokens, RotateToken(n, t)
       PROVE  MeshInv'
    BY <1>16, MeshIdle DEF RotateToken, call
<1>17. CASE UNCHANGED vars
    BY <1>17 DEF vars, call, wireguard, MeshInv, Busy, MeshReady, InMesh, ReachesAll, Reaches, MeshOf
<1> QED
    BY <1>1, <1>2, <1>3, <1>4, <1>5, <1>6, <1>7, <1>8, <1>9, <1>10, <1>11, <1>12, <1>13, <1>14, <1>15, <1>16, <1>17
       DEF Next, ProviderStep, UserStep, Event

LEMMA MeshInvariant == Spec => []MeshInv
<1>1. Init => MeshInv
    BY DEF Init, MeshInv, Busy
<1> QED
    BY <1>1, MeshStep, TypeInvariant, PTL DEF Spec

\* K3s is only ever installed over a complete mesh: every node is up with the
\* address and the keys of the call and reaches every other, whatever failed,
\* was skipped or rebooted before (cluster_resource.go:144-177,
\* wireguard.go:42-118).
THEOREM ClusterMeshAgreement == Spec => []MeshAgreement
<1>1. MeshInv => MeshAgreement
    BY DEF MeshInv, MeshAgreement, MeshReady, ReachesAll, Busy
<1> QED
    BY <1>1, MeshInvariant, PTL

-----------------------------------------------------------------------------
(***************************************************************************)
(* The keys of the mesh and the keys in Terraform state.  A call that fails  *)
(* leaves keys on the nodes that are saved nowhere; this is the proof that   *)
(* they never contradict the saved ones.                                     *)
(***************************************************************************)

\* Every node of the mesh that is in x is known by the key it has in x.
AgreesWith(mesh, x) ==
    \A m \in mesh.nodes \cap x.plan.nodes : mesh.keys[m] = x.keys[m]

HasKeys(x) == x.plan.wg => \A m \in x.plan.nodes : x.keys[m] # 0

\* The invariant of a resource in state that has a mesh: the call under way,
\* and the file and the interface of each of its nodes, agree with it.
KeysKept ==
    tf # Absent /\ tf.plan.wg =>
        /\ Busy /\ cfg.plan.wg => AgreesWith(MeshOf(cfg), tf)
        /\ \A n \in tf.plan.nodes :
              /\ wgFile[n] # Absent => AgreesWith(wgFile[n], tf)
              /\ wgLive[n] \notin {Absent, Stopped} => AgreesWith(wgLive[n].mesh, tf)

\* Keys are only read back from state where they are not empty.
KeyInv ==
    /\ tf # Absent => HasKeys(tf)
    /\ Busy => HasKeys(cfg)
    /\ KeysKept

-----------------------------------------------------------------------------
\* A key in state is read back, a missing one is generated (models.go:379-388).
LEMMA ExpandKeepsKeys ==
    ASSUME TypeOK, tf # Absent => HasKeys(tf), NEW c \in Config, NEW fresh \in Nat \ {0}
    PROVE  LET x == ExpandClusterConfig(c, fresh)
           IN  /\ HasKeys(x)
               /\ tf # Absent /\ tf.plan.wg /\ c.wg => AgreesWith(MeshOf(x), tf)
<1> DEFINE x == ExpandClusterConfig(c, fresh)
<1>1. x.plan = c /\ x.keys = ResolveKeys(c, PriorKeys, fresh) /\ c.nodes \subseteq Nodes
    BY DEF ExpandClusterConfig, Config
<1>2. \A m \in c.nodes : c.wg => x.keys[m] = IF PriorKeys[m] # 0 THEN PriorKeys[m] ELSE fresh
    BY <1>1 DEF ResolveKeys
<1>3. HasKeys(x)
    BY <1>1, <1>2 DEF HasKeys
<1>4. ASSUME tf # Absent, tf.plan.wg, c.wg PROVE AgreesWith(MeshOf(x), tf)
    <2>1. \A m \in tf.plan.nodes : tf.keys[m] # 0
        BY <1>4 DEF HasKeys
    <2>2. PriorKeys = tf.keys
        BY <1>4 DEF PriorKeys
    <2>3. MeshOf(x).nodes = c.nodes /\ MeshOf(x).keys = x.keys
        BY <1>1 DEF MeshOf
    <2> QED
        BY <1>2, <1>4, <2>1, <2>2, <2>3 DEF AgreesWith
<1> QED
    BY <1>3, <1>4

\* A step that leaves state, keys and mesh alone, whatever else it does.
LEMMA KeysUnchanged ==
    ASSUME KeyInv, UNCHANGED <<tf, wgFile, wgLive>>, Busy' => Busy /\ cfg' = cfg
    PROVE  KeyInv'
BY DEF KeyInv, KeysKept, AgreesWith, HasKeys, MeshOf

\* A step that changes what one node has to something that agrees.
LEMMA KeysOnNode ==
    ASSUME TypeOK, KeyInv, NEW n \in Nodes, UNCHANGED tf, Busy' => Busy /\ cfg' = cfg,
           \A m \in Nodes \ {n} : wgFile'[m] = wgFile[m] /\ wgLive'[m] = wgLive[m],
           tf # Absent /\ tf.plan.wg /\ n \in tf.plan.nodes =>
               /\ wgFile'[n] # Absent => AgreesWith(wgFile'[n], tf)
               /\ wgLive'[n] \notin {Absent, Stopped} => AgreesWith(wgLive'[n].mesh, tf)
    PROVE  KeyInv'
<1>1. tf # Absent => tf.plan.nodes \subseteq Nodes
    BY DEF TypeOK, Saved, Config
<1>2. ASSUME tf # Absent, tf.plan.wg, NEW m \in tf.plan.nodes
      PROVE  /\ wgFile'[m] # Absent => AgreesWith(wgFile'[m], tf)
             /\ wgLive'[m] \notin {Absent, Stopped} => AgreesWith(wgLive'[m].mesh, tf)
    <2>1. CASE m = n
        BY <1>2, <2>1
    <2>2. CASE m # n
        BY <1>1, <1>2, <2>2 DEF KeyInv, KeysKept
    <2> QED
        BY <2>1, <2>2
<1>3. Busy' /\ (cfg.plan.wg)' /\ tf # Absent /\ tf.plan.wg => AgreesWith(MeshOf(cfg'), tf)
    BY DEF KeyInv, KeysKept
<1> QED
    BY <1>2, <1>3 DEF KeyInv, KeysKept, HasKeys, AgreesWith, MeshOf

LEMMA KeyStep == TypeInv /\ MeshInv /\ KeyInv /\ [Next]_vars => KeyInv'
<1> SUFFICES ASSUME TypeInv, MeshInv, KeyInv, [Next]_vars PROVE KeyInv'
    OBVIOUS
<1>a. TypeOK
    BY DEF TypeInv
<1>1. ASSUME NEW c \in Configs, NEW known \in TokenKnown, Apply(c, known)
      PROVE  KeyInv'
    <2>1. c \in Config /\ run + 1 \in Nat \ {0}
        BY <1>1, <1>a, ConfigAssumption DEF TypeOK
    <2>2. cfg' = ExpandClusterConfig(c, run + 1) /\ cfg'.plan = c /\ UNCHANGED <<tf, wgFile, wgLive>>
        BY <1>1 DEF Apply, ExpandClusterConfig, wireguard
    <2>3. /\ HasKeys(cfg')
          /\ tf # Absent /\ tf.plan.wg /\ c.wg => AgreesWith(MeshOf(cfg'), tf)
        BY <1>a, <2>1, <2>2, ExpandKeepsKeys DEF KeyInv
    <2> QED
        BY <2>2, <2>3 DEF KeyInv, KeysKept, HasKeys, AgreesWith, MeshOf
<1>2. ASSUME NEW n \in Nodes, PrepareNode(n)
      PROVE  KeyInv'
    BY <1>2, KeysUnchanged DEF PrepareNode, Busy, wireguard
<1>3. ASSUME NEW n \in Nodes, UploadWireGuard(n)
      PROVE  KeyInv'
    <2>1. /\ Busy /\ cfg.plan.wg /\ UNCHANGED <<tf, cfg, wgLive>>
          /\ wgFile' = [wgFile EXCEPT ![n] = MeshOf(cfg)]
        BY <1>3 DEF UploadWireGuard, Busy
    <2>2. wgFile'[n] = MeshOf(cfg) /\ \A m \in Nodes \ {n} : wgFile'[m] = wgFile[m]
        BY <1>a, <2>1 DEF TypeOK
    <2>3. tf # Absent /\ tf.plan.wg => AgreesWith(MeshOf(cfg), tf)
        BY <2>1 DEF KeyInv, KeysKept
    <2>4. tf # Absent /\ tf.plan.wg /\ n \in tf.plan.nodes /\ wgLive[n] \notin {Absent, Stopped} =>
              AgreesWith(wgLive[n].mesh, tf)
        BY DEF KeyInv, KeysKept
    <2> QED
        BY <1>a, <2>1, <2>2, <2>3, <2>4, KeysOnNode
<1>4. ASSUME NEW n \in Nodes, ActivateWireGuard(n)
      PROVE  KeyInv'
    <2>1. /\ Busy /\ UNCHANGED <<tf, cfg, wgFile>>
          /\ \A m \in Nodes \ {n} : wgLive'[m] = wgLive[m]
          /\ wgLive'[n].mesh = wgFile[n]
        <3>1. NeedsRestart(wgLive[n], Rank(cfg.plan.nodes, n)) \/ wgLive[n] \in Interface
            BY <1>a DEF NeedsRestart, TypeOK
        <3> QED
            BY <1>4, <1>a, <3>1 DEF ActivateWireGuard, Busy, TypeOK, Up, Interface
    <2>2. wgFile[n] # Absent
        <3>1. cfg \in Expanded /\ wgFile[n] = MeshOf(cfg)
            BY <1>4 DEF ActivateWireGuard, TypeInv, CallShape
        <3> QED
            BY <3>1, MeshType, NullAssumption
    <2>3. tf # Absent /\ tf.plan.wg /\ n \in tf.plan.nodes => AgreesWith(wgFile[n], tf)
        BY <2>2 DEF KeyInv, KeysKept
    <2> QED
        BY <1>a, <2>1, <2>3, KeysOnNode
<1>5. ASSUME NEW n \in Nodes, CheckNode(n)
      PROVE  KeyInv'
    BY <1>5, KeysUnchanged DEF CheckNode, EndCall, Busy, wireguard
<1>6. ASSUME NEW n \in Nodes, FirewallNode(n)
      PROVE  KeyInv'
    BY <1>6, KeysUnchanged DEF FirewallNode, Busy, wireguard
<1>7. ASSUME NEW n \in Nodes, WriteK3sConfig(n)
      PROVE  KeyInv'
    BY <1>7, KeysUnchanged DEF WriteK3sConfig, Busy, wireguard
<1>8. ASSUME NEW n \in Nodes, StartK3s(n)
      PROVE  KeyInv'
    <2>1. phase = "start" /\ UNCHANGED <<tf, wgFile, wgLive>> /\ (phase' = "idle" \/ cfg' = cfg)
        BY <1>8 DEF StartK3s, EndCall, wireguard
    <2> QED
        BY <2>1, KeysUnchanged DEF Busy
<1>9. ASSUME NEW n \in Nodes, StopNode(n)
      PROVE  KeyInv'
    <2>1. /\ UNCHANGED <<tf, wgFile>> /\ ~Busy'
          /\ \A m \in Nodes \ {n} : wgLive'[m] = wgLive[m]
          /\ wgLive'[n] \in {Absent, Stopped}
        BY <1>9, <1>a DEF StopNode, Advance, Busy, StopUnit, TypeOK
    <2>2. tf # Absent /\ tf.plan.wg /\ n \in tf.plan.nodes /\ wgFile[n] # Absent =>
              AgreesWith(wgFile[n], tf)
        BY DEF KeyInv, KeysKept
    <2> QED
        BY <1>a, <2>1, <2>2, KeysOnNode
<1>10. CASE Finish
    <2>1. Busy /\ phase = "finish" /\ UNCHANGED <<wgFile, wgLive>> /\ ~Busy'
        BY <1>10 DEF Finish, EndCall, Busy, wireguard
    <2>2. cfg \in Expanded /\ HasKeys(cfg)
        BY <2>1 DEF TypeInv, CallShape, Busy, KeyInv
    <2>3. /\ tf'.plan.nodes = cfg.plan.nodes /\ tf'.plan.wg = cfg.plan.wg
          /\ tf'.keys = cfg.keys
        BY <1>10, <2>2 DEF Finish, Expanded, Config
    <2>4. ASSUME cfg.plan.wg, NEW n \in cfg.plan.nodes
          PROVE  wgFile[n] = MeshOf(cfg) /\ wgLive[n].mesh = MeshOf(cfg)
        <3>1. MeshReady(n)
            BY <2>1, <2>4 DEF MeshInv
        <3> QED
            BY <3>1 DEF MeshReady, InMesh
    <2>5. AgreesWith(MeshOf(cfg), tf')
        BY <2>3 DEF AgreesWith, MeshOf
    <2>6. HasKeys(tf')
        BY <2>2, <2>3 DEF HasKeys
    <2> QED
        BY <2>1, <2>3, <2>4, <2>5, <2>6 DEF KeyInv, KeysKept, AgreesWith, HasKeys
<1>11. CASE RemoveResource
    BY <1>11 DEF RemoveResource, EndCall, KeyInv, KeysKept, Busy
<1>12. CASE Destroy
    BY <1>12, KeysUnchanged DEF Destroy, Busy, wireguard
<1>13. CASE Failure
    BY <1>13, KeysUnchanged DEF Failure, EndCall, Busy, wireguard
<1>14. ASSUME NEW n \in Nodes, SkipNode(n)
       PROVE  KeyInv'
    <2>1. ~Busy' /\ UNCHANGED <<tf, wgFile, wgLive>>
        BY <1>14 DEF SkipNode, Advance, Busy, wireguard
    <2> QED
        BY <2>1, KeysUnchanged
<1>15. ASSUME NEW n \in Nodes, Reboot(n)
       PROVE  KeyInv'
    <2>1. /\ UNCHANGED <<tf, cfg, phase, wgFile>>
          /\ \A m \in Nodes \ {n} : wgLive'[m] = wgLive[m]
          /\ wgLive'[n] = wgLive[n] \/ (wgFile[n] # Absent /\ wgLive'[n].mesh = wgFile[n])
        BY <1>15, <1>a DEF Reboot, call, TypeOK, Up
    <2>2. tf # Absent /\ tf.plan.wg /\ n \in tf.plan.nodes =>
              /\ wgFile[n] # Absent => AgreesWith(wgFile[n], tf)
              /\ wgLive[n] \notin {Absent, Stopped} => AgreesWith(wgLive[n].mesh, tf)
        BY DEF KeyInv, KeysKept
    <2> QED
        BY <1>a, <2>1, <2>2, KeysOnNode DEF Busy
<1>16. ASSUME NEW n \in Nodes, NEW t \in Tokens, RotateToken(n, t)
       PROVE  KeyInv'
    BY <1>16, KeysUnchanged DEF RotateToken, call, wireguard, Busy
<1>17. CASE UNCHANGED vars
    BY <1>17, KeysUnchanged DEF vars, call, wireguard, Busy
<1> QED
    BY <1>1, <1>2, <1>3, <1>4, <1>5, <1>6, <1>7, <1>8, <1>9, <1>10, <1>11, <1>12, <1>13, <1>14, <1>15, <1>16, <1>17
       DEF Next, ProviderStep, UserStep, Event

\* Two nodes of the cluster in state that are peers know the keys in state:
\* the keys a failed call generated are never those of a node in state, and a
\* finished call left its keys on all of its nodes (models.go:376-400).
THEOREM ClusterKeysMatchState == Spec => []KeysMatchState
<1>1. Init => KeyInv
    BY DEF Init, KeyInv, KeysKept, Busy
<1>2. Spec => []KeyInv
    BY <1>1, KeyStep, TypeInvariant, MeshInvariant, PTL DEF Spec
<1>3. TypeInv /\ KeyInv => KeysMatchState
    BY DEF TypeInv, TypeOK, Saved, Config, KeyInv, KeysKept, KeysMatchState, AgreesWith
<1> QED
    BY <1>2, <1>3, TypeInvariant, PTL

-----------------------------------------------------------------------------
(* One cluster *)

\* Every configuration has the same first server.
FoundedBy(f) == \A c \in Configs : c.servers # {} => FirstServer(c) = f

\* Only f has ever been told to found a cluster, and every datastore is its own
\* or that of a server that joined it.
FounderInv(f) ==
    /\ Busy => FirstServer(cfg.plan) = f
    /\ \A n \in Nodes : k3sFile[n] # Absent /\ k3sFile[n].init => n = f
    /\ \A n \in Nodes : member[n] \in {0, f}

\* A server unit that starts with such a file founds the cluster of f or joins it.
LEMMA JoinsFounder ==
    ASSUME TypeOK, NEW f, FounderInv(f), NEW n \in Nodes, k3sFile[n] # Absent,
           Joins(n, k3sFile[n])
    PROVE  \A m \in Nodes : member'[m] \in {0, f}
<1> DEFINE conf == k3sFile[n]
<1>1. conf.server \in Nodes
    BY DEF TypeOK, K3sConfig
<1>2. member \in [Nodes -> Nodes \cup {0}]
    BY DEF TypeOK
<1>3. member' = [member EXCEPT ![n] = CASE member[n] # 0 -> member[n]
                                       [] Founds(n, conf) -> n
                                       [] OTHER -> member[conf.server]]
    BY DEF Joins
<1>4. member'[n] \in {0, f}
    <2>1. CASE member[n] # 0
        <3>1. member'[n] = member[n]
            BY <1>2, <1>3, <2>1 DEF Founds
        <3> QED
            BY <3>1 DEF FounderInv
    <2>2. CASE member[n] = 0 /\ Founds(n, conf)
        <3>1. member'[n] = n
            BY <1>2, <1>3, <2>2
        <3>2. n = f
            BY <2>2 DEF FounderInv, Founds
        <3> QED
            BY <3>1, <3>2
    <2>3. CASE member[n] = 0 /\ ~Founds(n, conf)
        <3>1. member'[n] = member[conf.server]
            BY <1>2, <1>3, <2>3
        <3> QED
            BY <1>1, <3>1 DEF FounderInv
    <2> QED
        BY <2>1, <2>2, <2>3
<1>5. \A m \in Nodes \ {n} : member'[m] = member[m]
    BY <1>2, <1>3
<1> QED
    BY <1>4, <1>5 DEF FounderInv

LEMMA FounderStep ==
    ASSUME NEW f, FoundedBy(f), TypeInv, FounderInv(f), [Next]_vars
    PROVE  FounderInv(f)'
<1>t. TypeOK
    BY DEF TypeInv
<1>1. ASSUME NEW c \in Configs, NEW known \in TokenKnown, Apply(c, known)
      PROVE  FounderInv(f)'
    <2>1. cfg'.plan = c /\ k3sFile' = k3sFile /\ member' = member /\ ValidPlan(c)
        BY <1>1 DEF Apply, ExpandClusterConfig, k3s
    <2>2. c.servers # {}
        BY <2>1, ValidPlanHasServer, ConfigAssumption
    <2> QED
        BY <2>1, <2>2 DEF FounderInv, FoundedBy
<1>2. ASSUME Busy' => Busy /\ cfg' = cfg, UNCHANGED <<k3sFile, member>>
      PROVE  FounderInv(f)'
    BY <1>2 DEF FounderInv
<1>3. ASSUME NEW n \in Nodes,
             PrepareNode(n) \/ UploadWireGuard(n) \/ ActivateWireGuard(n) \/ FirewallNode(n)
      PROVE  FounderInv(f)'
    BY <1>2, <1>3 DEF PrepareNode, UploadWireGuard, ActivateWireGuard, FirewallNode, k3s, Busy
<1>4. ASSUME NEW n \in Nodes, CheckNode(n)
      PROVE  FounderInv(f)'
    BY <1>2, <1>4 DEF CheckNode, EndCall, k3s, Busy
<1>5. ASSUME NEW n \in Nodes, WriteK3sConfig(n)
      PROVE  FounderInv(f)'
    <2>1. /\ Busy /\ cfg' = cfg /\ member' = member
          /\ k3sFile' = [k3sFile EXCEPT ![n] = RenderK3sConfig(cfg, n)]
        BY <1>5 DEF WriteK3sConfig, Busy
    <2>2. RenderK3sConfig(cfg, n).init => n = f
        BY <2>1 DEF RenderK3sConfig, FounderInv
    <2>3. \A m \in Nodes : k3sFile'[m] = IF m = n THEN RenderK3sConfig(cfg, n) ELSE k3sFile[m]
        BY <1>t, <2>1 DEF TypeOK
    <2> QED
        BY <2>1, <2>2, <2>3 DEF FounderInv
<1>6. ASSUME NEW n \in Nodes, StartK3s(n)
      PROVE  FounderInv(f)'
    <2>1. phase = "start" /\ Busy /\ k3sFile' = k3sFile /\ (Busy' => cfg' = cfg)
        BY <1>6 DEF StartK3s, EndCall, Busy
    <2>2. member' = member \/ Joins(n, k3sFile[n])
        BY <1>6 DEF StartK3s
    <2>3. k3sFile[n] # Absent
        <3>1. cfg \in Expanded /\ cfg.plan.servers # {} /\ k3sFile[n] = RenderK3sConfig(cfg, n)
            BY <1>6, <2>1 DEF StartK3s, TypeInv, CallShape, Busy
        <3> QED
            BY <3>1, RenderType, NullAssumption
    <2>4. \A m \in Nodes : member'[m] \in {0, f}
        BY <1>t, <2>2, <2>3, JoinsFounder DEF FounderInv
    <2> QED
        BY <2>1, <2>4 DEF FounderInv
<1>7. ASSUME NEW n \in Nodes, StopNode(n) \/ SkipNode(n)
      PROVE  FounderInv(f)'
    BY <1>2, <1>7 DEF StopNode, SkipNode, Advance, k3s, Busy
<1>8. CASE Finish \/ RemoveResource \/ Failure \/ Destroy
    BY <1>2, <1>8 DEF Finish, RemoveResource, Failure, Destroy, EndCall, k3s, Busy
<1>9. ASSUME NEW n \in Nodes, Reboot(n)
      PROVE  FounderInv(f)'
    <2>1. k3sFile' = k3sFile /\ UNCHANGED <<phase, cfg>>
        BY <1>9 DEF Reboot, call
    <2>2. member' = member \/ (k3sFile[n] # Absent /\ Joins(n, k3sFile[n]))
        BY <1>9 DEF Reboot
    <2>3. \A m \in Nodes : member'[m] \in {0, f}
        BY <1>t, <2>2, JoinsFounder DEF FounderInv
    <2> QED
        BY <2>1, <2>3 DEF FounderInv, Busy
<1>10. ASSUME NEW n \in Nodes, NEW t \in Tokens, RotateToken(n, t)
       PROVE  FounderInv(f)'
    BY <1>2, <1>10 DEF RotateToken, call, Busy
<1>11. CASE UNCHANGED vars
    BY <1>2, <1>11 DEF vars, call, k3s, Busy
<1> QED
    BY <1>1, <1>3, <1>4, <1>5, <1>6, <1>7, <1>8, <1>9, <1>10, <1>11
       DEF Next, ProviderStep, UserStep, Event

\* As long as the first server stays, no server ever founds a second cluster,
\* whichever calls failed or were destroyed, and whatever units a reboot starts
\* from old files (k3s.go:119).  The code does not ensure the hypothesis:
\* server_sorts_first shows what happens without it.
THEOREM ClusterOneCluster ==
    ASSUME NEW f, FoundedBy(f)
    PROVE  Spec => []OneCluster
<1>1. Init => FounderInv(f)
    BY DEF Init, FounderInv, Busy
<1>2. TypeInv /\ FounderInv(f) /\ [Next]_vars => FounderInv(f)'
    BY FounderStep
<1>3. FounderInv(f) => OneCluster
    BY DEF FounderInv, OneCluster
<1> QED
    BY <1>1, <1>2, <1>3, TypeInvariant, PTL DEF Spec
===============================================================================
