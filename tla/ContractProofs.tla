----------------------------- MODULE ContractProofs -----------------------------
(***************************************************************************)
(* ClusterResource implements Deployment, for every set of nodes and         *)
(* configurations and any number of calls and events.                       *)
(*                                                                         *)
(* The argument: while a call runs, a file is either still to be written in  *)
(* this phase or a later one, or is what the call wants; when the last phase *)
(* is over there is none to be written, so what is saved is in place.       *)
(***************************************************************************)
EXTENDS ClusterResourceProofs

\* The files of K3s that are done, and which calls write.
K3sInv ==
    /\ phase \in {"install", "start"} =>
          \A n \in cfg.plan.nodes : n \in todo \/ k3sFile[n] = RenderK3sConfig(cfg, n)
    /\ phase = "finish" => \A n \in cfg.plan.nodes : k3sFile[n] = RenderK3sConfig(cfg, n)
    /\ op \in {"create", "update"} <=> Busy
    /\ Busy => todo \subseteq cfg.plan.nodes

ContractInv == TypeInv /\ MeshInv /\ K3sInv

-----------------------------------------------------------------------------
(* K3sInv *)

\* The files and the configuration stay, and no K3s file is done yet.
LEMMA K3sEarlier ==
    ASSUME K3sInv, UNCHANGED <<tf, op, cfg>>, Busy, todo' \subseteq todo \cup cfg.plan.nodes,
           \/ phase' \in {"prepare", "activate", "check", "firewall"}
           \/ phase' = "install" /\ todo' = cfg.plan.nodes
    PROVE  K3sInv'
BY DEF K3sInv, Busy

\* The call ends without having saved anything.
LEMMA K3sEnd ==
    ASSUME K3sInv, EndCall("error")
    PROVE  K3sInv'
BY DEF K3sInv, EndCall, Busy

LEMMA K3sStep == TypeInv /\ K3sInv /\ [Next]_vars => K3sInv'
<1> SUFFICES ASSUME TypeInv, K3sInv, [Next]_vars PROVE K3sInv'
    OBVIOUS
<1>1. ASSUME NEW c \in Configs, NEW known \in TokenKnown, Apply(c, known)
      PROVE  K3sInv'
    BY <1>1 DEF Apply, ExpandClusterConfig, K3sInv, Busy
<1>2. ASSUME NEW n \in Nodes, PrepareNode(n)
      PROVE  K3sInv'
    BY <1>2, K3sEarlier DEF PrepareNode, Advance, AfterMesh, Busy
<1>3. ASSUME NEW n \in Nodes, UploadWireGuard(n)
      PROVE  K3sInv'
    BY <1>3, K3sEarlier DEF UploadWireGuard, Busy
<1>4. ASSUME NEW n \in Nodes, ActivateWireGuard(n)
      PROVE  K3sInv'
    BY <1>4, K3sEarlier DEF ActivateWireGuard, Advance, Busy
<1>5. ASSUME NEW n \in Nodes, CheckNode(n)
      PROVE  K3sInv'
    <2>1. CASE \A m \in cfg.plan.nodes \ {n} : Reaches(n, m)
        BY <1>5, <2>1, K3sEarlier DEF CheckNode, Advance, AfterMesh, Busy
    <2>2. CASE ~ \A m \in cfg.plan.nodes \ {n} : Reaches(n, m)
        BY <1>5, <2>2, K3sEnd DEF CheckNode
    <2> QED
        BY <2>1, <2>2
<1>6. ASSUME NEW n \in Nodes, FirewallNode(n)
      PROVE  K3sInv'
    BY <1>6, K3sEarlier DEF FirewallNode, Advance, Busy
<1>7. ASSUME NEW n \in Nodes, WriteK3sConfig(n)
      PROVE  K3sInv'
    <2>1. /\ phase = "install" /\ phase' = "start" /\ n \in todo
          /\ UNCHANGED <<tf, op, todo, cfg>>
          /\ k3sFile' = [k3sFile EXCEPT ![n] = RenderK3sConfig(cfg, n)]
        BY <1>7 DEF WriteK3sConfig, Turn
    <2>2. ASSUME NEW m \in cfg.plan.nodes, m \notin todo
          PROVE  k3sFile'[m] = RenderK3sConfig(cfg, m)
        BY <2>1, <2>2 DEF K3sInv
    <2> QED
        BY <2>1, <2>2 DEF K3sInv, Busy, RenderK3sConfig
<1>8. ASSUME NEW n \in Nodes, StartK3s(n)
      PROVE  K3sInv'
    <2>1. phase = "start" /\ Turn(n) /\ UNCHANGED <<tf, k3sFile>>
        BY <1>8 DEF StartK3s
    <2>2. CASE EndCall("error")
        BY <2>1, <2>2, K3sEnd
    <2>3. CASE Advance(n, "install", "finish") /\ UNCHANGED <<op, cfg>>
        <3>1. k3sFile[n] = RenderK3sConfig(cfg, n)
            BY <2>1 DEF TypeInv, CallShape
        <3>2. ASSUME NEW m \in cfg.plan.nodes, m = n \/ m \notin todo
              PROVE  k3sFile'[m] = RenderK3sConfig(cfg, m)
            BY <2>1, <3>1, <3>2 DEF K3sInv
        <3>3. phase' \in {"install", "finish"}
            BY <2>3 DEF Advance
        <3>4. phase' = "install" => todo' = todo \ {n}
            BY <2>3 DEF Advance
        <3>5. phase' = "finish" => todo = {n}
            BY <2>3 DEF Advance
        <3>6. todo' \subseteq cfg.plan.nodes
            BY <2>1, <2>3 DEF Advance, K3sInv, Busy
        <3> QED
            BY <2>1, <2>3, <3>2, <3>3, <3>4, <3>5, <3>6 DEF K3sInv, Busy, RenderK3sConfig
    <2> QED
        BY <1>8, <2>2, <2>3 DEF StartK3s
<1>9. ASSUME NEW n \in Nodes, StopNode(n)
      PROVE  K3sInv'
    BY <1>9 DEF StopNode, Advance, K3sInv, Busy
<1>10. CASE Finish
    BY <1>10 DEF Finish, EndCall, K3sInv, Busy
<1>11. CASE RemoveResource
    BY <1>11 DEF RemoveResource, EndCall, K3sInv, Busy
<1>12. CASE Destroy
    BY <1>12 DEF Destroy, K3sInv, Busy
<1>13. CASE Failure
    BY <1>13, K3sEnd DEF Failure
<1>14. ASSUME NEW n \in Nodes, SkipNode(n)
       PROVE  K3sInv'
    BY <1>14 DEF SkipNode, Advance, K3sInv, Busy
<1>15. ASSUME NEW n \in Nodes, Reboot(n)
       PROVE  K3sInv'
    BY <1>15 DEF Reboot, call, K3sInv, Busy, RenderK3sConfig
<1>16. ASSUME NEW n \in Nodes, NEW t \in Tokens, RotateToken(n, t)
       PROVE  K3sInv'
    BY <1>16 DEF RotateToken, call, K3sInv, Busy, RenderK3sConfig
<1>17. CASE UNCHANGED vars
    BY <1>17 DEF vars, call, k3s, K3sInv, Busy, RenderK3sConfig
<1> QED
    BY <1>1, <1>2, <1>3, <1>4, <1>5, <1>6, <1>7, <1>8, <1>9, <1>10, <1>11, <1>12, <1>13, <1>14, <1>15, <1>16, <1>17
       DEF Next, ProviderStep, UserStep, Event

LEMMA ContractInvariant == Spec => []ContractInv
<1>1. Init => K3sInv
    BY DEF Init, K3sInv, Busy
<1> QED
    BY <1>1, K3sStep, TypeInvariant, MeshInvariant, PTL DEF Spec, ContractInv
-----------------------------------------------------------------------------
(* The refinement *)

LEMMA ItemShape ==
    ASSUME NEW i \in Items
    PROVE  /\ i[1] \in Nodes /\ i[2] \in {"mesh", "k3s"} /\ i = <<i[1], i[2]>>
BY DEF Items

\* A mesh file that is written is an item that is written.
LEMMA MeshItem ==
    ASSUME NEW n \in Nodes, NEW v, wgFile \in [Nodes -> Mesh \cup {Absent}],
           wgFile' = [wgFile EXCEPT ![n] = v], k3sFile' = k3sFile
    PROVE  Content' = [Content EXCEPT ![<<n, "mesh">>] = v]
<1>1. Content' = [i \in Items |-> IF i[2] = "mesh" THEN wgFile'[i[1]] ELSE k3sFile[i[1]]]
    BY DEF Content
<1>2. ASSUME NEW i \in Items
      PROVE  (IF i[2] = "mesh" THEN wgFile'[i[1]] ELSE k3sFile[i[1]])
                 = [Content EXCEPT ![<<n, "mesh">>] = v][i]
    <2>1. CASE i = <<n, "mesh">>
        BY <2>1 DEF Content
    <2>2. CASE i # <<n, "mesh">>
        BY <2>2, ItemShape DEF Content
    <2> QED
        BY <2>1, <2>2
<1> QED
    BY <1>1, <1>2 DEF Content

\* And so is a K3s file.
LEMMA K3sItem ==
    ASSUME NEW n \in Nodes, NEW v, k3sFile \in [Nodes -> K3sConfig \cup {Absent}],
           k3sFile' = [k3sFile EXCEPT ![n] = v], wgFile' = wgFile
    PROVE  Content' = [Content EXCEPT ![<<n, "k3s">>] = v]
<1>1. Content' = [i \in Items |-> IF i[2] = "mesh" THEN wgFile[i[1]] ELSE k3sFile'[i[1]]]
    BY DEF Content
<1>2. ASSUME NEW i \in Items
      PROVE  (IF i[2] = "mesh" THEN wgFile[i[1]] ELSE k3sFile'[i[1]])
                 = [Content EXCEPT ![<<n, "k3s">>] = v][i]
    <2>1. CASE i = <<n, "k3s">>
        BY <2>1 DEF Content
    <2>2. CASE i # <<n, "k3s">>
        BY <2>2, ItemShape DEF Content
    <2> QED
        BY <2>1, <2>2
<1> QED
    BY <1>1, <1>2 DEF Content

\* A step that touches neither the files nor what is said of them.
LEMMA Quiet ==
    ASSUME UNCHANGED <<tf, op, cfg, wgFile, k3sFile>>
    PROVE  UNCHANGED Contract!vars
<1>1. UNCHANGED FilesSaved
    BY DEF FilesSaved
<1>2. UNCHANGED FilesWanted
    BY DEF FilesWanted
<1>3. UNCHANGED Content
    BY DEF Content
<1> QED
    BY <1>1, <1>2, <1>3 DEF Contract!vars

\* The order in which the nodes are listed does not reach the nodes.
LEMMA RenderDepends ==
    ASSUME NEW x, NEW y, x.token = y.token,
           x.plan.nodes = y.plan.nodes, x.plan.servers = y.plan.servers,
           x.plan.wg = y.plan.wg, x.plan.opts = y.plan.opts
    PROVE  \A n : RenderK3sConfig(x, n) = RenderK3sConfig(y, n)
<1>1. FirstServer(x.plan) = FirstServer(y.plan)
    BY DEF FirstServer
<1>2. \A n : AddressOf(x.plan, n) = AddressOf(y.plan, n)
    BY DEF AddressOf
<1>3. \A n : RoleOf(x.plan, n) = RoleOf(y.plan, n)
    BY DEF RoleOf
<1> QED
    BY <1>1, <1>2, <1>3 DEF RenderK3sConfig

LEMMA TargetDepends ==
    ASSUME NEW x, NEW y, x.token = y.token, x.keys = y.keys,
           x.plan.nodes = y.plan.nodes, x.plan.servers = y.plan.servers,
           x.plan.wg = y.plan.wg, x.plan.opts = y.plan.opts
    PROVE  TargetOf(x) = TargetOf(y)
<1>1. \A n : RenderK3sConfig(x, n) = RenderK3sConfig(y, n)
    BY RenderDepends
<1>2. MeshOf(x) = MeshOf(y)
    BY DEF MeshOf
<1> QED
    BY <1>1, <1>2 DEF TargetOf

\* What a call wants of the files is never nothing.
LEMMA TargetType ==
    ASSUME NEW x \in Expanded, x.plan.servers # {}
    PROVE  TargetOf(x) # Absent /\ DOMAIN TargetOf(x) \subseteq Items
<1> DEFINE S == x.plan.nodes \X (IF x.plan.wg THEN {"mesh", "k3s"} ELSE {"k3s"})
<1>1. x.plan.nodes \in SUBSET Nodes
    BY DEF Expanded, Config
<1>2. S \in SUBSET Items
    BY <1>1 DEF Items
<1>3. MeshOf(x) \in Mesh
    BY MeshType
<1>4. \A i \in S : RenderK3sConfig(x, i[1]) \in K3sConfig
    BY <1>1, RenderType
<1>5. TargetOf(x) \in [S -> Mesh \cup K3sConfig]
    BY <1>3, <1>4 DEF TargetOf
<1> QED
    BY <1>2, <1>5, FilesAssumption

\* The call under way, as Deployment sees it.
LEMMA Wanted ==
    ASSUME ContractInv, Busy
    PROVE  /\ cfg \in Expanded /\ cfg.plan.servers # {}
           /\ FilesWanted = TargetOf(cfg) /\ FilesWanted # Absent
           /\ DOMAIN FilesWanted \subseteq Items
<1>1. cfg \in Expanded /\ cfg.plan.servers # {} /\ op \in {"create", "update"}
    BY DEF ContractInv, TypeInv, CallShape, Busy
<1> QED
    BY <1>1, TargetType DEF FilesWanted

\* A call that ends without saving, or a delete that does.
LEMMA EndsUnsaved ==
    ASSUME ContractInv, EndCall("error"), UNCHANGED <<tf, wgFile, k3sFile>>
    PROVE  [Contract!Next]_(Contract!vars)
<1>1. UNCHANGED FilesSaved
    BY DEF FilesSaved
<1>2. UNCHANGED Content
    BY DEF Content
<1>3. FilesWanted' = Absent
    BY DEF EndCall, FilesWanted
<1>4. CASE Busy
    <2>1. Contract!Abort
        BY <1>1, <1>2, <1>3, <1>4, Wanted DEF Contract!Abort
    <2> QED
        BY <2>1 DEF Contract!Next
<1>5. CASE ~Busy
    <2>1. FilesWanted = Absent
        BY <1>5 DEF FilesWanted, ContractInv, K3sInv
    <2> QED
        BY <1>1, <1>2, <1>3, <2>1 DEF Contract!vars
<1> QED
    BY <1>4, <1>5

\* A step of a call, or of a delete, that writes none of the files.
LEMMA Stutter ==
    ASSUME UNCHANGED <<tf, op, cfg, wgFile, k3sFile>>
    PROVE  [Contract!Next]_(Contract!vars)
BY Quiet

\* One file is written with what the call wants of it.
LEMMA Writes ==
    ASSUME ContractInv, Busy, UNCHANGED <<tf, op, cfg>>,
           NEW i \in DOMAIN TargetOf(cfg),
           Content' = [Content EXCEPT ![i] = TargetOf(cfg)[i]]
    PROVE  [Contract!Next]_(Contract!vars)
<1>1. UNCHANGED FilesSaved /\ UNCHANGED FilesWanted
    BY DEF FilesSaved, FilesWanted
<1>2. FilesWanted = TargetOf(cfg) /\ FilesWanted # Absent /\ i \in Items
    BY Wanted
<1>3. Contract!Write(i)
    BY <1>1, <1>2 DEF Contract!Write
<1> QED
    BY <1>2, <1>3 DEF Contract!Next

LEMMA ContractStep == ContractInv /\ [Next]_vars => [Contract!Next]_(Contract!vars)
<1> SUFFICES ASSUME ContractInv, [Next]_vars PROVE [Contract!Next]_(Contract!vars)
    OBVIOUS
<1>t. TypeOK
    BY DEF ContractInv, TypeInv
<1>1. ASSUME NEW c \in Configs, NEW known \in TokenKnown, Apply(c, known)
      PROVE  [Contract!Next]_(Contract!vars)
    <2>1. c \in Config /\ c.servers # {} /\ run + 1 \in Nat
        BY <1>1, <1>t, ConfigAssumption, ValidPlanHasServer DEF Apply, TypeOK
    <2>2. cfg' \in Expanded /\ cfg'.plan = c
        BY <1>1, <1>t, <2>1, ExpandType DEF Apply, ExpandClusterConfig
    <2>3. op' \in {"create", "update"} /\ op \notin {"create", "update"}
        BY <1>1 DEF Apply, ContractInv, K3sInv, Busy
    <2>4. FilesWanted = Absent /\ FilesWanted' = TargetOf(cfg')
        BY <2>3 DEF FilesWanted
    <2>5. UNCHANGED FilesSaved
        BY <1>1 DEF Apply, FilesSaved
    <2>6. UNCHANGED Content
        BY <1>1 DEF Apply, Content, wireguard, k3s
    <2>7. TargetOf(cfg') # Absent /\ DOMAIN TargetOf(cfg') \subseteq Items
        BY <2>1, <2>2, TargetType
    <2>8. Contract!Begin
        BY <2>4, <2>5, <2>6, <2>7 DEF Contract!Begin
    <2> QED
        BY <2>8 DEF Contract!Next
<1>2. ASSUME NEW n \in Nodes, PrepareNode(n)
      PROVE  [Contract!Next]_(Contract!vars)
    BY <1>2, Stutter DEF PrepareNode, wireguard, k3s
<1>3. ASSUME NEW n \in Nodes, UploadWireGuard(n)
      PROVE  [Contract!Next]_(Contract!vars)
    <2>1. /\ phase = "prepare" /\ cfg.plan.wg /\ n \in todo
          /\ UNCHANGED <<tf, op, cfg, k3sFile>>
          /\ wgFile' = [wgFile EXCEPT ![n] = MeshOf(cfg)]
        BY <1>3 DEF UploadWireGuard, Turn, k3s
    <2>2. n \in cfg.plan.nodes /\ Busy
        BY <2>1 DEF ContractInv, K3sInv, Busy
    <2>3. <<n, "mesh">> \in DOMAIN TargetOf(cfg) /\ TargetOf(cfg)[<<n, "mesh">>] = MeshOf(cfg)
        BY <2>1, <2>2 DEF TargetOf
    <2>4. Content' = [Content EXCEPT ![<<n, "mesh">>] = MeshOf(cfg)]
        BY <1>t, <2>1, MeshItem DEF TypeOK
    <2> QED
        BY <2>1, <2>2, <2>3, <2>4, Writes
<1>4. ASSUME NEW n \in Nodes, ActivateWireGuard(n)
      PROVE  [Contract!Next]_(Contract!vars)
    BY <1>4, Stutter DEF ActivateWireGuard, k3s
<1>5. ASSUME NEW n \in Nodes, CheckNode(n)
      PROVE  [Contract!Next]_(Contract!vars)
    <2>1. CASE \A m \in cfg.plan.nodes \ {n} : Reaches(n, m)
        BY <1>5, <2>1, Stutter DEF CheckNode, wireguard, k3s
    <2>2. CASE ~ \A m \in cfg.plan.nodes \ {n} : Reaches(n, m)
        BY <1>5, <2>2, EndsUnsaved DEF CheckNode, wireguard, k3s
    <2> QED
        BY <2>1, <2>2
<1>6. ASSUME NEW n \in Nodes, FirewallNode(n)
      PROVE  [Contract!Next]_(Contract!vars)
    BY <1>6, Stutter DEF FirewallNode, wireguard, k3s
<1>7. ASSUME NEW n \in Nodes, WriteK3sConfig(n)
      PROVE  [Contract!Next]_(Contract!vars)
    <2>1. /\ phase = "install" /\ n \in todo
          /\ UNCHANGED <<tf, op, cfg, wgFile>>
          /\ k3sFile' = [k3sFile EXCEPT ![n] = RenderK3sConfig(cfg, n)]
        BY <1>7 DEF WriteK3sConfig, Turn, wireguard
    <2>2. n \in cfg.plan.nodes /\ Busy
        BY <2>1 DEF ContractInv, K3sInv, Busy
    <2>3. <<n, "k3s">> \in DOMAIN TargetOf(cfg) /\ TargetOf(cfg)[<<n, "k3s">>] = RenderK3sConfig(cfg, n)
        BY <2>2 DEF TargetOf
    <2>4. Content' = [Content EXCEPT ![<<n, "k3s">>] = RenderK3sConfig(cfg, n)]
        BY <1>t, <2>1, K3sItem DEF TypeOK
    <2> QED
        BY <2>1, <2>2, <2>3, <2>4, Writes
<1>8. ASSUME NEW n \in Nodes, StartK3s(n)
      PROVE  [Contract!Next]_(Contract!vars)
    <2>1. UNCHANGED <<tf, wgFile, k3sFile>>
        BY <1>8 DEF StartK3s, wireguard
    <2>2. EndCall("error") \/ UNCHANGED <<op, cfg>>
        BY <1>8 DEF StartK3s
    <2> QED
        BY <2>1, <2>2, Stutter, EndsUnsaved
<1>9. ASSUME NEW n \in Nodes, StopNode(n)
      PROVE  [Contract!Next]_(Contract!vars)
    BY <1>9, Stutter DEF StopNode
<1>10. CASE Finish
    <2>1. /\ phase = "finish" /\ Busy /\ UNCHANGED <<wgFile, k3sFile>>
          /\ op' = "none"
          /\ tf' = [plan |-> [cfg.plan EXCEPT !.sorted = TRUE], token |-> cfg.token, keys |-> cfg.keys,
                    tainted |-> op = "create" /\ ~cfg.plan.sorted]
        BY <1>10 DEF Finish, EndCall, Busy, wireguard, k3s
    <2>2. cfg \in Expanded /\ cfg.plan \in Config /\ FilesWanted = TargetOf(cfg) /\ FilesWanted # Absent
        BY <2>1, Wanted DEF Expanded
    <2> DEFINE plan == [cfg.plan EXCEPT !.sorted = TRUE]
    <2>3. /\ plan.nodes = cfg.plan.nodes /\ plan.servers = cfg.plan.servers
          /\ plan.wg = cfg.plan.wg /\ plan.opts = cfg.plan.opts
        BY <2>2 DEF Config
    <2>4. tf'.plan = plan /\ tf'.token = cfg.token /\ tf'.keys = cfg.keys
        BY <2>1
    <2>6. tf' # Absent
        <3>1. plan \in Config
            BY <2>2 DEF Config
        <3>2. tf' \in Saved
            BY <2>1, <2>2, <3>1 DEF Saved, Expanded
        <3> QED
            BY <3>2, NullAssumption
    <2> HIDE DEF plan
    <2>5. TargetOf(tf') = TargetOf(cfg)
        BY <2>3, <2>4, TargetDepends
    <2>7. FilesSaved' = FilesWanted /\ FilesWanted' = Absent /\ UNCHANGED Content
        BY <2>1, <2>2, <2>5, <2>6 DEF FilesSaved, FilesWanted, Content
    <2>8. \A i \in DOMAIN TargetOf(cfg) : Content[i] = TargetOf(cfg)[i]
        <3> SUFFICES ASSUME NEW i \in DOMAIN TargetOf(cfg) PROVE Content[i] = TargetOf(cfg)[i]
            OBVIOUS
        <3> DEFINE S == cfg.plan.nodes \X (IF cfg.plan.wg THEN {"mesh", "k3s"} ELSE {"k3s"})
        <3>1. cfg.plan.nodes \in SUBSET Nodes
            BY <2>2 DEF Config
        <3>2. i \in S /\ TargetOf(cfg)[i] = IF i[2] = "mesh" THEN MeshOf(cfg) ELSE RenderK3sConfig(cfg, i[1])
            BY DEF TargetOf
        <3>3. i[1] \in cfg.plan.nodes /\ (i[2] = "mesh" => cfg.plan.wg) /\ i \in Items
            BY <3>1, <3>2 DEF Items
        <3>4. k3sFile[i[1]] = RenderK3sConfig(cfg, i[1])
            BY <2>1, <3>3 DEF ContractInv, K3sInv
        <3>5. cfg.plan.wg => wgFile[i[1]] = MeshOf(cfg)
            BY <2>1, <3>3 DEF ContractInv, MeshInv, MeshReady
        <3> QED
            BY <3>2, <3>3, <3>4, <3>5 DEF Content
    <2>9. Contract!Commit
        BY <2>2, <2>7, <2>8 DEF Contract!Commit
    <2> QED
        BY <2>9 DEF Contract!Next
<1>11. CASE RemoveResource
    <2>1. phase = "remove" /\ tf' = Absent /\ op' = "none" /\ UNCHANGED <<wgFile, k3sFile>>
        BY <1>11 DEF RemoveResource, EndCall, wireguard, k3s
    <2>2. FilesWanted = Absent /\ FilesWanted' = Absent /\ FilesSaved' = Absent /\ UNCHANGED Content
        BY <2>1 DEF FilesWanted, FilesSaved, Content, ContractInv, K3sInv, Busy
    <2>3. CASE FilesSaved = Absent
        BY <2>2, <2>3 DEF Contract!vars
    <2>4. CASE FilesSaved # Absent
        <3>1. Contract!Forget
            BY <2>2, <2>4 DEF Contract!Forget
        <3> QED
            BY <3>1 DEF Contract!Next
    <2> QED
        BY <2>3, <2>4
<1>12. CASE Destroy
    <2>1. UNCHANGED <<tf, wgFile, k3sFile>> /\ op' = "delete" /\ op \notin {"create", "update"}
        BY <1>12 DEF Destroy, ContractInv, K3sInv, Busy, wireguard, k3s
    <2>2. UNCHANGED FilesSaved
        BY <2>1 DEF FilesSaved
    <2>3. UNCHANGED FilesWanted
        BY <2>1 DEF FilesWanted
    <2>4. UNCHANGED Content
        BY <2>1 DEF Content
    <2> QED
        BY <2>2, <2>3, <2>4 DEF Contract!vars
<1>13. CASE Failure
    BY <1>13, EndsUnsaved DEF Failure, wireguard, k3s
<1>14. ASSUME NEW n \in Nodes, SkipNode(n)
       PROVE  [Contract!Next]_(Contract!vars)
    BY <1>14, Stutter DEF SkipNode, wireguard, k3s
<1>15. ASSUME NEW n \in Nodes, Reboot(n)
       PROVE  [Contract!Next]_(Contract!vars)
    BY <1>15, Stutter DEF Reboot, call
<1>16. ASSUME NEW n \in Nodes, NEW t \in Tokens, RotateToken(n, t)
       PROVE  [Contract!Next]_(Contract!vars)
    BY <1>16, Stutter DEF RotateToken, call, wireguard
<1>17. CASE UNCHANGED vars
    BY <1>17, Stutter DEF vars, call, wireguard, k3s
<1> QED
    BY <1>1, <1>2, <1>3, <1>4, <1>5, <1>6, <1>7, <1>8, <1>9, <1>10, <1>11, <1>12, <1>13, <1>14, <1>15, <1>16, <1>17
       DEF Next, ProviderStep, UserStep, Event

LEMMA ContractInit == Init => Contract!Init
<1> SUFFICES ASSUME Init PROVE Contract!Init
    OBVIOUS
<1>1. \A i \in Items : Content[i] = Absent
    BY ItemShape DEF Init, Content
<1>2. Content = [i \in Items |-> Absent]
    BY <1>1 DEF Content
<1>3. FilesSaved = Absent /\ FilesWanted = Absent
    BY DEF Init, FilesSaved, FilesWanted
<1> QED
    BY <1>2, <1>3 DEF Contract!Init

\* The resource implements Deployment: whatever fails or reboots and whenever,
\* state only ever describes files one call wrote and that were all in place
\* when it was saved, and nothing but a call writes them
\* (cluster_resource.go:75-142).
THEOREM ClusterImplements == Spec => ImplementsContract
<1>1. Init => Contract!Init
    BY ContractInit
<1>2. ContractInv /\ [Next]_vars => [Contract!Next]_(Contract!vars)
    BY ContractStep
<1> QED
    BY <1>1, <1>2, ContractInvariant, PTL DEF Spec, ImplementsContract, Contract!Spec

-----------------------------------------------------------------------------
(* After a call that succeeded *)

\* SavedMeansApplied, and the files the interfaces come up from again.
AppliedInv ==
    phase = "idle" /\ result = "ok" =>
        /\ tf \in Saved
        /\ \A n \in tf.plan.nodes :
              /\ tf.plan.wg => /\ wgFile[n] = MeshOf(tf)
                              /\ InMesh(tf, n)
              /\ k3sFile[n] = RenderK3sConfig(tf, n)

\* A call is under way after the step, or ended without success.
LEMMA AppliedElse ==
    ASSUME phase' # "idle" \/ result' # "ok"
    PROVE  AppliedInv'
BY DEF AppliedInv

LEMMA AppliedStep == ContractInv /\ AppliedInv /\ [Next]_vars => AppliedInv'
<1> SUFFICES ASSUME ContractInv, AppliedInv, [Next]_vars PROVE AppliedInv'
    OBVIOUS
<1>t. TypeOK
    BY DEF ContractInv, TypeInv
<1>1. ASSUME NEW c \in Configs, NEW known \in TokenKnown, Apply(c, known)
      PROVE  AppliedInv'
    BY <1>1, AppliedElse DEF Apply
<1>2. ASSUME NEW n \in Nodes,
             \/ PrepareNode(n) \/ UploadWireGuard(n) \/ ActivateWireGuard(n) \/ FirewallNode(n)
             \/ WriteK3sConfig(n) \/ StopNode(n) \/ SkipNode(n)
      PROVE  AppliedInv'
    BY <1>2, AppliedElse DEF PrepareNode, UploadWireGuard, ActivateWireGuard, FirewallNode,
        WriteK3sConfig, StopNode, SkipNode, Advance, AfterMesh
<1>3. ASSUME NEW n \in Nodes, CheckNode(n)
      PROVE  AppliedInv'
    BY <1>3, AppliedElse DEF CheckNode, Advance, AfterMesh, EndCall
<1>4. ASSUME NEW n \in Nodes, StartK3s(n)
      PROVE  AppliedInv'
    BY <1>4, AppliedElse DEF StartK3s, Advance, EndCall
<1>5. CASE Finish
    <2>1. /\ phase = "finish" /\ Busy /\ UNCHANGED <<wgFile, wgLive, k3sFile>>
          /\ tf' = [plan |-> [cfg.plan EXCEPT !.sorted = TRUE], token |-> cfg.token, keys |-> cfg.keys,
                    tainted |-> op = "create" /\ ~cfg.plan.sorted]
        BY <1>5 DEF Finish, Busy, wireguard, k3s
    <2> DEFINE plan == [cfg.plan EXCEPT !.sorted = TRUE]
    <2>2. cfg \in Expanded /\ cfg.plan \in Config
        BY <2>1, Wanted DEF Expanded
    <2>3. /\ plan \in Config
          /\ plan.nodes = cfg.plan.nodes /\ plan.servers = cfg.plan.servers
          /\ plan.wg = cfg.plan.wg /\ plan.opts = cfg.plan.opts
        BY <2>2 DEF Config
    <2>4. tf' \in Saved
        BY <2>1, <2>2, <2>3 DEF Saved, Expanded
    <2>5. tf'.plan = plan /\ tf'.token = cfg.token /\ tf'.keys = cfg.keys
        BY <2>1
    <2> HIDE DEF plan
    <2>6. MeshOf(tf') = MeshOf(cfg)
        BY <2>3, <2>5 DEF MeshOf
    <2>7. \A n : RenderK3sConfig(tf', n) = RenderK3sConfig(cfg, n)
        BY <2>3, <2>5, RenderDepends
    <2>8. \A n \in cfg.plan.nodes : k3sFile'[n] = RenderK3sConfig(cfg, n)
        BY <2>1 DEF ContractInv, K3sInv
    <2>9. cfg.plan.wg => \A n \in cfg.plan.nodes :
              /\ wgFile'[n] = MeshOf(cfg)
              /\ InMesh(cfg, n) /\ wgLive'[n] = wgLive[n]
        BY <2>1 DEF ContractInv, MeshInv, MeshReady
    <2>10. cfg.plan.wg => \A n \in cfg.plan.nodes : wgFile'[n] = MeshOf(tf') /\ InMesh(tf, n)'
        BY <2>3, <2>5, <2>6, <2>9 DEF InMesh
    <2> QED
        BY <2>3, <2>4, <2>5, <2>7, <2>8, <2>10 DEF AppliedInv
<1>6. CASE RemoveResource \/ Failure
    BY <1>6, AppliedElse DEF RemoveResource, Failure, EndCall
<1>7. CASE Destroy
    BY <1>7, AppliedElse DEF Destroy
<1>8. ASSUME NEW n \in Nodes, Reboot(n)
      PROVE  AppliedInv'
    <2>1. UNCHANGED <<phase, result, tf, wgFile, k3sFile>>
        BY <1>8 DEF Reboot, call
    <2>2. wgLive' = [wgLive EXCEPT ![n] =
              IF @ = Absent \/ wgFile[n] = Absent THEN @ ELSE Up(wgFile[n], n)]
        BY <1>8 DEF Reboot
    <2>3. ASSUME phase = "idle", result = "ok", NEW m \in tf.plan.nodes, tf.plan.wg
          PROVE  InMesh(tf, m)'
        <3>1. tf \in Saved /\ m \in Nodes /\ wgFile[m] = MeshOf(tf) /\ InMesh(tf, m)
            BY <2>3 DEF AppliedInv, Saved, Config
        <3>2. CASE m # n
            <4>1. wgLive'[m] = wgLive[m]
                BY <1>t, <2>2, <3>1, <3>2 DEF TypeOK
            <4> QED
                BY <2>1, <3>1, <4>1 DEF InMesh, MeshOf
        <3>3. CASE m = n
            <4>1. wgFile[n] \in Mesh
                <5>1. wgLive[n] \in Interface /\ wgLive[n].mesh = wgFile[n]
                    BY <1>t, <3>1, <3>3 DEF TypeOK, InMesh
                <5> QED
                    BY <5>1 DEF Interface
            <4>2. wgLive'[n] = Up(MeshOf(tf), n)
                BY <1>t, <2>2, <3>1, <3>3, <4>1, NullAssumption DEF TypeOK, InMesh
            <4>3. Up(MeshOf(tf), n) \in Interface
                BY <3>1, <3>3, <4>1, UpType
            <4>4. Up(MeshOf(tf), n).mesh = MeshOf(tf) /\ Up(MeshOf(tf), n).addr = Rank(tf.plan.nodes, n)
                BY DEF Up, MeshOf
            <4> QED
                BY <2>1, <3>3, <4>2, <4>3, <4>4, NullAssumption DEF InMesh, MeshOf
        <3> QED
            BY <3>2, <3>3
    <2> QED
        BY <2>1, <2>3 DEF AppliedInv
<1>9. ASSUME NEW n \in Nodes, NEW t \in Tokens, RotateToken(n, t)
      PROVE  AppliedInv'
    BY <1>9 DEF RotateToken, call, wireguard, AppliedInv, InMesh
<1>10. CASE UNCHANGED vars
    BY <1>10 DEF vars, call, wireguard, k3s, AppliedInv, InMesh
<1> QED
    BY <1>1, <1>2, <1>3, <1>4, <1>5, <1>6, <1>7, <1>8, <1>9, <1>10
       DEF Next, ProviderStep, UserStep, Event

\* What is in state after a call that succeeded is on every node, and stays so
\* through reboots and token rotations, although the files were written one by
\* one and some interfaces were only synchronised (cluster_resource.go:144-223).
THEOREM ClusterSavedMeansApplied == Spec => []SavedMeansApplied
<1>1. Init => AppliedInv
    BY DEF Init, AppliedInv
<1>2. AppliedInv => SavedMeansApplied
    BY DEF AppliedInv, SavedMeansApplied
<1> QED
    BY <1>1, <1>2, AppliedStep, ContractInvariant, PTL DEF Spec

-----------------------------------------------------------------------------
(* The warning of a token rotation *)

\* RotationWarned, for the whole call.
WarnedInv ==
    /\ op \in {"create", "update"} <=> Busy
    /\ op = "update" => tf # Absent
    /\ op = "update" /\ cfg.token # tf.token => warned

\* A token that differs from the one in state was configured.
LEMMA RotatingToken ==
    ASSUME TypeOK, tf # Absent, NEW c \in Config, NEW fresh,
           ExpandClusterConfig(c, fresh).token # tf.token
    PROVE  TokenRotates(c, TRUE)
<1>1. tf.token \in Token /\ tf.token # NoToken
    BY NullAssumption DEF TypeOK, Saved
<1>2. ExpandClusterConfig(c, fresh).token = ResolveToken(c.token, tf.token, fresh)
    BY DEF ExpandClusterConfig, PriorToken
<1>3. c.token # NoToken /\ c.token # tf.token
    BY <1>1, <1>2 DEF ResolveToken
<1> QED
    BY <1>1, <1>3 DEF TokenRotates, PriorToken

LEMMA WarnedStep ==
    ASSUME TokenKnown \subseteq {TRUE}, TypeInv, WarnedInv, [Next]_vars
    PROVE  WarnedInv'
<1>1. ASSUME NEW c \in Configs, NEW known \in TokenKnown, Apply(c, known)
      PROVE  WarnedInv'
    <2>1. c \in Config /\ known = TRUE /\ TypeOK
        BY ConfigAssumption DEF TypeInv
    <2>2. /\ cfg' = ExpandClusterConfig(c, run + 1) /\ tf' = tf /\ phase' = "prepare"
          /\ op' = IF tf = Absent THEN "create" ELSE "update"
          /\ warned' = TokenRotates(c, known)
        BY <1>1 DEF Apply
    <2>3. op' = "update" /\ cfg'.token # tf'.token => TokenRotates(c, TRUE)
        BY <2>1, <2>2, RotatingToken
    <2> QED
        BY <2>1, <2>2, <2>3 DEF WarnedInv, Busy
<1>2. ASSUME UNCHANGED <<tf, op, cfg, warned>>, Busy <=> Busy'
      PROVE  WarnedInv'
    BY <1>2 DEF WarnedInv
<1>3. ASSUME op' \in {"none", "delete"}, ~Busy'
      PROVE  WarnedInv'
    BY <1>3 DEF WarnedInv
<1>4. ASSUME NEW n \in Nodes,
             \/ PrepareNode(n) \/ UploadWireGuard(n) \/ ActivateWireGuard(n) \/ FirewallNode(n)
             \/ WriteK3sConfig(n) \/ StopNode(n) \/ SkipNode(n)
      PROVE  WarnedInv'
    BY <1>2, <1>4 DEF PrepareNode, UploadWireGuard, ActivateWireGuard, FirewallNode,
        WriteK3sConfig, StopNode, SkipNode, Advance, AfterMesh, Busy
<1>5. ASSUME NEW n \in Nodes, CheckNode(n)
      PROVE  WarnedInv'
    BY <1>2, <1>3, <1>5 DEF CheckNode, Advance, AfterMesh, EndCall, Busy
<1>6. ASSUME NEW n \in Nodes, StartK3s(n)
      PROVE  WarnedInv'
    BY <1>2, <1>3, <1>6 DEF StartK3s, Advance, EndCall, Busy
<1>7. CASE Finish \/ RemoveResource \/ Failure \/ Destroy
    BY <1>3, <1>7 DEF Finish, RemoveResource, Failure, Destroy, EndCall, Busy
<1>8. ASSUME NEW n \in Nodes, Reboot(n) \/ \E t \in Tokens : RotateToken(n, t)
      PROVE  WarnedInv'
    BY <1>2, <1>8 DEF Reboot, RotateToken, call, Busy
<1>9. CASE UNCHANGED vars
    BY <1>2, <1>9 DEF vars, call, Busy
<1> QED
    BY <1>1, <1>4, <1>5, <1>6, <1>7, <1>8, <1>9 DEF Next, ProviderStep, UserStep, Event

\* Where the token is known when the plan is made, no update replaces the
\* token in state without the warning (cluster_resource.go:64, k3s.go:26-29).
THEOREM ClusterRotationWarned ==
    ASSUME TokenKnown \subseteq {TRUE}
    PROVE  Spec => []RotationWarned
<1>1. Init => WarnedInv
    BY DEF Init, WarnedInv, Busy
<1>2. TypeInv /\ WarnedInv /\ [Next]_vars => WarnedInv'
    BY WarnedStep
<1>3. WarnedInv => RotationWarned
    BY DEF WarnedInv, RotationWarned
<1> QED
    BY <1>1, <1>2, <1>3, TypeInvariant, PTL DEF Spec
===============================================================================
