---------------------------- MODULE ClusterResource ----------------------------
(***************************************************************************)
(* The vpsk3s_cluster resource (internal/provider/cluster_resource.go): the *)
(* calls Terraform makes, the SSH steps an apply takes node by node, what   *)
(* they leave on the nodes, and what is saved in Terraform state.           *)
(*                                                                         *)
(* One apply visits the nodes phase by phase, in the order of their keys:   *)
(*                                                                         *)
(*   prepare/activate -> check -> firewall -> install/start -> finish       *)
(*                                                                         *)
(* Nothing is saved before the last step, and any step may fail.            *)
(*                                                                         *)
(* Node keys (hostname or public IP) are numbers; < is the order of         *)
(* sort.Strings.  A secret the provider generates is named by the number of *)
(* the call that generated it.                                              *)
(***************************************************************************)
EXTENDS Integers, FiniteSets

CONSTANTS
    Nodes,       \* the keys of the nodes that exist
    Configs,     \* the resource configurations the user may apply
    Tokens,      \* the values k3s.token may be given
    Opts,        \* what else is rendered into config.yaml (dns, disable, ...)
    TokenKnown,  \* whether k3s.token is known when the plan is made
    Events,      \* what may go wrong or be done outside the provider
    MaxRuns,     \* bound on the number of Create and Update calls
    MaxEvents,   \* bound on the number of events
    NoToken,     \* the empty token
    Absent,      \* no file, no unit, no resource in state
    Stopped      \* an installed unit that is not active

\* Sorting the keys of any nodes puts one of them first.
ASSUME NodesAssumption ==
    /\ Nodes \subseteq Nat \ {0}
    /\ IsFiniteSet(Nodes)
    /\ \A S \in (SUBSET Nodes) \ {{}} : \E n \in S : \A m \in S : n <= m

ASSUME BoundsAssumption ==
    /\ MaxRuns \in Nat
    /\ MaxEvents \in Nat
    /\ Events \subseteq {"failure", "reboot", "rotate", "destroy"}
    /\ TokenKnown \subseteq BOOLEAN

Token == Tokens \cup Nat
Keys == [Nodes -> Nat]                \* 0: no key
Roles == {"server", "agent"}

\* What the provider reads of a configuration.  sorted: the nodes are listed
\* in the order of their keys.
Config == [nodes : SUBSET Nodes, servers : SUBSET Nodes, token : Tokens \cup {NoToken},
           wg : BOOLEAN, firewall : BOOLEAN, opts : Opts, sorted : BOOLEAN]

ASSUME ConfigAssumption == Configs \subseteq {c \in Config : c.servers \subseteq c.nodes}

\* A ClusterConfig: the configuration and its secrets.
Expanded == [plan : Config, token : Token, keys : Keys]
Saved == [plan : Config, token : Token, keys : Keys, tainted : BOOLEAN]

\* The WireGuard files of the nodes differ only in whose they are: each holds
\* the address and key of its node, and those of every other node as peers.
Mesh == [nodes : SUBSET Nodes, keys : Keys]
\* What the kernel has: keys and peers, the address, and the addresses routed
\* to the interface.
Interface == [mesh : Mesh, addr : Nat, routes : SUBSET Nat]

Address == [wg : BOOLEAN, host : Nat]
K3sConfig == [init : BOOLEAN, server : Nodes, url : Address, token : Token,
              ip : Address, role : Roles, opts : Opts]

ASSUME NullAssumption ==
    /\ NoToken \notin Token
    /\ Absent # Stopped
    /\ \A null \in {Absent, Stopped} : null \notin Expanded \cup Saved \cup Mesh \cup Interface \cup K3sConfig

VARIABLES
    tf,       \* the resource in Terraform state, or Absent
    op,       \* the call under way: "none", "create", "update" or "delete"
    phase,    \* where the call is
    todo,     \* the nodes this phase has not finished
    cfg,      \* the ClusterConfig of the call under way
    same,     \* installK3s: config.yaml was found unchanged
    warned,   \* the plan of this call warned that the token changes
    result,   \* how the last call ended
    wgFile,   \* /etc/wireguard/<interface>.conf of each node
    wgLive,   \* the interface of each node, Stopped when down, Absent when never enabled
    k3sFile,  \* /etc/rancher/k3s/config.yaml of each node
    unit,     \* what k3s and k3s-agent run with on each node
    member,   \* the etcd cluster a server's datastore belongs to, by its founder
    secret,   \* the token that cluster's datastore is encrypted with
    run,      \* how many Create and Update calls were made
    events    \* how many events happened

call == <<op, phase, todo, cfg, same, warned, result>>
wireguard == <<wgFile, wgLive>>
k3s == <<k3sFile, unit, member, secret>>
vars == <<tf, call, wireguard, k3s, run, events>>

Init ==
    /\ tf = Absent
    /\ op = "none" /\ phase = "idle" /\ todo = {} /\ cfg = Absent
    /\ same = FALSE /\ warned = FALSE /\ result = "none"
    /\ wgFile = [n \in Nodes |-> Absent]
    /\ wgLive = [n \in Nodes |-> Absent]
    /\ k3sFile = [n \in Nodes |-> Absent]
    /\ unit = [n \in Nodes |-> [r \in Roles |-> Absent]]
    /\ member = [n \in Nodes |-> 0]
    /\ secret = [n \in Nodes |-> NoToken]
    /\ run = 0 /\ events = 0

-----------------------------------------------------------------------------
(* From a configuration to what is rendered on the nodes *)

\* validatePlan: an odd number of servers (models, roles and names are sets).
ValidPlan(c) == Cardinality(c.servers) % 2 = 1

FirstServer(c) == CHOOSE n \in c.servers : \A m \in c.servers : n <= m
RoleOf(c, n) == IF n \in c.servers THEN "server" ELSE "agent"

\* assignWireGuardIPs gives the i-th node of the sorted list the i-th address.
Rank(S, n) == Cardinality({m \in S : m <= n})

\* Mutant: no token is generated.
ResolveTokenWithoutFresh(configured, prior, fresh) ==
    IF configured # NoToken THEN configured ELSE prior

\* resolveK3sToken, and the fresh token when it returns none.
ResolveToken(configured, prior, fresh) ==
    CASE configured # NoToken -> configured
      [] configured = NoToken /\ prior # NoToken -> prior
      [] OTHER -> fresh

\* Mutant: the keys in state are not read back.
ResolveNewKeys(c, prior, fresh) ==
    [n \in Nodes |-> IF c.wg /\ n \in c.nodes THEN fresh ELSE 0]

\* The key in state, or a new one.
ResolveKeys(c, prior, fresh) ==
    [n \in Nodes |-> CASE ~c.wg \/ n \notin c.nodes -> 0
                       [] c.wg /\ n \in c.nodes /\ prior[n] # 0 -> prior[n]
                       [] OTHER -> fresh]

PriorToken == IF tf = Absent THEN NoToken ELSE tf.token
PriorKeys == IF tf = Absent THEN [n \in Nodes |-> 0] ELSE tf.keys

ExpandClusterConfig(c, fresh) ==
    [plan |-> c,
     token |-> ResolveToken(c.token, PriorToken, fresh),
     keys |-> ResolveKeys(c, PriorKeys, fresh)]

\* Mutant: the token configured before is compared, not the one in state.
ConfiguredTokenChanges(c, known) ==
    /\ known /\ tf # Absent /\ c.token # NoToken
    /\ tf.plan.token # NoToken /\ c.token # tf.plan.token

\* k3sTokenRotates on what ModifyPlan sees: an unknown token counts as none.
TokenRotates(c, known) ==
    known /\ c.token # NoToken /\ PriorToken # NoToken /\ c.token # PriorToken

MeshOf(x) == [nodes |-> x.plan.nodes, keys |-> x.keys]

AddressOf(c, n) == [wg |-> c.wg, host |-> IF c.wg THEN Rank(c.nodes, n) ELSE n]

\* Mutant: every server is told to found a cluster.
RenderInitOnServers(x, n) ==
    LET first == FirstServer(x.plan)
    IN  [init |-> n \in x.plan.servers,
         server |-> first, url |-> AddressOf(x.plan, first),
         token |-> x.token, ip |-> AddressOf(x.plan, n),
         role |-> RoleOf(x.plan, n), opts |-> x.plan.opts]

RenderK3sConfig(x, n) ==
    LET first == FirstServer(x.plan)
    IN  [init |-> n \in x.plan.servers /\ n = first,
         server |-> first, url |-> AddressOf(x.plan, first),
         token |-> x.token, ip |-> AddressOf(x.plan, n),
         role |-> RoleOf(x.plan, n), opts |-> x.plan.opts]

-----------------------------------------------------------------------------
(* The course of a call *)

Turn(n) == n \in todo /\ \A m \in todo : n <= m

\* n is finished: the next node of the phase, or the next phase.
Advance(n, here, next) ==
    IF todo = {n}
    THEN phase' = next /\ todo' = (IF next \in {"finish", "remove"} THEN {} ELSE cfg.plan.nodes)
    ELSE phase' = here /\ todo' = todo \ {n}

AfterMesh == IF cfg.plan.firewall THEN "firewall" ELSE "install"

Busy == phase \notin {"idle", "delete", "remove"}

EndCall(r) ==
    /\ op' = "none" /\ phase' = "idle" /\ todo' = {} /\ cfg' = Absent
    /\ same' = FALSE /\ warned' = FALSE /\ result' = r

\* terraform apply with a difference between configuration and state: Create
\* or Update.  A tainted resource is destroyed first.
Apply(c, known) ==
    /\ phase = "idle"
    /\ run < MaxRuns
    /\ ValidPlan(c)
    /\ tf # Absent => ~tf.tainted /\ c # tf.plan
    /\ run' = run + 1
    /\ op' = IF tf = Absent THEN "create" ELSE "update"
    /\ phase' = "prepare"
    /\ todo' = c.nodes
    /\ cfg' = ExpandClusterConfig(c, run + 1)
    /\ same' = FALSE
    /\ warned' = TokenRotates(c, known)
    /\ result' = "none"
    /\ UNCHANGED <<tf, wireguard, k3s, events>>

\* Hostname, hosts and system files only: wireguard.enabled is false.
PrepareNode(n) ==
    /\ phase = "prepare" /\ ~cfg.plan.wg /\ Turn(n)
    /\ Advance(n, "prepare", AfterMesh)
    /\ UNCHANGED <<tf, op, cfg, same, warned, result, wireguard, k3s, run, events>>

\* configureWireGuard, first half: the file is uploaded on every apply.
UploadWireGuard(n) ==
    /\ phase = "prepare" /\ cfg.plan.wg /\ Turn(n)
    /\ wgFile' = [wgFile EXCEPT ![n] = MeshOf(cfg)]
    /\ phase' = "activate"
    /\ UNCHANGED <<tf, op, todo, cfg, same, warned, result, wgLive, k3s, run, events>>

\* Mutant: only a link that is down is restarted.
NeedsRestartWhenDown(live, addr) == live \in {Absent, Stopped}

\* wg-quick up (external) configures the interface and its peers from the file
\* of n, and routes the allowed address of every peer to it.
Up(file, n) ==
    [mesh |-> file, addr |-> Rank(file.nodes, n),
     routes |-> {Rank(file.nodes, m) : m \in file.nodes \ {n}}]

\* wireGuardNeedsRestart
NeedsRestart(live, addr) == live \in {Absent, Stopped} \/ live.addr # addr

\* configureWireGuard, second half: a restart brings the interface up from
\* the file; wg syncconf replaces keys and peers, and keeps address and routes.
ActivateWireGuard(n) ==
    /\ phase = "activate" /\ Turn(n)
    /\ wgLive' = [wgLive EXCEPT ![n] =
           IF NeedsRestart(@, Rank(cfg.plan.nodes, n)) THEN Up(wgFile[n], n)
           ELSE [@ EXCEPT !.mesh = wgFile[n]]]
    /\ Advance(n, "prepare", "check")
    /\ UNCHANGED <<tf, op, cfg, same, warned, result, wgFile, k3s, run, events>>

\* A ping from n to the address of m is answered: both know each other's
\* current key, m has the address, and each routes the other's address to its
\* interface.
Reaches(n, m) ==
    LET here == wgLive[n] there == wgLive[m]
    IN  /\ {here, there} \cap {Absent, Stopped} = {}
        /\ {n, m} \subseteq here.mesh.nodes \cap there.mesh.nodes
        /\ here.mesh.keys[m] = there.mesh.keys[m]
        /\ here.mesh.keys[n] = there.mesh.keys[n]
        /\ there.addr = Rank(cfg.plan.nodes, m)
        /\ there.addr \in here.routes /\ here.addr \in there.routes

\* checkWireGuardConnectivity
CheckNode(n) ==
    /\ phase = "check" /\ Turn(n)
    /\ IF \A m \in cfg.plan.nodes \ {n} : Reaches(n, m)
       THEN Advance(n, "check", AfterMesh) /\ UNCHANGED <<op, cfg, same, warned, result>>
       ELSE EndCall("error")
    /\ UNCHANGED <<tf, wireguard, k3s, run, events>>

\* configureFirewall: what it does on the node is the Firewall module.
FirewallNode(n) ==
    /\ phase = "firewall" /\ Turn(n)
    /\ Advance(n, "firewall", "install")
    /\ UNCHANGED <<tf, op, cfg, same, warned, result, wireguard, k3s, run, events>>

\* installK3s, first half: compare, then upload.
WriteK3sConfig(n) ==
    /\ phase = "install" /\ Turn(n)
    /\ LET conf == RenderK3sConfig(cfg, n)
       IN  /\ same' = (k3sFile[n] = conf)
           /\ k3sFile' = [k3sFile EXCEPT ![n] = conf]
    /\ phase' = "start"
    /\ UNCHANGED <<tf, op, todo, cfg, warned, result, wireguard, unit, member, secret, run, events>>

Active(n, r) == unit[n][r] \notin {Absent, Stopped}

\* Mutant: the unit is not asked whether it is active.
LeavesUnchangedAlone(n, r) == same

LeavesAlone(n, r) == Active(n, r) /\ same

\* K3s (external).  An agent's unit is active as soon as it is started; a
\* server with a datastore needs the token of that datastore; one without
\* founds a cluster (cluster-init) or joins the one at its server URL.
CanStart(n, r, conf) ==
    \/ r = "agent"
    \/ member[n] # 0 /\ secret[member[n]] = conf.token
    \/ member[n] = 0 /\ conf.init
    \/ /\ member[n] = 0 /\ ~conf.init
       /\ Active(conf.server, "server")
       /\ member[conf.server] # 0
       /\ secret[member[conf.server]] = conf.token

Founds(n, conf) == member[n] = 0 /\ conf.init

\* The datastore of n after its server unit started with conf.
Joins(n, conf) ==
    /\ member' = [member EXCEPT ![n] = CASE member[n] # 0 -> member[n]
                                         [] Founds(n, conf) -> n
                                         [] OTHER -> member[conf.server]]
    /\ secret' = IF Founds(n, conf) THEN [secret EXCEPT ![n] = conf.token] ELSE secret

\* installK3s, second half: leave an active unit alone when the file was
\* unchanged, otherwise restart it; run the installer and wait when inactive.
StartK3s(n) ==
    /\ phase = "start" /\ Turn(n)
    /\ LET r == RoleOf(cfg.plan, n) conf == k3sFile[n]
       IN  IF LeavesAlone(n, r)
           THEN /\ Advance(n, "install", "finish")
                /\ UNCHANGED <<op, cfg, same, warned, result, unit, member, secret>>
           ELSE IF CanStart(n, r, conf)
           THEN /\ unit' = [unit EXCEPT ![n][r] = conf]
                /\ IF r = "server" THEN Joins(n, conf) ELSE UNCHANGED <<member, secret>>
                /\ Advance(n, "install", "finish")
                /\ UNCHANGED <<op, cfg, same, warned, result>>
           ELSE /\ unit' = [unit EXCEPT ![n][r] = Stopped]
                /\ EndCall("error")
                /\ UNCHANGED <<member, secret>>
    /\ UNCHANGED <<tf, wireguard, k3sFile, run, events>>

\* Mutant: the token in state is kept where there is one.
FinishWithPriorToken ==
    /\ phase = "finish"
    /\ tf' = [plan |-> [cfg.plan EXCEPT !.sorted = TRUE], keys |-> cfg.keys,
              token |-> IF PriorToken = NoToken THEN cfg.token ELSE PriorToken,
              tainted |-> op = "create" /\ ~cfg.plan.sorted]
    /\ EndCall(IF cfg.plan.sorted THEN "ok" ELSE "error")
    /\ UNCHANGED <<wireguard, k3s, run, events>>

\* Addons, kubeconfig, clusterToState.  The nodes are saved in the order of
\* their keys; Terraform refuses a list that differs from the planned one, and
\* taints what was just created.
Finish ==
    /\ phase = "finish"
    /\ tf' = [plan |-> [cfg.plan EXCEPT !.sorted = TRUE], token |-> cfg.token, keys |-> cfg.keys,
              tainted |-> op = "create" /\ ~cfg.plan.sorted]
    /\ EndCall(IF cfg.plan.sorted THEN "ok" ELSE "error")
    /\ UNCHANGED <<wireguard, k3s, run, events>>

\* Delete: by the user, or as the first half of a replacement.
Destroy ==
    /\ phase = "idle" /\ tf # Absent
    /\ "destroy" \in Events \/ tf.tainted
    /\ op' = "delete" /\ phase' = "delete"
    /\ todo' = tf.plan.nodes
    /\ cfg' = ExpandClusterConfig(tf.plan, run)
    /\ same' = FALSE /\ warned' = FALSE /\ result' = "none"
    /\ UNCHANGED <<tf, wireguard, k3s, run, events>>

StopUnit(u) == IF u = Absent THEN Absent ELSE Stopped

\* bestEffortDelete: the units are stopped; nothing is disabled or removed.
StopNode(n) ==
    /\ phase = "delete" /\ Turn(n)
    /\ unit' = [unit EXCEPT ![n] = [r \in Roles |-> StopUnit(@[r])]]
    /\ wgLive' = [wgLive EXCEPT ![n] = StopUnit(@)]
    /\ Advance(n, "delete", "remove")
    /\ UNCHANGED <<tf, op, cfg, same, warned, result, wgFile, k3sFile, member, secret, run, events>>

RemoveResource ==
    /\ phase = "remove"
    /\ tf' = Absent
    /\ EndCall("destroyed")
    /\ UNCHANGED <<wireguard, k3s, run, events>>

-----------------------------------------------------------------------------
(* Events *)

Happens(e) == e \in Events /\ events < MaxEvents /\ events' = events + 1

\* Mutant: the plan is saved although the call failed.
FailureSaved ==
    /\ Happens("failure")
    /\ phase # "idle"
    /\ tf' = IF Busy THEN [plan |-> cfg.plan, token |-> cfg.token, keys |-> cfg.keys, tainted |-> FALSE] ELSE tf
    /\ EndCall("error")
    /\ UNCHANGED <<wireguard, k3s, run>>

\* A dial, a command or an upload fails, or Terraform is interrupted: the
\* call returns what was saved before it.
Failure ==
    /\ Happens("failure")
    /\ phase # "idle"
    /\ EndCall("error")
    /\ UNCHANGED <<tf, wireguard, k3s, run>>

\* bestEffortDelete passes over a node it cannot reach.
SkipNode(n) ==
    /\ Happens("failure")
    /\ phase = "delete" /\ Turn(n)
    /\ Advance(n, "delete", "remove")
    /\ UNCHANGED <<tf, op, cfg, same, warned, result, wireguard, k3s, run>>

\* systemd starts the enabled units from their files, also those a destroy
\* stopped.
Reboot(n) ==
    /\ Happens("reboot")
    /\ wgLive' = [wgLive EXCEPT ![n] =
           IF @ = Absent \/ wgFile[n] = Absent THEN @ ELSE Up(wgFile[n], n)]
    /\ LET conf == k3sFile[n]
           up(r) == unit[n][r] # Absent /\ conf # Absent /\ CanStart(n, r, conf)
       IN  /\ unit' = [unit EXCEPT ![n] = [r \in Roles |-> IF up(r) THEN conf ELSE StopUnit(@[r])]]
           /\ IF up("server") THEN Joins(n, conf) ELSE UNCHANGED <<member, secret>>
    /\ UNCHANGED <<tf, call, wgFile, k3sFile, run>>

\* k3s token rotate, on a server of the cluster founded by n.
RotateToken(n, t) ==
    /\ Happens("rotate")
    /\ phase = "idle"
    /\ \E m \in Nodes : Active(m, "server") /\ member[m] = n
    /\ secret[n] # t
    /\ secret' = [secret EXCEPT ![n] = t]
    /\ UNCHANGED <<tf, call, wireguard, k3sFile, unit, member, run>>

-----------------------------------------------------------------------------
ProviderStep ==
    \/ \E n \in Nodes :
          \/ PrepareNode(n)
          \/ UploadWireGuard(n)
          \/ ActivateWireGuard(n)
          \/ CheckNode(n)
          \/ FirewallNode(n)
          \/ WriteK3sConfig(n)
          \/ StartK3s(n)
          \/ StopNode(n)
    \/ Finish
    \/ RemoveResource

UserStep ==
    \/ \E c \in Configs, known \in TokenKnown : Apply(c, known)
    \/ Destroy

Event ==
    \/ Failure
    \/ \E n \in Nodes : SkipNode(n)
    \/ \E n \in Nodes : Reboot(n)
    \/ \E n \in Nodes, t \in Tokens : RotateToken(n, t)

Next == ProviderStep \/ UserStep \/ Event

Spec == Init /\ [][Next]_vars

\* A call that was made runs on.
FairSpec == Spec /\ WF_vars(ProviderStep)

\* And the user applies again until there is nothing to apply.
RetrySpec == FairSpec /\ WF_vars(UserStep)

-----------------------------------------------------------------------------
(* Properties *)

TypeOK ==
    /\ tf \in Saved \cup {Absent}
    /\ op \in {"none", "create", "update", "delete"}
    /\ phase \in {"idle", "prepare", "activate", "check", "firewall", "install", "start",
                  "finish", "delete", "remove"}
    /\ todo \in SUBSET Nodes
    /\ cfg \in Expanded \cup {Absent}
    /\ same \in BOOLEAN /\ warned \in BOOLEAN
    /\ result \in {"none", "ok", "error", "destroyed"}
    /\ wgFile \in [Nodes -> Mesh \cup {Absent}]
    /\ wgLive \in [Nodes -> Interface \cup {Absent, Stopped}]
    /\ k3sFile \in [Nodes -> K3sConfig \cup {Absent}]
    /\ unit \in [Nodes -> [Roles -> K3sConfig \cup {Absent, Stopped}]]
    /\ member \in [Nodes -> Nodes \cup {0}]
    /\ secret \in [Nodes -> Token \cup {NoToken}]
    /\ run \in Nat /\ events \in Nat

\* The interface of n is up with the address, the keys and the peers of x.
InMesh(x, n) ==
    /\ wgLive[n] \notin {Absent, Stopped}
    /\ wgLive[n].mesh = MeshOf(x)
    /\ wgLive[n].addr = Rank(x.plan.nodes, n)

\* K3s is only installed over a mesh that works: once the WireGuard phase is
\* over, the interface of every node is up with the address and the keys of
\* this call, although some were restarted and others only synchronised; and
\* once every node was checked, every two nodes reach each other, although any
\* may have rebooted since.
MeshAgreement ==
    Busy /\ phase \notin {"prepare", "activate"} /\ cfg.plan.wg =>
        \A n \in cfg.plan.nodes :
            /\ InMesh(cfg, n)
            /\ phase # "check" => \A m \in cfg.plan.nodes \ {n} : Reaches(n, m)

\* "Internal sensitive attributes are stored in state for idempotency"
\* (docs/resources/cluster.md:221): whatever was half done or lost, two nodes
\* of the cluster in state that are peers know the keys that are in state.
KeysMatchState ==
    tf # Absent /\ tf.plan.wg =>
        \A n, m \in tf.plan.nodes :
            wgLive[n] \notin {Absent, Stopped} /\ m \in wgLive[n].mesh.nodes =>
                wgLive[n].mesh.keys[m] = tf.keys[m]

\* After a call that succeeded, what Terraform has in state is on the nodes.
SavedMeansApplied ==
    phase = "idle" /\ result = "ok" =>
        \A n \in tf.plan.nodes :
            /\ tf.plan.wg => InMesh(tf, n)
            /\ k3sFile[n] = RenderK3sConfig(tf, n)

\* "Add `agent` nodes when you want additional worker capacity without adding
\* more control-plane members." (docs/resources/cluster.md:62)  No apply finds
\* the mesh it has just configured unreachable when nothing else went wrong.
ConfiguredMeshReaches ==
    [][phase = "check" /\ phase' = "idle" => events' # events]_vars

\* No split brain: all datastores belong to one cluster.
OneCluster ==
    \A n, m \in Nodes : member[n] # 0 /\ member[m] # 0 => member[n] = member[m]

\* "The plan shows a warning when token differs from the token in state."
\* (docs/resources/cluster.md:105)
RotationWarned ==
    Busy /\ op = "update" /\ cfg.token # tf.token => warned

\* "Every node gets the new token and restarts K3s." (cluster.md:102)
\* "... so K3s restarts once on each node." (cluster.md:124)
\* After a call that succeeded, the units run with the file they were given.
AppliedIsRunning ==
    phase = "idle" /\ result = "ok" =>
        \A n \in tf.plan.nodes : unit[n][RoleOf(tf.plan, n)] = k3sFile[n]

\* "Internal sensitive attributes are stored in state for idempotency:
\* k3s_token, ..." (cluster.md:221)  With a token the provider generates, no
\* apply makes K3s fail to start: the token on the nodes is never lost.
GeneratedTokenStarts ==
    [][phase = "start" /\ phase' = "idle" /\ events' = events => cfg.plan.token # NoToken]_vars

\* The files of the nodes, as Deployment sees them.
Items == Nodes \X {"mesh", "k3s"}
Content == [i \in Items |-> IF i[2] = "mesh" THEN wgFile[i[1]] ELSE k3sFile[i[1]]]

ASSUME FilesAssumption == \A S \in SUBSET Items : Absent \notin [S -> Mesh \cup K3sConfig]

\* What the files of the nodes of x are to be.
TargetOf(x) ==
    [i \in x.plan.nodes \X (IF x.plan.wg THEN {"mesh", "k3s"} ELSE {"k3s"}) |->
        IF i[2] = "mesh" THEN MeshOf(x) ELSE RenderK3sConfig(x, i[1])]

\* What state says of the files, and what the call under way wants of them.
FilesSaved == IF tf = Absent THEN Absent ELSE TargetOf(tf)
FilesWanted == IF op \in {"create", "update"} THEN TargetOf(cfg) ELSE Absent

Contract == INSTANCE Deployment WITH
    None <- Absent, saved <- FilesSaved, wanted <- FilesWanted, content <- Content

\* All or nothing: state only ever describes files that one call wrote and
\* that were all in place when it ended, although a call may stop between any
\* two files, and only calls write files.
ImplementsContract == Contract!Spec

\* With a configured token, failures and reboots that stop at some point leave
\* a cluster that applying again completes.
Converges == <>[](phase = "idle" /\ result = "ok")
===============================================================================
