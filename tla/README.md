# TLA+ models of terraform-provider-k3s-vps-wg

The provider turns existing VPS nodes into a K3s cluster over SSH. One Terraform
resource, `vpsk3s_cluster`, is applied as a long sequence of remote commands: phase by
phase, node by node, with nothing saved before the end. Everything that is hard about it
comes from that shape: an apply can stop between any two commands, nodes reboot and are
changed by hand meanwhile, and the next apply decides what to do from the configuration,
the Terraform state and what little it reads back from the nodes.

There is no concurrency inside the provider; the interleavings are those of one sequential
apply with failures, reboots, manual changes and the user's next apply.

## Inventory

Paths are below `src/internal/provider/`.

| Component | State | Operations | Made correct by |
|---|---|---|---|
| Cluster resource (`cluster_resource.go`) | Terraform state | `ModifyPlan`, `Create`, `Update`, `Delete`, `applyCluster`, `bestEffortDelete` | what is saved is on the nodes; no secret that nodes use is lost; applying again converges |
| Configuration and state (`models.go`) | none; computes `ClusterConfig` from the plan and the prior state | `expandClusterConfig`, `clusterToState`, `firstServer`, `serverURLFor` | secrets are read back before they are generated; the first server stays the founder; the list saved is the list planned |
| Addresses (`ipam.go`) | none; a function | `assignWireGuardIPs`, `addIPv4` | distinct host addresses; the capacity check is exact |
| WireGuard (`wireguard.go`) | on each node: configuration file, interface, its routes | `configureWireGuard`, `wireGuardNeedsRestart`, `checkWireGuardConnectivity` | after the phase all nodes agree on keys and addresses, restarted or not, and reach each other |
| K3s (`k3s.go`) | on each node: `config.yaml`, units, datastore | `configureHostnameAndHosts`, `installK3s`, `renderK3sConfig`, `fetchKubeconfig` | one cluster; units run with the file they were given |
| Firewall (`firewall.go`) | on each node: ufw rules, enabled or not, marker file | `configureFirewall` | an active firewall is complete; a call that succeeds leaves its rules in place |
| Validation (`validators.go`) | none | `validatePlan`, `validateConfig`, ... | refuses what the apply cannot carry out |
| System files (`system.go`) | sysctl file, resolv.conf | `configureSysctl`, `configureK3sResolvConf` | files match the configuration |
| SSH (`ssh.go`) | a connection | `DialSSH`, `Run`, `Upload`, `FileEquals`, `IsActive` | a file is replaced at once; errors are reported |
| Addons (`addons.go`, `helm.go`) | Helm releases | `installTraefik`, `installLonghorn` | repeatable commands |

Interactions: `applyCluster` calls the WireGuard, firewall and K3s steps of each node; they
meet in the files and units of the node. Terraform state carries the token and the keys from
one call to the next. K3s servers meet in their datastores, agents only know their server's URL.

The hazards, each at its line and with the properties about it, are the list `hazards` in
`PROJECT.json`.

## Modules

| Module | Models |
|---|---|
| `Ipam` | `assignWireGuardIPs`: its two loops, one step per iteration |
| `ClusterResource` | the resource: plan, create, update, delete, the phases of an apply and what they leave on the nodes and in state |
| `Deployment` | what the resource promises to Terraform, whatever its steps are; `ClusterResource` implements it |
| `Firewall` | `configureFirewall` on one node, command by command, with the marker file |
| `NodeSystem` | hostname, `/etc/hosts`, sysctl and resolv.conf of one node, remote command by remote command |
| `Addons` | the packaged Traefik switched by `config.yaml`, then the command lines of Traefik, the snapshot support and Longhorn, with the shell's `&&` and `||` |
| `Expansion` | from lists of nodes and admin peers to machines, names, keys, client configs and state, over several calls |
| `MCIpam`, `MCClusterResource`, `MCFirewall`, `MCNodeSystem`, `MCAddons`, `MCExpansion` | values of the constants for TLC |
| `IpamProofs`, `ClusterResourceProofs`, `ContractProofs`, `FirewallProofs`, `NodeSystemProofs`, `AddonsProofs`, `ExpansionProofs` | theorems and their proofs |
| `DataLemmas` | what the proofs need to know of numbers, sequences and sorting |

### Ipam

Names are positions in the sorted lists, an address is a number below `AddrSpace` (2^32 in
the code), offsets are computed modulo `Word` (2^64 in the code). `pc` follows the function;
its ends are a result, one of the function's errors, and the panic of `addIPv4` when a sum
needs a fifth byte. The error "no free IP available" is an end of its own (`exhausted`).

### ClusterResource

A configuration is what the provider reads of it as far as the properties can tell: the set
of nodes, which are servers, the configured token, whether WireGuard and the firewall are on,
whether the nodes are listed in the order of their keys, and one value `opts` for everything
else that is rendered into `config.yaml`. Node keys are numbers; `<` is `sort.Strings`.
A generated secret is named by the number of the call that generated it, so two calls never
generate the same.

| Variables | Of the code |
|---|---|
| `tf` | the resource in Terraform state: configuration, `k3s_token`, `wireguard_private_keys`, tainted or not |
| `op`, `phase`, `todo`, `cfg`, `same`, `warned`, `result` | the call under way: its `ClusterConfig`, the phase of `applyCluster`, the nodes still to visit in it, the local `unchanged` of `installK3s`, the warning of `ModifyPlan` |
| `wgFile`, `wgLive` | the WireGuard file and the kernel interface of each node |
| `k3sFile`, `unit` | `config.yaml`, and what each of the two units runs with |
| `member`, `secret` | the datastore of each server: the cluster it belongs to, and the token that cluster is encrypted with |
| `run`, `events` | counters, bounded by `MaxRuns` and `MaxEvents` |

`Apply` is plan and the beginning of `Create` or `Update`; `UploadWireGuard` and
`ActivateWireGuard` are the two halves of `configureWireGuard`, `WriteK3sConfig` and
`StartK3s` those of `installK3s`: a call can stop between them. `CheckNode` fails the call
when a peer cannot be reached (`Reaches`); `Finish` is the end of `applyCluster`, `clusterToState` and
Terraform's check of the result against the plan. `Destroy`, `StopNode`, `SkipNode` and
`RemoveResource` are `Delete`.

Outside the provider, modelled from how it is used (marked external in `map`):

- K3s (`CanStart`, `Founds`, `Joins`). A server with a datastore starts only with the token
  the datastore is encrypted with (`docs/resources/cluster.md:104-105`); without one it founds
  a cluster under `cluster-init`, or joins a running server that has its token. The unit of an
  agent is active as soon as it is started, whether it can join or not. The K3s installer
  starts the service.
- WireGuard and wg-quick (`Up`). An interface has its keys and peers, its address, and routes.
  wg-quick up, at a restart or a boot, sets all of them from the file; `wg syncconf` only keys and
  peers. Since the interface has a /32 address, a peer that came with `syncconf` has no route.
- systemd (`Reboot`): an enabled unit starts from its file. A unit that systemd restarts by
  itself after a failed start ends like one that a reboot starts.
- Terraform: no call without a difference between configuration and state; an update or
  create whose list of nodes differs from the planned one is an error; a create that ends so
  is tainted and destroyed before the next create; after a failed create nothing is in state.
- The administrator (`RotateToken`): `k3s token rotate` on a running server.

### Deployment

Three variables: what state says of the items on the nodes (`saved`), what the call under way
wants of them (`wanted`), and what they are (`content`). A call begins, writes items with what
it wants and nothing else, and either commits, which it may only do when every item it wants
is in place, or aborts and saves nothing. Forgetting the resource writes nothing. The
refinement in `ClusterResource` (`Contract`) takes the WireGuard file and `config.yaml` of each
node as items, what `expandClusterConfig` makes of state or plan as `saved` and `wanted`
(`TargetOf`), and maps uploads to `Write`, `Finish` to `Commit`, failures and failed checks to
`Abort` and `RemoveResource` to `Forget`; activating, checking, starting, reboots and token
rotations are stutters.

### Firewall

The script is a sequence of groups of `ufw allow` commands; the commands of a group are
independent of each other and added in any order. A call may fail at every command, when it
reads the marker or the status (which then count as different and inactive, as in
`FileEquals`), and when it uploads the marker. `Drift` is the administrator.

`parted` remembers that rules and marker were parted: by hand, or because a script ran whose
marker was not written.

A rule says from where and to what: SSH and the WireGuard port are opened to given addresses, the
tunnel and published ports to anyone, the API to either.

In `ClusterResource` the firewall is only a phase of an apply, which may fail like any other.
No other step reads what it leaves on the node, and `Firewall` shows what that may be.

### NodeSystem

`pc` is the remote command the call is at. `hosts` is the file line by line, a managed block
being three lines (its markers and what it holds); `WithBlock` is the Python script of
`configureHostnameAndHosts` on lines. A command may fail before it ran (`CommandFails`), or run
and lose its answer (`Then`); a read that fails counts as different. `Crash` may leave
`/etc/hosts` truncated (`write_text` truncates) and a file that `install(1)` was replacing
missing or torn, and loads at boot what it finds of the sysctl file. `Drift` is the
administrator between calls; losing a marker line is one of its cases. `damaged` remembers what
a crash or the administrator broke, for the properties that hold only without. The node has a name from the
start, and `hostnamectl` is only called with one.

### Addons

The cluster has one server. `pc` is the part of the call: `config` and `start` are the two halves of
`installK3s`, as in `ClusterResource`, of which the first compares (`same`) and uploads and the second
restarts, or leaves an active unit alone; `run` are the addons. `k3sFile` is what `config.yaml` holds,
`loaded` what K3s last started with: it deploys or removes its own Traefik as it starts, so `Packaged` is
a function of `loaded` (external). `settings` stands for everything else in the file, so that the file
also changes for other reasons. `behind` remembers that a call found the file as it wants it and K3s
running with another, for the property that holds only without.

`chain` is the command line that runs, a sequence of commands each joined by `&&` or `||`, and
`status` the exit status so far; `Due` is the shell's left-to-right evaluation of both, so that
`a && b || true && c` does what it does there. `todo` are the lines still to run. The order in which Go
visits the map of storage classes is any; each manifest is filed under the name of its class (`Manifest`).
Only Traefik is given values. Helm (`Upgradable`, `Upgraded`) keeps the values of a
release when none are given and refuses a chart that is installed in another namespace; the
Kubernetes API (`Appliable`) refuses to change the parameters of a class. Between calls the server may
reboot (`Reboot`), and the administrator removes releases, classes or Helm (`Drift`).

### Expansion

A configuration is the list of nodes with their public IPs, hostnames and roles, whether there is a
mesh, and the admin peers. `Valid` is `validatePlan`; `NodeNames`, `NodeAt` and `NodeName` are the
expansion of the list (`Sorted` is `sort.Strings`), where two nodes of one key are one entry of a
map and two of the list;
`Requests` and `ClientAddresses` are `adminPeerIPRequests`, for `admin_peer` (`Legacy`, with the address
it may ask for, `adminIP`) or `admin_peers`, and the second loop of `assignWireGuardIPs`. Names are numbers in the order of the strings. A key pair is named by the
call and the name it was generated for, or is the given one. A call writes the WireGuard file
of each machine, then its `node-name`, then saves `State` (`clusterToState`); it may fail
between any two machines.

`Aliased` and `Renamed` name the two kinds of lists that `validatePlan` accepts and the code
does not carry out (see "Further disagreements").

## Runs

| Run | Bounds | Question |
|---|---|---|
| `ipam` | 16 addresses, `Word` 64; a /32, a /31, a /30 and a /29; up to 4 nodes and 2 admin peers, every `wg_ip` | addresses distinct, hosts only, never exhausted |
| `cluster` | 3 nodes, 4 configurations, 3 calls, 3 events of all kinds | agreement and reachability of the mesh, keys and state, saved means applied, one cluster, warned of rotation, implements `Deployment` |
| `cluster_retry` | 3 servers, 5 calls, 3 failures or reboots, the token known at plan time or not | applying again converges |
| `firewall` | 3 configurations (two of them with equal scripts), 4 calls, 3 events of all kinds | no call leaves an active firewall incomplete; active, and with its own rules, after success |
| `node_system` | 3 configurations, 2 hostnames, 3 calls, 3 events of all kinds, 2 sysctl keys of which the kernel knows one | files and kernel values after success, one managed block, no line lost, the file K3s is told to use is there |
| `addons` | 4 configurations with 2 settings of `config.yaml`, 4 calls, 3 events of all kinds, 2 snapshot manifests, 2 classes | the Traefik that was asked for, every class, snapshots before Longhorn |
| `expansion` | 16 configurations on 3 machines (5 of them refused), 4 calls, 2 failures, a subnet of 4 hosts | machines have distinct keys, addresses and names and the right peers; no file names an address twice; clients match state; lifecycle of client keys |

The largest are `node_system` with 3,980,761 distinct states, `addons` with 687,523, `expansion` with
567,760, `cluster` with 158,592 and `firewall` with 14,866.

The bounds let the interesting cases happen. Three nodes are the least with a quorum of
servers, with a node before, between and after others, and with an apply that stops when one
node is done and two are not. `Growing` moves through four configurations: a node joins
between the others, which changes an address, and an agent becomes a server; a node leaves,
WireGuard is turned off; the nodes are listed out of order. The first server stays the same in it (`server_sorts_first` shows what
happens when it does not). Three calls are one that fails, one that repairs, and one that
relies on the repair. Sixteen
addresses hold a subnet at the end of the space (sums that overflow), and `Word` is larger
than the space as 2^64 is larger than 2^32.

In `node_system` three calls move between all three configurations (values, dns block and
hostname come and go), and three events are enough for a crash, an edit and a lost answer in one
history. In `addons` two manifests stand for eight (first and last matter), and two keys with
one class name are a configuration of their own. In `expansion` the subnet is full with three
nodes and a client; hostnames include one that looks like an IP and one that looks like
"node-2".

`cluster` does not ask for `AppliedIsRunning` and `ConfiguredMeshReaches`, nor `addons` for
`LonghornApplied`: they do not hold, which is what the following runs show.

What some properties do not say:

- `Converges` is about one configuration that stays: the user repairs, and changes nothing. With nodes
  that come and go it does not hold (`added_node_unreachable`).
- `OneCluster` is checked, and proved, while all configurations have the same first server.
- `MeshAgreement` says of the check that it ends the call when two nodes do not reach each other; that it
  does end calls is `added_node_unreachable`.
- `SysctlApplied`, `DnsApplied`, `HostsApplied`, `MachinesConfigured` and the like are about a call that
  returned no error. `ResolvInPlace`, `HostsApplied` and `UserLinesKept` except files that a crash or the
  administrator broke (`damaged`), `AppliedRulesInPlace` rules parted from their marker (`parted`),
  `TraefikApplied` a K3s that was not restarted (`behind`), `MachinesConfigured`, `ClientsMatch` and
  `NamesDistinct` the lists of `Aliased`, and the last of them those of `Renamed`.

### Where code and documents disagree

Each of these runs checks one statement of the documents, comments or tests, and TLC finds
what the code does instead. `findings` in `PROJECT.json` quotes the lines.

| Run | What the code does |
|---|---|
| `generated_token_lost` | a create that fails after K3s runs forgets the generated token; the next create breaks the server |
| `stale_running_config` | a call that stops between upload and restart is followed by one that reports success and restarts nothing; a switch of the packaged Traefik is lost with it, which `TraefikApplied` excepts (`behind`) |
| `added_node_unreachable` | `wg syncconf` makes no routes: existing nodes cannot reach a node added since, and the check of the apply that adds it fails |
| `server_sorts_first` | a new server that sorts first founds a second cluster |
| `longhorn_swallowed` | the `|| true` of the rollout also swallows a failed `helm repo update` or `helm upgrade`; the apply succeeds without Longhorn |

Two gaps of the token warning were met while modelling and have no run. A token that is
unknown when the plan is made counts as not configured (`TokenRotates`), so the plan cannot
warn; `RotationWarned` is checked for known tokens. And the warning compares with the token in
state: after a failed update some nodes already run with another one, and configuring the one
in state again rewrites it there without a warning.

### Further disagreements met while modelling

These have no run of their own; each is in the modules at the place named, or outside them.

- The capacity of a /32 is computed in unsigned arithmetic and wraps around (`ipam.go:27`), so
  such a subnet passes the check: `Ipam!Usable`, and the exception of /32 in `HostsOnly`.
- `clusterToState` returns the nodes in the order of their keys (`models.go:491`) although `nodes` is a
  list: nodes listed in another order, as in `examples/longhorn/main.tf:34-35`, make Terraform refuse the
  result and taint a resource it just created. `sorted`, `tainted`, and `Shuffled` among the configurations
  of `cluster`.
- Addresses follow the position in the sorted list (`ipam.go:35`): a node that is added or
  removed moves every node that sorts after it, although `docs/resources/cluster.md:78` calls
  addresses stable.
- A firewall rule changed by hand is not repaired while the marker matches and ufw is active
  (`firewall.go:54`), although "remote drift is handled during apply" (`README.md:208`); and a
  marker whose upload failed leaves the older one, which then speaks for other rules
  (`firewall.go:63`). `AppliedRulesInPlace` excepts both with `parted`.
- A hostname equal to the public IP of a node without hostname makes one key of two nodes
  (`models.go:684`); `validatePlan` accepts it and one machine is never visited. `Aliased`.
- A hostname such as `node-2` can be the name the list gives to another node (`models.go:344`),
  and names move with the list. `Renamed`.
- A lost BEGIN marker in `/etc/hosts` makes each apply add another block; a lost END marker
  makes the apply after next drop the lines behind the block (`k3s.go:45-50`). `damaged`.
- The private key of `admin_peer` stays in state when the block is disabled (`models.go:327`,
  `State`).
- A Helm release is never removed: Traefik going from `install` back to `default` leaves both,
  disabling Longhorn leaves it running while `addons_status` says disabled. A `values_yaml` that
  is no longer given keeps its effect (`Upgraded`), and a release cannot change its namespace
  (`Upgradable`).
- `insecure_ignore_host_key = false` uses `ssh.FixedHostKey(nil)` (`ssh.go:25`), which accepts no
  host.

### Fairness

Safety runs assume none. `FairSpec` says that a call runs on: `applyCluster` is sequential
code, every SSH command ends or fails (`Failure`). `RetrySpec` adds that the user applies
again while there is a difference, which is what Terraform is used for; it is an assumption
about the user, not about the code. The number of events is bounded in that run, so failures
stop at some point; `MaxRuns` exceeds the number of failures, so the bound on calls never
hides a call that would be needed.

## Proofs

TLAPS checks, for every value of the constants that satisfies their assumptions (any number
of nodes, any configurations, and no bound on calls and events):

### Address assignment

- `IpamTypeOK`, `IpamDistinct`, `IpamHostsOnly`. The inductive invariant `IInv` adds to the
  types: the i-th node has the i-th address (`NodesInOrder`); in a subnet larger than a /32 the
  capacity check still bounds the nodes, which is a fact about a step long past when the loops
  run (`CapacityHeld`, `CapacityChecked`); and admin addresses are kept apart from each
  other and from the nodes' (`AdminsApart`, `AdminsAreHosts`). Without the bound, nodes could
  reach the broadcast address.
- `IpamNeverExhausted`: the error "no free IP available" cannot happen. `Room` keeps what
  the capacity check counted, all nodes and all requests, and that no request is served twice; so
  fewer addresses are in use than there are hosts, and by counting one of them is free
  (`SomeOffsetFree`).

### The resource

- `ClusterTypeOK`. `CallShape` adds what one step leaves to the next: the uploaded file is
  there when the interface is activated or the unit started, and a call has a server.
- `ClusterMeshAgreement`. `MeshInv` follows the WireGuard phase node by node: the nodes that
  are finished have the file and the interface of this call, those in `todo` may have anything.
  It holds across failures because a call that ends loses all its claims, and across reboots
  because the file has been replaced before the interface. That every two nodes reach each other follows
  for the nodes already checked from the ping itself, and survives a reboot because wg-quick up routes
  every peer of the file.
- `ClusterKeysMatchState`, on top of the two invariants above. `KeysMatchState` is not inductive:
  a reboot or a restart of the interface brings up the file, so `KeysKept` says of the files
  what the property says of the interfaces, and of the call under way that it uses the keys in
  state; for that, keys in state must not be empty (`HasKeys`), or expansion would replace them.
  That a finished call may be saved needs `MeshInv`: all its nodes have its keys by then.
- `ClusterOneCluster`, under a hypothesis: all configurations have one first server `f`
  (`FoundedBy`). `FounderInv` says that no `config.yaml` but that of `f` ever told a node to found a
  cluster, and no datastore belongs to another one. The files have to be in it: a reboot starts
  servers from whatever file an earlier call left. The code does not ensure the hypothesis, and
  `server_sorts_first` shows two clusters without it.
- `ClusterImplements`: `Spec => ImplementsContract`, on top of `TypeInv` and `MeshInv`. `Commit`
  needs to know that every file is in place, which is a fact about all phases: `MeshInv` keeps it for
  the WireGuard files and `K3sInv` for `config.yaml`, node by node, as `todo` shrinks. That a step
  writes only what its call wants needs `todo` to stay within the call's nodes.
- `ClusterSavedMeansApplied`, from the same invariants. `AppliedInv` adds the WireGuard file to the
  property, because a reboot brings the interface up from it.
- `ClusterRotationWarned`, for `TokenKnown \subseteq {TRUE}`: the token of the call and the warning
  are computed from the same prior state, and neither changes during the call.

### One node

- `FirewallTypeOK`, `FirewallAppliedIsActive`, `FirewallAppliedRules`, `FirewallActiveIsComplete`.
  The invariant says what each position of the script knows of the rules: while rules are added, ufw is
  inactive and holds the finished groups and a part of the current one; at the end it
  holds all; and while nothing parted them, an active ufw with a marker has the marker's rules.
- `NodeTypeOK`, `NodeSysctlApplied`, `NodeDnsApplied`, `NodeResolvInPlace`. Each part of the invariant
  says what the commands behind a position of the call rely on. `SysctlInv` needs one fact the
  property does not mention: a call past `sysctl -p` knows that the kernel has every configured key,
  otherwise a boot, which loads the file again, could end with other values. `DnsInv` needs that a
  call which is to write the file has nameservers to write, since `config.yaml` may name the file of
  an earlier call while this one fails.
- `NodeHostsApplied`, `NodeUserLinesKept`, for files of any length. `Shaped` is the inductive
  invariant of an undamaged file: no marker at all, or one BEGIN and one END with at most one line
  between them and only the administrator's lines around. The removal of the block (`WithBlock`) keeps
  that shape and the lines around it in their order (`SelectedConcat`).

### Addons

`AddonsTypeOK`, `AddonsTraefikApplied`, `AddonsClassesApplied`, `AddonsSnapshotsFirst`, for any
number of classes and manifests. One notion carries them all. `Pending(x)` holds of a
command that the call still has to run, with nothing but `&&` behind it, and of a line that has failed
with no `||` left: either the command runs and succeeds or the call fails. Each property is
"pending, or done" for one command, and "done" has to survive the commands that follow: for Traefik
because no later line upgrades it, for classes because two classes of different names do not share a file.
Two classes of one name share it, and then the call fails: the first of them removes the file
(`RemovedInv`), so that not both can be applied (`OneOfTwoInv`). That `|| true` swallows failures is no exception: it stands
before the classes, and everything pending there has nothing but `&&` behind it. For the packaged Traefik
`K3sInv` says, at each position of the call, how `loaded` and `config.yaml` stand: once K3s was started, or
left alone although it was not behind, it runs with what this call wants, and nothing but the next call
or a reboot with the same file changes that.

### Lists of nodes and peers

`ExpansionTypeOK`, `ExpansionMachinesConfigured`, `ExpansionEntriesApart`, `ExpansionNamesDistinct`,
`ExpansionClientsMatch`, `ExpansionGivenKeysNotStored`, `ExpansionGeneratedKeyKept`, for lists of any
length, and `ExpansionRank`, about one list: the address of a node is the rank of its key, as
`ClusterResource` has it. First the
operators: `NodeNames` is the list of identities in another order (`NodeNamesAre`, which rests on
`SortExists`: every list of numbers can be sorted); two keys of an accepted list are two machines with two
addresses (`MachinesDiffer`), and every machine is that of a key when no hostname is the public IP of
another node (`AllMachines`); addresses of clients are hosts, differ from each other and are above those of all nodes (`ClientAddressesAre`, an
induction over the requests). `EntriesApart` is inductive because the file a call writes is such
(`MeshFileApart`): a generated key carries the name of its owner, and nodes and clients share no address. Then the call: `DoneInv` says of each key that its step is still to be done or its machine has
what this call gives it, and stays true because two keys never share a machine and neither state nor the number
of the call changes under it (`MeshFileStays`). `StateInv` says that a key in state was
generated for its owner in an earlier call, which makes the keys of two nodes differ, and that a
config has the key that is stored. `CallInv` keeps what the plan accepted, without which addresses might
not fit.

### Assumptions and limits

Assumptions: `NodesAssumption` (a finite set of positive numbers, each nonempty subset with a
least element, i.e. keys can be sorted), `ConfigAssumption`, `BoundsAssumption` and
`NullAssumption` (null values differ from real ones); `FilesAssumption` (the same for "nothing"
and a function from items to files); for `Ipam`, subnets lie within the address space, which
`net.ParseCIDR` ensures by masking. In `Addons`, only Traefik is given values (`ConfigAssumption`),
and maps of classes are finite and differ from "nothing" (`FiniteAssumption`, `ConstantAssumption`). In `Expansion`, `ListAssumption`: "node-1", "node-2", ...
are different names, one for every position, and maps of peers are finite; `NameAssumption`: names of nodes
and of clients are different numbers, since no code compares the one with the other; `FileAssumption`: "nothing" is no
WireGuard file. In `NodeSystem`, the administrator's lines are neither markers nor blocks
(`ConstantAssumption`); losing a marker is an event of its own.

`TypeOK` and each safety property of a passing run is stated by a theorem. What is only model-checked is
`Converges`: liveness under fairness is outside what the prover can show. The findings are TLC
counterexamples and need no proof.

Facts about recursive functions over a list (`Selected`, `ClientAddresses`) are proved for lists of every length by
induction over a set of numbers: `NatSetInduction` takes the set of lengths for which a fact
holds instead of a predicate, and `IterationExists` gives the function that the recursion defines.

## Not modelled

- Interface name, port and MTU of WireGuard: values no decision of the code depends on.
- The download of the kubeconfig and packages: steps that may fail like any other.
- The syntax of hostnames, sysctl keys and CIDRs in `validatePlan`.
- Packets: what ufw lets through does not influence `Reaches` or `Joins`, because which packets
  pass is the kernel's connection tracking and not this code.
- Attempts that fail inside a command and are completed by it later; a command happens or not,
  except where `NodeSystem` splits it.
- Schema, provider configuration, release tooling: no state.

## Plan

What is left, in the order of its worth:

1. An abstract managed file that the hosts, sysctl and resolv.conf steps of `NodeSystem` and the
   marker of `Firewall` implement, with the refinements proved.
2. `Expansion` as an implementation of what `ClusterResource` assumes of configurations. That ranks are
   addresses is proved (`ExpansionRank`); the calls of the one are still to be mapped to those of the other.
3. The old unit of a node whose role changes and the nodes that leave the list, once a document says
   what is promised of them.
