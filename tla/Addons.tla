--------------------------------- MODULE Addons ---------------------------------
(***************************************************************************)
(* The addons of an apply (internal/provider/addons.go, helm.go), on a       *)
(* cluster of one server: installK3s writes config.yaml, which disables the  *)
(* packaged Traefik or not, and starts or restarts K3s; then shell command   *)
(* lines run on the server, one command after the other, with && and || as   *)
(* the shell reads them, and change Helm, its releases, the snapshot         *)
(* manifests and the storage classes.                                        *)
(*                                                                         *)
(* Helm and the Kubernetes API are not this repository's code: they are      *)
(* modelled as far as the commands depend on them.  Any command may fail,    *)
(* the connection may be lost, and between calls the server reboots and the  *)
(* administrator removes a release, a class or Helm.                         *)
(***************************************************************************)
EXTENDS Integers, Sequences, FiniteSets, SequencesExt

CONSTANTS
    AddonConfigs,    \* what the resource may ask for
    Settings,        \* what else is rendered into config.yaml
    Namespaces, Versions, ValueFiles,
    Newest,          \* the version Helm takes when none is given
    ClassKeys,       \* keys of the storage_classes map
    ClassNames,      \* names of storage classes
    Replicas, Policies,
    DefaultClasses,  \* the classes of a longhorn block without any
    Manifests,       \* the snapshot manifests, in their order
    Events,          \* what may go wrong: "failure", "lost", "drift"
    MaxCalls,        \* bound on the number of calls
    MaxEvents,       \* bound on the number of events
    None             \* not given, or not there

Charts == {"traefik", "longhorn"}
Class == [name : ClassNames, replicas : Replicas, policy : Policies, default : BOOLEAN]
ClassMap == UNION {[K -> Class] : K \in SUBSET ClassKeys}
Chart == [ns : Namespaces, version : Versions \cup {None}, values : ValueFiles \cup {None}]
Release == [ns : Namespaces, version : Versions, values : ValueFiles \cup {None}]

\* Only Traefik can be given values.
ASSUME ConfigAssumption ==
    /\ AddonConfigs \subseteq
           [settings : Settings, disable : BOOLEAN, mode : {"default", "disabled", "install"},
            traefik : Chart, enabled : BOOLEAN, longhorn : Chart, classes : ClassMap]
    /\ \A c \in AddonConfigs : c.longhorn.values = None

\* config.yaml of the server, as far as it depends on the configuration.
K3sConfig == [settings : Settings, disable : BOOLEAN]

ASSUME ConstantAssumption ==
    /\ Newest \in Versions /\ DefaultClasses \in ClassMap
    /\ None \notin Namespaces \cup Versions \cup ValueFiles \cup Release \cup Class \cup K3sConfig
    /\ Manifests \in Seq(Range(Manifests))

\* A map of a configuration has finitely many keys.
ASSUME FiniteAssumption ==
    IsFiniteSet(DOMAIN DefaultClasses) /\ \A c \in AddonConfigs : IsFiniteSet(DOMAIN c.classes)

VARIABLES
    pc,         \* "idle", "config" and "start" (installK3s), or "run" (the lines)
    cfg,        \* what this call asks for, or the last one
    todo,       \* command lines still to run
    chain,      \* what is left of the one that runs
    status,     \* whether its last command that ran succeeded
    result,     \* how the last call ended
    same,       \* installK3s: config.yaml was found unchanged
    behind,     \* when this call began, config.yaml was already the one it wants,
                \* but K3s ran with another: a call had ended before its restart
    k3sFile,    \* config.yaml of the server
    loaded,     \* the config.yaml K3s last started with
    active,     \* the k3s unit is active
    helm,       \* Helm is on the first server
    repos,      \* the chart repositories it knows
    releases,   \* the Helm releases in the cluster
    snapshots,  \* the snapshot manifests in the cluster
    classes,    \* the storage classes in the cluster
    files,      \* the class manifests in /tmp of the first server
    calls,      \* calls made
    events      \* events that happened

call == <<pc, cfg, todo, chain, status, result>>
k3s == <<same, behind, k3sFile, loaded, active>>
cluster == <<releases, snapshots, classes>>
server == <<helm, repos, files>>
vars == <<call, k3s, cluster, server, calls, events>>

Init ==
    /\ pc = "idle" /\ cfg \in AddonConfigs /\ todo = <<>> /\ chain = <<>>
    /\ status = TRUE /\ result = "none"
    /\ same = FALSE /\ behind = FALSE
    /\ k3sFile = None /\ loaded = None /\ active = FALSE
    /\ helm = FALSE /\ repos = {}
    /\ releases = [c \in Charts |-> None]
    /\ snapshots = {}
    /\ classes = [n \in ClassNames |-> None]
    /\ files = [n \in ClassNames |-> None]
    /\ calls = 0 /\ events = 0

-----------------------------------------------------------------------------
(* The command lines *)

And(name, arg) == [op |-> "and", name |-> name, arg |-> arg]
OrTrue == [op |-> "or", name |-> "true", arg |-> None]

\* mergedDisableComponents
DisableTraefik(c) == c.disable \/ c.mode \in {"disabled", "install"}

\* renderK3sConfig
Content(c) == [settings |-> c.settings, disable |-> DisableTraefik(c)]

\* expandAddons
ClassesOf(c) == IF c.classes = <<>> THEN DefaultClasses ELSE c.classes

InstallChart(name) ==
    <<And("add", name), OrTrue, And("update", None), And("upgrade", name)>>

TraefikLines(c) == IF c.mode = "install" THEN << <<And("helm", None)>>, InstallChart("traefik") >> ELSE <<>>

\* Mutant: a manifest that fails is passed over.
SnapshotLineTolerant ==
    [i \in 1 .. 2 * Len(Manifests) |->
        IF i % 2 = 0 THEN OrTrue ELSE And("manifest", Manifests[(i + 1) \div 2])]

SnapshotLine ==
    [i \in DOMAIN Manifests |-> And("manifest", Manifests[i])] \o <<And("controller", None)>>

\* Mutant: a class that is refused is passed over.
ApplyClassesTolerant(order) ==
    [i \in 1 .. 2 * Len(order) |->
        IF i % 2 = 0 THEN OrTrue ELSE And("apply", order[(i + 1) \div 2])]

\* kubectl apply and rm -f for each class
ApplyClasses(order) ==
    [i \in 1 .. 2 * Len(order) |->
        And(IF i % 2 = 0 THEN "remove" ELSE "apply", order[(i + 1) \div 2])]

LonghornLines(c, order) ==
    IF c.enabled
    THEN << <<And("helm", None)>>, SnapshotLine >>
         \o [i \in DOMAIN order |-> <<And("upload", order[i])>>]
         \o << InstallChart("longhorn") \o <<And("rollout", None), OrTrue>> \o ApplyClasses(order) >>
    ELSE <<>>

Lines(c, order) == TraefikLines(c) \o LonghornLines(c, order)

-----------------------------------------------------------------------------
(* One apply *)

\* Go visits the map of classes in any order.
Apply(c) ==
    /\ pc = "idle" /\ calls < MaxCalls
    /\ calls' = calls + 1
    /\ pc' = "config" /\ cfg' = c
    /\ \E order \in SetToSeqs(DOMAIN ClassesOf(c)) : todo' = Lines(c, order)
    /\ chain' = <<>> /\ status' = TRUE /\ result' = "none"
    /\ behind' = (active /\ k3sFile = Content(c) /\ loaded # k3sFile)
    /\ UNCHANGED <<same, k3sFile, loaded, active, cluster, server, events>>

\* installK3s: compare, then upload.
WriteK3sConfig ==
    /\ pc = "config"
    /\ same' = (k3sFile = Content(cfg))
    /\ k3sFile' = Content(cfg)
    /\ pc' = "start"
    /\ UNCHANGED <<cfg, todo, chain, status, result, behind, loaded, active, cluster, server, calls, events>>

\* Mutant: an active unit is never restarted.
LeavesActiveAlone == active

LeavesAlone == active /\ same

\* installK3s: restart the unit, or run the installer, unless it is left alone.
StartK3s ==
    /\ pc = "start"
    /\ IF LeavesAlone THEN UNCHANGED <<loaded, active>> ELSE loaded' = k3sFile /\ active' = TRUE
    /\ pc' = "run"
    /\ UNCHANGED <<cfg, todo, chain, status, result, same, behind, k3sFile, cluster, server, calls, events>>

\* K3s (external) deploys or removes its own Traefik as it starts.
Packaged == loaded # None /\ ~loaded.disable

Return(r) == pc' = "idle" /\ result' = r /\ todo' = <<>> /\ chain' = <<>>

\* The end of a command line: the next one, or the end of the call.
NextLine ==
    /\ pc = "run" /\ chain = <<>>
    /\ IF ~status THEN Return("error")
       ELSE IF todo = <<>> THEN Return("ok")
       ELSE chain' = Head(todo) /\ todo' = Tail(todo) /\ UNCHANGED <<pc, result>>
    /\ UNCHANGED <<cfg, status, k3s, cluster, server, calls, events>>

\* && runs its command after a success, || after a failure.
Due == (Head(chain).op = "and") = status
At(name) == pc = "run" /\ chain # <<>> /\ Due /\ Head(chain).name = name
Arg == Head(chain).arg
Done(s) == chain' = Tail(chain) /\ status' = s /\ UNCHANGED <<pc, cfg, todo, result, k3s, calls, events>>

Skip ==
    /\ pc = "run" /\ chain # <<>> /\ ~Due
    /\ Done(status)
    /\ UNCHANGED <<cluster, server>>

True ==
    /\ At("true")
    /\ Done(TRUE)
    /\ UNCHANGED <<cluster, server>>

EnsureHelm ==
    /\ At("helm")
    /\ helm' = TRUE
    /\ Done(TRUE)
    /\ UNCHANGED <<cluster, repos, files>>

AddRepo ==
    /\ At("add")
    /\ repos' = repos \cup {Arg}
    /\ Done(TRUE)
    /\ UNCHANGED <<cluster, helm, files>>

\* helm repo update fails when there is no repository.
UpdateRepos ==
    /\ At("update")
    /\ Done(repos # {})
    /\ UNCHANGED <<cluster, server>>

ChartOf(name) == IF name = "traefik" THEN cfg.traefik ELSE cfg.longhorn

\* Helm finds the chart in a repository; a release of the same chart in another
\* namespace owns the cluster-wide objects.
Upgradable(name) ==
    name \in repos /\ (releases[name] = None \/ releases[name].ns = ChartOf(name).ns)

\* An upgrade without values keeps those of the release.
Upgraded(release, chart) ==
    [ns |-> chart.ns,
     version |-> IF chart.version = None THEN Newest ELSE chart.version,
     values |-> IF chart.values = None /\ release # None THEN release.values ELSE chart.values]

Upgrade ==
    /\ At("upgrade")
    /\ releases' = IF Upgradable(Arg)
                   THEN [releases EXCEPT ![Arg] = Upgraded(releases[Arg], ChartOf(Arg))]
                   ELSE releases
    /\ Done(Upgradable(Arg))
    /\ UNCHANGED <<snapshots, classes, server>>

ApplyManifest ==
    /\ At("manifest")
    /\ snapshots' = snapshots \cup {Arg}
    /\ Done(TRUE)
    /\ UNCHANGED <<releases, classes, server>>

\* rollout status of the snapshot controller, or of Longhorn's deployer
Rollout ==
    /\ \/ At("controller") /\ Done(snapshots = Range(Manifests))
       \/ At("rollout") /\ Done(releases["longhorn"] # None)
    /\ UNCHANGED <<cluster, server>>

ClassAt == ClassesOf(cfg)[Arg]

\* Mutant: the manifest is named for its key in the map.
ManifestOfKey == Arg

\* The file in /tmp is named for the class.
Manifest == ClassAt.name

UploadClass ==
    /\ At("upload")
    /\ files' = [files EXCEPT ![Manifest] = ClassAt]
    /\ Done(TRUE)
    /\ UNCHANGED <<cluster, helm, repos>>

\* Parameters and reclaim policy of a class cannot be changed.
Appliable(file) ==
    /\ file # None
    /\ classes[file.name] # None => /\ classes[file.name].replicas = file.replicas
                                    /\ classes[file.name].policy = file.policy

ApplyClass ==
    /\ At("apply")
    /\ LET file == files[Manifest]
       IN  /\ classes' = IF Appliable(file) THEN [classes EXCEPT ![file.name] = file] ELSE classes
           /\ Done(Appliable(file))
    /\ UNCHANGED <<releases, snapshots, server>>

RemoveFile ==
    /\ At("remove")
    /\ files' = [files EXCEPT ![Manifest] = None]
    /\ Done(TRUE)
    /\ UNCHANGED <<cluster, helm, repos>>

-----------------------------------------------------------------------------
(* Events *)

Happens(e) == e \in Events /\ events < MaxEvents /\ events' = events + 1

\* A command fails and changes nothing.
CommandFails ==
    /\ Happens("failure")
    /\ pc = "run" /\ chain # <<>> /\ Due /\ Head(chain).name # "true"
    /\ chain' = Tail(chain) /\ status' = FALSE
    /\ UNCHANGED <<pc, cfg, todo, result, k3s, cluster, server, calls>>

\* A restart or an installation that fails leaves the unit inactive.
StartFails ==
    /\ Happens("failure")
    /\ pc = "start" /\ ~LeavesAlone
    /\ active' = FALSE
    /\ Return("error")
    /\ UNCHANGED <<cfg, status, same, behind, k3sFile, loaded, cluster, server, calls>>

\* The call ends before its next command, or without its answer.
ConnectionLost ==
    /\ Happens("lost")
    /\ pc # "idle"
    /\ Return("error")
    /\ UNCHANGED <<cfg, status, k3s, cluster, server, calls>>

\* systemd starts K3s with the file that is there.
Reboot ==
    /\ Happens("drift")
    /\ pc = "idle" /\ loaded # None
    /\ result' = "none"
    /\ loaded' = k3sFile /\ active' = TRUE
    /\ UNCHANGED <<pc, cfg, todo, chain, status, same, behind, k3sFile, cluster, server, calls>>

Drift ==
    /\ Happens("drift")
    /\ pc = "idle"
    /\ result' = "none"
    /\ \/ \E c \in Charts : /\ releases[c] # None
                            /\ releases' = [releases EXCEPT ![c] = None]
                            /\ UNCHANGED <<classes, server>>
       \/ \E n \in ClassNames : /\ classes[n] # None
                                /\ classes' = [classes EXCEPT ![n] = None]
                                /\ UNCHANGED <<releases, server>>
       \/ /\ helm /\ helm' = FALSE /\ repos' = {}
          /\ files' = [n \in ClassNames |-> None]
          /\ UNCHANGED <<releases, classes>>
    /\ UNCHANGED <<pc, cfg, todo, chain, status, k3s, snapshots, calls>>

Next ==
    \/ \E c \in AddonConfigs : Apply(c)
    \/ WriteK3sConfig
    \/ StartK3s
    \/ NextLine
    \/ Skip
    \/ True
    \/ EnsureHelm
    \/ AddRepo
    \/ UpdateRepos
    \/ Upgrade
    \/ ApplyManifest
    \/ Rollout
    \/ UploadClass
    \/ ApplyClass
    \/ RemoveFile
    \/ CommandFails
    \/ StartFails
    \/ ConnectionLost
    \/ Reboot
    \/ Drift

Spec == Init /\ [][Next]_vars

-----------------------------------------------------------------------------
(* Properties *)

Command == [op : {"and", "or"}, arg : Charts \cup ClassKeys \cup Range(Manifests) \cup {None},
            name : {"helm", "add", "update", "upgrade", "manifest", "controller", "rollout",
                    "upload", "apply", "remove", "true"}]

\* A manifest is filed under the name of its class.
TypeOK ==
    /\ pc \in {"idle", "config", "start", "run"} /\ cfg \in AddonConfigs
    /\ todo \in Seq(Seq(Command)) /\ chain \in Seq(Command)
    /\ status \in BOOLEAN /\ result \in {"none", "ok", "error"}
    /\ helm \in BOOLEAN /\ repos \in SUBSET Charts
    /\ releases \in [Charts -> Release \cup {None}]
    /\ same \in BOOLEAN /\ behind \in BOOLEAN /\ active \in BOOLEAN
    /\ k3sFile \in K3sConfig \cup {None} /\ loaded \in K3sConfig \cup {None}
    /\ snapshots \in SUBSET Range(Manifests)
    /\ classes \in [ClassNames -> Class \cup {None}]
    /\ files \in [ClassNames -> Class \cup {None}]
    /\ \A n \in ClassNames : files[n] # None => files[n].name = n
    /\ calls \in Nat /\ events \in Nat

Succeeded == pc = "idle" /\ result = "ok"

InPlace(release, chart) ==
    /\ release # None
    /\ release.ns = chart.ns
    /\ chart.version # None => release.version = chart.version
    /\ chart.values # None => release.values = chart.values

PackagedAsked == cfg.mode = "default" /\ ~cfg.disable

\* docs/resources/cluster.md:160-162 of the modes: after a call that returned no
\* error the packaged Traefik is there exactly when it was asked for, and with
\* "install" the Helm one is there as this call asks for it, whatever earlier
\* calls left half done.  Excepted is a call that finds config.yaml as it wants
\* it and K3s behind that file.  A release of an earlier "install" stays when
\* the mode changes, and helm repo add may fail without the call failing.
TraefikApplied ==
    Succeeded =>
        /\ Packaged = PackagedAsked \/ behind
        /\ cfg.mode = "install" => InPlace(releases["traefik"], cfg.traefik)

\* After a call that returned no error the cluster has every class asked for,
\* with the settings of this call: a class that cannot be changed, and two
\* entries of one name, end the call with an error.
ClassesApplied ==
    Succeeded /\ cfg.enabled =>
        \A k \in DOMAIN ClassesOf(cfg) : classes[ClassesOf(cfg)[k].name] = ClassesOf(cfg)[k]

\* Longhorn is installed or upgraded only in a cluster that has all of the
\* snapshot manifests: no failure on the way lets a later line run.
SnapshotsFirst ==
    [][releases'["longhorn"] \notin {None, releases["longhorn"]} => snapshots = Range(Manifests)]_vars

\* "Installs Longhorn through Helm on the first server node and creates storage
\* classes." (examples/longhorn/README.md:3)
LonghornApplied ==
    Succeeded /\ cfg.enabled => InPlace(releases["longhorn"], cfg.longhorn)
===============================================================================
