------------------------------- MODULE NodeSystem -------------------------------
(***************************************************************************)
(* What an apply leaves on one node besides WireGuard, ufw and K3s itself:  *)
(* its hostname, the managed block of /etc/hosts, the sysctl file and the   *)
(* values in the kernel, the resolv.conf made for K3s, and whether           *)
(* config.yaml names it (internal/provider/k3s.go, system.go, ssh.go).       *)
(*                                                                         *)
(* Every step is one remote command.  It may fail, its answer may be lost    *)
(* after it ran, the node may crash while a file is written, and the         *)
(* administrator edits the node between calls.                              *)
(***************************************************************************)
EXTENDS Integers, Sequences, SequencesExt

CONSTANTS
    NodeConfigs,  \* what the resource may ask of this node
    Hostnames,    \* names a node can be given
    Blocks,       \* what the managed block holds: the nodes and their addresses
    Keys,         \* sysctl keys
    KernelKeys,   \* those this kernel knows
    Values,       \* their values
    Boot,         \* the value of a key that no file sets
    Servers,      \* addresses of nameservers
    Loopback,     \* those that are loopback or unspecified
    Domains,      \* search domains
    UserLines,    \* lines of /etc/hosts that are not the provider's
    Events,       \* what may go wrong: "failure", "crash", "drift", "marker"
    MaxCalls,     \* bound on the number of calls
    MaxEvents,    \* bound on the number of events
    Unset,        \* no hostname asked for
    Absent,       \* no file
    Torn          \* a file that was not written to its end

MaxNameservers == 3
Start == "BEGIN"
End == "END"

SysctlMap == UNION {[S -> Values] : S \in SUBSET Keys}
ResolvConf == [servers : Seq(Servers), search : SUBSET Domains]
Line == UserLines \cup Blocks \cup {Start, End}

\* validateDNS refuses what is not in here.
Nameservers == {s \in Seq(Servers \ Loopback) : Len(s) <= MaxNameservers}
NodeConfig ==
    [hostname : Hostnames \cup {Unset}, block : Blocks, sysctl : SysctlMap,
     dns : BOOLEAN, nameservers : Nameservers, search : SUBSET Domains]

ASSUME ConfigAssumption == \A c \in NodeConfigs : c \in NodeConfig

ASSUME ConstantAssumption ==
    /\ KernelKeys \subseteq Keys /\ Loopback \subseteq Servers /\ Boot \in Values
    /\ Unset \notin Hostnames
    /\ UserLines \cap (Blocks \cup {Start, End}) = {} /\ Blocks \cap {Start, End} = {}
    /\ Absent # Torn
    /\ \A null \in {Absent, Torn} : null \notin SysctlMap /\ null \notin ResolvConf

VARIABLES
    pc,        \* the command the call is at
    cfg,       \* what this call asks for, or the last one
    result,    \* how the last call ended
    hostname,  \* the name of the node
    hosts,     \* /etc/hosts, line by line
    sysctl,    \* /etc/sysctl.d/90-vpsk3s.conf
    kernel,    \* the values in the kernel
    upstream,  \* the nameservers of the host, loopback ones included
    resolv,    \* /etc/vpsk3s/resolv.conf
    named,     \* config.yaml tells K3s to use that file
    damaged,   \* what a crash or the administrator broke since it was written
    calls,     \* calls made
    events     \* events that happened

files == <<hosts, sysctl, resolv, named>>
node == <<hostname, files, kernel, upstream>>
vars == <<pc, cfg, result, node, damaged, calls, events>>

Init ==
    /\ pc = "idle" /\ cfg \in NodeConfigs /\ result = "none"
    /\ hostname \in Hostnames
    /\ hosts \in {<<l>> : l \in UserLines}
    /\ sysctl = Absent /\ kernel = [k \in Keys |-> Boot]
    /\ upstream \in {s \in BoundedSeq(Servers, 2) : s # <<>>}
    /\ resolv = Absent /\ named = FALSE
    /\ damaged = {}
    /\ calls = 0 /\ events = 0

Happens(e) == e \in Events /\ events < MaxEvents /\ events' = events + 1

Return(r) == pc' = "idle" /\ result' = r

\* The command ran; the call goes on, or its answer is lost and the call fails.
Then(next) ==
    \/ pc' = next /\ UNCHANGED <<result, events>>
    \/ Happens("failure") /\ Return("error")

-----------------------------------------------------------------------------
(* One visit of the node *)

Call(c) ==
    /\ pc = "idle" /\ calls < MaxCalls
    /\ calls' = calls + 1
    /\ cfg' = c
    /\ pc' = "hostname" /\ result' = "none"
    /\ UNCHANGED <<node, damaged, events>>

\* Mutant: a hostname that was not given is set as well.
SetHostnameAlways ==
    /\ pc = "hostname"
    /\ hostname' = cfg.hostname /\ Then("hosts")
    /\ UNCHANGED <<cfg, files, kernel, upstream, damaged, calls>>

\* A node without a configured hostname keeps the one it has.
SetHostname ==
    /\ pc = "hostname"
    /\ IF cfg.hostname = Unset
       THEN pc' = "hosts" /\ UNCHANGED <<hostname, result, events>>
       ELSE hostname' = cfg.hostname /\ Then("hosts")
    /\ UNCHANGED <<cfg, files, kernel, upstream, damaged, calls>>

First(text, line) == SelectInSeq(text, LAMBDA l : l = line)
Managed(block) == <<Start, block, End>>

\* Mutant: a new block is added on every apply.
WithBlockAppended(text, block) == text \o Managed(block)
\* Mutant: what follows the block is not kept.
WithBlockLast(text, block) ==
    (IF Contains(text, Start) /\ Contains(text, End)
     THEN SubSeq(text, 1, First(text, Start) - 1) ELSE text) \o Managed(block)

\* The Python script: the text before the first BEGIN, the block, and the text
\* after the first END; or the block at the end.
WithBlock(text, block) ==
    IF Contains(text, Start) /\ Contains(text, End)
    THEN SubSeq(text, 1, First(text, Start) - 1) \o Managed(block)
         \o SubSeq(text, First(text, End) + 1, Len(text))
    ELSE text \o Managed(block)

WriteHosts ==
    /\ pc = "hosts"
    /\ hosts' = WithBlock(hosts, cfg.block)
    /\ Then("sysctl")
    /\ UNCHANGED <<cfg, hostname, sysctl, resolv, named, kernel, upstream, damaged, calls>>

NoValues == DOMAIN cfg.sysctl = {}

\* An empty map removes the file and leaves the kernel as it is.
RemoveSysctl ==
    /\ pc = "sysctl" /\ NoValues
    /\ sysctl' = Absent
    /\ Then("resolv")
    /\ UNCHANGED <<cfg, hostname, hosts, resolv, named, kernel, upstream, damaged, calls>>

\* Mutant: values are loaded only when the file changed.
CompareAndSkipLoad ==
    /\ pc = "sysctl" /\ ~NoValues
    /\ pc' = IF sysctl = cfg.sysctl THEN "resolv" ELSE "install sysctl"
    /\ UNCHANGED <<cfg, result, node, damaged, calls, events>>

\* FileEquals: a file that cannot be read counts as different.
CompareSysctl ==
    /\ pc = "sysctl" /\ ~NoValues
    /\ \/ sysctl = cfg.sysctl /\ pc' = "load" /\ UNCHANGED events
       \/ sysctl # cfg.sysctl /\ pc' = "install sysctl" /\ UNCHANGED events
       \/ Happens("failure") /\ pc' = "install sysctl"
    /\ UNCHANGED <<cfg, result, node, damaged, calls>>

\* Upload: the content goes to a temporary file, which install(1) copies.
InstallSysctl ==
    /\ pc = "install sysctl"
    /\ sysctl' = cfg.sysctl
    /\ Then("load")
    /\ UNCHANGED <<cfg, hostname, hosts, resolv, named, kernel, upstream, damaged, calls>>

Loaded(values, file) ==
    [k \in Keys |-> IF k \in DOMAIN file \cap KernelKeys THEN file[k] ELSE values[k]]

\* sysctl -p sets the keys it knows and fails when there are others.
LoadSysctl ==
    /\ pc = "load"
    /\ kernel' = Loaded(kernel, sysctl)
    /\ IF DOMAIN sysctl \subseteq KernelKeys THEN Then("resolv") ELSE Return("error") /\ UNCHANGED events
    /\ UNCHANGED <<cfg, hostname, files, upstream, damaged, calls>>

\* The entries of list that are in S, in their order.
Selected(list, S) ==
    LET upTo[n \in 0 .. Len(list)] ==
            IF n = 0 THEN <<>>
            ELSE IF list[n] \in S THEN Append(upTo[n - 1], list[n]) ELSE upTo[n - 1]
    IN  upTo[Len(list)]

\* The first three nameservers of the host that are not loopback.
UpstreamNameservers(conf) ==
    LET real == Selected(conf, Servers \ Loopback)
    IN  SubSeq(real, 1, IF Len(real) < MaxNameservers THEN Len(real) ELSE MaxNameservers)

WantedResolv ==
    [servers |-> IF cfg.nameservers # <<>> THEN cfg.nameservers ELSE UpstreamNameservers(upstream),
     search |-> cfg.search]

\* Mutant: the file is removed with the dns block.
SkipAndRemoveResolv ==
    /\ pc = "resolv" /\ ~cfg.dns
    /\ pc' = "config" /\ resolv' = Absent
    /\ UNCHANGED <<cfg, result, hostname, hosts, sysctl, named, kernel, upstream, damaged, calls, events>>

\* Without a dns block a file of an earlier apply stays.
SkipResolv ==
    /\ pc = "resolv" /\ ~cfg.dns
    /\ pc' = "config"
    /\ UNCHANGED <<cfg, result, node, damaged, calls, events>>

\* Mutant: a file that is there is not compared.
CompareResolvExists ==
    /\ pc = "resolv" /\ cfg.dns
    /\ IF WantedResolv.servers = <<>>
       THEN Return("error") /\ UNCHANGED events
       ELSE pc' = (IF resolv = Absent THEN "install resolv" ELSE "config") /\ UNCHANGED <<result, events>>
    /\ UNCHANGED <<cfg, node, damaged, calls>>

CompareResolv ==
    /\ pc = "resolv" /\ cfg.dns
    /\ IF WantedResolv.servers = <<>>
       THEN Return("error") /\ UNCHANGED events
       ELSE /\ UNCHANGED result
            /\ \/ resolv = WantedResolv /\ pc' = "config" /\ UNCHANGED events
               \/ resolv # WantedResolv /\ pc' = "install resolv" /\ UNCHANGED events
               \/ Happens("failure") /\ pc' = "install resolv"
    /\ UNCHANGED <<cfg, node, damaged, calls>>

InstallResolv ==
    /\ pc = "install resolv"
    /\ resolv' = WantedResolv
    /\ damaged' = damaged \ {"resolv"}
    /\ Then("config")
    /\ UNCHANGED <<cfg, hostname, hosts, sysctl, named, kernel, upstream, calls>>

\* installK3s, later in the same apply: config.yaml has a resolv-conf line when
\* there is a dns block.
WriteConfig ==
    /\ pc = "config"
    /\ named' = cfg.dns
    /\ \/ Return("ok") /\ UNCHANGED events
       \/ Happens("failure") /\ Return("error")
    /\ UNCHANGED <<cfg, hostname, hosts, sysctl, resolv, kernel, upstream, damaged, calls>>

-----------------------------------------------------------------------------
(* Events *)

\* A command fails before it changed anything.
CommandFails ==
    /\ Happens("failure")
    /\ pc # "idle"
    /\ Return("error")
    /\ UNCHANGED <<cfg, node, damaged, calls>>

\* What a crash leaves of the file that was being written: install(1) removes
\* the old one first; write_text truncates it.
Interrupted ==
    /\ hosts' \in IF pc = "hosts"
                  THEN LET text == WithBlock(hosts, cfg.block)
                       IN  {SubSeq(text, 1, i) : i \in 0 .. Len(text)} \cup {hosts}
                  ELSE {hosts}
    /\ sysctl' \in {sysctl} \cup IF pc = "install sysctl" THEN {Absent, Torn} ELSE {}
    /\ resolv' \in {resolv} \cup IF pc = "install resolv" THEN {Absent, Torn} ELSE {}
    /\ damaged' = damaged \cup {f \in {"hosts", "resolv"} :
           (f = "hosts" /\ hosts' # hosts) \/ (f = "resolv" /\ resolv' # resolv)}

\* The node goes down, in a call or between calls, and boots again: the sysctl
\* file, as far as it can be read, is loaded.
Crash ==
    /\ Happens("crash")
    /\ Interrupted
    /\ kernel' = Loaded([k \in Keys |-> Boot], IF sysctl' \in {Absent, Torn} THEN <<>> ELSE sysctl')
    /\ IF pc = "idle" THEN UNCHANGED <<pc, result>> ELSE Return("error")
    /\ UNCHANGED <<cfg, hostname, named, upstream, calls>>

DriftInHosts ==
    \/ \E l \in UserLines : hosts' = Append(hosts, l) /\ UNCHANGED damaged
    \/ \E i \in DOMAIN hosts :
          /\ hosts' = RemoveAt(hosts, i)
          /\ hosts[i] \in {Start, End} => "marker" \in Events
          /\ damaged' = damaged \cup (IF hosts[i] \in {Start, End} THEN {"hosts"} ELSE {})

\* The administrator edits the node between two calls.
Drift ==
    /\ Happens("drift")
    /\ pc = "idle"
    /\ result' = "none"
    /\ \/ \E k \in KernelKeys : \E v \in Values \ {kernel[k]} :
             kernel' = [kernel EXCEPT ![k] = v] /\ UNCHANGED <<files, upstream, damaged>>
       \/ \E f \in SysctlMap \ {sysctl} :
             sysctl' = f /\ UNCHANGED <<hosts, resolv, named, kernel, upstream, damaged>>
       \/ resolv # Absent /\ resolv' = Absent /\ damaged' = damaged \cup {"resolv"}
             /\ UNCHANGED <<hosts, sysctl, named, kernel, upstream>>
       \/ DriftInHosts /\ UNCHANGED <<sysctl, resolv, named, kernel, upstream>>
       \/ \E a \in Servers : upstream' = <<a>> /\ UNCHANGED <<files, kernel, damaged>>
    /\ UNCHANGED <<pc, cfg, hostname, calls>>

Next ==
    \/ \E c \in NodeConfigs : Call(c)
    \/ SetHostname
    \/ WriteHosts
    \/ RemoveSysctl
    \/ CompareSysctl
    \/ InstallSysctl
    \/ LoadSysctl
    \/ SkipResolv
    \/ CompareResolv
    \/ InstallResolv
    \/ WriteConfig
    \/ CommandFails
    \/ Crash
    \/ Drift

Spec == Init /\ [][Next]_vars

-----------------------------------------------------------------------------
(* Properties *)

\* The node always has a name.
TypeOK ==
    /\ pc \in {"idle", "hostname", "hosts", "sysctl", "install sysctl", "load",
               "resolv", "install resolv", "config"}
    /\ cfg \in NodeConfigs
    /\ result \in {"none", "ok", "error"}
    /\ hostname \in Hostnames
    /\ hosts \in Seq(Line)
    /\ sysctl \in SysctlMap \cup {Absent, Torn}
    /\ kernel \in [Keys -> Values]
    /\ upstream \in Seq(Servers)
    /\ resolv \in ResolvConf \cup {Absent, Torn}
    /\ named \in BOOLEAN
    /\ damaged \in SUBSET {"hosts", "resolv"}
    /\ calls \in Nat /\ events \in Nat

Succeeded == pc = "idle" /\ result = "ok"

\* "Values are written to /etc/sysctl.d/90-vpsk3s.conf and applied with
\* sysctl -p on every apply, so they also persist across reboots."
\* (docs/resources/cluster.md:136)  Also after values or the file were changed
\* by hand, and when the call before crashed while it installed the file.
SysctlApplied ==
    Succeeded =>
        /\ sysctl = IF NoValues THEN Absent ELSE cfg.sysctl
        /\ \A k \in DOMAIN cfg.sysctl : kernel[k] = cfg.sysctl[k]

\* "The file is refreshed on every apply" (cluster.md:124): with the
\* nameservers of this call or those the host has now, although an older file
\* or a torn one is there.
DnsApplied == Succeeded => named = cfg.dns /\ (cfg.dns => resolv = WantedResolv)

\* While config.yaml names the file, it is there and lists one to three
\* nameservers a pod can reach: dns blocks come and go, calls stop anywhere.
\* Excepted is a file that a crash tore or the administrator removed, until it
\* is installed again.
ResolvInPlace ==
    named /\ "resolv" \notin damaged =>
        /\ resolv \notin {Absent, Torn}
        /\ Len(resolv.servers) \in 1 .. MaxNameservers
        /\ Range(resolv.servers) \cap Loopback = {}

\* /etc/hosts has one managed block, the one of the last call, whatever earlier
\* calls wrote and where they stopped, unless a marker line was lost.
HostsApplied ==
    Succeeded /\ "hosts" \notin damaged =>
        Selected(hosts, Line \ UserLines) = Managed(cfg.block)

\* No step of a call loses or reorders a line of the administrator, in a file
\* that neither a crash cut short nor lost a marker line.
UserLinesKept ==
    [][pc # "idle" /\ "hosts" \notin damaged' =>
          Selected(hosts', UserLines) = Selected(hosts, UserLines)]_vars
===============================================================================
