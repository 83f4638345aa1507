-------------------------------- MODULE Firewall --------------------------------
(***************************************************************************)
(* configureFirewall (internal/provider/firewall.go) on one node: one ufw   *)
(* script, run command after command, and the marker file that remembers    *)
(* the last script.  Calls come one after the other with any of FwConfigs;   *)
(* a command or the marker's upload may fail, and the administrator may      *)
(* change ufw between calls.                                                *)
(***************************************************************************)
EXTENDS Integers, Sequences

CONSTANTS
    FwConfigs,   \* the firewall and mesh settings this node may be given
    Hosts,       \* addresses and CIDRs
    Ports,       \* extra ports
    Events,      \* what may go wrong: "command", "marker", "drift"
    MaxCalls,    \* bound on the number of calls
    MaxEvents,   \* bound on the number of events
    Anywhere,    \* no source address
    Absent       \* no marker file

ASSUME ConfigAssumption ==
    FwConfigs \subseteq [ssh : SUBSET Hosts, wg : BOOLEAN, peers : SUBSET Hosts, http : BOOLEAN,
                         https : BOOLEAN, kubeApi : BOOLEAN, admins : SUBSET Hosts, extra : SUBSET Ports]

\* SSH and the WireGuard port are open to given addresses only.
Rule ==
    [from : Hosts, to : {"ssh", "wireguard"}]
    \cup [from : {Anywhere}, to : {"tunnel", "http", "https"} \cup Ports]
    \cup [from : Hosts \cup {Anywhere}, to : {"api"}]

ASSUME NullAssumption == Absent \notin Seq(SUBSET Rule) /\ Anywhere \notin Hosts

Allow(froms, to) == {[from |-> f, to |-> to] : f \in froms}
When(condition, rules) == IF condition THEN rules ELSE {}

\* Mutant: the WireGuard port is opened as the tunnel is.
ScriptOpen(c) ==
    << Allow(c.ssh, "ssh"),
       When(c.wg, Allow({Anywhere}, "wireguard") \cup Allow({Anywhere}, "tunnel")),
       When(c.http, Allow({Anywhere}, "http")) \cup When(c.https, Allow({Anywhere}, "https")),
       When(c.kubeApi, Allow(IF c.admins = {} THEN {Anywhere} ELSE c.admins, "api")),
       UNION {Allow({Anywhere}, p) : p \in c.extra} >>

\* The allow commands of the script, in the groups the code appends them in.
\* Equal groups are equal scripts.
Script(c) ==
    << Allow(c.ssh, "ssh"),
       When(c.wg, Allow(c.peers, "wireguard") \cup Allow({Anywhere}, "tunnel")),
       When(c.http, Allow({Anywhere}, "http")) \cup When(c.https, Allow({Anywhere}, "https")),
       When(c.kubeApi, Allow(IF c.admins = {} THEN {Anywhere} ELSE c.admins, "api")),
       UNION {Allow({Anywhere}, p) : p \in c.extra} >>

RulesOf(script) == UNION {script[i] : i \in DOMAIN script}

VARIABLES
    pc,       \* where the call is
    script,   \* the script of the call, or of the last one
    group,    \* the group of rules being added
    result,   \* how the last call ended
    rules,    \* ufw: the rules
    active,   \* ufw: enabled
    marker,   \* /etc/vpsk3s/ufw-rules
    parted,   \* rules were changed by hand, or set and not marked, since the last marker
    calls,    \* calls made
    events    \* events that happened

vars == <<pc, script, group, result, rules, active, marker, parted, calls, events>>
ufw == <<rules, active>>

Init ==
    /\ pc = "idle" /\ script = <<>> /\ group = 1 /\ result = "none"
    /\ rules = {} /\ active = FALSE /\ marker = Absent /\ parted = FALSE
    /\ calls = 0 /\ events = 0

Call(c) ==
    /\ pc = "idle" /\ calls < MaxCalls
    /\ calls' = calls + 1
    /\ script' = Script(c)
    /\ pc' = "compare"
    /\ result' = "none"
    /\ UNCHANGED <<group, ufw, marker, parted, events>>

Return(r) == pc' = "idle" /\ result' = r

\* Mutant: any marker will do.
CompareExists ==
    /\ pc = "compare"
    /\ pc' = IF marker # Absent THEN "status" ELSE "reset"
    /\ UNCHANGED <<script, group, result, ufw, marker, parted, calls, events>>

\* FileEquals on the marker
Compare ==
    /\ pc = "compare"
    /\ pc' = IF marker = script THEN "status" ELSE "reset"
    /\ UNCHANGED <<script, group, result, ufw, marker, parted, calls, events>>

\* Mutant: the marker alone decides.
StatusIgnored ==
    /\ pc = "status"
    /\ Return("ok")
    /\ UNCHANGED <<script, group, ufw, marker, parted, calls, events>>

\* ufw status: nothing to do when the same script ran and ufw is still active.
Status ==
    /\ pc = "status"
    /\ IF active THEN Return("ok") ELSE pc' = "reset" /\ UNCHANGED result
    /\ UNCHANGED <<script, group, ufw, marker, parted, calls, events>>

\* Mutant: the rules are deleted one by one instead of a reset.
DeleteRules ==
    /\ pc = "reset"
    /\ rules' = {} /\ UNCHANGED active
    /\ pc' = "rules" /\ group' = 1
    /\ UNCHANGED <<script, result, marker, parted, calls, events>>

\* apt-get install, ufw --force reset (which disables ufw), the defaults.
Reset ==
    /\ pc = "reset"
    /\ rules' = {} /\ active' = FALSE
    /\ pc' = "rules" /\ group' = 1
    /\ UNCHANGED <<script, result, marker, parted, calls, events>>

AddRule ==
    /\ pc = "rules" /\ group <= Len(script)
    /\ \E r \in script[group] \ rules : rules' = rules \cup {r}
    /\ UNCHANGED <<pc, script, group, result, active, marker, parted, calls, events>>

NextGroup ==
    /\ pc = "rules" /\ group <= Len(script)
    /\ script[group] \subseteq rules
    /\ group' = group + 1
    /\ pc' = IF group = Len(script) THEN "enable" ELSE "rules"
    /\ UNCHANGED <<script, result, ufw, marker, parted, calls, events>>

\* ufw --force enable
Enable ==
    /\ pc = "enable"
    /\ active' = TRUE
    /\ pc' = "marker"
    /\ UNCHANGED <<script, group, result, rules, marker, parted, calls, events>>

UploadMarker ==
    /\ pc = "marker"
    /\ marker' = script /\ parted' = FALSE
    /\ Return("ok")
    /\ UNCHANGED <<script, group, ufw, calls, events>>

-----------------------------------------------------------------------------
Happens(e) == e \in Events /\ events < MaxEvents /\ events' = events + 1

\* A command of the script fails, or the connection is lost: the rest of the
\* script does not run and the marker is not written.
CommandFails ==
    /\ Happens("command")
    /\ pc \in {"reset", "rules", "enable"}
    /\ Return("error")
    /\ UNCHANGED <<script, group, ufw, marker, parted, calls>>

\* FileEquals and the status command report no error: what cannot be read
\* counts as different, or as inactive.
ReadFails ==
    /\ Happens("command")
    /\ pc \in {"compare", "status"}
    /\ pc' = "reset"
    /\ UNCHANGED <<script, group, result, ufw, marker, parted, calls>>

\* The script ran to its end; the call fails before the marker is in place.
MarkerFails ==
    /\ Happens("marker")
    /\ pc = "marker"
    /\ parted' = TRUE
    /\ Return("error")
    /\ UNCHANGED <<script, group, ufw, marker, calls>>

\* The administrator deletes a rule or disables ufw between two calls.
Drift ==
    /\ Happens("drift")
    /\ pc = "idle"
    /\ result' = "none" /\ parted' = TRUE
    /\ \/ \E r \in rules : rules' = rules \ {r} /\ UNCHANGED active
       \/ active /\ active' = FALSE /\ UNCHANGED rules
    /\ UNCHANGED <<pc, script, group, marker, calls>>

Next ==
    \/ \E c \in FwConfigs : Call(c)
    \/ Compare
    \/ Status
    \/ Reset
    \/ AddRule
    \/ NextGroup
    \/ Enable
    \/ UploadMarker
    \/ CommandFails
    \/ ReadFails
    \/ MarkerFails
    \/ Drift

Spec == Init /\ [][Next]_vars

-----------------------------------------------------------------------------
(* Properties *)

TypeOK ==
    /\ pc \in {"idle", "compare", "status", "reset", "rules", "enable", "marker"}
    /\ script \in Seq(SUBSET Rule)
    /\ group \in 1 .. 6
    /\ result \in {"none", "ok", "error"}
    /\ rules \in SUBSET Rule
    /\ active \in BOOLEAN /\ parted \in BOOLEAN
    /\ marker \in Seq(SUBSET Rule) \cup {Absent}
    /\ calls \in Nat /\ events \in Nat

\* "The provider adds SSH rules before enabling UFW" (README.md:120): whatever
\* failed or was changed by hand before, no step of a call leaves an active
\* firewall with a part of the rules of a configuration, so the provider never
\* cuts off SSH.
ActiveIsComplete ==
    [][pc # "idle" /\ active' =>
          \/ active /\ rules' = rules
          \/ \E c \in FwConfigs : rules' = RulesOf(Script(c))]_vars

\* Whatever failed or was changed by hand, a call that returned no error left
\* the firewall up: a marker that matches is not enough.
AppliedIsActive == pc = "idle" /\ result = "ok" => active

\* The marker speaks for the rules: after a call that returned no error the
\* node enforces the rules of that call, whatever earlier scripts stopped at,
\* unless rules were changed by hand or a marker was lost after its script ran.
\* (Without that exception it does not hold: firewall.go:54 then finds nothing
\* to do, although "remote drift is handled during apply", README.md:208.)
AppliedRulesInPlace ==
    pc = "idle" /\ result = "ok" /\ ~parted => active /\ rules = RulesOf(script)
===============================================================================
