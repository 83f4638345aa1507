----------------------------- MODULE FirewallProofs -----------------------------
(***************************************************************************)
(* Proofs about the firewall of a node for every set of configurations and  *)
(* any number of calls, failures and manual changes.                        *)
(*                                                                         *)
(* The argument: while a script runs, from its reset to its enable, ufw is   *)
(* inactive and has exactly the rules of the groups that are done and some   *)
(* of the group at hand; outside of it, an active ufw that nobody changed    *)
(* since the marker was written has the rules of the marker.                *)
(***************************************************************************)
EXTENDS Firewall, TLAPS

\* The rules of the groups before the one at hand are set, and no others.
Progress ==
    pc = "rules" =>
        /\ group \in 1 .. Len(script) /\ ~active
        /\ rules \subseteq RulesOf(script)
        /\ \A i \in DOMAIN script : i < group => script[i] \subseteq rules

\* The whole script is in place.
Complete ==
    /\ pc = "enable" => ~active /\ rules = RulesOf(script)
    /\ pc = "marker" => active /\ rules = RulesOf(script)

\* The marker speaks for an active firewall that was not changed since.
Marked ==
    /\ pc \in {"idle", "compare", "status", "reset"} /\ active /\ ~parted =>
          marker # Absent /\ rules = RulesOf(marker)
    /\ pc = "status" => marker = script
    /\ pc = "idle" /\ result = "ok" => active /\ (~parted => marker = script)

Scripts == {Script(c) : c \in FwConfigs}

Inv ==
    /\ TypeOK
    /\ pc # "idle" => script \in Scripts
    /\ Progress
    /\ Complete
    /\ Marked

-----------------------------------------------------------------------------
LEMMA FiveGroups ==
    ASSUME NEW R, NEW a \in R, NEW b \in R, NEW c \in R, NEW d \in R, NEW e \in R
    PROVE  <<a, b, c, d, e>> \in Seq(R) /\ Len(<<a, b, c, d, e>>) = 5
OBVIOUS

\* A script has five groups of rules.
LEMMA ScriptType ==
    ASSUME NEW c \in FwConfigs
    PROVE  Script(c) \in Seq(SUBSET Rule) /\ Len(Script(c)) = 5
<1>1. /\ c.ssh \subseteq Hosts /\ c.peers \subseteq Hosts /\ c.admins \subseteq Hosts /\ c.extra \subseteq Ports
    BY ConfigAssumption
<1>2. /\ \A F \in SUBSET Hosts, t \in {"ssh", "wireguard"} : Allow(F, t) \in SUBSET Rule
      /\ \A t \in {"tunnel", "http", "https"} \cup Ports : Allow({Anywhere}, t) \in SUBSET Rule
      /\ \A F \in SUBSET (Hosts \cup {Anywhere}) : Allow(F, "api") \in SUBSET Rule
    BY DEF Allow, Rule
<1>3. ASSUME NEW b, NEW R \in SUBSET Rule
      PROVE  When(b, R) \in SUBSET Rule
    BY DEF When
<1>4. Allow(c.ssh, "ssh") \in SUBSET Rule
    BY <1>1, <1>2
<1>5. When(c.wg, Allow(c.peers, "wireguard") \cup Allow({Anywhere}, "tunnel")) \in SUBSET Rule
    BY <1>1, <1>2, <1>3
<1>6. When(c.http, Allow({Anywhere}, "http")) \cup When(c.https, Allow({Anywhere}, "https")) \in SUBSET Rule
    BY <1>2, <1>3
<1>7. When(c.kubeApi, Allow(IF c.admins = {} THEN {Anywhere} ELSE c.admins, "api")) \in SUBSET Rule
    BY <1>1, <1>2, <1>3
<1>8. UNION {Allow({Anywhere}, p) : p \in c.extra} \in SUBSET Rule
    BY <1>1, <1>2
<1> QED
    BY <1>4, <1>5, <1>6, <1>7, <1>8, FiveGroups, Zenon DEF Script

\* A rule of a group is a rule of the script.
LEMMA GroupRules ==
    ASSUME NEW s \in Seq(SUBSET Rule), NEW i \in 1 .. Len(s)
    PROVE  s[i] \subseteq RulesOf(s) /\ i \in DOMAIN s
<1>1. i \in DOMAIN s
    OBVIOUS
<1> QED
    BY <1>1 DEF RulesOf

LEMMA InvInit == Init => Inv
<1> SUFFICES ASSUME Init PROVE Inv
    OBVIOUS
<1>1. script = <<>> /\ <<>> \in Seq(SUBSET Rule)
    BY DEF Init
<1>2. TypeOK
    <2>1. active \in BOOLEAN /\ parted \in BOOLEAN
        BY Zenon DEF Init
    <2>4. group \in 1 .. 6
        BY DEF Init
    <2>3. rules \in SUBSET Rule
        <3>1. rules = {}
            BY DEF Init
        <3> QED
            BY <3>1
    <2>2. script \in Seq(SUBSET Rule) /\ marker \in Seq(SUBSET Rule) \cup {Absent}
        BY <1>1 DEF Init
    <2> QED
        BY <2>1, <2>2, <2>3, <2>4 DEF Init, TypeOK
<1>3. pc = "idle" /\ result = "none" /\ ~active
    BY DEF Init
<1> QED
    BY <1>2, <1>3 DEF Inv, Progress, Complete, Marked

\* A call that ends with an error claims nothing of the result.
LEMMA InvStep == Inv /\ [Next]_vars => Inv'
<1> SUFFICES ASSUME Inv, [Next]_vars PROVE Inv'
    OBVIOUS
<1>a. TypeOK /\ Progress /\ Complete /\ Marked /\ (pc # "idle" => script \in Scripts)
    BY DEF Inv
<1>b. pc # "idle" => Len(script) = 5 /\ script \in Seq(SUBSET Rule)
    BY <1>a, ScriptType DEF Scripts
<1>1. ASSUME NEW c \in FwConfigs, Call(c)
      PROVE  Inv'
    <2>1. script' \in Scripts /\ script' \in Seq(SUBSET Rule)
        BY <1>1, ScriptType DEF Call, Scripts
    <2> QED
        BY <1>1, <1>a, <2>1 DEF Call, ufw, Inv, TypeOK, Progress, Complete, Marked
<1>2. CASE Compare
    BY <1>2, <1>a DEF Compare, ufw, Inv, TypeOK, Progress, Complete, Marked
<1>3. CASE Status
    BY <1>3, <1>a DEF Status, Return, ufw, Inv, TypeOK, Progress, Complete, Marked
<1>4. CASE Reset
    <2>1. \A i \in DOMAIN script : ~ i < 1
        BY <1>4, <1>b DEF Reset
    <2>2. rules' = {} /\ active' = FALSE /\ pc' = "rules" /\ group' = 1
          /\ UNCHANGED <<script, result, marker, parted, calls, events>>
        BY <1>4 DEF Reset
    <2>3. 1 \in 1 .. Len(script)
        BY <1>4, <1>b DEF Reset
    <2>4. TypeOK'
        <3>1. rules' \in SUBSET Rule
            BY <2>2
        <3>2. group' \in 1 .. 6
            BY <2>2
        <3>3. active' \in BOOLEAN
            BY <2>2, Zenon
        <3> QED
            BY <1>a, <2>2, <3>1, <3>2, <3>3 DEF TypeOK
    <2>5. Progress'
        BY <2>1, <2>2, <2>3 DEF Progress
    <2> QED
        BY <1>4, <1>a, <2>2, <2>4, <2>5 DEF Reset, Inv, Complete, Marked
<1>5. CASE AddRule
    <2>1. PICK r \in script[group] \ rules : rules' = rules \cup {r}
        BY <1>5 DEF AddRule
    <2>2. /\ pc = "rules"
          /\ UNCHANGED <<pc, script, group, result, active, marker, parted, calls, events>>
        BY <1>5 DEF AddRule
    <2>3. group \in 1 .. Len(script) /\ script \in Seq(SUBSET Rule) /\ ~active
        BY <1>a, <1>b, <2>2 DEF Progress
    <2>4. r \in RulesOf(script) /\ r \in Rule
        BY <2>1, <2>3, GroupRules
    <2>5. TypeOK'
        BY <1>a, <2>1, <2>2, <2>4 DEF TypeOK
    <2>6. Progress'
        BY <1>a, <2>1, <2>2, <2>4 DEF Progress
    <2> QED
        BY <1>a, <2>2, <2>5, <2>6 DEF Inv, Complete, Marked
<1>6. CASE NextGroup
    <2>1. /\ pc = "rules" /\ script[group] \subseteq rules /\ group' = group + 1
          /\ pc' = IF group = Len(script) THEN "enable" ELSE "rules"
          /\ UNCHANGED <<script, result, rules, active, marker, parted, calls, events>>
        BY <1>6 DEF NextGroup, ufw
    <2>2. /\ group \in 1 .. 5 /\ Len(script) = 5 /\ script \in Seq(SUBSET Rule) /\ ~active
          /\ rules \subseteq RulesOf(script) /\ DOMAIN script = 1 .. 5
        <3>1. Len(script) = 5 /\ script \in Seq(SUBSET Rule)
            BY <1>b, <2>1
        <3>2. DOMAIN script = 1 .. 5
            BY <3>1
        <3>3. group \in 1 .. Len(script) /\ ~active /\ rules \subseteq RulesOf(script)
            BY <1>a, <2>1 DEF Progress
        <3> QED
            BY <3>1, <3>2, <3>3
    <2>3. \A i \in DOMAIN script : i < group + 1 => script[i] \subseteq rules
        BY <1>a, <2>1, <2>2 DEF Progress
    <2>4. TypeOK'
        BY <1>a, <2>1, <2>2 DEF TypeOK
    <2>5. CASE group = Len(script)
        <3>1. \A i \in DOMAIN script : script[i] \subseteq rules
            BY <2>2, <2>3, <2>5
        <3>2. rules = RulesOf(script)
            BY <2>2, <3>1 DEF RulesOf
        <3> QED
            BY <1>a, <2>1, <2>2, <2>4, <2>5, <3>2 DEF Inv, Progress, Complete, Marked
    <2>6. CASE group # Len(script)
        BY <1>a, <2>1, <2>2, <2>3, <2>4, <2>6 DEF Inv, Progress, Complete, Marked
    <2> QED
        BY <2>5, <2>6
<1>7. CASE Enable
    BY <1>7, <1>a DEF Enable, Inv, TypeOK, Progress, Complete, Marked
<1>8. CASE UploadMarker
    <2>1. script # Absent
        BY <1>8, <1>b, NullAssumption DEF UploadMarker
    <2> QED
        BY <1>8, <1>a, <2>1 DEF UploadMarker, Return, ufw, Inv, TypeOK, Progress, Complete, Marked
<1>9. CASE CommandFails
    BY <1>9, <1>a DEF CommandFails, Happens, Return, ufw, Inv, TypeOK, Progress, Complete, Marked
<1>10. CASE ReadFails
    BY <1>10, <1>a DEF ReadFails, Happens, ufw, Inv, TypeOK, Progress, Complete, Marked
<1>11. CASE MarkerFails
    BY <1>11, <1>a DEF MarkerFails, Happens, Return, ufw, Inv, TypeOK, Progress, Complete, Marked
<1>12. CASE Drift
    <2>1. rules' \in SUBSET Rule /\ active' \in BOOLEAN
        BY <1>12, <1>a DEF Drift, TypeOK
    <2> QED
        BY <1>12, <1>a, <2>1 DEF Drift, Happens, Inv, TypeOK, Progress, Complete, Marked
<1>13. CASE UNCHANGED vars
    BY <1>13, <1>a DEF vars, Inv, TypeOK, Progress, Complete, Marked
<1> QED
    BY <1>1, <1>2, <1>3, <1>4, <1>5, <1>6, <1>7, <1>8, <1>9, <1>10, <1>11, <1>12, <1>13 DEF Next

\* The inductive invariant, from which the theorems follow.
THEOREM FirewallInv == Spec => []Inv
<1> QED
    BY InvInit, InvStep, PTL DEF Spec

-----------------------------------------------------------------------------
\* The firewall keeps its types, for every set of configurations.
THEOREM FirewallTypeOK == Spec => []TypeOK
<1>1. Inv => TypeOK
    BY DEF Inv
<1> QED
    BY <1>1, FirewallInv, PTL

\* A call that returned no error left ufw active.
THEOREM FirewallAppliedIsActive == Spec => []AppliedIsActive
<1>1. Inv => AppliedIsActive
    BY DEF Inv, Marked, AppliedIsActive
<1> QED
    BY <1>1, FirewallInv, PTL

\* A call that returned no error left its rules, unless they and the marker
\* parted.
THEOREM FirewallAppliedRules == Spec => []AppliedRulesInPlace
<1>1. Inv => AppliedRulesInPlace
    BY DEF Inv, Marked, AppliedRulesInPlace
<1> QED
    BY <1>1, FirewallInv, PTL

\* What one step of a call leaves active.
CompleteStep ==
    pc # "idle" /\ active' =>
        \/ active /\ rules' = rules
        \/ \E c \in FwConfigs : rules' = RulesOf(Script(c))

LEMMA CompleteSteps == Inv /\ [Next]_vars => [CompleteStep]_vars
<1> SUFFICES ASSUME Inv, Next, pc # "idle", active', ~(active /\ rules' = rules)
             PROVE  \E c \in FwConfigs : rules' = RulesOf(Script(c))
    BY DEF CompleteStep
<1>1. Enable
    <2>1. ~AddRule /\ ~NextGroup
        BY DEF Inv, Progress, AddRule, NextGroup, ufw
    <2>2. ~Reset /\ ~UploadMarker /\ ~MarkerFails
        BY DEF Inv, Complete, Reset, UploadMarker, MarkerFails, ufw
    <2>3. ~Compare /\ ~Status /\ ~CommandFails /\ ~ReadFails /\ ~Drift
        BY DEF Compare, Status, CommandFails, ReadFails, Drift, ufw
    <2>4. \A c \in FwConfigs : ~Call(c)
        BY DEF Call
    <2> QED
        BY <2>1, <2>2, <2>3, <2>4 DEF Next
<1>2. rules' = RulesOf(script) /\ script \in Scripts
    BY <1>1 DEF Enable, Inv, Complete
<1> QED
    BY <1>2 DEF Scripts

\* No step of a call leaves an active firewall with a part of the rules of a
\* configuration.
THEOREM FirewallActiveIsComplete == Spec => ActiveIsComplete
<1>1. Inv /\ [Next]_vars => [pc # "idle" /\ active' =>
                                \/ active /\ rules' = rules
                                \/ \E c \in FwConfigs : rules' = RulesOf(Script(c))]_vars
    BY CompleteSteps DEF CompleteStep
<1> QED
    BY <1>1, FirewallInv, PTL DEF Spec, ActiveIsComplete
===============================================================================
