-------------------------------- MODULE MCAddons --------------------------------
(***************************************************************************)
(* Configurations of the addons for TLC.                                    *)
(***************************************************************************)
EXTENDS Addons

CONSTANTS n1, n2, v1, v2, f1, a, b, r1, r2, keep, s1, s2

TheChart(ns, version, values) == [ns |-> ns, version |-> version, values |-> values]
TheClass(name, replicas) == [name |-> name, replicas |-> replicas, policy |-> keep, default |-> FALSE]
Valued == TheChart(n1, v1, f1)
Pinned == TheChart(n1, v1, None)
Plain == TheChart(n1, None, None)
Moved == TheChart(n2, v1, None)

AddonsOf(settings, mode, traefik, enabled, longhorn, kinds) ==
    [settings |-> settings, disable |-> FALSE, mode |-> mode, traefik |-> traefik,
     enabled |-> enabled, longhorn |-> longhorn, classes |-> kinds]

TheManifests == <<"crd", "controller">>
Defaults == [k \in {a} |-> TheClass(a, r1)]

MCConfigs == {
    AddonsOf(s1, "default", Plain, FALSE, Plain, <<>>),
    \* both, with a class for each key
    AddonsOf(s1, "install", Valued, TRUE, Plain, [k \in {a, b} |-> TheClass(k, r2)]),
    \* values no longer given; default classes
    AddonsOf(s2, "install", Plain, TRUE, Pinned, <<>>),
    \* Longhorn in another namespace; two keys with one name
    AddonsOf(s1, "disabled", Plain, TRUE, Moved, [k \in {a, b} |-> TheClass(a, r1)])}
===============================================================================
