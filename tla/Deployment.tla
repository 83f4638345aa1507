------------------------------- MODULE Deployment -------------------------------
(***************************************************************************)
(* What the vpsk3s_cluster resource promises to Terraform, whatever its      *)
(* steps are: one call at a time writes, item by item, what it wants, and    *)
(* nothing else does; what is saved is what a call wanted and every item of  *)
(* it was in place when it was saved; a call that ends early saves nothing;  *)
(* removing the resource writes nothing.  ClusterResource implements it.    *)
(***************************************************************************)

CONSTANTS
    Items,  \* what is written on the nodes
    None    \* nothing written, saved or wanted

VARIABLES
    saved,    \* what Terraform state says of the items, or None
    wanted,   \* what the call under way wants of them, or None
    content   \* what they are

vars == <<saved, wanted, content>>

Init ==
    /\ saved = None
    /\ wanted = None
    /\ content = [i \in Items |-> None]

Begin ==
    /\ wanted = None
    /\ wanted' # None /\ DOMAIN wanted' \subseteq Items
    /\ UNCHANGED <<saved, content>>

Write(i) ==
    /\ wanted # None /\ i \in DOMAIN wanted
    /\ content' = [content EXCEPT ![i] = wanted[i]]
    /\ UNCHANGED <<saved, wanted>>

Commit ==
    /\ wanted # None
    /\ \A i \in DOMAIN wanted : content[i] = wanted[i]
    /\ saved' = wanted
    /\ wanted' = None
    /\ UNCHANGED content

Abort ==
    /\ wanted # None
    /\ wanted' = None
    /\ UNCHANGED <<saved, content>>

Forget ==
    /\ wanted = None /\ saved # None
    /\ saved' = None
    /\ UNCHANGED <<wanted, content>>

Next ==
    \/ Begin
    \/ \E i \in Items : Write(i)
    \/ Commit
    \/ Abort
    \/ Forget

Spec == Init /\ [][Next]_vars
===============================================================================
