--------------------------- MODULE MCGraphClient ----------------------------
(* Small instances of GraphClient for TLC.                                 *)
EXTENDS GraphClient, TLC

CONSTANTS k8s, argo,        \* clients
          kubernetes, viewer, \* app roles
          g1, g2, user      \* principals

(* The two clients share the application, each with groups of its own, or   *)
(* one of them works on it alone.                                          *)
RoleOfClient == (k8s :> kubernetes) @@ (argo :> viewer)
RoleOfOne == (k8s :> kubernetes)
OwnGroups == (k8s :> {g1}) @@ (argo :> {g2})
SharedGroup == (k8s :> {g1}) @@ (argo :> {g1})
AllGroups == (k8s :> {g1, g2})

(* Somebody else gives the Kubernetes role to a user or to g1.  Nobody     *)
(* holds both roles, which is what the contract needs.                      *)
Apart == {[principal |-> user, role |-> kubernetes],
          [principal |-> g1, role |-> kubernetes]}
NoForeign == {}

(* Graph's order: by principal, the second role first. *)
Position(x) == CASE x = g1 -> 0 [] x = g2 -> 2 [] x = user -> 4
                 [] x = kubernetes -> 1 [] x = viewer -> 0
Listing == [a \in Assignment |-> Position(a.principal) + Position(a.role)]
=============================================================================
