--------------------------- MODULE MCRoleAssigner ---------------------------
(***************************************************************************)
(* Environments for RoleAssigner.  The lists spell two service principals: *)
(* entry 1 is p in upper case, entry 2 is p in lower case, entry 3 is q    *)
(* and 0 is nothing between two commas.                                    *)
(***************************************************************************)
EXTENDS RoleAssigner

CONSTANTS g1, g2

Groups == {g1, g2}
Principals2 == {"p", "q"}
Roles == {"cluster", "argocd"}
Spelled == <<"p", "p", "q">>
Unset == ""
Defaults == <<"instance-0", "instance-1">>
Controllers ==
    [n \in {"default", "prod", "Prod", "Dev"} \cup {Defaults[i] : i \in 1..2} |->
        IF n = "Prod" THEN "prod" ELSE IF n = "Dev" THEN "dev" ELSE n]

Instance(name, list, role) ==
    [name |-> name, namespace |-> TRUE, list |-> list, role |-> role]
Cluster(list, groups) ==
    [list |-> list, role |-> "cluster", argocd |-> "off", instances |-> <<>>,
     groups |-> groups]
With(c, argocd, instances) ==
    [c EXCEPT !.argocd = argocd, !.instances = instances]
OnP == Cluster(<<2>>, {g1})

(* The Kubernetes bindings alone: two groups, two principals, a trailing    *)
(* comma, one principal spelled twice.                                     *)
Alone ==
    {Cluster(<<2>>, {g1, g2}), Cluster(<<3, 2>>, {g1}),
     Cluster(<<2, Empty>>, {g1}), Cluster(<<1, 2>>, {g1})}

(* Argo CD beside them: by the single variables; two instances that share  *)
(* a target in spite of order, duplicates and empty entries.  Two of the    *)
(* three have no groups, because only their wiring is of interest.         *)
Beside ==
    {With(Cluster(<<2>>, {}), "env", <<Instance("default", <<3, Empty>>, "argocd")>>),
     With(Cluster(<<2>>, {}), "json", <<Instance("prod", <<3>>, "argocd"),
                                        Instance("Prod", <<3, 3, Empty>>, "argocd")>>),
     With(OnP, "json", <<Instance("prod", <<3, Empty>>, "argocd"),
                         Instance("Prod", <<Empty, 3, 3>>, "argocd")>>)}

(* Targets that meet on one principal: the one the Kubernetes bindings use, *)
(* and one under two roles (three targets; only their wiring is of          *)
(* interest, so nothing is ever referred to).                              *)
Meeting ==
    {With(Cluster(<<2>>, {}), "json",
                       <<Instance(Unset, <<3>>, "argocd"),
                         Instance(Unset, <<3>>, "cluster")>>),
     With(OnP, "json", <<Instance("prod", <<2>>, "cluster")>>)}

(* Environments main gives up on: one name twice, a default name that is    *)
(* taken, names that differ in case only, no namespace, no instance, an     *)
(* Argo CD target without principals or without a role, nothing set.       *)
Refused ==
    {With(OnP, "json", <<Instance("prod", <<3>>, "argocd"), Instance("prod", <<3>>, "argocd")>>),
     With(OnP, "json", <<Instance("instance-1", <<3>>, "argocd"), Instance(Unset, <<3>>, "argocd")>>),
     With(OnP, "json", <<Instance("prod", <<3>>, "argocd"), Instance("Prod", <<2, 3>>, "argocd")>>),
     With(OnP, "json", <<[Instance("prod", <<3>>, "argocd") EXCEPT !.namespace = FALSE]>>),
     With(OnP, "json", <<>>),
     With(OnP, "env", <<Instance("default", <<Empty>>, "argocd")>>),
     With(OnP, "env", <<Instance("default", <<3>>, Unset)>>),
     Cluster(<<>>, {g1})}

Environments == Alone \cup Beside \cup Meeting \cup Refused

(* Two instances with one Azure target, spelled in lower and in upper case. *)
OneTargetSpelledTwice ==
    {With(Cluster(<<3>>, {g1}), "json",
          <<Instance("prod", <<2>>, "argocd"), Instance("Dev", <<1>>, "argocd")>>)}

=============================================================================
