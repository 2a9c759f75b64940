-------------------------- MODULE MCArgoCDSources ---------------------------
(* A small instance of ArgoCDSources for TLC: a source with an ArgoCD      *)
(* resource and a project, and one that has its ConfigMap alone.           *)
EXTENDS ArgoCDSources, TLC

CONSTANTS argocd,       \* the ArgoCD resource of the first source
          cm1, cm2,     \* the ConfigMaps
          project       \* an AppProject in the first source's namespace

KindOfObject == (argocd :> "argocd") @@ (cm1 :> "configmap") @@ (cm2 :> "configmap")
                @@ (project :> "appproject")
TwoSources == <<[resource |-> argocd, configMap |-> cm1, projects |-> {project}],
                [resource |-> Unset, configMap |-> cm2, projects |-> {}]>>
OneSource == <<[resource |-> argocd, configMap |-> cm1, projects |-> {project}]>>
=============================================================================
