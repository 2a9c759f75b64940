CONSTANTS
    argocd = argocd
    cm1 = cm1
    cm2 = cm2
    project = project
    Object = {argocd, cm1, cm2, project}
    KindOf <- KindOfObject
    Name = {g1}
    NumSources = 2
    Source <- TwoSources
    Unset = Unset
    MaxNotices = 1
SPECIFICATION FairSpec
INVARIANTS
    TypeOK
    SteadyReferenceKept
    NoLostUpdate
PROPERTY
    Converges
