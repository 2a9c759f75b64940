CONSTANTS
    k8s = k8s
    argo = argo
    kubernetes = kubernetes
    viewer = viewer
    g1 = g1
    g2 = g2
    user = user
    Client = {k8s}
    Role = {kubernetes, viewer}
    RoleOf <- RoleOfOne
    MayWant <- AllGroups
    Principal = {g1, g2, user}
    Foreign <- NoForeign
    Place <- Listing
    PageSize = 1
    Observed = k8s
    Nothing = Nothing
SPECIFICATION FairSpec
PROPERTY
    OrphansRemoved
