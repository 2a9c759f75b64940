CONSTANTS
    k8s = k8s
    argo = argo
    kubernetes = kubernetes
    viewer = viewer
    g1 = g1
    g2 = g2
    user = user
    Client = {k8s, argo}
    Role = {kubernetes, viewer}
    RoleOf <- RoleOfClient
    MayWant <- SharedGroup
    Principal = {g1, g2, user}
    Foreign <- NoForeign
    Place <- Listing
    PageSize = 6
    Observed = k8s
    Nothing = Nothing
SPECIFICATION Spec
PROPERTY
    RemovesOwnRoleOnly
