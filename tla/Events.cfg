CONSTANTS
    rb1 = rb1
    crb1 = crb1
    lower = lower
    UPPER = UPPER
    other = other
    system = system
    g1 = g1
    g2 = g2
    RoleBinding = {rb1}
    ClusterRoleBinding = {crb1}
    Subject = {lower, UPPER, other, system}
    ManagedGroup <- Groups
    SubjectLists <- Lists
    MaxNotices = 2
    Free = Free
SPECIFICATION FairSpec
INVARIANTS
    TypeOK
    NoLostUpdate
PROPERTY
    EventsSuffice
