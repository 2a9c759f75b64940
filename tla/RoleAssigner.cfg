SPECIFICATION FairSpec
CONSTANTS
    g1 = g1
    g2 = g2
    Configs <- Environments
    Group <- Groups
    Principal <- Principals2
    Role <- Roles
    PrincipalOf <- Spelled
    ControllerName <- Controllers
    DefaultName <- Defaults
    NoName <- Unset
    NoRole <- Unset
INVARIANTS
    TypeOK
    EveryInstanceServed
    SteadyWantKept
PROPERTIES
    PassesKeepTheirWord
    GaugesTell
    Converges
