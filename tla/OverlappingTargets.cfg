SPECIFICATION Spec
CONSTANTS
    g1 = g1
    g2 = g2
    Configs <- OneTargetSpelledTwice
    Group <- Groups
    Principal <- Principals2
    Role <- Roles
    PrincipalOf <- Spelled
    ControllerName <- Controllers
    DefaultName <- Defaults
    NoName <- Unset
    NoRole <- Unset
INVARIANT
    UnionKept
