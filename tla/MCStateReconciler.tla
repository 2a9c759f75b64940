------------------------- MODULE MCStateReconciler -------------------------
(* Small instances of StateReconciler for TLC.                             *)
EXTENDS StateReconciler, TLC

CONSTANTS rb, crb,   \* the two controllers
          n1, n2,    \* names: two spellings of one group, or two groups
          g1, g2     \* groups

(* Each name its own group, or both names one group. *)
OwnGroup == (n1 :> g1) @@ (n2 :> g2)
SameGroup == (n1 :> g1) @@ (n2 :> g1)
OneGroup == (n1 :> g1)
=============================================================================
