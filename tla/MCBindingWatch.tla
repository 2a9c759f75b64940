--------------------------- MODULE MCBindingWatch ---------------------------
(* A small instance of BindingWatch for TLC: two spellings of one group, a  *)
(* second group, and a subject that is not a managed group.                *)
EXTENDS BindingWatch, TLC

CONSTANTS rb1, crb1,        \* one binding of each kind
          lower, UPPER,     \* two spellings of the UUID of g1
          other,            \* the UUID of g2
          system,           \* a Group subject that is not a UUID
          g1, g2

Groups == (lower :> g1) @@ (UPPER :> g1) @@ (other :> g2)
Lists == {{system}, {lower}, {UPPER, system}, {lower, other}}
=============================================================================
