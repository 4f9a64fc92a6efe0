------------------------------ MODULE MCHandLifecycle ------------------------------
(* The commands and their world on one task, with two leases and two panes.  *)
EXTENDS HandLifecycle, TLC

CONSTANTS t1, l1, l2, p1, p2

IdentitySymmetry == Permutations({l1, l2}) \union Permutations({p1, p2})

=============================================================================
