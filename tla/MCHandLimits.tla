------------------------------- MODULE MCHandLimits -------------------------------
(* Operators and the watcher steer one worker.                               *)
EXTENDS HandLimits, TLC

CONSTANTS o1, o2

OperatorSymmetry == Permutations({o1, o2})

=============================================================================
