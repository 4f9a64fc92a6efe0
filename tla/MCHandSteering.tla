------------------------------ MODULE MCHandSteering ------------------------------
(* Two operators steer one worker.                                           *)
EXTENDS HandSteering, TLC

CONSTANTS o1, o2

OperatorSymmetry == Permutations({o1, o2})

=============================================================================
