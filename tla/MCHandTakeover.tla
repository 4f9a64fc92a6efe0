----------------------------- MODULE MCHandTakeover -----------------------------
(* Two watchers that own and contend in turn.                                  *)
EXTENDS HandTakeover

CONSTANTS w1, w2

=============================================================================
