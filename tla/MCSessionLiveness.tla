------------------------- MODULE MCSessionLiveness -------------------------
(* SessionLiveness on small instances.                                     *)
EXTENDS SessionLiveness, TLC

CONSTANTS p1, p2, e1, e2, t1, t2

MCOneToken == t1 :> e1
=============================================================================
