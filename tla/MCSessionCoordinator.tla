------------------------ MODULE MCSessionCoordinator ------------------------
(* SessionCoordinator on small instances.                                  *)
EXTENDS SessionCoordinator, TLC

CONSTANTS p1, p2, e1, e2, t1, t2

MCOneTokenPerEndpoint == (t1 :> e1) @@ (t2 :> e2)
=============================================================================
