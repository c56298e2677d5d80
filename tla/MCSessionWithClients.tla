------------------------ MODULE MCSessionWithClients ------------------------
(* SessionWithClients on small instances.                                  *)
EXTENDS SessionWithClients, TLC

CONSTANTS p1, p2, e1, t1

MCOneToken == t1 :> e1
=============================================================================
