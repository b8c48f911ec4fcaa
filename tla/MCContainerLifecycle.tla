----------------------- MODULE MCContainerLifecycle -----------------------
(* One container, on one node, for TLC. *)
EXTENDS ContainerLifecycle, TLC

CONSTANTS n1, a1, c1, None

Alone == (a1 :> n1)
NoClones == (c1 :> None)
=============================================================================
