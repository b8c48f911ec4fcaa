----------------------------- MODULE MCJobQueue -----------------------------
(* Instances of JobQueue for TLC. *)
EXTENDS JobQueue, TLC

CONSTANTS n1, n2, a1, a2, a3, c1, c2, None

\* Two invocations overlap on n1, one runs on n2
TwoNodes == (a1 :> n1) @@ (a2 :> n1) @@ (a3 :> n2)
\* Two invocations overlap on the only node
Overlap == (a1 :> n1) @@ (a2 :> n1)
\* One node, one invocation at a time
Alone == (a1 :> n1)

\* c2 is the clone of c1
CloneOfC1 == (c1 :> None) @@ (c2 :> c1)
NoClones == (c1 :> None)
=============================================================================
