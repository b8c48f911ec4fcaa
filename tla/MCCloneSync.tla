----------------------------- MODULE MCCloneSync -----------------------------
(* A container, its clone on another node, and two invocations, for TLC. *)
EXTENDS CloneSync, TLC, FiniteSets
CONSTANTS c0, c1, n0, n1, a1, a2

EachItsNode == (c0 :> n0) @@ (c1 :> n1)

\* Constraints: one doubt at a time; the last of the events only in a second
\* switchover, when there is no doubt
Doubted == Cardinality(doubt) <= 1

Retried == events = MaxEvent =>
    era + (IF job.at = "unset" THEN 1 ELSE 0) >= 2 /\ doubt = {}
=============================================================================
