-------------------------- MODULE MCFirewallGroup --------------------------
(* Two nodes and one session, for TLC. *)
EXTENDS FirewallGroup
CONSTANTS n1, n2, s1

\* A doubt stays, and every property is about behaviours without one: nothing
\* is lost when TLC goes no further from a state that has a doubt
Undoubted == doubt = {}
=============================================================================
