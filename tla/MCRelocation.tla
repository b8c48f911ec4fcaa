---------------------------- MODULE MCRelocation ----------------------------
(* A container and a clone on another node, two data centers, for TLC. *)
EXTENDS Relocation, TLC
CONSTANTS c1, c2, n1, n2, n3, i1, i2, i3, i4

TwoCenters == [x \in {n1, n2, i1, i2, i3} |-> "A"] @@ [x \in {n3, i4} |-> "B"]
OnTwoNodes == (c1 :> n1) @@ (c2 :> n2)
TwoAddresses == (c1 :> i1) @@ (c2 :> i2)
=============================================================================
