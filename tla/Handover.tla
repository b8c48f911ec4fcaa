------------------------------ MODULE Handover ------------------------------
(***************************************************************************)
(* What a switchover promises about the production address: it moves from  *)
(* one container to the other without a moment in which none has it.       *)
(***************************************************************************)
EXTENDS FiniteSets

CONSTANT Pair      \* the production container and its clone

VARIABLE holders   \* the containers the address is configured on

Init == \E c \in Pair : holders = {c}

Acquire(c) == holders' = holders \cup {c}

\* Only while the other container keeps the address
Release(c) == holders # {c} /\ holders' = holders \ {c}

Next == \E c \in Pair : Acquire(c) \/ Release(c)

Spec == Init /\ [][Next]_holders
=============================================================================
