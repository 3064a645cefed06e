------------------------------- MODULE MCFpc -------------------------------
(* The FPC HAL for TLC: two groups, every build. *)
EXTENDS Fpc

CONSTANTS g1, g2

TwoGroups == {g1, g2}

AllBuilds == {"yoshino", "nile", "tama"}

=============================================================================
