---------------------------- MODULE MCEgisLegacy ----------------------------
(* The legacy Egistec HAL for TLC: the framework's enroll timeout of 60 s, *)
(* and 2147484 s, the smallest whose milliseconds wrap negative.           *)
EXTENDS EgisLegacy

FrameworkTimeouts == {60, 2147484}

=============================================================================
