--------------------------- MODULE MCEgisCurrent ---------------------------
(* Model values and small sets for checking EgisCurrent with TLC. *)
EXTENDS EgisCurrent

CONSTANTS g1, g2, p1

OneGroup == {g1}
TwoGroups == {g1, g2}
OnePrint == {p1}

(* 0x500 has gestures and runs the navigation loop; 0x600 sleeps. *)
BothHwIds == {1280, 1536}

=============================================================================
