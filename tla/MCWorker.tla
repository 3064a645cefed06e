------------------------------ MODULE MCWorker ------------------------------
(* Model-checking instance of Worker: the caller threads are model values. *)
EXTENDS Worker

CONSTANTS c1, c2

TwoCallers == {c1, c2}
=============================================================================
