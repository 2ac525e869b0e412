--------------------------- MODULE MCControlConn ---------------------------
(* ControlConn on small instances; the goroutines are interchangeable.     *)
EXTENDS ControlConn, TLC

Symmetry == Permutations(Goroutines)
=============================================================================
