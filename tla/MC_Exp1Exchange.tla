-------------------------- MODULE MC_Exp1Exchange --------------------------
(* The exchange-file refinement checked on the inputs of MC_Exp1. *)
EXTENDS MC_Exp1, Exp1Refinement

(* The 7x7 grid, on which the file is written, and the small square     *)
(* grids, on which sampling leaves the grid before the file is opened.    *)
ShapesMixed == ShapesSquare7 \cup {<<3, 3>>, <<5, 5>>}
====
