------------------------------ MODULE MCDither ------------------------------
(* Dither on small bounds: at a rate of 4 for a reference of 3, a period    *)
(* and a shortest pulse are scaled with rounding.                           *)
EXTENDS Dither
=============================================================================
