----------------------------- MODULE MCCooling -----------------------------
(* The cooling client over every verdict and every fate of a report.       *)
EXTENDS Cooling
=============================================================================
