----------------------------- MODULE MCPortMux -----------------------------
(* The two sources of lines on a ring of a few bytes.                      *)
EXTENDS PortMux
=============================================================================
