---------------------------- MODULE MCLidCancel ----------------------------
(* The lid over two positions of the head and a few lines.                 *)
EXTENDS LidCancel
=============================================================================
