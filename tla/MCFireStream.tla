----------------------------- MODULE MCFireStream -----------------------------
(* FireStream on small bounds.                                             *)
EXTENDS FireStream
=============================================================================
