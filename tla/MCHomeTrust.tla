---------------------------- MODULE MCHomeTrust ----------------------------
(* Two places an axis, the hall edge at one of them and the park at the    *)
(* other.                                                                  *)
EXTENDS HomeTrust
=============================================================================
