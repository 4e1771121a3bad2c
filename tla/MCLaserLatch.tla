---------------------------- MODULE MCLaserLatch ----------------------------
(* LaserLatch on small bounds.                                             *)
EXTENDS LaserLatch
=============================================================================
