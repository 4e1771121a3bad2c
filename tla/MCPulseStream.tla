--------------------------- MODULE MCPulseStream ---------------------------
(* PulseStream on small bounds.                                            *)
EXTENDS PulseStream
=============================================================================
