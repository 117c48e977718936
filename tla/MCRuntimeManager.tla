--------------------------- MODULE MCRuntimeManager ---------------------------
(* Instances of RuntimeManager for TLC: two configurations, one with a fixed port, *)
(* and two sessions with two panels that share the permits.                        *)
EXTENDS RuntimeManager
=============================================================================
