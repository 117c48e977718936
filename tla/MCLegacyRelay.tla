---------------------------- MODULE MCLegacyRelay ----------------------------
(* Small instances of the Browser Use relay for TLC. *)
EXTENDS LegacyRelay, TLC

\* Connections are interchangeable: nothing tells them apart but their order of arrival.
ClientSymmetry == Permutations(Cid)
=============================================================================
