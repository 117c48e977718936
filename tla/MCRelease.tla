----------------------------- MODULE MCRelease -----------------------------
(* Instance of Release for TLC, alone. *)
EXTENDS Release

MCSpec == ReleaseInit /\ [][ReleaseNext]_releaseVars
=============================================================================
