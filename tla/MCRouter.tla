------------------------------ MODULE MCRouter ------------------------------
(* Instances of Router for TLC.  The components share no state but the set of  *)
(* windows, so a behaviour exercises one of them, chosen at the start, with    *)
(* the windows coming and leaving.                                             *)
EXTENDS Router

VARIABLE part

MCInit == RouterInit /\ part \in {"terminals", "git", "fetches"}
MCNext ==
  /\ UNCHANGED part
  /\ \/ \E w \in Windows : RegisterClient(w) \/ UnregisterClient(w)
     \/ Dispose
     \/ part = "terminals" /\ TerminalStep
     \/ part = "git" /\ GitStep
     \/ part = "fetches" /\ FetchStep
MCSpec == MCInit /\ [][MCNext]_<<vars, part>> /\ Fairness
=============================================================================
