--------------------------- MODULE MCRelayTracker ---------------------------
(* Instances for TLC of the Browser Use relay and of the rollout tracker it    *)
(* starts.  They share no state but the channel to Chrome, of which each has   *)
(* its end; a behaviour exercises one of them.                                 *)
EXTENDS LegacyRelay, RolloutTracker

VARIABLE part
allVars == <<vars, rolloutVars, part>>

MCInit == Init /\ RolloutInit /\ part \in {"relay", "rollout"}

RolloutOnly == part = "rollout" /\ UNCHANGED <<vars, part>>

MCNext ==
  \/ part = "relay" /\ Next /\ UNCHANGED <<rolloutVars, part>>
  \/ RolloutOnly /\ RolloutNext

\* The tracker's thread runs and Chrome reads; a file that can be read now and then is
\* read.  Nobody has to write or to ask.
RolloutFairness ==
  /\ WF_allVars(RolloutOnly /\ (Insert \/ PassBegins))
  /\ WF_allVars(RolloutOnly /\ ChromeTakes)
  /\ WF_allVars(RolloutOnly /\ TurnEnded)
  /\ \A t \in Turns :
       /\ WF_allVars(RolloutOnly /\ (Discover(t) \/ Expires(t)))
       /\ SF_allVars(RolloutOnly /\ Drain(t))

MCSpec == MCInit /\ [][MCNext]_allVars /\ Fairness /\ RolloutFairness

(* The tracker is typed and keeps its books, and every turn that ended is      *)
(* reported: once for a request, from a line that was not skipped.             *)
TracksTurns == [](RolloutTypeOK /\ ReportsAreSound) /\ TurnsReported
=============================================================================
