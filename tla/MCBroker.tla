------------------------------ MODULE MCBroker ------------------------------
(* Small instances of the app-server broker for TLC. *)
EXTENDS Broker, TLC

\* Panel names are interchangeable: no definition of Broker tells them apart.
PanelSymmetry == Permutations(ClientId)
=============================================================================
