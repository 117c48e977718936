------------------------------ MODULE MCAppServer ------------------------------
(* Instances of AppServer for TLC: two windows that may use the same id, a number *)
(* that the client itself gives the initialize of its second process.             *)
EXTENDS AppServer
=============================================================================
