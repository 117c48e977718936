------------------------------- MODULE Router -------------------------------
(***************************************************************************)
(* The message router of the web server (MessageRouter): the windows that  *)
(* are connected, and what they share through it.  Terminals, the git      *)
(* worker and the fetches are components of their own; the router tells    *)
(* all of them that a window has left, and disposes of all of them.  A     *)
(* window here is one WebSocket: a page that reconnects is another window. *)
(***************************************************************************)
EXTENDS Terminals, GitWorker, Fetches

VARIABLES clients,   \* the registered sockets
          left,      \* sockets that were closed
          disposed   \* dispose() has run; sockets still close one by one

routerVars == <<clients, left, disposed>>
vars == <<routerVars, terminalVars, gitVars, fetchVars>>

RouterTypeOK ==
  /\ clients \subseteq Windows /\ left \subseteq Windows /\ disposed \in BOOLEAN
  /\ TerminalTypeOK /\ GitTypeOK /\ FetchTypeOK

RouterInit ==
  /\ clients = {} /\ left = {} /\ disposed = FALSE
  /\ TerminalInit /\ GitInit /\ FetchInit

RegisterClient(w) ==
  /\ ~disposed /\ w \notin clients \cup left
  /\ clients' = clients \cup {w}
  /\ UNCHANGED <<left, disposed, terminalVars, gitVars, fetchVars>>

\* Its fetches go on: their answers find the socket closed.
UnregisterClient(w) ==
  /\ w \in clients
  /\ clients' = clients \ {w} /\ left' = left \cup {w}
  /\ TerminalsLose(w) /\ GitLose(w)
  /\ UNCHANGED <<disposed, fetchVars>>

\* The sockets have been asked to close, and still deliver what the pages had sent.
Dispose ==
  /\ ~disposed
  /\ disposed' = TRUE
  /\ TerminalsDispose /\ GitDispose /\ FetchesDispose
  /\ UNCHANGED <<clients, left>>

TerminalStep == TerminalNext(clients) /\ UNCHANGED <<routerVars, gitVars, fetchVars>>
GitStep == GitNext(clients) /\ UNCHANGED <<routerVars, terminalVars, fetchVars>>
FetchStep == FetchNext(clients) /\ UNCHANGED <<routerVars, terminalVars, gitVars>>

RouterNext ==
  \/ \E w \in Windows : RegisterClient(w) \/ UnregisterClient(w)
  \/ Dispose
  \/ TerminalStep \/ GitStep \/ FetchStep

\* File accesses resolve, the worker works, node delivers its messages; a command, the
\* app server and the network answer or time out.
Fairness ==
  /\ \A r \in Asks, k \in Kinds : WF_vars(GitResolves([id |-> r, kind |-> k], clients) /\ UNCHANGED <<routerVars, terminalVars, fetchVars>>)
  /\ \A r \in Asks : WF_vars((GitAnswer(r) \/ GitDeliver(r, clients)) /\ UNCHANGED <<routerVars, terminalVars, fetchVars>>)
  /\ \A f \in Fids : WF_vars(FetchEnds(f) /\ UNCHANGED <<routerVars, terminalVars, gitVars>>)

RouterSpec == RouterInit /\ [][RouterNext]_vars /\ Fairness

----------------------------------------------------------------------------
(* Terminals are kept for connected windows only, and a shell that runs once   *)
(* the router was disposed of either got its signal or belongs to a terminal a *)
(* window created afterwards, through a socket that was still closing.         *)
NothingForTheGone ==
  /\ \A t \in DOMAIN terminals : terminals[t].listeners # {} /\ terminals[t].listeners \subseteq clients
  /\ \A p \in Shells : clients = {} /\ shells[p].st = "running" /\ shells[p].id \notin rebuilt => shells[p].killed

(* A worker's answer reaches the window that asked, and a fetch no second one. *)
AnsweredRight == GitRightWindow /\ FetchAnsweredOnce

(* Every request to the git worker and every fetch ends with an answer, but    *)
(* for the ways out their modules name.                                        *)
AllAnswered == GitAnswered /\ FetchAnswered
=============================================================================
