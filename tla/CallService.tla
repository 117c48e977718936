---------------------------- MODULE CallService ----------------------------
(***************************************************************************)
(* What a broker of calls promises a client (a side panel, a browser       *)
(* client, a window) whatever happens behind it: a call made on a          *)
(* connection is answered at most once, on that connection, and it does    *)
(* not stay open for ever: it is answered or the connection ends.  Only    *)
(* a call that the client itself made obsolete (a second initialize) may   *)
(* lapse.                                                                  *)
(***************************************************************************)
CONSTANTS Conn, OrigId

VARIABLES
  status,  \* of every call of every connection
  gone     \* connections that ended

vars == <<status, gone>>

Init ==
  /\ status = [g \in Conn |-> [k \in OrigId |-> "unused"]]
  /\ gone = {}

Open(g, k) ==
  /\ g \notin gone /\ status[g][k] = "unused"
  /\ status' = [status EXCEPT ![g][k] = "open"]
  /\ UNCHANGED gone

Obsolete(g, k) ==
  /\ g \notin gone /\ status[g][k] = "open"
  /\ \E j \in OrigId \ {k} : status[g][j] # "unused"

\* Several may lapse at once, of several connections.
Lapse(L) ==
  /\ L # {} /\ \A c \in L : Obsolete(c[1], c[2])
  /\ status' = [g \in Conn |-> [k \in OrigId |->
       IF <<g, k>> \in L THEN "lapsed" ELSE status[g][k]]]
  /\ UNCHANGED gone

\* One burst of frames answers the calls K; the connection may end with it, and
\* then closes what it leaves unanswered.
Settle(g, K, ends) ==
  /\ g \notin gone /\ (ends \/ K # {})
  /\ \A k \in K : status[g][k] \in {"open", "lapsed"}
  /\ status' = [status EXCEPT ![g] = [k \in OrigId |->
       IF k \in K \/ @[k] = "answered" THEN "answered"
       ELSE IF ends THEN "closed" ELSE @[k]]]
  /\ gone' = IF ends THEN gone \cup {g} ELSE gone

\* Several connections may end at once, unanswered.
Close(G) ==
  /\ G # {} /\ G \cap gone = {}
  /\ status' = [g \in Conn |-> [k \in OrigId |->
       IF g \in G /\ status[g][k] # "answered" THEN "closed" ELSE status[g][k]]]
  /\ gone' = gone \cup G

Next ==
  \/ \E g \in Conn :
       \/ \E k \in OrigId : Open(g, k)
       \/ \E K \in SUBSET OrigId, ends \in BOOLEAN : Settle(g, K, ends)
  \/ \E G \in SUBSET Conn : Close(G)
  \/ \E L \in SUBSET (Conn \X OrigId) : Lapse(L)

\* A call that stays open is settled.
Fulfil(g, k) ==
  /\ status[g][k] = "open"
  /\ \/ \E K \in SUBSET OrigId, ends \in BOOLEAN : (ends \/ k \in K) /\ Settle(g, K, ends)
     \/ \E G \in SUBSET Conn : g \in G /\ Close(G)

Spec == Init /\ [][Next]_vars /\ \A g \in Conn, k \in OrigId : WF_vars(Fulfil(g, k))
=============================================================================
