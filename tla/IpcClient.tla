----------------------------- MODULE IpcClient -----------------------------
(***************************************************************************)
(* The client of the desktop app's IPC socket: UdsIpcClient and its frame  *)
(* decoder (ipc-uds.mjs).  It connects, sends initialize, and is ready once*)
(* that is answered; it reconnects after every close until it is stopped.  *)
(*                                                                         *)
(* The peer is external: it answers, sends or withholds frames, and closes *)
(* at any moment, in the middle of a frame too.  The decoder is made once: *)
(* what it holds of a frame when a connection closes is still there when   *)
(* the next one brings its first bytes.                                    *)
(***************************************************************************)
EXTENDS Naturals, FiniteSets

CONSTANTS Requests,  \* requests of the server, by id
          MaxOpens   \* connections it makes

VARIABLES link,      \* "none", "connecting", "open", or "closing": destroyed, close to come
          stopped, retry, initialized,
          pending,   \* ids waiting for a response; Hello is the initialize
          ended,     \* how often each request was resolved or rejected
          starting,  \* start() has not returned
          decoder,   \* what the decoder holds: "clean", "mid" frame, or "stale": of an earlier stream
          opens,     \* connections made so far
          stopLate,  \* stop() came while a connection was being made
          torn       \* a connection closed in the middle of a frame

ipcVars == <<link, stopped, retry, initialized, pending, ended, starting, decoder, opens, stopLate, torn>>

Hello == "initialize"

ASSUME IpcAssumption == Hello \notin Requests /\ MaxOpens \in Nat \ {0}

IpcTypeOK ==
  /\ link \in {"none", "connecting", "open", "closing"}
  /\ stopped \in BOOLEAN /\ retry \in BOOLEAN /\ initialized \in BOOLEAN
  /\ starting \in BOOLEAN /\ stopLate \in BOOLEAN /\ torn \in BOOLEAN
  /\ pending \subseteq Requests \cup {Hello}
  /\ ended \in [Requests -> 0..2]
  /\ decoder \in {"clean", "mid", "stale"}
  /\ opens \in 0..MaxOpens

\* start() connects; nothing else calls it.
IpcInit ==
  /\ link = "connecting" /\ opens = 1 /\ starting = TRUE
  /\ stopped = FALSE /\ retry = FALSE /\ initialized = FALSE
  /\ pending = {} /\ ended = [r \in Requests |-> 0]
  /\ decoder = "clean" /\ stopLate = FALSE /\ torn = FALSE

IsReady == link = "open" /\ initialized
Ends(rs) == ended' = [r \in Requests |-> IF r \in rs THEN ended[r] + 1 ELSE ended[r]]

\* The callback of net.connect: it does not look at `stopped'.
Connected ==
  /\ link = "connecting"
  /\ link' = "open" /\ initialized' = FALSE
  /\ pending' = pending \cup {Hello}
  /\ UNCHANGED <<stopped, retry, ended, starting, decoder, opens, stopLate, torn>>

\* The close event.  It empties `pending', and starts the timer unless stopped.
Residue == IF decoder = "clean" THEN "clean" ELSE "stale"

\* Mutant: what waits is left to its timers.
ClosedKeepsPending ==
  /\ link' = "none" /\ initialized' = FALSE
  /\ retry' = (retry \/ ~stopped)
  /\ starting' = (starting /\ initialized)
  /\ decoder' = Residue /\ torn' = (torn \/ decoder = "mid")
  /\ UNCHANGED <<pending, ended, stopped, opens, stopLate>>

Closed ==
  /\ link' = "none" /\ initialized' = FALSE
  /\ pending' = {} /\ Ends(pending)
  /\ retry' = (retry \/ ~stopped)
  /\ starting' = (starting /\ initialized)
  /\ decoder' = Residue /\ torn' = (torn \/ decoder = "mid")
  /\ UNCHANGED <<stopped, opens, stopLate>>

ConnectFails == link = "connecting" /\ Closed
\* The peer closes, or the destroyed socket reports it.
SocketCloses == link \in {"open", "closing"} /\ Closed

\* The timer runs _connectNow; stop() has cleared it.
Reconnects ==
  /\ retry /\ opens < MaxOpens
  /\ retry' = FALSE
  /\ link' = "connecting" /\ opens' = opens + 1
  /\ UNCHANGED <<stopped, initialized, pending, ended, starting, decoder, stopLate, torn>>

\* sendRequest: without a writable socket it is rejected at once.
SendRequest(r) ==
  /\ ended[r] = 0 /\ r \notin pending
  /\ IF link = "open" THEN pending' = pending \cup {r} /\ UNCHANGED ended
                      ELSE Ends({r}) /\ UNCHANGED pending
  /\ UNCHANGED <<link, stopped, retry, initialized, starting, decoder, opens, stopLate, torn>>

\* Mutant: the request is rejected and not forgotten.
TimeoutKeeps(r) ==
  /\ r \in pending /\ Ends({r} \cap Requests)
  /\ link' = IF r = Hello THEN "closing" ELSE link
  /\ starting' = (starting /\ r # Hello)
  /\ UNCHANGED <<pending, stopped, retry, initialized, decoder, opens, stopLate, torn>>

\* The initialize that fails destroys the socket, and start() returns.
Timeout(r) ==
  /\ r \in pending
  /\ pending' = pending \ {r} /\ Ends({r} \cap Requests)
  /\ link' = IF r = Hello THEN "closing" ELSE link
  /\ starting' = (starting /\ r # Hello)
  /\ UNCHANGED <<stopped, retry, initialized, decoder, opens, stopLate, torn>>

\* A frame that decodes.  A response ends its request; a success to initialize makes the
\* client ready, any other answer to it destroys the socket; all else is passed on.
Decodes == link = "open" /\ decoder \in {"clean", "mid"}

Receive(r) ==
  /\ Decodes /\ r \in pending
  /\ decoder' = "clean"
  /\ pending' = pending \ {r} /\ Ends({r} \cap Requests)
  /\ IF r = Hello
     THEN /\ starting' = FALSE
          /\ \/ initialized' = TRUE /\ UNCHANGED link
             \/ link' = "closing" /\ UNCHANGED initialized
     ELSE UNCHANGED <<link, initialized, starting>>
  /\ UNCHANGED <<stopped, retry, opens, stopLate, torn>>

\* A late response, a broadcast, the rest of a frame; or the beginning of one.
ReceiveOther ==
  /\ Decodes
  /\ decoder' = IF decoder = "mid" THEN "clean" ELSE "mid"
  /\ UNCHANGED <<link, stopped, retry, initialized, pending, ended, starting, opens, stopLate, torn>>

\* A frame that is too long or no JSON: the decoder throws, and keeps what follows it -
\* or the impossible length it read.
DecodeFails ==
  /\ link = "open" /\ decoder = "mid"
  /\ link' = "closing" /\ decoder' \in {"clean", "stale"}
  /\ torn' = TRUE
  /\ UNCHANGED <<stopped, retry, initialized, pending, ended, starting, opens, stopLate>>

\* Bytes that the rest of another stream makes unreadable: the decoder waits for a frame
\* that never ends, or throws, by chance with nothing left over.
Misread ==
  /\ link = "open" /\ decoder = "stale"
  /\ link' = "closing" /\ decoder' \in {"clean", "stale"}
  /\ UNCHANGED <<stopped, retry, initialized, pending, ended, starting, opens, stopLate, torn>>

\* stop() destroys the socket it knows; one still connecting it does not know.
Stop ==
  /\ ~stopped
  /\ stopped' = TRUE /\ retry' = FALSE
  /\ pending' = {} /\ Ends(pending)
  /\ link' = IF link = "open" THEN "closing" ELSE link
  /\ initialized' = FALSE
  /\ stopLate' = (link = "connecting")
  /\ starting' = (starting /\ link = "connecting")
  /\ UNCHANGED <<decoder, opens, torn>>

IpcNext ==
  \/ Connected \/ ConnectFails \/ SocketCloses \/ Reconnects
  \/ \E r \in Requests : SendRequest(r)
  \/ \E r \in pending : Timeout(r) \/ Receive(r)
  \/ ReceiveOther \/ DecodeFails \/ Misread
  \/ Stop

----------------------------------------------------------------------------
(* A request ends once, and waits only on a connection that is there; the      *)
(* client is ready on the connection that was initialized; a stopped client    *)
(* has no connection, unless the stop found one being made; and the decoder is *)
(* out of step only after a stream that was cut in a frame or unreadable.      *)
IpcSound ==
  /\ \A r \in Requests : ended[r] <= 1
  /\ pending # {} => link \in {"open", "closing"}
  /\ initialized => link \in {"open", "closing"} /\ Hello \notin pending
  /\ stopped /\ link \in {"connecting", "open"} => stopLate
  /\ decoder = "stale" => torn

(* Every request ends, start() returns, and a client that is not ready gets    *)
(* ready or tries another connection, until it is stopped.                     *)
IpcProgress ==
  /\ \A r \in Requests : r \in pending ~> r \notin pending
  /\ starting ~> ~starting
  /\ \A n \in 1..MaxOpens - 1 : opens = n /\ link = "none" ~> opens > n \/ stopped
=============================================================================
