---------------------------- MODULE RuntimeManager ----------------------------
(***************************************************************************)
(* The runtime sessions of the extension host: one app-server process with *)
(* its proxy listener and its side-panel connections each.                 *)
(*                                                                         *)
(* The host's main thread serves codexRuntime/ensure, codexRuntime/restart *)
(* and the end of stdin one after the other.  Around it run, per session,  *)
(* the child process, the reader of its stdout, the listener thread and a  *)
(* thread per connection; all they share with the main thread are the stop *)
(* flag and the health flag.  What a connection does while it is served is *)
(* module Broker.                                                          *)
(***************************************************************************)
EXTENDS Integers, FiniteSets

CONSTANTS
  Config,        \* host configurations the registry may hold
  FixedPort,     \* those that ask for one proxy port; the others take any
  MaxSession,    \* bound: sessions started
  Panel,         \* connections the extension's panels make
  MaxHandshakes, \* MAX_HANDSHAKES
  Faults         \* what may fail once the process runs: "random" numbers, the "listener"
                 \* thread, reading the browser "client"

ASSUME RuntimeAssumption ==
  /\ FixedPort \subseteq Config /\ 0 \notin Config
  /\ IsFiniteSet(Panel) /\ MaxSession \in Nat /\ MaxHandshakes \in Nat

Session == 1..MaxSession

VARIABLES
  pc,         \* where the main thread stands
  wanted,     \* the configuration of the request it handles
  slot,       \* RuntimeManager.session, 0 if none
  hand,       \* the session it stops, or has started
  reply,      \* history: the session the last request was answered with, 0 for an error
  granted,    \* history: sessions the extension was ever told of
  lately,     \* history: sessions alive when the last request was taken, or started for it
  config,     \* the configuration a session was started with, 0 before that
  child,      \* its app-server process
  healthy,    \* Broker.healthy
  stop,       \* RuntimeSession.stop
  listener,   \* its listener thread
  handshakes, \* the listener's counter
  panel,      \* where a connection's thread stands
  joined      \* the session it connects to

manager  == <<pc, wanted, slot, hand, reply, granted, lately>>
process  == <<config, child, healthy, stop>>
accepted == <<handshakes, panel, joined>>
vars     == <<manager, process, listener, accepted>>

Goto(l) == pc' = l
Up == pc # "over"     \* the host process runs

Init ==
  /\ pc = "idle" /\ wanted = 0 /\ slot = 0 /\ hand = 0
  /\ reply = 0 /\ granted = {} /\ lately = {}
  /\ config = [s \in Session |-> 0] /\ child = [s \in Session |-> "none"]
  /\ healthy = [s \in Session |-> TRUE] /\ stop = [s \in Session |-> FALSE]
  /\ listener = [s \in Session |-> "none"]
  /\ handshakes = [s \in Session |-> 0]
  /\ panel = [k \in Panel |-> "none"] /\ joined = [k \in Panel |-> 0]

-----------------------------------------------------------------------------
(* The main thread: ensure, restart, shutdown. *)

\* RuntimeSession::is_alive
IsAlive(s) == healthy[s] /\ child[s] = "running"

\* Requests whose constraints or client id are refused change nothing and are left out.
\* The registry is read anew for each: the desktop may have rewritten it.
Call ==
  /\ pc = "idle"
  /\ wanted' \in Config
  /\ \/ Goto("ensure") \/ Goto("restart")
  /\ lately' = {s \in Session : IsAlive(s)}
  /\ UNCHANGED <<slot, hand, reply, granted, process, listener, accepted>>

\* No compatible configuration is found.
Unresolved ==
  /\ pc = "idle"
  /\ reply' = 0
  /\ UNCHANGED <<pc, wanted, slot, hand, granted, lately, process, listener, accepted>>

\* Mutant: the session is dropped, but its threads keep it.
FlaggedNone == stop
Flagged == [stop EXCEPT ![slot] = TRUE]

\* The first half of RuntimeSession::stop; the session leaves its slot.
StopFlag(l) ==
  /\ stop' = Flagged
  /\ hand' = slot /\ slot' = 0
  /\ Goto(l)

\* Mutant: whether the stored session still lives is not asked.
ReusableDead(s) == config[s] = wanted
Reusable(s) == config[s] = wanted /\ IsAlive(s)

NothingToReuse ==
  /\ pc \in {"ensure", "restart"} /\ slot = 0
  /\ Goto("start")
  /\ UNCHANGED <<wanted, slot, hand, reply, granted, lately, process, listener, accepted>>

Reuse ==
  /\ pc = "ensure" /\ slot # 0 /\ Reusable(slot)
  /\ hand' = slot /\ Goto("result")
  /\ UNCHANGED <<wanted, slot, reply, granted, lately, process, listener, accepted>>

Replace ==
  /\ slot # 0
  /\ pc = "restart" \/ (pc = "ensure" /\ ~Reusable(slot))
  /\ StopFlag("kill")
  /\ UNCHANGED <<wanted, reply, granted, lately, config, child, healthy, listener, accepted>>

Killed(s) == [child EXCEPT ![s] = "exited"]

\* kill and wait, in the second half of RuntimeSession::stop
Kill ==
  /\ pc \in {"kill", "lastKill"}
  /\ child' = Killed(hand)
  /\ hand' = 0
  /\ Goto(IF pc = "kill" THEN "start" ELSE "over")
  /\ UNCHANGED <<wanted, slot, reply, granted, lately, config, healthy, stop, listener, accepted>>

\* A listener thread keeps its port until it sees the stop flag.
PortTaken ==
  wanted \in FixedPort /\ \E s \in Session : config[s] \in FixedPort /\ listener[s] \in {"top", "accept"}

\* RuntimeSession::start up to spawn: the port cannot be bound, or the executable not be run.
StartFails ==
  /\ pc = "start"
  /\ reply' = 0 /\ Goto("idle")
  /\ UNCHANGED <<wanted, slot, hand, granted, lately, process, listener, accepted>>

\* The process is spawned, with the broker's writer and reader.
Spawns(s) ==
  /\ pc = "start" /\ ~PortTaken
  /\ config[s] = 0 /\ \A r \in Session : r < s => config[r] # 0
  /\ config' = [config EXCEPT ![s] = wanted]

Start(s) ==
  /\ Spawns(s)
  /\ child' = [child EXCEPT ![s] = "running"]
  /\ listener' = [listener EXCEPT ![s] = "top"]
  /\ hand' = s /\ lately' = lately \cup {s} /\ Goto("result")
  /\ UNCHANGED <<wanted, slot, reply, granted, healthy, stop, accepted>>

\* What fails after that is not stored: without a token there is no session yet to be
\* dropped, and the process is left to itself, its input held open by the reader's broker;
\* without a listener the session is dropped, which stops it.
StartBreaks(s) ==
  /\ Spawns(s)
  /\ \/ /\ "random" \in Faults
        /\ child' = [child EXCEPT ![s] = "running"]
        /\ UNCHANGED <<listener, stop>>
     \/ /\ "listener" \in Faults
        /\ child' = [child EXCEPT ![s] = "exited"]
        /\ stop' = [stop EXCEPT ![s] = TRUE]
        /\ listener' = [listener EXCEPT ![s] = "ended"]
  /\ reply' = 0 /\ Goto("idle")
  /\ UNCHANGED <<wanted, slot, hand, granted, lately, healthy, accepted>>

\* runtime_result hashes the browser client; the session is stored only after that.
Result ==
  /\ pc = "result"
  /\ slot' = hand /\ reply' = hand /\ granted' = granted \cup {hand}
  /\ hand' = 0 /\ Goto("idle")
  /\ UNCHANGED <<wanted, lately, process, listener, accepted>>

ResultFails ==
  /\ pc = "result" /\ "client" \in Faults
  /\ reply' = 0 /\ hand' = 0 /\ Goto("idle")
  /\ UNCHANGED <<wanted, slot, granted, lately, process, listener, accepted>>

\* The end of stdin: ProtocolHost::shutdown, then the process ends with its threads.
Shutdown ==
  /\ pc = "idle"
  /\ \/ /\ slot # 0 /\ StopFlag("lastKill")
     \/ /\ slot = 0 /\ Goto("over") /\ UNCHANGED <<stop, hand, slot>>
  /\ UNCHANGED <<wanted, reply, granted, lately, config, child, healthy, listener, accepted>>

-----------------------------------------------------------------------------
(* The child process, and the reader of its stdout. *)

\* It crashes, or its stdin was closed.
ChildExits(s) ==
  /\ child[s] = "running"
  /\ child' = [child EXCEPT ![s] = "exited"]
  /\ UNCHANGED <<manager, config, healthy, stop, listener, accepted>>

\* The end of the child's output, or a line that cannot be taken.
ReaderStops(s) ==
  /\ Up /\ healthy[s] /\ child[s] # "none"
  /\ healthy' = [healthy EXCEPT ![s] = FALSE]
  /\ UNCHANGED <<manager, config, child, stop, listener, accepted>>

-----------------------------------------------------------------------------
(* spawn_proxy_listener and serve_connection. *)

ListenerTop(s) ==
  /\ Up /\ listener[s] = "top"
  /\ listener' = [listener EXCEPT ![s] = IF stop[s] THEN "ended" ELSE "accept"]
  /\ UNCHANGED <<manager, process, accepted>>

NoConnection(s) ==
  /\ Up /\ listener[s] = "accept"
  /\ listener' = [listener EXCEPT ![s] = "top"]
  /\ UNCHANGED <<manager, process, accepted>>

\* Mutant: a refused handshake is subtracted but was not added.
AfterRefusalSubtracted(s) == handshakes[s] - 1
\* Mutant: it is not subtracted again.
AfterRefusalKept(s) == handshakes[s] + 1
AfterRefusal(s) == handshakes[s]

\* A panel connects; after the last permit it is dropped at once.
Accept(s, k) ==
  /\ Up /\ listener[s] = "accept" /\ panel[k] = "none"
  /\ joined' = [joined EXCEPT ![k] = s]
  /\ \/ /\ handshakes[s] >= MaxHandshakes
        /\ handshakes' = [handshakes EXCEPT ![s] = AfterRefusal(s)]
        /\ panel' = [panel EXCEPT ![k] = "gone"]
     \/ /\ handshakes[s] < MaxHandshakes
        /\ handshakes' = [handshakes EXCEPT ![s] = @ + 1]
        /\ panel' = [panel EXCEPT ![k] = "handshake"]
  /\ listener' = [listener EXCEPT ![s] = "top"]
  /\ UNCHANGED <<manager, process>>

\* The upgrade is authorized and the connection registered with the broker.
Registered(k) ==
  /\ Up /\ panel[k] = "handshake"
  /\ panel' = [panel EXCEPT ![k] = "serving"]
  /\ UNCHANGED <<manager, process, listener, handshakes, joined>>

\* The thread of a connection ends: the handshake fails or is not authorized, the
\* broker refuses or evicts it, its socket ends.
PanelEnds(k) ==
  /\ Up /\ panel[k] \in {"handshake", "serving"}
  /\ panel' = [panel EXCEPT ![k] = "gone"]
  /\ handshakes' = [handshakes EXCEPT ![joined[k]] = @ - 1]
  /\ UNCHANGED <<manager, process, listener, joined>>

\* Mutant: a served connection ends only with its socket.
ToldToStopNever(k) == FALSE
\* The check at the end of a round of serve_registered_connection.
ToldToStop(k) == stop[joined[k]]

PanelStops(k) == panel[k] = "serving" /\ ToldToStop(k) /\ PanelEnds(k)

-----------------------------------------------------------------------------
MainThread ==
  \/ Call \/ Unresolved \/ NothingToReuse \/ Reuse \/ Replace \/ Kill
  \/ StartFails \/ Result \/ ResultFails \/ Shutdown
  \/ \E s \in Session : Start(s) \/ StartBreaks(s)

Next ==
  \/ MainThread
  \/ \E s \in Session :
       \/ ChildExits(s) \/ ReaderStops(s) \/ ListenerTop(s) \/ NoConnection(s)
       \/ \E k \in Panel : Accept(s, k)
  \/ \E k \in Panel : Registered(k) \/ PanelEnds(k)

Spec == Init /\ [][Next]_vars

\* Threads are scheduled; accept does not block; a handshake ends within its timeouts, and a
\* round of serving within its read and write timeouts.
Fairness ==
  /\ WF_vars(Kill)
  /\ \A s \in Session : WF_vars(ListenerTop(s)) /\ WF_vars(NoConnection(s) \/ \E k \in Panel : Accept(s, k))
  /\ \A k \in Panel : WF_vars(Registered(k) \/ (panel[k] = "handshake" /\ PanelEnds(k)))
                      /\ WF_vars(PanelStops(k))

FairSpec == Spec /\ Fairness
-----------------------------------------------------------------------------
(* Properties. *)

Live(s) == {k \in Panel : joined[k] = s /\ panel[k] \in {"handshake", "serving"}}

\* Types of the whole state; the counter, an unsigned one, never wraps.
TypeOK ==
  /\ pc \in {"idle", "ensure", "restart", "kill", "lastKill", "start", "result", "over"}
  /\ wanted \in Config \cup {0}
  /\ slot \in Session \cup {0} /\ hand \in Session \cup {0} /\ reply \in Session \cup {0}
  /\ granted \subseteq Session /\ lately \subseteq Session
  /\ config \in [Session -> Config \cup {0}]
  /\ child \in [Session -> {"none", "running", "exited"}]
  /\ healthy \in [Session -> BOOLEAN] /\ stop \in [Session -> BOOLEAN]
  /\ listener \in [Session -> {"none", "top", "accept", "ended"}]
  /\ handshakes \in [Session -> Nat]
  /\ panel \in [Panel -> {"none", "handshake", "serving", "gone"}]
  /\ joined \in [Panel -> Session \cup {0}]

\* The listener's counter is the number of its connection threads: no refused or
\* failed handshake costs a permit for ever.
PermitsExact == \A s \in Session : handshakes[s] = Cardinality(Live(s))

\* All clients share one runtime: never do two app servers run, whatever crashes,
\* restarts and configuration changes came before.
OneRuntime == Cardinality({s \in Session : child[s] = "running"}) <= 1

\* Whoever is answered gets the runtime that is stored, of the very configuration
\* resolved for the request, not told to stop, and none whose process or output had ended
\* before the request came: a crash leads to a new one.
FreshReply ==
  pc = "idle" /\ reply # 0 =>
    slot = reply /\ config[reply] = wanted /\ ~stop[reply] /\ reply \in lately

\* A runtime the extension was told of is the current one or is told to stop, and
\* its process is gone before another one is started or the host has ended.
NothingForgotten ==
  \A s \in granted : s # slot =>
    stop[s] /\ (pc \notin {"kill", "lastKill"} => child[s] = "exited")

\* The threads of a stopped runtime all end, and with them its port is free.
Drains ==
  \A s \in Session : stop[s] ~> (listener[s] = "ended" /\ Live(s) = {}) \/ pc = "over"
=============================================================================
