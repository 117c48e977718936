------------------------------ MODULE AppServer ------------------------------
(***************************************************************************)
(* The web mode's client of the Codex app server, and the windows whose    *)
(* requests it forwards: AppServerManager, MessageRouter's                 *)
(* _forwardToAppServer, and main's start and shutdown.                     *)
(*                                                                         *)
(* One thread runs callbacks to completion: an event (a message of a       *)
(* window, a chunk of output, a timer, an error or exit of a process) and  *)
(* then the continuations it has made runnable, here jobs.  No event is    *)
(* taken while a job is left.                                              *)
(***************************************************************************)
EXTENDS Naturals, FiniteSets

CONSTANTS
  Window,    \* browser windows
  WindowId,  \* ids a window gives its requests, numbers or not
  ServerId,  \* ids the app server gives its own
  MaxProc    \* bound: app-server processes spawned

ASSUME AppServerAssumption ==
  MaxProc \in Nat \ {0} /\ 0 \notin Window

Proc == 1..MaxProc

VARIABLES
  phase,        \* of the whole server process
  window,       \* a window's bridge socket
  proc,         \* AppServerManager.proc, 0 for null
  connected, initialized,
  connecting,   \* whether connectingPromise is set
  waiting,      \* requests that await it
  pending,      \* the entries of the pending map
  timers,       \* requests whose timer is set
  jobs,         \* continuations to be run
  buffer,       \* stdoutBuffer: the response it holds a part of, if any
  life,         \* of a process
  stdin,        \* whether its input can be written
  atServer,     \* requests it was sent and has not answered
  used,         \* history: ids a window used
  answers,      \* history: ids of the mcp-responses sent to a window
  foreign,      \* history: requests answered with what was not their response
  theirs        \* history: ids of the app server's own requests

client  == <<proc, connected, initialized>>
start   == <<connecting, waiting>>
calls   == <<pending, timers>>
process == <<life, stdin, atServer>>
history == <<used, answers, foreign, theirs>>
vars    == <<phase, window, client, start, calls, jobs, buffer, process, history>>

\* A request, of a window or (win = 0) the initialize of a process.
Request == [win : Window, id : WindowId] \cup [win : {0}, id : Proc]
Of(w, k) == [win |-> w, id |-> k]
\* initialize takes the next number for its id.  Requests of the router itself, which
\* take numbers too, are left out.
Hello(p) == Of(0, p)
None == [win |-> 0, id |-> 0]

Job == [for : Request, how : {"result", "error", "send"}]
Do(h, r) == [for |-> r, how |-> h]
All(h, R) == {Do(h, r) : r \in R}

\* Mutant: the entries of the map are kept by request, not by id.
KeptAll(r) == pending
Kept(r) == {x \in pending : x.id # r.id}

\* Mutant: the timer under the id is cleared when the new one is set.
TimerSetThenCleared(r) == {x \in timers : x.id # r.id}
TimerSet(r) == timers \cup {r}

\* A new process and the initialize that is written to it.  It may fail to run.
Spawned(p) ==
  /\ proc' = p /\ connected' = TRUE /\ initialized' = FALSE
  /\ \/ /\ life' = [life EXCEPT ![p] = "running"]
        /\ atServer' = [atServer EXCEPT ![p] = {Hello(p)}]
     \/ life' = [life EXCEPT ![p] = "failed"] /\ UNCHANGED atServer
  /\ pending' = Kept(Hello(p)) \cup {Hello(p)} /\ timers' = TimerSet(Hello(p))
  /\ connecting' = TRUE

\* main has just called appServer.start().
Init ==
  /\ phase = "boot" /\ window = [w \in Window |-> "open"]
  /\ proc = 1 /\ connected = TRUE /\ initialized = FALSE
  /\ connecting = TRUE /\ waiting = {}
  /\ pending = {Hello(1)} /\ timers = {Hello(1)} /\ jobs = {} /\ buffer = None
  /\ life \in {[p \in Proc |-> IF p = 1 THEN l ELSE "none"] : l \in {"running", "failed"}}
  /\ stdin = [p \in Proc |-> TRUE]
  /\ atServer = [p \in Proc |-> IF life[p] = "running" THEN {Hello(p)} ELSE {}]
  /\ used = [w \in Window |-> {}]
  /\ answers = [w \in Window |-> {}] /\ foreign = {} /\ theirs = {}

\* The thread takes a new event.
Turn == phase # "over" /\ jobs = {}
Jobs(J) == jobs' = J

-----------------------------------------------------------------------------
(* Requests of the windows: _forwardToAppServer, sendRaw, _ensureReady, start. *)

Writable == proc # 0 /\ stdin[proc]
Ready == connected /\ initialized /\ Writable

\* sendRequest.  An entry with the same id is replaced; its timer stays.
Sent(r) ==
  /\ pending' = Kept(r) \cup {r} /\ timers' = TimerSet(r)
  /\ atServer' = [atServer EXCEPT ![proc] = @ \cup {r}]

\* A process nobody knows is left: the last one exited or was stopped.
Fresh(p) == life[p] = "none" /\ \A q \in Proc : q < p => life[q] # "none"

\* Mutant: a process that cannot be written to is taken for none.
NoProcessConnected == ~connected
NoProcess == proc = 0

Ask(w, k) ==
  /\ Turn /\ phase # "boot"
  /\ window[w] # "closed" /\ k \notin used[w]
  /\ used' = [used EXCEPT ![w] = @ \cup {k}]
  /\ \/ /\ Ready /\ Sent(Of(w, k))
        /\ UNCHANGED <<client, start, jobs, life>>
     \/ /\ ~Ready /\ connecting
        /\ waiting' = waiting \cup {Of(w, k)}
        /\ UNCHANGED <<client, connecting, calls, jobs, life, atServer>>
     \* connected but not initialized, or its input broken: start returns or throws
     \/ /\ ~Ready /\ ~connecting /\ ~NoProcess
        /\ Jobs({Do("error", Of(w, k))})
        /\ UNCHANGED <<client, start, calls, life, atServer>>
     \/ /\ ~Ready /\ ~connecting /\ NoProcess
        /\ \E p \in Proc : Fresh(p) /\ Spawned(p)
        /\ waiting' = {Of(w, k)}
        /\ UNCHANGED jobs
  /\ UNCHANGED <<phase, window, buffer, stdin, answers, foreign, theirs>>

-----------------------------------------------------------------------------
(* Output of a process, timers, errors and exits. *)

\* Mutant: any pending request takes the response.
MatchingAny(k) == pending
Matching(k) == {x \in pending : x.id = k}

\* _handleIncoming: the entry found under the id takes what has come.
Taken(k, how) ==
  /\ pending' = pending \ Matching(k)
  /\ timers' = timers \ Matching(k)
  /\ jobs' = All(how, Matching(k))

Incoming(r, how) ==
  /\ Taken(r.id, how)
  /\ foreign' = foreign \cup {x \in Matching(r.id) : x # r}

Answered(p, r) == atServer' = [atServer EXCEPT ![p] = @ \ {r}]

\* A whole line arrives, a result or an error; a part of another process's line before it
\* makes it unreadable.  Output may still arrive after the exit event.
Line(p, r) ==
  /\ Turn /\ r \in atServer[p] /\ Answered(p, r)
  /\ \/ /\ buffer = None
        /\ \E how \in {"result", "error"} : Incoming(r, how)
     \/ buffer # None /\ UNCHANGED <<calls, jobs, foreign>>
  /\ buffer' = None
  /\ UNCHANGED <<phase, window, client, start, life, stdin, used, answers, theirs>>

\* A whole request of the app server's own.  It is shown to the windows (what they make of it
\* is left out), unless an entry has its id: that takes it for its response.
ServerAsks(p, k) ==
  /\ Turn /\ life[p] \in {"running", "dead", "gone"} /\ k \notin theirs
  /\ \/ /\ buffer = None
        /\ Taken(k, "result")
        /\ foreign' = foreign \cup Matching(k)
     \/ buffer # None /\ UNCHANGED <<calls, jobs, foreign>>
  /\ theirs' = theirs \cup {k} /\ buffer' = None
  /\ UNCHANGED <<phase, window, client, start, process, used, answers>>

\* A first part of a line arrives; the process finishes this line before any other.
Part(p, r) ==
  /\ Turn /\ r \in atServer[p] /\ buffer = None
  /\ Answered(p, r)
  /\ buffer' = r
  /\ UNCHANGED <<phase, window, client, start, calls, jobs, life, stdin, history>>

Rest ==
  /\ Turn /\ buffer # None
  /\ buffer' = None
  /\ \E how \in {"result", "error"} : Incoming(buffer, how)
  /\ UNCHANGED <<phase, window, client, start, process, used, answers, theirs>>

\* Mutant: the timer of a replaced entry was cleared with it.
DueWhilePending(r) == r \in pending
Due(r) == r \in timers

\* The timer deletes whatever entry has its id by now.
Timeout(r) ==
  /\ Turn /\ Due(r)
  /\ timers' = timers \ {r}
  /\ pending' = {x \in pending : x.id # r.id}
  /\ Jobs({Do("error", r)})
  /\ UNCHANGED <<phase, window, client, start, buffer, process, history>>

RejectAllPending ==
  /\ pending' = {} /\ timers' = timers \ pending
  /\ jobs' = All("error", pending)

\* The process is gone, or was never there, or closed its input.
StdinError(p) ==
  /\ Turn /\ stdin[p] /\ life[p] \in {"running", "failed", "dead"}
  /\ stdin' = [stdin EXCEPT ![p] = FALSE]
  /\ connected' = FALSE /\ initialized' = FALSE
  /\ RejectAllPending
  /\ UNCHANGED <<phase, window, proc, start, buffer, life, atServer, history>>

Dies(p) ==
  /\ life[p] = "running"
  /\ life' = [life EXCEPT ![p] = "dead"]
  /\ UNCHANGED <<phase, window, client, start, calls, jobs, buffer, stdin, atServer, history>>

\* The manager forgets its process.
Forget ==
  /\ proc' = 0 /\ connected' = FALSE /\ initialized' = FALSE
  /\ buffer' = None
  /\ RejectAllPending

\* The exit handler, which does not ask whose exit it is.
Exit(p) ==
  /\ Turn /\ life[p] = "dead"
  /\ life' = [life EXCEPT ![p] = "gone"]
  /\ Forget
  /\ UNCHANGED <<phase, window, start, stdin, atServer, history>>

-----------------------------------------------------------------------------
(* Continuations. *)

\* sendMainMessage drops what is for a socket that is not open.
Reply(r) ==
  answers' = IF window[r.win] = "open" THEN [answers EXCEPT ![r.win] = @ \cup {r.id}] ELSE answers

\* The request of a window is settled, one way or the other.
Settle(j) ==
  /\ j.for.win # 0 /\ j.how \in {"result", "error"}
  /\ Reply(j.for)
  /\ jobs' = jobs \ {j}
  /\ UNCHANGED <<phase, window, client, start, calls, buffer, process, used, foreign, theirs>>

\* start() settles; whoever awaits it goes on, as does main.
Begin(j, h) ==
  /\ connecting' = FALSE /\ waiting' = {}
  /\ jobs' = (jobs \ {j}) \cup All(h, waiting)
  /\ phase' = IF phase = "boot" THEN "run" ELSE phase

\* The rest of _initializeProtocol.
Initialized(j) ==
  /\ j.for.win = 0
  /\ \/ /\ j.how = "result" /\ Writable
        /\ initialized' = TRUE
        /\ Begin(j, "send")
     \/ /\ j.how = "error" \/ ~Writable
        /\ Begin(j, "error")
        /\ UNCHANGED initialized
  /\ UNCHANGED <<window, proc, connected, calls, buffer, process, history>>

\* _ensureReady returns; the request is sent.
Forward(j) ==
  /\ j.how = "send"
  /\ jobs' = jobs \ {j}
  /\ Sent(j.for)
  /\ UNCHANGED <<phase, window, client, start, buffer, life, stdin, history>>

Run(j) == Settle(j) \/ Initialized(j) \/ Forward(j)

-----------------------------------------------------------------------------
(* Windows and the server's shutdown. *)

WindowCloses(w) ==
  /\ Turn /\ phase # "boot" /\ window[w] # "closed"
  /\ window' = [window EXCEPT ![w] = "closed"]
  /\ UNCHANGED <<phase, client, start, calls, jobs, buffer, process, history>>

\* shutdown(): the sockets are asked to close, then AppServerManager.stop kills the process,
\* if there is one.  Windows may still be heard until they have closed.
Shutdown ==
  /\ Turn /\ phase = "run"
  /\ phase' = "stopping"
  /\ window' = [w \in Window |-> IF window[w] = "open" THEN "closing" ELSE window[w]]
  /\ life' = [p \in Proc |-> IF p = proc /\ life[p] = "running" THEN "dead" ELSE life[p]]
  /\ Forget
  /\ UNCHANGED <<start, stdin, atServer, history>>

Over ==
  /\ Turn /\ phase = "stopping" /\ \A w \in Window : window[w] = "closed"
  /\ phase' = "over"
  /\ UNCHANGED <<window, client, start, calls, jobs, buffer, process, history>>

-----------------------------------------------------------------------------
Next ==
  \/ \E w \in Window : WindowCloses(w) \/ \E k \in WindowId : Ask(w, k)
  \/ \E p \in Proc :
       \/ StdinError(p) \/ Dies(p) \/ Exit(p)
       \/ \E r \in atServer[p] : Line(p, r) \/ Part(p, r)
       \/ \E k \in ServerId : ServerAsks(p, k)
  \/ Rest \/ Shutdown \/ Over
  \/ \E r \in Request : Timeout(r)
  \/ \E j \in jobs : Run(j)

Spec == Init /\ [][Next]_vars

\* The event loop runs its continuations, and timers fire.
Fairness ==
  /\ WF_vars(\E j \in jobs : Run(j))
  /\ \A r \in Request : WF_vars(Timeout(r))

FairSpec == Spec /\ Fairness
-----------------------------------------------------------------------------
(* Properties. *)

\* Types of the whole state; the pending map has one entry for an id.
TypeOK ==
  /\ phase \in {"boot", "run", "stopping", "over"}
  /\ window \in [Window -> {"open", "closing", "closed"}]
  /\ proc \in Proc \cup {0} /\ connected \in BOOLEAN /\ initialized \in BOOLEAN
  /\ connecting \in BOOLEAN /\ waiting \subseteq Request
  /\ pending \subseteq Request /\ timers \subseteq Request
  /\ \A x, y \in pending : x.id = y.id => x = y
  /\ jobs \subseteq Job /\ buffer \in Request \cup {None}
  /\ life \in [Proc -> {"none", "running", "failed", "dead", "gone"}]
  /\ stdin \in [Proc -> BOOLEAN]
  /\ atServer \in [Proc -> SUBSET Request]
  /\ used \in [Window -> SUBSET WindowId]
  /\ answers \in [Window -> SUBSET WindowId]
  /\ foreign \subseteq Request /\ theirs \subseteq ServerId

Made(r) == IF r.win = 0 THEN life[r.id] # "none" ELSE r.id \in used[r.win]

\* No request, and no initialize, is ever answered with what was not its response,
\* whatever is late or garbled, unless two senders did choose the same id: two windows,
\* a window and the client, or one of them and the app server.
OwnResponse ==
  \A r \in foreign : r.id \in theirs \/ \E q \in Request \ {r} : q.id = r.id /\ Made(q)

\* A request that is open is held somewhere a timer or a continuation will find it:
\* whatever fails, no promise is forgotten.
NeverForgotten ==
  /\ pending \subseteq timers
  /\ connecting <=> \E p \in Proc : Hello(p) \in timers \cup {j.for : j \in jobs}
  /\ waiting # {} => connecting

\* Until it is shut down the server never runs two app servers, nor one it does not
\* know of, and takes none for initialized that has not answered the greeting.
OneProcess ==
  /\ phase \in {"boot", "run"} =>
       \A p \in Proc : life[p] \in {"running", "dead"} => p = proc
  /\ initialized => connected /\ proc # 0
  /\ initialized => Hello(proc) \notin atServer[proc] \/ Hello(proc) \in foreign

\* Something is left that will settle the request: a start, a timer or a continuation.
Outstanding(r) == r \in waiting \cup timers \cup {j.for : j \in jobs}

\* The state of a window's request as CallService sees it.
Gone == {w \in Window : window[w] # "open"}
Status(w, k) ==
  CASE k \in answers[w] /\ Outstanding(Of(w, k)) -> "answered again"
    [] k \in answers[w] /\ ~Outstanding(Of(w, k)) -> "answered"
    [] k \notin answers[w] /\ w \in Gone -> "closed"
    [] k \notin answers[w] /\ w \notin Gone /\ k \in used[w] -> "open"
    [] k \notin answers[w] /\ w \notin Gone /\ k \notin used[w] -> "unused"

Calls == INSTANCE CallService WITH
  Conn <- Window, OrigId <- WindowId,
  status <- [w \in Window |-> [k \in WindowId |-> Status(w, k)]], gone <- Gone

\* A window's request is answered once, if only with an error, or the window closes; it is
\* not answered after that.
ImplementsCalls == Calls!Spec
=============================================================================
