------------------------------- MODULE Broker -------------------------------
(***************************************************************************)
(* The app-server broker of the Chrome extension host.                     *)
(*                                                                         *)
(* Side panels connect to a loopback WebSocket; one thread serves each     *)
(* connection.  All of them share one Codex app-server child process: a    *)
(* writer thread drains a bounded channel into its stdin and one reader    *)
(* thread routes every line of its stdout.  The broker gives every request *)
(* an internal id, remembers in a route who asked and under which id, and  *)
(* hands the answer back.  Its mutex is released between reading the       *)
(* routing state and using a channel, so every handler is split here at    *)
(* each unlock.                                                            *)
(*                                                                         *)
(* A connection is named by its generation, so Conn == 1..MaxConn are both *)
(* the threads and the generations; Reader is the stdout reader thread.    *)
(***************************************************************************)
EXTENDS Naturals, Sequences, FiniteSets

CONSTANTS
  ClientId,    \* side panel names (the clientId query parameter)
  NoClient,    \* owner of a generation not handed out yet
  OrigId,      \* JSON-RPC ids panels choose; equal ids of two panels collide
  ServerId,    \* JSON-RPC ids the app server chooses for its own requests
  MaxConn,     \* bound: generations handed out
  MaxIid,      \* bound: internal ids handed out
  QueueCap,    \* CLIENT_QUEUE_CAPACITY
  ChildCap,    \* CHILD_INPUT_CAPACITY
  MaxClients,  \* MAX_CLIENTS
  MaxPending,  \* MAX_PENDING_REQUESTS
  Notes,       \* whether notifications are sent, by panels and by the app server
  Expiry,      \* whether PENDING_TTL can run out
  Faults       \* whether the child's pipes can fail

ASSUME BrokerAssumption ==
  /\ NoClient \notin ClientId
  /\ OrigId \subseteq Nat \ {0} /\ ServerId \cap Nat = {}
  /\ MaxConn \in Nat /\ MaxIid \in Nat
  /\ QueueCap \in Nat \ {0} /\ ChildCap \in Nat \ {0}
  /\ MaxClients \in Nat \ {0} /\ MaxPending \in Nat \ {0}
  /\ Notes \in BOOLEAN /\ Expiry \in BOOLEAN /\ Faults \in BOOLEAN

Conn   == 1..MaxConn
Iid    == 1..MaxIid
Reader == 0
Thread == {Reader} \cup Conn

VARIABLES
  clients,       \* the HashMap: client id -> generation registered, 0 = none
  owner,         \* client id a generation was registered under
  alive,         \* the AtomicBool a connection thread polls
  queue,         \* messages in the bounded channel of a connection
  pending,       \* routes of panel requests, by internal id
  serverPending, \* routes of app-server requests, by internal id
  initialize,    \* InitializeState; internal id and response are 0 when None
  nextConn, nextReq,
  pc,            \* where a connection thread stands
  hand,          \* the message a connection thread is routing
  out,           \* deliveries a thread still has to make
  job,           \* the delivery a thread is making (send_to_client)
  childIn,       \* messages in the child's bounded input channel
  childOpen,     \* the stdin writer still holds the receiver
  healthy,       \* the stdout reader still runs
  srv,           \* internal ids the app server read and has not answered
  asks,          \* progress of the app server's own requests
  used,          \* history: what a connection sent: call ids, server ids answered, 0 for a notification
  asked,         \* history: which call an internal id stands for
  routed,        \* history: which panel an app-server request was routed to
  answers        \* history: answers written to a connection's socket, by id

registry == <<clients, owner, alive, nextConn>>
routes   == <<pending, serverPending, initialize>>
sending  == <<out, job, queue>>
child    == <<childIn, childOpen, healthy, srv, asks>>
history  == <<used, asked, routed, answers>>
vars     == <<registry, routes, nextReq, sending, child, pc, hand, history>>

-----------------------------------------------------------------------------
(* Messages, routes and deliveries. *)

Hand     == [kind : {"request", "initialize"}, id : OrigId, iid : Nat]
            \cup [kind : {"none", "note", "response"}, id : ServerId \cup Nat, iid : Nat]
Carry(kind, id, iid) == [kind |-> kind, id |-> id, iid |-> iid]
NoHand   == Carry("none", 0, 0)
PanelMsg == [kind : {"response", "error", "ask", "note"},
             id : Nat, body : Nat]
Note     == [kind |-> "note", id |-> 0, body |-> 0]
Ask(i)   == [kind |-> "ask", id |-> i, body |-> 0]
\* the answer to internal request i, under the panel's own id (replace_id)
Answer(k, i)  == [kind |-> "response", id |-> k, body |-> i]
ErrorFor(k)   == [kind |-> "error", id |-> k, body |-> 0]
IsAnswer(m)   == m.kind \in {"response", "error"}

Route(K) == [iid : Nat, conn : Conn, orig : K, old : BOOLEAN]
RouteOf(i, g, k) == [iid |-> i, conn |-> g, orig |-> k, old |-> FALSE]
Aged(r)  == [iid |-> r.iid, conn |-> r.conn, orig |-> r.orig, old |-> TRUE]
CallOf(i, g, k)  == [iid |-> i, conn |-> g, orig |-> k]
Call(K)  == [iid : Nat, conn : Conn, orig : K]

Delivery == [to : Conn, msg : PanelMsg]
To(g, m) == [to |-> g, msg |-> m]
Job      == [stage : {"idle"}, to : {0}, target : {0}, msg : PanelMsg]
            \cup [stage : {"send", "evict"}, to : Conn, target : Conn, msg : PanelMsg]
JobOf(stage, g, h, m) == [stage |-> stage, to |-> g, target |-> h, msg |-> m]
NoJob    == JobOf("idle", 0, 0, Note)

\* InitializeState, with the waiters in place of some of its fields
Initialize(i, r, W) == [internal |-> i, response |-> r, waiters |-> W]
WaitersOnly(W) == Initialize(initialize.internal, initialize.response, W)

-----------------------------------------------------------------------------
(* State helpers. *)

Current(g) == owner[g] \in ClientId /\ clients[owner[g]] = g
Registered == {c \in ClientId : clients[c] # 0}

\* State::prune keeps the routes younger than PENDING_TTL.
Fresh(S) == {r \in S : ~r.old}
\* State::remove_routes keeps the routes of every other generation.
Others(S, g) == {r \in S : r.conn # g}

Pruned == WaitersOnly(Fresh(initialize.waiters))
Prune  == /\ pending' = Fresh(pending)
          /\ serverPending' = Fresh(serverPending)
          /\ initialize' = Pruned

\* Broker::unregister: only the generation still registered is removed.
Drop(g) ==
  IF Current(g)
  THEN /\ clients' = [clients EXCEPT ![owner[g]] = 0]
       /\ alive' = [alive EXCEPT ![g] = FALSE]
       /\ pending' = Others(pending, g)
       /\ serverPending' = Others(serverPending, g)
       /\ initialize' = WaitersOnly(Others(initialize.waiters, g))
       /\ UNCHANGED <<owner, nextConn>>
  ELSE UNCHANGED <<registry, routes>>

Goto(g, l) == pc' = [pc EXCEPT ![g] = l]

-----------------------------------------------------------------------------
Init ==
  /\ clients = [c \in ClientId |-> 0]
  /\ owner = [g \in Conn |-> NoClient]
  /\ alive = [g \in Conn |-> FALSE]
  /\ queue = [g \in Conn |-> <<>>]
  /\ pending = {} /\ serverPending = {}
  /\ initialize = Initialize(0, 0, {})
  /\ nextConn = 1 /\ nextReq = 1
  /\ pc = [g \in Conn |-> "free"]
  /\ hand = [g \in Conn |-> NoHand]
  /\ out = [t \in Thread |-> {}]
  /\ job = [t \in Thread |-> NoJob]
  /\ childIn = <<>> /\ childOpen = TRUE /\ healthy = TRUE
  /\ srv = {} /\ asks = [s \in ServerId |-> "fresh"]
  /\ used = [g \in Conn |-> {}]
  /\ asked = {} /\ routed = {}
  /\ answers = [g \in Conn |-> [k \in OrigId |-> 0]]

-----------------------------------------------------------------------------
(* Connection threads: registration and the serving loop. *)

\* Mutant: register forgets to stop the connection it replaces.
AliveAfterForgetful(g, previous) == [alive EXCEPT ![g] = TRUE]
AliveAfter(g, previous) == [h \in Conn |-> IF h = previous THEN FALSE ELSE h = g \/ alive[h]]

\* Broker::register.  A second connection of the same panel replaces the first.
Register(c) ==
  /\ nextConn <= MaxConn
  /\ LET g == nextConn
         previous == clients[c]
     IN /\ clients' = [clients EXCEPT ![c] = g]
        /\ owner' = [owner EXCEPT ![g] = c]
        /\ alive' = AliveAfter(g, previous)
        /\ pending' = Others(Fresh(pending), previous)
        /\ serverPending' = Others(Fresh(serverPending), previous)
        /\ initialize' = WaitersOnly(Others(Fresh(initialize.waiters), previous))
        /\ Goto(g, "top")
  /\ nextConn' = nextConn + 1

Connect(c) ==
  /\ clients[c] = 0 => Cardinality(Registered) < MaxClients
  /\ Register(c)
  /\ UNCHANGED <<nextReq, sending, child, hand, history>>

\* A new panel beyond MAX_CLIENTS is turned away, after a prune.
ConnectRejected(c) ==
  /\ clients[c] = 0 /\ Cardinality(Registered) >= MaxClients
  /\ Prune
  /\ UNCHANGED <<registry, nextReq, sending, child, pc, hand, history>>

\* Every sender of g's channel is gone: the registry's and a send in progress.
SendersGone(g) == ~Current(g) /\ \A t \in Thread : job[t].target # g

\* The top of the loop: the alive flag, then the batch of try_recv and
\* websocket.send (the batch is as large as the queue).  One step: a replacement
\* between the check and the batch has the effect of one after it.
Poll(g) ==
  /\ pc[g] = "top"
  /\ \/ /\ alive[g]
        /\ answers' = [answers EXCEPT ![g] = [k \in OrigId |->
             @[k] + Cardinality({i \in DOMAIN queue[g] :
                                   IsAnswer(queue[g][i]) /\ queue[g][i].id = k})]]
        /\ queue' = [queue EXCEPT ![g] = <<>>]
        /\ Goto(g, "read")
     \/ /\ ~alive[g] \/ SendersGone(g)
        /\ Goto(g, "closing")
        /\ UNCHANGED <<answers, queue>>
  /\ UNCHANGED <<registry, routes, nextReq, out, job, child, hand, used, asked, routed>>

\* The 50 ms read timeout.
ReadNothing(g) ==
  /\ pc[g] = "read" /\ Goto(g, "top")
  /\ UNCHANGED <<registry, routes, nextReq, sending, child, hand, history>>

\* serve_registered_connection answers a failed route itself and returns; the
\* thread unregisters and drops its receiver.
Refused(g) == pc[g] = "error" \/ (pc[g] = "failing" /\ out[g] = {} /\ job[g] = NoJob)

\* A failed send (of the error reply too) or read, a close frame, invalid JSON, or
\* the session's stop flag.
SocketEnds(g) ==
  /\ pc[g] \in {"top", "read"} \/ Refused(g)
  /\ Goto(g, "closing")
  /\ UNCHANGED <<registry, routes, nextReq, sending, child, hand, history>>

\* A panel numbers its calls on a connection upwards and (bounds) sends as many answers on
\* it as the app server has ids, and one notification.
ReadOnce(g, x, h, next) ==
  /\ x \notin used[g]
  /\ used' = [used EXCEPT ![g] = @ \cup {x}]
  /\ pc[g] = "read"
  /\ hand' = [hand EXCEPT ![g] = h]
  /\ Goto(g, IF Current(g) THEN next ELSE "error")
  /\ UNCHANGED <<registry, routes, nextReq, sending, child, asked, routed, answers>>

\* The bound on internal ids; a call being routed has its id reserved.
MoreIids == nextReq + Cardinality({g \in Conn : pc[g] = "routing"}) <= MaxIid

ReadCall(g, k, kind) ==
  /\ MoreIids
  /\ \A j \in OrigId \ used[g] : k <= j
  /\ ReadOnce(g, k, Carry(kind, k, 0), "routing")

ReadNote(g) == Notes /\ ReadOnce(g, 0, Carry("note", 0, 0), "send")

\* A panel answers an app-server request, its own or (by mistake) another's, or sends an
\* id of no request at all, here 0.
ReadResponse(g) ==
  \E s \in ServerId, i \in {0} \cup {r.iid : r \in routed} :
     ReadOnce(g, s, Carry("response", i, 0), "routing")

-----------------------------------------------------------------------------
(* Connection threads: route_client_message. *)

\* Mutant: only the check before the lock is made.
StillCurrentUnchecked(g) == TRUE
\* The second ensure_current of route_client_message, under the lock that inserts.
StillCurrent(g) == Current(g)

RouteRequest(g) ==
  /\ pc[g] = "routing" /\ hand[g].kind = "request"
  /\ serverPending' = Fresh(serverPending)
  /\ initialize' = Pruned
  /\ IF StillCurrent(g) /\ Cardinality(Fresh(pending)) < MaxPending
     THEN /\ nextReq' = nextReq + 1
          /\ pending' = Fresh(pending) \cup {RouteOf(nextReq, g, hand[g].id)}
          /\ hand' = [hand EXCEPT ![g] = Carry(@.kind, @.id, nextReq)]
          /\ asked' = asked \cup {CallOf(nextReq, g, hand[g].id)}
          /\ Goto(g, "send")
     ELSE /\ pending' = Fresh(pending)
          /\ Goto(g, "error")
          /\ UNCHANGED <<nextReq, hand, asked>>
  /\ UNCHANGED <<registry, sending, child, used, routed, answers>>

Waiting(g, k) == Others(initialize.waiters, g) \cup {RouteOf(0, g, k)}

\* Mutant: every initialize before the response is forwarded.
MustForwardAlways == TRUE
\* An initialize already on its way is joined, never forwarded again.
MustForward == initialize.internal = 0

RouteInitialize(g) ==
  /\ pc[g] = "routing" /\ hand[g].kind = "initialize"
  /\ LET k == hand[g].id IN
     \/ /\ ~Current(g)
        /\ Goto(g, "error")
        /\ UNCHANGED <<initialize, nextReq, out, hand, asked>>
     \/ /\ Current(g) /\ initialize.response # 0
        /\ out' = [out EXCEPT ![g] = {To(g, Answer(k, initialize.response))}]
        /\ asked' = asked \cup {CallOf(initialize.response, g, k)}
        /\ Goto(g, "replay")
        /\ UNCHANGED <<initialize, nextReq, hand>>
     \/ /\ Current(g) /\ initialize.response = 0 /\ ~MustForward
        /\ initialize' = WaitersOnly(Waiting(g, k))
        /\ asked' = asked \cup {CallOf(initialize.internal, g, k)}
        /\ hand' = [hand EXCEPT ![g] = NoHand]
        /\ Goto(g, "top")
        /\ UNCHANGED <<nextReq, out>>
     \/ /\ Current(g) /\ initialize.response = 0 /\ MustForward
        /\ nextReq' = nextReq + 1
        /\ initialize' = Initialize(nextReq, initialize.response, Waiting(g, k))
        /\ asked' = asked \cup {CallOf(nextReq, g, k)}
        /\ hand' = [hand EXCEPT ![g] = Carry(@.kind, @.id, nextReq)]
        /\ Goto(g, "send")
        /\ UNCHANGED out
  /\ UNCHANGED <<registry, pending, serverPending, queue, job, child, used, routed, answers>>

\* Mutant: any panel may answer for any other.
OwnedByAnyone(g) == {r \in serverPending : r.iid = hand[g].id}
\* The route a panel's response is for, if it is this generation's.
Owned(g) == {r \in serverPending : r.iid = hand[g].id /\ r.conn = g}

\* route_client_response: an id without a route is forwarded as it came.
RouteResponse(g) ==
  /\ pc[g] = "routing" /\ hand[g].kind = "response"
  /\ \/ /\ Owned(g) = {}
        /\ UNCHANGED <<serverPending, hand>>
     \/ \E r \in Owned(g) :
          /\ serverPending' = serverPending \ {r}
          /\ hand' = [hand EXCEPT ![g] = Carry(@.kind, r.orig, r.iid)]
  /\ Goto(g, "send")
  /\ UNCHANGED <<registry, pending, initialize, nextReq, sending, child, history>>

AfterRefusal == [kind \in {"none", "note", "request", "initialize", "response"} |->
  IF kind = "request" THEN "unsend" ELSE IF kind = "initialize" THEN "failinit" ELSE "error"]

\* send_child: try_send on the child's input channel.
SendChild(g) ==
  /\ pc[g] = "send"
  /\ \/ /\ childOpen /\ Len(childIn) < ChildCap
        /\ childIn' = Append(childIn, hand[g])
        /\ hand' = [hand EXCEPT ![g] = NoHand]
        /\ Goto(g, "top")
     \/ /\ ~childOpen \/ Len(childIn) >= ChildCap
        /\ Goto(g, AfterRefusal[hand[g].kind])
        /\ UNCHANGED <<childIn, hand>>
  /\ UNCHANGED <<registry, routes, nextReq, sending, childOpen, healthy, srv, asks, history>>

\* A request the child's channel refused is forgotten.
Unsend(g) ==
  /\ pc[g] = "unsend"
  /\ pending' = {r \in pending : r.iid # hand[g].iid}
  /\ Goto(g, "error")
  /\ UNCHANGED <<registry, serverPending, initialize, nextReq, sending, child, hand, history>>

\* Mutant: only the panel whose initialize was refused hears of it.
FailuresOwn(g) == {To(w.conn, ErrorFor(w.orig)) : w \in initialize.waiters \ Others(initialize.waiters, g)}
Failures(g) == {To(w.conn, ErrorFor(w.orig)) : w \in initialize.waiters}

\* fail_initialize: every panel that joined the refused initialize gets the error.
FailInitialize(g) ==
  /\ pc[g] = "failinit"
  /\ initialize' = Initialize(0, initialize.response, {})
  /\ out' = [out EXCEPT ![g] = Failures(g)]
  /\ Goto(g, "failing")
  /\ UNCHANGED <<registry, pending, serverPending, nextReq, queue, job, child, hand, history>>

\* Mutant: the thread goes on serving after its error reply.
HangUpServing(g) ==
  /\ pc[g] = "closing" \/ Refused(g)
  /\ answers' = [answers EXCEPT ![g] = [k \in OrigId |->
       IF Refused(g) /\ hand[g].kind \in {"request", "initialize"} /\ hand[g].id = k
       THEN @[k] + 1 ELSE @[k]]]
  /\ hand' = [hand EXCEPT ![g] = NoHand]
  /\ IF Refused(g)
     THEN Goto(g, "top") /\ UNCHANGED <<registry, routes, queue>>
     ELSE Goto(g, "done") /\ Drop(g) /\ queue' = [queue EXCEPT ![g] = <<>>]
  /\ UNCHANGED <<nextReq, out, job, child, used, asked, routed>>

HangUp(g) ==
  /\ pc[g] = "closing" \/ Refused(g)
  /\ answers' = [answers EXCEPT ![g] = [k \in OrigId |->
       IF Refused(g) /\ hand[g].kind \in {"request", "initialize"} /\ hand[g].id = k
       THEN @[k] + 1 ELSE @[k]]]
  /\ Drop(g)
  /\ queue' = [queue EXCEPT ![g] = <<>>]
  /\ hand' = [hand EXCEPT ![g] = NoHand]
  /\ Goto(g, "done")
  /\ UNCHANGED <<nextReq, out, job, child, used, asked, routed>>

-----------------------------------------------------------------------------
(* send_to_client, by the reader or by a connection thread. *)

\* A replay that cannot be delivered fails the panel's initialize.
Delivered(t, ok) ==
  IF t # Reader /\ pc[t] = "replay"
  THEN /\ Goto(t, IF ok THEN "top" ELSE "error")
       /\ hand' = IF ok THEN [hand EXCEPT ![t] = NoHand] ELSE hand
  ELSE UNCHANGED <<pc, hand>>

\* Mutant: the route's generation is not compared.
TargetByName(g) == clients[owner[g]]
\* The generation send_to_client finds under the route's client id, 0 if replaced.
Target(g) == IF clients[owner[g]] = g THEN clients[owner[g]] ELSE 0

Lookup(t) ==
  /\ job[t] = NoJob
  /\ \E d \in out[t] :
       /\ out' = [out EXCEPT ![t] = @ \ {d}]
       /\ IF Target(d.to) # 0
          THEN /\ job' = [job EXCEPT ![t] =
                    JobOf("send", d.to, Target(d.to), d.msg)]
               /\ UNCHANGED <<pc, hand>>
          ELSE /\ Delivered(t, FALSE)
               /\ UNCHANGED job
  /\ UNCHANGED <<registry, routes, nextReq, queue, child, history>>

\* Mutant: the queue takes one message too many.
HasRoomOffByOne(g) == Len(queue[g]) <= QueueCap
HasRoom(g) == Len(queue[g]) < QueueCap

TrySend(t) ==
  /\ job[t].stage = "send"
  /\ LET g == job[t].target IN
     \/ /\ pc[g] # "done" /\ HasRoom(g)
        /\ queue' = [queue EXCEPT ![g] = Append(@, job[t].msg)]
        /\ job' = [job EXCEPT ![t] = NoJob]
        /\ Delivered(t, TRUE)
        /\ UNCHANGED alive
     \/ /\ pc[g] = "done" \/ ~HasRoom(g)
        /\ alive' = [alive EXCEPT ![g] = FALSE]
        /\ job' = [job EXCEPT ![t] = JobOf("evict", @.to, @.target, @.msg)]
        /\ UNCHANGED <<queue, pc, hand>>
  /\ UNCHANGED <<clients, owner, nextConn, routes, nextReq, out, child, history>>

Evict(t) ==
  /\ job[t].stage = "evict"
  /\ Drop(job[t].target)
  /\ job' = [job EXCEPT ![t] = NoJob]
  /\ Delivered(t, FALSE)
  /\ UNCHANGED <<nextReq, out, queue, child, history>>

-----------------------------------------------------------------------------
(* The stdout reader: route_server_message. *)

ReaderIdle == healthy /\ out[Reader] = {} /\ job[Reader] = NoJob

\* The app server answers a request it read.
ServerRespond(i) ==
  /\ ReaderIdle /\ i \in srv
  /\ srv' = srv \ {i}
  /\ serverPending' = Fresh(serverPending)
  /\ \/ /\ initialize.internal = i
        /\ pending' = Fresh(pending)
        /\ initialize' = Initialize(initialize.internal, i, {})
        /\ out' = [out EXCEPT ![Reader] =
             {To(w.conn, Answer(w.orig, i)) : w \in Fresh(initialize.waiters)}]
     \/ /\ initialize.internal # i
        /\ pending' = {r \in Fresh(pending) : r.iid # i}
        /\ initialize' = Pruned
        /\ out' = [out EXCEPT ![Reader] =
             {To(r.conn, Answer(r.orig, i)) : r \in {q \in Fresh(pending) : q.iid = i}}]
  /\ UNCHANGED <<registry, nextReq, queue, job, childIn, childOpen, healthy, asks,
                 pc, hand, history>>

\* The app server asks a panel, whichever the HashMap yields first.
ServerAsk(s) ==
  /\ ReaderIdle /\ asks[s] = "fresh" /\ MoreIids
  /\ asks' = [asks EXCEPT ![s] = "asked"]
  /\ pending' = Fresh(pending)
  /\ initialize' = Pruned
  /\ \/ /\ Registered = {} \/ Cardinality(Fresh(serverPending)) >= MaxPending
        /\ serverPending' = Fresh(serverPending)
        /\ UNCHANGED <<nextReq, out, routed>>
     \/ /\ Cardinality(Fresh(serverPending)) < MaxPending
        /\ nextReq' = nextReq + 1
        /\ \E c \in Registered :
             /\ serverPending' = Fresh(serverPending) \cup {RouteOf(nextReq, clients[c], s)}
             /\ out' = [out EXCEPT ![Reader] = {To(clients[c], Ask(nextReq))}]
             /\ routed' = routed \cup {CallOf(nextReq, clients[c], s)}
  /\ UNCHANGED <<registry, queue, job, childIn, childOpen, healthy, srv,
                 pc, hand, used, asked, answers>>

\* broadcast: a notification goes to every panel registered now.
ServerNotify ==
  /\ Notes /\ ReaderIdle /\ Registered # {}
  /\ out' = [out EXCEPT ![Reader] = {To(clients[c], Note) : c \in Registered}]
  /\ UNCHANGED <<registry, routes, nextReq, queue, job, child, pc, hand, history>>

\* EOF, a read error or invalid JSON: mark_unhealthy, and the reader ends.
ReaderStops ==
  /\ Faults /\ ReaderIdle
  /\ healthy' = FALSE
  /\ UNCHANGED <<registry, routes, nextReq, sending, childIn, childOpen, srv, asks,
                 pc, hand, history>>

-----------------------------------------------------------------------------
(* The stdin writer, and time. *)

\* One line to the child's stdin; the app server reads it.
WriteChild ==
  /\ childOpen /\ childIn # <<>>
  /\ LET m == Head(childIn) IN
     /\ srv' = IF m.kind \in {"request", "initialize"} THEN srv \cup {m.iid} ELSE srv
     /\ asks' = [s \in ServerId |->
          IF m.kind = "response" /\ m.id = s
          THEN IF asks[s] = "asked" THEN "answered" ELSE "again"
          ELSE asks[s]]
  /\ childIn' = Tail(childIn)
  /\ UNCHANGED <<registry, routes, nextReq, sending, childOpen, healthy, pc, hand, history>>

\* A failed or oversized write ends the writer and drops the receiver.
WriterStops ==
  /\ Faults /\ childOpen
  /\ childOpen' = FALSE /\ childIn' = <<>>
  /\ UNCHANGED <<registry, routes, nextReq, sending, healthy, srv, asks, pc, hand, history>>

\* PENDING_TTL runs out for every route there is.
TimePasses ==
  /\ Expiry
  /\ pending' = {Aged(r) : r \in pending}
  /\ serverPending' = {Aged(r) : r \in serverPending}
  /\ initialize' = WaitersOnly({Aged(r) : r \in initialize.waiters})
  /\ UNCHANGED <<registry, nextReq, sending, child, pc, hand, history>>

-----------------------------------------------------------------------------
ReadMessage(g) ==
  \/ \E k \in OrigId, kind \in {"request", "initialize"} : ReadCall(g, k, kind)
  \/ ReadNote(g)
  \/ ReadResponse(g)

Handle(g) ==
  \/ Poll(g)
  \/ RouteRequest(g) \/ RouteInitialize(g) \/ RouteResponse(g)
  \/ SendChild(g) \/ Unsend(g) \/ FailInitialize(g)
  \/ HangUp(g)

Deliver(t) == Lookup(t) \/ TrySend(t) \/ Evict(t)

Next ==
  \/ \E c \in ClientId : Connect(c) \/ ConnectRejected(c)
  \/ \E g \in Conn : Handle(g) \/ ReadNothing(g) \/ SocketEnds(g) \/ ReadMessage(g)
  \/ \E t \in Thread : Deliver(t)
  \/ \E i \in Iid : ServerRespond(i)
  \/ \E s \in ServerId : ServerAsk(s)
  \/ ServerNotify \/ ReaderStops
  \/ WriteChild \/ WriterStops
  \/ TimePasses

Spec == Init /\ [][Next]_vars

\* Every thread is scheduled, a read times out after 50 ms, the stdin writer
\* drains its channel and the app server answers what it has read.
Fairness ==
  /\ \A g \in Conn : WF_vars(Handle(g) \/ ReadNothing(g))
  /\ \A t \in Thread : WF_vars(Deliver(t))
  /\ \A i \in Iid : WF_vars(ServerRespond(i))
  /\ WF_vars(WriteChild)

FairSpec == Spec /\ Fairness
-----------------------------------------------------------------------------
(* Properties. *)

RegistryOK ==
  /\ clients \in [ClientId -> 0..MaxConn]
  /\ owner \in [Conn -> ClientId \cup {NoClient}]
  /\ alive \in [Conn -> BOOLEAN]
  /\ nextConn \in 1..MaxConn + 1
RoutesOK ==
  /\ pending \subseteq Route(OrigId) /\ serverPending \subseteq Route(ServerId)
  /\ initialize \in [internal : Nat, response : Nat, waiters : SUBSET Route(OrigId)]
  /\ nextReq \in Nat \ {0}
SendingOK ==
  /\ queue \in [Conn -> Seq(PanelMsg)]
  /\ \A g \in Conn : Len(queue[g]) <= QueueCap
  /\ out \in [Thread -> SUBSET Delivery]
  /\ job \in [Thread -> Job]
ThreadsOK ==
  /\ pc \in [Conn -> {"free", "top", "read", "routing", "send", "unsend",
                      "failinit", "failing", "replay", "error", "closing", "done"}]
  /\ hand \in [Conn -> Hand]
ChildOK ==
  /\ childIn \in Seq(Hand) /\ Len(childIn) <= ChildCap
  /\ childOpen \in BOOLEAN /\ healthy \in BOOLEAN
  /\ srv \subseteq Nat
  /\ asks \in [ServerId -> {"fresh", "asked", "answered", "again"}]
HistoryOK ==
  /\ used \in [Conn -> SUBSET (OrigId \cup ServerId \cup {0})]
  /\ asked \subseteq Call(OrigId) /\ routed \subseteq Call(ServerId)
  /\ answers \in [Conn -> [OrigId -> Nat]]

\* Types of the whole state; queues respect their capacities.
TypeOK == RegistryOK /\ RoutesOK /\ SendingOK /\ ThreadsOK /\ ChildOK /\ HistoryOK

\* A response answers a call this generation made under that id; an app-server
\* request was routed to this generation.
MeantFor(g, m) ==
  /\ m.kind = "response" => CallOf(m.body, g, m.id) \in asked
  /\ m.kind = "ask" => \E r \in routed : r.iid = m.id /\ r.conn = g

\* Whatever waits in a connection's queue is meant for that very connection, though
\* panels reuse ids and names across reconnects (replace_id and the generation
\* filter of send_to_client).
RightPanel == \A g \in Conn : \A i \in DOMAIN queue[g] : MeantFor(g, queue[g][i])

\* No call gets two answers on its socket, whichever of the reader, a replay, a
\* failed initialize and the thread's own error reply come together.
AnsweredOnce == \A g \in Conn : \A k \in OrigId : answers[g][k] <= 1

\* Every route the broker keeps belongs to a generation still registered:
\* nothing leaks for replaced, evicted or closed panels, and none is inserted after.
NoStaleRoute ==
  \A r \in pending \cup serverPending \cup initialize.waiters : Current(r.conn)

\* A connection whose thread would go on serving is the one registered under its
\* name; a replaced or evicted one is told to stop.
NoZombie == \A g \in Conn : alive[g] => Current(g)

InitializeSent ==
  {hand[g].iid : g \in {h \in Conn : pc[h] \in {"send", "failinit"}
                                     /\ hand[h].kind = "initialize"}}
  \cup {childIn[i].iid : i \in {j \in DOMAIN childIn : childIn[j].kind = "initialize"}}

\* The app server is initialized at most once however panels race: one initialize
\* is under way, panels wait only while somebody is going to answer or fail it, and
\* none waits once the response is cached.
OneInitialize ==
  /\ InitializeSent \subseteq {initialize.internal}
  /\ initialize.response # 0 =>
       initialize.response = initialize.internal /\ InitializeSent = {}
  /\ initialize.waiters # {} =>
       /\ initialize.response = 0
       /\ childOpen => initialize.internal \in InitializeSent \cup srv

\* An answer goes to the app server under the app server's own id only from the
\* panel the request was routed to, and only once (the check of generation in
\* route_client_response, and the removal of the route).
AuthenticServerAnswer ==
  /\ \A g \in Conn : pc[g] = "send" /\ hand[g].kind = "response" /\ hand[g].id \in ServerId
       => CallOf(hand[g].iid, g, hand[g].id) \in routed
  /\ \A s \in ServerId : asks[s] # "again"

\* An answer to the call is waited for, or on its way to the socket.
Awaited(g, k) ==
  \/ \E r \in pending \cup initialize.waiters : r.conn = g /\ r.orig = k
  \/ hand[g].kind \in {"request", "initialize"} /\ hand[g].id = k
  \/ \E t \in Thread : \/ \E d \in out[t] : d.to = g /\ IsAnswer(d.msg) /\ d.msg.id = k
                       \/ job[t].to = g /\ IsAnswer(job[t].msg) /\ job[t].msg.id = k
  \/ \E i \in DOMAIN queue[g] : IsAnswer(queue[g][i]) /\ queue[g][i].id = k

\* A second initialize of the connection took the first one's place as a waiter.
Superseded(g, k) ==
  /\ \E r, q \in asked : r.iid = q.iid /\ r.conn = g /\ q.conn = g /\ r.orig = k /\ q.orig # k
  /\ ~Awaited(g, k)

\* The state of a panel's call as CallService sees it.
StatusOf(g, k) ==
  CASE answers[g][k] > 1 -> "answered again"
    [] answers[g][k] = 1 -> "answered"
    [] answers[g][k] = 0 /\ pc[g] = "done" -> "closed"
    [] answers[g][k] = 0 /\ pc[g] # "done" /\ k \notin used[g] -> "unused"
    [] answers[g][k] = 0 /\ pc[g] # "done" /\ k \in used[g] /\ Superseded(g, k) -> "lapsed"
    [] answers[g][k] = 0 /\ pc[g] # "done" /\ k \in used[g] /\ ~Superseded(g, k) -> "open"

Calls == INSTANCE CallService WITH
  status <- [g \in Conn |-> [k \in OrigId |-> StatusOf(g, k)]],
  gone <- {g \in Conn : pc[g] = "done"}

\* The broker implements CallService while the child's pipes work and no route
\* outlives PENDING_TTL: every call of a panel is answered once or its socket ends.
ImplementsCalls == Calls!Spec
=============================================================================
