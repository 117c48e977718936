----------------------------- MODULE LegacyRelay -----------------------------
(***************************************************************************)
(* The Browser Use relay of the Chrome extension host.                     *)
(*                                                                         *)
(* Browser clients connect to a private Unix socket; a reader thread and a *)
(* writer thread serve each.  Only the newest one is registered: its       *)
(* arrival evicts the one before.  Requests of the client go to Chrome     *)
(* through a bounded channel (the host's stdout), Chrome's messages come   *)
(* in on stdin and are dispatched by one thread.  Every send on a channel  *)
(* here BLOCKS while it is full, outside the mutex; what keeps the threads *)
(* from waiting on each other for ever is the write timeout of a client's  *)
(* socket.                                                                 *)
(*                                                                         *)
(* A connection is named by its thread; the code's client ids are handed   *)
(* out once each, so the thread stands for the id.                         *)
(***************************************************************************)
EXTENDS Naturals, Sequences, FiniteSets

CONSTANTS
  Cid,            \* connections of browser clients
  CallId,         \* ids a client gives its requests
  AskId,          \* ids Chrome gives its requests
  MaxIid,         \* bound: routed ids handed out in each direction
  ClientQueue,    \* CLIENT_QUEUE
  OutputQueue,    \* OUTPUT_QUEUE
  MaxPending,     \* MAX_PENDING_REQUESTS
  MaxConnections, \* MAX_CLIENT_CONNECTIONS
  Notes,          \* whether notifications are sent, by the client and by Chrome
  Expiry,         \* whether PENDING_TTL can run out
  Stalls          \* whether a client may stop reading its socket

ASSUME RelayAssumption ==
  /\ CallId \subseteq Nat \ {0} /\ AskId \cap Nat = {}
  /\ MaxIid \in Nat /\ MaxPending \in Nat \ {0} /\ MaxConnections \in Nat \ {0}
  /\ ClientQueue \in Nat \ {0} /\ OutputQueue \in Nat \ {0}
  /\ Notes \in BOOLEAN /\ Expiry \in BOOLEAN /\ Stalls \in BOOLEAN

Iid == 1..MaxIid

VARIABLES
  clients,        \* registered connections
  pendingChrome,  \* routes of the client's requests, by routed id
  pendingClients, \* routes of Chrome's requests, by routed id
  nextChrome, nextReq,
  pc,             \* where a connection's reader thread stands
  hand,           \* the message it is sending
  evicted,        \* connections it has to shut down after registering
  over,           \* sockets shut down, or closed by the peer
  queue,          \* messages in the channel of a connection's writer thread
  writer,         \* the writer thread; it holds the receiver while "up"
  chromeOut,      \* messages in the channel to Chrome
  disp,           \* deliveries the dispatcher still has to make
  inChrome,       \* requests Chrome read and has not answered
  asks,           \* progress of Chrome's own requests
  used,           \* history: ids a connection used, of calls, of answers and 0 for a note
  asked,          \* history: which call a routed id stands for
  routed,         \* history: which connection Chrome's request went to
  answers         \* history: answers written to a connection's socket, by id

routes  == <<clients, pendingChrome, pendingClients>>
ids     == <<nextChrome, nextReq>>
thread  == <<pc, hand, evicted, over>>
channel == <<queue, writer, chromeOut, disp>>
chrome  == <<inChrome, asks>>
history == <<used, asked, routed, answers>>
vars    == <<routes, ids, thread, channel, chrome, history>>

-----------------------------------------------------------------------------
Msg == [kind : {"none", "request", "response", "ask", "answer", "refusal", "local", "note"},
        id : CallId \cup AskId \cup {0}, iid : Nat, client : Cid \cup {0}]
\* client (history): whose request it is, or answers; 0 if nobody's
Message(kind, id, i, c) == [kind |-> kind, id |-> id, iid |-> i, client |-> c]
NoMsg == Message("none", 0, 0, 0)
Note  == Message("note", 0, 0, 0)
\* an answer made by the relay itself: pong, or too many pending requests
Local(k) == Message("local", k, 0, 0)

Route(K) == [iid : Nat, client : Cid, orig : K, old : BOOLEAN]
RouteOf(i, c, k) == [iid |-> i, client |-> c, orig |-> k, old |-> FALSE]
Aged(r) == [iid |-> r.iid, client |-> r.client, orig |-> r.orig, old |-> TRUE]
Call(K) == [iid : Nat, client : Cid, orig : K]
CallOf(i, c, k) == [iid |-> i, client |-> c, orig |-> k]

Delivery == [to : Cid \cup {0}, msg : Msg]   \* 0 is Chrome
To(c, m) == [to |-> c, msg |-> m]

\* State::prune_pending
Fresh(S) == {r \in S : ~r.old}
Others(S, c) == {r \in S : r.client # c}

Holders == {c \in Cid : pc[c] \notin {"free", "gone"}}
Goto(c, l) == pc' = [pc EXCEPT ![c] = l]

\* Mutant: whoever leaves, nobody is registered any more.
StayingNone(c) == {}
Staying(c) == clients \ {c}

\* remove_client
RemoveClient(c) ==
  /\ clients' = Staying(c)
  /\ pendingChrome' = Others(pendingChrome, c)
  /\ pendingClients' = Others(pendingClients, c)

Init ==
  /\ clients = {} /\ pendingChrome = {} /\ pendingClients = {}
  /\ nextChrome = 1 /\ nextReq = 1
  /\ pc = [c \in Cid |-> "free"] /\ hand = [c \in Cid |-> NoMsg]
  /\ evicted = [c \in Cid |-> {}] /\ over = {}
  /\ queue = [c \in Cid |-> <<>>] /\ writer = [c \in Cid |-> "none"]
  /\ chromeOut = <<>> /\ disp = {}
  /\ inChrome = {} /\ asks = [s \in AskId |-> "fresh"]
  /\ used = [c \in Cid |-> {}] /\ asked = {} /\ routed = {}
  /\ answers = [c \in Cid |-> [k \in CallId |-> 0]]

-----------------------------------------------------------------------------
(* accept_clients, serve_client: a connection begins and ends. *)

\* A connection beyond the permits is closed at once and leaves no trace.
Accept(c) ==
  /\ pc[c] = "free" /\ Cardinality(Holders) < MaxConnections
  /\ Goto(c, "waiting")
  /\ UNCHANGED <<routes, ids, hand, evicted, over, channel, chrome, history>>

\* No first frame within five seconds.
FirstFrameFails(c) ==
  /\ pc[c] = "waiting" /\ Goto(c, "gone")
  /\ UNCHANGED <<routes, ids, hand, evicted, over, channel, chrome, history>>

\* Mutant: routed ids start again with every client.
FirstChromeIdRestarted == 1
FirstChromeId == nextChrome

\* register_client, under the lock.
Register(c) ==
  /\ pc[c] = "waiting"
  /\ clients' = {c} /\ pendingChrome' = {} /\ pendingClients' = {}
  /\ nextChrome' = FirstChromeId
  /\ evicted' = [evicted EXCEPT ![c] = clients]
  /\ writer' = [writer EXCEPT ![c] = "up"]
  /\ Goto(c, "evicting")
  /\ UNCHANGED <<nextReq, hand, over, queue, chromeOut, disp, chrome, history>>

ShutDown(c) == over \cup evicted[c]

\* register_client, after the unlock.
CloseEvicted(c) ==
  /\ pc[c] = "evicting"
  /\ over' = ShutDown(c)
  /\ evicted' = [evicted EXCEPT ![c] = {}]
  /\ Goto(c, "first")
  /\ UNCHANGED <<routes, ids, hand, channel, chrome, history>>

\* The browser client closes its end.
PeerCloses(c) ==
  /\ pc[c] \notin {"free", "waiting", "gone"} /\ c \notin over
  /\ over' = over \cup {c}
  /\ UNCHANGED <<routes, ids, pc, hand, evicted, channel, chrome, history>>

\* End of the stream, or a malformed frame.
ReaderEnds(c) ==
  /\ pc[c] = "read" /\ Goto(c, "removing")
  /\ UNCHANGED <<routes, ids, hand, evicted, over, channel, chrome, history>>

Remove(c) ==
  /\ pc[c] = "removing"
  /\ RemoveClient(c)
  /\ Goto(c, "gone")
  /\ UNCHANGED <<ids, hand, evicted, over, channel, chrome, history>>

-----------------------------------------------------------------------------
(* handle_client_message.  Frames already received are read even after the *)
(* socket was shut down.                                                    *)

\* A frame arrives; the client uses every id once, and its calls' upwards.
Frame(c, x) ==
  /\ pc[c] \in {"first", "read"}
  /\ x \notin used[c]
  /\ used' = [used EXCEPT ![c] = @ \cup {x}]

Holding(c, l, m) == Goto(c, l) /\ hand' = [hand EXCEPT ![c] = m]
Ignored(c) == Goto(c, "read") /\ UNCHANGED hand

ReadNote(c) ==
  /\ Notes /\ Frame(c, 0)
  /\ \/ c \in clients /\ Holding(c, "toChrome", Note)
     \/ c \notin clients /\ Ignored(c)
  /\ UNCHANGED <<routes, ids, evicted, over, channel, chrome, asked, routed, answers>>

\* A response whose id is no string is ignored at once.
ReadStray(c) ==
  /\ pc[c] \in {"first", "read"} /\ Ignored(c)
  /\ UNCHANGED <<routes, ids, evicted, over, channel, chrome, history>>

NextCall(c, k) == \A j \in CallId \ used[c] : k <= j

ReadPing(c, k) ==
  /\ NextCall(c, k) /\ Frame(c, k)
  /\ \/ c \in clients /\ Holding(c, "toClient", Local(k))
     \/ c \notin clients /\ Ignored(c)
  /\ UNCHANGED <<routes, ids, evicted, over, channel, chrome, asked, routed, answers>>

\* Mutant: an evicted client's buffered requests are still routed.
IsRegisteredUnchecked(c) == TRUE
IsRegistered(c) == c \in clients

\* route_client_request
ReadRequest(c, k) ==
  /\ NextCall(c, k) /\ Frame(c, k) /\ nextChrome <= MaxIid
  /\ pendingClients' = Fresh(pendingClients)
  /\ \/ /\ ~IsRegistered(c)
        /\ Ignored(c)
        /\ pendingChrome' = Fresh(pendingChrome)
        /\ UNCHANGED <<nextChrome, asked>>
     \/ /\ IsRegistered(c) /\ Cardinality(Fresh(pendingChrome)) >= MaxPending
        /\ Holding(c, "toClient", Local(k))
        /\ pendingChrome' = Fresh(pendingChrome)
        /\ UNCHANGED <<nextChrome, asked>>
     \/ /\ IsRegistered(c) /\ Cardinality(Fresh(pendingChrome)) < MaxPending
        /\ Holding(c, "toChrome", Message("request", 0, nextChrome, c))
        /\ pendingChrome' = Fresh(pendingChrome) \cup {RouteOf(nextChrome, c, k)}
        /\ asked' = asked \cup {CallOf(nextChrome, c, k)}
        /\ nextChrome' = nextChrome + 1
  /\ UNCHANGED <<clients, nextReq, evicted, over, channel, chrome, routed, answers>>

\* Mutant: whoever answers, the answer counts.
OwnedByAnyone(c, i) == {r \in Fresh(pendingClients) : r.iid = i}
Owned(c, i) == {r \in Fresh(pendingClients) : r.iid = i /\ r.client = c}

\* handle_client_response; a client may answer (by mistake) what another was asked.
ReadResponse(c) ==
  \E q \in routed :
    /\ Frame(c, q.orig)
    /\ pendingChrome' = Fresh(pendingChrome)
    /\ \/ /\ Owned(c, q.iid) = {}
          /\ Ignored(c)
          /\ pendingClients' = Fresh(pendingClients)
       \/ \E r \in Owned(c, q.iid) :
            /\ Holding(c, "toChrome", Message("answer", r.orig, r.iid, c))
            /\ pendingClients' = Fresh(pendingClients) \ {r}
    /\ UNCHANGED <<clients, ids, evicted, over, channel, chrome, asked, routed, answers>>

\* The blocking send on the channel to Chrome.
SendChrome(c) ==
  /\ pc[c] = "toChrome" /\ Len(chromeOut) < OutputQueue
  /\ chromeOut' = Append(chromeOut, hand[c])
  /\ Holding(c, "read", NoMsg)
  /\ UNCHANGED <<routes, ids, evicted, over, queue, writer, disp, chrome, history>>

\* Mutant: the channel takes one message too many.
HasRoomOffByOne(c) == Len(queue[c]) <= ClientQueue
HasRoom(c) == Len(queue[c]) < ClientQueue

\* The blocking send on the thread's own channel; when its writer is gone the
\* client is removed, and the thread reads on.
SendClient(c) ==
  /\ pc[c] = "toClient"
  /\ Holding(c, "read", NoMsg)
  /\ \/ /\ writer[c] = "up" /\ HasRoom(c)
        /\ queue' = [queue EXCEPT ![c] = Append(@, hand[c])]
        /\ UNCHANGED routes
     \/ /\ writer[c] = "down"
        /\ RemoveClient(c)
        /\ UNCHANGED queue
  /\ UNCHANGED <<ids, evicted, over, writer, chromeOut, disp, chrome, history>>

-----------------------------------------------------------------------------
(* client_writer *)

IsAnswer(m) == m.kind \in {"response", "local"}

Write(c) ==
  /\ writer[c] = "up" /\ queue[c] # <<>> /\ c \notin over
  /\ queue' = [queue EXCEPT ![c] = Tail(@)]
  /\ LET m == Head(queue[c]) IN
     answers' = [answers EXCEPT ![c] = [k \in CallId |->
       IF IsAnswer(m) /\ m.id = k THEN @[k] + 1 ELSE @[k]]]
  /\ UNCHANGED <<routes, ids, thread, writer, chromeOut, disp, chrome, used, asked, routed>>

\* Mutant: the write timeout is not set.
CannotWriteUntimed(c) == c \in over
\* The socket is over, or the client does not read for five seconds.
CannotWrite(c) == c \in over \/ Stalls

WriteFails(c) ==
  /\ writer[c] = "up" /\ queue[c] # <<>> /\ CannotWrite(c)
  /\ writer' = [writer EXCEPT ![c] = "down"]
  /\ queue' = [queue EXCEPT ![c] = <<>>]
  /\ UNCHANGED <<routes, ids, thread, chromeOut, disp, chrome, history>>

\* Every sender is gone: the registry's, the thread's and the dispatcher's.
WriterEnds(c) ==
  /\ writer[c] = "up" /\ queue[c] = <<>>
  /\ c \notin clients /\ pc[c] # "toClient" /\ \A d \in disp : d.to # c
  /\ writer' = [writer EXCEPT ![c] = "down"]
  /\ UNCHANGED <<routes, ids, thread, queue, chromeOut, disp, chrome, history>>

-----------------------------------------------------------------------------
(* Chrome, and the dispatcher of its messages: handle_chrome_message. *)

Work(i, c) == [iid |-> i, client |-> c]

\* Chrome reads a frame of the host's stdout.
ChromeReads ==
  /\ chromeOut # <<>>
  /\ chromeOut' = Tail(chromeOut)
  /\ LET m == Head(chromeOut) IN
     /\ inChrome' = IF m.kind = "request" THEN inChrome \cup {Work(m.iid, m.client)} ELSE inChrome
     /\ asks' = [s \in AskId |->
          IF m.kind \in {"answer", "refusal"} /\ m.id = s
          THEN IF asks[s] = "asked" THEN "answered" ELSE "again"
          ELSE asks[s]]
  /\ UNCHANGED <<routes, ids, thread, queue, writer, disp, history>>

\* handle_chrome_response
ChromeResponds(i) ==
  /\ disp = {}
  /\ pendingChrome' = {r \in Fresh(pendingChrome) : r.iid # i}
  /\ pendingClients' = Fresh(pendingClients)
  /\ \E w \in inChrome :
       /\ w.iid = i
       /\ inChrome' = inChrome \ {w}
       /\ disp' = {To(r.client, Message("response", r.orig, i, w.client)) :
                     r \in {q \in Fresh(pendingChrome) : q.iid = i /\ q.client \in clients}}
  /\ UNCHANGED <<clients, ids, thread, queue, writer, chromeOut, asks, history>>

\* handle_chrome_request
ChromeAsks(s) ==
  /\ disp = {} /\ asks[s] = "fresh" /\ nextReq <= MaxIid
  /\ asks' = [asks EXCEPT ![s] = "asked"]
  /\ pendingChrome' = Fresh(pendingChrome)
  /\ \/ /\ Cardinality(clients) # 1 \/ Cardinality(Fresh(pendingClients)) >= MaxPending
        /\ disp' = {To(0, Message("refusal", s, 0, 0))}
        /\ pendingClients' = Fresh(pendingClients)
        /\ UNCHANGED <<nextReq, routed>>
     \/ /\ Cardinality(clients) = 1 /\ Cardinality(Fresh(pendingClients)) < MaxPending
        /\ \E c \in clients :
             /\ disp' = {To(c, Message("ask", s, nextReq, c))}
             /\ pendingClients' = Fresh(pendingClients) \cup {RouteOf(nextReq, c, s)}
             /\ routed' = routed \cup {CallOf(nextReq, c, s)}
        /\ nextReq' = nextReq + 1
  /\ UNCHANGED <<clients, nextChrome, thread, queue, writer, chromeOut, inChrome,
                 used, asked, answers>>

\* A notification goes to every client.
ChromeNotifies ==
  /\ Notes /\ disp = {} /\ clients # {}
  /\ disp' = {To(c, Note) : c \in clients}
  /\ UNCHANGED <<routes, ids, thread, queue, writer, chromeOut, chrome, history>>

\* The dispatcher's blocking sends.
Dispatch ==
  \E d \in disp :
    /\ disp' = disp \ {d}
    /\ \/ /\ d.to = 0 /\ Len(chromeOut) < OutputQueue
          /\ chromeOut' = Append(chromeOut, d.msg)
          /\ UNCHANGED <<routes, queue>>
       \/ /\ d.to # 0 /\ writer[d.to] = "up" /\ HasRoom(d.to)
          /\ queue' = [queue EXCEPT ![d.to] = Append(@, d.msg)]
          /\ UNCHANGED <<routes, chromeOut>>
       \/ /\ d.to # 0 /\ writer[d.to] = "down"
          /\ RemoveClient(d.to)
          /\ UNCHANGED <<queue, chromeOut>>
    /\ UNCHANGED <<ids, thread, writer, chrome, history>>

\* PENDING_TTL runs out for every route there is.
TimePasses ==
  /\ Expiry
  /\ pendingChrome' = {Aged(r) : r \in pendingChrome}
  /\ pendingClients' = {Aged(r) : r \in pendingClients}
  /\ UNCHANGED <<clients, ids, thread, channel, chrome, history>>

-----------------------------------------------------------------------------
ReadFrame(c) ==
  \/ ReadNote(c) \/ ReadStray(c) \/ ReadResponse(c)
  \/ \E k \in CallId : ReadPing(c, k) \/ ReadRequest(c, k)

Send(c) == SendChrome(c) \/ SendClient(c)

Next ==
  \/ \E c \in Cid :
       \/ Accept(c) \/ FirstFrameFails(c) \/ Register(c) \/ CloseEvicted(c)
       \/ PeerCloses(c) \/ ReadFrame(c) \/ Send(c) \/ ReaderEnds(c) \/ Remove(c)
       \/ Write(c) \/ WriteFails(c) \/ WriterEnds(c)
  \/ ChromeReads \/ ChromeNotifies \/ Dispatch \/ TimePasses
  \/ \E i \in Iid : ChromeResponds(i)
  \/ \E s \in AskId : ChromeAsks(s)

Spec == Init /\ [][Next]_vars

\* Threads are scheduled, the first frame is at hand; the end of a stream is read; a client's writer either
\* writes or runs into its timeout; Chrome reads the host's stdout and answers.
Fairness ==
  /\ \A c \in Cid :
       /\ WF_vars(CloseEvicted(c)) /\ WF_vars(Send(c)) /\ WF_vars(Remove(c))
       /\ WF_vars(pc[c] = "first" /\ ReadFrame(c)) /\ WF_vars(c \in over /\ ReaderEnds(c))
       /\ WF_vars(WriteFails(c) \/ (~Stalls /\ Write(c))) /\ WF_vars(WriterEnds(c))
  /\ WF_vars(ChromeReads) /\ WF_vars(Dispatch)
  /\ \A i \in Iid : WF_vars(ChromeResponds(i))

FairSpec == Spec /\ Fairness
-----------------------------------------------------------------------------
(* Properties. *)

RoutesOK ==
  /\ clients \subseteq Cid
  /\ pendingChrome \subseteq Route(CallId) /\ pendingClients \subseteq Route(AskId)
  /\ nextChrome \in Nat \ {0} /\ nextReq \in Nat \ {0}
ThreadsOK ==
  /\ pc \in [Cid -> {"free", "waiting", "evicting", "first", "read", "toChrome",
                     "toClient", "removing", "gone"}]
  /\ hand \in [Cid -> Msg]
  /\ evicted \in [Cid -> SUBSET Cid] /\ over \subseteq Cid
ChannelsOK ==
  /\ queue \in [Cid -> Seq(Msg)] /\ \A c \in Cid : Len(queue[c]) <= ClientQueue
  /\ writer \in [Cid -> {"none", "up", "down"}]
  /\ chromeOut \in Seq(Msg) /\ Len(chromeOut) <= OutputQueue
  /\ disp \subseteq Delivery
ChromeOK ==
  /\ inChrome \subseteq [iid : Nat, client : Cid \cup {0}]
  /\ asks \in [AskId -> {"fresh", "asked", "answered", "again"}]
HistoryOK ==
  /\ used \in [Cid -> SUBSET (CallId \cup AskId \cup {0})]
  /\ asked \subseteq Call(CallId) /\ routed \subseteq Call(AskId)
  /\ answers \in [Cid -> [CallId -> Nat]]

\* Types of the whole state; channels respect their capacities.
TypeOK == RoutesOK /\ ThreadsOK /\ ChannelsOK /\ ChromeOK /\ HistoryOK

\* There is never more than one registered client, and every route is its own:
\* handle_chrome_request can never find several clients, and no evicted client's
\* buffered frame or late failure leaves a route behind.
OnlyCurrent ==
  /\ Cardinality(clients) <= 1
  /\ \A r \in pendingChrome \cup pendingClients : r.client \in clients

\* A response answers a request of this very connection under its own id, a Chrome
\* request was routed to it.
MeantFor(c, m) ==
  /\ m.kind = "response" => m.client = c /\ CallOf(m.iid, c, m.id) \in asked
  /\ m.kind = "ask" => CallOf(m.iid, c, m.id) \in routed

\* Whatever waits for a client, in its channel or with the dispatcher, is meant for
\* it, though clients come and go while Chrome works on their requests.
RightClient ==
  /\ \A c \in Cid : \A i \in DOMAIN queue[c] : MeantFor(c, queue[c][i])
  /\ \A d \in disp : d.to # 0 => MeantFor(d.to, d.msg)

\* A request of Chrome is answered at most once, and only by the client it was
\* routed to, under Chrome's own id (the client_id check of handle_client_response).
AuthenticAnswer ==
  /\ \A i \in DOMAIN chromeOut :
       LET m == chromeOut[i] IN
       m.kind = "answer" => CallOf(m.iid, m.client, m.id) \in routed
  /\ \A s \in AskId : asks[s] # "again"

\* The registered client is unseated only by a newer one, by its own thread's end or
\* by its own dead writer: an evicted client's late remove_client never hits it.
NeverUnseated ==
  [][\A c \in clients \ clients' :
       (\E d \in Cid : pc[d] = "waiting" /\ pc'[d] = "evicting")
       \/ pc[c] = "removing" \/ writer[c] = "down"]_vars

\* Nobody waits for ever on a client that does not read: an evicted client's thread ends
\* and gives its permit back, though it may be blocked on a channel when its socket is
\* shut down, and the dispatcher, which serves every other Chrome message, comes back.
NothingStalls ==
  /\ \A c \in Cid : (\E d \in Cid : c \in evicted[d]) ~> pc[c] = "gone"
  /\ disp # {} ~> disp = {}

\* The state of a client's call as CallService sees it.
Ended(c) == pc[c] = "gone" /\ writer[c] # "up"
StatusOf(c, k) ==
  CASE answers[c][k] > 1 -> "answered again"
    [] answers[c][k] = 1 -> "answered"
    [] answers[c][k] = 0 /\ Ended(c) -> "closed"
    [] answers[c][k] = 0 /\ ~Ended(c) -> IF k \in used[c] THEN "open" ELSE "unused"

Calls == INSTANCE CallService WITH
  Conn <- Cid, OrigId <- CallId,
  status <- [c \in Cid |-> [k \in CallId |-> StatusOf(c, k)]],
  gone <- {c \in Cid : Ended(c)}

\* The relay implements CallService while clients read their sockets and no route
\* outlives PENDING_TTL: a call of a client is answered once or its socket ends.
ImplementsCalls == Calls!Spec
=============================================================================
