---------------------------- MODULE BrokerSafety ----------------------------
(***************************************************************************)
(* The broker's registry is sound, for any number of panels, connections,  *)
(* ids and capacities: whatever the interleaving of replacements,          *)
(* evictions and closing sockets, only the connection registered under a   *)
(* panel's name goes on serving, every route belongs to such a connection, *)
(* and what waits in a connection's queue is meant for that connection.    *)
(***************************************************************************)
EXTENDS BrokerProofs

\* The HashMap names a generation only under the panel it was registered for.
Linked ==
  \A c \in ClientId : clients[c] # 0 => clients[c] < nextConn /\ owner[clients[c]] = c

Routes == pending \cup serverPending \cup initialize.waiters

\* NoZombie and NoStaleRoute need Linked to survive the registration of a new
\* generation: its number is one no route and no entry of the HashMap uses.
Sound == Linked /\ NoZombie /\ NoStaleRoute

LEMMA RegisteredIsCurrent ==
  ASSUME TypeOK, Sound, NEW c \in Registered
  PROVE  clients[c] \in Conn /\ Current(clients[c])
BY BrokerAssumption DEF TypeOK, RegistryOK, Sound, Linked, Registered, Current, Conn

LEMMA InitSound == Init => Sound
BY DEF Init, Sound, Linked, NoZombie, NoStaleRoute, Initialize

-----------------------------------------------------------------------------
\* No step but a registration or a removal changes who is registered.
LEMMA SoundFrame ==
  ASSUME TypeOK, Sound, UNCHANGED <<clients, owner, nextConn>>,
         \A g \in Conn : alive'[g] => alive[g],
         \A r \in Routes' : Current(r.conn) \/ r \in Routes
                            \/ \E q \in Routes : q.conn = r.conn
  PROVE  Sound'
<1>1. \A g \in Conn : Current(g)' <=> Current(g)
  BY DEF Current
<1>2. Linked'
  BY DEF Sound, Linked
<1>3. NoZombie'
  BY <1>1 DEF Sound, NoZombie
<1>4. \A r \in Routes' : Current(r.conn)
  BY DEF Sound, NoStaleRoute, Routes
<1>5. NoStaleRoute'
  BY <1>4 DEF NoStaleRoute, Routes, Current
<1>6. QED
  BY <1>2, <1>3, <1>5 DEF Sound

LEMMA SoundSame ==
  ASSUME TypeOK, Sound, UNCHANGED <<registry, routes>>
  PROVE  Sound'
BY SoundFrame DEF registry, routes, Routes

LEMMA SoundDrop ==
  ASSUME TypeOK, Sound, NEW g \in Conn, Drop(g)
  PROVE  Sound'
<1>1. CASE ~Current(g)
  BY <1>1, SoundSame DEF Drop
<1>2. CASE Current(g)
  <2>1. /\ owner[g] \in ClientId /\ clients[owner[g]] = g
        /\ clients' = [clients EXCEPT ![owner[g]] = 0]
        /\ alive' = [alive EXCEPT ![g] = FALSE]
        /\ UNCHANGED <<owner, nextConn>>
    BY <1>2 DEF Drop, Current
  <2>2. clients \in [ClientId -> 0..MaxConn] /\ alive \in [Conn -> BOOLEAN]
    BY DEF TypeOK, RegistryOK
  <2>3. \A h \in Conn : h # g /\ Current(h) => Current(h)'
    BY <2>1, <2>2 DEF Current
  <2>4. Linked'
    BY <2>1, <2>2 DEF Sound, Linked
  <2>5. NoZombie'
    BY <2>1, <2>2, <2>3 DEF Sound, NoZombie
  <2>6. \A r \in Routes' : r \in Routes /\ r.conn # g
    BY <1>2 DEF Drop, Others, WaitersOnly, Initialize, Routes
  <2>7. \A r \in Routes : r.conn \in Conn
    BY DEF TypeOK, RoutesOK, Routes, Route
  <2>8. NoStaleRoute'
    BY <2>3, <2>6, <2>7 DEF Sound, NoStaleRoute, Routes
  <2>9. QED
    BY <2>4, <2>5, <2>8 DEF Sound
<1>3. QED
  BY <1>1, <1>2

LEMMA SoundConnect ==
  ASSUME TypeOK, Sound, NEW c \in ClientId, Register(c)
  PROVE  Sound'
<1>0. PICK g \in Nat : g = nextConn
  BY DEF TypeOK, RegistryOK
<1>1. /\ g \in Conn /\ nextConn' = nextConn + 1
      /\ clients' = [clients EXCEPT ![c] = g]
      /\ owner' = [owner EXCEPT ![g] = c]
      /\ alive' = AliveAfter(g, clients[c])
  BY <1>0 DEF Register, TypeOK, RegistryOK, Conn
<1>2. /\ clients \in [ClientId -> 0..MaxConn] /\ nextConn \in Nat
      /\ owner \in [Conn -> ClientId \cup {NoClient}]
  BY DEF TypeOK, RegistryOK
<1>3. \A h \in Conn : Current(h) => h < g
  BY <1>0 DEF Conn, Sound, Linked, Current
<1>4. \A h \in Conn : Current(h) /\ h # clients[c] => Current(h)'
  <2>1. SUFFICES ASSUME NEW h \in Conn, Current(h), h # clients[c] PROVE Current(h)'
    OBVIOUS
  <2>2. h # g
    BY <1>2, <1>3, <2>1
  <2>3. owner[h] \in ClientId /\ clients[owner[h]] = h /\ owner[h] # c
    BY <2>1 DEF Current
  <2>4. QED
    BY <1>0, <1>1, <1>2, <2>2, <2>3 DEF Current
<1>5. Current(g)'
  BY <1>0, <1>1, <1>2 DEF Current
<1>6. Linked'
  <2>1. SUFFICES ASSUME NEW b \in ClientId, clients'[b] # 0
                 PROVE  clients'[b] < nextConn' /\ owner'[clients'[b]] = b
    BY DEF Linked
  <2>2. CASE b = c
    BY <1>0, <1>1, <1>2, <2>2
  <2>3. CASE b # c
    <3>1. clients'[b] = clients[b] /\ clients[b] < nextConn /\ owner[clients[b]] = b
      BY <1>0, <1>1, <1>2, <2>1, <2>3 DEF Sound, Linked
    <3>2. clients[b] \in Conn
      BY <1>2, <2>1, <3>1 DEF Conn
    <3>3. QED
      BY <1>0, <1>1, <1>2, <3>1, <3>2 DEF Conn
  <2>4. QED
    BY <2>2, <2>3
<1>7. NoZombie'
  <2>1. SUFFICES ASSUME NEW h \in Conn, alive'[h], h # g PROVE Current(h)'
    BY <1>5 DEF NoZombie
  <2>2. h # clients[c] /\ alive[h]
    BY <1>1, <2>1 DEF AliveAfter
  <2>3. QED
    BY <1>4, <2>2 DEF Sound, NoZombie
<1>8. NoStaleRoute'
  <2>1. \A r \in Routes' : r \in Routes /\ r.conn # clients[c]
    BY DEF Register, Others, Fresh, WaitersOnly, Initialize, Routes
  <2>2. \A r \in Routes : r.conn \in Conn
    BY DEF TypeOK, RoutesOK, Routes, Route
  <2>3. QED
    BY <1>4, <2>1, <2>2 DEF Sound, NoStaleRoute, Routes
<1>9. QED
  BY <1>6, <1>7, <1>8 DEF Sound

-----------------------------------------------------------------------------
LEMMA NextSound == TypeOK /\ Sound /\ [Next]_vars => Sound'
<1> SUFFICES ASSUME TypeOK, Sound, [Next]_vars PROVE Sound'
  OBVIOUS
<1>1. ASSUME NEW c \in ClientId, Connect(c) PROVE Sound'
  BY <1>1, SoundConnect DEF Connect
<1>2. ASSUME NEW c \in ClientId, ConnectRejected(c) PROVE Sound'
  <2>1. UNCHANGED registry /\ \A r \in Routes' : r \in Routes
    BY <1>2 DEF ConnectRejected, Prune, Pruned, Fresh, WaitersOnly, Initialize, Routes
  <2>2. QED
    BY <2>1, SoundFrame DEF registry
<1>3. ASSUME NEW g \in Conn, RouteRequest(g) PROVE Sound'
  <2>1. UNCHANGED registry
    BY <1>3 DEF RouteRequest
  <2>2. \A r \in Routes' : r \in Routes \/ (Current(g) /\ r = RouteOf(nextReq, g, hand[g].id))
    BY <1>3 DEF RouteRequest, StillCurrent, Pruned, Fresh, WaitersOnly, Initialize, Routes
  <2>3. QED
    BY <2>1, <2>2, SoundFrame DEF registry, RouteOf
<1>4. ASSUME NEW g \in Conn, RouteInitialize(g) PROVE Sound'
  <2>1. UNCHANGED registry /\ UNCHANGED <<pending, serverPending>>
    BY <1>4 DEF RouteInitialize
  <2>2. \A r \in initialize'.waiters : r \in initialize.waiters
                                       \/ (Current(g) /\ r = RouteOf(0, g, hand[g].id))
    BY <1>4 DEF RouteInitialize, WaitersOnly, Initialize, Waiting, Others
  <2>3. QED
    BY <2>1, <2>2, SoundFrame DEF registry, RouteOf, Routes
<1>5. ASSUME NEW g \in Conn, RouteResponse(g) PROVE Sound'
  <2>1. UNCHANGED registry /\ \A r \in Routes' : r \in Routes
    BY <1>5 DEF RouteResponse, Routes
  <2>2. QED
    BY <2>1, SoundFrame DEF registry
<1>6. ASSUME NEW g \in Conn, Unsend(g) PROVE Sound'
  <2>1. UNCHANGED registry /\ \A r \in Routes' : r \in Routes
    BY <1>6 DEF Unsend, Routes
  <2>2. QED
    BY <2>1, SoundFrame DEF registry
<1>7. ASSUME NEW g \in Conn, FailInitialize(g) PROVE Sound'
  <2>1. UNCHANGED registry /\ \A r \in Routes' : r \in Routes
    BY <1>7 DEF FailInitialize, Initialize, Routes
  <2>2. QED
    BY <2>1, SoundFrame DEF registry
<1>8. ASSUME NEW g \in Conn, HangUp(g) PROVE Sound'
  BY <1>8, SoundDrop DEF HangUp
<1>9. ASSUME NEW t \in Thread, TrySend(t) PROVE Sound'
  <2>1. UNCHANGED <<clients, owner, nextConn, routes>> /\ \A g \in Conn : alive'[g] => alive[g]
    BY <1>9 DEF TrySend, TypeOK, RegistryOK
  <2>2. QED
    BY <2>1, SoundFrame DEF routes, Routes
<1>10. ASSUME NEW t \in Thread, Evict(t) PROVE Sound'
  <2>1. job[t].target \in Conn /\ Drop(job[t].target)
    BY <1>10 DEF Evict, TypeOK, SendingOK, Job
  <2>2. QED
    BY <2>1, SoundDrop
<1>11. ASSUME NEW i \in Iid, ServerRespond(i) PROVE Sound'
  <2>1. UNCHANGED registry /\ \A r \in Routes' : r \in Routes
    BY <1>11 DEF ServerRespond, Pruned, Fresh, WaitersOnly, Initialize, Routes
  <2>2. QED
    BY <2>1, SoundFrame DEF registry
<1>12. ASSUME NEW s \in ServerId, ServerAsk(s) PROVE Sound'
  <2>1. UNCHANGED registry
    BY <1>12 DEF ServerAsk
  <2>2. \A r \in Routes' : r \in Routes
          \/ \E c \in Registered : r = RouteOf(nextReq, clients[c], s)
    BY <1>12 DEF ServerAsk, Pruned, Fresh, WaitersOnly, Initialize, Routes
  <2>3. \A r \in Routes' : r \in Routes \/ Current(r.conn)
    BY <2>2, RegisteredIsCurrent DEF RouteOf
  <2>4. QED
    BY <2>1, <2>3, SoundFrame DEF registry
<1>13. ASSUME TimePasses PROVE Sound'
  <2>1. UNCHANGED registry
    BY <1>13 DEF TimePasses
  <2>2. \A r \in Routes' : \E q \in Routes : q.conn = r.conn
    BY <1>13 DEF TimePasses, Aged, WaitersOnly, Initialize, Routes
  <2>3. QED
    BY <2>1, <2>2, SoundFrame DEF registry
\* The other actions leave the registry and the routes alone.
<1>14. ASSUME UNCHANGED <<registry, routes>> PROVE Sound'
  BY <1>14, SoundSame
<1>15. ASSUME NEW g \in Conn, Poll(g) \/ SendChild(g) \/ ReadNothing(g) \/ SocketEnds(g)
       PROVE  UNCHANGED <<registry, routes>>
  BY <1>15 DEF Poll, SendChild, ReadNothing, SocketEnds
<1>16. ASSUME NEW g \in Conn, ReadMessage(g) PROVE UNCHANGED <<registry, routes>>
  BY <1>16 DEF ReadMessage, ReadCall, ReadNote, ReadResponse, ReadOnce
<1>17. ASSUME NEW t \in Thread, Lookup(t) PROVE UNCHANGED <<registry, routes>>
  BY <1>17 DEF Lookup
<1>18. ASSUME ServerNotify \/ ReaderStops \/ WriteChild \/ WriterStops \/ UNCHANGED vars
       PROVE  UNCHANGED <<registry, routes>>
  BY <1>18 DEF ServerNotify, ReaderStops, WriteChild, WriterStops, vars
<1>19. QED
  BY <1>1, <1>2, <1>3, <1>4, <1>5, <1>6, <1>7, <1>8, <1>9, <1>10, <1>11, <1>12, <1>13,
     <1>14, <1>15, <1>16, <1>17, <1>18 DEF Next, Handle, Deliver

\* Every route the broker keeps belongs to the connection registered under its
\* panel's name: replaced, evicted and closed connections leave none behind.
THEOREM RoutesNeverStale == Spec => []NoStaleRoute
<1>1. Init => TypeOK /\ Sound
  BY InitTypeOK, InitSound
<1>2. TypeOK /\ Sound /\ [Next]_vars => (TypeOK /\ Sound)'
  BY NextTypeOK, NextSound
<1>3. TypeOK /\ Sound => NoStaleRoute
  BY DEF Sound
<1>4. QED
  BY <1>1, <1>2, <1>3, PTL DEF Spec

\* A connection that would go on serving is the one registered under its name:
\* register and send_to_client stop every other.
THEOREM NeverZombie == Spec => []NoZombie
<1>1. Init => TypeOK /\ Sound
  BY InitTypeOK, InitSound
<1>2. TypeOK /\ Sound /\ [Next]_vars => (TypeOK /\ Sound)'
  BY NextTypeOK, NextSound
<1>3. TypeOK /\ Sound => NoZombie
  BY DEF Sound
<1>4. QED
  BY <1>1, <1>2, <1>3, PTL DEF Spec

-----------------------------------------------------------------------------
(* Where an answer and a request of the app server are delivered. *)


\* MeantFor as of a history: A are the calls made, R the requests routed.
Meant(A, R, g, m) ==
  /\ m.kind = "response" => CallOf(m.body, g, m.id) \in A
  /\ m.kind = "ask" => \E r \in R : r.iid = m.id /\ r.conn = g

\* A route remembers a call that was made, the waiters the initialize under way.
RoutesAsked ==
  /\ \A r \in pending : CallOf(r.iid, r.conn, r.orig) \in asked
  /\ \A w \in initialize.waiters :
       initialize.internal # 0 /\ CallOf(initialize.internal, w.conn, w.orig) \in asked

\* Deliveries still to make are addressed to whom they are meant for.
OutRight == \A t \in Thread : \A d \in out[t] : Meant(asked, routed, d.to, d.msg)

\* The sender a thread found belongs to the generation it looked up.
JobRight ==
  \A t \in Thread : job[t].stage # "idle" =>
    job[t].target = job[t].to /\ Meant(asked, routed, job[t].to, job[t].msg)

\* RightPanel is about the last step of a delivery; the other parts follow an
\* answer from the route it was found in to the queue it ends in.
Addressed == RoutesAsked /\ OutRight /\ JobRight /\ RightPanel

LEMMA InitAddressed == Init => Addressed
BY DEF Init, Addressed, RoutesAsked, OutRight, JobRight, RightPanel, Initialize, NoJob, JobOf, Thread

-----------------------------------------------------------------------------
\* The history only grows, so what was meant for a connection stays meant for it.
LEMMA MeantStays ==
  ASSUME asked \subseteq asked', routed \subseteq routed'
  PROVE  \A g, m : Meant(asked, routed, g, m) => Meant(asked', routed', g, m)
BY DEF Meant

LEMMA RightPanelMeant ==
  RightPanel <=> \A g \in Conn : \A i \in DOMAIN queue[g] : Meant(asked, routed, g, queue[g][i])
BY DEF RightPanel, MeantFor, Meant

LEMMA RoutesFrom ==
  ASSUME RoutesAsked, asked \subseteq asked',
         \A r \in pending' : \/ \E q \in pending : q.iid = r.iid /\ q.conn = r.conn /\ q.orig = r.orig
                             \/ CallOf(r.iid, r.conn, r.orig) \in asked',
         \A w \in initialize'.waiters :
            \/ /\ initialize'.internal = initialize.internal
               /\ \E q \in initialize.waiters : q.conn = w.conn /\ q.orig = w.orig
            \/ /\ initialize'.internal # 0
               /\ CallOf(initialize'.internal, w.conn, w.orig) \in asked'
  PROVE  RoutesAsked'
BY DEF RoutesAsked, CallOf

LEMMA SendFrom ==
  ASSUME Addressed, asked \subseteq asked', routed \subseteq routed',
         \A t \in Thread : \A d \in out'[t] : d \in out[t] \/ Meant(asked', routed', d.to, d.msg),
         \A t \in Thread : \/ job'[t].stage = "idle"
                           \/ /\ job[t].stage # "idle"
                              /\ job'[t].to = job[t].to /\ job'[t].target = job[t].target
                              /\ job'[t].msg = job[t].msg
                           \/ job'[t].target = job'[t].to /\ Meant(asked', routed', job'[t].to, job'[t].msg),
         \A g \in Conn : \A i \in DOMAIN queue'[g] :
            \/ \E j \in DOMAIN queue[g] : queue[g][j] = queue'[g][i]
            \/ Meant(asked', routed', g, queue'[g][i])
  PROVE  OutRight' /\ JobRight' /\ RightPanel'
<1>1. OutRight'
  BY MeantStays DEF Addressed, OutRight, Thread, Conn, Reader
<1>2. JobRight'
  BY MeantStays DEF Addressed, JobRight, Thread, Conn, Reader
<1>3. \A g \in Conn : \A i \in DOMAIN queue[g] : Meant(asked', routed', g, queue[g][i])
  BY MeantStays, RightPanelMeant DEF Addressed
<1>4. \A g \in Conn : \A i \in DOMAIN queue'[g] : Meant(asked', routed', g, queue'[g][i])
  BY <1>3
<1>5. RightPanel'
  BY <1>4 DEF RightPanel, MeantFor, Meant
<1>6. QED
  BY <1>1, <1>2, <1>5

LEMMA AddressedSame ==
  ASSUME Addressed, asked \subseteq asked', routed \subseteq routed',
         UNCHANGED <<pending, initialize, sending>>
  PROVE  Addressed'
<1>1. RoutesAsked'
  BY RoutesFrom DEF Addressed
<1>2. OutRight' /\ JobRight' /\ RightPanel'
  BY SendFrom DEF sending
<1>3. QED
  BY <1>1, <1>2 DEF Addressed

\* Losing routes disturbs nothing.
LEMMA AddressedLess ==
  ASSUME Addressed, asked \subseteq asked', routed \subseteq routed', pending' \subseteq pending,
         initialize'.internal = initialize.internal \/ initialize'.waiters = {},
         initialize'.waiters \subseteq initialize.waiters
  PROVE  RoutesAsked'
BY RoutesFrom DEF Addressed

LEMMA DropLess ==
  ASSUME TypeOK, NEW g \in Conn, Drop(g)
  PROVE  /\ pending' \subseteq pending
         /\ initialize'.internal = initialize.internal
         /\ initialize'.waiters \subseteq initialize.waiters
<1>1. CASE Current(g)
  BY <1>1 DEF Drop, Others, WaitersOnly, Initialize
<1>2. CASE ~Current(g)
  BY <1>2 DEF Drop, routes
<1>3. QED
  BY <1>1, <1>2

-----------------------------------------------------------------------------
LEMMA NextAddressed == TypeOK /\ Addressed /\ [Next]_vars => Addressed'
<1> SUFFICES ASSUME TypeOK, Addressed, [Next]_vars PROVE Addressed'
  OBVIOUS
<1> USE DEF history
<1>1. ASSUME NEW c \in ClientId, Connect(c) PROVE Addressed'
  <2>1. UNCHANGED <<sending, asked, routed>>
    BY <1>1 DEF Connect
  <2>2. /\ pending' \subseteq pending /\ initialize'.internal = initialize.internal
        /\ initialize'.waiters \subseteq initialize.waiters
    BY <1>1 DEF Connect, Register, Others, Fresh, WaitersOnly, Initialize
  <2>3. RoutesAsked'
    BY <2>1, <2>2, AddressedLess
  <2>4. QED
    BY <2>1, <2>3, SendFrom DEF sending, Addressed
<1>2. ASSUME NEW c \in ClientId, ConnectRejected(c) PROVE Addressed'
  <2>1. UNCHANGED <<sending, asked, routed>>
    BY <1>2 DEF ConnectRejected
  <2>2. /\ pending' \subseteq pending /\ initialize'.internal = initialize.internal
        /\ initialize'.waiters \subseteq initialize.waiters
    BY <1>2 DEF ConnectRejected, Prune, Pruned, Fresh, WaitersOnly, Initialize
  <2>3. RoutesAsked'
    BY <2>1, <2>2, AddressedLess
  <2>4. QED
    BY <2>1, <2>3, SendFrom DEF sending, Addressed
<1>3. ASSUME NEW g \in Conn, Poll(g) PROVE Addressed'
  <2>1. UNCHANGED <<asked, routed, pending, initialize, out, job>>
    BY <1>3 DEF Poll, routes
  <2>2. queue' = queue \/ queue' = [queue EXCEPT ![g] = <<>>]
    BY <1>3 DEF Poll
  <2>3. \A h \in Conn : queue'[h] = queue[h] \/ queue'[h] = <<>>
    BY <2>2 DEF TypeOK, SendingOK
  <2>4. \A h \in Conn : \A i \in DOMAIN queue'[h] : queue'[h] = queue[h]
    BY <2>3
  <2>5. RoutesAsked'
    BY <2>1, RoutesFrom DEF Addressed
  <2>6. QED
    BY <2>1, <2>4, <2>5, SendFrom DEF Addressed
<1>4. ASSUME NEW g \in Conn, RouteRequest(g) PROVE Addressed'
  <2>1. UNCHANGED <<sending, routed>> /\ asked \subseteq asked'
    BY <1>4 DEF RouteRequest
  <2>2. /\ initialize'.internal = initialize.internal
        /\ initialize'.waiters \subseteq initialize.waiters
    BY <1>4 DEF RouteRequest, Pruned, Fresh, WaitersOnly, Initialize
  <2>3. \A r \in pending' : r \in pending \/ CallOf(r.iid, r.conn, r.orig) \in asked'
    BY <1>4 DEF RouteRequest, Fresh, RouteOf
  <2>4. RoutesAsked'
    BY <2>1, <2>2, <2>3, RoutesFrom DEF Addressed
  <2>5. QED
    BY <2>1, <2>4, SendFrom DEF sending, Addressed
<1>5. ASSUME NEW g \in Conn, RouteInitialize(g) PROVE Addressed'
  <2>1. UNCHANGED <<pending, queue, job, routed>> /\ asked \subseteq asked'
    BY <1>5 DEF RouteInitialize
  <2>2. CASE UNCHANGED <<initialize, out>>
    <3>1. RoutesAsked'
      BY <2>1, <2>2, RoutesFrom DEF Addressed
    <3>2. QED
      BY <2>1, <2>2, <3>1, SendFrom DEF Addressed
  <2>3. CASE /\ UNCHANGED initialize
             /\ out' = [out EXCEPT ![g] = {To(g, Answer(hand[g].id, initialize.response))}]
             /\ asked' = asked \cup {CallOf(initialize.response, g, hand[g].id)}
    <3>1. RoutesAsked'
      BY <2>1, <2>3, RoutesFrom DEF Addressed
    <3>2. Meant(asked', routed', g, Answer(hand[g].id, initialize.response))
      BY <2>3 DEF Meant, Answer
    <3>3. \A t \in Thread : \A d \in out'[t] :
            d \in out[t] \/ d = To(g, Answer(hand[g].id, initialize.response))
      BY <2>3 DEF TypeOK, SendingOK
    <3>4. \A t \in Thread : \A d \in out'[t] : d \in out[t] \/ Meant(asked', routed', d.to, d.msg)
      BY <2>3, <3>3 DEF To, Meant, Answer
    <3>5. QED
      BY <2>1, <3>1, <3>4, SendFrom DEF Addressed
  <2>4. CASE /\ initialize.internal # 0 /\ UNCHANGED out
             /\ initialize' = WaitersOnly(Waiting(g, hand[g].id))
             /\ asked' = asked \cup {CallOf(initialize.internal, g, hand[g].id)}
    <3>1. initialize'.internal = initialize.internal
      BY <2>4 DEF WaitersOnly, Initialize
    <3>2. \A w \in initialize'.waiters :
            w \in initialize.waiters \/ (w.conn = g /\ w.orig = hand[g].id)
      BY <2>4 DEF WaitersOnly, Initialize, Waiting, Others, RouteOf
    <3>3. \A w \in initialize'.waiters :
            \/ w \in initialize.waiters
            \/ CallOf(initialize'.internal, w.conn, w.orig) \in asked'
      BY <2>4, <3>1, <3>2
    <3>4. RoutesAsked'
      BY <2>1, <2>4, <3>1, <3>3, RoutesFrom DEF Addressed
    <3>5. QED
      BY <2>1, <2>4, <3>4, SendFrom DEF Addressed
  <2>5. CASE /\ initialize.internal = 0 /\ UNCHANGED out
             /\ initialize' = Initialize(nextReq, initialize.response, Waiting(g, hand[g].id))
             /\ asked' = asked \cup {CallOf(nextReq, g, hand[g].id)}
    <3>1. initialize.waiters = {}
      BY <2>5 DEF Addressed, RoutesAsked
    <3>2. initialize'.internal = nextReq /\ nextReq # 0
      BY <2>5 DEF Initialize, TypeOK, RoutesOK
    <3>3. \A w \in initialize'.waiters : w.conn = g /\ w.orig = hand[g].id
      BY <2>5, <3>1 DEF Initialize, Waiting, Others, RouteOf
    <3>4. RoutesAsked'
      BY <2>1, <2>5, <3>2, <3>3, RoutesFrom DEF Addressed
    <3>5. QED
      BY <2>1, <2>5, <3>4, SendFrom DEF Addressed
  <2>6. QED
    BY <1>5, <2>2, <2>3, <2>4, <2>5 DEF RouteInitialize, MustForward
<1>6. ASSUME NEW g \in Conn, RouteResponse(g) PROVE Addressed'
  BY <1>6, AddressedSame DEF RouteResponse
<1>7. ASSUME NEW g \in Conn, Unsend(g) PROVE Addressed'
  <2>1. UNCHANGED <<sending, asked, routed, initialize>> /\ pending' \subseteq pending
    BY <1>7 DEF Unsend
  <2>2. RoutesAsked'
    BY <2>1, AddressedLess
  <2>3. QED
    BY <2>1, <2>2, SendFrom DEF sending, Addressed
<1>8. ASSUME NEW g \in Conn, FailInitialize(g) PROVE Addressed'
  <2>1. UNCHANGED <<queue, job, asked, routed, pending>> /\ initialize'.waiters = {}
    BY <1>8 DEF FailInitialize, Initialize
  <2>2. RoutesAsked'
    BY <2>1, AddressedLess
  <2>3. \A t \in Thread : \A d \in out'[t] : d \in out[t] \/ d \in Failures(g)
    BY <1>8 DEF FailInitialize, TypeOK, SendingOK
  <2>4. \A d \in Failures(g) : d.msg.kind = "error"
    BY DEF Failures, To, ErrorFor
  <2>5. \A t \in Thread : \A d \in out'[t] : d \in out[t] \/ Meant(asked', routed', d.to, d.msg)
    BY <2>3, <2>4 DEF Meant
  <2>6. QED
    BY <2>1, <2>2, <2>5, SendFrom DEF Addressed
<1>9. ASSUME NEW g \in Conn, HangUp(g) PROVE Addressed'
  <2>1. UNCHANGED <<asked, routed, out, job>> /\ queue' = [queue EXCEPT ![g] = <<>>]
    BY <1>9 DEF HangUp
  <2>2. \A h \in Conn : queue'[h] = queue[h] \/ queue'[h] = <<>>
    BY <2>1 DEF TypeOK, SendingOK
  <2>3. \A h \in Conn : \A i \in DOMAIN queue'[h] : queue'[h] = queue[h]
    BY <2>2
  <2>4. RoutesAsked'
    BY <1>9, <2>1, DropLess, AddressedLess DEF HangUp
  <2>5. QED
    BY <2>1, <2>3, <2>4, SendFrom DEF Addressed
<1>10. ASSUME NEW t \in Thread, Lookup(t) PROVE Addressed'
  <2>1. UNCHANGED <<asked, routed, pending, initialize, queue>>
    BY <1>10 DEF Lookup, routes
  <2>2. PICK d \in out[t] :
          /\ out' = [out EXCEPT ![t] = @ \ {d}]
          /\ \/ job' = [job EXCEPT ![t] = JobOf("send", d.to, d.to, d.msg)]
             \/ job' = job
    BY <1>10 DEF Lookup, Target
  <2>3. Meant(asked', routed', d.to, d.msg)
    BY <2>1, MeantStays DEF Addressed, OutRight
  <2>4. \A u \in Thread : \/ job'[u] = job[u]
                          \/ job'[u] = JobOf("send", d.to, d.to, d.msg)
    BY <2>2 DEF TypeOK, SendingOK
  <2>5. \A u \in Thread : \/ job'[u] = job[u]
                          \/ job'[u].target = job'[u].to /\ Meant(asked', routed', job'[u].to, job'[u].msg)
    BY <2>3, <2>4 DEF JobOf, Meant
  <2>6. \A u \in Thread : \A e \in out'[u] : e \in out[u]
    BY <2>2 DEF TypeOK, SendingOK
  <2>7. RoutesAsked'
    BY <2>1, RoutesFrom DEF Addressed
  <2>8. QED
    BY <2>1, <2>5, <2>6, <2>7, SendFrom DEF Addressed
<1>11. ASSUME NEW t \in Thread, TrySend(t) PROVE Addressed'
  <2>1. UNCHANGED <<asked, routed, pending, initialize, out>> /\ job[t].stage = "send"
    BY <1>11 DEF TrySend, routes
  <2>2. job[t].target = job[t].to /\ Meant(asked', routed', job[t].to, job[t].msg)
    BY <2>1, MeantStays DEF Addressed, JobRight
  <2>3. \/ job' = [job EXCEPT ![t] = NoJob]
        \/ job' = [job EXCEPT ![t] = JobOf("evict", job[t].to, job[t].target, job[t].msg)]
    BY <1>11 DEF TrySend
  <2>4. \A u \in Thread : \/ job'[u] = job[u]
                          \/ job'[u].stage = "idle"
                          \/ /\ u = t /\ job'[u].to = job[u].to
                             /\ job'[u].target = job[u].target /\ job'[u].msg = job[u].msg
    BY <2>3 DEF JobOf, NoJob, TypeOK, SendingOK
  <2>5. \/ queue' = queue
        \/ queue' = [queue EXCEPT ![job[t].to] = Append(@, job[t].msg)]
    BY <1>11, <2>2 DEF TrySend
  <2>6. job[t] \in Job /\ \A g \in Conn : queue[g] \in Seq(PanelMsg)
    BY DEF TypeOK, SendingOK
  <2>7. job[t].msg \in PanelMsg
    BY <2>6 DEF Job
  <2>8. \A g \in Conn : \A i \in DOMAIN queue'[g] :
          \/ i \in DOMAIN queue[g] /\ queue[g][i] = queue'[g][i]
          \/ g = job[t].to /\ queue'[g][i] = job[t].msg
    <3>1. CASE queue' = queue
      BY <3>1
    <3>2. CASE queue' = [queue EXCEPT ![job[t].to] = Append(@, job[t].msg)]
      <4>1. SUFFICES ASSUME NEW g \in Conn, NEW i \in DOMAIN queue'[g], g = job[t].to
                     PROVE \/ i \in DOMAIN queue[g] /\ queue[g][i] = queue'[g][i]
                           \/ queue'[g][i] = job[t].msg
        BY <3>2 DEF TypeOK, SendingOK
      <4>2. queue'[g] = Append(queue[g], job[t].msg)
        BY <3>2, <4>1 DEF TypeOK, SendingOK
      <4>3. QED
        BY <2>6, <2>7, <4>1, <4>2
    <3>3. QED
      BY <2>5, <3>1, <3>2
  <2>9. \A g \in Conn : \A i \in DOMAIN queue'[g] :
          \/ i \in DOMAIN queue[g] /\ queue[g][i] = queue'[g][i]
          \/ Meant(asked', routed', g, queue'[g][i])
    BY <2>2, <2>8 DEF Meant
  <2>10. RoutesAsked'
    BY <2>1, RoutesFrom DEF Addressed
  <2>11. QED
    BY <2>1, <2>4, <2>9, <2>10, SendFrom DEF Addressed
<1>12. ASSUME NEW t \in Thread, Evict(t) PROVE Addressed'
  <2>1. UNCHANGED <<asked, routed, out, queue>> /\ job' = [job EXCEPT ![t] = NoJob]
    BY <1>12 DEF Evict
  <2>2. job[t].target \in Conn /\ Drop(job[t].target)
    BY <1>12 DEF Evict, TypeOK, SendingOK, Job
  <2>3. \A u \in Thread : job'[u] = job[u] \/ job'[u].stage = "idle"
    BY <2>1 DEF JobOf, NoJob, TypeOK, SendingOK
  <2>4. RoutesAsked'
    BY <2>1, <2>2, DropLess, AddressedLess
  <2>5. QED
    BY <2>1, <2>3, <2>4, SendFrom DEF Addressed
<1>13. ASSUME NEW i \in Iid, ServerRespond(i) PROVE Addressed'
  <2>1. UNCHANGED <<asked, routed, queue, job>>
    BY <1>13 DEF ServerRespond
  <2>2. /\ pending' \subseteq pending /\ initialize'.internal = initialize.internal
        /\ initialize'.waiters \subseteq initialize.waiters
    BY <1>13 DEF ServerRespond, Fresh, Pruned, WaitersOnly, Initialize
  <2>3. RoutesAsked'
    BY <2>1, <2>2, AddressedLess
  <2>4. \A t \in Thread : \A d \in out'[t] : d \in out[t] \/
          \/ /\ initialize.internal = i
             /\ \E w \in initialize.waiters : d = To(w.conn, Answer(w.orig, i))
          \/ \E r \in pending : r.iid = i /\ d = To(r.conn, Answer(r.orig, i))
    BY <1>13 DEF ServerRespond, Fresh, TypeOK, SendingOK
  <2>5. \A w \in initialize.waiters : initialize.internal = i =>
          Meant(asked', routed', w.conn, Answer(w.orig, i))
    BY <2>1 DEF Addressed, RoutesAsked, Meant, Answer
  <2>6. \A r \in pending : r.iid = i => Meant(asked', routed', r.conn, Answer(r.orig, i))
    BY <2>1 DEF Addressed, RoutesAsked, Meant, Answer
  <2>7. \A t \in Thread : \A d \in out'[t] : d \in out[t] \/ Meant(asked', routed', d.to, d.msg)
    BY <2>4, <2>5, <2>6 DEF To, Meant
  <2>8. QED
    BY <2>1, <2>3, <2>7, SendFrom DEF Addressed
<1>14. ASSUME NEW s \in ServerId, ServerAsk(s) PROVE Addressed'
  <2>1. UNCHANGED <<asked, queue, job>> /\ routed \subseteq routed'
    BY <1>14 DEF ServerAsk
  <2>2. /\ pending' \subseteq pending /\ initialize'.internal = initialize.internal
        /\ initialize'.waiters \subseteq initialize.waiters
    BY <1>14 DEF ServerAsk, Fresh, Pruned, WaitersOnly, Initialize
  <2>3. RoutesAsked'
    BY <2>1, <2>2, AddressedLess
  <2>4. \A t \in Thread : \A d \in out'[t] : d \in out[t] \/
          \E c \in Registered : /\ d = To(clients[c], Ask(nextReq))
                                /\ CallOf(nextReq, clients[c], s) \in routed'
    BY <1>14 DEF ServerAsk, TypeOK, SendingOK
  <2>5. \A c \in Registered : CallOf(nextReq, clients[c], s) \in routed' =>
          Meant(asked', routed', clients[c], Ask(nextReq))
    <3>1. \A c : CallOf(nextReq, clients[c], s).iid = nextReq
                /\ CallOf(nextReq, clients[c], s).conn = clients[c]
      BY DEF CallOf
    <3>2. Ask(nextReq).kind = "ask" /\ Ask(nextReq).id = nextReq
      BY DEF Ask
    <3>3. QED
      BY <3>1, <3>2 DEF Meant
  <2>6. \A t \in Thread : \A d \in out'[t] : d \in out[t] \/ Meant(asked', routed', d.to, d.msg)
    BY <2>4, <2>5 DEF To
  <2>7. QED
    BY <2>1, <2>3, <2>6, SendFrom DEF Addressed
<1>15. ASSUME ServerNotify PROVE Addressed'
  <2>1. UNCHANGED <<asked, routed, queue, job, pending, initialize>>
    BY <1>15 DEF ServerNotify, routes
  <2>2. RoutesAsked'
    BY <2>1, RoutesFrom DEF Addressed
  <2>3. \A t \in Thread : \A d \in out'[t] : d \in out[t] \/ d.msg.kind = "note"
    BY <1>15 DEF ServerNotify, To, Note, TypeOK, SendingOK
  <2>4. \A t \in Thread : \A d \in out'[t] : d \in out[t] \/ Meant(asked', routed', d.to, d.msg)
    BY <2>3 DEF Meant
  <2>5. QED
    BY <2>1, <2>2, <2>4, SendFrom DEF Addressed
<1>16. ASSUME TimePasses PROVE Addressed'
  <2>1. UNCHANGED <<sending, asked, routed>>
    BY <1>16 DEF TimePasses
  <2>2. \A r \in pending' : \E q \in pending : q.iid = r.iid /\ q.conn = r.conn /\ q.orig = r.orig
    BY <1>16 DEF TimePasses, Aged
  <2>3. /\ initialize'.internal = initialize.internal
        /\ \A w \in initialize'.waiters :
             \E q \in initialize.waiters : q.conn = w.conn /\ q.orig = w.orig
    BY <1>16 DEF TimePasses, Aged, WaitersOnly, Initialize
  <2>4. RoutesAsked'
    BY <2>1, <2>2, <2>3, RoutesFrom DEF Addressed
  <2>5. QED
    BY <2>1, <2>4, SendFrom DEF sending, Addressed
\* The other actions leave routes, deliveries and their history alone.
<1>17. ASSUME UNCHANGED <<routes, sending, asked, routed>> PROVE Addressed'
  BY <1>17, AddressedSame DEF routes
<1>18. ASSUME NEW g \in Conn, SendChild(g) \/ ReadNothing(g) \/ SocketEnds(g)
       PROVE  UNCHANGED <<routes, sending, asked, routed>>
  BY <1>18 DEF SendChild, ReadNothing, SocketEnds
<1>19. ASSUME NEW g \in Conn, ReadMessage(g) PROVE UNCHANGED <<routes, sending, asked, routed>>
  BY <1>19 DEF ReadMessage, ReadCall, ReadNote, ReadResponse, ReadOnce
<1>20. ASSUME ReaderStops \/ WriteChild \/ WriterStops \/ UNCHANGED vars
       PROVE  UNCHANGED <<routes, sending, asked, routed>>
  BY <1>20 DEF ReaderStops, WriteChild, WriterStops, vars
<1>21. QED
  BY <1>1, <1>2, <1>3, <1>4, <1>5, <1>6, <1>7, <1>8, <1>9, <1>10, <1>11, <1>12, <1>13, <1>14,
     <1>15, <1>16, <1>17, <1>18, <1>19, <1>20 DEF Next, Handle, Deliver

\* A panel never finds in its queue an answer to a call it did not make under that
\* id, nor an app-server request that was routed to another connection.
THEOREM AlwaysRightPanel == Spec => []RightPanel
<1>1. Init => TypeOK /\ Addressed
  BY InitTypeOK, InitAddressed
<1>2. TypeOK /\ Addressed /\ [Next]_vars => (TypeOK /\ Addressed)'
  BY NextTypeOK, NextAddressed
<1>3. TypeOK /\ Addressed => RightPanel
  BY DEF Addressed
<1>4. QED
  BY <1>1, <1>2, <1>3, PTL DEF Spec
=============================================================================
