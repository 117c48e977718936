----------------------------- MODULE RelayProofs -----------------------------
(***************************************************************************)
(* Proofs about the Browser Use relay, for any number of connections and   *)
(* ids and for all capacities, with expiry and stalled clients; and about  *)
(* the rollout tracker that it starts, for any turns and files.            *)
(***************************************************************************)
EXTENDS MCRelayTracker, FiniteSetTheorems, TLAPS

(* What the constructors of messages, routes and deliveries build. *)

LEMMA MessageOK ==
  ASSUME NEW kind \in {"none", "request", "response", "ask", "answer", "refusal", "local", "note"},
         NEW id \in CallId \cup AskId \cup {0}, NEW i \in Nat, NEW c \in Cid \cup {0}
  PROVE  Message(kind, id, i, c) \in Msg
BY DEF Message, Msg

LEMMA PlainOK == NoMsg \in Msg /\ Note \in Msg /\ \A k \in CallId : Local(k) \in Msg
BY MessageOK DEF NoMsg, Note, Local

LEMMA MessageFields ==
  ASSUME NEW m \in Msg
  PROVE  /\ m.kind \in {"none", "request", "response", "ask", "answer", "refusal", "local", "note"}
         /\ m.id \in CallId \cup AskId \cup {0} /\ m.iid \in Nat /\ m.client \in Cid \cup {0}
BY DEF Msg

LEMMA RouteMade ==
  ASSUME NEW K, NEW i \in Nat, NEW c \in Cid, NEW k \in K
  PROVE  RouteOf(i, c, k) \in Route(K) /\ CallOf(i, c, k) \in Call(K)
BY DEF RouteOf, Route, CallOf, Call

LEMMA RouteFields ==
  ASSUME NEW K, NEW r \in Route(K)
  PROVE  r.iid \in Nat /\ r.client \in Cid /\ r.orig \in K /\ Aged(r) \in Route(K)
BY DEF Route, Aged

LEMMA DeliveryMade ==
  ASSUME NEW c \in Cid \cup {0}, NEW m \in Msg
  PROVE  To(c, m) \in Delivery
BY DEF To, Delivery

LEMMA AppendOK ==
  ASSUME NEW S, NEW q \in Seq(S), NEW x \in S
  PROVE  Append(q, x) \in Seq(S) /\ Len(Append(q, x)) = Len(q) + 1 /\ Len(q) \in Nat
OBVIOUS

LEMMA TailOK ==
  ASSUME NEW S, NEW q \in Seq(S), q # <<>>
  PROVE  /\ Head(q) \in S /\ Tail(q) \in Seq(S)
         /\ Len(Tail(q)) = Len(q) - 1 /\ Len(q) \in Nat \ {0}
OBVIOUS

-----------------------------------------------------------------------------
(* What an action leaves alone keeps its type. *)

LEMMA RoutesFrame == RoutesOK /\ UNCHANGED <<routes, ids>> => RoutesOK'
BY DEF RoutesOK, routes, ids

LEMMA ThreadsFrame == ThreadsOK /\ UNCHANGED thread => ThreadsOK'
BY DEF ThreadsOK, thread

LEMMA ChannelsFrame == ChannelsOK /\ UNCHANGED channel => ChannelsOK'
BY DEF ChannelsOK, channel

LEMMA ChromeFrame == ChromeOK /\ UNCHANGED chrome => ChromeOK'
BY DEF ChromeOK, chrome

LEMMA HistoryFrame == HistoryOK /\ UNCHANGED history => HistoryOK'
BY DEF HistoryOK, history

\* A thread goes on, holding a message or not.
LEMMA HoldingOK ==
  ASSUME ThreadsOK, NEW c \in Cid, NEW m \in Msg,
         NEW l \in {"read", "toChrome", "toClient"}, Holding(c, l, m),
         UNCHANGED <<evicted, over>>
  PROVE  ThreadsOK'
BY DEF ThreadsOK, Holding, Goto

LEMMA IgnoredOK ==
  ASSUME ThreadsOK, NEW c \in Cid, Ignored(c), UNCHANGED <<evicted, over>>
  PROVE  ThreadsOK'
BY DEF ThreadsOK, Ignored, Goto

\* The routes that prune_pending and remove_client leave are routes.
LEMMA RemoveOK ==
  ASSUME RoutesOK, NEW c \in Cid, RemoveClient(c), UNCHANGED ids
  PROVE  RoutesOK'
BY DEF RoutesOK, RemoveClient, Staying, Others, ids

LEMMA FreshOK ==
  ASSUME RoutesOK
  PROVE  Fresh(pendingChrome) \subseteq Route(CallId) /\ Fresh(pendingClients) \subseteq Route(AskId)
BY DEF RoutesOK, Fresh

LEMMA UsedOK ==
  ASSUME HistoryOK, NEW c \in Cid, NEW x \in CallId \cup AskId \cup {0}, Frame(c, x)
  PROVE  used' \in [Cid -> SUBSET (CallId \cup AskId \cup {0})]
BY DEF HistoryOK, Frame

-----------------------------------------------------------------------------
LEMMA InitTypeOK == Init => TypeOK
<1> SUFFICES ASSUME Init PROVE TypeOK
  OBVIOUS
<1> USE DEF Init
<1>1. RoutesOK /\ ChromeOK
  BY DEF RoutesOK, ChromeOK
<1>2. ThreadsOK
  BY PlainOK DEF ThreadsOK
<1>3. ChannelsOK
  BY RelayAssumption DEF ChannelsOK
<1>4. HistoryOK
  BY DEF HistoryOK
<1>5. QED
  BY <1>1, <1>2, <1>3, <1>4 DEF TypeOK

LEMMA NextTypeOK == TypeOK /\ [Next]_vars => TypeOK'
<1> SUFFICES ASSUME TypeOK, [Next]_vars PROVE TypeOK'
  OBVIOUS
<1>0. RoutesOK /\ ThreadsOK /\ ChannelsOK /\ ChromeOK /\ HistoryOK
  BY DEF TypeOK
<1> USE DEF TypeOK
\* Steps of a connection's thread that move nothing but the thread.
<1>1. ASSUME NEW c \in Cid, Accept(c) \/ FirstFrameFails(c) \/ ReaderEnds(c) PROVE TypeOK'
  <2>1. ThreadsOK'
    BY <1>0, <1>1 DEF Accept, FirstFrameFails, ReaderEnds, ThreadsOK, Goto
  <2>2. UNCHANGED <<routes, ids, channel, chrome, history>>
    BY <1>1 DEF Accept, FirstFrameFails, ReaderEnds
  <2>3. QED
    BY <1>0, <2>1, <2>2, RoutesFrame, ChannelsFrame, ChromeFrame, HistoryFrame
<1>2. ASSUME NEW c \in Cid, Register(c) PROVE TypeOK'
  <2>1. RoutesOK'
    BY <1>0, <1>2 DEF Register, RoutesOK, FirstChromeId
  <2>2. ThreadsOK'
    BY <1>0, <1>2 DEF Register, ThreadsOK, Goto, RoutesOK
  <2>3. ChannelsOK'
    BY <1>0, <1>2 DEF Register, ChannelsOK
  <2>4. ChromeOK' /\ HistoryOK'
    BY <1>0, <1>2, ChromeFrame, HistoryFrame DEF Register
  <2>5. QED
    BY <2>1, <2>2, <2>3, <2>4
<1>3. ASSUME NEW c \in Cid, CloseEvicted(c) PROVE TypeOK'
  <2>1. ThreadsOK'
    BY <1>0, <1>3 DEF CloseEvicted, ThreadsOK, Goto, ShutDown
  <2>2. UNCHANGED <<routes, ids, channel, chrome, history>>
    BY <1>3 DEF CloseEvicted
  <2>3. QED
    BY <1>0, <2>1, <2>2, RoutesFrame, ChannelsFrame, ChromeFrame, HistoryFrame
<1>4. ASSUME NEW c \in Cid, PeerCloses(c) PROVE TypeOK'
  <2>1. ThreadsOK'
    BY <1>0, <1>4 DEF PeerCloses, ThreadsOK
  <2>2. UNCHANGED <<routes, ids, channel, chrome, history>>
    BY <1>4 DEF PeerCloses
  <2>3. QED
    BY <1>0, <2>1, <2>2, RoutesFrame, ChannelsFrame, ChromeFrame, HistoryFrame
<1>5. ASSUME NEW c \in Cid, Remove(c) PROVE TypeOK'
  <2>1. RoutesOK'
    BY <1>0, <1>5, RemoveOK DEF Remove
  <2>2. ThreadsOK'
    BY <1>0, <1>5 DEF Remove, ThreadsOK, Goto
  <2>3. UNCHANGED <<channel, chrome, history>>
    BY <1>5 DEF Remove
  <2>4. QED
    BY <1>0, <2>1, <2>2, <2>3, ChannelsFrame, ChromeFrame, HistoryFrame
<1>6. ASSUME NEW c \in Cid, ReadNote(c) PROVE TypeOK'
  <2>1. ThreadsOK'
    BY <1>0, <1>6, PlainOK, HoldingOK, IgnoredOK DEF ReadNote
  <2>2. HistoryOK'
    BY <1>0, <1>6, UsedOK DEF ReadNote, HistoryOK
  <2>3. UNCHANGED <<routes, ids, channel, chrome>>
    BY <1>6 DEF ReadNote
  <2>4. QED
    BY <1>0, <2>1, <2>2, <2>3, RoutesFrame, ChannelsFrame, ChromeFrame
<1>7. ASSUME NEW c \in Cid, ReadStray(c) PROVE TypeOK'
  <2>1. ThreadsOK'
    BY <1>0, <1>7, IgnoredOK DEF ReadStray
  <2>2. UNCHANGED <<routes, ids, channel, chrome, history>>
    BY <1>7 DEF ReadStray
  <2>3. QED
    BY <1>0, <2>1, <2>2, RoutesFrame, ChannelsFrame, ChromeFrame, HistoryFrame
<1>8. ASSUME NEW c \in Cid, NEW k \in CallId, ReadPing(c, k) PROVE TypeOK'
  <2>1. ThreadsOK'
    BY <1>0, <1>8, PlainOK, HoldingOK, IgnoredOK DEF ReadPing
  <2>2. HistoryOK'
    BY <1>0, <1>8, UsedOK DEF ReadPing, HistoryOK
  <2>3. UNCHANGED <<routes, ids, channel, chrome>>
    BY <1>8 DEF ReadPing
  <2>4. QED
    BY <1>0, <2>1, <2>2, <2>3, RoutesFrame, ChannelsFrame, ChromeFrame
<1>9. ASSUME NEW c \in Cid, NEW k \in CallId, ReadRequest(c, k) PROVE TypeOK'
  <2>0. /\ Message("request", 0, nextChrome, c) \in Msg
        /\ RouteOf(nextChrome, c, k) \in Route(CallId) /\ CallOf(nextChrome, c, k) \in Call(CallId)
    BY <1>0, MessageOK, RouteMade DEF RoutesOK
  <2>1. ThreadsOK'
    BY <1>0, <1>9, <2>0, PlainOK, HoldingOK, IgnoredOK DEF ReadRequest
  <2>2. HistoryOK'
    BY <1>0, <1>9, <2>0, UsedOK DEF ReadRequest, HistoryOK
  <2>3. RoutesOK'
    BY <1>0, <1>9, <2>0, FreshOK DEF ReadRequest, RoutesOK
  <2>4. UNCHANGED <<channel, chrome>>
    BY <1>9 DEF ReadRequest
  <2>5. QED
    BY <1>0, <2>1, <2>2, <2>3, <2>4, ChannelsFrame, ChromeFrame
<1>10. ASSUME NEW c \in Cid, ReadResponse(c) PROVE TypeOK'
  <2>1. PICK q \in routed :
          /\ Frame(c, q.orig)
          /\ pendingChrome' = Fresh(pendingChrome)
          /\ \/ /\ Ignored(c)
                /\ pendingClients' = Fresh(pendingClients)
             \/ \E r \in Owned(c, q.iid) :
                  /\ Holding(c, "toChrome", Message("answer", r.orig, r.iid, c))
                  /\ pendingClients' = Fresh(pendingClients) \ {r}
          /\ UNCHANGED <<clients, ids, evicted, over, channel, chrome, asked, routed, answers>>
    BY <1>10 DEF ReadResponse
  <2>2. q.orig \in AskId
    BY <1>0 DEF HistoryOK, Call
  <2>3. \A r \in Owned(c, q.iid) : Message("answer", r.orig, r.iid, c) \in Msg
    BY <1>0, MessageOK, FreshOK, RouteFields DEF Owned
  <2>4. ThreadsOK'
    BY <1>0, <2>1, <2>3, HoldingOK, IgnoredOK
  <2>5. HistoryOK'
    BY <1>0, <2>1, <2>2, UsedOK DEF HistoryOK
  <2>6. RoutesOK'
    BY <1>0, <2>1, FreshOK DEF RoutesOK, ids
  <2>7. QED
    BY <1>0, <2>1, <2>4, <2>5, <2>6, ChannelsFrame, ChromeFrame
<1>11. ASSUME NEW c \in Cid, SendChrome(c) PROVE TypeOK'
  <2>1. ThreadsOK'
    BY <1>0, <1>11, PlainOK, HoldingOK DEF SendChrome
  <2>2. hand[c] \in Msg /\ chromeOut \in Seq(Msg)
    BY <1>0 DEF ThreadsOK, ChannelsOK
  <2>3. ChannelsOK'
    BY <1>0, <1>11, <2>2, AppendOK, RelayAssumption DEF SendChrome, ChannelsOK
  <2>4. UNCHANGED <<routes, ids, chrome, history>>
    BY <1>11 DEF SendChrome
  <2>5. QED
    BY <1>0, <2>1, <2>3, <2>4, RoutesFrame, ChromeFrame, HistoryFrame
<1>12. ASSUME NEW c \in Cid, SendClient(c) PROVE TypeOK'
  <2>1. ThreadsOK'
    BY <1>0, <1>12, PlainOK, HoldingOK DEF SendClient
  <2>2. hand[c] \in Msg /\ queue[c] \in Seq(Msg)
    BY <1>0 DEF ThreadsOK, ChannelsOK
  <2>3. ChannelsOK'
    <3>1. CASE HasRoom(c) /\ queue' = [queue EXCEPT ![c] = Append(@, hand[c])]
      BY <1>0, <1>12, <2>2, <3>1, AppendOK, RelayAssumption DEF SendClient, ChannelsOK, HasRoom
    <3>2. CASE UNCHANGED queue
      BY <1>0, <1>12, <3>2 DEF SendClient, ChannelsOK
    <3>3. QED
      BY <1>12, <3>1, <3>2 DEF SendClient
  <2>4. RoutesOK'
    BY <1>0, <1>12, RoutesFrame, RemoveOK DEF SendClient
  <2>5. UNCHANGED <<chrome, history>>
    BY <1>12 DEF SendClient
  <2>6. QED
    BY <1>0, <2>1, <2>3, <2>4, <2>5, ChromeFrame, HistoryFrame
<1>13. ASSUME NEW c \in Cid, Write(c) PROVE TypeOK'
  <2>1. queue[c] \in Seq(Msg) /\ queue[c] # <<>> /\ queue' = [queue EXCEPT ![c] = Tail(@)]
    BY <1>0, <1>13 DEF Write, ChannelsOK
  <2>2. Tail(queue[c]) \in Seq(Msg) /\ Len(Tail(queue[c])) <= Len(queue[c])
    BY <2>1, TailOK
  <2>3. ChannelsOK'
    BY <1>0, <1>13, <2>1, <2>2, RelayAssumption DEF Write, ChannelsOK
  <2>4. HistoryOK'
    BY <1>0, <1>13 DEF Write, HistoryOK
  <2>5. UNCHANGED <<routes, ids, thread, chrome>>
    BY <1>13 DEF Write
  <2>6. QED
    BY <1>0, <2>3, <2>4, <2>5, RoutesFrame, ThreadsFrame, ChromeFrame
<1>14. ASSUME NEW c \in Cid, WriteFails(c) \/ WriterEnds(c) PROVE TypeOK'
  <2>1. ChannelsOK'
    <3>1. \A d \in Cid : queue'[d] = queue[d] \/ queue'[d] = <<>>
      BY <1>0, <1>14 DEF WriteFails, WriterEnds, ChannelsOK
    <3>2. DOMAIN queue' = Cid /\ queue' = [d \in Cid |-> queue'[d]]
      BY <1>0, <1>14 DEF WriteFails, WriterEnds, ChannelsOK
    <3>3. \A d \in Cid : queue'[d] \in Seq(Msg) /\ Len(queue'[d]) <= ClientQueue
      <4>1. \A q : q = <<>> => q \in Seq(Msg) /\ Len(q) <= ClientQueue
        BY RelayAssumption
      <4>2. QED
        BY <1>0, <3>1, <4>1 DEF ChannelsOK
    <3>4. queue' \in [Cid -> Seq(Msg)]
      BY <3>2, <3>3
    <3>5. writer' \in [Cid -> {"none", "up", "down"}] /\ UNCHANGED <<chromeOut, disp>>
      BY <1>0, <1>14 DEF WriteFails, WriterEnds, ChannelsOK
    <3>6. QED
      BY <1>0, <3>3, <3>4, <3>5 DEF ChannelsOK
  <2>2. UNCHANGED <<routes, ids, thread, chrome, history>>
    BY <1>14 DEF WriteFails, WriterEnds
  <2>3. QED
    BY <1>0, <2>1, <2>2, RoutesFrame, ThreadsFrame, ChromeFrame, HistoryFrame
<1>15. ASSUME ChromeReads PROVE TypeOK'
  <2>1. chromeOut \in Seq(Msg) /\ chromeOut # <<>> /\ chromeOut' = Tail(chromeOut)
    BY <1>0, <1>15 DEF ChromeReads, ChannelsOK
  <2>2. ChannelsOK'
    BY <1>0, <1>15, <2>1, TailOK, RelayAssumption DEF ChromeReads, ChannelsOK
  <2>3. Head(chromeOut).iid \in Nat /\ Head(chromeOut).client \in Cid \cup {0}
    BY <2>1, TailOK, MessageFields
  <2>4. Work(Head(chromeOut).iid, Head(chromeOut).client) \in [iid : Nat, client : Cid \cup {0}]
    BY <2>3 DEF Work
  <2>5. ChromeOK'
    BY <1>0, <1>15, <2>4 DEF ChromeReads, ChromeOK
  <2>6. UNCHANGED <<routes, ids, thread, history>>
    BY <1>15 DEF ChromeReads
  <2>7. QED
    BY <1>0, <2>2, <2>5, <2>6, RoutesFrame, ThreadsFrame, HistoryFrame
<1>16. ASSUME NEW i \in Iid, ChromeResponds(i) PROVE TypeOK'
  <2>1. RoutesOK'
    BY <1>0, <1>16, FreshOK DEF ChromeResponds, RoutesOK, ids
  <2>2. \A w \in inChrome : \A r \in Fresh(pendingChrome) :
          To(r.client, Message("response", r.orig, i, w.client)) \in Delivery
    <3>1. \A r \in Fresh(pendingChrome) : r.client \in Cid /\ r.orig \in CallId
      BY <1>0, FreshOK, RouteFields
    <3>2. \A w \in inChrome : w.client \in Cid \cup {0}
      BY <1>0 DEF ChromeOK
    <3>3. i \in Nat
      BY DEF Iid
    <3>4. \A w \in inChrome : \A r \in Fresh(pendingChrome) :
            Message("response", r.orig, i, w.client) \in Msg
      BY <3>1, <3>2, <3>3, MessageOK
    <3>5. QED
      BY <3>1, <3>4, DeliveryMade
  <2>3. disp' \subseteq Delivery
    BY <1>16, <2>2 DEF ChromeResponds
  <2>4. ChannelsOK' /\ ChromeOK'
    BY <1>0, <1>16, <2>3 DEF ChromeResponds, ChannelsOK, ChromeOK
  <2>5. UNCHANGED <<thread, history>>
    BY <1>16 DEF ChromeResponds
  <2>6. QED
    BY <1>0, <2>1, <2>4, <2>5, ThreadsFrame, HistoryFrame
<1>17. ASSUME NEW s \in AskId, ChromeAsks(s) PROVE TypeOK'
  <2>1. \A c \in clients : /\ To(c, Message("ask", s, nextReq, c)) \in Delivery
                           /\ RouteOf(nextReq, c, s) \in Route(AskId)
                           /\ CallOf(nextReq, c, s) \in Call(AskId)
    BY <1>0, MessageOK, DeliveryMade, RouteMade DEF RoutesOK
  <2>2. To(0, Message("refusal", s, 0, 0)) \in Delivery
    BY MessageOK, DeliveryMade
  <2>3. RoutesOK'
    BY <1>0, <1>17, <2>1, FreshOK DEF ChromeAsks, RoutesOK
  <2>4. disp' \subseteq Delivery
    BY <1>17, <2>1, <2>2 DEF ChromeAsks
  <2>5. ChannelsOK' /\ ChromeOK'
    BY <1>0, <1>17, <2>4 DEF ChromeAsks, ChannelsOK, ChromeOK
  <2>6. HistoryOK'
    BY <1>0, <1>17, <2>1 DEF ChromeAsks, HistoryOK
  <2>7. UNCHANGED thread
    BY <1>17 DEF ChromeAsks
  <2>8. QED
    BY <1>0, <2>3, <2>5, <2>6, <2>7, ThreadsFrame
<1>18. ASSUME ChromeNotifies PROVE TypeOK'
  <2>1. \A c \in clients : To(c, Note) \in Delivery
    BY <1>0, PlainOK, DeliveryMade DEF RoutesOK
  <2>2. ChannelsOK'
    BY <1>0, <1>18, <2>1 DEF ChromeNotifies, ChannelsOK
  <2>3. UNCHANGED <<routes, ids, thread, chrome, history>>
    BY <1>18 DEF ChromeNotifies
  <2>4. QED
    BY <1>0, <2>2, <2>3, RoutesFrame, ThreadsFrame, ChromeFrame, HistoryFrame
<1>19. ASSUME Dispatch PROVE TypeOK'
  <2>1. PICK d \in disp :
          /\ disp' = disp \ {d}
          /\ \/ /\ d.to = 0 /\ Len(chromeOut) < OutputQueue
                /\ chromeOut' = Append(chromeOut, d.msg)
                /\ UNCHANGED <<routes, queue>>
             \/ /\ d.to # 0 /\ writer[d.to] = "up" /\ HasRoom(d.to)
                /\ queue' = [queue EXCEPT ![d.to] = Append(@, d.msg)]
                /\ UNCHANGED <<routes, chromeOut>>
             \/ /\ d.to # 0 /\ writer[d.to] = "down"
                /\ RemoveClient(d.to)
                /\ UNCHANGED <<queue, chromeOut>>
          /\ UNCHANGED <<ids, thread, writer, chrome, history>>
    BY <1>19 DEF Dispatch
  <2>2. d.msg \in Msg /\ d.to \in Cid \cup {0} /\ (d.to # 0 => d.to \in Cid)
    BY <1>0 DEF ChannelsOK, Delivery
  <2>3. RoutesOK'
    BY <1>0, <2>1, <2>2, RoutesFrame, RemoveOK
  <2>4. ChannelsOK'
    <3>1. chromeOut \in Seq(Msg) /\ \A c \in Cid : queue[c] \in Seq(Msg)
      BY <1>0 DEF ChannelsOK
    <3>2. CASE chromeOut' = Append(chromeOut, d.msg) /\ Len(chromeOut) < OutputQueue /\ UNCHANGED queue
      BY <1>0, <2>1, <2>2, <3>1, <3>2, AppendOK, RelayAssumption DEF ChannelsOK
    <3>3. CASE /\ d.to \in Cid /\ HasRoom(d.to)
               /\ queue' = [queue EXCEPT ![d.to] = Append(@, d.msg)] /\ UNCHANGED chromeOut
      BY <1>0, <2>1, <2>2, <3>1, <3>3, AppendOK, RelayAssumption DEF ChannelsOK, HasRoom
    <3>4. CASE UNCHANGED <<queue, chromeOut>>
      BY <1>0, <2>1, <3>4 DEF ChannelsOK
    <3>5. QED
      BY <2>1, <2>2, <3>2, <3>3, <3>4
  <2>5. QED
    BY <1>0, <2>1, <2>3, <2>4, ThreadsFrame, ChromeFrame, HistoryFrame
<1>20. ASSUME TimePasses PROVE TypeOK'
  <2>1. RoutesOK'
    BY <1>0, <1>20, RouteFields DEF TimePasses, RoutesOK, ids
  <2>2. UNCHANGED <<thread, channel, chrome, history>>
    BY <1>20 DEF TimePasses
  <2>3. QED
    BY <1>0, <2>1, <2>2, ThreadsFrame, ChannelsFrame, ChromeFrame, HistoryFrame
<1>21. CASE UNCHANGED vars
  BY <1>0, <1>21, RoutesFrame, ThreadsFrame, ChannelsFrame, ChromeFrame, HistoryFrame DEF vars
<1>22. QED
  BY <1>1, <1>2, <1>3, <1>4, <1>5, <1>6, <1>7, <1>8, <1>9, <1>10, <1>11, <1>12, <1>13, <1>14,
     <1>15, <1>16, <1>17, <1>18, <1>19, <1>20, <1>21 DEF Next, ReadFrame, Send

\* The relay's state stays well typed and its channels within their capacities.
THEOREM TypeCorrect == Spec => []TypeOK
BY InitTypeOK, NextTypeOK, PTL DEF Spec

-----------------------------------------------------------------------------
(* Who is registered, and whose routes there are. *)

\* OnlyCurrent without its cardinality.
Seated ==
  /\ \A a, b \in clients : a = b
  /\ \A r \in pendingChrome \cup pendingClients : r.client \in clients

LEMMA SeatedIsCurrent == Seated => OnlyCurrent
<1> SUFFICES ASSUME Seated PROVE OnlyCurrent
  OBVIOUS
<1>1. clients = {} \/ \E a \in clients : clients = {a}
  BY DEF Seated
<1>2. Cardinality(clients) <= 1
  BY <1>1, FS_EmptySet, FS_Singleton
<1>3. QED
  BY <1>2 DEF Seated, OnlyCurrent

\* Routes may go, or grow old, or be made for the registered client.
LEMMA SeatedFrame ==
  ASSUME Seated, UNCHANGED clients,
         \A r \in (pendingChrome \cup pendingClients)' :
            \/ r.client \in clients
            \/ \E q \in pendingChrome \cup pendingClients : q.client = r.client
  PROVE  Seated'
BY DEF Seated

LEMMA SeatedSame == Seated /\ UNCHANGED routes => Seated'
BY DEF Seated, routes

LEMMA SeatedRemove ==
  ASSUME Seated, NEW c \in Cid, RemoveClient(c)
  PROVE  Seated'
BY DEF Seated, RemoveClient, Staying, Others

LEMMA NextSeated == TypeOK /\ Seated /\ [Next]_vars => Seated'
<1> SUFFICES ASSUME TypeOK, Seated, [Next]_vars PROVE Seated'
  OBVIOUS
<1>1. ASSUME NEW c \in Cid, Register(c) PROVE Seated'
  BY <1>1 DEF Register, Seated
<1>2. ASSUME NEW c \in Cid, Remove(c) PROVE Seated'
  BY <1>2, SeatedRemove DEF Remove
<1>3. ASSUME NEW c \in Cid, NEW k \in CallId, ReadRequest(c, k) PROVE Seated'
  <2>1. \A r \in (pendingChrome \cup pendingClients)' :
          \/ r \in pendingChrome \cup pendingClients
          \/ r = RouteOf(nextChrome, c, k) /\ c \in clients
    BY <1>3 DEF ReadRequest, Fresh, IsRegistered
  <2>2. QED
    BY <1>3, <2>1, SeatedFrame DEF ReadRequest, RouteOf
<1>4. ASSUME NEW c \in Cid, ReadResponse(c) PROVE Seated'
  <2>1. \A r \in (pendingChrome \cup pendingClients)' : r \in pendingChrome \cup pendingClients
    BY <1>4 DEF ReadResponse, Fresh
  <2>2. QED
    BY <1>4, <2>1, SeatedFrame DEF ReadResponse
<1>5. ASSUME NEW c \in Cid, SendClient(c) PROVE Seated'
  BY <1>5, SeatedSame, SeatedRemove DEF SendClient
<1>6. ASSUME NEW i \in Iid, ChromeResponds(i) PROVE Seated'
  <2>1. \A r \in (pendingChrome \cup pendingClients)' : r \in pendingChrome \cup pendingClients
    BY <1>6 DEF ChromeResponds, Fresh
  <2>2. QED
    BY <1>6, <2>1, SeatedFrame DEF ChromeResponds
<1>7. ASSUME NEW s \in AskId, ChromeAsks(s) PROVE Seated'
  <2>1. \A r \in (pendingChrome \cup pendingClients)' :
          \/ r \in pendingChrome \cup pendingClients
          \/ \E c \in clients : r = RouteOf(nextReq, c, s)
    BY <1>7 DEF ChromeAsks, Fresh
  <2>2. QED
    BY <1>7, <2>1, SeatedFrame DEF ChromeAsks, RouteOf
<1>8. ASSUME Dispatch PROVE Seated'
  <2>1. UNCHANGED routes \/ \E d \in disp : d.to # 0 /\ RemoveClient(d.to)
    BY <1>8 DEF Dispatch
  <2>2. \A d \in disp : d.to # 0 => d.to \in Cid
    BY DEF TypeOK, ChannelsOK, Delivery
  <2>3. QED
    BY <2>1, <2>2, SeatedSame, SeatedRemove
<1>9. ASSUME TimePasses PROVE Seated'
  BY <1>9, SeatedFrame DEF TimePasses, Aged
\* The other actions leave the registry and the routes alone.
<1>10. ASSUME NEW c \in Cid,
              \/ Accept(c) \/ FirstFrameFails(c) \/ CloseEvicted(c) \/ PeerCloses(c)
              \/ ReaderEnds(c) \/ ReadNote(c) \/ ReadStray(c) \/ (\E k \in CallId : ReadPing(c, k))
              \/ SendChrome(c) \/ Write(c) \/ WriteFails(c) \/ WriterEnds(c)
       PROVE  UNCHANGED routes
  BY <1>10 DEF Accept, FirstFrameFails, CloseEvicted, PeerCloses, ReaderEnds, ReadNote, ReadStray,
               ReadPing, SendChrome, Write, WriteFails, WriterEnds
<1>11. ASSUME ChromeReads \/ ChromeNotifies \/ UNCHANGED vars PROVE UNCHANGED routes
  BY <1>11 DEF ChromeReads, ChromeNotifies, vars
<1>12. QED
  BY <1>1, <1>2, <1>3, <1>4, <1>5, <1>6, <1>7, <1>8, <1>9, <1>10, <1>11, SeatedSame
  DEF Next, ReadFrame, Send

\* At most one client is registered and every route is its own, however clients
\* evict each other, fail and leave: no late frame and no late failure of another
\* leaves a route behind (register_client, remove_client, route_client_request).
THEOREM AlwaysOnlyCurrent == Spec => []OnlyCurrent
<1>1. Init => TypeOK /\ Seated
  BY InitTypeOK DEF Init, Seated
<1>2. TypeOK /\ Seated /\ [Next]_vars => (TypeOK /\ Seated)'
  BY NextTypeOK, NextSeated
<1>3. QED
  BY <1>1, <1>2, SeatedIsCurrent, PTL DEF Spec

-----------------------------------------------------------------------------
\* What a step that unseats a client does.
Unseating ==
  \A c \in clients \ clients' :
    (\E d \in Cid : pc[d] = "waiting" /\ pc'[d] = "evicting")
    \/ pc[c] = "removing" \/ writer[c] = "down"

LEMMA NextUnseating == TypeOK /\ [Next]_vars => Unseating
<1> SUFFICES ASSUME TypeOK, [Next]_vars, NEW c \in clients, c \notin clients'
             PROVE  \/ \E d \in Cid : pc[d] = "waiting" /\ pc'[d] = "evicting"
                    \/ pc[c] = "removing" \/ writer[c] = "down"
  BY DEF Unseating
<1>1. ASSUME NEW d \in Cid, Register(d) PROVE pc[d] = "waiting" /\ pc'[d] = "evicting"
  BY <1>1 DEF Register, Goto, TypeOK, ThreadsOK
<1>2. ASSUME NEW d \in Cid, RemoveClient(d) PROVE c = d
  BY <1>2 DEF RemoveClient, Staying
<1>3. ASSUME NEW d \in Cid, Remove(d) PROVE pc[c] = "removing"
  BY <1>2, <1>3 DEF Remove
<1>4. ASSUME NEW d \in Cid, SendClient(d) PROVE writer[c] = "down"
  BY <1>2, <1>4 DEF SendClient, routes
<1>5. ASSUME Dispatch PROVE writer[c] = "down"
  <2>1. PICK d \in disp : d.to # 0 /\ writer[d.to] = "down" /\ RemoveClient(d.to)
    BY <1>5 DEF Dispatch, routes
  <2>2. d.to \in Cid
    BY <2>1 DEF TypeOK, ChannelsOK, Delivery
  <2>3. QED
    BY <1>2, <2>1, <2>2
\* The other actions leave the registry alone.
<1>6. ASSUME NEW d \in Cid,
             \/ Accept(d) \/ FirstFrameFails(d) \/ CloseEvicted(d) \/ PeerCloses(d)
             \/ ReaderEnds(d) \/ ReadFrame(d)
             \/ SendChrome(d) \/ Write(d) \/ WriteFails(d) \/ WriterEnds(d)
      PROVE  UNCHANGED clients
  BY <1>6 DEF Accept, FirstFrameFails, CloseEvicted, PeerCloses, ReaderEnds, ReadFrame, ReadNote,
              ReadStray, ReadPing, ReadRequest, ReadResponse, SendChrome, Write, WriteFails,
              WriterEnds, routes
<1>7. ASSUME \/ ChromeReads \/ ChromeNotifies \/ TimePasses \/ UNCHANGED vars
             \/ \E i \in Iid : ChromeResponds(i)
             \/ \E s \in AskId : ChromeAsks(s)
      PROVE  UNCHANGED clients
  BY <1>7 DEF ChromeReads, ChromeNotifies, TimePasses, ChromeResponds, ChromeAsks, vars, routes
<1>8. QED
  BY <1>1, <1>3, <1>4, <1>5, <1>6, <1>7 DEF Next, Send

\* The registered client is unseated only by a newer one, by the end of its own
\* thread or by its own dead writer: remove_client of an evicted client's thread,
\* or of a failed send to it, never hits its successor.
THEOREM NeverUnseatedByOthers == Spec => NeverUnseated
<1>1. TypeOK /\ [Next]_vars => [Unseating]_vars
  BY NextUnseating
<1>2. QED
  BY <1>1, TypeCorrect, PTL DEF Spec, NeverUnseated, Unseating

-----------------------------------------------------------------------------
(* Whose a message is. *)

\* Positions of a channel after a send and after a receive.
LEMMA AppendAt ==
  ASSUME NEW q \in Seq(Msg), NEW m \in Msg
  PROVE  \A i \in DOMAIN Append(q, m) :
           \/ i \in DOMAIN q /\ Append(q, m)[i] = q[i]
           \/ i = Len(q) + 1 /\ Append(q, m)[i] = m
OBVIOUS

LEMMA TailAt ==
  ASSUME NEW q \in Seq(Msg), q # <<>>
  PROVE  /\ 1 \in DOMAIN q /\ Head(q) = q[1]
         /\ \A i \in DOMAIN Tail(q) : i + 1 \in DOMAIN q /\ Tail(q)[i] = q[i + 1] /\ i \in Nat
OBVIOUS

AskedBy(A, i, c) == \E a \in A : a.iid = i /\ a.client = c

\* A routed id stands for one call, and every route remembers the call it was made for.
Remembered ==
  /\ \A a \in asked : a.iid < nextChrome
  /\ \A a, b \in asked : a.iid = b.iid => a = b
  /\ \A r \in pendingChrome : CallOf(r.iid, r.client, r.orig) \in asked
  /\ \A r \in pendingClients : CallOf(r.iid, r.client, r.orig) \in routed

\* A request names its asker, an answer to Chrome the client Chrome's request was routed to.
Owning(A, R, m) ==
  /\ m.kind = "request" => AskedBy(A, m.iid, m.client)
  /\ m.kind = "answer" => CallOf(m.iid, m.client, m.id) \in R

\* MeantFor as of a history: A are the calls made, R the requests routed.
Meant(A, R, c, m) ==
  /\ m.kind = "response" => m.client = c /\ CallOf(m.iid, c, m.id) \in A
  /\ m.kind = "ask" => CallOf(m.iid, c, m.id) \in R

\* On the way to Chrome, at each of its stations.
Held(A, R, m) == Owning(A, R, m) /\ m.kind \notin {"response", "ask"}
HandsOwn == \A c \in Cid : Held(asked, routed, hand[c])
OutOwn   == \A i \in DOMAIN chromeOut : Owning(asked, routed, chromeOut[i])
WorkOwn  == \A w \in inChrome : AskedBy(asked, w.iid, w.client)
DispOwn  == \A d \in disp : Owning(asked, routed, d.msg)
Outbound == HandsOwn /\ OutOwn /\ WorkOwn /\ DispOwn

\* On the way to a client: RightClient, as of the history.
Inbound ==
  /\ \A c \in Cid : \A i \in DOMAIN queue[c] : Meant(asked, routed, c, queue[c][i])
  /\ \A d \in disp : d.to # 0 => Meant(asked, routed, d.to, d.msg)

\* RightClient is the end of the way: a response was built from a route, and names
\* as its asker the one of the request that Chrome took.
Addressed == Remembered /\ Outbound /\ Inbound

LEMMA InboundIsRight == Inbound => RightClient
BY DEF Inbound, RightClient, Meant, MeantFor

LEMMA InitAddressed == Init => Addressed
BY DEF Init, Addressed, Remembered, Outbound, HandsOwn, OutOwn, WorkOwn, DispOwn, Inbound, Held,
       Owning, NoMsg, Message

\* Nothing a message relies on is forgotten.
LEMMA HistoryGrows ==
  ASSUME asked \subseteq asked', routed \subseteq routed'
  PROVE  /\ \A m : Owning(asked, routed, m) => Owning(asked', routed', m)
         /\ \A m : Held(asked, routed, m) => Held(asked', routed', m)
         /\ \A c, m : Meant(asked, routed, c, m) => Meant(asked', routed', c, m)
         /\ \A i, c : AskedBy(asked, i, c) => AskedBy(asked', i, c)
BY DEF Owning, Held, Meant, AskedBy

\* Messages that are nobody's.
LEMMA PlainHeld ==
  \A A, R : Held(A, R, NoMsg) /\ Held(A, R, Note) /\ \A k : Held(A, R, Local(k))
BY DEF Held, Owning, NoMsg, Note, Local, Message

\* Routes may go or grow old.
LEMMA RememberedFrame ==
  ASSUME Remembered, UNCHANGED <<asked, nextChrome>>, routed \subseteq routed',
         \A r \in pendingChrome' : \E q \in pendingChrome :
            q.iid = r.iid /\ q.client = r.client /\ q.orig = r.orig,
         \A r \in pendingClients' :
            \/ CallOf(r.iid, r.client, r.orig) \in routed'
            \/ \E q \in pendingClients : q.iid = r.iid /\ q.client = r.client /\ q.orig = r.orig
  PROVE  Remembered'
BY DEF Remembered, CallOf

LEMMA OutboundFrame ==
  ASSUME Outbound, asked \subseteq asked', routed \subseteq routed',
         \A c \in Cid : \/ hand'[c] = hand[c] \/ Held(asked', routed', hand'[c]),
         \A i \in DOMAIN chromeOut' : \/ \E j \in DOMAIN chromeOut : chromeOut'[i] = chromeOut[j]
                                     \/ Owning(asked', routed', chromeOut'[i]),
         \A w \in inChrome' : w \in inChrome \/ AskedBy(asked', w.iid, w.client),
         \A d \in disp' : d \in disp \/ Owning(asked', routed', d.msg)
  PROVE  Outbound'
<1>1. HandsOwn'
  BY HistoryGrows DEF Outbound, HandsOwn
<1>2. OutOwn'
  BY HistoryGrows DEF Outbound, OutOwn
<1>3. WorkOwn'
  BY HistoryGrows DEF Outbound, WorkOwn
<1>4. DispOwn'
  BY HistoryGrows DEF Outbound, DispOwn
<1>5. QED
  BY <1>1, <1>2, <1>3, <1>4 DEF Outbound, HandsOwn, OutOwn, WorkOwn, DispOwn

LEMMA InboundFrame ==
  ASSUME Inbound, asked \subseteq asked', routed \subseteq routed',
         \A c \in Cid : \A i \in DOMAIN queue'[c] :
            \/ \E j \in DOMAIN queue[c] : queue'[c][i] = queue[c][j]
            \/ Meant(asked', routed', c, queue'[c][i]),
         \A d \in disp' : d.to # 0 => d \in disp \/ Meant(asked', routed', d.to, d.msg)
  PROVE  Inbound'
BY HistoryGrows DEF Inbound

LEMMA AddressedSame ==
  ASSUME Addressed, UNCHANGED <<pendingChrome, pendingClients, nextChrome, hand, channel, inChrome,
                                asked, routed>>
  PROVE  Addressed'
BY DEF Addressed, Remembered, Outbound, HandsOwn, OutOwn, WorkOwn, DispOwn, Inbound, channel

\* A removal forgets routes only.
LEMMA RemoveLess ==
  ASSUME NEW c \in Cid, RemoveClient(c)
  PROVE  pendingChrome' \subseteq pendingChrome /\ pendingClients' \subseteq pendingClients
BY DEF RemoveClient, Others

-----------------------------------------------------------------------------
LEMMA NextAddressed == TypeOK /\ Addressed /\ [Next]_vars => Addressed'
<1> SUFFICES ASSUME TypeOK, Addressed, [Next]_vars PROVE Addressed'
  OBVIOUS
<1>0. Remembered /\ Outbound /\ Inbound
  BY DEF Addressed
<1>1. ASSUME NEW c \in Cid, Register(c) \/ Remove(c) PROVE Addressed'
  <2>1. pendingChrome' \subseteq pendingChrome /\ pendingClients' \subseteq pendingClients
    BY <1>1, RemoveLess DEF Register, Remove
  <2>2. UNCHANGED <<nextChrome, hand, queue, chromeOut, disp, inChrome, asked, routed>>
    BY <1>1 DEF Register, Remove, FirstChromeId, ids, channel, chrome, history
  <2>3. Remembered'
    BY <1>0, <2>1, <2>2, RememberedFrame
  <2>4. Outbound' /\ Inbound'
    BY <1>0, <2>2, OutboundFrame, InboundFrame
  <2>5. QED
    BY <2>3, <2>4 DEF Addressed
\* The message a thread takes up.
<1>2. ASSUME NEW c \in Cid, ReadNote(c) \/ ReadStray(c) \/ (\E k \in CallId : ReadPing(c, k))
      PROVE  Addressed'
  <2>1. UNCHANGED <<pendingChrome, pendingClients, nextChrome, channel, inChrome, asked, routed>>
    BY <1>2 DEF ReadNote, ReadStray, ReadPing, routes, ids, chrome, history
  <2>2. \/ hand' = hand
        \/ hand' = [hand EXCEPT ![c] = Note]
        \/ \E k \in CallId : hand' = [hand EXCEPT ![c] = Local(k)]
    BY <1>2 DEF ReadNote, ReadStray, ReadPing, Holding, Ignored
  <2>3. \A d \in Cid : hand'[d] = hand[d] \/ Held(asked', routed', hand'[d])
    <3>1. \A d \in Cid : hand'[d] = hand[d] \/ hand'[d] = Note \/ \E k \in CallId : hand'[d] = Local(k)
      BY <2>2 DEF TypeOK, ThreadsOK
    <3>2. QED
      BY <3>1, PlainHeld
  <2>4. Remembered' /\ Inbound'
    BY <1>0, <2>1, RememberedFrame, InboundFrame DEF channel
  <2>5. Outbound'
    BY <1>0, <2>1, <2>3, OutboundFrame DEF channel, Owning
  <2>6. QED
    BY <2>4, <2>5 DEF Addressed
<1>3. ASSUME NEW c \in Cid, NEW k \in CallId, ReadRequest(c, k) PROVE Addressed'
  <2>1. /\ UNCHANGED <<channel, inChrome, routed>> /\ asked \subseteq asked'
        /\ pendingClients' \subseteq pendingClients
    BY <1>3 DEF ReadRequest, Fresh, chrome
  <2>2. CASE /\ UNCHANGED <<nextChrome, asked>> /\ pendingChrome' \subseteq pendingChrome
             /\ hand' = hand \/ hand' = [hand EXCEPT ![c] = Local(k)]
    <3>1. \A d \in Cid : hand'[d] = hand[d] \/ Held(asked', routed', hand'[d])
      <4>1. \A d \in Cid : hand'[d] = hand[d] \/ hand'[d] = Local(k)
        BY <2>2 DEF TypeOK, ThreadsOK
      <4>2. QED
        BY <4>1, PlainHeld
    <3>2. Remembered' /\ Inbound'
      BY <1>0, <2>1, <2>2, RememberedFrame, InboundFrame DEF channel
    <3>3. Outbound'
      BY <1>0, <2>1, <2>2, <3>1, OutboundFrame DEF channel, Owning
    <3>4. QED
      BY <3>2, <3>3 DEF Addressed
  <2>3. CASE /\ hand' = [hand EXCEPT ![c] = Message("request", 0, nextChrome, c)]
             /\ pendingChrome' = Fresh(pendingChrome) \cup {RouteOf(nextChrome, c, k)}
             /\ asked' = asked \cup {CallOf(nextChrome, c, k)}
             /\ nextChrome' = nextChrome + 1
    <3>1. nextChrome \in Nat /\ \A a \in asked : a.iid \in Nat
      BY DEF TypeOK, HistoryOK, Call, RoutesOK
    <3>2. AskedBy(asked', nextChrome, c)
      <4>1. /\ CallOf(nextChrome, c, k) \in asked'
            /\ CallOf(nextChrome, c, k).iid = nextChrome /\ CallOf(nextChrome, c, k).client = c
        BY <2>3 DEF CallOf
      <4>2. QED
        BY <4>1 DEF AskedBy
    <3>3. \A d \in Cid : hand'[d] = hand[d] \/ hand'[d] = Message("request", 0, nextChrome, c)
      BY <2>3 DEF TypeOK, ThreadsOK
    <3>4. \A d \in Cid : hand'[d] = hand[d] \/ Held(asked', routed', hand'[d])
      BY <3>2, <3>3 DEF Held, Owning, Message
    <3>5. Outbound'
      BY <1>0, <2>1, <3>4, OutboundFrame DEF channel
    <3>6. Inbound'
      BY <1>0, <2>1, InboundFrame DEF channel
    <3>7. Remembered'
      <4>1. CallOf(nextChrome, c, k).iid = nextChrome
        BY DEF CallOf
      <4>2. \A a \in asked : a.iid < nextChrome
        BY <1>0 DEF Remembered
      <4>3. \A a \in asked' : a.iid < nextChrome'
        BY <2>3, <3>1, <4>1, <4>2
      <4>4. \A a, b \in asked' : a.iid = b.iid => a = b
        BY <1>0, <2>3, <3>1, <4>1, <4>2 DEF Remembered
      <4>5. \A r \in pendingChrome' : r \in pendingChrome \/ r = RouteOf(nextChrome, c, k)
        BY <2>3 DEF Fresh
      <4>6. \A r \in pendingChrome' : CallOf(r.iid, r.client, r.orig) \in asked'
        BY <1>0, <2>3, <4>5 DEF Remembered, RouteOf
      <4>7. \A r \in pendingClients' : CallOf(r.iid, r.client, r.orig) \in routed'
        BY <1>0, <2>1 DEF Remembered
      <4>8. QED
        BY <4>3, <4>4, <4>6, <4>7 DEF Remembered
    <3>8. QED
      BY <3>5, <3>6, <3>7 DEF Addressed
  <2>4. QED
    BY <1>3, <2>2, <2>3 DEF ReadRequest, Holding, Ignored, Fresh
<1>4. ASSUME NEW c \in Cid, ReadResponse(c) PROVE Addressed'
  <2>1. /\ UNCHANGED <<nextChrome, channel, inChrome, asked, routed>>
        /\ pendingChrome' \subseteq pendingChrome /\ pendingClients' \subseteq pendingClients
    BY <1>4 DEF ReadResponse, Fresh, ids, chrome
  <2>2. \/ hand' = hand
        \/ \E r \in pendingClients :
             r.client = c /\ hand' = [hand EXCEPT ![c] = Message("answer", r.orig, r.iid, c)]
    BY <1>4 DEF ReadResponse, Holding, Ignored, Owned, Fresh
  <2>3. \A r \in pendingClients : r.client = c => Owning(asked, routed, Message("answer", r.orig, r.iid, c))
    BY <1>0 DEF Remembered, Owning, Message
  <2>4. \A d \in Cid : \/ hand'[d] = hand[d]
                       \/ Owning(asked, routed, hand'[d]) /\ hand'[d].kind = "answer"
    BY <2>2, <2>3 DEF TypeOK, ThreadsOK, Message
  <2>5. \A d \in Cid : hand'[d] = hand[d] \/ Held(asked', routed', hand'[d])
    BY <2>1, <2>4 DEF Held, Owning
  <2>6. Remembered' /\ Inbound'
    BY <1>0, <2>1, RememberedFrame, InboundFrame DEF channel
  <2>7. Outbound'
    BY <1>0, <2>1, <2>5, OutboundFrame DEF channel
  <2>8. QED
    BY <2>6, <2>7 DEF Addressed
\* The blocking sends.
<1>5. ASSUME NEW c \in Cid, SendChrome(c) PROVE Addressed'
  <2>1. /\ UNCHANGED <<pendingChrome, pendingClients, nextChrome, queue, disp, inChrome, asked, routed>>
        /\ hand' = [hand EXCEPT ![c] = NoMsg] /\ chromeOut' = Append(chromeOut, hand[c])
    BY <1>5 DEF SendChrome, Holding, routes, ids, chrome, history
  <2>2. \A d \in Cid : hand'[d] = hand[d] \/ Held(asked', routed', hand'[d])
    BY <2>1, PlainHeld DEF TypeOK, ThreadsOK
  <2>3. Owning(asked', routed', hand[c])
    BY <1>0, <2>1 DEF Outbound, HandsOwn, Held
  <2>4. hand[c] \in Msg /\ chromeOut \in Seq(Msg)
    BY DEF TypeOK, ThreadsOK, ChannelsOK
  <2>5. \A i \in DOMAIN chromeOut' : \/ \E j \in DOMAIN chromeOut : chromeOut'[i] = chromeOut[j]
                                    \/ Owning(asked', routed', chromeOut'[i])
    BY <2>1, <2>3, <2>4, AppendAt DEF Owning, AskedBy
  <2>6. Remembered' /\ Inbound'
    BY <1>0, <2>1, RememberedFrame, InboundFrame
  <2>7. Outbound'
    BY <1>0, <2>1, <2>2, <2>5, OutboundFrame DEF Owning
  <2>8. QED
    BY <2>6, <2>7 DEF Addressed
<1>6. ASSUME NEW c \in Cid, SendClient(c) PROVE Addressed'
  <2>1. /\ UNCHANGED <<nextChrome, chromeOut, disp, inChrome, asked, routed>>
        /\ hand' = [hand EXCEPT ![c] = NoMsg]
        /\ queue' = queue \/ queue' = [queue EXCEPT ![c] = Append(@, hand[c])]
        /\ pendingChrome' \subseteq pendingChrome /\ pendingClients' \subseteq pendingClients
    BY <1>6, RemoveLess DEF SendClient, Holding, routes, ids, chrome, history
  <2>2. \A d \in Cid : hand'[d] = hand[d] \/ Held(asked', routed', hand'[d])
    BY <2>1, PlainHeld DEF TypeOK, ThreadsOK
  <2>3. Meant(asked', routed', c, hand[c])
    BY <1>0 DEF Outbound, HandsOwn, Held, Meant
  <2>4. hand[c] \in Msg /\ queue \in [Cid -> Seq(Msg)]
    BY DEF TypeOK, ThreadsOK, ChannelsOK
  <2>5. \A d \in Cid : \A i \in DOMAIN queue'[d] :
          \/ \E j \in DOMAIN queue[d] : queue'[d][i] = queue[d][j]
          \/ d = c /\ queue'[d][i] = hand[c]
    BY <2>1, <2>4, AppendAt
  <2>6. Inbound'
    BY <1>0, <2>1, <2>3, <2>5, InboundFrame DEF Meant
  <2>7. Remembered'
    BY <1>0, <2>1, RememberedFrame
  <2>8. Outbound'
    BY <1>0, <2>1, <2>2, OutboundFrame DEF Owning
  <2>9. QED
    BY <2>6, <2>7, <2>8 DEF Addressed
\* The writer threads empty their channels from the head, or at once.
<1>7. ASSUME NEW c \in Cid, Write(c) \/ WriteFails(c) \/ WriterEnds(c) PROVE Addressed'
  <2>1. /\ UNCHANGED <<pendingChrome, pendingClients, nextChrome, hand, chromeOut, disp, inChrome,
                       asked, routed>>
        /\ \/ queue' = queue \/ queue' = [queue EXCEPT ![c] = <<>>]
           \/ queue[c] # <<>> /\ queue' = [queue EXCEPT ![c] = Tail(@)]
    BY <1>7 DEF Write, WriteFails, WriterEnds, routes, ids, thread, chrome, history
  <2>2. queue \in [Cid -> Seq(Msg)]
    BY DEF TypeOK, ChannelsOK
  <2>3. \A d \in Cid : \A i \in DOMAIN queue'[d] : \E j \in DOMAIN queue[d] : queue'[d][i] = queue[d][j]
    <3>1. ASSUME NEW d \in Cid, NEW i \in DOMAIN queue'[d], queue'[d] = queue[d]
          PROVE  \E j \in DOMAIN queue[d] : queue'[d][i] = queue[d][j]
      BY <3>1
    <3>2. ASSUME NEW d \in Cid, NEW i \in DOMAIN queue'[d], queue'[d] = <<>>
          PROVE  FALSE
      BY <3>2
    <3>3. ASSUME NEW d \in Cid, NEW i \in DOMAIN queue'[d],
                 queue[d] # <<>> /\ queue'[d] = Tail(queue[d])
          PROVE  \E j \in DOMAIN queue[d] : queue'[d][i] = queue[d][j]
      BY <2>2, <3>3, TailAt
    <3>4. \A d \in Cid : \/ queue'[d] = queue[d] \/ queue'[d] = <<>>
                         \/ queue[d] # <<>> /\ queue'[d] = Tail(queue[d])
      BY <2>1, <2>2
    <3>5. QED
      BY <3>1, <3>2, <3>3, <3>4
  <2>4. Remembered' /\ Outbound' /\ Inbound'
    BY <1>0, <2>1, <2>3, RememberedFrame, OutboundFrame, InboundFrame
  <2>5. QED
    BY <2>4 DEF Addressed
\* Chrome.
<1>8. ASSUME ChromeReads PROVE Addressed'
  <2>1. /\ UNCHANGED <<pendingChrome, pendingClients, nextChrome, hand, queue, disp, asked, routed>>
        /\ chromeOut # <<>> /\ chromeOut' = Tail(chromeOut)
        /\ \/ inChrome' = inChrome
           \/ /\ Head(chromeOut).kind = "request"
              /\ inChrome' = inChrome \cup {Work(Head(chromeOut).iid, Head(chromeOut).client)}
    BY <1>8 DEF ChromeReads, routes, ids, thread, history
  <2>2. chromeOut \in Seq(Msg)
    BY DEF TypeOK, ChannelsOK
  <2>3. \A i \in DOMAIN chromeOut' : \E j \in DOMAIN chromeOut : chromeOut'[i] = chromeOut[j]
    BY <2>1, <2>2, TailAt
  <2>4. Owning(asked, routed, Head(chromeOut))
    BY <1>0, <2>1, <2>2, TailAt DEF Outbound, HandsOwn, OutOwn, WorkOwn, DispOwn
  <2>5. \A w \in inChrome' : w \in inChrome \/ AskedBy(asked', w.iid, w.client)
    BY <2>1, <2>4 DEF Owning, Work, AskedBy
  <2>6. Remembered' /\ Inbound'
    BY <1>0, <2>1, RememberedFrame, InboundFrame
  <2>7. Outbound'
    BY <1>0, <2>1, <2>3, <2>5, OutboundFrame
  <2>8. QED
    BY <2>6, <2>7 DEF Addressed
<1>9. ASSUME NEW i \in Iid, ChromeResponds(i) PROVE Addressed'
  <2>1. /\ UNCHANGED <<nextChrome, hand, queue, chromeOut, asked, routed>>
        /\ pendingChrome' \subseteq pendingChrome /\ pendingClients' \subseteq pendingClients
        /\ inChrome' \subseteq inChrome
    BY <1>9 DEF ChromeResponds, Fresh, ids, thread, history
  <2>2. \A d \in disp' : \E w \in inChrome : \E r \in pendingChrome :
          w.iid = i /\ r.iid = i /\ d = To(r.client, Message("response", r.orig, i, w.client))
    BY <1>9 DEF ChromeResponds, Fresh
  <2>3. \A w \in inChrome : \A r \in pendingChrome : w.iid = i /\ r.iid = i =>
          w.client = r.client /\ CallOf(i, r.client, r.orig) \in asked
    BY <1>0 DEF Outbound, HandsOwn, OutOwn, WorkOwn, DispOwn, Remembered, AskedBy, CallOf
  <2>4. \A w \in inChrome : \A r \in pendingChrome : w.iid = i /\ r.iid = i =>
          Meant(asked', routed', r.client, Message("response", r.orig, i, w.client))
    BY <2>1, <2>3 DEF Meant, Message
  <2>5. \A d \in disp' : Meant(asked', routed', d.to, d.msg) /\ d.msg.kind = "response"
    BY <2>2, <2>4 DEF To, Message, Meant
  <2>6. Inbound'
    BY <1>0, <2>1, <2>5, InboundFrame
  <2>7. Remembered'
    BY <1>0, <2>1, RememberedFrame
  <2>8. Outbound'
    BY <1>0, <2>1, <2>5, OutboundFrame DEF Owning
  <2>9. QED
    BY <2>6, <2>7, <2>8 DEF Addressed
<1>10. ASSUME NEW s \in AskId, ChromeAsks(s) PROVE Addressed'
  <2>1. /\ UNCHANGED <<nextChrome, hand, queue, chromeOut, inChrome, asked>> /\ routed \subseteq routed'
        /\ pendingChrome' \subseteq pendingChrome
    BY <1>10 DEF ChromeAsks, Fresh, thread
  <2>2. \A r \in pendingClients' : r \in pendingClients
          \/ \E c \in clients : r = RouteOf(nextReq, c, s) /\ CallOf(nextReq, c, s) \in routed'
    BY <1>10 DEF ChromeAsks, Fresh
  <2>3. \A d \in disp' : \/ d.msg.kind = "refusal"
                        \/ \E c \in clients : /\ d = To(c, Message("ask", s, nextReq, c))
                                             /\ CallOf(nextReq, c, s) \in routed'
    BY <1>10 DEF ChromeAsks, To, Message
  <2>4. \A c \in clients : CallOf(nextReq, c, s) \in routed' =>
          Meant(asked', routed', c, Message("ask", s, nextReq, c))
    BY DEF Meant, Message
  <2>5. \A d \in disp' : Meant(asked', routed', d.to, d.msg) /\ d.msg.kind \in {"refusal", "ask"}
    BY <2>3, <2>4 DEF Meant, To, Message
  <2>6. Remembered'
    BY <1>0, <2>1, <2>2, RememberedFrame DEF RouteOf
  <2>7. Inbound'
    BY <1>0, <2>1, <2>5, InboundFrame
  <2>8. Outbound'
    BY <1>0, <2>1, <2>5, OutboundFrame DEF Owning
  <2>9. QED
    BY <2>6, <2>7, <2>8 DEF Addressed
<1>11. ASSUME ChromeNotifies PROVE Addressed'
  <2>1. /\ UNCHANGED <<pendingChrome, pendingClients, nextChrome, hand, queue, chromeOut, inChrome,
                       asked, routed>>
        /\ \A d \in disp' : d.msg.kind = "note"
    BY <1>11 DEF ChromeNotifies, To, Note, Message, routes, ids, thread, chrome, history
  <2>2. Remembered' /\ Inbound'
    BY <1>0, <2>1, RememberedFrame, InboundFrame DEF Meant
  <2>3. Outbound'
    BY <1>0, <2>1, OutboundFrame DEF Owning
  <2>4. QED
    BY <2>2, <2>3 DEF Addressed
<1>12. ASSUME Dispatch PROVE Addressed'
  <2>1. PICK d \in disp :
          /\ disp' = disp \ {d}
          /\ \/ queue' = queue
             \/ d.to # 0 /\ queue' = [queue EXCEPT ![d.to] = Append(@, d.msg)]
          /\ chromeOut' = chromeOut \/ chromeOut' = Append(chromeOut, d.msg)
          /\ UNCHANGED routes \/ (d.to # 0 /\ RemoveClient(d.to))
    BY <1>12 DEF Dispatch
  <2>2. d.msg \in Msg /\ (d.to # 0 => d.to \in Cid)
    BY DEF TypeOK, ChannelsOK, Delivery
  <2>3. /\ UNCHANGED <<nextChrome, hand, inChrome, asked, routed>>
        /\ pendingChrome' \subseteq pendingChrome /\ pendingClients' \subseteq pendingClients
    BY <1>12, <2>1, <2>2, RemoveLess DEF Dispatch, routes, ids, thread, chrome, history
  <2>4. chromeOut \in Seq(Msg) /\ queue \in [Cid -> Seq(Msg)]
    BY DEF TypeOK, ChannelsOK
  <2>5. \A i \in DOMAIN chromeOut' : \/ \E j \in DOMAIN chromeOut : chromeOut'[i] = chromeOut[j]
                                    \/ chromeOut'[i] = d.msg
    BY <2>1, <2>2, <2>4, AppendAt
  <2>6. \A c \in Cid : \A i \in DOMAIN queue'[c] :
          \/ \E j \in DOMAIN queue[c] : queue'[c][i] = queue[c][j]
          \/ d.to # 0 /\ d.to = c /\ queue'[c][i] = d.msg
    <3>1. \A c \in Cid : \/ queue'[c] = queue[c]
                         \/ d.to # 0 /\ d.to = c /\ queue'[c] = Append(queue[c], d.msg)
      BY <2>1, <2>4
    <3>2. QED
      <4>1. ASSUME NEW c \in Cid, NEW i \in DOMAIN queue'[c], queue'[c] = queue[c]
            PROVE  \E j \in DOMAIN queue[c] : queue'[c][i] = queue[c][j]
        BY <4>1
      <4>2. ASSUME NEW c \in Cid, NEW i \in DOMAIN queue'[c], queue'[c] = Append(queue[c], d.msg)
            PROVE  queue'[c][i] = d.msg \/ \E j \in DOMAIN queue[c] : queue'[c][i] = queue[c][j]
        BY <2>2, <2>4, <4>2, AppendAt
      <4>3. QED
        BY <3>1, <4>1, <4>2
  <2>7. Owning(asked', routed', d.msg) /\ (d.to # 0 => Meant(asked', routed', d.to, d.msg))
    BY <1>0, <2>3 DEF Outbound, HandsOwn, OutOwn, WorkOwn, DispOwn, Inbound, Owning, Meant, AskedBy
  <2>8. Inbound'
    BY <1>0, <2>1, <2>3, <2>6, <2>7, InboundFrame DEF Meant
  <2>9. Remembered'
    BY <1>0, <2>3, RememberedFrame
  <2>10. Outbound'
    BY <1>0, <2>1, <2>3, <2>5, <2>7, OutboundFrame DEF Owning, AskedBy
  <2>11. QED
    BY <2>8, <2>9, <2>10 DEF Addressed
<1>13. ASSUME TimePasses PROVE Addressed'
  <2>1. /\ UNCHANGED <<nextChrome, hand, channel, inChrome, asked, routed>>
        /\ \A r \in pendingChrome' : \E q \in pendingChrome :
             q.iid = r.iid /\ q.client = r.client /\ q.orig = r.orig
        /\ \A r \in pendingClients' : \E q \in pendingClients :
             q.iid = r.iid /\ q.client = r.client /\ q.orig = r.orig
    BY <1>13 DEF TimePasses, Aged, ids, thread, chrome, history
  <2>2. Remembered' /\ Outbound' /\ Inbound'
    BY <1>0, <2>1, RememberedFrame, OutboundFrame, InboundFrame DEF channel
  <2>3. QED
    BY <2>2 DEF Addressed
\* The other actions leave messages, routes and their history alone.
<1>14. ASSUME NEW c \in Cid, \/ Accept(c) \/ FirstFrameFails(c) \/ CloseEvicted(c)
                            \/ PeerCloses(c) \/ ReaderEnds(c)
       PROVE  Addressed'
  BY <1>14, AddressedSame DEF Accept, FirstFrameFails, CloseEvicted, PeerCloses, ReaderEnds,
                              routes, ids, chrome, history
<1>15. CASE UNCHANGED vars
  BY <1>15, AddressedSame DEF vars, routes, ids, thread, chrome, history
<1>16. QED
  BY <1>1, <1>2, <1>3, <1>4, <1>5, <1>6, <1>7, <1>8, <1>9, <1>10, <1>11, <1>12, <1>13, <1>14, <1>15
  DEF Next, ReadFrame, Send

\* Whatever waits for a client is an answer to a request of this very connection, under
\* its own id, or a request that was routed to it, though clients evict each other while
\* Chrome works (handle_chrome_response, handle_chrome_request).
THEOREM AlwaysRightClient == Spec => []RightClient
<1>1. Init => TypeOK /\ Addressed
  BY InitTypeOK, InitAddressed
<1>2. TypeOK /\ Addressed /\ [Next]_vars => (TypeOK /\ Addressed)'
  BY NextTypeOK, NextAddressed
<1>3. Addressed => RightClient
  BY InboundIsRight DEF Addressed
<1>4. QED
  BY <1>1, <1>2, <1>3, PTL DEF Spec
-----------------------------------------------------------------------------
(* How often a request of Chrome is answered. *)

One(S) == \A x, y \in S : x = y
NoMore(S, T) == One(S) /\ (S # {} => T # {})   \* than in T

\* There is at most one spot in four sets of spots.
Alone(R, H, O, D) ==
  /\ One(R) /\ One(H) /\ One(O) /\ One(D)
  /\ R = {} \/ (H = {} /\ O = {} /\ D = {})
  /\ H = {} \/ (O = {} /\ D = {})
  /\ O = {} \/ D = {}

LEMMA OneLess == \A S, T : One(T) /\ S \subseteq T => NoMore(S, T)
BY DEF One, NoMore

\* It stays alone when no set gains a spot.
LEMMA AloneNoMore ==
  ASSUME NEW R, NEW H, NEW O, NEW D, Alone(R, H, O, D),
         NEW R1, NEW H1, NEW O1, NEW D1,
         NoMore(R1, R), NoMore(H1, H), NoMore(O1, O), NoMore(D1, D)
  PROVE  Alone(R1, H1, O1, D1)
BY DEF Alone, NoMore

\* m is the answer to Chrome's request s.
Bears(m, s) == m.kind \in {"answer", "refusal"} /\ m.id = s

\* Where the one answer to s is, or will come from.
RouteSpots(s) == {r \in pendingClients : r.orig = s}
HandSpots(s)  == {c \in Cid : Bears(hand[c], s)}
OutSpots(s)   == {i \in DOMAIN chromeOut : Bears(chromeOut[i], s)}
DispSpots(s)  == {d \in disp : Bears(d.msg, s)}
Nowhere(s) == RouteSpots(s) = {} /\ HandSpots(s) = {} /\ OutSpots(s) = {} /\ DispSpots(s) = {}

\* One answer at most is under way, and none before the request or after the answer.
Reply(s) ==
  /\ Alone(RouteSpots(s), HandSpots(s), OutSpots(s), DispSpots(s))
  /\ asks[s] # "asked" => Nowhere(s)
  /\ asks[s] # "again"
OneReply == \A s \in AskId : Reply(s)

LEMMA ReplyNoMore ==
  ASSUME NEW s \in AskId, Reply(s), asks'[s] = asks[s],
         NoMore(RouteSpots(s)', RouteSpots(s)), NoMore(HandSpots(s)', HandSpots(s)),
         NoMore(OutSpots(s)', OutSpots(s)), NoMore(DispSpots(s)', DispSpots(s))
  PROVE  Reply(s)'
<1>1. Alone(RouteSpots(s), HandSpots(s), OutSpots(s), DispSpots(s))'
  BY AloneNoMore DEF Reply
<1>2. Nowhere(s) => Nowhere(s)'
  BY DEF Nowhere, NoMore
<1>3. QED
  BY <1>1, <1>2 DEF Reply

LEMMA ReplyLess ==
  ASSUME NEW s \in AskId, Reply(s), asks'[s] = asks[s],
         RouteSpots(s)' \subseteq RouteSpots(s), HandSpots(s)' \subseteq HandSpots(s),
         OutSpots(s)' \subseteq OutSpots(s), DispSpots(s)' \subseteq DispSpots(s)
  PROVE  Reply(s)'
<1>1. One(RouteSpots(s)) /\ One(HandSpots(s)) /\ One(OutSpots(s)) /\ One(DispSpots(s))
  BY DEF Reply, Alone
<1>2. QED
  BY <1>1, OneLess, ReplyNoMore

\* A message that bears no answer adds no spot.
LEMMA PlainBears ==
  \A s \in AskId : /\ ~Bears(NoMsg, s) /\ ~Bears(Note, s) /\ \A k : ~Bears(Local(k), s)
                   /\ \A i, c : ~Bears(Message("request", 0, i, c), s)
                   /\ \A k, i, c : ~Bears(Message("response", k, i, c), s)
                   /\ \A k, i, c : ~Bears(Message("ask", k, i, c), s)
BY DEF Bears, NoMsg, Note, Local, Message

LEMMA NextOneReply == TypeOK /\ OneReply /\ [Next]_vars => OneReply'
<1> SUFFICES ASSUME TypeOK, OneReply, [Next]_vars, NEW s \in AskId PROVE Reply(s)'
  BY DEF OneReply
<1>0. /\ Reply(s)
      /\ Alone(RouteSpots(s), HandSpots(s), OutSpots(s), DispSpots(s))
      /\ One(RouteSpots(s)) /\ One(HandSpots(s)) /\ One(OutSpots(s)) /\ One(DispSpots(s))
  BY DEF OneReply, Reply, Alone
\* Routes go, messages stay where they are.
<1>1. ASSUME UNCHANGED <<hand, chromeOut, disp, asks>>, pendingClients' \subseteq pendingClients
      PROVE  Reply(s)'
  BY <1>0, <1>1, ReplyLess DEF RouteSpots, HandSpots, OutSpots, DispSpots
\* Likewise, and a thread takes up another message, or none.
<1>2. ASSUME UNCHANGED <<chromeOut, disp, asks>>, pendingClients' \subseteq pendingClients,
             \A d \in Cid : hand'[d] = hand[d] \/ ~Bears(hand'[d], s)
      PROVE  Reply(s)'
  BY <1>0, <1>2, ReplyLess DEF RouteSpots, HandSpots, OutSpots, DispSpots
<1>3. ASSUME NEW c \in Cid, \/ Accept(c) \/ FirstFrameFails(c) \/ Register(c) \/ CloseEvicted(c)
                           \/ PeerCloses(c) \/ ReaderEnds(c) \/ ReadStray(c)
                           \/ Write(c) \/ WriteFails(c) \/ WriterEnds(c)
      PROVE  Reply(s)'
  BY <1>1, <1>3 DEF Accept, FirstFrameFails, Register, CloseEvicted, PeerCloses, ReaderEnds,
                    ReadStray, Ignored, Write, WriteFails, WriterEnds, routes, channel, thread, chrome
<1>4. ASSUME NEW c \in Cid, Remove(c) PROVE Reply(s)'
  BY <1>1, <1>4, RemoveLess DEF Remove, channel, chrome
<1>5. ASSUME NEW c \in Cid, ReadNote(c) \/ \E k \in CallId : ReadPing(c, k) PROVE Reply(s)'
  <2>1. /\ UNCHANGED <<pendingClients, chromeOut, disp, asks>>
        /\ \/ hand' = hand \/ hand' = [hand EXCEPT ![c] = Note]
           \/ \E k \in CallId : hand' = [hand EXCEPT ![c] = Local(k)]
    BY <1>5 DEF ReadNote, ReadPing, Holding, Ignored, routes, channel, chrome
  <2>2. \A d \in Cid : hand'[d] = hand[d] \/ hand'[d] = Note \/ \E k \in CallId : hand'[d] = Local(k)
    BY <2>1 DEF TypeOK, ThreadsOK
  <2>3. QED
    BY <1>2, <2>1, <2>2, PlainBears
<1>6. ASSUME NEW c \in Cid, NEW k \in CallId, ReadRequest(c, k) PROVE Reply(s)'
  <2>1. /\ UNCHANGED <<chromeOut, disp, asks>> /\ pendingClients' \subseteq pendingClients
        /\ \/ hand' = hand \/ hand' = [hand EXCEPT ![c] = Local(k)]
           \/ hand' = [hand EXCEPT ![c] = Message("request", 0, nextChrome, c)]
    BY <1>6 DEF ReadRequest, Holding, Ignored, Fresh, channel, chrome
  <2>2. \A d \in Cid : \/ hand'[d] = hand[d] \/ hand'[d] = Local(k)
                       \/ hand'[d] = Message("request", 0, nextChrome, c)
    BY <2>1 DEF TypeOK, ThreadsOK
  <2>3. QED
    BY <1>2, <2>1, <2>2, PlainBears
\* handle_client_response turns the route into the answer.
<1>7. ASSUME NEW c \in Cid, ReadResponse(c) PROVE Reply(s)'
  <2>1. /\ UNCHANGED <<chromeOut, disp, asks>>
        /\ \/ hand' = hand /\ pendingClients' \subseteq pendingClients
           \/ \E r \in pendingClients :
                /\ hand' = [hand EXCEPT ![c] = Message("answer", r.orig, r.iid, c)]
                /\ pendingClients' \subseteq pendingClients \ {r}
    BY <1>7 DEF ReadResponse, Holding, Ignored, Owned, Fresh, channel, chrome
  <2>2. CASE hand' = hand /\ pendingClients' \subseteq pendingClients
    BY <1>1, <2>1, <2>2
  <2>3. CASE \E r \in pendingClients :
                /\ hand' = [hand EXCEPT ![c] = Message("answer", r.orig, r.iid, c)]
                /\ pendingClients' \subseteq pendingClients \ {r}
    <3>1. PICK r \in pendingClients :
                /\ hand' = [hand EXCEPT ![c] = Message("answer", r.orig, r.iid, c)]
                /\ pendingClients' \subseteq pendingClients \ {r}
      BY <2>3
    <3>2. /\ \A d \in Cid : d # c => hand'[d] = hand[d]
          /\ hand'[c] = Message("answer", r.orig, r.iid, c)
      BY <3>1 DEF TypeOK, ThreadsOK
    <3>3. CASE r.orig = s
      <4>1. r \in RouteSpots(s) /\ asks[s] = "asked"
        BY <1>0, <3>3 DEF RouteSpots, Reply, Nowhere
      <4>2. RouteSpots(s)' = {}
        BY <1>0, <3>1, <4>1 DEF One, RouteSpots
      <4>3. HandSpots(s) = {} /\ OutSpots(s) = {} /\ DispSpots(s) = {}
        BY <1>0, <4>1 DEF Alone
      <4>4. OutSpots(s)' = {} /\ DispSpots(s)' = {}
        BY <2>1, <4>3 DEF OutSpots, DispSpots
      <4>5. HandSpots(s)' \subseteq {c}
        BY <3>2, <4>3 DEF HandSpots
      <4>6. Alone(RouteSpots(s), HandSpots(s), OutSpots(s), DispSpots(s))'
        BY <4>2, <4>4, <4>5 DEF Alone, One
      <4>7. asks'[s] = "asked"
        BY <2>1, <4>1
      <4>8. QED
        BY <4>6, <4>7 DEF Reply
    <3>4. CASE r.orig # s
      <4>1. \A d \in Cid : hand'[d] = hand[d] \/ ~Bears(hand'[d], s)
        BY <3>2, <3>4 DEF Bears, Message
      <4>2. QED
        BY <1>2, <2>1, <3>1, <4>1
    <3>5. QED
      BY <3>3, <3>4
  <2>4. QED
    BY <2>1, <2>2, <2>3
\* The blocking send of the thread passes the answer on.
<1>8. ASSUME NEW c \in Cid, SendChrome(c) PROVE Reply(s)'
  <2>1. /\ UNCHANGED <<pendingClients, disp, asks>>
        /\ hand' = [hand EXCEPT ![c] = NoMsg] /\ chromeOut' = Append(chromeOut, hand[c])
    BY <1>8 DEF SendChrome, Holding, routes, chrome
  <2>2. hand'[c] = NoMsg /\ \A d \in Cid : d # c => hand'[d] = hand[d]
    BY <2>1 DEF TypeOK, ThreadsOK
  <2>3. RouteSpots(s)' = RouteSpots(s) /\ DispSpots(s)' = DispSpots(s)
    BY <2>1 DEF RouteSpots, DispSpots
  <2>4. HandSpots(s)' \subseteq HandSpots(s) \ {c}
    BY <2>2, PlainBears DEF HandSpots
  <2>5. hand[c] \in Msg /\ chromeOut \in Seq(Msg)
    BY DEF TypeOK, ThreadsOK, ChannelsOK
  <2>6. OutSpots(s)' \subseteq OutSpots(s) \cup {Len(chromeOut) + 1}
    BY <2>1, <2>5, AppendAt DEF OutSpots
  <2>7. CASE Bears(hand[c], s)
    <3>1. c \in HandSpots(s) /\ asks[s] = "asked"
      BY <1>0, <2>7 DEF HandSpots, Reply, Nowhere
    <3>2. HandSpots(s)' = {} /\ OutSpots(s) = {} /\ RouteSpots(s) = {} /\ DispSpots(s) = {}
      BY <1>0, <2>4, <3>1 DEF Alone, One
    <3>3. Alone(RouteSpots(s), HandSpots(s), OutSpots(s), DispSpots(s))'
      BY <2>3, <2>6, <3>2 DEF Alone, One
    <3>4. QED
      BY <2>1, <3>1, <3>3 DEF Reply
  <2>8. CASE ~Bears(hand[c], s)
    <3>1. OutSpots(s)' \subseteq OutSpots(s)
      BY <2>1, <2>5, <2>8, AppendAt DEF OutSpots
    <3>2. QED
      BY <1>0, <2>1, <2>3, <2>4, <3>1, ReplyLess
  <2>9. QED
    BY <2>7, <2>8
<1>9. ASSUME NEW c \in Cid, SendClient(c) PROVE Reply(s)'
  <2>1. /\ UNCHANGED <<chromeOut, disp, asks>> /\ pendingClients' \subseteq pendingClients
        /\ hand' = [hand EXCEPT ![c] = NoMsg]
    BY <1>9, RemoveLess DEF SendClient, Holding, routes, chrome
  <2>2. \A d \in Cid : hand'[d] = hand[d] \/ hand'[d] = NoMsg
    BY <2>1 DEF TypeOK, ThreadsOK
  <2>3. QED
    BY <1>2, <2>1, <2>2, PlainBears
\* Chrome takes the answer from the head of its channel.
<1>10. ASSUME ChromeReads PROVE Reply(s)'
  <2>1. /\ UNCHANGED <<pendingClients, hand, disp>>
        /\ chromeOut # <<>> /\ chromeOut' = Tail(chromeOut)
        /\ asks'[s] = IF Bears(Head(chromeOut), s)
                      THEN IF asks[s] = "asked" THEN "answered" ELSE "again"
                      ELSE asks[s]
    BY <1>10 DEF ChromeReads, Bears, routes, thread
  <2>2. /\ RouteSpots(s)' = RouteSpots(s) /\ HandSpots(s)' = HandSpots(s)
        /\ DispSpots(s)' = DispSpots(s)
    BY <2>1 DEF RouteSpots, HandSpots, DispSpots
  <2>3. chromeOut \in Seq(Msg)
    BY DEF TypeOK, ChannelsOK
  <2>4. /\ 1 \in DOMAIN chromeOut /\ Head(chromeOut) = chromeOut[1]
        /\ \A i \in OutSpots(s)' : i \in Nat /\ i + 1 \in OutSpots(s)
    BY <2>1, <2>3, TailAt DEF OutSpots
  <2>5. DOMAIN chromeOut' \subseteq Nat \ {0}
    BY <2>1, <2>3
  <2>6. CASE Bears(Head(chromeOut), s)
    <3>1. 1 \in OutSpots(s)
      BY <2>4, <2>6 DEF OutSpots
    <3>2. OutSpots(s)' = {}
      <4>1. ASSUME NEW i \in OutSpots(s)' PROVE FALSE
        <5>1. i \in Nat \ {0} /\ i + 1 = 1
          BY <1>0, <2>4, <2>5, <3>1 DEF One, OutSpots
        <5>2. QED
          BY <5>1
      <4>2. QED
        BY <4>1
    <3>3. RouteSpots(s) = {} /\ HandSpots(s) = {} /\ DispSpots(s) = {} /\ asks[s] = "asked"
      BY <1>0, <3>1 DEF Alone, Reply, Nowhere
    <3>4. QED
      BY <2>1, <2>2, <2>6, <3>2, <3>3 DEF Reply, Alone, One, Nowhere
  <2>7. CASE ~Bears(Head(chromeOut), s)
    <3>1. \A i, j \in OutSpots(s)' : i = j
      <4>1. SUFFICES ASSUME NEW i \in OutSpots(s)', NEW j \in OutSpots(s)' PROVE i = j
        OBVIOUS
      <4>2. i \in Nat /\ j \in Nat /\ i + 1 = j + 1
        BY <1>0, <2>4 DEF One
      <4>3. QED
        BY <4>2
    <3>2. NoMore(OutSpots(s)', OutSpots(s))
      BY <2>4, <3>1 DEF NoMore, One
    <3>3. /\ NoMore(RouteSpots(s)', RouteSpots(s)) /\ NoMore(HandSpots(s)', HandSpots(s))
          /\ NoMore(DispSpots(s)', DispSpots(s)) /\ asks'[s] = asks[s]
      BY <1>0, <2>1, <2>2, <2>7 DEF NoMore
    <3>4. QED
      BY <1>0, <3>2, <3>3, ReplyNoMore
  <2>8. QED
    BY <2>6, <2>7
<1>11. ASSUME NEW i \in Iid, ChromeResponds(i) PROVE Reply(s)'
  <2>1. /\ UNCHANGED <<hand, chromeOut, asks>> /\ pendingClients' \subseteq pendingClients
        /\ \A d \in disp' : \E k, c : d.msg = Message("response", k, i, c)
    BY <1>11 DEF ChromeResponds, Fresh, To, thread
  <2>2. DispSpots(s)' = {}
    BY <2>1, PlainBears DEF DispSpots
  <2>3. QED
    BY <1>0, <2>1, <2>2, ReplyLess DEF RouteSpots, HandSpots, OutSpots
\* handle_chrome_request: a route for the answer, or the refusal at once.
<1>12. ASSUME NEW t \in AskId, ChromeAsks(t) PROVE Reply(s)'
  <2>1. /\ UNCHANGED <<hand, chromeOut>> /\ asks[t] = "fresh" /\ asks' = [asks EXCEPT ![t] = "asked"]
        /\ \/ /\ disp' = {To(0, Message("refusal", t, 0, 0))}
              /\ pendingClients' \subseteq pendingClients
           \/ \E c \in clients : /\ disp' = {To(c, Message("ask", t, nextReq, c))}
                                 /\ pendingClients' \subseteq pendingClients \cup {RouteOf(nextReq, c, t)}
    BY <1>12 DEF ChromeAsks, Fresh, thread
  <2>2. HandSpots(s)' = HandSpots(s) /\ OutSpots(s)' = OutSpots(s)
    BY <2>1 DEF HandSpots, OutSpots
  <2>3. CASE s # t
    <3>1. asks'[s] = asks[s]
      BY <2>1, <2>3 DEF TypeOK, ChromeOK
    <3>2. RouteSpots(s)' \subseteq RouteSpots(s)
      BY <2>1, <2>3 DEF RouteSpots, RouteOf
    <3>3. DispSpots(s)' = {}
      BY <2>1, <2>3 DEF DispSpots, Bears, To, Message
    <3>4. QED
      BY <1>0, <2>2, <3>1, <3>2, <3>3, ReplyLess
  <2>4. CASE s = t
    <3>1. asks'[s] = "asked"
      BY <2>1, <2>4 DEF TypeOK, ChromeOK
    <3>2. Nowhere(s)
      BY <1>0, <2>1, <2>4 DEF Reply
    <3>3. CASE /\ disp' = {To(0, Message("refusal", t, 0, 0))}
               /\ pendingClients' \subseteq pendingClients
      <4>1. RouteSpots(s)' = {} /\ One(DispSpots(s)')
        BY <3>2, <3>3 DEF RouteSpots, DispSpots, One, Nowhere
      <4>2. QED
        BY <2>2, <3>1, <3>2, <4>1 DEF Reply, Alone, One, Nowhere
    <3>4. CASE \E c \in clients : /\ disp' = {To(c, Message("ask", t, nextReq, c))}
                                  /\ pendingClients' \subseteq pendingClients \cup {RouteOf(nextReq, c, t)}
      <4>1. One(RouteSpots(s)')
        BY <3>2, <3>4 DEF RouteSpots, One, Nowhere
      <4>2. DispSpots(s)' = {}
        BY <3>4, PlainBears DEF DispSpots, To
      <4>3. QED
        BY <2>2, <3>1, <3>2, <4>1, <4>2 DEF Reply, Alone, One, Nowhere
    <3>5. QED
      BY <2>1, <3>3, <3>4
  <2>5. QED
    BY <2>3, <2>4
<1>13. ASSUME ChromeNotifies PROVE Reply(s)'
  <2>1. /\ UNCHANGED <<hand, chromeOut, asks, pendingClients>>
        /\ \A d \in disp' : d.msg = Note
    BY <1>13 DEF ChromeNotifies, To, routes, thread, chrome
  <2>2. DispSpots(s)' = {}
    BY <2>1, PlainBears DEF DispSpots
  <2>3. QED
    BY <1>0, <2>1, <2>2, ReplyLess DEF RouteSpots, HandSpots, OutSpots
\* The dispatcher passes its own refusals on.
<1>14. ASSUME Dispatch PROVE Reply(s)'
  <2>1. PICK d \in disp :
          /\ disp' = disp \ {d}
          /\ chromeOut' = chromeOut \/ chromeOut' = Append(chromeOut, d.msg)
          /\ UNCHANGED routes \/ (d.to # 0 /\ RemoveClient(d.to))
          /\ UNCHANGED <<hand, asks>>
    BY <1>14 DEF Dispatch, thread, chrome
  <2>2. d.msg \in Msg /\ (d.to # 0 => d.to \in Cid) /\ chromeOut \in Seq(Msg)
    BY DEF TypeOK, ChannelsOK, Delivery
  <2>3. pendingClients' \subseteq pendingClients
    BY <2>1, <2>2, RemoveLess DEF routes
  <2>4. /\ HandSpots(s)' = HandSpots(s) /\ RouteSpots(s)' \subseteq RouteSpots(s)
        /\ DispSpots(s)' \subseteq DispSpots(s) \ {d}
    BY <2>1, <2>3 DEF RouteSpots, HandSpots, DispSpots
  <2>5. OutSpots(s)' \subseteq OutSpots(s) \cup {Len(chromeOut) + 1}
    BY <2>1, <2>2, AppendAt DEF OutSpots
  <2>6. CASE Bears(d.msg, s)
    <3>1. d \in DispSpots(s) /\ asks[s] = "asked"
      BY <1>0, <2>6 DEF DispSpots, Reply, Nowhere
    <3>2. DispSpots(s)' = {} /\ OutSpots(s) = {} /\ RouteSpots(s)' = {} /\ HandSpots(s)' = {}
      BY <1>0, <2>4, <3>1 DEF Alone, One
    <3>3. Alone(RouteSpots(s), HandSpots(s), OutSpots(s), DispSpots(s))'
      BY <2>5, <3>2 DEF Alone, One
    <3>4. QED
      BY <2>1, <3>1, <3>3 DEF Reply
  <2>7. CASE ~Bears(d.msg, s)
    <3>1. OutSpots(s)' \subseteq OutSpots(s)
      BY <2>1, <2>2, <2>7, AppendAt DEF OutSpots
    <3>2. QED
      BY <1>0, <2>1, <2>4, <3>1, ReplyLess
  <2>8. QED
    BY <2>6, <2>7
<1>15. ASSUME TimePasses PROVE Reply(s)'
  <2>1. /\ UNCHANGED <<hand, chromeOut, disp, asks>>
        /\ pendingClients' = {Aged(r) : r \in pendingClients}
    BY <1>15 DEF TimePasses, thread, channel, chrome
  <2>2. \A r \in RouteSpots(s)' : \E q \in RouteSpots(s) : r = Aged(q)
    BY <2>1 DEF RouteSpots, Aged
  <2>3. NoMore(RouteSpots(s)', RouteSpots(s))
    BY <1>0, <2>2 DEF NoMore, One
  <2>4. /\ NoMore(HandSpots(s)', HandSpots(s)) /\ NoMore(OutSpots(s)', OutSpots(s))
        /\ NoMore(DispSpots(s)', DispSpots(s)) /\ asks'[s] = asks[s]
    BY <1>0, <2>1 DEF HandSpots, OutSpots, DispSpots, NoMore
  <2>5. QED
    BY <1>0, <2>3, <2>4, ReplyNoMore
<1>16. CASE UNCHANGED vars
  BY <1>1, <1>16 DEF vars, routes, thread, channel, chrome
<1>17. QED
  BY <1>3, <1>4, <1>5, <1>6, <1>7, <1>8, <1>9, <1>10, <1>11, <1>12, <1>13, <1>14, <1>15, <1>16
  DEF Next, ReadFrame, Send

LEMMA InitOneReply == Init => OneReply
<1> SUFFICES ASSUME Init, NEW s \in AskId PROVE Reply(s)
  BY DEF OneReply
<1>1. Nowhere(s)
  BY PlainBears DEF Init, Nowhere, RouteSpots, HandSpots, OutSpots, DispSpots
<1>2. QED
  BY <1>1 DEF Reply, Alone, One, Nowhere, Init

\* A request of Chrome is answered at most once, by the client it was routed to and
\* under Chrome's own id, or refused at once: the route is used up by the answer, and
\* the client_id check of handle_client_response keeps every other client's out.
THEOREM AnswersAreAuthentic == Spec => []AuthenticAnswer
<1>1. Init => TypeOK /\ Addressed /\ OneReply
  BY InitTypeOK, InitAddressed, InitOneReply
<1>2. TypeOK /\ Addressed /\ OneReply /\ [Next]_vars => (TypeOK /\ Addressed /\ OneReply)'
  BY NextTypeOK, NextAddressed, NextOneReply
<1>3. Addressed /\ OneReply => AuthenticAnswer
  BY DEF Addressed, Outbound, OutOwn, Owning, OneReply, Reply, AuthenticAnswer
<1>4. QED
  BY <1>1, <1>2, <1>3, PTL DEF Spec
-----------------------------------------------------------------------------
(* How often a call of a client is answered. *)

\* m answers the call k of whoever gets it.
Gives(m, k) == IsAnswer(m) /\ m.id = k

\* Where the one answer to the call k of c is, or will come from.
CallRoutes(c, k) == {r \in pendingChrome : r.client = c /\ r.orig = k}
CallHand(c, k)   == {d \in {c} : Gives(hand[d], k)}
CallQueued(c, k) == {i \in DOMAIN queue[c] : Gives(queue[c][i], k)}
CallDisp(c, k)   == {d \in disp : d.to = c /\ Gives(d.msg, k)}
NoAnswer(c, k) ==
  CallRoutes(c, k) = {} /\ CallHand(c, k) = {} /\ CallQueued(c, k) = {} /\ CallDisp(c, k) = {}

\* One answer at most is under way, none before the call and none after it was written.
Settling(c, k) ==
  /\ Alone(CallRoutes(c, k), CallHand(c, k), CallQueued(c, k), CallDisp(c, k))
  /\ answers[c][k] \in {0, 1}
  /\ answers[c][k] = 1 => NoAnswer(c, k)
  /\ k \notin used[c] => NoAnswer(c, k) /\ answers[c][k] = 0
OneAnswer == \A c \in Cid, k \in CallId : Settling(c, k)

LEMMA SettlingNoMore ==
  ASSUME NEW c \in Cid, NEW k \in CallId, Settling(c, k),
         answers'[c][k] = answers[c][k], used[c] \subseteq used'[c],
         NoMore(CallRoutes(c, k)', CallRoutes(c, k)), NoMore(CallHand(c, k)', CallHand(c, k)),
         NoMore(CallQueued(c, k)', CallQueued(c, k)), NoMore(CallDisp(c, k)', CallDisp(c, k))
  PROVE  Settling(c, k)'
<1>1. Alone(CallRoutes(c, k), CallHand(c, k), CallQueued(c, k), CallDisp(c, k))'
  BY AloneNoMore DEF Settling
<1>2. NoAnswer(c, k) => NoAnswer(c, k)'
  BY DEF NoAnswer, NoMore
<1>3. k \notin used'[c] => k \notin used[c]
  OBVIOUS
<1>4. QED
  BY <1>1, <1>2, <1>3 DEF Settling

LEMMA SettlingLess ==
  ASSUME NEW c \in Cid, NEW k \in CallId, Settling(c, k),
         answers'[c][k] = answers[c][k], used[c] \subseteq used'[c],
         CallRoutes(c, k)' \subseteq CallRoutes(c, k), CallHand(c, k)' \subseteq CallHand(c, k),
         CallQueued(c, k)' \subseteq CallQueued(c, k), CallDisp(c, k)' \subseteq CallDisp(c, k)
  PROVE  Settling(c, k)'
<1>1. /\ One(CallRoutes(c, k)) /\ One(CallHand(c, k)) /\ One(CallQueued(c, k))
      /\ One(CallDisp(c, k))
  BY DEF Settling, Alone
<1>2. QED
  BY <1>1, OneLess, SettlingNoMore

LEMMA PlainGives ==
  \A k \in CallId : /\ ~Gives(NoMsg, k) /\ ~Gives(Note, k)
                    /\ \A j \in CallId : Gives(Local(j), k) <=> j = k
                    /\ \A i, c : ~Gives(Message("request", 0, i, c), k)
                    /\ \A x, i, c : ~Gives(Message("answer", x, i, c), k)
                    /\ \A x, i, c : ~Gives(Message("refusal", x, i, c), k)
                    /\ \A x, i, c : ~Gives(Message("ask", x, i, c), k)
BY DEF Gives, IsAnswer, NoMsg, Note, Local, Message

LEMMA UsedGrows ==
  ASSUME TypeOK, NEW b \in Cid, NEW x, Frame(b, x), NEW c \in Cid
  PROVE  used[c] \subseteq used'[c] /\ x \in used'[b] /\ x \notin used[b]
BY DEF Frame, TypeOK, HistoryOK

LEMMA NextOneAnswer == TypeOK /\ OneAnswer /\ [Next]_vars => OneAnswer'
<1> SUFFICES ASSUME TypeOK, OneAnswer, [Next]_vars, NEW c \in Cid, NEW k \in CallId
             PROVE  Settling(c, k)'
  BY DEF OneAnswer
<1>0. /\ Settling(c, k)
      /\ Alone(CallRoutes(c, k), CallHand(c, k), CallQueued(c, k), CallDisp(c, k))
      /\ One(CallRoutes(c, k)) /\ One(CallHand(c, k)) /\ One(CallQueued(c, k)) /\ One(CallDisp(c, k))
  BY DEF OneAnswer, Settling, Alone
\* Routes go, and the thread takes up something else, or nothing.
<1>1. ASSUME UNCHANGED <<queue, disp, answers>>, used[c] \subseteq used'[c],
             pendingChrome' \subseteq pendingChrome,
             hand'[c] = hand[c] \/ ~Gives(hand'[c], k)
      PROVE  Settling(c, k)'
  BY <1>0, <1>1, SettlingLess DEF CallRoutes, CallHand, CallQueued, CallDisp
<1>2. ASSUME NEW b \in Cid, \/ Accept(b) \/ FirstFrameFails(b) \/ Register(b) \/ CloseEvicted(b)
                           \/ PeerCloses(b) \/ ReaderEnds(b) \/ ReadStray(b)
      PROVE  Settling(c, k)'
  BY <1>1, <1>2 DEF Accept, FirstFrameFails, Register, CloseEvicted, PeerCloses, ReaderEnds,
                    ReadStray, Ignored, routes, channel, history
<1>3. ASSUME NEW b \in Cid, Remove(b) PROVE Settling(c, k)'
  BY <1>1, <1>3, RemoveLess DEF Remove, channel, history
<1>4. ASSUME NEW b \in Cid, ReadNote(b) PROVE Settling(c, k)'
  <2>1. /\ UNCHANGED <<pendingChrome, queue, disp, answers>> /\ Frame(b, 0)
        /\ hand' = hand \/ hand' = [hand EXCEPT ![b] = Note]
    BY <1>4 DEF ReadNote, Holding, Ignored, routes, channel
  <2>2. hand'[c] = hand[c] \/ hand'[c] = Note
    BY <2>1 DEF TypeOK, ThreadsOK
  <2>3. QED
    BY <1>1, <2>1, <2>2, PlainGives, UsedGrows
\* A call begins: the thread answers it itself, or makes its route.
<1>5. ASSUME NEW b \in Cid, NEW j \in CallId, ReadPing(b, j) \/ ReadRequest(b, j)
      PROVE  Settling(c, k)'
  <2>1. /\ UNCHANGED <<queue, disp, answers>> /\ Frame(b, j)
        /\ \/ /\ pendingChrome' \subseteq pendingChrome
              /\ hand' = hand \/ hand' = [hand EXCEPT ![b] = Local(j)]
           \/ /\ pendingChrome' \subseteq pendingChrome \cup {RouteOf(nextChrome, b, j)}
              /\ hand' = [hand EXCEPT ![b] = Message("request", 0, nextChrome, b)]
    BY <1>5 DEF ReadPing, ReadRequest, Holding, Ignored, Fresh, routes, channel
  <2>2. CASE c = b /\ k = j
    <3>1. NoAnswer(c, k) /\ answers[c][k] = 0 /\ k \in used'[c]
      BY <1>0, <2>1, <2>2, UsedGrows DEF Settling
    <3>2. CallQueued(c, k)' = {} /\ CallDisp(c, k)' = {} /\ answers'[c][k] = 0
      BY <2>1, <3>1 DEF CallQueued, CallDisp, NoAnswer
    <3>3. CASE pendingChrome' \subseteq pendingChrome
      <4>1. CallRoutes(c, k)' = {} /\ One(CallHand(c, k)')
        BY <3>1, <3>3 DEF CallRoutes, CallHand, NoAnswer, One
      <4>2. QED
        BY <3>1, <3>2, <4>1 DEF Settling, Alone, One
    <3>4. CASE /\ pendingChrome' \subseteq pendingChrome \cup {RouteOf(nextChrome, b, j)}
               /\ hand' = [hand EXCEPT ![b] = Message("request", 0, nextChrome, b)]
      <4>1. One(CallRoutes(c, k)')
        BY <3>1, <3>4 DEF CallRoutes, NoAnswer, One
      <4>2. hand'[c] = Message("request", 0, nextChrome, b)
        BY <2>2, <3>4 DEF TypeOK, ThreadsOK
      <4>3. CallHand(c, k)' = {}
        BY <4>2, PlainGives DEF CallHand
      <4>4. QED
        BY <3>1, <3>2, <4>1, <4>3 DEF Settling, Alone, One
    <3>5. QED
      BY <2>1, <3>3, <3>4
  <2>3. CASE ~(c = b /\ k = j)
    <3>1. hand'[c] = hand[c] \/ ~Gives(hand'[c], k)
      <4>1. CASE c # b
        BY <2>1, <4>1 DEF TypeOK, ThreadsOK
      <4>2. CASE c = b
        <5>1. \/ hand'[c] = hand[c] \/ hand'[c] = Local(j)
              \/ hand'[c] = Message("request", 0, nextChrome, b)
          BY <2>1, <4>2 DEF TypeOK, ThreadsOK
        <5>2. QED
          BY <2>3, <4>2, <5>1, PlainGives
      <4>3. QED
        BY <4>1, <4>2
    <3>2. CallRoutes(c, k)' \subseteq CallRoutes(c, k)
      BY <2>1, <2>3 DEF CallRoutes, RouteOf
    <3>3. used[c] \subseteq used'[c]
      BY <2>1, UsedGrows
    <3>4. QED
      BY <1>0, <2>1, <3>1, <3>2, <3>3, SettlingLess DEF CallHand, CallQueued, CallDisp
  <2>4. QED
    BY <2>2, <2>3
<1>6. ASSUME NEW b \in Cid, ReadResponse(b) PROVE Settling(c, k)'
  <2>1. /\ UNCHANGED <<queue, disp, answers>> /\ pendingChrome' \subseteq pendingChrome
        /\ \E x : Frame(b, x)
        /\ hand' = hand \/ \E x, i : hand' = [hand EXCEPT ![b] = Message("answer", x, i, b)]
    BY <1>6 DEF ReadResponse, Holding, Ignored, Fresh, channel
  <2>2. hand'[c] = hand[c] \/ \E x, i : hand'[c] = Message("answer", x, i, b)
    BY <2>1 DEF TypeOK, ThreadsOK
  <2>3. QED
    BY <1>1, <2>1, <2>2, PlainGives, UsedGrows
<1>7. ASSUME NEW b \in Cid, SendChrome(b) PROVE Settling(c, k)'
  <2>1. /\ UNCHANGED <<pendingChrome, queue, disp, answers, used>>
        /\ hand' = [hand EXCEPT ![b] = NoMsg]
    BY <1>7 DEF SendChrome, Holding, routes, history
  <2>2. hand'[c] = hand[c] \/ hand'[c] = NoMsg
    BY <2>1 DEF TypeOK, ThreadsOK
  <2>3. QED
    BY <1>1, <2>1, <2>2, PlainGives
\* The thread's own answer goes to its channel, or is lost with its writer.
<1>8. ASSUME NEW b \in Cid, SendClient(b) PROVE Settling(c, k)'
  <2>1. /\ UNCHANGED <<disp, answers, used>> /\ pendingChrome' \subseteq pendingChrome
        /\ hand' = [hand EXCEPT ![b] = NoMsg]
        /\ queue' = queue \/ queue' = [queue EXCEPT ![b] = Append(@, hand[b])]
    BY <1>8, RemoveLess DEF SendClient, Holding, routes, history
  <2>2. hand'[c] = hand[c] \/ hand'[c] = NoMsg
    BY <2>1 DEF TypeOK, ThreadsOK
  <2>3. CASE queue'[c] = queue[c]
    <3>1. CallHand(c, k)' \subseteq CallHand(c, k)
      BY <2>2, PlainGives DEF CallHand
    <3>2. QED
      BY <1>0, <2>1, <2>3, <3>1, SettlingLess DEF CallRoutes, CallQueued, CallDisp
  <2>4. CASE b = c /\ queue'[c] = Append(queue[c], hand[c])
    <3>1. hand[c] \in Msg /\ queue[c] \in Seq(Msg)
      BY DEF TypeOK, ThreadsOK, ChannelsOK
    <3>2. CallHand(c, k)' = {}
      <4>1. hand'[c] = NoMsg
        BY <2>1, <2>4 DEF TypeOK, ThreadsOK
      <4>2. QED
        BY <4>1, PlainGives DEF CallHand
    <3>3. CallRoutes(c, k)' \subseteq CallRoutes(c, k) /\ CallDisp(c, k)' = CallDisp(c, k)
      BY <2>1 DEF CallRoutes, CallDisp
    <3>4. CallQueued(c, k)' \subseteq CallQueued(c, k) \cup {Len(queue[c]) + 1}
      BY <2>4, <3>1, AppendAt DEF CallQueued
    <3>5. CASE Gives(hand[c], k)
      <4>1. c \in CallHand(c, k)
        BY <3>5 DEF CallHand
      <4>2. /\ CallRoutes(c, k)' = {} /\ CallDisp(c, k)' = {} /\ CallQueued(c, k) = {}
            /\ k \in used[c] /\ answers[c][k] = 0
        BY <1>0, <3>3, <4>1 DEF Alone, Settling, NoAnswer
      <4>3. One(CallQueued(c, k)')
        BY <3>4, <4>2 DEF One
      <4>4. QED
        BY <2>1, <3>2, <4>2, <4>3 DEF Settling, Alone, One
    <3>6. CASE ~Gives(hand[c], k)
      <4>1. CallQueued(c, k)' \subseteq CallQueued(c, k)
        BY <2>4, <3>1, <3>6, AppendAt DEF CallQueued
      <4>2. QED
        BY <1>0, <2>1, <3>2, <3>3, <4>1, SettlingLess
    <3>7. QED
      BY <3>5, <3>6
  <2>5. QED
    BY <2>1, <2>3, <2>4 DEF TypeOK, ChannelsOK
\* The writer thread takes the head of the channel to the socket.
<1>9. ASSUME NEW b \in Cid, Write(b) PROVE Settling(c, k)'
  <2>1. /\ UNCHANGED <<pendingChrome, hand, disp, used>>
        /\ queue[b] # <<>> /\ queue' = [queue EXCEPT ![b] = Tail(@)]
        /\ answers' = [answers EXCEPT ![b] = [x \in CallId |->
             IF Gives(Head(queue[b]), x) THEN @[x] + 1 ELSE @[x]]]
    BY <1>9 DEF Write, Gives, routes, thread
  <2>2. /\ CallRoutes(c, k)' = CallRoutes(c, k) /\ CallHand(c, k)' = CallHand(c, k)
        /\ CallDisp(c, k)' = CallDisp(c, k)
    BY <2>1 DEF CallRoutes, CallHand, CallDisp
  <2>3. CASE b # c
    <3>1. queue'[c] = queue[c] /\ answers'[c] = answers[c]
      BY <2>1, <2>3 DEF TypeOK, ChannelsOK, HistoryOK
    <3>2. QED
      BY <1>0, <2>1, <2>2, <3>1, SettlingLess DEF CallQueued
  <2>4. CASE b = c
    <3>1. /\ queue'[c] = Tail(queue[c]) /\ queue[c] \in Seq(Msg) /\ queue[c] # <<>>
          /\ answers'[c][k] = IF Gives(Head(queue[c]), k) THEN answers[c][k] + 1 ELSE answers[c][k]
      BY <2>1, <2>4 DEF TypeOK, ChannelsOK, HistoryOK
    <3>2. /\ 1 \in DOMAIN queue[c] /\ Head(queue[c]) = queue[c][1]
          /\ \A i \in CallQueued(c, k)' : i \in Nat \ {0} /\ i + 1 \in CallQueued(c, k)
      <4>1. DOMAIN Tail(queue[c]) \subseteq Nat \ {0}
        BY <3>1
      <4>2. QED
        BY <3>1, <4>1, TailAt DEF CallQueued
    <3>3. CASE Gives(Head(queue[c]), k)
      <4>1. 1 \in CallQueued(c, k)
        BY <3>2, <3>3 DEF CallQueued
      <4>2. CallQueued(c, k)' = {}
        <5>1. ASSUME NEW i \in CallQueued(c, k)' PROVE FALSE
          <6>1. i \in Nat \ {0} /\ i + 1 = 1
            BY <1>0, <3>2, <4>1 DEF One
          <6>2. QED
            BY <6>1
        <5>2. QED
          BY <5>1
      <4>3. /\ CallRoutes(c, k) = {} /\ CallHand(c, k) = {} /\ CallDisp(c, k) = {}
            /\ answers[c][k] = 0 /\ k \in used[c]
        BY <1>0, <4>1 DEF Alone, Settling, NoAnswer
      <4>4. answers'[c][k] = 1
        BY <3>1, <3>3, <4>3
      <4>5. QED
        BY <2>1, <2>2, <4>2, <4>3, <4>4 DEF Settling, Alone, One, NoAnswer
    <3>4. CASE ~Gives(Head(queue[c]), k)
      <4>1. \A i, j \in CallQueued(c, k)' : i = j
        <5>1. SUFFICES ASSUME NEW i \in CallQueued(c, k)', NEW j \in CallQueued(c, k)' PROVE i = j
          OBVIOUS
        <5>2. i \in Nat /\ j \in Nat /\ i + 1 = j + 1
          BY <1>0, <3>2 DEF One
        <5>3. QED
          BY <5>2
      <4>2. NoMore(CallQueued(c, k)', CallQueued(c, k))
        BY <3>2, <4>1 DEF NoMore, One
      <4>3. /\ NoMore(CallRoutes(c, k)', CallRoutes(c, k)) /\ NoMore(CallHand(c, k)', CallHand(c, k))
            /\ NoMore(CallDisp(c, k)', CallDisp(c, k))
        BY <1>0, <2>2 DEF NoMore
      <4>4. answers'[c][k] = answers[c][k] /\ used[c] \subseteq used'[c]
        BY <2>1, <3>1, <3>4
      <4>5. QED
        BY <1>0, <4>2, <4>3, <4>4, SettlingNoMore
    <3>5. QED
      BY <3>3, <3>4
  <2>5. QED
    BY <2>3, <2>4
<1>10. ASSUME NEW b \in Cid, WriteFails(b) \/ WriterEnds(b) PROVE Settling(c, k)'
  <2>1. /\ UNCHANGED <<pendingChrome, hand, disp, used, answers>>
        /\ queue' = queue \/ queue' = [queue EXCEPT ![b] = <<>>]
    BY <1>10 DEF WriteFails, WriterEnds, routes, thread, history
  <2>2. queue'[c] = queue[c] \/ queue'[c] = <<>>
    BY <2>1 DEF TypeOK, ChannelsOK
  <2>3. CallQueued(c, k)' \subseteq CallQueued(c, k)
    BY <2>2 DEF CallQueued
  <2>4. QED
    BY <1>0, <2>1, <2>3, SettlingLess DEF CallRoutes, CallHand, CallDisp
\* handle_chrome_response turns the route into the response.
<1>11. ASSUME NEW i \in Iid, ChromeResponds(i) PROVE Settling(c, k)'
  <2>1. /\ UNCHANGED <<hand, queue, used, answers>>
        /\ pendingChrome' = {r \in Fresh(pendingChrome) : r.iid # i}
    BY <1>11 DEF ChromeResponds, thread, history
  <2>2. PICK w \in inChrome :
          disp' = {To(r.client, Message("response", r.orig, i, w.client)) :
                     r \in {q \in Fresh(pendingChrome) : q.iid = i /\ q.client \in clients}}
    BY <1>11 DEF ChromeResponds
  <2>3. CallHand(c, k)' = CallHand(c, k) /\ CallQueued(c, k)' = CallQueued(c, k)
    BY <2>1 DEF CallHand, CallQueued
  <2>4. CallRoutes(c, k)' \subseteq CallRoutes(c, k)
    BY <2>1 DEF CallRoutes, Fresh
  <2>5. \A d \in CallDisp(c, k)' : \E r \in CallRoutes(c, k) :
          r.iid = i /\ d = To(r.client, Message("response", r.orig, i, w.client))
    BY <2>2 DEF CallDisp, CallRoutes, Fresh, To, Message, Gives
  <2>6. One(CallDisp(c, k)')
    BY <1>0, <2>5 DEF One
  <2>7. CASE CallDisp(c, k)' = {}
    BY <1>0, <2>1, <2>3, <2>4, <2>7, SettlingLess
  <2>8. CASE CallDisp(c, k)' # {}
    <3>1. PICK r \in CallRoutes(c, k) : r.iid = i
      BY <2>5, <2>8
    <3>2. CallRoutes(c, k)' = {}
      BY <1>0, <2>1, <2>4, <3>1 DEF One, CallRoutes
    <3>3. /\ CallHand(c, k) = {} /\ CallQueued(c, k) = {}
          /\ k \in used[c] /\ answers[c][k] = 0
      BY <1>0, <3>1 DEF Alone, Settling, NoAnswer
    <3>4. QED
      BY <2>1, <2>3, <2>6, <3>2, <3>3 DEF Settling, Alone, One
  <2>9. QED
    BY <2>7, <2>8
\* Other deliveries answer nothing.
<1>12. ASSUME ChromeNotifies \/ \E s \in AskId : ChromeAsks(s) PROVE Settling(c, k)'
  <2>1. /\ UNCHANGED <<hand, queue, used, answers>> /\ pendingChrome' \subseteq pendingChrome
    BY <1>12 DEF ChromeNotifies, ChromeAsks, Fresh, routes, thread, history
  <2>2. ASSUME ChromeNotifies PROVE CallDisp(c, k)' = {}
    <3>1. \A d \in disp' : d.msg = Note
      BY <2>2 DEF ChromeNotifies, To
    <3>2. QED
      BY <3>1, PlainGives DEF CallDisp
  <2>3. ASSUME NEW s \in AskId, ChromeAsks(s) PROVE CallDisp(c, k)' = {}
    <3>1. \A d \in disp' : \/ d.msg = Message("refusal", s, 0, 0)
                          \/ \E b \in clients : d.msg = Message("ask", s, nextReq, b)
      BY <2>3 DEF ChromeAsks, To
    <3>2. QED
      BY <3>1, PlainGives DEF CallDisp
  <2>4. CallDisp(c, k)' = {}
    BY <1>12, <2>2, <2>3
  <2>5. QED
    BY <1>0, <2>1, <2>4, SettlingLess DEF CallRoutes, CallHand, CallQueued
\* The dispatcher passes the response on to the channel.
<1>13. ASSUME Dispatch PROVE Settling(c, k)'
  <2>1. PICK d \in disp :
          /\ disp' = disp \ {d}
          /\ \/ queue' = queue
             \/ d.to # 0 /\ queue' = [queue EXCEPT ![d.to] = Append(@, d.msg)]
          /\ UNCHANGED routes \/ (d.to # 0 /\ RemoveClient(d.to))
          /\ UNCHANGED <<hand, used, answers>>
    BY <1>13 DEF Dispatch, thread, history
  <2>2. d.msg \in Msg /\ (d.to # 0 => d.to \in Cid) /\ queue \in [Cid -> Seq(Msg)]
    BY DEF TypeOK, ChannelsOK, Delivery
  <2>3. pendingChrome' \subseteq pendingChrome
    BY <2>1, <2>2, RemoveLess DEF routes
  <2>4. /\ CallHand(c, k)' = CallHand(c, k) /\ CallRoutes(c, k)' \subseteq CallRoutes(c, k)
        /\ CallDisp(c, k)' \subseteq CallDisp(c, k) \ {d}
    BY <2>1, <2>3 DEF CallRoutes, CallHand, CallDisp
  <2>5. CASE queue'[c] = queue[c]
    BY <1>0, <2>1, <2>4, <2>5, SettlingLess DEF CallQueued
  <2>6. CASE d.to = c /\ queue'[c] = Append(queue[c], d.msg)
    <3>1. queue[c] \in Seq(Msg)
      BY <2>2
    <3>2. CallQueued(c, k)' \subseteq CallQueued(c, k) \cup {Len(queue[c]) + 1}
      BY <2>2, <2>6, <3>1, AppendAt DEF CallQueued
    <3>3. CASE Gives(d.msg, k)
      <4>1. d \in CallDisp(c, k)
        BY <2>6, <3>3 DEF CallDisp
      <4>2. /\ CallDisp(c, k)' = {} /\ CallRoutes(c, k)' = {} /\ CallHand(c, k)' = {}
            /\ CallQueued(c, k) = {} /\ k \in used[c] /\ answers[c][k] = 0
        BY <1>0, <2>4, <4>1 DEF Alone, One, Settling, NoAnswer
      <4>3. One(CallQueued(c, k)')
        BY <3>2, <4>2 DEF One
      <4>4. QED
        BY <2>1, <4>2, <4>3 DEF Settling, Alone, One
    <3>4. CASE ~Gives(d.msg, k)
      <4>1. CallQueued(c, k)' \subseteq CallQueued(c, k)
        BY <2>2, <2>6, <3>1, <3>4, AppendAt DEF CallQueued
      <4>2. QED
        BY <1>0, <2>1, <2>4, <4>1, SettlingLess
    <3>5. QED
      BY <3>3, <3>4
  <2>7. QED
    BY <2>1, <2>2, <2>5, <2>6
<1>14. ASSUME TimePasses PROVE Settling(c, k)'
  <2>1. /\ UNCHANGED <<hand, queue, disp, used, answers>>
        /\ pendingChrome' = {Aged(r) : r \in pendingChrome}
    BY <1>14 DEF TimePasses, thread, channel, history
  <2>2. \A r \in CallRoutes(c, k)' : \E q \in CallRoutes(c, k) : r = Aged(q)
    BY <2>1 DEF CallRoutes, Aged
  <2>3. NoMore(CallRoutes(c, k)', CallRoutes(c, k))
    BY <1>0, <2>2 DEF NoMore, One
  <2>4. /\ NoMore(CallHand(c, k)', CallHand(c, k)) /\ NoMore(CallQueued(c, k)', CallQueued(c, k))
        /\ NoMore(CallDisp(c, k)', CallDisp(c, k))
        /\ answers'[c][k] = answers[c][k] /\ used[c] \subseteq used'[c]
    BY <1>0, <2>1 DEF CallHand, CallQueued, CallDisp, NoMore
  <2>5. QED
    BY <1>0, <2>3, <2>4, SettlingNoMore
<1>15. ASSUME ChromeReads \/ UNCHANGED vars PROVE Settling(c, k)'
  BY <1>1, <1>15 DEF ChromeReads, vars, routes, thread, channel, history
<1>16. QED
  BY <1>2, <1>3, <1>4, <1>5, <1>6, <1>7, <1>8, <1>9, <1>10, <1>11, <1>12, <1>13, <1>14, <1>15
  DEF Next, ReadFrame, Send

LEMMA InitOneAnswer == Init => OneAnswer
<1> SUFFICES ASSUME Init, NEW c \in Cid, NEW k \in CallId PROVE Settling(c, k)
  BY DEF OneAnswer
<1>1. NoAnswer(c, k)
  BY PlainGives DEF Init, NoAnswer, CallRoutes, CallHand, CallQueued, CallDisp
<1>2. QED
  BY <1>1 DEF Settling, Alone, One, NoAnswer, Init

-----------------------------------------------------------------------------
(* The relay implements CallService, step by step. *)

\* The refinement mapping of Calls.
Status   == [c \in Cid |-> [k \in CallId |-> StatusOf(c, k)]]
EndedSet == {c \in Cid : Ended(c)}

LEMMA StatusNow ==
  ASSUME NEW c \in Cid, NEW k \in CallId
  PROVE  /\ answers[c][k] = 1 => Status[c][k] = "answered"
         /\ answers[c][k] = 0 /\ Ended(c) => Status[c][k] = "closed"
         /\ answers[c][k] = 0 /\ ~Ended(c) /\ k \in used[c] => Status[c][k] = "open"
         /\ answers[c][k] = 0 /\ ~Ended(c) /\ k \notin used[c] => Status[c][k] = "unused"
BY DEF Status, StatusOf

LEMMA StatusNext ==
  ASSUME NEW c \in Cid, NEW k \in CallId
  PROVE  /\ answers'[c][k] = 1 => Status'[c][k] = "answered"
         /\ answers'[c][k] = 0 /\ Ended(c)' => Status'[c][k] = "closed"
         /\ answers'[c][k] = 0 /\ ~Ended(c)' /\ k \in used'[c] => Status'[c][k] = "open"
BY DEF Status, StatusOf

LEMMA StatusSame ==
  ASSUME NEW c \in Cid, NEW k \in CallId, answers'[c][k] = answers[c][k],
         Ended(c)' <=> Ended(c), k \in used'[c] <=> k \in used[c]
  PROVE  Status'[c][k] = Status[c][k]
<1>1. StatusOf(c, k)' = StatusOf(c, k)
  BY DEF StatusOf
<1>2. QED
  BY <1>1 DEF Status

LEMMA InitCalls == Init => Calls!Init
<1> SUFFICES ASSUME Init PROVE Calls!Init
  OBVIOUS
<1>1. \A c \in Cid : ~Ended(c)
  BY DEF Init, Ended
<1>2. \A c \in Cid, k \in CallId : StatusOf(c, k) = "unused"
  BY <1>1 DEF Init, StatusOf
<1>3. QED
  BY <1>1, <1>2 DEF Calls!Init

\* A step that answers nothing, ends nothing and begins no call.
LEMMA QuietStep ==
  ASSUME UNCHANGED answers, \A c \in Cid : Ended(c)' <=> Ended(c),
         \A c \in Cid, k \in CallId : k \in used'[c] <=> k \in used[c]
  PROVE  UNCHANGED Calls!vars
<1>1. \A c \in Cid, k \in CallId : StatusOf(c, k)' = StatusOf(c, k)
  BY DEF StatusOf
<1>2. Status' = Status
  BY <1>1 DEF Status
<1>3. EndedSet' = EndedSet
  BY DEF EndedSet
<1>4. QED
  BY <1>2, <1>3 DEF Calls!vars, Status, EndedSet

\* A step that may end b.
LEMMA EndStep ==
  ASSUME OneAnswer, NEW b \in Cid, ~Ended(b), UNCHANGED <<used, answers>>,
         \A c \in Cid \ {b} : Ended(c)' <=> Ended(c)
  PROVE  [Calls!Next]_(Calls!vars)
<1>1. CASE Ended(b)'
  <2>1. EndedSet' = EndedSet \cup {b} /\ {b} \cap EndedSet = {}
    BY <1>1 DEF EndedSet
  <2>2. ASSUME NEW c \in Cid, NEW k \in CallId
        PROVE  Status'[c][k] = IF c \in {b} /\ Status[c][k] # "answered" THEN "closed"
                               ELSE Status[c][k]
    <3>1. answers[c][k] \in {0, 1} /\ answers'[c][k] = answers[c][k]
      BY DEF OneAnswer, Settling
    <3>2. CASE c # b
      BY <3>1, <3>2, StatusSame
    <3>3. CASE c = b
      BY <1>1, <3>1, <3>3, StatusNow, StatusNext
    <3>4. QED
      BY <3>2, <3>3
  <2>3. Status' = [c \in Cid |-> [k \in CallId |->
          IF c \in {b} /\ Status[c][k] # "answered" THEN "closed" ELSE Status[c][k]]]
    BY <2>2 DEF Status
  <2>4. Calls!Close({b})
    BY <2>1, <2>3 DEF Calls!Close, Status, EndedSet
  <2>5. QED
    BY <2>4 DEF Calls!Next
<1>2. CASE ~Ended(b)'
  <2>1. \A c \in Cid : Ended(c)' <=> Ended(c)
    BY <1>2
  <2>2. QED
    BY <2>1, QuietStep
<1>3. QED
  BY <1>1, <1>2

\* A frame of b begins a call, if it is one.
LEMMA FrameStep ==
  ASSUME TypeOK, OneAnswer, NEW b \in Cid, NEW x, Frame(b, x), UNCHANGED answers,
         \A c \in Cid : Ended(c)' <=> Ended(c)
  PROVE  [Calls!Next]_(Calls!vars)
<1>1. /\ x \notin used[b] /\ used'[b] = used[b] \cup {x} /\ ~Ended(b)
      /\ \A c \in Cid \ {b} : used'[c] = used[c]
  BY DEF Frame, TypeOK, HistoryOK, Ended
<1>2. CASE x \notin CallId
  BY <1>1, <1>2, QuietStep
<1>3. CASE x \in CallId
  <2>1. answers[b][x] = 0 /\ answers'[b][x] = 0
    BY <1>1, <1>3 DEF OneAnswer, Settling
  <2>2. Status[b][x] = "unused" /\ Status'[b][x] = "open"
    BY <1>1, <1>3, <2>1, StatusNow, StatusNext
  <2>3. ASSUME NEW c \in Cid, NEW k \in CallId, ~(c = b /\ k = x)
        PROVE  Status'[c][k] = Status[c][k]
    <3>1. answers'[c][k] = answers[c][k] /\ (k \in used'[c] <=> k \in used[c])
      BY <1>1, <2>3
    <3>2. QED
      BY <3>1, StatusSame
  <2>4. Status' = [Status EXCEPT ![b][x] = "open"]
    <3>1. Status' = [c \in Cid |-> [k \in CallId |->
                      IF c = b /\ k = x THEN "open" ELSE Status[c][k]]]
      <4>1. \A c \in Cid, k \in CallId :
              Status'[c][k] = IF c = b /\ k = x THEN "open" ELSE Status[c][k]
        BY <2>2, <2>3
      <4>2. Status' = [c \in Cid |-> [k \in CallId |-> Status'[c][k]]]
        BY DEF Status
      <4>3. QED
        BY <4>1, <4>2
    <3>2. Status = [c \in Cid |-> [k \in CallId |-> Status[c][k]]]
      BY DEF Status
    <3>3. QED
      BY <1>3, <3>1, <3>2
  <2>5. EndedSet' = EndedSet /\ b \notin EndedSet
    BY <1>1 DEF EndedSet
  <2>6. Calls!Open(b, x)
    BY <2>2, <2>4, <2>5 DEF Calls!Open, Status, EndedSet
  <2>7. QED
    BY <1>3, <2>6 DEF Calls!Next
<1>4. QED
  BY <1>2, <1>3

\* The writer thread answers a call, if the frame is an answer.
LEMMA WriteStep ==
  ASSUME TypeOK, OneAnswer, NEW b \in Cid, Write(b)
  PROVE  [Calls!Next]_(Calls!vars)
<1> DEFINE m == Head(queue[b])
<1>1. /\ UNCHANGED <<used, pc, writer>> /\ writer[b] = "up" /\ queue[b] # <<>>
      /\ queue[b] \in Seq(Msg)
      /\ \A k \in CallId : answers'[b][k] = IF Gives(m, k) THEN answers[b][k] + 1 ELSE answers[b][k]
      /\ \A c \in Cid \ {b} : answers'[c] = answers[c]
  BY DEF Write, Gives, thread, TypeOK, ChannelsOK, HistoryOK
<1>2. (\A c \in Cid : Ended(c)' <=> Ended(c)) /\ ~Ended(b)
  BY <1>1 DEF Ended
<1>3. EndedSet' = EndedSet /\ b \notin EndedSet
  BY <1>2 DEF EndedSet
<1>4. CASE \A k \in CallId : ~Gives(m, k)
  <2>1. ASSUME NEW c \in Cid, NEW k \in CallId PROVE Status'[c][k] = Status[c][k]
    BY <1>1, <1>2, <1>4, StatusSame
  <2>2. Status' = Status
    BY <2>1 DEF Status
  <2>3. QED
    BY <1>3, <2>2 DEF Calls!vars, Status, EndedSet
<1>5. ASSUME NEW k \in CallId, Gives(m, k) PROVE [Calls!Next]_(Calls!vars)
  <2>1. 1 \in CallQueued(b, k)
    BY <1>1, <1>5, TailAt DEF CallQueued
  <2>2. k \in used[b] /\ answers[b][k] = 0 /\ answers'[b][k] = 1
    BY <1>1, <1>5, <2>1 DEF OneAnswer, Settling, NoAnswer
  <2>3. Status[b][k] = "open" /\ Status'[b][k] = "answered"
    BY <1>1, <1>2, <2>2, StatusNow, StatusNext
  <2>4. \A j \in CallId : j # k => answers'[b][j] = answers[b][j]
    BY <1>1, <1>5 DEF Gives
  <2>5. ASSUME NEW c \in Cid, NEW j \in CallId, ~(c = b /\ j = k)
        PROVE  Status'[c][j] = Status[c][j]
    <3>1. answers'[c][j] = answers[c][j]
      BY <1>1, <2>4, <2>5
    <3>2. QED
      BY <1>1, <1>2, <3>1, StatusSame
  <2>6. Status' = [Status EXCEPT ![b] = [j \in CallId |->
          IF j \in {k} \/ @[j] = "answered" THEN "answered" ELSE IF FALSE THEN "closed" ELSE @[j]]]
    <3>1. Status' = [c \in Cid |-> [j \in CallId |->
                      IF c = b /\ j = k THEN "answered" ELSE Status[c][j]]]
      <4>1. \A c \in Cid, j \in CallId :
              Status'[c][j] = IF c = b /\ j = k THEN "answered" ELSE Status[c][j]
        BY <2>3, <2>5
      <4>2. Status' = [c \in Cid |-> [j \in CallId |-> Status'[c][j]]]
        BY DEF Status
      <4>3. QED
        BY <4>1, <4>2
    <3>2. Status = [c \in Cid |-> [j \in CallId |-> Status[c][j]]]
      BY DEF Status
    <3>3. QED
      BY <3>1, <3>2
  <2>7. Calls!Settle(b, {k}, FALSE)
    BY <1>3, <2>3, <2>6 DEF Calls!Settle, Status, EndedSet
  <2>8. QED
    BY <2>7 DEF Calls!Next
<1>6. QED
  BY <1>4, <1>5

\* A thread that goes on, and does not end.
LEMMA GoesOn ==
  ASSUME TypeOK, NEW b \in Cid, NEW l, Goto(b, l), pc[b] # "gone", l # "gone", UNCHANGED writer
  PROVE  \A c \in Cid : Ended(c)' <=> Ended(c)
BY DEF Goto, Ended, TypeOK, ThreadsOK

LEMMA NextCalls == TypeOK /\ OneAnswer /\ [Next]_vars => [Calls!Next]_(Calls!vars)
<1> SUFFICES ASSUME TypeOK, OneAnswer, [Next]_vars PROVE [Calls!Next]_(Calls!vars)
  OBVIOUS
<1>1. ASSUME NEW b \in Cid, Accept(b) \/ CloseEvicted(b) \/ ReaderEnds(b) \/ ReadStray(b)
      PROVE  [Calls!Next]_(Calls!vars)
  <2>1. /\ UNCHANGED <<used, answers, writer>> /\ pc[b] # "gone"
        /\ \E l : l # "gone" /\ Goto(b, l)
    BY <1>1 DEF Accept, CloseEvicted, ReaderEnds, ReadStray, Ignored, channel, history
  <2>2. QED
    BY <2>1, GoesOn, QuietStep
<1>2. ASSUME NEW b \in Cid, Register(b) PROVE [Calls!Next]_(Calls!vars)
  <2>1. /\ UNCHANGED <<used, answers>>
        /\ pc[b] = "waiting" /\ pc' = [pc EXCEPT ![b] = "evicting"]
        /\ writer' = [writer EXCEPT ![b] = "up"]
    BY <1>2 DEF Register, Goto, history
  <2>2. \A c \in Cid : Ended(c)' <=> Ended(c)
    BY <2>1 DEF Ended, TypeOK, ThreadsOK, ChannelsOK
  <2>3. QED
    BY <2>1, <2>2, QuietStep
<1>3. ASSUME NEW b \in Cid, SendChrome(b) \/ SendClient(b) PROVE [Calls!Next]_(Calls!vars)
  <2>1. UNCHANGED <<used, answers, writer>> /\ pc[b] # "gone" /\ Goto(b, "read")
    BY <1>3 DEF SendChrome, SendClient, Holding, history
  <2>2. QED
    BY <2>1, GoesOn, QuietStep
\* A thread or its writer ends.
<1>4. ASSUME NEW b \in Cid, FirstFrameFails(b) \/ Remove(b) PROVE [Calls!Next]_(Calls!vars)
  <2>1. /\ UNCHANGED <<used, answers, writer>> /\ pc[b] # "gone"
        /\ \A c \in Cid \ {b} : pc'[c] = pc[c]
    BY <1>4 DEF FirstFrameFails, Remove, Goto, channel, history, TypeOK, ThreadsOK
  <2>2. QED
    BY <2>1, EndStep DEF Ended
<1>5. ASSUME NEW b \in Cid, WriteFails(b) \/ WriterEnds(b) PROVE [Calls!Next]_(Calls!vars)
  <2>1. /\ UNCHANGED <<used, answers, pc>> /\ writer[b] = "up"
        /\ \A c \in Cid \ {b} : writer'[c] = writer[c]
    BY <1>5 DEF WriteFails, WriterEnds, thread, history, TypeOK, ChannelsOK
  <2>2. QED
    BY <2>1, EndStep DEF Ended
\* A frame arrives.
<1>6. ASSUME NEW b \in Cid, \/ ReadNote(b) \/ ReadResponse(b)
                           \/ \E k \in CallId : ReadPing(b, k) \/ ReadRequest(b, k)
      PROVE  [Calls!Next]_(Calls!vars)
  <2>1. /\ \E x : Frame(b, x)
        /\ \E l : l # "gone" /\ Goto(b, l)
        /\ UNCHANGED <<answers, writer>>
    <3>1. CASE ReadNote(b)
      BY <3>1 DEF ReadNote, Holding, Ignored, channel
    <3>2. CASE ReadResponse(b)
      BY <3>2 DEF ReadResponse, Holding, Ignored, channel
    <3>3. ASSUME NEW k \in CallId, ReadPing(b, k) \/ ReadRequest(b, k)
          PROVE  /\ \E x : Frame(b, x)
                 /\ \E l : l # "gone" /\ Goto(b, l)
                 /\ UNCHANGED <<answers, writer>>
      BY <3>3 DEF ReadPing, ReadRequest, Holding, Ignored, channel
    <3>4. QED
      BY <1>6, <3>1, <3>2, <3>3
  <2>2. pc[b] # "gone"
    BY <2>1 DEF Frame
  <2>3. QED
    BY <2>1, <2>2, GoesOn, FrameStep
<1>7. ASSUME NEW b \in Cid, Write(b) PROVE [Calls!Next]_(Calls!vars)
  BY <1>7, WriteStep
\* The other actions move neither calls nor threads.
<1>8. ASSUME UNCHANGED <<used, answers, pc, writer>> PROVE [Calls!Next]_(Calls!vars)
  BY <1>8, QuietStep DEF Ended
<1>9. ASSUME NEW b \in Cid, PeerCloses(b) PROVE UNCHANGED <<used, answers, pc, writer>>
  BY <1>9 DEF PeerCloses, channel, history
<1>10. ASSUME \/ ChromeReads \/ ChromeNotifies \/ Dispatch \/ TimePasses \/ UNCHANGED vars
              \/ \E i \in Iid : ChromeResponds(i)
              \/ \E s \in AskId : ChromeAsks(s)
       PROVE  UNCHANGED <<used, answers, pc, writer>>
  BY <1>10 DEF ChromeReads, ChromeNotifies, Dispatch, TimePasses, ChromeResponds, ChromeAsks,
               vars, thread, channel, history
<1>11. QED
  BY <1>1, <1>2, <1>3, <1>4, <1>5, <1>6, <1>7, <1>8, <1>9, <1>10 DEF Next, ReadFrame, Send

\* Every step of the relay is a step of CallService or leaves its state alone: a call is
\* answered at most once, on its own connection and only after it was made, and an ended
\* connection answers nothing more; with stalled clients and expiring routes too.  (That
\* a call does not stay open for ever is a run's to show.)
THEOREM RelayImplementsCalls == Spec => Calls!Init /\ [][Calls!Next]_(Calls!vars)
<1>1. Init => TypeOK /\ OneAnswer /\ Calls!Init
  BY InitTypeOK, InitOneAnswer, InitCalls
<1>2. TypeOK /\ OneAnswer /\ [Next]_vars => (TypeOK /\ OneAnswer)'
  BY NextTypeOK, NextOneAnswer
<1>3. TypeOK /\ OneAnswer /\ [Next]_vars => [Calls!Next]_(Calls!vars)
  BY NextCalls
<1>4. QED
  BY <1>1, <1>2, <1>3, PTL DEF Spec

------------------------------------------------------------------------------
(* The rollout tracker.  A read that is not excused starts within the file; what *)
(* is being reported is tracked.                                                 *)
WithinFile == \A t \in located \ excused : offset[t] <= Len(rollout)
EndingIsTracked == ending # NoTurn => ending \in tracked

TrackerInv == RolloutTypeOK /\ WithinFile /\ EndingIsTracked /\ NothingSkipped /\ OncePerRequest

Waiting(s, t) == {i \in 1..Len(s) : s[i] = t}

LEMMA WaitingIs ==
  ASSUME NEW s \in Seq(Turns), NEW t \in Turns
  PROVE  IsFiniteSet(Waiting(s, t)) /\ Cardinality(Waiting(s, t)) \in Nat
<1>1. IsFiniteSet(1..Len(s))
  BY FS_Interval
<1>2. Waiting(s, t) \in SUBSET (1..Len(s))
  BY DEF Waiting
<1> QED
  BY <1>1, <1>2, FS_Subset, FS_CardinalityType

\* An observation that is sent waits once more.
LEMMA WaitsMore ==
  ASSUME NEW s \in Seq(Turns), NEW t \in Turns, NEW u \in Turns
  PROVE  Cardinality(Waiting(Append(s, u), t)) = Cardinality(Waiting(s, t)) + (IF t = u THEN 1 ELSE 0)
<1>1. CASE t = u
  <2>1. Waiting(Append(s, u), t) = Waiting(s, t) \cup {Len(s) + 1}
    BY <1>1 DEF Waiting
  <2>2. Len(s) + 1 \notin Waiting(s, t)
    BY DEF Waiting
  <2> QED
    BY <1>1, <2>1, <2>2, WaitingIs, FS_AddElement
<1>2. CASE t # u
  <2>1. Waiting(Append(s, u), t) = Waiting(s, t)
    BY <1>2 DEF Waiting
  <2> QED
    BY <1>2, <2>1, WaitingIs
<1> QED
  BY <1>1, <1>2

\* One that is taken does not wait any more.
LEMMA WaitsLess ==
  ASSUME NEW s \in Seq(Turns), s # <<>>, NEW t \in Turns
  PROVE  Cardinality(Waiting(s, t)) = Cardinality(Waiting(Tail(s), t)) + (IF t = Head(s) THEN 1 ELSE 0)
<1> DEFINE Later == Waiting(s, t) \ {1}
           f == [i \in Waiting(Tail(s), t) |-> i + 1]
<1>1. Tail(s) \in Seq(Turns) /\ Len(s) \in Nat \ {0} /\ Len(Tail(s)) = Len(s) - 1 /\ Head(s) = s[1]
      /\ \A i \in 1..Len(Tail(s)) : Tail(s)[i] = s[i + 1]
  OBVIOUS
<1>2. f \in Bijection(Waiting(Tail(s), t), Later)
  <2>1. \A i \in Waiting(Tail(s), t) : i + 1 \in Later /\ i \in Nat
    BY <1>1 DEF Waiting
  <2>2. \A j \in Later : j - 1 \in Waiting(Tail(s), t) /\ f[j - 1] = j
    BY <1>1 DEF Waiting
  <2>3. f \in [Waiting(Tail(s), t) -> Later] /\ \A i, j \in Waiting(Tail(s), t) : f[i] = f[j] => i = j
    BY <2>1
  <2>4. f \in Injection(Waiting(Tail(s), t), Later)
    BY <2>3 DEF Injection, IsInjective
  <2>5. f \in Surjection(Waiting(Tail(s), t), Later)
    BY <2>2, <2>3 DEF Surjection
  <2> QED
    BY <2>4, <2>5 DEF Bijection
<1>3. Cardinality(Later) = Cardinality(Waiting(Tail(s), t))
  BY <1>1, <1>2, WaitingIs, FS_Bijection DEF ExistsBijection
<1>4. 1 \in Waiting(s, t) <=> t = Head(s)
  BY <1>1 DEF Waiting
<1>5. Cardinality(Later) = IF 1 \in Waiting(s, t) THEN Cardinality(Waiting(s, t)) - 1 ELSE Cardinality(Waiting(s, t))
  BY WaitingIs, FS_RemoveElement
<1>6. Cardinality(Waiting(s, t)) \in Nat /\ Cardinality(Waiting(Tail(s), t)) \in Nat
  BY <1>1, WaitingIs
<1> QED
  BY <1>3, <1>4, <1>5, <1>6

\* The books of a turn.
Owed(t) == reported[t] + Cardinality(Waiting(inbox, t)) + Cardinality({t} \cap tracked) <= requests[t]

LEMMA BooksAre == OncePerRequest <=> \A t \in Turns : Owed(t)
  BY DEF OncePerRequest, Owed, Waiting

LEMMA TrackedCount ==
  ASSUME NEW t, NEW S
  PROVE  Cardinality({t} \cap S) = IF t \in S THEN 1 ELSE 0
<1>1. CASE t \in S
  <2>1. {t} \cap S = {t}
    BY <1>1
  <2> QED
    BY <1>1, <2>1, FS_Singleton
<1>2. CASE t \notin S
  <2>1. {t} \cap S = {}
    BY <1>2
  <2> QED
    BY <1>2, <2>1, FS_EmptySet
<1> QED
  BY <1>1, <1>2

LEMMA BooksKept ==
  ASSUME OncePerRequest, UNCHANGED <<requests, reported, inbox>>, tracked' \subseteq tracked,
         RolloutTypeOK
  PROVE  OncePerRequest'
<1> SUFFICES ASSUME NEW t \in Turns PROVE Owed(t)'
  BY BooksAre DEF OncePerRequest, Owed, Waiting
<1>1. Owed(t)
  BY BooksAre
<1>2. Cardinality({t} \cap tracked') <= Cardinality({t} \cap tracked)
  <2>1. Cardinality({t} \cap tracked') = IF t \in tracked' THEN 1 ELSE 0
    BY TrackedCount
  <2>2. Cardinality({t} \cap tracked) = IF t \in tracked THEN 1 ELSE 0
    BY TrackedCount
  <2> QED
    BY <2>1, <2>2
<1>3. Cardinality({t} \cap tracked') \in Nat /\ Cardinality({t} \cap tracked) \in Nat
  BY TrackedCount
<1>4. Cardinality(Waiting(inbox, t)) \in Nat /\ reported[t] \in Nat /\ requests[t] \in Nat
  BY WaitingIs DEF RolloutTypeOK
<1> QED
  BY <1>1, <1>2, <1>3, <1>4 DEF Owed

LEMMA TrackerStarts == RolloutInit => TrackerInv
<1> SUFFICES ASSUME RolloutInit PROVE TrackerInv
  OBVIOUS
<1> USE DEF RolloutInit
<1>1. RolloutTypeOK
  <2>1. 0 \in 0..MaxFile /\ <<>> \in Seq(Turns) /\ <<>> \in Seq(HalfLine) /\ Len(<<>>) = 0
    BY RolloutAssumption DEF RolloutAssumption
  <2>2. requests \in [Turns -> Nat] /\ reported \in [Turns -> Nat] /\ offset \in [Turns -> 0..MaxFile]
    BY <2>1
  <2>3. inbox \in Seq(Turns) /\ Len(inbox) <= MaxObserved /\ out \in Seq(Turns) /\ Len(out) <= 1
    BY <2>1, RolloutAssumption DEF RolloutAssumption
  <2>4. rollout \in Seq(HalfLine) /\ Len(rollout) <= MaxFile
    BY <2>1, RolloutAssumption DEF RolloutAssumption
  <2> QED
    BY <2>2, <2>3, <2>4 DEF RolloutTypeOK
<1>2. WithinFile /\ EndingIsTracked /\ NothingSkipped
  BY DEF WithinFile, EndingIsTracked, NothingSkipped
<1>3. \A t \in Turns : Waiting(inbox, t) = {} /\ {t} \cap tracked = {}
  BY DEF Waiting
<1>4. OncePerRequest
  BY <1>3, FS_EmptySet, BooksAre DEF Owed
<1> QED
  BY <1>1, <1>2, <1>4 DEF TrackerInv

\* What most steps leave alone.
LEMMA WithinFrame ==
  ASSUME WithinFile, NothingSkipped, UNCHANGED <<rollout, offset, ending>>, located' \subseteq located,
         located' \cap excused \subseteq excused'
  PROVE  WithinFile' /\ NothingSkipped'
  BY DEF WithinFile, NothingSkipped, ReadsFrom, BeginsEnd

LEMMA TrackerSteps ==
  ASSUME TrackerInv, RolloutNext
  PROVE  TrackerInv'
<1>t. RolloutTypeOK /\ WithinFile /\ EndingIsTracked /\ NothingSkipped /\ OncePerRequest
  BY DEF TrackerInv
<1>1. CASE SessionWrites
  <2>1. PICK h \in HalfLine :
           /\ rollout' = Append(rollout, h) /\ Len(rollout) < MaxFile
    <3>1. rollout # <<>> => [rollout[Len(rollout)] EXCEPT !.last = TRUE] \in HalfLine
      <4>1. rollout # <<>> => rollout[Len(rollout)] \in HalfLine
        BY <1>t DEF RolloutTypeOK
      <4>2. \A h \in HalfLine : [h EXCEPT !.last = TRUE] \in HalfLine
        BY DEF HalfLine
      <4> QED
        BY <4>1, <4>2
    <3>2. \A t \in Turns \cup {NoTurn} : [of |-> t, last |-> FALSE] \in HalfLine
      BY DEF HalfLine
    <3>3. CASE rollout # <<>> /\ ~rollout[Len(rollout)].last
      BY <1>1, <3>1, <3>3 DEF SessionWrites
    <3>4. CASE ~(rollout # <<>> /\ ~rollout[Len(rollout)].last)
      BY <1>1, <3>2, <3>4 DEF SessionWrites
    <3> QED
      BY <3>3, <3>4
  <2>2. /\ rollout' \in Seq(HalfLine) /\ Len(rollout') = Len(rollout) + 1 /\ Len(rollout) \in Nat
        /\ \A i \in 1..Len(rollout) : rollout'[i] = rollout[i]
    BY <1>t, <2>1 DEF RolloutTypeOK
  <2>3. there' = TRUE /\ UNCHANGED <<requests, inbox, trackVars, passing, ending, out, reading, reported, excused>>
    BY <1>1 DEF SessionWrites
  <2>4. RolloutTypeOK'
    BY <1>t, <2>1, <2>2, <2>3, RolloutAssumption DEF RolloutTypeOK, RolloutAssumption, trackVars
  <2>5. WithinFile'
    BY <1>t, <2>2, <2>3 DEF WithinFile, trackVars, RolloutTypeOK
  <2>6. NothingSkipped'
    <3> SUFFICES ASSUME NEW t \in located \ (excused \cup {ending}), NEW i \in 1..(Len(rollout) + 1), BeginsEnd(i, t)'
                 PROVE  i > ReadsFrom(t)'
      BY <2>2, <2>3 DEF NothingSkipped, trackVars
    <3>1. offset[t] \in Nat /\ offset[t] <= Len(rollout) /\ ReadsFrom(t) = offset[t] /\ ReadsFrom(t)' = offset[t]
      BY <1>t, <2>2, <2>3 DEF WithinFile, RolloutTypeOK, ReadsFrom, trackVars
    <3>2. CASE i = Len(rollout) + 1
      BY <2>2, <3>1, <3>2
    <3>3. CASE i # Len(rollout) + 1
      <4>1. i \in 1..Len(rollout) /\ BeginsEnd(i, t)
        BY <2>2, <3>3 DEF BeginsEnd
      <4> QED
        BY <1>t, <3>1, <4>1 DEF NothingSkipped
    <3> QED
      BY <3>2, <3>3
  <2> QED
    BY <1>t, <2>3, <2>4, <2>5, <2>6, BooksKept DEF TrackerInv, EndingIsTracked, trackVars
<1>2. CASE SessionTruncates
  <2>1. /\ rollout' = <<>> /\ excused' = excused \cup {t \in located : offset[t] > 0}
        /\ UNCHANGED <<requests, inbox, trackVars, passing, ending, out, reading, reported, there>>
    BY <1>2 DEF SessionTruncates
  <2>2. rollout' \in Seq(HalfLine) /\ Len(rollout') = 0 /\ 0 <= MaxFile
    BY <2>1, RolloutAssumption DEF RolloutAssumption
  <2>3. RolloutTypeOK'
    BY <1>t, <2>1, <2>2 DEF RolloutTypeOK, trackVars
  <2>4. WithinFile'
    BY <1>t, <2>1, <2>2 DEF WithinFile, trackVars, RolloutTypeOK
  <2>5. NothingSkipped'
    BY <2>2 DEF NothingSkipped
  <2> QED
    BY <1>t, <2>1, <2>3, <2>4, <2>5, BooksKept DEF TrackerInv, EndingIsTracked, trackVars
<1>3. CASE ChromeTakes
  <2>1. Tail(out) \in Seq(Turns) /\ Len(Tail(out)) <= 1
    BY <1>t, <1>3 DEF ChromeTakes, RolloutTypeOK
  <2>2. RolloutTypeOK'
    BY <1>t, <1>3, <2>1 DEF ChromeTakes, RolloutTypeOK, trackVars, fileVars
  <2> QED
    BY <1>t, <1>3, <2>2, WithinFrame, BooksKept DEF TrackerInv, ChromeTakes, EndingIsTracked, trackVars, fileVars
<1>4. CASE ChromeGone
  <2>1. <<>> \in Seq(Turns) /\ Len(<<>>) = 0
    OBVIOUS
  <2>2. RolloutTypeOK'
    <3>1. reading' \in BOOLEAN /\ out' = <<>>
      BY <1>4 DEF ChromeGone
    <3>2. UNCHANGED <<requests, inbox, trackVars, passing, ending, reported, fileVars, excused>>
      BY <1>4 DEF ChromeGone
    <3> QED
      BY <1>t, <2>1, <3>1, <3>2 DEF RolloutTypeOK, trackVars, fileVars
  <2> QED
    BY <1>t, <1>4, <2>2, WithinFrame, BooksKept DEF TrackerInv, ChromeGone, EndingIsTracked, trackVars, fileVars
<1>5. CASE Insert
  <2> DEFINE u == Head(inbox)
  <2>1. /\ inbox # <<>> /\ inbox' = Tail(inbox) /\ u \in Turns /\ inbox' \in Seq(Turns)
        /\ Len(inbox') = Len(inbox) - 1 /\ Len(inbox) \in Nat
    BY <1>t, <1>5 DEF Insert, RolloutTypeOK
  <2>2. \/ u \notin tracked /\ tracked' = tracked \cup {u} /\ offset' = [offset EXCEPT ![u] = 0]
        \/ UNCHANGED <<tracked, offset>>
    BY <1>5 DEF Insert
  <2>3. UNCHANGED <<requests, located, old, passing, ending, out, reading, reported, fileVars, excused>>
    BY <1>5 DEF Insert
  <2> HIDE DEF u
  <2>4. RolloutTypeOK'
    <3>1. tracked' \in SUBSET Turns /\ tracked \subseteq tracked'
      BY <1>t, <2>1, <2>2 DEF RolloutTypeOK
    <3>2. offset' \in [Turns -> 0..MaxFile]
      <4>1. 0 \in 0..MaxFile /\ offset \in [Turns -> 0..MaxFile]
        BY <1>t, RolloutAssumption DEF RolloutTypeOK, RolloutAssumption
      <4> QED
        BY <2>2, <4>1
    <3>3. Len(inbox') <= MaxObserved
      BY <1>t, <2>1, RolloutAssumption DEF RolloutTypeOK, RolloutAssumption
    <3> QED
      BY <1>t, <2>1, <2>3, <3>1, <3>2, <3>3 DEF RolloutTypeOK, fileVars
  <2>5. WithinFile' /\ NothingSkipped'
    <3>1. \A t \in located : offset'[t] = offset[t]
      BY <1>t, <2>2, <2>1 DEF RolloutTypeOK
    <3> QED
      BY <1>t, <2>3, <3>1 DEF WithinFile, NothingSkipped, ReadsFrom, BeginsEnd, fileVars
  <2>6. ASSUME NEW t \in Turns PROVE Owed(t)'
    <3>1. Owed(t)
      BY <1>t, BooksAre
    <3>2. Cardinality(Waiting(inbox, t)) = Cardinality(Waiting(inbox', t)) + (IF t = u THEN 1 ELSE 0)
      BY <1>t, <2>1, WaitsLess DEF u, RolloutTypeOK
    <3>3. Cardinality({t} \cap tracked) = IF t \in tracked THEN 1 ELSE 0
      BY TrackedCount
    <3>4. Cardinality({t} \cap tracked') = IF t \in tracked' THEN 1 ELSE 0
      BY TrackedCount
    <3>5. /\ Cardinality(Waiting(inbox, t)) \in Nat /\ Cardinality(Waiting(inbox', t)) \in Nat
          /\ reported[t] \in Nat /\ requests[t] \in Nat
      BY <1>t, <2>1, WaitingIs DEF RolloutTypeOK
    <3>6. t \in tracked' => t \in tracked \/ t = u
      BY <2>2
    <3> QED
      BY <2>3, <3>1, <3>2, <3>3, <3>4, <3>5, <3>6 DEF Owed
  <2>7. OncePerRequest'
    BY <2>6 DEF OncePerRequest, Owed, Waiting
  <2> QED
    BY <1>t, <2>2, <2>3, <2>4, <2>5, <2>7 DEF TrackerInv, EndingIsTracked
<1>6. CASE PassBegins
  <2>1. RolloutTypeOK'
    BY <1>t, <1>6 DEF PassBegins, RolloutTypeOK, trackVars, fileVars
  <2> QED
    BY <1>t, <1>6, <2>1, WithinFrame, BooksKept DEF TrackerInv, PassBegins, EndingIsTracked, trackVars, fileVars
<1>7. CASE TurnEnded
  <2> DEFINE e == ending
  <2>1. /\ e # NoTurn /\ e \in tracked /\ e \in Turns /\ ending' = NoTurn
        /\ tracked' = tracked \ {e} /\ located' = located \ {e} /\ old' = old \ {e}
        /\ passing' = passing \ {e} /\ excused' = excused \ {e}
        /\ UNCHANGED <<requests, inbox, offset, reading, fileVars>>
    BY <1>t, <1>7 DEF TurnEnded, Forgets, EndingIsTracked, RolloutTypeOK
  <2>2. \/ out = <<>> /\ out' = Append(out, e) /\ reported' = [reported EXCEPT ![e] = @ + 1]
        \/ UNCHANGED <<out, reported>>
    BY <1>7 DEF TurnEnded
  <2>3. out' \in Seq(Turns) /\ Len(out') <= 1
    BY <1>t, <2>1, <2>2 DEF RolloutTypeOK
  <2>4. reported' \in [Turns -> Nat]
    <3>1. reported \in [Turns -> Nat] /\ reported[e] + 1 \in Nat
      BY <1>t, <2>1 DEF RolloutTypeOK
    <3> QED
      BY <2>2, <3>1
  <2>5. RolloutTypeOK'
    BY <1>t, <2>1, <2>3, <2>4 DEF RolloutTypeOK, fileVars
  <2>6. WithinFile' /\ NothingSkipped'
    BY <1>t, <2>1 DEF WithinFile, NothingSkipped, ReadsFrom, BeginsEnd, fileVars
  <2>7. ASSUME NEW t \in Turns PROVE Owed(t)'
    <3>1. Owed(t)
      BY <1>t, BooksAre
    <3>2. Cardinality({t} \cap tracked) = IF t \in tracked THEN 1 ELSE 0
      BY TrackedCount
    <3>3. Cardinality({t} \cap tracked') = IF t \in tracked' THEN 1 ELSE 0
      BY TrackedCount
    <3>4. /\ Cardinality(Waiting(inbox, t)) \in Nat
          /\ reported[t] \in Nat /\ requests[t] \in Nat
      BY <1>t, WaitingIs DEF RolloutTypeOK
    <3>5. reported'[t] = reported[t] \/ (t = e /\ reported'[t] = reported[t] + 1)
      BY <1>t, <2>1, <2>2 DEF RolloutTypeOK
    <3> QED
      BY <2>1, <3>1, <3>2, <3>3, <3>4, <3>5 DEF Owed
  <2>8. OncePerRequest'
    BY <2>7 DEF OncePerRequest, Owed, Waiting
  <2> QED
    BY <2>1, <2>5, <2>6, <2>8 DEF TrackerInv, EndingIsTracked
<1>8. ASSUME NEW u \in Turns, Observe(u) PROVE TrackerInv'
  <2>1. /\ requests' = [requests EXCEPT ![u] = @ + 1] /\ inbox' = Append(inbox, u) /\ Len(inbox) < MaxObserved
        /\ UNCHANGED <<trackVars, passing, ending, out, reading, reported, fileVars, excused>>
    BY <1>8 DEF Observe
  <2>2. inbox' \in Seq(Turns) /\ Len(inbox') = Len(inbox) + 1 /\ requests' \in [Turns -> Nat] /\ Len(inbox) \in Nat
    BY <1>t, <2>1 DEF RolloutTypeOK
  <2>3. RolloutTypeOK'
    BY <1>t, <2>1, <2>2, RolloutAssumption DEF RolloutTypeOK, trackVars, fileVars, RolloutAssumption
  <2>4. ASSUME NEW t \in Turns PROVE Owed(t)'
    <3>1. Owed(t)
      BY <1>t, BooksAre
    <3>2. Cardinality(Waiting(inbox', t)) = Cardinality(Waiting(inbox, t)) + (IF t = u THEN 1 ELSE 0)
      BY <1>t, <2>1, WaitsMore DEF RolloutTypeOK
    <3>3. Cardinality({t} \cap tracked) = IF t \in tracked THEN 1 ELSE 0
      BY TrackedCount
    <3>4. /\ Cardinality(Waiting(inbox, t)) \in Nat
          /\ reported[t] \in Nat /\ requests[t] \in Nat /\ requests'[t] = requests[t] + (IF t = u THEN 1 ELSE 0)
      BY <1>t, <2>1, WaitingIs DEF RolloutTypeOK
    <3> QED
      BY <2>1, <3>1, <3>2, <3>3, <3>4 DEF Owed, trackVars
  <2>5. OncePerRequest'
    BY <2>4 DEF OncePerRequest, Owed, Waiting
  <2> QED
    BY <1>t, <2>1, <2>3, <2>5, WithinFrame DEF TrackerInv, EndingIsTracked, trackVars, fileVars
<1>9. ASSUME NEW u \in Turns, Ages(u) PROVE TrackerInv'
  <2>1. RolloutTypeOK'
    BY <1>t, <1>9 DEF Ages, RolloutTypeOK, fileVars
  <2> QED
    BY <1>t, <1>9, <2>1, WithinFrame, BooksKept DEF TrackerInv, Ages, EndingIsTracked, fileVars
<1>10. ASSUME NEW u \in Turns, Expires(u) PROVE TrackerInv'
  <2>1. /\ ending = NoTurn /\ tracked' = tracked \ {u} /\ located' = located \ {u} /\ old' = old \ {u}
        /\ passing' = passing \ {u} /\ excused' = excused \ {u}
        /\ UNCHANGED <<requests, inbox, offset, ending, out, reading, reported, fileVars>>
    BY <1>10 DEF Expires, Forgets, LooksAt
  <2>2. RolloutTypeOK'
    BY <1>t, <2>1 DEF RolloutTypeOK, fileVars
  <2> QED
    BY <1>t, <2>1, <2>2, WithinFrame, BooksKept DEF TrackerInv, EndingIsTracked, fileVars
<1>11. ASSUME NEW u \in Turns, Discover(u) PROVE TrackerInv'
  <2>1. /\ ending = NoTurn /\ u \in passing /\ u \notin located
        /\ UNCHANGED <<requests, inbox, tracked, old, ending, out, reading, reported, fileVars>>
    BY <1>11 DEF Discover, LooksAt
  <2>2. CASE ~there
    <3>1. passing' = passing \ {u} /\ UNCHANGED <<located, offset, excused>>
      BY <1>11, <2>2 DEF Discover
    <3>2. RolloutTypeOK'
      BY <1>t, <2>1, <3>1 DEF RolloutTypeOK, fileVars
    <3> QED
      BY <1>t, <2>1, <3>1, <3>2, WithinFrame, BooksKept DEF TrackerInv, EndingIsTracked, fileVars
  <2>3. CASE there
    <3>1. PICK o \in {FirstOffset, 0} :
             /\ located' = located \cup {u} /\ offset' = [offset EXCEPT ![u] = o]
             /\ excused' = excused \cup {v \in {u} : \E i \in 1..o : BeginsEnd(i, v)}
             /\ UNCHANGED passing
      BY <1>11, <2>3 DEF Discover
    <3>2. o \in Nat /\ o <= Len(rollout) /\ Len(rollout) \in Nat /\ o \in 0..MaxFile
      BY <1>t, RolloutAssumption DEF FirstOffset, RolloutTypeOK, RolloutAssumption
    <3>3. RolloutTypeOK'
      BY <1>t, <2>1, <3>1, <3>2 DEF RolloutTypeOK, fileVars
    <3>4. offset'[u] = o /\ \A t \in located : offset'[t] = offset[t]
      BY <1>t, <2>1, <3>1 DEF RolloutTypeOK
    <3>5. WithinFile'
      BY <1>t, <2>1, <3>1, <3>2, <3>4 DEF WithinFile, fileVars
    <3>6. NothingSkipped'
      <4> SUFFICES ASSUME NEW t \in located' \ (excused' \cup {ending'}), NEW i \in 1..Len(rollout), BeginsEnd(i, t)
                   PROVE  i > ReadsFrom(t)'
        BY <2>1 DEF NothingSkipped, fileVars, BeginsEnd
      <4>1. CASE t = u
        <5>1. ReadsFrom(t)' = o
          BY <2>1, <3>2, <3>4, <4>1 DEF ReadsFrom, fileVars
        <5>2. i \notin 1..o
          BY <3>1, <4>1
        <5> QED
          BY <3>2, <5>1, <5>2
      <4>2. CASE t # u
        BY <1>t, <2>1, <3>1, <3>4, <4>2 DEF NothingSkipped, ReadsFrom, fileVars
      <4> QED
        BY <4>1, <4>2
    <3> QED
      BY <1>t, <2>1, <3>3, <3>5, <3>6, BooksKept DEF TrackerInv, EndingIsTracked
  <2> QED
    BY <2>2, <2>3
<1>12. ASSUME NEW u \in Turns, Drain(u) PROVE TrackerInv'
  <2> DEFINE from == ReadsFrom(u)
             o == NextOffset(from)
  <2>1. /\ ending = NoTurn /\ u \in passing /\ u \in located \ old /\ offset' = [offset EXCEPT ![u] = o]
        /\ excused' = IF from = 0 THEN excused \ {u} ELSE excused
        /\ UNCHANGED <<requests, inbox, tracked, located, old, out, reading, reported, fileVars>>
    BY <1>12 DEF Drain, LooksAt
  <2>2. \/ ending' = u /\ UNCHANGED passing
        \/ /\ passing' = passing \ {u} /\ UNCHANGED ending
           /\ \A i \in (from + 1)..Len(rollout) : ~EndsAt(i, u)
    BY <1>12 DEF Drain
  <2>3. from \in Nat /\ from <= Len(rollout) /\ Len(rollout) \in Nat /\ Len(rollout) <= MaxFile
    BY <1>t DEF ReadsFrom, RolloutTypeOK
  <2>4. /\ o \in Nat /\ o <= Len(rollout)
        /\ \/ o = Len(rollout) /\ (Len(rollout) > from => rollout[Len(rollout)].last)
           \/ o = Len(rollout) - 1 /\ Len(rollout) > from
    BY <2>3 DEF NextOffset
  <2> HIDE DEF from, o
  <2>5. o \in 0..MaxFile
    BY <2>3, <2>4, RolloutAssumption DEF RolloutAssumption
  <2>6. RolloutTypeOK'
    BY <1>t, <2>1, <2>2, <2>5 DEF RolloutTypeOK, fileVars
  <2>7. offset'[u] = o /\ \A t \in located \ {u} : offset'[t] = offset[t]
    BY <1>t, <2>1 DEF RolloutTypeOK
  <2>8. WithinFile'
    BY <1>t, <2>1, <2>4, <2>7 DEF WithinFile, fileVars
  <2>9. NothingSkipped'
    <3> SUFFICES ASSUME NEW t \in located \ (excused' \cup {ending'}), NEW i \in 1..Len(rollout), BeginsEnd(i, t)
                 PROVE  i > ReadsFrom(t)'
      BY <2>1 DEF NothingSkipped, fileVars, BeginsEnd
    <3>1. CASE t # u
      BY <1>t, <2>1, <2>7, <3>1, RolloutAssumption DEF NothingSkipped, ReadsFrom, fileVars, RolloutTypeOK, RolloutAssumption, NoTurn
    <3>2. CASE t = u
      <4>1. ReadsFrom(t)' = o
        BY <2>1, <2>3, <2>4, <2>7, <3>2 DEF ReadsFrom, fileVars
      <4>2. i > from
        <5>1. CASE from = 0
          BY <5>1
        <5>2. CASE from # 0
          <6>1. t \in located \ (excused \cup {ending})
            BY <1>t, <2>1, <5>2, RolloutAssumption DEF RolloutTypeOK, RolloutAssumption, NoTurn
          <6> QED
            BY <1>t, <3>2, <6>1 DEF NothingSkipped, from
        <5> QED
          BY <5>1, <5>2
      <4>3. ~EndsAt(i, u)
        BY <2>2, <2>3, <3>2, <4>2
      <4>4. i = Len(rollout) /\ ~rollout[i].last
        BY <2>3, <3>2, <4>3 DEF EndsAt, BeginsEnd
      <4> QED
        BY <2>3, <2>4, <4>1, <4>2, <4>4
    <3> QED
      BY <3>1, <3>2
  <2>10. EndingIsTracked'
    BY <1>t, <2>1, <2>2 DEF EndingIsTracked, RolloutTypeOK
  <2> QED
    BY <1>t, <2>1, <2>6, <2>8, <2>9, <2>10, BooksKept DEF TrackerInv
<1>13. ASSUME NEW u \in Turns, DrainFails(u) PROVE TrackerInv'
  <2>1. RolloutTypeOK'
    BY <1>t, <1>13 DEF DrainFails, RolloutTypeOK, trackVars, fileVars
  <2> QED
    BY <1>t, <1>13, <2>1, WithinFrame, BooksKept DEF TrackerInv, DrainFails, EndingIsTracked, trackVars, fileVars
<1> QED
  BY <1>1, <1>2, <1>3, <1>4, <1>5, <1>6, <1>7, <1>8, <1>9, <1>10, <1>11, <1>12, <1>13 DEF RolloutNext

RolloutSpec == RolloutInit /\ [][RolloutNext]_rolloutVars

\* Every step of the tracker keeps what a report relies on: however the halves of a line fall
\* between two reads, no line is skipped that is not excused, and every turnEnded goes back
\* to a request of its own (process_observed, drain_rollout_file).
THEOREM ReportsAlwaysSound == RolloutSpec => [](RolloutTypeOK /\ ReportsAreSound)
<1>1. TrackerInv => RolloutTypeOK /\ ReportsAreSound
  BY DEF TrackerInv, ReportsAreSound
<1>2. TrackerInv /\ UNCHANGED rolloutVars => TrackerInv'
  <2> SUFFICES ASSUME TrackerInv, UNCHANGED rolloutVars PROVE TrackerInv'
    OBVIOUS
  <2>1. RolloutTypeOK'
    BY DEF TrackerInv, RolloutTypeOK, rolloutVars
  <2> QED
    BY <2>1, WithinFrame, BooksKept DEF TrackerInv, EndingIsTracked, rolloutVars
<1> QED
  BY <1>1, <1>2, TrackerStarts, TrackerSteps, PTL DEF RolloutSpec

\* Beside the relay, too, with which it shares only the channel to Chrome, the tracker skips
\* no line that is not excused and reports a turn to a request of its own.
THEOREM TracksTurnsSafely == MCSpec => [](RolloutTypeOK /\ ReportsAreSound)
<1>1. MCInit => RolloutInit
  BY DEF MCInit
<1>2. [MCNext]_allVars => [RolloutNext]_rolloutVars
  BY DEF MCNext, RolloutOnly, allVars, rolloutVars
<1>3. MCSpec => RolloutSpec
  BY <1>1, <1>2, PTL DEF MCSpec, RolloutSpec
<1> QED
  BY <1>3, ReportsAlwaysSound
=============================================================================
