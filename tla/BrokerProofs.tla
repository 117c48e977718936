---------------------------- MODULE BrokerProofs ----------------------------
(***************************************************************************)
(* Proofs about the app-server broker, for any number of panels,           *)
(* connections, ids and capacities.                                        *)
(***************************************************************************)
EXTENDS Broker, FiniteSetTheorems, TLAPS

\* A set of positions of a queue has a number of elements.
LEMMA FrameCount ==
  ASSUME NEW q \in Seq(PanelMsg), NEW S \in SUBSET (DOMAIN q)
  PROVE  Cardinality(S) \in Nat
<1>1. DOMAIN q = 1..Len(q) /\ Len(q) \in Nat
  OBVIOUS
<1>2. IsFiniteSet(DOMAIN q)
  BY <1>1, FS_Interval
<1>3. QED
  BY <1>2, FS_Subset, FS_CardinalityType

-----------------------------------------------------------------------------
(* What the constructors of messages and routes build. *)

LEMMA HandFields ==
  ASSUME NEW h \in Hand
  PROVE  /\ h.kind \in {"none", "note", "request", "initialize", "response"}
         /\ h.iid \in Nat
         /\ h.kind \in {"request", "initialize"} => h.id \in OrigId /\ h.id \in Nat
BY BrokerAssumption DEF Hand

LEMMA CarryCall ==
  ASSUME NEW kind \in {"request", "initialize"}, NEW k \in OrigId, NEW i \in Nat
  PROVE  Carry(kind, k, i) \in Hand
BY DEF Carry, Hand

LEMMA CarryOther ==
  ASSUME NEW kind \in {"none", "note", "response"}, NEW k \in ServerId \cup Nat, NEW i \in Nat
  PROVE  Carry(kind, k, i) \in Hand
BY DEF Carry, Hand

LEMMA NoHandOK == NoHand \in Hand
BY CarryOther DEF NoHand

LEMMA RouteFields ==
  ASSUME NEW K, NEW i \in Nat, NEW g \in Conn, NEW k \in K
  PROVE  RouteOf(i, g, k) \in Route(K) /\ CallOf(i, g, k) \in Call(K)
BY DEF RouteOf, Route, CallOf, Call

LEMMA DeliveryFields ==
  ASSUME NEW g \in Conn, NEW m \in PanelMsg
  PROVE  To(g, m) \in Delivery
BY DEF To, Delivery

LEMMA MessageOK ==
  /\ Note \in PanelMsg
  /\ \A k \in Nat : Ask(k) \in PanelMsg /\ ErrorFor(k) \in PanelMsg
  /\ \A k, i \in Nat : Answer(k, i) \in PanelMsg
BY DEF Note, Ask, ErrorFor, Answer, PanelMsg

LEMMA JobFields ==
  ASSUME NEW stage \in {"send", "evict"}, NEW g \in Conn, NEW h \in Conn, NEW m \in PanelMsg
  PROVE  JobOf(stage, g, h, m) \in Job
BY DEF JobOf, Job

LEMMA NoJobOK == NoJob \in Job
BY MessageOK DEF NoJob, JobOf, Job

LEMMA AppendOK ==
  ASSUME NEW S, NEW q \in Seq(S), NEW x \in S
  PROVE  Append(q, x) \in Seq(S) /\ Len(Append(q, x)) = Len(q) + 1 /\ Len(q) \in Nat
OBVIOUS

LEMMA RoutesMade ==
  ASSUME pending' \in SUBSET Route(OrigId), serverPending' \in SUBSET Route(ServerId),
         NEW i \in Nat, NEW r \in Nat, NEW W \in SUBSET Route(OrigId),
         initialize' = Initialize(i, r, W), nextReq' \in Nat \ {0}
  PROVE  RoutesOK'
BY DEF RoutesOK, Initialize

-----------------------------------------------------------------------------
(* What an action leaves alone keeps its type. *)

LEMMA RegistryFrame == RegistryOK /\ UNCHANGED registry => RegistryOK'
BY DEF RegistryOK, registry

LEMMA RoutesFrame == RoutesOK /\ UNCHANGED <<routes, nextReq>> => RoutesOK'
BY DEF RoutesOK, routes

LEMMA SendingFrame == SendingOK /\ UNCHANGED sending => SendingOK'
BY DEF SendingOK, sending

LEMMA ThreadsFrame == ThreadsOK /\ UNCHANGED <<pc, hand>> => ThreadsOK'
BY DEF ThreadsOK

LEMMA ChildFrame == ChildOK /\ UNCHANGED child => ChildOK'
BY DEF ChildOK, child

LEMMA HistoryFrame == HistoryOK /\ UNCHANGED history => HistoryOK'
BY DEF HistoryOK, history

\* The routes that prune and remove_routes leave are routes.
LEMMA PruneOK == RoutesOK /\ Prune /\ UNCHANGED nextReq => RoutesOK'
BY DEF RoutesOK, Prune, Pruned, Fresh, WaitersOnly, Initialize

LEMMA DropOK ==
  ASSUME RegistryOK, RoutesOK, NEW g \in Conn, Drop(g), UNCHANGED nextReq
  PROVE  RegistryOK' /\ RoutesOK'
<1>1. CASE Current(g)
  <2>1. owner[g] \in ClientId
    BY <1>1 DEF Current
  <2>2. RegistryOK'
    <3>1. clients' = [clients EXCEPT ![owner[g]] = 0] /\ alive' = [alive EXCEPT ![g] = FALSE]
          /\ UNCHANGED <<owner, nextConn>>
      BY <1>1 DEF Drop
    <3>2. 0 \in 0..MaxConn
      BY BrokerAssumption
    <3>3. QED
      BY <2>1, <3>1, <3>2 DEF RegistryOK
  <2>3. RoutesOK'
    BY <1>1 DEF RoutesOK, Drop, Others, WaitersOnly, Initialize
  <2>4. QED
    BY <2>2, <2>3
<1>2. CASE ~Current(g)
  BY <1>2, RegistryFrame, RoutesFrame DEF Drop, routes
<1>3. QED
  BY <1>1, <1>2

LEMMA DeliveredOK ==
  ASSUME ThreadsOK, NEW t \in Thread, NEW ok \in BOOLEAN, Delivered(t, ok)
  PROVE  ThreadsOK'
<1>1. CASE t # Reader /\ pc[t] = "replay"
  <2>1. t \in Conn /\ NoHand \in Hand
    BY <1>1 DEF Thread, NoHand, Carry, Hand
  <2>2. hand' \in [Conn -> Hand]
    BY <1>1, <2>1 DEF Delivered, ThreadsOK
  <2>3. pc' = [pc EXCEPT ![t] = IF ok THEN "top" ELSE "error"]
    BY <1>1 DEF Delivered, Goto
  <2>4. QED
    BY <2>1, <2>2, <2>3 DEF ThreadsOK
<1>2. CASE ~(t # Reader /\ pc[t] = "replay")
  BY <1>2, ThreadsFrame DEF Delivered
<1>3. QED
  BY <1>1, <1>2

-----------------------------------------------------------------------------
LEMMA InitTypeOK == Init => TypeOK
<1> SUFFICES ASSUME Init PROVE TypeOK
  OBVIOUS
<1> USE BrokerAssumption DEF Init
<1>1. RegistryOK
  BY DEF RegistryOK, Conn
<1>2. RoutesOK
  BY DEF RoutesOK, Initialize
<1>3. NoJob \in Job
  BY DEF Job, NoJob, JobOf, Note, PanelMsg
<1>4. SendingOK
  BY <1>3 DEF SendingOK, Conn
<1>5. ThreadsOK
  BY DEF ThreadsOK, Hand, NoHand, Carry
<1>6. ChildOK
  BY DEF ChildOK
<1>7. HistoryOK
  BY DEF HistoryOK
<1>8. QED
  BY <1>1, <1>2, <1>4, <1>5, <1>6, <1>7 DEF TypeOK

LEMMA NextTypeOK == TypeOK /\ [Next]_vars => TypeOK'
<1> SUFFICES ASSUME TypeOK, [Next]_vars PROVE TypeOK'
  OBVIOUS
<1>0. RegistryOK /\ RoutesOK /\ SendingOK /\ ThreadsOK /\ ChildOK /\ HistoryOK
  BY DEF TypeOK
<1> USE BrokerAssumption DEF Thread, Reader
<1>1. ASSUME NEW c \in ClientId, Connect(c) PROVE TypeOK'
  <2>1. RegistryOK'
    <3>1. /\ nextConn \in Conn /\ nextConn' = nextConn + 1
          /\ clients' = [clients EXCEPT ![c] = nextConn]
          /\ owner' = [owner EXCEPT ![nextConn] = c]
          /\ alive' = AliveAfter(nextConn, clients[c])
      BY <1>0, <1>1 DEF Connect, Register, RegistryOK, Conn
    <3>2. AliveAfter(nextConn, clients[c]) \in [Conn -> BOOLEAN]
      BY <1>0 DEF AliveAfter, RegistryOK
    <3>3. QED
      BY <1>0, <3>1, <3>2 DEF RegistryOK, Conn
  <2>2. RoutesOK'
    BY <1>0, <1>1 DEF Connect, RoutesOK, Register, Others, Fresh, WaitersOnly, Initialize
  <2>3. ThreadsOK'
    BY <1>0, <1>1 DEF Connect, ThreadsOK, Register, Goto
  <2>4. SendingOK' /\ ChildOK' /\ HistoryOK'
    BY <1>0, <1>1, SendingFrame, ChildFrame, HistoryFrame DEF Connect, registry, routes, sending, child, history, Register
  <2> QED
    BY <2>1, <2>2, <2>3, <2>4 DEF TypeOK
<1>2. ASSUME NEW c \in ClientId, ConnectRejected(c) PROVE TypeOK'
  <2>1. RoutesOK'
    BY <1>0, <1>2, PruneOK DEF ConnectRejected, RoutesOK
  <2>2. RegistryOK' /\ SendingOK' /\ ThreadsOK' /\ ChildOK' /\ HistoryOK'
    BY <1>0, <1>2, RegistryFrame, SendingFrame, ThreadsFrame, ChildFrame, HistoryFrame DEF ConnectRejected, registry, routes, sending, child, history, Prune
  <2> QED
    BY <2>1, <2>2 DEF TypeOK
<1>3. ASSUME NEW g \in Conn, Poll(g) PROVE TypeOK'
  <2>1. SendingOK'
    <3>1. queue' = queue \/ queue' = [queue EXCEPT ![g] = <<>>]
      BY <1>3 DEF Poll
    <3>2. UNCHANGED <<out, job>>
      BY <1>3 DEF Poll
    <3> DEFINE empty == <<>>
    <3>3. empty \in Seq(PanelMsg) /\ Len(empty) <= QueueCap
      OBVIOUS
    <3>4. queue' = queue \/ queue' = [queue EXCEPT ![g] = empty]
      BY <3>1
    <3> HIDE DEF empty
    <3>5. QED
      BY <1>0, <3>2, <3>3, <3>4 DEF SendingOK
  <2>2. ThreadsOK'
    BY <1>0, <1>3 DEF Poll, ThreadsOK, Goto
  <2>3. HistoryOK'
    <3> DEFINE counted == [k \in OrigId |->
                 answers[g][k] + Cardinality({i \in DOMAIN queue[g] :
                                   IsAnswer(queue[g][i]) /\ queue[g][i].id = k})]
    <3>1. answers' = answers \/ answers' = [answers EXCEPT ![g] = counted]
      BY <1>3 DEF Poll
    <3>2. UNCHANGED <<used, asked, routed>>
      BY <1>3 DEF Poll
    <3>3. ASSUME NEW k \in OrigId PROVE counted[k] \in Nat
      <4>1. queue[g] \in Seq(PanelMsg) /\ answers[g][k] \in Nat
        BY <1>0 DEF SendingOK, HistoryOK
      <4>2. Cardinality({i \in DOMAIN queue[g] :
                           IsAnswer(queue[g][i]) /\ queue[g][i].id = k}) \in Nat
        BY <4>1, FrameCount
      <4>3. QED
        BY <4>1, <4>2
    <3>4. counted \in [OrigId -> Nat]
      BY <3>3
    <3> HIDE DEF counted
    <3>5. QED
      BY <1>0, <3>1, <3>2, <3>4 DEF HistoryOK
  <2>4. RegistryOK' /\ RoutesOK' /\ ChildOK'
    BY <1>0, <1>3, RegistryFrame, RoutesFrame, ChildFrame DEF Poll, registry, routes, sending, child, history
  <2> QED
    BY <2>1, <2>2, <2>3, <2>4 DEF TypeOK
<1>4. ASSUME NEW g \in Conn, RouteRequest(g) PROVE TypeOK'
  <2>1. RoutesOK'
    <3>1. hand[g] \in Hand /\ hand[g].kind = "request"
      BY <1>0, <1>4 DEF RouteRequest, ThreadsOK
    <3>2. RouteOf(nextReq, g, hand[g].id) \in Route(OrigId)
      BY <1>0, <3>1, HandFields, RouteFields DEF RoutesOK
    <3>3. pending' \subseteq pending \cup {RouteOf(nextReq, g, hand[g].id)}
      BY <1>4 DEF RouteRequest, Fresh
    <3>4. serverPending' \subseteq serverPending /\ nextReq' \in {nextReq, nextReq + 1}
      BY <1>4 DEF RouteRequest, Fresh
    <3>5. initialize' = Initialize(initialize.internal, initialize.response,
                                   Fresh(initialize.waiters))
      BY <1>4 DEF RouteRequest, Pruned, WaitersOnly
    <3>6. Fresh(initialize.waiters) \in SUBSET Route(OrigId)
      BY <1>0 DEF RoutesOK, Fresh
    <3>7. QED
      BY <1>0, <3>2, <3>3, <3>4, <3>5, <3>6, RoutesMade DEF RoutesOK
  <2>2. ThreadsOK'
    <3>1. hand[g] \in Hand /\ hand[g].kind = "request"
      BY <1>0, <1>4 DEF RouteRequest, ThreadsOK
    <3>2. Carry(hand[g].kind, hand[g].id, nextReq) \in Hand
      BY <1>0, <3>1, HandFields, CarryCall DEF RoutesOK
    <3>3. hand' = hand \/ hand' = [hand EXCEPT ![g] = Carry(hand[g].kind, hand[g].id, nextReq)]
      BY <1>4 DEF RouteRequest
    <3>4. pc' = [pc EXCEPT ![g] = "send"] \/ pc' = [pc EXCEPT ![g] = "error"]
      BY <1>4 DEF RouteRequest, Goto
    <3>5. QED
      BY <1>0, <3>2, <3>3, <3>4 DEF ThreadsOK
  <2>3. HistoryOK'
    <3>1. hand[g] \in Hand /\ hand[g].kind = "request"
      BY <1>0, <1>4 DEF RouteRequest, ThreadsOK
    <3>2. CallOf(nextReq, g, hand[g].id) \in Call(OrigId)
      BY <1>0, <3>1, HandFields, RouteFields DEF RoutesOK
    <3>3. asked' \subseteq asked \cup {CallOf(nextReq, g, hand[g].id)}
      BY <1>4 DEF RouteRequest
    <3>4. UNCHANGED <<used, routed, answers>>
      BY <1>4 DEF RouteRequest
    <3>5. QED
      BY <1>0, <3>2, <3>3, <3>4 DEF HistoryOK
  <2>4. RegistryOK' /\ SendingOK' /\ ChildOK'
    BY <1>0, <1>4, RegistryFrame, SendingFrame, ChildFrame DEF RouteRequest, registry, routes, sending, child, history
  <2> QED
    BY <2>1, <2>2, <2>3, <2>4 DEF TypeOK
<1>5. ASSUME NEW g \in Conn, RouteInitialize(g) PROVE TypeOK'
  <2>1. RoutesOK'
    <3>1. hand[g] \in Hand /\ hand[g].kind = "initialize"
      BY <1>0, <1>5 DEF RouteInitialize, ThreadsOK
    <3>2. hand[g].id \in OrigId /\ hand[g].id \in Nat
      BY <3>1, HandFields
    <3>3. Waiting(g, hand[g].id) \in SUBSET Route(OrigId)
      BY <1>0, <3>2, RouteFields DEF RoutesOK, Waiting, Others
    <3>4. UNCHANGED <<pending, serverPending>>
      BY <1>5 DEF RouteInitialize
    <3>5. \/ UNCHANGED <<initialize, nextReq>>
          \/ /\ initialize' = Initialize(initialize.internal, initialize.response, Waiting(g, hand[g].id))
             /\ UNCHANGED nextReq
          \/ /\ initialize' = Initialize(nextReq, initialize.response, Waiting(g, hand[g].id))
             /\ nextReq' = nextReq + 1
      BY <1>5 DEF RouteInitialize, WaitersOnly
    <3>6. QED
      BY <1>0, <3>3, <3>4, <3>5, RoutesMade DEF RoutesOK
  <2>2. SendingOK'
    <3>1. hand[g] \in Hand /\ hand[g].kind = "initialize"
      BY <1>0, <1>5 DEF RouteInitialize, ThreadsOK
    <3>2. hand[g].id \in OrigId /\ hand[g].id \in Nat
      BY <3>1, HandFields
    <3>3. To(g, Answer(hand[g].id, initialize.response)) \in Delivery
      BY <1>0, <3>2, MessageOK, DeliveryFields DEF RoutesOK
    <3>4. out' = out \/ out' = [out EXCEPT ![g] = {To(g, Answer(hand[g].id, initialize.response))}]
      BY <1>5 DEF RouteInitialize
    <3>5. UNCHANGED <<queue, job>>
      BY <1>5 DEF RouteInitialize
    <3>6. QED
      BY <1>0, <3>3, <3>4, <3>5 DEF SendingOK
  <2>3. ThreadsOK'
    <3>1. hand[g] \in Hand /\ hand[g].kind = "initialize"
      BY <1>0, <1>5 DEF RouteInitialize, ThreadsOK
    <3>2. hand[g].id \in OrigId /\ hand[g].id \in Nat
      BY <3>1, HandFields
    <3>3. Carry(hand[g].kind, hand[g].id, nextReq) \in Hand
      BY <1>0, <3>1, <3>2, CarryCall DEF RoutesOK
    <3>4. \/ hand' = hand
          \/ hand' = [hand EXCEPT ![g] = NoHand]
          \/ hand' = [hand EXCEPT ![g] = Carry(hand[g].kind, hand[g].id, nextReq)]
      BY <1>5 DEF RouteInitialize
    <3>5. \E l \in {"error", "replay", "top", "send"} : pc' = [pc EXCEPT ![g] = l]
      BY <1>5 DEF RouteInitialize, Goto
    <3>6. QED
      BY <1>0, <3>3, <3>4, <3>5, NoHandOK DEF ThreadsOK
  <2>4. HistoryOK'
    <3>1. hand[g] \in Hand /\ hand[g].kind = "initialize"
      BY <1>0, <1>5 DEF RouteInitialize, ThreadsOK
    <3>2. hand[g].id \in OrigId /\ hand[g].id \in Nat
      BY <3>1, HandFields
    <3>3. \A i \in Nat : CallOf(i, g, hand[g].id) \in Call(OrigId)
      BY <3>2, RouteFields
    <3>4. \/ asked' = asked
          \/ \E i \in {initialize.response, initialize.internal, nextReq} :
               asked' = asked \cup {CallOf(i, g, hand[g].id)}
      BY <1>5 DEF RouteInitialize
    <3>5. {initialize.response, initialize.internal, nextReq} \subseteq Nat
      BY <1>0 DEF RoutesOK
    <3>6. UNCHANGED <<used, routed, answers>>
      BY <1>5 DEF RouteInitialize
    <3>7. QED
      BY <1>0, <3>3, <3>4, <3>5, <3>6 DEF HistoryOK
  <2>5. RegistryOK' /\ ChildOK'
    BY <1>0, <1>5, RegistryFrame, ChildFrame DEF RouteInitialize, registry, routes, sending, child, history
  <2> QED
    BY <2>1, <2>2, <2>3, <2>4, <2>5 DEF TypeOK
<1>6. ASSUME NEW g \in Conn, RouteResponse(g) PROVE TypeOK'
  <2>1. RoutesOK'
    BY <1>0, <1>6 DEF RouteResponse, RoutesOK, Owned
  <2>2. ThreadsOK'
    <3>1. pc' = [pc EXCEPT ![g] = "send"] /\ hand[g].kind = "response"
      BY <1>6 DEF RouteResponse, Goto
    <3>2. \/ hand' = hand
          \/ \E r \in serverPending : hand' = [hand EXCEPT ![g] = Carry("response", r.orig, r.iid)]
      BY <1>6 DEF RouteResponse, Owned
    <3>3. \A r \in serverPending : Carry("response", r.orig, r.iid) \in Hand
      BY <1>0, CarryOther DEF RoutesOK, Route
    <3>4. QED
      BY <1>0, <3>1, <3>2, <3>3 DEF ThreadsOK
  <2>3. RegistryOK' /\ SendingOK' /\ ChildOK' /\ HistoryOK'
    BY <1>0, <1>6, RegistryFrame, SendingFrame, ChildFrame, HistoryFrame DEF RouteResponse, registry, routes, sending, child, history
  <2> QED
    BY <2>1, <2>2, <2>3 DEF TypeOK
<1>7. ASSUME NEW g \in Conn, SendChild(g) PROVE TypeOK'
  <2>1. ThreadsOK'
    <3>1. AfterRefusal[hand[g].kind] \in {"unsend", "failinit", "error"}
      BY <1>0, HandFields DEF ThreadsOK, AfterRefusal
    <3>2. \E l \in {"top", "unsend", "failinit", "error"} : pc' = [pc EXCEPT ![g] = l]
      BY <1>7, <3>1 DEF SendChild, Goto
    <3>3. hand' = hand \/ hand' = [hand EXCEPT ![g] = NoHand]
      BY <1>7 DEF SendChild
    <3>4. QED
      BY <1>0, <3>2, <3>3, NoHandOK DEF ThreadsOK
  <2>2. ChildOK'
    <3>1. hand[g] \in Hand
      BY <1>0 DEF ThreadsOK
    <3>2. \/ childIn' = childIn
          \/ Len(childIn) < ChildCap /\ childIn' = Append(childIn, hand[g])
      BY <1>7 DEF SendChild
    <3>3. UNCHANGED <<childOpen, healthy, srv, asks>>
      BY <1>7 DEF SendChild
    <3>4. QED
      BY <1>0, <3>1, <3>2, <3>3 DEF ChildOK
  <2>3. RegistryOK' /\ RoutesOK' /\ SendingOK' /\ HistoryOK'
    BY <1>0, <1>7, RegistryFrame, RoutesFrame, SendingFrame, HistoryFrame DEF SendChild, registry, routes, sending, child, history
  <2> QED
    BY <2>1, <2>2, <2>3 DEF TypeOK
<1>8. ASSUME NEW g \in Conn, Unsend(g) PROVE TypeOK'
  <2>1. RoutesOK'
    BY <1>0, <1>8 DEF Unsend, RoutesOK
  <2>2. ThreadsOK'
    BY <1>0, <1>8 DEF Unsend, ThreadsOK, Goto
  <2>3. RegistryOK' /\ SendingOK' /\ ChildOK' /\ HistoryOK'
    BY <1>0, <1>8, RegistryFrame, SendingFrame, ChildFrame, HistoryFrame DEF Unsend, registry, routes, sending, child, history
  <2> QED
    BY <2>1, <2>2, <2>3 DEF TypeOK
<1>9. ASSUME NEW g \in Conn, FailInitialize(g) PROVE TypeOK'
  <2>1. RoutesOK'
    BY <1>0, <1>9 DEF FailInitialize, RoutesOK, Initialize
  <2>2. SendingOK'
    <3>1. Failures(g) \in SUBSET Delivery
      <4>1. \A w \in initialize.waiters : w.conn \in Conn /\ w.orig \in Nat
        BY <1>0 DEF RoutesOK, Route
      <4>2. \A w \in initialize.waiters : To(w.conn, ErrorFor(w.orig)) \in Delivery
        BY <4>1, MessageOK, DeliveryFields
      <4>3. QED
        BY <4>2 DEF Failures
    <3>2. out' = [out EXCEPT ![g] = Failures(g)] /\ UNCHANGED <<queue, job>>
      BY <1>9 DEF FailInitialize
    <3>3. QED
      BY <1>0, <3>1, <3>2 DEF SendingOK
  <2>3. ThreadsOK'
    BY <1>0, <1>9 DEF FailInitialize, ThreadsOK, Goto
  <2>4. RegistryOK' /\ ChildOK' /\ HistoryOK'
    BY <1>0, <1>9, RegistryFrame, ChildFrame, HistoryFrame DEF FailInitialize, registry, routes, sending, child, history
  <2> QED
    BY <2>1, <2>2, <2>3, <2>4 DEF TypeOK
<1>10. ASSUME NEW g \in Conn, HangUp(g) PROVE TypeOK'
  <2>1. RegistryOK'
    BY <1>0, <1>10, DropOK DEF HangUp, RegistryOK
  <2>2. RoutesOK'
    BY <1>0, <1>10, DropOK DEF HangUp, RoutesOK
  <2>3. SendingOK'
    BY <1>0, <1>10 DEF HangUp, SendingOK
  <2>4. ThreadsOK'
    BY <1>0, <1>10 DEF HangUp, ThreadsOK, Goto, NoHand, Carry, Hand
  <2>5. HistoryOK'
    BY <1>0, <1>10 DEF HangUp, HistoryOK
  <2>6. ChildOK'
    BY <1>0, <1>10, ChildFrame DEF HangUp, registry, routes, sending, child, history
  <2> QED
    BY <2>1, <2>2, <2>3, <2>4, <2>5, <2>6 DEF TypeOK
<1>11. ASSUME NEW g \in Conn, ReadNothing(g) PROVE TypeOK'
  <2>1. ThreadsOK'
    BY <1>0, <1>11 DEF ReadNothing, ThreadsOK, Goto
  <2>2. RegistryOK' /\ RoutesOK' /\ SendingOK' /\ ChildOK' /\ HistoryOK'
    BY <1>0, <1>11, RegistryFrame, RoutesFrame, SendingFrame, ChildFrame, HistoryFrame DEF ReadNothing, registry, routes, sending, child, history
  <2> QED
    BY <2>1, <2>2 DEF TypeOK
<1>12. ASSUME NEW g \in Conn, SocketEnds(g) PROVE TypeOK'
  <2>1. ThreadsOK'
    BY <1>0, <1>12 DEF SocketEnds, ThreadsOK, Goto
  <2>2. RegistryOK' /\ RoutesOK' /\ SendingOK' /\ ChildOK' /\ HistoryOK'
    BY <1>0, <1>12, RegistryFrame, RoutesFrame, SendingFrame, ChildFrame, HistoryFrame DEF SocketEnds, registry, routes, sending, child, history
  <2> QED
    BY <2>1, <2>2 DEF TypeOK
<1>13. ASSUME NEW g \in Conn, ReadMessage(g) PROVE TypeOK'
  <2>1. ThreadsOK'
    <3>1. \A k \in OrigId, kind \in {"request", "initialize"} : Carry(kind, k, 0) \in Hand
      BY CarryCall
    <3>2. Carry("note", 0, 0) \in Hand
      BY CarryOther
    <3>3. \A i \in {0} \cup {r.iid : r \in routed} : Carry("response", i, 0) \in Hand
      BY <1>0, CarryOther DEF HistoryOK, Call
    <3>4. \E h \in Hand : hand' = [hand EXCEPT ![g] = h]
      BY <1>13, <3>1, <3>2, <3>3 DEF ReadMessage, ReadCall, ReadNote, ReadResponse, ReadOnce
    <3>5. \E l \in {"error", "routing", "send"} : pc' = [pc EXCEPT ![g] = l]
      BY <1>13 DEF ReadMessage, ReadCall, ReadNote, ReadResponse, ReadOnce, Goto
    <3>6. QED
      BY <1>0, <3>4, <3>5 DEF ThreadsOK
  <2>2. HistoryOK'
    BY <1>0, <1>13 DEF ReadMessage, HistoryOK, ReadCall, ReadNote, ReadResponse, ReadOnce, Call
  <2>3. RegistryOK' /\ RoutesOK' /\ SendingOK' /\ ChildOK'
    BY <1>0, <1>13, RegistryFrame, RoutesFrame, SendingFrame, ChildFrame DEF ReadMessage, registry, routes, sending, child, history, ReadCall, ReadNote, ReadResponse, ReadOnce
  <2> QED
    BY <2>1, <2>2, <2>3 DEF TypeOK
<1>14. ASSUME NEW t \in Thread, Lookup(t) PROVE TypeOK'
  <2>1. SendingOK'
    <3>1. PICK d \in out[t] :
            /\ out' = [out EXCEPT ![t] = @ \ {d}]
            /\ \/ job' = [job EXCEPT ![t] = JobOf("send", d.to, d.to, d.msg)]
               \/ job' = job
      BY <1>14 DEF Lookup, Target
    <3>2. d.to \in Conn /\ d.msg \in PanelMsg
      BY <1>0 DEF SendingOK, Delivery
    <3>3. JobOf("send", d.to, d.to, d.msg) \in Job
      BY <3>2, JobFields
    <3>4. UNCHANGED queue
      BY <1>14 DEF Lookup
    <3>5. QED
      BY <1>0, <3>1, <3>3, <3>4 DEF SendingOK
  <2>2. ThreadsOK'
    BY <1>0, <1>14, DeliveredOK DEF Lookup, ThreadsOK
  <2>3. RegistryOK' /\ RoutesOK' /\ ChildOK' /\ HistoryOK'
    BY <1>0, <1>14, RegistryFrame, RoutesFrame, ChildFrame, HistoryFrame DEF Lookup, registry, routes, sending, child, history
  <2> QED
    BY <2>1, <2>2, <2>3 DEF TypeOK
<1>15. ASSUME NEW t \in Thread, TrySend(t) PROVE TypeOK'
  <2>1. RegistryOK'
    BY <1>0, <1>15 DEF TrySend, RegistryOK
  <2>2. SendingOK'
    <3>1. job[t] \in Job /\ job[t].stage = "send"
      BY <1>0, <1>15 DEF SendingOK, TrySend
    <3>2. job[t].to \in Conn /\ job[t].target \in Conn /\ job[t].msg \in PanelMsg
      BY <3>1 DEF Job
    <3>3. JobOf("evict", job[t].to, job[t].target, job[t].msg) \in Job
      BY <3>2, JobFields
    <3>4. \/ job' = [job EXCEPT ![t] = NoJob]
          \/ job' = [job EXCEPT ![t] = JobOf("evict", job[t].to, job[t].target, job[t].msg)]
      BY <1>15 DEF TrySend
    <3>5. job' \in [Thread -> Job]
      BY <1>0, <3>3, <3>4, NoJobOK DEF SendingOK
    <3>6. \/ queue' = queue
          \/ /\ Len(queue[job[t].target]) < QueueCap
             /\ queue' = [queue EXCEPT ![job[t].target] = Append(@, job[t].msg)]
      BY <1>15 DEF TrySend, HasRoom
    <3>7. LET q == queue[job[t].target] IN
          /\ Append(q, job[t].msg) \in Seq(PanelMsg)
          /\ Len(q) < QueueCap => Len(Append(q, job[t].msg)) <= QueueCap
      BY <1>0, <3>2, AppendOK DEF SendingOK
    <3>8. queue' \in [Conn -> Seq(PanelMsg)] /\ \A g \in Conn : Len(queue'[g]) <= QueueCap
      BY <1>0, <3>2, <3>6, <3>7 DEF SendingOK
    <3>9. UNCHANGED out
      BY <1>15 DEF TrySend
    <3>10. QED
      BY <1>0, <3>5, <3>8, <3>9 DEF SendingOK
  <2>3. ThreadsOK'
    BY <1>0, <1>15, DeliveredOK DEF TrySend, ThreadsOK
  <2>4. RoutesOK' /\ ChildOK' /\ HistoryOK'
    BY <1>0, <1>15, RoutesFrame, ChildFrame, HistoryFrame DEF TrySend, registry, routes, sending, child, history
  <2> QED
    BY <2>1, <2>2, <2>3, <2>4 DEF TypeOK
<1>16. ASSUME NEW t \in Thread, Evict(t) PROVE TypeOK'
  <2>1. RegistryOK'
    <3>1. job[t] \in Job /\ job[t].stage = "evict"
      BY <1>0, <1>16 DEF SendingOK, Evict
    <3>2. job[t].target \in Conn
      BY <3>1 DEF Job
    <3>3. Drop(job[t].target) /\ UNCHANGED nextReq
      BY <1>16 DEF Evict
    <3>4. QED
      BY <1>0, <3>2, <3>3, DropOK
  <2>2. RoutesOK'
    <3>1. job[t] \in Job /\ job[t].stage = "evict"
      BY <1>0, <1>16 DEF SendingOK, Evict
    <3>2. job[t].target \in Conn
      BY <3>1 DEF Job
    <3>3. Drop(job[t].target) /\ UNCHANGED nextReq
      BY <1>16 DEF Evict
    <3>4. QED
      BY <1>0, <3>2, <3>3, DropOK
  <2>3. SendingOK'
    BY <1>0, <1>16 DEF Evict, SendingOK, NoJob, JobOf, Job, Note, PanelMsg
  <2>4. ThreadsOK'
    BY <1>0, <1>16, DeliveredOK DEF Evict, ThreadsOK
  <2>5. ChildOK' /\ HistoryOK'
    BY <1>0, <1>16, ChildFrame, HistoryFrame DEF Evict, registry, routes, sending, child, history
  <2> QED
    BY <2>1, <2>2, <2>3, <2>4, <2>5 DEF TypeOK
<1>17. ASSUME NEW i \in Iid, ServerRespond(i) PROVE TypeOK'
  <2>1. RoutesOK'
    BY <1>0, <1>17 DEF ServerRespond, RoutesOK, Fresh, Pruned, WaitersOnly, Initialize, Iid
  <2>2. SendingOK'
    <3>1. \A r \in pending \cup initialize.waiters : r.conn \in Conn /\ r.orig \in Nat
      BY <1>0 DEF RoutesOK, Route
    <3>2. \A r \in pending \cup initialize.waiters : To(r.conn, Answer(r.orig, i)) \in Delivery
      BY <3>1, MessageOK, DeliveryFields DEF Iid
    <3>3. \E D \in SUBSET Delivery : out' = [out EXCEPT ![Reader] = D]
      BY <1>17, <3>2 DEF ServerRespond, Fresh
    <3>4. UNCHANGED <<queue, job>>
      BY <1>17 DEF ServerRespond
    <3>5. QED
      BY <1>0, <3>3, <3>4 DEF SendingOK
  <2>3. ChildOK'
    BY <1>0, <1>17 DEF ServerRespond, ChildOK
  <2>4. RegistryOK' /\ ThreadsOK' /\ HistoryOK'
    BY <1>0, <1>17, RegistryFrame, ThreadsFrame, HistoryFrame DEF ServerRespond, registry, routes, sending, child, history
  <2> QED
    BY <2>1, <2>2, <2>3, <2>4 DEF TypeOK
<1>18. ASSUME NEW s \in ServerId, ServerAsk(s) PROVE TypeOK'
  <2>1. RoutesOK'
    <3>1. \A c \in Registered : clients[c] \in Conn
      BY <1>0 DEF Registered, RegistryOK, Conn
    <3>2. \A c \in Registered : RouteOf(nextReq, clients[c], s) \in Route(ServerId)
      BY <1>0, <3>1, RouteFields DEF RoutesOK
    <3>3. /\ pending' \subseteq pending
          /\ initialize' = Initialize(initialize.internal, initialize.response,
                                      Fresh(initialize.waiters))
          /\ nextReq' \in {nextReq, nextReq + 1}
      BY <1>18 DEF ServerAsk, Fresh, Pruned, WaitersOnly
    <3>4. \/ serverPending' \subseteq serverPending
          \/ \E c \in Registered :
               serverPending' \subseteq serverPending \cup {RouteOf(nextReq, clients[c], s)}
      BY <1>18 DEF ServerAsk, Fresh
    <3>5. serverPending' \in SUBSET Route(ServerId)
      BY <1>0, <3>2, <3>4 DEF RoutesOK
    <3>6. Fresh(initialize.waiters) \in SUBSET Route(OrigId)
      BY <1>0 DEF RoutesOK, Fresh
    <3>7. QED
      BY <1>0, <3>3, <3>5, <3>6, RoutesMade DEF RoutesOK
  <2>2. SendingOK'
    <3>1. \A c \in Registered : clients[c] \in Conn
      BY <1>0 DEF Registered, RegistryOK, Conn
    <3>2. \A c \in Registered : To(clients[c], Ask(nextReq)) \in Delivery
      BY <1>0, <3>1, MessageOK, DeliveryFields DEF RoutesOK
    <3>3. \/ out' = out
          \/ \E c \in Registered : out' = [out EXCEPT ![Reader] = {To(clients[c], Ask(nextReq))}]
      BY <1>18 DEF ServerAsk
    <3>4. UNCHANGED <<queue, job>>
      BY <1>18 DEF ServerAsk
    <3>5. QED
      BY <1>0, <3>2, <3>3, <3>4 DEF SendingOK
  <2>3. ChildOK'
    BY <1>0, <1>18 DEF ServerAsk, ChildOK
  <2>4. HistoryOK'
    <3>1. \A c \in Registered : clients[c] \in Conn
      BY <1>0 DEF Registered, RegistryOK, Conn
    <3>2. \A c \in Registered : CallOf(nextReq, clients[c], s) \in Call(ServerId)
      BY <1>0, <3>1, RouteFields DEF RoutesOK
    <3>3. routed' = routed \/ \E c \in Registered :
                                routed' = routed \cup {CallOf(nextReq, clients[c], s)}
      BY <1>18 DEF ServerAsk
    <3>4. UNCHANGED <<used, asked, answers>>
      BY <1>18 DEF ServerAsk
    <3>5. QED
      BY <1>0, <3>2, <3>3, <3>4 DEF HistoryOK
  <2>5. RegistryOK' /\ ThreadsOK'
    BY <1>0, <1>18, RegistryFrame, ThreadsFrame DEF ServerAsk, registry, routes, sending, child, history
  <2> QED
    BY <2>1, <2>2, <2>3, <2>4, <2>5 DEF TypeOK
<1>19. ASSUME ServerNotify PROVE TypeOK'
  <2>1. SendingOK'
    <3>1. \A c \in Registered : clients[c] \in Conn
      BY <1>0 DEF Registered, RegistryOK, Conn
    <3>2. {To(clients[c], Note) : c \in Registered} \in SUBSET Delivery
      BY <3>1, MessageOK, DeliveryFields
    <3>3. QED
      BY <1>0, <1>19, <3>2 DEF ServerNotify, SendingOK
  <2>2. RegistryOK' /\ RoutesOK' /\ ThreadsOK' /\ ChildOK' /\ HistoryOK'
    BY <1>0, <1>19, RegistryFrame, RoutesFrame, ThreadsFrame, ChildFrame, HistoryFrame DEF ServerNotify, registry, routes, sending, child, history
  <2> QED
    BY <2>1, <2>2 DEF TypeOK
<1>20. ASSUME ReaderStops PROVE TypeOK'
  <2>1. ChildOK'
    BY <1>0, <1>20 DEF ReaderStops, ChildOK
  <2>2. RegistryOK' /\ RoutesOK' /\ SendingOK' /\ ThreadsOK' /\ HistoryOK'
    BY <1>0, <1>20, RegistryFrame, RoutesFrame, SendingFrame, ThreadsFrame, HistoryFrame DEF ReaderStops, registry, routes, sending, child, history
  <2> QED
    BY <2>1, <2>2 DEF TypeOK
<1>21. ASSUME WriteChild PROVE TypeOK'
  <2>1. ChildOK'
    <3>1. Head(childIn) \in Hand /\ Tail(childIn) \in Seq(Hand) /\ Len(Tail(childIn)) <= ChildCap
      BY <1>0, <1>21 DEF WriteChild, ChildOK
    <3>2. childIn' = Tail(childIn) /\ UNCHANGED <<childOpen, healthy>>
      BY <1>21 DEF WriteChild
    <3>3. srv' \subseteq srv \cup {Head(childIn).iid} /\ Head(childIn).iid \in Nat
      BY <1>21, <3>1, HandFields DEF WriteChild
    <3>4. asks' \in [ServerId -> {"fresh", "asked", "answered", "again"}]
      BY <1>0, <1>21 DEF WriteChild, ChildOK
    <3>5. QED
      BY <1>0, <3>1, <3>2, <3>3, <3>4 DEF ChildOK
  <2>2. RegistryOK' /\ RoutesOK' /\ SendingOK' /\ ThreadsOK' /\ HistoryOK'
    BY <1>0, <1>21, RegistryFrame, RoutesFrame, SendingFrame, ThreadsFrame, HistoryFrame DEF WriteChild, registry, routes, sending, child, history
  <2> QED
    BY <2>1, <2>2 DEF TypeOK
<1>22. ASSUME WriterStops PROVE TypeOK'
  <2>1. ChildOK'
    <3>1. childIn' = <<>> /\ childOpen' = FALSE /\ UNCHANGED <<healthy, srv, asks>>
      BY <1>22 DEF WriterStops
    <3> DEFINE empty == <<>>
    <3>2. empty \in Seq(Hand) /\ Len(empty) <= ChildCap
      OBVIOUS
    <3>3. childIn' = empty
      BY <3>1
    <3> HIDE DEF empty
    <3>4. QED
      BY <1>0, <3>1, <3>2, <3>3 DEF ChildOK
  <2>2. RegistryOK' /\ RoutesOK' /\ SendingOK' /\ ThreadsOK' /\ HistoryOK'
    BY <1>0, <1>22, RegistryFrame, RoutesFrame, SendingFrame, ThreadsFrame, HistoryFrame DEF WriterStops, registry, routes, sending, child, history
  <2> QED
    BY <2>1, <2>2 DEF TypeOK
<1>23. ASSUME TimePasses PROVE TypeOK'
  <2>1. RoutesOK'
    <3>1. \A K : \A r \in Route(K) : Aged(r) \in Route(K)
      BY DEF Aged, Route
    <3>2. {Aged(r) : r \in initialize.waiters} \in SUBSET Route(OrigId)
      BY <1>0, <3>1 DEF RoutesOK
    <3>3. pending' \in SUBSET Route(OrigId) /\ serverPending' \in SUBSET Route(ServerId)
      BY <1>0, <1>23, <3>1 DEF TimePasses, RoutesOK
    <3>4. initialize' = Initialize(initialize.internal, initialize.response,
                                   {Aged(r) : r \in initialize.waiters})
      BY <1>23 DEF TimePasses, WaitersOnly
    <3>5. UNCHANGED nextReq
      BY <1>23 DEF TimePasses
    <3>6. QED
      BY <1>0, <3>2, <3>3, <3>4, <3>5, RoutesMade DEF RoutesOK
  <2>2. RegistryOK' /\ SendingOK' /\ ThreadsOK' /\ ChildOK' /\ HistoryOK'
    BY <1>0, <1>23, RegistryFrame, SendingFrame, ThreadsFrame, ChildFrame, HistoryFrame DEF TimePasses, registry, routes, sending, child, history
  <2> QED
    BY <2>1, <2>2 DEF TypeOK
<1>24. ASSUME UNCHANGED vars PROVE TypeOK'
  <2>1. RegistryOK' /\ RoutesOK' /\ SendingOK' /\ ThreadsOK' /\ ChildOK' /\ HistoryOK'
    BY <1>0, <1>24, RegistryFrame, RoutesFrame, SendingFrame, ThreadsFrame, ChildFrame, HistoryFrame DEF vars, registry, routes, sending, child, history
  <2> QED
    BY <2>1 DEF TypeOK
<1> QED
  BY <1>1, <1>2, <1>3, <1>4, <1>5, <1>6, <1>7, <1>8, <1>9, <1>10, <1>11, <1>12, <1>13, <1>14, <1>15, <1>16, <1>17, <1>18, <1>19, <1>20, <1>21, <1>22, <1>23, <1>24 DEF Next, Handle, Deliver

\* The broker's state stays well typed and its queues within their capacities.
THEOREM TypeCorrect == Spec => []TypeOK
BY InitTypeOK, NextTypeOK, PTL DEF Spec

=============================================================================
