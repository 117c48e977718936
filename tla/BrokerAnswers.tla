---------------------------- MODULE BrokerAnswers ----------------------------
(***************************************************************************)
(* The broker initializes the app server once and passes every answer on   *)
(* once, both ways, for any number of panels, connections, ids and         *)
(* capacities, with expiring routes and failing pipes; and it keeps what   *)
(* CallService promises a panel, but for its liveness.                     *)
(***************************************************************************)
EXTENDS BrokerSafety

One(S) == \A x, y \in S : x = y
NoMore(S, T) == One(S) /\ (S # {} => T # {})   \* than in T

-----------------------------------------------------------------------------
(* Where a connection's thread stands, and what it holds there. *)

\* The thread's own deliveries.
NoDelivery(t) == out[t] = {} /\ job[t] = NoJob

Shape(g) ==
  /\ g >= nextConn => pc[g] = "free"
  /\ pc[g] \in {"free", "top", "read"} => hand[g] = NoHand
  /\ pc[g] = "unsend" => hand[g].kind = "request"
  /\ pc[g] \in {"failinit", "replay"} => hand[g].kind = "initialize"
  /\ pc[g] \notin {"replay", "failing"} => NoDelivery(g)
  /\ pc[g] = "replay" => One(out[g]) /\ (out[g] = {} \/ job[g] = NoJob)
Shaped == \A g \in Conn : Shape(g)

LEMMA ShapeSame ==
  ASSUME NEW h \in Conn, Shape(h), pc'[h] = pc[h], hand'[h] = hand[h],
         out'[h] = out[h], job'[h] = job[h], UNCHANGED nextConn
  PROVE  Shape(h)'
BY DEF Shape, NoDelivery

\* A thread without deliveries goes on to where it holds nothing in particular.
LEMMA ShapeMoved ==
  ASSUME NEW g \in Conn, NoDelivery(g), UNCHANGED <<out, job>>, ~(g >= nextConn'),
         pc'[g] \in {"top", "read"} => hand'[g] = NoHand,
         pc'[g] \in {"top", "read", "routing", "send", "error", "closing", "done"}
  PROVE  Shape(g)'
BY DEF Shape, NoDelivery

LEMMA ThreadIs == Thread = Conn \cup {Reader} /\ Reader \notin Conn
BY DEF Thread, Reader, Conn

\* Another thread's deliveries.
LEMMA ShapeDelivered ==
  ASSUME TypeOK, Shaped, NEW t \in Thread, NEW ok \in BOOLEAN, Delivered(t, ok), NEW h \in Conn,
         h # t, out'[h] = out[h], job'[h] = job[h], UNCHANGED nextConn
  PROVE  Shape(h)'
<1>1. pc'[h] = pc[h] /\ hand'[h] = hand[h]
  BY DEF Delivered, Goto, TypeOK, ThreadsOK
<1>2. QED
  BY <1>1, ShapeSame DEF Shaped

LEMMA InitShaped == Init => Shaped
<1> SUFFICES ASSUME Init, NEW g \in Conn PROVE Shape(g)
  BY DEF Shaped
<1>1. g \in Thread
  BY ThreadIs
<1>2. QED
  BY <1>1 DEF Init, Shape, NoDelivery

LEMMA NextShaped == TypeOK /\ Shaped /\ [Next]_vars => Shaped'
<1> SUFFICES ASSUME TypeOK, Shaped, [Next]_vars, NEW h \in Conn PROVE Shape(h)'
  BY DEF Shaped
<1>0. /\ Shape(h) /\ h \in Thread /\ h \in Nat /\ nextConn \in Nat
      /\ DOMAIN pc = Conn /\ hand \in [Conn -> Hand] /\ pc = [g \in Conn |-> pc[g]]
      /\ out \in [Thread -> SUBSET Delivery] /\ job \in [Thread -> Job]
  <2>1. Shape(h) /\ h \in Thread
    BY ThreadIs DEF Shaped
  <2>2. h \in Nat /\ nextConn \in Nat
    BY BrokerAssumption DEF TypeOK, RegistryOK, Conn
  <2>3. /\ DOMAIN pc = Conn /\ hand \in [Conn -> Hand] /\ pc = [g \in Conn |-> pc[g]]
        /\ out \in [Thread -> SUBSET Delivery] /\ job \in [Thread -> Job]
    BY DEF TypeOK, ThreadsOK, SendingOK
  <2>4. QED
    BY <2>1, <2>2, <2>3
\* Every thread but g stays where it is.
<1>1. ASSUME NEW g \in Conn, g # h, NEW l, Goto(g, l), UNCHANGED <<out, job, nextConn>>,
             hand'[h] = hand[h]
      PROVE  Shape(h)'
  BY <1>0, <1>1, ShapeSame DEF Goto
<1>2. ASSUME NEW c \in ClientId, Connect(c) PROVE Shape(h)'
  <2>1. /\ nextConn' = nextConn + 1 /\ pc' = [pc EXCEPT ![nextConn] = "top"]
        /\ UNCHANGED <<hand, out, job>>
    BY <1>2 DEF Connect, Register, Goto, sending
  <2>2. CASE h = nextConn
    <3>1. pc[h] = "free" /\ hand[h] = NoHand /\ NoDelivery(h) /\ ~(h >= nextConn')
      BY <1>0, <2>1, <2>2 DEF Shape
    <3>2. pc'[h] = "top" /\ hand'[h] = NoHand
      BY <1>0, <2>1, <2>2, <3>1
    <3>3. QED
      BY <2>1, <3>1, <3>2, ShapeMoved
  <2>3. CASE h # nextConn
    <3>1. pc'[h] = pc[h] /\ hand'[h] = hand[h] /\ (h >= nextConn' => h >= nextConn)
      BY <1>0, <2>1, <2>3
    <3>2. QED
      BY <1>0, <2>1, <3>1 DEF Shape, NoDelivery
  <2>4. QED
    BY <2>2, <2>3
<1>3. ASSUME NEW g \in Conn, Poll(g) \/ ReadNothing(g) \/ SocketEnds(g) PROVE Shape(h)'
  <2>1. /\ UNCHANGED <<hand, out, job, nextConn>>
        /\ pc[g] \in {"top", "read", "error"} \/ (pc[g] = "failing" /\ NoDelivery(g))
        /\ \E l \in {"top", "read", "closing"} : Goto(g, l) /\ (l # "closing" => pc[g] \in {"top", "read"})
    BY <1>3 DEF Poll, ReadNothing, SocketEnds, Refused, NoDelivery, registry, sending
  <2>2. CASE g = h
    <3>1. NoDelivery(h) /\ ~(h >= nextConn')
      BY <1>0, <2>1, <2>2 DEF Shape
    <3>2. pc'[h] \in {"top", "read", "closing"} /\ (pc'[h] # "closing" => hand'[h] = NoHand)
      BY <1>0, <2>1, <2>2 DEF Shape, Goto
    <3>3. QED
      BY <2>1, <3>1, <3>2, ShapeMoved
  <2>3. CASE g # h
    BY <1>1, <2>1, <2>3
  <2>4. QED
    BY <2>2, <2>3
<1>4. ASSUME NEW g \in Conn, ReadMessage(g) PROVE Shape(h)'
  <2>1. /\ UNCHANGED <<out, job, nextConn>> /\ pc[g] = "read"
        /\ \E l \in {"routing", "send", "error"} : Goto(g, l)
        /\ \E m : hand' = [hand EXCEPT ![g] = m]
    BY <1>4 DEF ReadMessage, ReadCall, ReadNote, ReadResponse, ReadOnce, registry, sending
  <2>2. CASE g = h
    <3>1. NoDelivery(h) /\ ~(h >= nextConn') /\ pc'[h] \in {"routing", "send", "error"}
      BY <1>0, <2>1, <2>2 DEF Shape, Goto
    <3>2. QED
      BY <2>1, <3>1, ShapeMoved
  <2>3. CASE g # h
    BY <1>0, <1>1, <2>1, <2>3
  <2>4. QED
    BY <2>2, <2>3
<1>5. ASSUME NEW g \in Conn, RouteRequest(g) \/ RouteResponse(g) PROVE Shape(h)'
  <2>1. /\ UNCHANGED <<out, job, nextConn>> /\ pc[g] = "routing"
        /\ \E l \in {"send", "error"} : Goto(g, l)
        /\ hand' = hand \/ \E m : hand' = [hand EXCEPT ![g] = m]
    BY <1>5 DEF RouteRequest, RouteResponse, registry, sending
  <2>2. CASE g = h
    <3>1. NoDelivery(h) /\ ~(h >= nextConn') /\ pc'[h] \in {"send", "error"}
      BY <1>0, <2>1, <2>2 DEF Shape, Goto
    <3>2. QED
      BY <2>1, <3>1, ShapeMoved
  <2>3. CASE g # h
    BY <1>0, <1>1, <2>1, <2>3
  <2>4. QED
    BY <2>2, <2>3
<1>6. ASSUME NEW g \in Conn, RouteInitialize(g) PROVE Shape(h)'
  <2>1. /\ UNCHANGED <<job, nextConn>> /\ pc[g] = "routing" /\ hand[g].kind = "initialize"
        /\ \/ UNCHANGED <<hand, out>> /\ Goto(g, "error")
           \/ /\ UNCHANGED hand /\ Goto(g, "replay")
              /\ \E d : out' = [out EXCEPT ![g] = {d}]
           \/ UNCHANGED out /\ hand' = [hand EXCEPT ![g] = NoHand] /\ Goto(g, "top")
           \/ UNCHANGED out /\ (\E m : hand' = [hand EXCEPT ![g] = m]) /\ Goto(g, "send")
    BY <1>6 DEF RouteInitialize, registry
  <2>2. CASE g = h
    <3>1. NoDelivery(h) /\ ~(h >= nextConn')
      BY <1>0, <2>1, <2>2 DEF Shape
    <3>2. CASE UNCHANGED out
      <4>1. /\ pc'[h] \in {"error", "replay", "top", "send"}
            /\ pc'[h] = "replay" => out'[h] # {}
            /\ pc'[h] = "top" => hand'[h] = NoHand
        BY <1>0, <2>1, <2>2 DEF Goto
      <4>2. QED
        BY <2>1, <3>1, <3>2, <4>1, ShapeMoved DEF NoDelivery
    <3>3. CASE UNCHANGED hand /\ Goto(g, "replay") /\ \E d : out' = [out EXCEPT ![g] = {d}]
      <4>1. pc'[h] = "replay" /\ hand'[h].kind = "initialize" /\ One(out'[h]) /\ job'[h] = NoJob
        BY <1>0, <2>1, <2>2, <3>1, <3>3 DEF Goto, One, NoDelivery
      <4>2. QED
        BY <3>1, <4>1 DEF Shape
    <3>4. QED
      BY <2>1, <3>2, <3>3
  <2>3. CASE g # h
    <3>1. pc'[h] = pc[h] /\ hand'[h] = hand[h] /\ out'[h] = out[h] /\ job'[h] = job[h]
      BY <1>0, <2>1, <2>3 DEF Goto
    <3>2. QED
      BY <1>0, <2>1, <3>1, ShapeSame
  <2>4. QED
    BY <2>2, <2>3
<1>7. ASSUME NEW g \in Conn, SendChild(g) PROVE Shape(h)'
  <2>1. /\ UNCHANGED <<out, job, nextConn>> /\ pc[g] = "send"
        /\ \/ hand' = [hand EXCEPT ![g] = NoHand] /\ Goto(g, "top")
           \/ UNCHANGED hand /\ Goto(g, AfterRefusal[hand[g].kind])
    BY <1>7 DEF SendChild, registry, sending
  <2>2. CASE g = h
    <3>1. NoDelivery(h) /\ ~(h >= nextConn')
      BY <1>0, <2>1, <2>2 DEF Shape
    <3>2. \/ pc'[h] = "top" /\ hand'[h] = NoHand
          \/ pc'[h] = AfterRefusal[hand'[h].kind]
      BY <1>0, <2>1, <2>2 DEF Goto
    <3>3. CASE pc'[h] = "top" /\ hand'[h] = NoHand
      BY <2>1, <3>1, <3>3, ShapeMoved
    <3>4. CASE pc'[h] = AfterRefusal[hand'[h].kind] /\ hand' = hand
      <4>1. hand'[h].kind \in {"none", "note", "request", "initialize", "response"}
        BY <1>0, <3>4, HandFields
      <4>2. \/ pc'[h] = "unsend" /\ hand'[h].kind = "request"
            \/ pc'[h] = "failinit" /\ hand'[h].kind = "initialize"
            \/ pc'[h] = "error"
        BY <3>4, <4>1 DEF AfterRefusal
      <4>3. NoDelivery(h)'
        BY <2>1, <3>1 DEF NoDelivery
      <4>4. QED
        BY <3>1, <4>2, <4>3 DEF Shape
    <3>5. QED
      BY <1>0, <2>1, <2>2, <3>3, <3>4 DEF Goto
  <2>3. CASE g # h
    BY <1>0, <1>1, <2>1, <2>3
  <2>4. QED
    BY <2>2, <2>3
<1>8. ASSUME NEW g \in Conn, Unsend(g) \/ HangUp(g) PROVE Shape(h)'
  <2>1. /\ UNCHANGED <<out, job, nextConn>>
        /\ pc[g] \in {"unsend", "closing", "error"} \/ (pc[g] = "failing" /\ NoDelivery(g))
        /\ \E l \in {"error", "done"} : Goto(g, l)
        /\ hand' = hand \/ hand' = [hand EXCEPT ![g] = NoHand]
    BY <1>8 DEF Unsend, HangUp, Refused, NoDelivery, Drop, registry, sending
  <2>2. CASE g = h
    <3>1. NoDelivery(h) /\ ~(h >= nextConn') /\ pc'[h] \in {"error", "done"}
      BY <1>0, <2>1, <2>2 DEF Shape, Goto
    <3>2. QED
      BY <2>1, <3>1, ShapeMoved
  <2>3. CASE g # h
    BY <1>0, <1>1, <2>1, <2>3
  <2>4. QED
    BY <2>2, <2>3
<1>9. ASSUME NEW g \in Conn, FailInitialize(g) PROVE Shape(h)'
  <2>1. /\ UNCHANGED <<hand, job, nextConn>> /\ pc[g] = "failinit" /\ pc' = [pc EXCEPT ![g] = "failing"]
        /\ out' = [out EXCEPT ![g] = Failures(g)]
    BY <1>9 DEF FailInitialize, Goto, registry
  <2>2. CASE g = h
    BY <1>0, <2>1, <2>2 DEF Shape
  <2>3. CASE g # h
    BY <1>0, <2>1, <2>3, ShapeSame
  <2>4. QED
    BY <2>2, <2>3
\* The deliveries of a thread.
<1>10. ASSUME NEW t \in Thread, Lookup(t) \/ TrySend(t) \/ Evict(t) PROVE Shape(h)'
  <2>1. /\ UNCHANGED nextConn
        /\ \/ /\ job[t] = NoJob
              /\ \E d \in out[t] :
                   /\ out' = [out EXCEPT ![t] = @ \ {d}]
                   /\ \/ (\E j : job' = [job EXCEPT ![t] = j]) /\ UNCHANGED <<pc, hand>>
                      \/ Delivered(t, FALSE) /\ UNCHANGED job
           \/ /\ job[t].stage # "idle" /\ UNCHANGED out
              /\ \/ job' = [job EXCEPT ![t] = NoJob] /\ (\E ok \in BOOLEAN : Delivered(t, ok))
                 \/ (\E j : job' = [job EXCEPT ![t] = j]) /\ UNCHANGED <<pc, hand>>
    BY <1>10 DEF Lookup, TrySend, Evict, Drop, registry
  <2>2. CASE t # h
    <3>1. out'[h] = out[h] /\ job'[h] = job[h]
      BY <1>0, <2>1, <2>2
    <3>2. UNCHANGED <<pc, hand>> \/ \E ok \in BOOLEAN : Delivered(t, ok)
      BY <2>1
    <3>3. QED
      BY <1>0, <2>1, <2>2, <3>1, <3>2, ShapeSame, ShapeDelivered
  <2>3. CASE t = h
    <3>0. ~NoDelivery(h)
      <4>1. job[h].stage # "idle" => job[h] # NoJob
        BY DEF NoJob, JobOf
      <4>2. out[h] # {} \/ job[h].stage # "idle"
        BY <2>1, <2>3
      <4>3. QED
        BY <4>1, <4>2 DEF NoDelivery
    <3>1. pc[h] \in {"replay", "failing"} /\ ~(h >= nextConn)
      BY <1>0, <3>0 DEF Shape
    <3>2. h # Reader
      BY ThreadIs
    <3>3. CASE pc[h] = "failing"
      <4>1. UNCHANGED <<pc, hand>>
        BY <2>1, <2>3, <3>3 DEF Delivered
      <4>2. QED
        BY <2>1, <3>1, <3>3, <4>1 DEF Shape
    <3>4. CASE pc[h] = "replay"
      <4>1. One(out[h]) /\ (out[h] = {} \/ job[h] = NoJob) /\ hand[h].kind = "initialize"
        BY <1>0, <3>4 DEF Shape
      <4>2. out'[h] = {}
        <5>1. CASE job[t].stage # "idle" /\ UNCHANGED out
          BY <2>3, <4>1, <5>1 DEF NoJob, JobOf
        <5>2. ASSUME NEW d \in out[t], out' = [out EXCEPT ![t] = @ \ {d}] PROVE out'[h] = {}
          BY <1>0, <2>3, <4>1, <5>2 DEF One
        <5>3. QED
          BY <2>1, <5>1, <5>2
      <4>3. CASE UNCHANGED <<pc, hand>>
        BY <2>1, <3>1, <3>4, <4>1, <4>2, <4>3 DEF Shape, One
      <4>4. ASSUME NEW ok \in BOOLEAN, Delivered(t, ok), job'[h] = NoJob PROVE Shape(h)'
        <5>1. pc'[h] = "error" \/ (pc'[h] = "top" /\ hand'[h] = NoHand)
          BY <1>0, <2>3, <3>2, <3>4, <4>4 DEF Delivered, Goto
        <5>2. NoDelivery(h)'
          BY <4>2, <4>4 DEF NoDelivery
        <5>3. QED
          BY <2>1, <3>1, <5>1, <5>2 DEF Shape
      <4>5. UNCHANGED <<pc, hand>> \/ (job'[h] = NoJob /\ \E ok \in BOOLEAN : Delivered(t, ok))
        BY <1>0, <2>1, <2>3
      <4>6. QED
        BY <4>3, <4>4, <4>5
    <3>5. QED
      BY <3>1, <3>3, <3>4
  <2>4. QED
    BY <2>2, <2>3
\* The reader's own deliveries.
<1>11. ASSUME ServerNotify \/ (\E i \in Iid : ServerRespond(i)) \/ (\E s \in ServerId : ServerAsk(s))
       PROVE  Shape(h)'
  <2>1. /\ UNCHANGED <<pc, hand, job, nextConn>>
        /\ out' = out \/ \E S : out' = [out EXCEPT ![Reader] = S]
    BY <1>11 DEF ServerNotify, ServerRespond, ServerAsk, registry
  <2>2. out'[h] = out[h]
    BY <1>0, <2>1, ThreadIs
  <2>3. QED
    BY <1>0, <2>1, <2>2, ShapeSame
<1>12. ASSUME \/ (\E c \in ClientId : ConnectRejected(c)) \/ ReaderStops \/ WriteChild \/ WriterStops
              \/ TimePasses \/ UNCHANGED vars
       PROVE  Shape(h)'
  <2>1. UNCHANGED <<pc, hand, out, job, nextConn>>
    BY <1>12 DEF ConnectRejected, ReaderStops, WriteChild, WriterStops, TimePasses, vars, registry, sending
  <2>2. QED
    BY <1>0, <2>1, ShapeSame
<1>13. QED
  BY <1>2, <1>3, <1>4, <1>5, <1>6, <1>7, <1>8, <1>9, <1>10, <1>11, <1>12 DEF Next, Handle, Deliver

-----------------------------------------------------------------------------
(* Who carries an internal id. *)

Carries(m, i) == m.kind \in {"request", "initialize"} /\ m.iid = i

HandIid(i)  == {g \in Conn : pc[g] \in {"send", "unsend", "failinit"} /\ Carries(hand[g], i)}
ChildIid(i) == {j \in DOMAIN childIn : Carries(childIn[j], i)}
Nobody(i) == HandIid(i) = {} /\ ChildIid(i) = {} /\ i \notin srv

\* An internal id is with one thread, or in the child's channel, or with the app
\* server, and only if it was handed out.
Carrier(i) ==
  /\ One(HandIid(i)) /\ One(ChildIid(i))
  /\ HandIid(i) = {} \/ (ChildIid(i) = {} /\ i \notin srv)
  /\ ChildIid(i) = {} \/ i \notin srv
  /\ i >= nextReq => Nobody(i)
CarriedOnce == \A i \in Nat \ {0} : Carrier(i)

Forwarding(g) == pc[g] \in {"send", "failinit"} /\ hand[g].kind = "initialize"
Initializes(j) == childIn[j].kind = "initialize"

\* The initialize carried is the one under way, and it is carried until it is
\* answered or the child's input has ended.
Underway ==
  /\ \A g \in Conn : Forwarding(g) => hand[g].iid = initialize.internal /\ initialize.internal # 0
  /\ \A j \in DOMAIN childIn : Initializes(j) =>
       childIn[j].iid = initialize.internal /\ initialize.internal # 0
  /\ initialize.response # 0 =>
       /\ initialize.response = initialize.internal
       /\ \A g \in Conn : ~Forwarding(g)
       /\ \A j \in DOMAIN childIn : ~Initializes(j)
  /\ initialize.internal # 0 /\ initialize.response = 0 /\ childOpen =>
       \/ \E g \in Conn : Forwarding(g)
       \/ \E j \in DOMAIN childIn : Initializes(j)
       \/ initialize.internal \in srv
  /\ initialize.waiters # {} => initialize.response = 0 /\ initialize.internal # 0
Carried == CarriedOnce /\ Underway

\* What a step leaves alone: a thread that starts to carry nothing, the initialize
\* under way and the ids handed out.
Holds(g) == pc[g] \in {"send", "unsend", "failinit"} /\ hand[g].kind \in {"request", "initialize"}
Still(h) ==
  \/ hand'[h] = hand[h] /\ (Holds(h)' => Holds(h)) /\ (Forwarding(h)' <=> Forwarding(h))
  \/ ~Holds(h)' /\ ~Forwarding(h)
StillUnderway ==
  /\ initialize'.internal = initialize.internal /\ initialize'.response = initialize.response
  /\ initialize'.waiters # {} => initialize.waiters # {}
Later == nextReq \in Nat /\ nextReq' \in Nat /\ nextReq' >= nextReq

LEMMA CarrierLess ==
  ASSUME NEW i \in Nat, Carrier(i), HandIid(i)' \subseteq HandIid(i), ChildIid(i)' \subseteq ChildIid(i),
         i \in srv' => i \in srv, Later
  PROVE  Carrier(i)'
BY DEF Carrier, Later, Nobody, One

LEMMA StillHands ==
  ASSUME NEW i, \A h \in Conn : Still(h)
  PROVE  HandIid(i)' \subseteq HandIid(i)
BY DEF HandIid, Still, Holds, Carries

LEMMA StillForwards ==
  ASSUME NEW h \in Conn, Still(h)
  PROVE  (Forwarding(h)' <=> Forwarding(h)) /\ (Forwarding(h) => hand'[h] = hand[h])
BY DEF Still, Holds, Forwarding

LEMMA StillCarried ==
  ASSUME Carried, Later, UNCHANGED <<childIn, childOpen, srv>>, StillUnderway, \A h \in Conn : Still(h)
  PROVE  Carried'
<1>1. CarriedOnce'
  <2>1. \A i : ChildIid(i)' = ChildIid(i)
    BY DEF ChildIid
  <2>2. QED
    BY <2>1, CarrierLess, StillHands DEF Carried, CarriedOnce
<1>2. \A h \in Conn : (Forwarding(h)' <=> Forwarding(h)) /\ (Forwarding(h) => hand'[h] = hand[h])
  BY StillForwards
<1>3. \A j \in DOMAIN childIn : Initializes(j)' <=> Initializes(j)
  BY DEF Initializes
<1>4. Underway'
  BY <1>2, <1>3 DEF Carried, Underway, StillUnderway
<1>5. QED
  BY <1>1, <1>4 DEF Carried

\* A thread that leaves its place for one where it carries nothing.
LEMMA StillMoved ==
  ASSUME NEW g \in Conn, NEW l, Goto(g, l), TypeOK, ~Forwarding(g),
         hand' = hand \/ \E m : hand' = [hand EXCEPT ![g] = m],
         ~Holds(g)'
  PROVE  \A h \in Conn : Still(h)
BY DEF Goto, TypeOK, ThreadsOK, Still, Holds, Forwarding

LEMMA StillSame == UNCHANGED <<pc, hand>> => \A h \in Conn : Still(h)
BY DEF Still, Holds, Forwarding

LEMMA StillDelivered ==
  ASSUME TypeOK, NEW t \in Thread, NEW ok \in BOOLEAN, Delivered(t, ok)
  PROVE  \A h \in Conn : Still(h)
<1>1. CASE t # Reader /\ pc[t] = "replay"
  <2>1. t \in Conn /\ ~Forwarding(t) /\ DOMAIN pc = Conn
    BY <1>1, ThreadIs DEF Forwarding, TypeOK, ThreadsOK
  <2>2. /\ \E l \in {"top", "error"} : Goto(t, l)
        /\ hand' = hand \/ \E m : hand' = [hand EXCEPT ![t] = m]
    BY <1>1 DEF Delivered
  <2>3. ~Holds(t)'
    BY <2>1, <2>2 DEF Goto, Holds
  <2>4. QED
    BY <2>1, <2>2, <2>3, StillMoved
<1>2. CASE ~(t # Reader /\ pc[t] = "replay")
  BY <1>2, StillSame DEF Delivered
<1>3. QED
  BY <1>1, <1>2

LEMMA StillDropped ==
  ASSUME TypeOK, NEW g \in Conn, Drop(g)
  PROVE  StillUnderway
<1>1. CASE Current(g)
  BY <1>1 DEF Drop, StillUnderway, WaitersOnly, Others, Initialize
<1>2. CASE ~Current(g)
  BY <1>2 DEF Drop, StillUnderway, routes
<1>3. QED
  BY <1>1, <1>2

LEMMA InitCarried == Init => Carried
BY BrokerAssumption DEF Init, Carried, CarriedOnce, Carrier, Underway, One, Nobody, HandIid, ChildIid, Initialize, Forwarding

LEMMA NextCarried == TypeOK /\ Shaped /\ Carried /\ [Next]_vars => Carried'
<1> SUFFICES ASSUME TypeOK, Shaped, Carried, [Next]_vars PROVE Carried'
  OBVIOUS
<1>0. /\ nextReq \in Nat \ {0} /\ hand \in [Conn -> Hand] /\ DOMAIN pc = Conn
      /\ childIn \in Seq(Hand) /\ srv \subseteq Nat
      /\ initialize.internal \in Nat /\ initialize.response \in Nat
  BY DEF TypeOK, RoutesOK, ThreadsOK, ChildOK
<1>1. nextReq' = nextReq \/ nextReq' = nextReq + 1 => Later
  BY <1>0 DEF Later
<1>2. UNCHANGED initialize \/ initialize' = Pruned => StillUnderway
  BY DEF StillUnderway, Pruned, WaitersOnly, Fresh, Initialize
\* Threads that move without carrying anything, and everything beside the threads.
<1>3. ASSUME NEW c \in ClientId, Connect(c) PROVE Carried'
  <2>1. /\ Goto(nextConn, "top") /\ UNCHANGED <<hand, nextReq, childIn, childOpen, srv>>
        /\ StillUnderway
    BY <1>3 DEF Connect, Register, child, StillUnderway, WaitersOnly, Fresh, Others, Initialize
  <2>2. \A h \in Conn : pc'[h] = pc[h] \/ (pc'[h] = "top" /\ h = nextConn)
    BY <1>0, <2>1 DEF Goto
  <2>3. pc[nextConn] = "free" \/ nextConn \notin Conn
    BY BrokerAssumption DEF Shaped, Shape, TypeOK, RegistryOK
  <2>4. \A h \in Conn : Still(h)
    BY <2>1, <2>2, <2>3 DEF Still, Holds, Forwarding
  <2>5. QED
    BY <1>1, <2>1, <2>4, StillCarried
<1>4. ASSUME NEW c \in ClientId, ConnectRejected(c) PROVE Carried'
  <2>1. UNCHANGED <<pc, hand, nextReq, childIn, childOpen, srv>> /\ initialize' = Pruned
    BY <1>4 DEF ConnectRejected, Prune, child
  <2>2. QED
    BY <1>1, <1>2, <2>1, StillSame, StillCarried
<1>5. ASSUME NEW g \in Conn, Poll(g) \/ ReadNothing(g) \/ SocketEnds(g) \/ RouteResponse(g)
             \/ Unsend(g) \/ HangUp(g) \/ ReadMessage(g)
      PROVE  Carried'
  <2>1. UNCHANGED <<nextReq, childIn, childOpen, srv>>
    BY <1>5 DEF Poll, ReadNothing, SocketEnds, RouteResponse, Unsend, HangUp, ReadMessage,
                ReadCall, ReadNote, ReadResponse, ReadOnce, child
  <2>2. StillUnderway
    <3>1. UNCHANGED initialize \/ Drop(g)
      BY <1>5 DEF Poll, ReadNothing, SocketEnds, RouteResponse, Unsend, HangUp, ReadMessage,
                  ReadCall, ReadNote, ReadResponse, ReadOnce, routes
    <3>2. QED
      BY <1>2, <3>1, StillDropped
  <2>3. \A h \in Conn : Still(h)
    <3>1. CASE Poll(g) \/ ReadNothing(g) \/ SocketEnds(g) \/ Unsend(g) \/ HangUp(g)
      <4>1. /\ hand' = hand \/ hand' = [hand EXCEPT ![g] = NoHand]
            /\ pc[g] \in {"top", "read", "unsend", "closing", "error", "failing"}
            /\ \E l \in {"read", "closing", "top", "error", "done"} : Goto(g, l)
        BY <3>1 DEF Poll, ReadNothing, SocketEnds, Unsend, HangUp, Refused
      <4>2. QED
        BY <1>0, <4>1, StillMoved DEF Forwarding, Holds, Goto
    <3>2. CASE RouteResponse(g)
      <4>1. pc[g] = "routing" /\ Goto(g, "send") /\ hand[g].kind = "response"
            /\ \/ hand' = hand
               \/ \E m : hand' = [hand EXCEPT ![g] = m] /\ m.kind = "response"
        BY <3>2 DEF RouteResponse, Carry
      <4>2. ~Holds(g)'
        BY <1>0, <4>1 DEF Holds
      <4>3. QED
        BY <4>1, <4>2, StillMoved DEF Forwarding
    <3>3. CASE ReadMessage(g)
      <4>1. pc[g] = "read" /\ \E m, l : /\ hand' = [hand EXCEPT ![g] = m] /\ Goto(g, l)
                                        /\ l \in {"routing", "error"} \/ m.kind = "note"
        BY <3>3 DEF ReadMessage, ReadCall, ReadNote, ReadResponse, ReadOnce, Carry
      <4>2. ~Holds(g)'
        BY <1>0, <4>1 DEF Holds, Goto
      <4>3. QED
        BY <4>1, <4>2, StillMoved DEF Forwarding
    <3>4. QED
      BY <1>5, <3>1, <3>2, <3>3
  <2>4. QED
    BY <1>1, <2>1, <2>2, <2>3, StillCarried
<1>6. ASSUME NEW t \in Thread, Lookup(t) \/ TrySend(t) \/ Evict(t) PROVE Carried'
  <2>1. UNCHANGED <<nextReq, childIn, childOpen, srv>>
    BY <1>6 DEF Lookup, TrySend, Evict, child
  <2>2. UNCHANGED initialize \/ (job[t].stage = "evict" /\ Drop(job[t].target))
    BY <1>6 DEF Lookup, TrySend, Evict, routes
  <2>3. job[t].stage = "evict" => job[t].target \in Conn
    BY DEF TypeOK, SendingOK, Job
  <2>4. StillUnderway
    BY <1>2, <2>2, <2>3, StillDropped
  <2>5. UNCHANGED <<pc, hand>> \/ \E ok \in BOOLEAN : Delivered(t, ok)
    BY <1>6 DEF Lookup, TrySend, Evict
  <2>6. QED
    BY <1>1, <2>1, <2>4, <2>5, StillSame, StillDelivered, StillCarried
<1>7. ASSUME \/ ServerNotify \/ ReaderStops \/ TimePasses \/ UNCHANGED vars
             \/ \E s \in ServerId : ServerAsk(s)
      PROVE  Carried'
  <2>1. UNCHANGED <<pc, hand, childIn, childOpen, srv>> /\ (nextReq' = nextReq \/ nextReq' = nextReq + 1)
    BY <1>7 DEF ServerNotify, ReaderStops, TimePasses, ServerAsk, vars, child
  <2>2. \/ UNCHANGED initialize \/ initialize' = Pruned
        \/ initialize' = WaitersOnly({Aged(r) : r \in initialize.waiters})
    BY <1>7 DEF ServerNotify, ReaderStops, TimePasses, ServerAsk, vars, routes
  <2>3. StillUnderway
    BY <1>2, <2>2 DEF StillUnderway, WaitersOnly, Initialize
  <2>4. QED
    BY <1>1, <2>1, <2>3, StillSame, StillCarried
<1>8. ASSUME NEW g \in Conn, RouteRequest(g) PROVE Carried'
  <2>1. /\ UNCHANGED <<childIn, childOpen, srv>> /\ initialize' = Pruned
        /\ pc[g] = "routing" /\ hand[g].kind = "request"
        /\ \/ /\ nextReq' = nextReq + 1 /\ hand' = [hand EXCEPT ![g] = Carry(@.kind, @.id, nextReq)]
              /\ Goto(g, "send")
           \/ UNCHANGED <<nextReq, hand>> /\ Goto(g, "error")
    BY <1>8 DEF RouteRequest, child
  <2>2. CASE Goto(g, "error") /\ UNCHANGED <<nextReq, hand>>
    <3>1. \A h \in Conn : Still(h)
      BY <1>0, <2>1, <2>2, StillMoved DEF Forwarding, Holds, Goto
    <3>2. QED
      BY <1>1, <1>2, <2>1, <2>2, <3>1, StillCarried
  <2>3. CASE nextReq' = nextReq + 1 /\ hand' = [hand EXCEPT ![g] = Carry(@.kind, @.id, nextReq)] /\ Goto(g, "send")
    <3>1. /\ \A h \in Conn \ {g} : pc'[h] = pc[h] /\ hand'[h] = hand[h]
          /\ pc'[g] = "send" /\ hand'[g].kind = "request" /\ hand'[g].iid = nextReq
      BY <1>0, <2>1, <2>3 DEF Goto, Carry
    <3>2. Underway'
      <4>1. \A h \in Conn : (Forwarding(h)' <=> Forwarding(h)) /\ (Forwarding(h) => hand'[h] = hand[h])
        BY <2>1, <3>1 DEF Forwarding
      <4>2. \A j \in DOMAIN childIn : Initializes(j)' <=> Initializes(j)
        BY <2>1 DEF Initializes
      <4>3. StillUnderway
        BY <1>2, <2>1
      <4>4. QED
        BY <2>1, <4>1, <4>2, <4>3 DEF Underway, Carried, StillUnderway
    <3>3. ASSUME NEW i \in Nat \ {0} PROVE Carrier(i)'
      <4>1. Carrier(i) /\ ChildIid(i)' = ChildIid(i)
        BY <2>1 DEF Carried, CarriedOnce, ChildIid
      <4>2. CASE i # nextReq
        <5>1. HandIid(i)' \subseteq HandIid(i)
          BY <3>1, <4>2 DEF HandIid, Carries
        <5>2. QED
          BY <1>1, <2>1, <2>3, <4>1, <5>1, CarrierLess
      <4>3. CASE i = nextReq
        <5>1. Nobody(i)
          BY <1>0, <4>1, <4>3 DEF Carrier
        <5>2. HandIid(i)' \subseteq {g}
          BY <3>1, <5>1 DEF HandIid, Carries, Nobody
        <5>3. ~(i >= nextReq')
          BY <1>0, <2>3, <4>3
        <5>4. QED
          BY <2>1, <4>1, <5>1, <5>2, <5>3 DEF Carrier, Nobody, One
      <4>4. QED
        BY <4>2, <4>3
    <3>4. QED
      BY <3>2, <3>3 DEF Carried, CarriedOnce
  <2>4. QED
    BY <2>1, <2>2, <2>3
<1>9. ASSUME NEW g \in Conn, RouteInitialize(g) PROVE Carried'
  <2>1. /\ UNCHANGED <<childIn, childOpen, srv>>
        /\ pc[g] = "routing" /\ hand[g].kind = "initialize"
        /\ \/ UNCHANGED <<nextReq, initialize, hand>> /\ \E l \in {"error", "replay"} : Goto(g, l)
           \/ /\ initialize.response = 0 /\ initialize.internal # 0 /\ initialize' = WaitersOnly(Waiting(g, hand[g].id))
              /\ hand' = [hand EXCEPT ![g] = NoHand] /\ Goto(g, "top") /\ UNCHANGED nextReq
           \/ /\ initialize.response = 0 /\ initialize.internal = 0
              /\ initialize' = Initialize(nextReq, initialize.response, Waiting(g, hand[g].id))
              /\ nextReq' = nextReq + 1 /\ hand' = [hand EXCEPT ![g] = Carry(@.kind, @.id, nextReq)]
              /\ Goto(g, "send")
    BY <1>9 DEF RouteInitialize, MustForward, child
  <2>2. ~Forwarding(g)
    BY <2>1 DEF Forwarding
  <2>3. CASE UNCHANGED <<nextReq, initialize, hand>> /\ \E l \in {"error", "replay"} : Goto(g, l)
    <3>1. ~Holds(g)'
      BY <1>0, <2>3 DEF Holds, Goto
    <3>2. QED
      BY <1>1, <1>2, <2>1, <2>2, <2>3, <3>1, StillMoved, StillCarried
  <2>4. CASE /\ initialize.response = 0 /\ initialize.internal # 0
             /\ initialize' = WaitersOnly(Waiting(g, hand[g].id))
             /\ hand' = [hand EXCEPT ![g] = NoHand] /\ Goto(g, "top") /\ UNCHANGED nextReq
    <3>1. /\ ~Holds(g)' /\ ~Forwarding(g)'
          /\ \A h \in Conn \ {g} : pc'[h] = pc[h] /\ hand'[h] = hand[h]
      BY <1>0, <2>4 DEF Holds, Forwarding, Goto
    <3>2. /\ initialize'.internal = initialize.internal /\ initialize'.response = initialize.response
      BY <2>4 DEF WaitersOnly, Initialize
    <3>3. \A h \in Conn : Still(h)
      BY <2>2, <2>4, <3>1, StillMoved
    <3>4. CarriedOnce'
      <4>1. \A i : ChildIid(i)' = ChildIid(i)
        BY <2>1 DEF ChildIid
      <4>2. QED
        BY <1>1, <2>1, <2>4, <3>3, <4>1, CarrierLess, StillHands DEF Carried, CarriedOnce
    <3>5. \A h \in Conn : (Forwarding(h)' <=> Forwarding(h)) /\ (Forwarding(h) => hand'[h] = hand[h])
      BY <3>3, StillForwards
    <3>6. \A j \in DOMAIN childIn : Initializes(j)' <=> Initializes(j)
      BY <2>1 DEF Initializes
    <3>7. Underway'
      BY <2>1, <2>4, <3>2, <3>5, <3>6 DEF Carried, Underway
    <3>8. QED
      BY <3>4, <3>7 DEF Carried
  <2>5. CASE /\ initialize.response = 0 /\ initialize.internal = 0
             /\ initialize' = Initialize(nextReq, initialize.response, Waiting(g, hand[g].id))
             /\ nextReq' = nextReq + 1 /\ hand' = [hand EXCEPT ![g] = Carry(@.kind, @.id, nextReq)]
             /\ Goto(g, "send")
    <3>1. /\ \A h \in Conn \ {g} : pc'[h] = pc[h] /\ hand'[h] = hand[h]
          /\ pc'[g] = "send" /\ hand'[g].kind = "initialize" /\ hand'[g].iid = nextReq
      BY <1>0, <2>1, <2>5 DEF Goto, Carry
    <3>2. initialize'.internal = nextReq /\ initialize'.response = 0
      BY <2>5 DEF Initialize
    <3>3. Underway'
      <4>1. (\A h \in Conn : ~Forwarding(h)) /\ (\A j \in DOMAIN childIn : ~Initializes(j))
        BY <2>5 DEF Carried, Underway
      <4>2. \A h \in Conn : Forwarding(h)' <=> h = g
        BY <3>1, <4>1 DEF Forwarding
      <4>3. \A j \in DOMAIN childIn' : ~Initializes(j)'
        BY <2>1, <4>1 DEF Initializes
      <4>4. QED
        BY <1>0, <3>1, <3>2, <4>2, <4>3 DEF Underway
    <3>4. ASSUME NEW i \in Nat \ {0} PROVE Carrier(i)'
      <4>1. Carrier(i) /\ ChildIid(i)' = ChildIid(i)
        BY <2>1 DEF Carried, CarriedOnce, ChildIid
      <4>2. CASE i # nextReq
        <5>1. HandIid(i)' \subseteq HandIid(i)
          BY <3>1, <4>2 DEF HandIid, Carries
        <5>2. QED
          BY <1>1, <2>1, <2>5, <4>1, <5>1, CarrierLess
      <4>3. CASE i = nextReq
        <5>1. Nobody(i)
          BY <1>0, <4>1, <4>3 DEF Carrier
        <5>2. HandIid(i)' \subseteq {g}
          BY <3>1, <5>1 DEF HandIid, Carries, Nobody
        <5>3. ~(i >= nextReq')
          BY <1>0, <2>5, <4>3
        <5>4. QED
          BY <2>1, <4>1, <5>1, <5>2, <5>3 DEF Carrier, Nobody, One
      <4>4. QED
        BY <4>2, <4>3
    <3>5. QED
      BY <3>3, <3>4 DEF Carried, CarriedOnce
  <2>6. QED
    BY <2>1, <2>3, <2>4, <2>5
<1>10. ASSUME NEW g \in Conn, SendChild(g) PROVE Carried'
  <2>1. /\ pc[g] = "send" /\ UNCHANGED <<initialize, nextReq, childOpen, srv>>
        /\ \/ /\ childIn' = Append(childIn, hand[g]) /\ hand' = [hand EXCEPT ![g] = NoHand] /\ Goto(g, "top")
           \/ UNCHANGED <<childIn, hand>> /\ Goto(g, AfterRefusal[hand[g].kind])
    BY <1>10 DEF SendChild, routes
  <2>2. CASE UNCHANGED <<childIn, hand>> /\ Goto(g, AfterRefusal[hand[g].kind])
    <3>1. hand[g].kind \in {"none", "note", "request", "initialize", "response"}
      BY <1>0, HandFields
    <3>2. AfterRefusal[hand[g].kind] \in {"unsend", "failinit", "error"}
          /\ (AfterRefusal[hand[g].kind] = "failinit" <=> hand[g].kind = "initialize")
      BY <3>1 DEF AfterRefusal
    <3>3. \A h \in Conn : Still(h)
      BY <1>0, <2>1, <2>2, <3>2 DEF Still, Holds, Forwarding, Goto
    <3>4. QED
      BY <1>1, <1>2, <2>1, <2>2, <3>3, StillCarried
  <2>3. CASE childIn' = Append(childIn, hand[g]) /\ hand' = [hand EXCEPT ![g] = NoHand] /\ Goto(g, "top")
    <3>1. /\ \A h \in Conn \ {g} : pc'[h] = pc[h] /\ hand'[h] = hand[h]
          /\ pc'[g] = "top"
      BY <1>0, <2>3 DEF Goto
    <3>2. /\ Len(childIn) \in Nat /\ DOMAIN childIn = 1..Len(childIn)
          /\ DOMAIN childIn' = DOMAIN childIn \cup {Len(childIn) + 1}
          /\ childIn'[Len(childIn) + 1] = hand[g]
          /\ \A j \in DOMAIN childIn : childIn'[j] = childIn[j]
      BY <1>0, <2>3
    <3>3. ASSUME NEW i \in Nat \ {0} PROVE Carrier(i)'
      <4>1. Carrier(i) /\ HandIid(i)' = HandIid(i) \ {g}
        BY <3>1 DEF Carried, CarriedOnce, HandIid
      <4>2. CASE Carries(hand[g], i)
        <5>1. g \in HandIid(i)
          BY <2>1, <4>2 DEF HandIid
        <5>2. ChildIid(i) = {} /\ i \notin srv /\ HandIid(i)' = {} /\ ~(i >= nextReq)
          BY <4>1, <5>1 DEF Carrier, Nobody, One
        <5>3. ChildIid(i)' \subseteq {Len(childIn) + 1}
          BY <3>2, <5>2 DEF ChildIid
        <5>4. QED
          BY <2>1, <5>2, <5>3 DEF Carrier, One
      <4>3. CASE ~Carries(hand[g], i)
        <5>1. ChildIid(i)' \subseteq ChildIid(i)
          BY <3>2, <4>3 DEF ChildIid
        <5>2. QED
          BY <1>1, <2>1, <4>1, <5>1, CarrierLess
      <4>4. QED
        BY <4>2, <4>3
    <3>4. \A h \in Conn : Forwarding(h)' <=> Forwarding(h) /\ h # g
      BY <3>1 DEF Forwarding
    <3>5. PICK n \in DOMAIN childIn' : DOMAIN childIn' = DOMAIN childIn \cup {n} /\ childIn'[n] = hand[g]
      BY <3>2
    <3>6. /\ \A j \in DOMAIN childIn : (Initializes(j)' <=> Initializes(j)) /\ childIn'[j] = childIn[j]
          /\ Initializes(n)' <=> Forwarding(g)
      BY <2>1, <3>2, <3>5 DEF Initializes, Forwarding
    <3>7. Underway'
      <4>1. /\ \A h \in Conn : Forwarding(h)' => Forwarding(h) /\ hand'[h] = hand[h]
            /\ \A j \in DOMAIN childIn' : Initializes(j)' =>
                 \/ j \in DOMAIN childIn /\ Initializes(j) /\ childIn'[j].iid = childIn[j].iid
                 \/ Forwarding(g) /\ childIn'[j].iid = hand[g].iid
        BY <3>1, <3>4, <3>5, <3>6
      <4>2. /\ \A h \in Conn : Forwarding(h) => Forwarding(h)' \/ Initializes(n)'
            /\ \A j \in DOMAIN childIn : Initializes(j) => j \in DOMAIN childIn' /\ Initializes(j)'
        BY <3>4, <3>5, <3>6
      <4>3. QED
        BY <2>1, <3>5, <4>1, <4>2 DEF Carried, Underway
    <3>8. QED
      BY <3>3, <3>7 DEF Carried, CarriedOnce
  <2>4. QED
    BY <2>1, <2>2, <2>3
<1>11. ASSUME NEW g \in Conn, FailInitialize(g) PROVE Carried'
  <2>1. /\ UNCHANGED <<hand, nextReq, childIn, childOpen, srv>> /\ pc[g] = "failinit" /\ Goto(g, "failing")
        /\ initialize'.internal = 0 /\ initialize'.response = initialize.response /\ initialize'.waiters = {}
    BY <1>11 DEF FailInitialize, child, Initialize
  <2>2. \A h \in Conn : (h # g => pc'[h] = pc[h]) /\ (h = g => pc'[h] = "failing")
    BY <1>0, <2>1 DEF Goto
  <2>3. CarriedOnce'
    <3>1. \A i : HandIid(i)' \subseteq HandIid(i) /\ ChildIid(i)' = ChildIid(i)
      BY <2>1, <2>2 DEF HandIid, ChildIid
    <3>2. QED
      BY <1>1, <2>1, <3>1, CarrierLess DEF Carried, CarriedOnce
  <2>4. Forwarding(g) /\ initialize.internal \in Nat \ {0} /\ hand[g].iid = initialize.internal
    BY <1>0, <2>1 DEF Forwarding, Shaped, Shape, Carried, Underway
  <2>5. g \in HandIid(initialize.internal) /\ Carrier(initialize.internal)
    BY <2>4 DEF HandIid, Carries, Forwarding, Carried, CarriedOnce
  <2>6. \A h \in Conn : Forwarding(h) => h = g
    BY <2>4, <2>5 DEF Forwarding, HandIid, Carries, Carried, Underway, Carrier, One
  <2>7. \A j \in DOMAIN childIn : ~Initializes(j)
    <3>1. ASSUME NEW j \in DOMAIN childIn, Initializes(j) PROVE FALSE
      <4>1. j \in ChildIid(initialize.internal)
        BY <3>1 DEF Initializes, ChildIid, Carries, Carried, Underway
      <4>2. QED
        BY <2>5, <4>1 DEF Carrier
    <3>2. QED
      BY <3>1
  <2>8. initialize.response = 0
    BY <2>4 DEF Carried, Underway
  <2>9. /\ \A h \in Conn : ~Forwarding(h)'
        /\ \A j \in DOMAIN childIn' : ~Initializes(j)'
    BY <2>1, <2>2, <2>6, <2>7 DEF Forwarding, Initializes
  <2>10. Underway'
    BY <2>1, <2>8, <2>9 DEF Underway
  <2>11. QED
    BY <2>3, <2>10 DEF Carried
<1>12. ASSUME NEW i \in Iid, ServerRespond(i) PROVE Carried'
  <2>1. /\ UNCHANGED <<pc, hand, nextReq, childIn, childOpen>> /\ i \in srv /\ srv' = srv \ {i}
        /\ \/ /\ initialize.internal = i /\ initialize'.internal = i
              /\ initialize'.response = i /\ initialize'.waiters = {}
           \/ initialize.internal # i /\ initialize' = Pruned
    BY <1>12 DEF ServerRespond, Initialize
  <2>2. i \in Nat \ {0} /\ Carrier(i)
    BY DEF Iid, Carried, CarriedOnce
  <2>3. CarriedOnce'
    <3>1. \A j : HandIid(j)' = HandIid(j) /\ ChildIid(j)' = ChildIid(j)
      BY <2>1 DEF HandIid, ChildIid
    <3>2. QED
      BY <1>1, <2>1, <3>1, CarrierLess DEF Carried, CarriedOnce
  <2>4. /\ \A h \in Conn : Forwarding(h)' <=> Forwarding(h)
        /\ \A j \in DOMAIN childIn : Initializes(j)' <=> Initializes(j)
    BY <2>1 DEF Forwarding, Initializes
  <2>5. CASE initialize.internal = i
    <3>1. HandIid(i) = {} /\ ChildIid(i) = {}
      BY <2>1, <2>2 DEF Carrier
    <3>2. /\ \A h \in Conn : ~Forwarding(h)
          /\ \A j \in DOMAIN childIn : ~Initializes(j)
      BY <2>5, <3>1 DEF Carried, Underway, Forwarding, Initializes, HandIid, ChildIid, Carries
    <3>3. Underway'
      BY <2>1, <2>2, <2>4, <2>5, <3>2 DEF Underway
    <3>4. QED
      BY <2>3, <3>3 DEF Carried
  <2>6. CASE initialize.internal # i
    <3>1. StillUnderway
      BY <1>2, <2>1, <2>6
    <3>2. Underway'
      BY <2>1, <2>4, <2>6, <3>1 DEF Carried, Underway, StillUnderway
    <3>3. QED
      BY <2>3, <3>2 DEF Carried
  <2>7. QED
    BY <2>5, <2>6
<1>13. ASSUME WriteChild PROVE Carried'
  <2> DEFINE m == Head(childIn)
  <2>1. /\ UNCHANGED <<pc, hand, nextReq, initialize, childOpen>> /\ childIn # <<>> /\ childIn' = Tail(childIn)
        /\ srv' = IF m.kind \in {"request", "initialize"} THEN srv \cup {m.iid} ELSE srv
    BY <1>13 DEF WriteChild, routes
  <2>2. /\ Len(childIn) \in Nat \ {0} /\ DOMAIN childIn = 1..Len(childIn) /\ m = childIn[1]
        /\ DOMAIN childIn' = 1..Len(childIn) - 1
        /\ \A j \in DOMAIN childIn' : j + 1 \in DOMAIN childIn /\ childIn'[j] = childIn[j + 1]
        /\ \A j \in DOMAIN childIn : j = 1 \/ (j - 1 \in DOMAIN childIn' /\ childIn'[j - 1] = childIn[j])
    BY <1>0, <2>1
  <2>3. ASSUME NEW i \in Nat \ {0} PROVE Carrier(i)'
    <3>1. Carrier(i) /\ HandIid(i)' = HandIid(i)
      BY <2>1 DEF Carried, CarriedOnce, HandIid
    <3>2. \A j \in ChildIid(i)' : j \in Nat /\ j + 1 \in ChildIid(i) /\ j + 1 # 1
      BY <2>2 DEF ChildIid
    <3>3. CASE Carries(m, i)
      <4>1. 1 \in ChildIid(i) /\ i \in srv'
        BY <2>1, <2>2, <3>3 DEF ChildIid, Carries
      <4>2. HandIid(i) = {} /\ ChildIid(i)' = {} /\ ~(i >= nextReq)
        BY <3>1, <3>2, <4>1 DEF Carrier, One, Nobody
      <4>3. QED
        BY <2>1, <3>1, <4>2 DEF Carrier, One
    <3>4. CASE ~Carries(m, i)
      <4>1. i \in srv' <=> i \in srv
        BY <2>1, <3>4 DEF Carries
      <4>2. One(ChildIid(i)') /\ (ChildIid(i)' # {} => ChildIid(i) # {})
        BY <3>1, <3>2 DEF Carrier, One
      <4>3. QED
        BY <2>1, <3>1, <4>1, <4>2 DEF Carrier, Nobody
    <3>5. QED
      BY <3>3, <3>4
  <2>4. \A h \in Conn : Forwarding(h)' <=> Forwarding(h)
    BY <2>1 DEF Forwarding
  <2>5. \A j \in DOMAIN childIn' : (Initializes(j)' <=> Initializes(j + 1)) /\ childIn'[j] = childIn[j + 1]
    BY <2>2 DEF Initializes
  <2>6. \A j \in DOMAIN childIn : Initializes(j) => j = 1 \/ (j - 1 \in DOMAIN childIn' /\ Initializes(j - 1)')
    BY <2>2 DEF Initializes
  <2>7. Initializes(1) => m.kind = "initialize"
    BY <2>2 DEF Initializes
  <2>8. Initializes(1) => initialize.internal \in srv'
    BY <2>1, <2>2, <2>7 DEF Carried, Underway
  <2>9. initialize.internal \in srv => initialize.internal \in srv'
    BY <2>1
  <2>10. Underway'
    <3>1. (\A j \in DOMAIN childIn' : Initializes(j)' =>
             childIn'[j].iid = initialize.internal /\ initialize.internal # 0)
      BY <2>2, <2>5 DEF Carried, Underway
    <3>2. (\A j \in DOMAIN childIn : ~Initializes(j)) => \A j \in DOMAIN childIn' : ~Initializes(j)'
      BY <2>2, <2>5
    <3>3. (\E j \in DOMAIN childIn : Initializes(j)) =>
            (\E j \in DOMAIN childIn' : Initializes(j)') \/ initialize.internal \in srv'
      BY <2>6, <2>8
    <3>4. QED
      BY <2>1, <2>4, <2>9, <3>1, <3>2, <3>3 DEF Carried, Underway
  <2>11. QED
    BY <2>3, <2>10 DEF Carried, CarriedOnce
<1>14. ASSUME WriterStops PROVE Carried'
  <2>1. UNCHANGED <<pc, hand, nextReq, initialize, srv>> /\ childIn' = <<>> /\ childOpen' = FALSE
    BY <1>14 DEF WriterStops, routes
  <2>2. \A i : HandIid(i)' = HandIid(i) /\ ChildIid(i)' = {}
    BY <2>1 DEF HandIid, ChildIid
  <2>3. \A h \in Conn : Forwarding(h)' <=> Forwarding(h)
    BY <2>1 DEF Forwarding
  <2>4. CarriedOnce'
    BY <1>1, <2>1, <2>2, CarrierLess DEF Carried, CarriedOnce
  <2>5. Underway'
    BY <2>1, <2>3 DEF Carried, Underway
  <2>6. QED
    BY <2>4, <2>5 DEF Carried
<1>15. QED
  BY <1>3, <1>4, <1>5, <1>6, <1>7, <1>8, <1>9, <1>10, <1>11, <1>12, <1>13, <1>14 DEF Next, Handle, Deliver

\* The app server is sent one initialize however the panels race, and a panel waits
\* for its answer only while a thread, the child's channel or the app server has it.
THEOREM AlwaysOneInitialize == Spec => []OneInitialize
<1>1. Init => TypeOK /\ Shaped /\ Carried
  BY InitTypeOK, InitShaped, InitCarried
<1>2. TypeOK /\ Shaped /\ Carried /\ [Next]_vars => (TypeOK /\ Shaped /\ Carried)'
  BY NextTypeOK, NextShaped, NextCarried
<1>3. TypeOK /\ Shaped /\ Carried => OneInitialize
  <2> SUFFICES ASSUME Underway PROVE OneInitialize
    BY DEF Carried
  <2>1. InitializeSent = {hand[g].iid : g \in {h \in Conn : Forwarding(h)}}
                         \cup {childIn[i].iid : i \in {j \in DOMAIN childIn : Initializes(j)}}
    BY DEF InitializeSent, Forwarding, Initializes
  <2>2. InitializeSent \subseteq {initialize.internal}
    BY <2>1 DEF Underway
  <2>3. initialize.response # 0 => initialize.response = initialize.internal /\ InitializeSent = {}
    BY <2>1 DEF Underway
  <2>4. initialize.waiters # {} /\ childOpen => initialize.internal \in InitializeSent \cup srv
    BY <2>1 DEF Underway
  <2>5. QED
    BY <2>2, <2>3, <2>4 DEF Underway, OneInitialize
<1>4. QED
  BY <1>1, <1>2, <1>3, PTL DEF Spec

-----------------------------------------------------------------------------
(* How often a request of the app server is answered. *)

BearsTo(m, s) == m.kind = "response" /\ m.id = s
AskRoutes(s) == {r \in serverPending : r.orig = s}
AskHands(s)  == {g \in Conn : pc[g] = "send" /\ BearsTo(hand[g], s)}
AskChild(s)  == {j \in DOMAIN childIn : BearsTo(childIn[j], s)}
NoReply(s) == AskRoutes(s) = {} /\ AskHands(s) = {} /\ AskChild(s) = {}

\* A request that waits for its answer has a route, or a thread with the answer, or
\* the answer in the child's channel; one that does not wait has none of them.
Reply(s) ==
  /\ One(AskRoutes(s)) /\ One(AskHands(s)) /\ One(AskChild(s))
  /\ AskRoutes(s) = {} \/ (AskHands(s) = {} /\ AskChild(s) = {})
  /\ AskHands(s) = {} \/ AskChild(s) = {}
  /\ asks[s] # "asked" => NoReply(s)
  /\ asks[s] # "again"
OneReply == \A s \in ServerId : Reply(s)

\* A panel's response names the request by the broker's number until its route is found.
Unread(g)   == pc[g] = "routing" /\ hand[g].kind = "response"
Replying(g) == pc[g] = "send" /\ hand[g].kind = "response" /\ hand[g].id \in ServerId
RepliesOwn ==
  /\ \A r \in serverPending : CallOf(r.iid, r.conn, r.orig) \in routed
  /\ \A g \in Conn : Replying(g) => CallOf(hand[g].iid, g, hand[g].id) \in routed
  /\ \A g \in Conn : Unread(g) => hand[g].id \in Nat
Replied == OneReply /\ RepliesOwn

\* What a step leaves alone.
ReplyStill(h) ==
  /\ Replying(h)' => Replying(h) /\ hand'[h] = hand[h]
  /\ Unread(h)' => Unread(h) /\ hand'[h] = hand[h]
AsksStill == serverPending' \subseteq serverPending \/ serverPending' = {Aged(r) : r \in serverPending}

LEMMA ReplyLess ==
  ASSUME NEW s, Reply(s), asks'[s] = asks[s], NoMore(AskRoutes(s)', AskRoutes(s)),
         NoMore(AskHands(s)', AskHands(s)), NoMore(AskChild(s)', AskChild(s))
  PROVE  Reply(s)'
BY DEF Reply, NoReply, NoMore

LEMMA OneLess ==
  ASSUME NEW S, NEW T, S \subseteq T, One(T)
  PROVE  NoMore(S, T)
BY DEF One, NoMore

LEMMA StillAsks ==
  ASSUME NEW s, AsksStill, One(AskRoutes(s))
  PROVE  NoMore(AskRoutes(s)', AskRoutes(s))
<1>1. CASE serverPending' \subseteq serverPending
  BY <1>1, OneLess DEF AskRoutes
<1>2. CASE serverPending' = {Aged(r) : r \in serverPending}
  <2>1. \A x \in AskRoutes(s)' : \E r \in AskRoutes(s) : x = Aged(r)
    BY <1>2 DEF AskRoutes, Aged
  <2>2. QED
    BY <2>1 DEF NoMore, One
<1>3. QED
  BY <1>1, <1>2 DEF AsksStill

LEMMA StillReplies ==
  ASSUME NEW s \in ServerId, \A h \in Conn : ReplyStill(h)
  PROVE  AskHands(s)' \subseteq AskHands(s)
BY DEF AskHands, ReplyStill, Replying, BearsTo

LEMMA StillOwn ==
  ASSUME RepliesOwn, routed' = routed, AsksStill, \A h \in Conn : ReplyStill(h)
  PROVE  RepliesOwn'
<1>1. \A r \in serverPending' : \E q \in serverPending :
        q.iid = r.iid /\ q.conn = r.conn /\ q.orig = r.orig
  BY DEF AsksStill, Aged
<1>2. QED
  BY <1>1 DEF RepliesOwn, ReplyStill

LEMMA StillReplied ==
  ASSUME Replied, UNCHANGED <<childIn, asks, routed>>, AsksStill, \A h \in Conn : ReplyStill(h)
  PROVE  Replied'
<1>1. ASSUME NEW s \in ServerId PROVE Reply(s)'
  <2>1. Reply(s) /\ AskChild(s)' = AskChild(s)
    BY DEF Replied, OneReply, AskChild
  <2>2. QED
    BY <2>1, StillAsks, StillReplies, OneLess, ReplyLess DEF Reply
<1>2. QED
  BY <1>1, StillOwn DEF Replied, OneReply

LEMMA ReplyMoved ==
  ASSUME NEW g \in Conn, NEW l, Goto(g, l), TypeOK, l \notin {"routing", "send"},
         hand' = hand \/ \E m : hand' = [hand EXCEPT ![g] = m]
  PROVE  \A h \in Conn : ReplyStill(h)
<1>1. \A h \in Conn : (pc'[h] = pc[h] /\ hand'[h] = hand[h]) \/ pc'[h] = l
  BY DEF Goto, TypeOK, ThreadsOK
<1>2. QED
  BY <1>1 DEF ReplyStill, Replying, Unread

LEMMA ReplySame == UNCHANGED <<pc, hand>> => \A h \in Conn : ReplyStill(h)
BY DEF ReplyStill, Replying, Unread

LEMMA ReplyDelivered ==
  ASSUME TypeOK, NEW t \in Thread, NEW ok \in BOOLEAN, Delivered(t, ok)
  PROVE  \A h \in Conn : ReplyStill(h)
<1>1. CASE t # Reader /\ pc[t] = "replay"
  <2>1. t \in Conn
    BY <1>1, ThreadIs
  <2>2. /\ \E l \in {"top", "error"} : Goto(t, l)
        /\ hand' = hand \/ \E m : hand' = [hand EXCEPT ![t] = m]
    BY <1>1 DEF Delivered
  <2>3. QED
    BY <2>1, <2>2, ReplyMoved
<1>2. CASE ~(t # Reader /\ pc[t] = "replay")
  BY <1>2, ReplySame DEF Delivered
<1>3. QED
  BY <1>1, <1>2

LEMMA AsksDropped ==
  ASSUME NEW g, Drop(g)
  PROVE  serverPending' \subseteq serverPending
BY DEF Drop, Others, routes

LEMMA InitReplied == Init => Replied
BY DEF Init, Replied, OneReply, Reply, RepliesOwn, One, NoReply, AskRoutes, AskHands, AskChild, Replying, Unread

LEMMA NextReplied == TypeOK /\ Replied /\ [Next]_vars => Replied'
<1> SUFFICES ASSUME TypeOK, Replied, [Next]_vars PROVE Replied'
  OBVIOUS
<1>0. /\ hand \in [Conn -> Hand] /\ DOMAIN pc = Conn /\ childIn \in Seq(Hand)
      /\ serverPending \subseteq Route(ServerId) /\ nextReq \in Nat
      /\ asks \in [ServerId -> {"fresh", "asked", "answered", "again"}] /\ routed \subseteq Call(ServerId)
  BY DEF TypeOK, RoutesOK, ThreadsOK, ChildOK, HistoryOK
<1>1. /\ UNCHANGED serverPending \/ serverPending' = Fresh(serverPending) => AsksStill
      /\ \A g : Drop(g) => AsksStill
  BY AsksDropped DEF AsksStill, Fresh
\* No thread comes to hold an answer, and none is found for a route.
<1>2. ASSUME NEW c \in ClientId, Connect(c) \/ ConnectRejected(c) PROVE Replied'
  <2>1. UNCHANGED <<hand, childIn, asks, routed>> /\ (UNCHANGED pc \/ Goto(nextConn, "top"))
    BY <1>2 DEF Connect, ConnectRejected, Register, child, history
  <2>2. AsksStill
    BY <1>2 DEF Connect, ConnectRejected, Register, Prune, AsksStill, Others, Fresh
  <2>3. \A h \in Conn : pc'[h] = pc[h] \/ pc'[h] = "top"
    BY <1>0, <2>1 DEF Goto
  <2>4. \A h \in Conn : ReplyStill(h)
    BY <2>1, <2>3 DEF ReplyStill, Replying, Unread
  <2>5. QED
    BY <2>1, <2>2, <2>4, StillReplied
<1>3. ASSUME NEW g \in Conn, Poll(g) \/ ReadNothing(g) \/ SocketEnds(g)
             \/ Unsend(g) \/ HangUp(g) \/ FailInitialize(g)
      PROVE  Replied'
  <2>1. UNCHANGED <<childIn, asks, routed>>
    BY <1>3 DEF Poll, ReadNothing, SocketEnds, Unsend, HangUp, FailInitialize, child, history
  <2>2. AsksStill
    <3>1. UNCHANGED serverPending \/ Drop(g)
      BY <1>3 DEF Poll, ReadNothing, SocketEnds, Unsend, HangUp, FailInitialize, routes
    <3>2. QED
      BY <1>1, <3>1
  <2>3. /\ hand' = hand \/ hand' = [hand EXCEPT ![g] = NoHand]
        /\ \E l \in {"read", "closing", "top", "error", "done", "failing"} : Goto(g, l)
    BY <1>3 DEF Poll, ReadNothing, SocketEnds, Unsend, HangUp, FailInitialize
  <2>4. QED
    BY <2>1, <2>2, <2>3, ReplyMoved, StillReplied
<1>4. ASSUME NEW t \in Thread, Lookup(t) \/ TrySend(t) \/ Evict(t) PROVE Replied'
  <2>1. UNCHANGED <<childIn, asks, routed>>
    BY <1>4 DEF Lookup, TrySend, Evict, child, history
  <2>2. UNCHANGED serverPending \/ Drop(job[t].target)
    BY <1>4 DEF Lookup, TrySend, Evict, routes
  <2>3. AsksStill
    BY <1>1, <2>2
  <2>4. UNCHANGED <<pc, hand>> \/ \E ok \in BOOLEAN : Delivered(t, ok)
    BY <1>4 DEF Lookup, TrySend, Evict
  <2>5. QED
    BY <2>1, <2>3, <2>4, ReplySame, ReplyDelivered, StillReplied
<1>5. ASSUME \/ ServerNotify \/ ReaderStops \/ TimePasses \/ UNCHANGED vars
             \/ \E i \in Iid : ServerRespond(i)
      PROVE  Replied'
  <2>1. UNCHANGED <<pc, hand, childIn, asks, routed>>
    BY <1>5 DEF ServerNotify, ReaderStops, TimePasses, ServerRespond, vars, child, history
  <2>2. AsksStill
    BY <1>5 DEF ServerNotify, ReaderStops, TimePasses, ServerRespond, vars, routes, AsksStill, Fresh
  <2>3. QED
    BY <2>1, <2>2, ReplySame, StillReplied
<1>6. ASSUME NEW g \in Conn, RouteRequest(g) \/ RouteInitialize(g) PROVE Replied'
  <2>1. UNCHANGED <<childIn, asks, routed>>
        /\ hand[g].kind \in {"request", "initialize"}
    BY <1>6 DEF RouteRequest, RouteInitialize, child
  <2>2. AsksStill
    BY <1>6 DEF RouteRequest, RouteInitialize, AsksStill, Fresh
  <2>3. \E l \in {"error", "send", "replay", "top"} : Goto(g, l)
    BY <1>6 DEF RouteRequest, RouteInitialize
  <2>4. \/ hand' = hand
        \/ hand' = [hand EXCEPT ![g] = NoHand]
        \/ hand' = [hand EXCEPT ![g] = Carry(@.kind, @.id, nextReq)]
    BY <1>6 DEF RouteRequest, RouteInitialize
  <2>5. /\ \A h \in Conn \ {g} : pc'[h] = pc[h] /\ hand'[h] = hand[h]
        /\ pc'[g] # "routing" /\ hand'[g].kind # "response"
    BY <1>0, <2>1, <2>3, <2>4 DEF Goto, Carry, NoHand
  <2>6. \A h \in Conn : ReplyStill(h)
    BY <2>5 DEF ReplyStill, Replying, Unread
  <2>7. QED
    BY <2>1, <2>2, <2>6, StillReplied
\* The answer of a panel, from its socket to the child's channel.
<1>7. ASSUME NEW g \in Conn, ReadMessage(g) PROVE Replied'
  <2>1. UNCHANGED <<serverPending, childIn, asks, routed>>
    BY <1>7 DEF ReadMessage, ReadCall, ReadNote, ReadResponse, ReadOnce, routes, child
  <2>2. \E m, l : /\ hand' = [hand EXCEPT ![g] = m] /\ Goto(g, l)
                  /\ l # "send" \/ m.kind = "note"
                  /\ m.kind = "response" => m.id \in Nat
    BY <1>0, <1>7 DEF ReadMessage, ReadCall, ReadNote, ReadResponse, ReadOnce, Carry, Call
  <2>3. /\ \A h \in Conn \ {g} : pc'[h] = pc[h] /\ hand'[h] = hand[h]
        /\ pc'[g] # "send" \/ hand'[g].kind = "note"
        /\ hand'[g].kind = "response" => hand'[g].id \in Nat
    BY <1>0, <2>2 DEF Goto
  <2>4. /\ \A h \in Conn : Replying(h)' => Replying(h) /\ hand'[h] = hand[h]
        /\ \A h \in Conn : Unread(h)' => hand'[h].id \in Nat
    BY <2>3 DEF Replying, Unread, Replied, RepliesOwn
  <2>5. RepliesOwn'
    BY <2>1, <2>4 DEF Replied, RepliesOwn
  <2>6. ASSUME NEW s \in ServerId PROVE Reply(s)'
    <3>1. /\ Reply(s) /\ AskChild(s)' = AskChild(s) /\ AskRoutes(s)' = AskRoutes(s)
          /\ AskHands(s)' \subseteq AskHands(s)
      BY <2>1, <2>4 DEF Replied, OneReply, AskChild, AskRoutes, AskHands, Replying, BearsTo
    <3>2. QED
      BY <2>1, <3>1, OneLess, ReplyLess DEF Reply
  <2>7. QED
    BY <2>5, <2>6 DEF Replied, OneReply
<1>8. ASSUME NEW g \in Conn, RouteResponse(g) PROVE Replied'
  <2>1. /\ UNCHANGED <<childIn, asks, routed>> /\ Unread(g) /\ Goto(g, "send")
    BY <1>8 DEF RouteResponse, child, history, Unread
  <2>2. CASE UNCHANGED <<serverPending, hand>>
    <3>1. hand[g].id \notin ServerId
      BY <2>1, BrokerAssumption DEF Replied, RepliesOwn
    <3>2. \A h \in Conn : pc'[h] = IF h = g THEN "send" ELSE pc[h]
      BY <1>0, <2>1 DEF Goto
    <3>3. \A h \in Conn : ReplyStill(h)
      BY <2>2, <3>1, <3>2 DEF ReplyStill, Replying, Unread
    <3>4. QED
      BY <1>1, <2>1, <2>2, <3>3, StillReplied
  <2>3. ASSUME NEW r \in Owned(g), serverPending' = serverPending \ {r},
               hand' = [hand EXCEPT ![g] = Carry(@.kind, r.orig, r.iid)]
        PROVE  Replied'
    <3>1. /\ \A h \in Conn \ {g} : pc'[h] = pc[h] /\ hand'[h] = hand[h]
          /\ pc[g] = "routing" /\ pc'[g] = "send" /\ hand'[g].kind = "response"
          /\ hand'[g].id = r.orig /\ hand'[g].iid = r.iid
      BY <1>0, <2>1, <2>3 DEF Goto, Carry, Unread
    <3>2. r \in serverPending /\ r.conn = g
      BY DEF Owned
    <3>3. RepliesOwn'
      BY <2>1, <2>3, <3>1, <3>2 DEF Replied, RepliesOwn, Replying, Unread
    <3>4. ASSUME NEW s \in ServerId PROVE Reply(s)'
      <4>1. Reply(s) /\ AskChild(s)' = AskChild(s) /\ AskRoutes(s)' = AskRoutes(s) \ {r}
        BY <2>1, <2>3 DEF Replied, OneReply, AskChild, AskRoutes
      <4>2. CASE s = r.orig
        <5>1. r \in AskRoutes(s)
          BY <3>2, <4>2 DEF AskRoutes
        <5>2. AskRoutes(s)' = {} /\ AskHands(s) = {} /\ AskChild(s) = {} /\ asks[s] = "asked"
          BY <4>1, <5>1 DEF Reply, One, NoReply
        <5>3. AskHands(s)' \subseteq {g}
          BY <3>1, <5>2 DEF AskHands, BearsTo
        <5>4. QED
          BY <2>1, <4>1, <5>2, <5>3 DEF Reply, One
      <4>3. CASE s # r.orig
        <5>1. AskHands(s)' \subseteq AskHands(s)
          BY <3>1, <4>3 DEF AskHands, BearsTo
        <5>2. QED
          BY <2>1, <4>1, <5>1, OneLess, ReplyLess DEF Reply
      <4>4. QED
        BY <4>2, <4>3
    <3>5. QED
      BY <3>3, <3>4 DEF Replied, OneReply
  <2>4. QED
    BY <1>8, <2>2, <2>3 DEF RouteResponse
<1>9. ASSUME NEW g \in Conn, SendChild(g) PROVE Replied'
  <2>1. /\ pc[g] = "send" /\ UNCHANGED <<serverPending, asks, routed>>
        /\ \/ /\ childIn' = Append(childIn, hand[g]) /\ hand' = [hand EXCEPT ![g] = NoHand] /\ Goto(g, "top")
           \/ UNCHANGED <<childIn, hand>> /\ Goto(g, AfterRefusal[hand[g].kind])
    BY <1>9 DEF SendChild, routes, history
  <2>2. CASE UNCHANGED <<childIn, hand>> /\ Goto(g, AfterRefusal[hand[g].kind])
    <3>1. hand[g].kind \in {"none", "note", "request", "initialize", "response"}
      BY <1>0, HandFields
    <3>2. AfterRefusal[hand[g].kind] \in {"unsend", "failinit", "error"}
      BY <3>1 DEF AfterRefusal
    <3>3. QED
      BY <1>1, <2>1, <2>2, <3>2, ReplyMoved, StillReplied
  <2>3. CASE childIn' = Append(childIn, hand[g]) /\ hand' = [hand EXCEPT ![g] = NoHand] /\ Goto(g, "top")
    <3>1. /\ \A h \in Conn \ {g} : pc'[h] = pc[h] /\ hand'[h] = hand[h]
          /\ pc'[g] = "top"
      BY <1>0, <2>3 DEF Goto
    <3>2. PICK n \in DOMAIN childIn' :
            /\ DOMAIN childIn' = DOMAIN childIn \cup {n} /\ childIn'[n] = hand[g]
            /\ \A j \in DOMAIN childIn : childIn'[j] = childIn[j]
      <4>1. /\ Len(childIn) \in Nat /\ DOMAIN childIn = 1..Len(childIn)
            /\ DOMAIN childIn' = DOMAIN childIn \cup {Len(childIn) + 1}
            /\ childIn'[Len(childIn) + 1] = hand[g]
            /\ \A j \in DOMAIN childIn : childIn'[j] = childIn[j]
        BY <1>0, <2>3
      <4>2. QED
        BY <4>1
    <3>3. \A h \in Conn : ReplyStill(h)
      BY <3>1 DEF ReplyStill, Replying, Unread
    <3>4. RepliesOwn'
      BY <1>1, <2>1, <3>3, StillOwn DEF Replied
    <3>5. ASSUME NEW s \in ServerId PROVE Reply(s)'
      <4>1. Reply(s) /\ AskRoutes(s)' = AskRoutes(s) /\ AskHands(s)' = AskHands(s) \ {g}
        BY <2>1, <3>1 DEF Replied, OneReply, AskRoutes, AskHands
      <4>2. CASE BearsTo(hand[g], s)
        <5>1. g \in AskHands(s)
          BY <2>1, <4>2 DEF AskHands
        <5>2. AskHands(s)' = {} /\ AskRoutes(s) = {} /\ AskChild(s) = {} /\ asks[s] = "asked"
          BY <4>1, <5>1 DEF Reply, One, NoReply
        <5>3. AskChild(s)' \subseteq {n}
          BY <3>2, <5>2 DEF AskChild
        <5>4. QED
          BY <2>1, <4>1, <5>2, <5>3 DEF Reply, One
      <4>3. CASE ~BearsTo(hand[g], s)
        <5>1. AskChild(s)' \subseteq AskChild(s)
          BY <3>2, <4>3 DEF AskChild
        <5>2. QED
          BY <2>1, <4>1, <5>1, OneLess, ReplyLess DEF Reply
      <4>4. QED
        BY <4>2, <4>3
    <3>6. QED
      BY <3>4, <3>5 DEF Replied, OneReply
  <2>4. QED
    BY <2>1, <2>2, <2>3
<1>10. ASSUME WriteChild PROVE Replied'
  <2> DEFINE m == Head(childIn)
  <2>1. /\ UNCHANGED <<pc, hand, serverPending, routed>> /\ childIn # <<>> /\ childIn' = Tail(childIn)
        /\ \A s \in ServerId : asks'[s] = IF BearsTo(m, s)
                                          THEN IF asks[s] = "asked" THEN "answered" ELSE "again"
                                          ELSE asks[s]
    BY <1>10 DEF WriteChild, routes, history, BearsTo
  <2>2. /\ 1 \in DOMAIN childIn /\ m = childIn[1]
        /\ \A j \in DOMAIN childIn' : /\ j \in Nat /\ j + 1 \in DOMAIN childIn /\ j + 1 # 1
                                      /\ childIn'[j] = childIn[j + 1]
    BY <1>0, <2>1
  <2>3. RepliesOwn'
    BY <1>1, <2>1, ReplySame, StillOwn DEF Replied
  <2>4. ASSUME NEW s \in ServerId PROVE Reply(s)'
    <3>1. Reply(s) /\ AskRoutes(s)' = AskRoutes(s) /\ AskHands(s)' = AskHands(s)
      BY <2>1 DEF Replied, OneReply, AskRoutes, AskHands
    <3>2. \A j \in AskChild(s)' : j \in Nat /\ j + 1 \in AskChild(s) /\ j + 1 # 1
      BY <2>2 DEF AskChild
    <3>3. CASE BearsTo(m, s)
      <4>1. 1 \in AskChild(s)
        BY <2>2, <3>3 DEF AskChild
      <4>2. AskRoutes(s) = {} /\ AskHands(s) = {} /\ AskChild(s)' = {} /\ asks'[s] = "answered"
        BY <2>1, <3>1, <3>2, <3>3, <4>1 DEF Reply, One, NoReply
      <4>3. QED
        BY <3>1, <4>2 DEF Reply, NoReply, One
    <3>4. CASE ~BearsTo(m, s)
      <4>1. NoMore(AskChild(s)', AskChild(s))
        BY <3>1, <3>2 DEF Reply, NoMore, One
      <4>2. QED
        BY <2>1, <3>1, <3>4, <4>1, OneLess, ReplyLess DEF Reply
    <3>5. QED
      BY <3>3, <3>4
  <2>5. QED
    BY <2>3, <2>4 DEF Replied, OneReply
<1>11. ASSUME WriterStops PROVE Replied'
  <2>1. UNCHANGED <<pc, hand, serverPending, asks, routed>> /\ childIn' = <<>>
    BY <1>11 DEF WriterStops, routes, history
  <2>2. RepliesOwn'
    BY <1>1, <2>1, ReplySame, StillOwn DEF Replied
  <2>3. ASSUME NEW s \in ServerId PROVE Reply(s)'
    <3>1. Reply(s) /\ AskRoutes(s)' = AskRoutes(s) /\ AskHands(s)' = AskHands(s) /\ AskChild(s)' = {}
      BY <2>1 DEF Replied, OneReply, AskRoutes, AskHands, AskChild
    <3>2. QED
      BY <2>1, <3>1, OneLess, ReplyLess DEF Reply, NoMore, One
  <2>4. QED
    BY <2>2, <2>3 DEF Replied, OneReply
<1>12. ASSUME NEW u \in ServerId, ServerAsk(u) PROVE Replied'
  <2>1. /\ UNCHANGED <<pc, hand, childIn>> /\ asks[u] = "fresh" /\ asks' = [asks EXCEPT ![u] = "asked"]
        /\ \/ serverPending' = Fresh(serverPending) /\ UNCHANGED routed
           \/ \E g : /\ serverPending' = Fresh(serverPending) \cup {RouteOf(nextReq, g, u)}
                     /\ routed' = routed \cup {CallOf(nextReq, g, u)}
    BY <1>12 DEF ServerAsk
  <2>2. RepliesOwn'
    <3>1. /\ routed \subseteq routed'
          /\ \A r \in serverPending' : r \in serverPending \/ CallOf(r.iid, r.conn, r.orig) \in routed'
      BY <2>1 DEF Fresh, RouteOf
    <3>2. \A h \in Conn : (Replying(h)' <=> Replying(h)) /\ (Unread(h)' <=> Unread(h)) /\ hand'[h] = hand[h]
      BY <2>1 DEF Replying, Unread
    <3>3. QED
      BY <3>1, <3>2 DEF Replied, RepliesOwn
  <2>3. ASSUME NEW s \in ServerId PROVE Reply(s)'
    <3>1. Reply(s) /\ AskHands(s)' = AskHands(s) /\ AskChild(s)' = AskChild(s)
      BY <2>1 DEF Replied, OneReply, AskHands, AskChild
    <3>2. CASE s = u
      <4>1. NoReply(s) /\ asks'[s] = "asked"
        BY <1>0, <2>1, <3>1, <3>2 DEF Reply
      <4>2. \E r : AskRoutes(s)' \subseteq {r}
        BY <2>1, <4>1 DEF NoReply, AskRoutes, Fresh
      <4>3. QED
        BY <3>1, <4>1, <4>2 DEF Reply, NoReply, One
    <3>3. CASE s # u
      <4>1. AskRoutes(s)' \subseteq AskRoutes(s) /\ asks'[s] = asks[s]
        BY <1>0, <2>1, <3>3 DEF AskRoutes, Fresh, RouteOf
      <4>2. QED
        BY <3>1, <4>1, OneLess, ReplyLess DEF Reply
    <3>4. QED
      BY <3>2, <3>3
  <2>4. QED
    BY <2>2, <2>3 DEF Replied, OneReply
<1>13. QED
  BY <1>2, <1>3, <1>4, <1>5, <1>6, <1>7, <1>8, <1>9, <1>10, <1>11, <1>12 DEF Next, Handle, Deliver

\* A request of the app server is answered once, by the panel it was routed to,
\* though responses and disconnects race with the route.
THEOREM AlwaysAuthenticServerAnswer == Spec => []AuthenticServerAnswer
<1>1. Init => TypeOK /\ Replied
  BY InitTypeOK, InitReplied
<1>2. TypeOK /\ Replied /\ [Next]_vars => (TypeOK /\ Replied)'
  BY NextTypeOK, NextReplied
<1>3. TypeOK /\ Replied => AuthenticServerAnswer
  BY DEF Replied, OneReply, Reply, RepliesOwn, Replying, AuthenticServerAnswer
<1>4. QED
  BY <1>1, <1>2, <1>3, PTL DEF Spec

-----------------------------------------------------------------------------
(* How often a call of a panel is answered. *)

\* The thread never again writes what is in its queue.
Doomed == {"unsend", "failinit", "failing", "error", "closing", "done"}

Gives(m, k) == IsAnswer(m) /\ m.id = k
Calling(g, k) == hand[g].kind \in {"request", "initialize"} /\ hand[g].id = k

\* The places from which an answer to call k of connection g may still come.
CallRoutes(g, k)  == {r \in pending : r.conn = g /\ r.orig = k}
CallWaiters(g, k) == {w \in initialize.waiters : w.conn = g /\ w.orig = k}
CallFrom(t, g, k) == {d \in out[t] : d.to = g /\ Gives(d.msg, k)}
CallOut(g, k)     == {t \in Thread : CallFrom(t, g, k) # {}}
CallJobs(g, k)    == {t \in Thread : job[t].stage # "idle" /\ job[t].to = g /\ Gives(job[t].msg, k)}
CallQueued(g, k)  == {i \in DOMAIN queue[g] : Gives(queue[g][i], k)}
Unanswered(g, k) ==
  /\ CallRoutes(g, k) = {} /\ CallWaiters(g, k) = {}
  /\ CallOut(g, k) = {} /\ CallJobs(g, k) = {} /\ CallQueued(g, k) = {}

Alone(P, W, O, J, Q) ==
  /\ One(P) /\ One(W) /\ One(O) /\ One(J) /\ One(Q)
  /\ P = {} \/ (W = {} /\ O = {} /\ J = {} /\ Q = {})
  /\ W = {} \/ (O = {} /\ J = {} /\ Q = {})
  /\ O = {} \/ (J = {} /\ Q = {})
  /\ J = {} \/ Q = {}

\* While the thread serves, one answer is to come, from one place, or it was written.
Settling(g, k) ==
  /\ Alone(CallRoutes(g, k), CallWaiters(g, k), CallOut(g, k), CallJobs(g, k), CallQueued(g, k))
  /\ \A t \in Thread : One(CallFrom(t, g, k))
  /\ answers[g][k] = 1 => Unanswered(g, k)
  /\ k \notin used[g] => Unanswered(g, k)
  /\ Calling(g, k) =>
       /\ pc[g] = "routing" => Unanswered(g, k)
       /\ pc[g] = "send" =>
            /\ CallOut(g, k) = {} /\ CallJobs(g, k) = {} /\ CallQueued(g, k) = {}
            /\ hand[g].kind = "request" =>
                 CallWaiters(g, k) = {} /\ \A r \in CallRoutes(g, k) : r.iid = hand[g].iid
            /\ hand[g].kind = "initialize" => CallRoutes(g, k) = {}
       /\ pc[g] = "replay" =>
            /\ CallRoutes(g, k) = {} /\ CallWaiters(g, k) = {} /\ CallQueued(g, k) = {}
            /\ CallOut(g, k) \subseteq {g} /\ CallJobs(g, k) \subseteq {g}

\* The call a thread still routes has no answer yet: the thread may have to refuse it.
Answered(g, k) ==
  /\ answers[g][k] \in {0, 1}
  /\ k \notin used[g] => answers[g][k] = 0
  /\ Calling(g, k) => answers[g][k] = 0 /\ k \in used[g]
  /\ pc[g] \notin Doomed => Settling(g, k)
OneAnswer == \A g \in Conn, k \in OrigId : Answered(g, k)

\* What a step leaves alone.
Fewer(S, T) == (One(T) => One(S)) /\ (S # {} => T # {})
FewerRoutes(g, k) ==
  /\ Fewer(CallRoutes(g, k)', CallRoutes(g, k)) /\ Fewer(CallWaiters(g, k)', CallWaiters(g, k))
  /\ \A r \in CallRoutes(g, k)' : \E q \in CallRoutes(g, k) : q.iid = r.iid
FewerSends(g, k) ==
  /\ CallOut(g, k)' \subseteq CallOut(g, k) /\ CallJobs(g, k)' \subseteq CallJobs(g, k)
  /\ Fewer(CallQueued(g, k)', CallQueued(g, k))
  /\ \A t \in Thread : CallFrom(t, g, k)' \subseteq CallFrom(t, g, k)
SameCall(g, k) ==
  /\ answers'[g][k] = answers[g][k]
  /\ k \in used[g] => k \in used'[g]
SameHand(g, k) ==
  /\ Calling(g, k)' => hand'[g] = hand[g] /\ (pc'[g] = pc[g] \/ pc'[g] \notin {"routing", "send", "replay"})
  /\ pc[g] \in Doomed => pc'[g] \in Doomed

LEMMA SettlingFewer ==
  ASSUME NEW g \in Conn, NEW k \in OrigId, Settling(g, k), FewerRoutes(g, k), FewerSends(g, k),
         SameCall(g, k), SameHand(g, k)
  PROVE  Settling(g, k)'
<1>1. Unanswered(g, k) => Unanswered(g, k)'
  BY DEF Unanswered, FewerRoutes, FewerSends, Fewer
<1>2. Alone(CallRoutes(g, k)', CallWaiters(g, k)', CallOut(g, k)', CallJobs(g, k)', CallQueued(g, k)')
  BY DEF Settling, Alone, FewerRoutes, FewerSends, Fewer, One
<1>3. \A t \in Thread : One(CallFrom(t, g, k)')
  BY DEF Settling, FewerSends, One
<1>4. (answers[g][k] = 1 => Unanswered(g, k))' /\ (k \notin used[g] => Unanswered(g, k))'
  BY <1>1 DEF Settling, SameCall
<1>5. ASSUME Calling(g, k)', pc'[g] \in {"routing", "send", "replay"}
      PROVE  Calling(g, k) /\ pc'[g] = pc[g] /\ hand'[g] = hand[g]
  BY <1>5 DEF SameHand, Calling
<1>6. CASE ~(Calling(g, k)' /\ pc'[g] \in {"routing", "send", "replay"})
  BY <1>2, <1>3, <1>4, <1>6 DEF Settling, Thread, Conn, Reader
<1>7. CASE Calling(g, k)' /\ pc'[g] = "routing"
  BY <1>1, <1>2, <1>3, <1>4, <1>5, <1>7 DEF Settling, Thread, Conn, Reader
<1>8. CASE Calling(g, k)' /\ pc'[g] = "send"
  BY <1>2, <1>3, <1>4, <1>5, <1>8 DEF Settling, Thread, Conn, Reader, FewerRoutes, FewerSends, Fewer
<1>9. CASE Calling(g, k)' /\ pc'[g] = "replay"
  BY <1>2, <1>3, <1>4, <1>5, <1>9 DEF Settling, Thread, Conn, Reader, FewerRoutes, FewerSends, Fewer
<1>10. QED
  BY <1>6, <1>7, <1>8, <1>9

LEMMA AnsweredFewer ==
  ASSUME NEW g \in Conn, NEW k \in OrigId, Answered(g, k), FewerRoutes(g, k), FewerSends(g, k),
         SameCall(g, k), SameHand(g, k)
  PROVE  Answered(g, k)'
<1>1. Calling(g, k)' => Calling(g, k)
  BY DEF SameHand, Calling
<1>2. pc'[g] \notin Doomed => Settling(g, k)'
  BY SettlingFewer DEF Answered, SameHand
<1>3. QED
  BY <1>1, <1>2 DEF Answered, SameCall

\* Where the thread will not serve, only the count of its answers matters.
LEMMA AnsweredDoomed ==
  ASSUME NEW g \in Conn, NEW k \in OrigId, Answered(g, k), SameCall(g, k),
         Calling(g, k)' => Calling(g, k), pc'[g] \in Doomed
  PROVE  Answered(g, k)'
BY DEF Answered, SameCall

LEMMA OneFewer ==
  ASSUME NEW S, NEW T, S \subseteq T
  PROVE  Fewer(S, T)
BY DEF One, Fewer

LEMMA AgedFewer ==
  ASSUME NEW S, NEW T, \A x \in S : \E r \in T : x = Aged(r)
  PROVE  Fewer(S, T)
BY DEF One, Fewer

LEMMA RoutesFewer ==
  ASSUME NEW g, NEW k,
         \/ pending' \subseteq pending /\ initialize'.waiters \subseteq initialize.waiters
         \/ /\ pending' = {Aged(r) : r \in pending}
            /\ initialize'.waiters = {Aged(w) : w \in initialize.waiters}
  PROVE  FewerRoutes(g, k)
<1>1. CASE pending' \subseteq pending /\ initialize'.waiters \subseteq initialize.waiters
  <2>1. /\ CallRoutes(g, k)' \subseteq CallRoutes(g, k)
        /\ CallWaiters(g, k)' \subseteq CallWaiters(g, k)
    BY <1>1 DEF CallRoutes, CallWaiters
  <2>2. QED
    BY <2>1, OneFewer DEF FewerRoutes
<1>2. CASE /\ pending' = {Aged(r) : r \in pending}
           /\ initialize'.waiters = {Aged(w) : w \in initialize.waiters}
  <2>1. /\ \A x \in CallRoutes(g, k)' : \E r \in CallRoutes(g, k) : x = Aged(r) /\ x.iid = r.iid
        /\ \A x \in CallWaiters(g, k)' : \E w \in CallWaiters(g, k) : x = Aged(w)
    BY <1>2 DEF CallRoutes, CallWaiters, Aged
  <2>2. Fewer(CallRoutes(g, k)', CallRoutes(g, k)) /\ Fewer(CallWaiters(g, k)', CallWaiters(g, k))
    BY <2>1, AgedFewer
  <2>3. QED
    BY <2>1, <2>2 DEF FewerRoutes
<1>3. QED
  BY <1>1, <1>2

LEMMA SendsFewer ==
  ASSUME NEW g \in Conn, NEW k,
         \A t \in Thread : CallFrom(t, g, k)' \subseteq CallFrom(t, g, k),
         \A t \in Thread : t \in CallJobs(g, k)' => t \in CallJobs(g, k),
         queue'[g] = queue[g] \/ queue'[g] = <<>>
  PROVE  FewerSends(g, k)
<1>1. CallOut(g, k)' \subseteq CallOut(g, k)
  BY DEF CallOut, Thread, Conn, Reader
<1>2. CallJobs(g, k)' \subseteq CallJobs(g, k)
  BY DEF CallJobs, Thread, Conn, Reader
<1>3. CallQueued(g, k)' \subseteq CallQueued(g, k)
  BY DEF CallQueued
<1>4. QED
  BY <1>1, <1>2, <1>3, OneFewer DEF FewerSends

LEMMA SendsSame ==
  ASSUME NEW g \in Conn, NEW k, UNCHANGED <<out, job>>, queue'[g] = queue[g] \/ queue'[g] = <<>>
  PROVE  FewerSends(g, k)
<1>1. \A t : CallFrom(t, g, k)' = CallFrom(t, g, k)
  BY DEF CallFrom
<1>2. CallJobs(g, k)' = CallJobs(g, k)
  BY DEF CallJobs, Thread, Conn, Reader
<1>3. QED
  BY <1>1, <1>2, SendsFewer

\* A thread that leaves its place without a call in its hand, or gives up serving.
LEMMA HandMoved ==
  ASSUME NEW h \in Conn, NEW l, Goto(h, l), TypeOK, NEW g \in Conn, NEW k \in OrigId,
         pc[h] \in Doomed => l \in Doomed, l \in Doomed \/ ~Calling(h, k)',
         hand' = hand \/ hand' = [hand EXCEPT ![h] = NoHand]
  PROVE  SameHand(g, k)
<1>1. \/ pc'[g] = pc[g] /\ hand'[g] = hand[g]
      \/ g = h /\ pc'[g] = l /\ (hand'[g] = hand[g] \/ hand'[g] = NoHand)
  BY DEF Goto, TypeOK, ThreadsOK
<1>2. NoHand.kind = "none"
  BY DEF NoHand, Carry
<1>3. QED
  BY <1>1, <1>2 DEF SameHand, Calling, Doomed

LEMMA HandSame ==
  ASSUME UNCHANGED <<pc, hand>>, NEW g, NEW k
  PROVE  SameHand(g, k)
BY DEF SameHand

LEMMA HandDelivered ==
  ASSUME TypeOK, NEW t \in Thread, NEW ok \in BOOLEAN, Delivered(t, ok), NEW g \in Conn, NEW k \in OrigId
  PROVE  SameHand(g, k)
<1>1. CASE t # Reader /\ pc[t] = "replay"
  <2>1. t \in Conn
    BY <1>1, ThreadIs
  <2>2. /\ Goto(t, IF ok THEN "top" ELSE "error")
        /\ IF ok THEN hand' = [hand EXCEPT ![t] = NoHand] ELSE hand' = hand
    BY <1>1 DEF Delivered
  <2>3. ok => ~Calling(t, k)'
    BY <2>1, <2>2 DEF Calling, TypeOK, ThreadsOK, NoHand, Carry
  <2>4. QED
    BY <1>1, <2>1, <2>2, <2>3, HandMoved DEF Doomed
<1>2. CASE ~(t # Reader /\ pc[t] = "replay")
  BY <1>2, HandSame DEF Delivered
<1>3. QED
  BY <1>1, <1>2

LEMMA InitOneAnswer == Init => OneAnswer
<1> SUFFICES ASSUME Init, NEW g \in Conn, NEW k \in OrigId PROVE Answered(g, k)
  BY DEF OneAnswer
<1>1. NoHand.kind = "none" /\ NoJob.stage = "idle"
  BY DEF NoHand, Carry, NoJob, JobOf
<1>2. /\ CallRoutes(g, k) = {} /\ CallWaiters(g, k) = {} /\ CallQueued(g, k) = {}
  BY DEF Init, Initialize, CallRoutes, CallWaiters, CallQueued
<1>3. (\A t \in Thread : CallFrom(t, g, k) = {}) /\ CallOut(g, k) = {} /\ CallJobs(g, k) = {}
  BY <1>1 DEF Init, CallFrom, CallOut, CallJobs
<1>4. ~Calling(g, k) /\ answers[g][k] = 0
  BY <1>1 DEF Init, Calling
<1>5. QED
  BY <1>2, <1>3, <1>4 DEF Answered, Settling, Alone, Unanswered, One

\* One thread at most has the initialize in its hand.
LEMMA OneForwards ==
  ASSUME TypeOK, Carried, NEW g \in Conn, NEW h \in Conn, Forwarding(g), Forwarding(h)
  PROVE  g = h
<1>1. /\ initialize.internal \in Nat \ {0}
      /\ hand[g].iid = initialize.internal /\ hand[h].iid = initialize.internal
  BY DEF TypeOK, RoutesOK, Carried, Underway
<1>2. g \in HandIid(initialize.internal) /\ h \in HandIid(initialize.internal)
  BY <1>1 DEF HandIid, Carries, Forwarding
<1>3. QED
  BY <1>1, <1>2 DEF Carried, CarriedOnce, Carrier, One

LEMMA CountOne ==
  ASSUME NEW S, One(S)
  PROVE  Cardinality(S) = IF S = {} THEN 0 ELSE 1
<1>1. CASE S = {}
  BY <1>1, FS_EmptySet
<1>2. CASE S # {}
  <2>1. PICK x : S = {x}
    BY <1>2 DEF One
  <2>2. QED
    BY <2>1, FS_Singleton
<1>3. QED
  BY <1>1, <1>2

\* An answer that was waited for leaves for the panel.
LEMMA AnswerSent ==
  ASSUME NEW g \in Conn, NEW k \in OrigId, NEW S, Answered(g, k), Settling(g, k), ~Unanswered(g, k),
         ~(Calling(g, k) /\ pc[g] \in {"routing", "send", "replay"}),
         pc'[g] = pc[g], hand'[g] = hand[g], UNCHANGED <<answers, used>>,
         CallRoutes(g, k)' = {}, CallWaiters(g, k)' = {}, CallJobs(g, k)' = {}, CallQueued(g, k)' = {},
         CallOut(g, k)' \subseteq S, One(S), \A t \in Thread : One(CallFrom(t, g, k)')
  PROVE  Answered(g, k)'
<1>1. answers'[g][k] = 0 /\ k \in used'[g]
  BY DEF Answered, Settling
<1>2. Settling(g, k)'
  BY <1>1 DEF Settling, Alone, One, Calling, Thread, Conn, Reader
<1>3. QED
  BY <1>1, <1>2 DEF Answered, Calling

LEMMA NextOneAnswer ==
  TypeOK /\ Shaped /\ Carried /\ JobRight /\ OneAnswer /\ [Next]_vars => OneAnswer'
<1> SUFFICES ASSUME TypeOK, Shaped, Carried, JobRight, OneAnswer, [Next]_vars,
                    NEW g \in Conn, NEW k \in OrigId
             PROVE  Answered(g, k)'
  BY DEF OneAnswer, Conn
<1>0. /\ hand \in [Conn -> Hand] /\ DOMAIN pc = Conn
      /\ queue \in [Conn -> Seq(PanelMsg)]
      /\ out \in [Thread -> SUBSET Delivery] /\ job \in [Thread -> Job]
      /\ DOMAIN used = Conn /\ answers \in [Conn -> [OrigId -> Nat]]
      /\ initialize.internal \in Nat
  BY DEF TypeOK, RoutesOK, SendingOK, ThreadsOK, HistoryOK
<1>1. Answered(g, k) /\ k \in Nat /\ k \notin ServerId /\ k # 0
  BY BrokerAssumption DEF OneAnswer
<1>2. NoHand.kind = "none" /\ NoJob.stage = "idle"
  BY DEF NoHand, Carry, NoJob, JobOf
<1>3. UNCHANGED <<used, answers>> => SameCall(g, k)
  BY DEF SameCall
<1>4. UNCHANGED sending => FewerSends(g, k)
  BY SendsSame DEF sending
<1>5. /\ UNCHANGED <<pending, initialize>> => FewerRoutes(g, k)
      /\ \A h \in Conn : Drop(h) => FewerRoutes(g, k)
  BY RoutesFewer, DropLess
<1>6. pc[g] \in {"top", "read"} => ~Calling(g, k)
  BY <1>2 DEF Shaped, Shape, Calling
\* Steps that only lose routes, or move a thread that holds no call.
<1>7. ASSUME NEW c \in ClientId, Connect(c) \/ ConnectRejected(c) PROVE Answered(g, k)'
  <2>1. UNCHANGED <<hand, sending, used, answers>> /\ (UNCHANGED pc \/ Goto(nextConn, "top"))
    BY <1>7 DEF Connect, ConnectRejected, Register, history
  <2>2. pending' \subseteq pending /\ initialize'.waiters \subseteq initialize.waiters
    BY <1>7 DEF Connect, ConnectRejected, Register, Prune, Pruned, Others, Fresh, WaitersOnly, Initialize
  <2>3. pc'[g] = pc[g] \/ (g = nextConn /\ pc'[g] = "top")
    BY <1>0, <2>1 DEF Goto
  <2>4. g = nextConn => hand[g] = NoHand /\ pc[g] = "free"
    BY BrokerAssumption DEF Shaped, Shape, TypeOK, RegistryOK
  <2>5. SameHand(g, k)
    BY <1>2, <2>1, <2>3, <2>4 DEF SameHand, Calling, Doomed
  <2>6. QED
    BY <1>1, <1>3, <1>4, <2>1, <2>2, <2>5, RoutesFewer, AnsweredFewer
<1>8. ASSUME NEW h \in Conn, ReadNothing(h) \/ SocketEnds(h) \/ RouteResponse(h) \/ Unsend(h)
      PROVE  Answered(g, k)'
  <2>1. UNCHANGED <<sending, used, answers>>
    BY <1>8 DEF ReadNothing, SocketEnds, RouteResponse, Unsend, history
  <2>2. pending' \subseteq pending /\ UNCHANGED initialize
    BY <1>8 DEF ReadNothing, SocketEnds, RouteResponse, Unsend, routes
  <2>3. SameHand(g, k)
    <3>1. CASE ReadNothing(h)
      <4>1. pc[h] = "read" /\ Goto(h, "top") /\ UNCHANGED hand
        BY <3>1 DEF ReadNothing
      <4>2. ~Calling(h, k)'
        BY <1>2, <4>1 DEF Calling, Shaped, Shape
      <4>3. QED
        BY <4>1, <4>2, HandMoved DEF Doomed
    <3>2. CASE SocketEnds(h) \/ Unsend(h)
      <4>1. UNCHANGED hand /\ \E l \in {"closing", "error"} : Goto(h, l)
        BY <3>2 DEF SocketEnds, Unsend
      <4>2. QED
        BY <4>1, HandMoved DEF Doomed
    <3>3. CASE RouteResponse(h)
      <4>1. /\ pc[h] = "routing" /\ Goto(h, "send") /\ hand[h].kind = "response"
            /\ hand' = hand \/ \E m : m.kind = "response" /\ hand' = [hand EXCEPT ![h] = m]
        BY <3>3 DEF RouteResponse, Carry
      <4>2. \/ pc'[g] = pc[g] /\ hand'[g] = hand[g]
            \/ pc[g] = "routing" /\ pc'[g] = "send" /\ hand'[g].kind = "response"
        BY <1>0, <4>1 DEF Goto
      <4>3. QED
        BY <4>2 DEF SameHand, Calling, Doomed
    <3>4. QED
      BY <1>8, <3>1, <3>2, <3>3
  <2>4. QED
    BY <1>1, <1>3, <1>4, <2>1, <2>2, <2>3, RoutesFewer, AnsweredFewer
<1>9. ASSUME ReaderStops \/ WriteChild \/ WriterStops \/ TimePasses \/ UNCHANGED vars PROVE Answered(g, k)'
  <2>1. UNCHANGED <<pc, hand, sending, used, answers>>
    BY <1>9 DEF ReaderStops, WriteChild, WriterStops, TimePasses, vars, history
  <2>2. \/ UNCHANGED <<pending, initialize>>
        \/ /\ pending' = {Aged(r) : r \in pending}
           /\ initialize'.waiters = {Aged(w) : w \in initialize.waiters}
    BY <1>9 DEF ReaderStops, WriteChild, WriterStops, TimePasses, vars, routes, WaitersOnly, Initialize
  <2>3. QED
    BY <1>1, <1>3, <1>4, <1>5, <2>1, <2>2, RoutesFewer, HandSame, AnsweredFewer
<1>10. ASSUME ServerNotify \/ \E s \in ServerId : ServerAsk(s) PROVE Answered(g, k)'
  <2>1. UNCHANGED <<pc, hand, queue, job, used, answers>>
    BY <1>10 DEF ServerNotify, ServerAsk, history
  <2>2. pending' \subseteq pending /\ initialize'.waiters \subseteq initialize.waiters
    <3>1. CASE ServerNotify
      BY <3>1 DEF ServerNotify, routes
    <3>2. ASSUME NEW s \in ServerId, ServerAsk(s)
          PROVE  pending' = Fresh(pending) /\ initialize'.waiters = Fresh(initialize.waiters)
      BY <3>2 DEF ServerAsk, Pruned, WaitersOnly, Initialize
    <3>3. QED
      BY <1>10, <3>1, <3>2 DEF Fresh
  <2>3. UNCHANGED out \/ \E S : /\ out' = [out EXCEPT ![Reader] = S]
                                /\ \A d \in S : ~IsAnswer(d.msg)
    <3>1. /\ \A h : ~IsAnswer(To(h, Note).msg)
          /\ \A h, i : ~IsAnswer(To(h, Ask(i)).msg)
      BY DEF To, Note, Ask, IsAnswer
    <3>2. ASSUME ServerNotify PROVE \E S : out' = [out EXCEPT ![Reader] = S] /\ \A d \in S : ~IsAnswer(d.msg)
      <4>1. out' = [out EXCEPT ![Reader] = {To(clients[c], Note) : c \in Registered}]
        BY <3>2 DEF ServerNotify
      <4>2. \A d \in {To(clients[c], Note) : c \in Registered} : ~IsAnswer(d.msg)
        BY <3>1
      <4>3. QED
        BY <4>1, <4>2
    <3>3. ASSUME NEW s \in ServerId, ServerAsk(s)
          PROVE  UNCHANGED out \/ \E h : out' = [out EXCEPT ![Reader] = {To(h, Ask(nextReq))}]
      BY <3>3 DEF ServerAsk
    <3>4. QED
      BY <1>10, <3>1, <3>2, <3>3
  <2>4. \A t \in Thread : CallFrom(t, g, k)' \subseteq CallFrom(t, g, k)
    BY <1>0, <2>3 DEF CallFrom, Gives
  <2>5. \A t \in Thread : t \in CallJobs(g, k)' => t \in CallJobs(g, k)
    BY <2>1 DEF CallJobs
  <2>6. FewerSends(g, k)
    BY <2>1, <2>4, <2>5, SendsFewer
  <2>7. QED
    BY <1>1, <1>3, <2>1, <2>2, <2>6, RoutesFewer, HandSame, AnsweredFewer
<1>11. ASSUME NEW h \in Conn, SendChild(h) PROVE Answered(g, k)'
  <2>1. /\ UNCHANGED <<sending, used, answers, pending, initialize>> /\ pc[h] = "send"
        /\ \/ hand' = [hand EXCEPT ![h] = NoHand] /\ Goto(h, "top")
           \/ UNCHANGED hand /\ Goto(h, AfterRefusal[hand[h].kind])
    BY <1>11 DEF SendChild, routes, history
  <2>2. hand[h].kind \in {"none", "note", "request", "initialize", "response"}
    BY <1>0, HandFields
  <2>3. AfterRefusal[hand[h].kind] \in Doomed
    BY <2>2 DEF AfterRefusal, Doomed
  <2>4. hand' = [hand EXCEPT ![h] = NoHand] => ~Calling(h, k)'
    BY <1>0, <1>2 DEF Calling
  <2>5. SameHand(g, k)
    BY <2>1, <2>3, <2>4, HandMoved DEF Doomed
  <2>6. QED
    BY <1>1, <1>3, <1>4, <1>5, <2>1, <2>5, AnsweredFewer
<1>12. ASSUME NEW h \in Conn, ReadMessage(h) PROVE Answered(g, k)'
  <2>1. UNCHANGED <<sending, pending, initialize, answers>> /\ pc[h] = "read"
    BY <1>12 DEF ReadMessage, ReadCall, ReadNote, ReadResponse, ReadOnce, routes
  <2>2. PICK x, m, l : /\ x \notin used[h] /\ used' = [used EXCEPT ![h] = @ \cup {x}]
                       /\ hand' = [hand EXCEPT ![h] = m] /\ Goto(h, l)
                       /\ m.kind \in {"request", "initialize"} => m.id = x /\ l \in {"routing", "error"}
    <3> DEFINE Reads(x, m, l) ==
          /\ x \notin used[h] /\ used' = [used EXCEPT ![h] = @ \cup {x}]
          /\ hand' = [hand EXCEPT ![h] = m] /\ Goto(h, l)
          /\ m.kind \in {"request", "initialize"} => m.id = x /\ l \in {"routing", "error"}
    <3>1. ASSUME NEW j, NEW kind, ReadCall(h, j, kind)
          PROVE  \E l \in {"routing", "error"} : Reads(j, Carry(kind, j, 0), l)
      BY <3>1 DEF ReadCall, ReadOnce, Carry
    <3>2. ASSUME ReadNote(h) PROVE \E l : Reads(0, Carry("note", 0, 0), l)
      BY <3>2 DEF ReadNote, ReadOnce, Carry
    <3>3. ASSUME ReadResponse(h) PROVE \E s, i, l : Reads(s, Carry("response", i, 0), l)
      BY <3>3 DEF ReadResponse, ReadOnce, Carry
    <3> HIDE DEF Reads
    <3>4. \E x, m, l : Reads(x, m, l)
      BY <1>12, <3>1, <3>2, <3>3 DEF ReadMessage
    <3>5. QED
      BY <3>4 DEF Reads
  <2>3. SameCall(g, k)
    BY <1>0, <2>1, <2>2 DEF SameCall
  <2>4. FewerRoutes(g, k) /\ FewerSends(g, k)
    BY <1>4, <1>5, <2>1
  <2>5. CASE g = h /\ Calling(g, k)'
    <3>1. /\ hand'[g] = m /\ pc'[g] = l /\ k = x /\ l \in {"routing", "error"}
          /\ k \notin used[g] /\ k \in used'[g]
      BY <1>0, <2>2, <2>5 DEF Calling, Goto
    <3>2. answers[g][k] = 0 /\ Settling(g, k) /\ Unanswered(g, k)
      BY <1>1, <2>1, <2>5, <3>1 DEF Answered, Doomed, Settling
    <3>3. Unanswered(g, k)'
      BY <2>4, <3>2 DEF FewerRoutes, FewerSends, Fewer, Unanswered
    <3>4. \A t \in Thread : One(CallFrom(t, g, k)')
      BY <2>4, <3>2 DEF FewerSends, Settling, One
    <3>5. Settling(g, k)'
      BY <3>1, <3>3, <3>4 DEF Settling, Alone, Unanswered, One, Thread, Conn, Reader
    <3>6. QED
      BY <2>1, <3>1, <3>2, <3>5 DEF Answered
  <2>6. CASE ~(g = h /\ Calling(g, k)')
    <3>1. SameHand(g, k)
      BY <1>0, <2>1, <2>2, <2>6 DEF SameHand, Calling, Goto, Doomed
    <3>2. QED
      BY <1>1, <2>3, <2>4, <3>1, AnsweredFewer
  <2>7. QED
    BY <2>5, <2>6
\* A call and its route.
<1>13. ASSUME NEW h \in Conn, RouteRequest(h) PROVE Answered(g, k)'
  <2>1. UNCHANGED <<sending, used, answers>> /\ pc[h] = "routing" /\ hand[h].kind = "request"
        /\ initialize'.waiters \subseteq initialize.waiters
        /\ \/ /\ pending' = Fresh(pending) \cup {RouteOf(nextReq, h, hand[h].id)}
              /\ hand' = [hand EXCEPT ![h] = Carry(@.kind, @.id, nextReq)] /\ Goto(h, "send")
           \/ pending' = Fresh(pending) /\ UNCHANGED hand /\ Goto(h, "error")
    BY <1>13 DEF RouteRequest, history, Pruned, WaitersOnly, Fresh, Initialize
  <2>2. FewerSends(g, k) /\ SameCall(g, k)
    BY <1>3, <1>4, <2>1
  <2>3. CASE pending' = Fresh(pending) /\ UNCHANGED hand /\ Goto(h, "error")
    <3>1. FewerRoutes(g, k)
      BY <2>1, <2>3, RoutesFewer DEF Fresh
    <3>2. SameHand(g, k)
      BY <2>3, HandMoved DEF Doomed
    <3>3. QED
      BY <1>1, <2>2, <3>1, <3>2, AnsweredFewer
  <2>4. CASE /\ pending' = Fresh(pending) \cup {RouteOf(nextReq, h, hand[h].id)}
             /\ hand' = [hand EXCEPT ![h] = Carry(@.kind, @.id, nextReq)] /\ Goto(h, "send")
    <3>1. /\ h # g => pc'[g] = pc[g] /\ hand'[g] = hand[g]
          /\ h = g => /\ pc'[g] = "send" /\ hand'[g].kind = "request"
                      /\ hand'[g].id = hand[g].id /\ hand'[g].iid = nextReq
      BY <1>0, <2>1, <2>4 DEF Goto, Carry
    <3>2. CASE g = h /\ Calling(g, k)
      <4>1. answers[g][k] = 0 /\ k \in used[g] /\ Settling(g, k) /\ Unanswered(g, k)
        BY <1>1, <2>1, <3>2 DEF Answered, Doomed, Settling
      <4>2. /\ CallRoutes(g, k)' = {RouteOf(nextReq, h, hand[h].id)} 
            /\ CallWaiters(g, k)' = {} /\ CallOut(g, k)' = {} /\ CallJobs(g, k)' = {}
            /\ CallQueued(g, k)' = {}
        <5>1. CallRoutes(g, k)' = {RouteOf(nextReq, h, hand[h].id)} /\ CallWaiters(g, k)' = {}
          BY <2>1, <2>4, <3>2, <4>1 DEF CallRoutes, CallWaiters, Unanswered, Fresh, RouteOf, Calling
        <5>2. QED
          BY <2>2, <4>1, <5>1 DEF FewerSends, Fewer, Unanswered
      <4>3. \A t \in Thread : One(CallFrom(t, g, k)')
        BY <2>2, <4>1 DEF FewerSends, Settling, One
      <4>4. /\ pc'[g] = "send" /\ hand'[g].kind = "request"
            /\ \A r \in CallRoutes(g, k)' : r.iid = hand'[g].iid
        BY <3>1, <3>2, <4>2 DEF RouteOf
      <4>5. Settling(g, k)'
        BY <2>1, <4>1, <4>2, <4>3, <4>4 DEF Settling, Alone, One, Thread, Conn, Reader
      <4>6. QED
        BY <2>1, <4>1, <4>5 DEF Answered
    <3>3. CASE ~(g = h /\ Calling(g, k))
      <4>1. ~(RouteOf(nextReq, h, hand[h].id).conn = g /\ RouteOf(nextReq, h, hand[h].id).orig = k)
        BY <2>1, <3>3 DEF RouteOf, Calling
      <4>2. CallRoutes(g, k)' \subseteq CallRoutes(g, k)
        BY <2>4, <4>1 DEF CallRoutes, Fresh
      <4>3. CallWaiters(g, k)' \subseteq CallWaiters(g, k)
        BY <2>1 DEF CallWaiters
      <4>4. FewerRoutes(g, k)
        BY <4>2, <4>3, OneFewer DEF FewerRoutes
      <4>5. SameHand(g, k)
        BY <2>1, <3>1, <3>3 DEF SameHand, Calling, Doomed
      <4>6. QED
        BY <1>1, <2>2, <4>4, <4>5, AnsweredFewer
    <3>4. QED
      BY <3>2, <3>3
  <2>5. QED
    BY <2>1, <2>3, <2>4
\* An initialize, its route and its replay.
<1>14. ASSUME NEW h \in Conn, RouteInitialize(h) PROVE Answered(g, k)'
  <2>1. /\ UNCHANGED <<job, queue, used, answers, pending>> /\ pc[h] = "routing" /\ hand[h].kind = "initialize"
        /\ \/ UNCHANGED <<initialize, out, hand>> /\ Goto(h, "error")
           \/ /\ \E i : out' = [out EXCEPT ![h] = {To(h, Answer(hand[h].id, i))}]
              /\ UNCHANGED <<initialize, hand>> /\ Goto(h, "replay")
           \/ /\ initialize'.waiters = Waiting(h, hand[h].id) /\ UNCHANGED out
              /\ \/ hand' = [hand EXCEPT ![h] = NoHand] /\ Goto(h, "top")
                 \/ hand' = [hand EXCEPT ![h] = Carry(@.kind, @.id, nextReq)] /\ Goto(h, "send")
    BY <1>14 DEF RouteInitialize, history, WaitersOnly, Initialize
  <2>2. SameCall(g, k)
    BY <1>3, <2>1
  <2>3. CASE UNCHANGED <<initialize, out, hand>> /\ Goto(h, "error")
    <3>1. SameHand(g, k)
      BY <2>3, HandMoved DEF Doomed
    <3>2. FewerRoutes(g, k) /\ FewerSends(g, k)
      BY <1>4, <1>5, <2>1, <2>3 DEF sending
    <3>3. QED
      BY <1>1, <2>2, <3>1, <3>2, AnsweredFewer
  <2>4. ASSUME NEW i, out' = [out EXCEPT ![h] = {To(h, Answer(hand[h].id, i))}],
               UNCHANGED <<initialize, hand>>, Goto(h, "replay")
        PROVE  Answered(g, k)'
    <3>1. /\ \A t \in Thread : t # h => out'[t] = out[t]
          /\ out'[h] = {To(h, Answer(hand[h].id, i))}
          /\ (h # g => pc'[g] = pc[g]) /\ (h = g => pc'[g] = "replay") /\ h \in Thread
      BY <1>0, <2>4, ThreadIs DEF Goto
    <3>2. FewerRoutes(g, k) /\ CallJobs(g, k)' = CallJobs(g, k) /\ CallQueued(g, k)' = CallQueued(g, k)
      BY <1>5, <2>1, <2>4 DEF CallJobs, CallQueued, Thread, Conn, Reader
    <3>3. CASE g = h /\ Calling(g, k)
      <4>1. answers[g][k] = 0 /\ k \in used[g] /\ Unanswered(g, k)
        BY <1>1, <2>1, <3>3 DEF Answered, Doomed, Settling
      <4>2. \A t \in Thread : CallFrom(t, g, k) = {}
        BY <4>1 DEF Unanswered, CallOut
      <4>3. \A t \in Thread : One(CallFrom(t, g, k)') /\ (t # h => CallFrom(t, g, k)' = {})
        BY <3>1, <4>2 DEF CallFrom, One
      <4>4. CallOut(g, k)' \subseteq {g}
        BY <3>3, <4>3 DEF CallOut, Thread, Conn, Reader
      <4>5. /\ CallRoutes(g, k)' = {} /\ CallWaiters(g, k)' = {}
            /\ CallJobs(g, k)' = {} /\ CallQueued(g, k)' = {}
        BY <3>2, <4>1 DEF FewerRoutes, Fewer, Unanswered
      <4>6. Settling(g, k)'
        BY <2>1, <3>1, <3>3, <4>1, <4>3, <4>4, <4>5 DEF Settling, Alone, One, Thread, Conn, Reader
      <4>7. QED
        BY <2>1, <4>1, <4>6 DEF Answered
    <3>4. CASE ~(g = h /\ Calling(g, k))
      <4>1. CallFrom(h, g, k)' = {}
        <5>1. To(h, Answer(hand[h].id, i)).to = h /\ To(h, Answer(hand[h].id, i)).msg.id = hand[h].id
          BY DEF To, Answer
        <5>2. QED
          BY <2>1, <3>1, <3>4, <5>1 DEF CallFrom, Gives, Calling
      <4>2. \A t \in Thread : CallFrom(t, g, k)' \subseteq CallFrom(t, g, k)
        BY <3>1, <4>1 DEF CallFrom
      <4>3. FewerSends(g, k)
        BY <2>1, <3>2, <4>2, SendsFewer
      <4>4. SameHand(g, k)
        BY <2>1, <2>4, <3>1, <3>4 DEF SameHand, Calling, Doomed
      <4>5. QED
        BY <1>1, <2>2, <3>2, <4>3, <4>4, AnsweredFewer
    <3>5. QED
      BY <3>3, <3>4
  <2>5. CASE /\ initialize'.waiters = Waiting(h, hand[h].id) /\ UNCHANGED out
             /\ \/ hand' = [hand EXCEPT ![h] = NoHand] /\ Goto(h, "top")
                \/ hand' = [hand EXCEPT ![h] = Carry(@.kind, @.id, nextReq)] /\ Goto(h, "send")
    <3>1. /\ h # g => pc'[g] = pc[g] /\ hand'[g] = hand[g]
          /\ h = g => \/ pc'[g] = "top" /\ ~Calling(g, k)'
                      \/ pc'[g] = "send" /\ hand'[g].kind = "initialize" /\ hand'[g].id = hand[g].id
      BY <1>0, <1>2, <2>1, <2>5 DEF Goto, Carry, Calling
    <3>2. FewerSends(g, k)
      BY <1>4, <2>1, <2>5 DEF sending
    <3>3. CallRoutes(g, k)' = CallRoutes(g, k)
      BY <2>1 DEF CallRoutes
    <3>4. CASE g = h /\ Calling(g, k)
      <4>1. answers[g][k] = 0 /\ k \in used[g] /\ Settling(g, k) /\ Unanswered(g, k)
        BY <1>1, <2>1, <3>4 DEF Answered, Doomed, Settling
      <4>2. CallWaiters(g, k)' \subseteq {RouteOf(0, g, k)}
        BY <2>5, <3>4 DEF CallWaiters, Waiting, Others, Calling
      <4>3. /\ CallRoutes(g, k)' = {} /\ CallOut(g, k)' = {} /\ CallJobs(g, k)' = {}
            /\ CallQueued(g, k)' = {}
        BY <3>2, <3>3, <4>1 DEF FewerSends, Fewer, Unanswered
      <4>4. \A t \in Thread : One(CallFrom(t, g, k)')
        BY <3>2, <4>1 DEF FewerSends, Settling, One
      <4>5. Settling(g, k)'
        BY <2>1, <3>1, <3>4, <4>1, <4>2, <4>3, <4>4 DEF Settling, Alone, One, Thread, Conn, Reader
      <4>6. QED
        BY <2>1, <4>1, <4>5 DEF Answered
    <3>5. CASE ~(g = h /\ Calling(g, k))
      <4>1. ~(RouteOf(0, h, hand[h].id).conn = g /\ RouteOf(0, h, hand[h].id).orig = k)
        BY <2>1, <3>5 DEF RouteOf, Calling
      <4>2. CallWaiters(g, k)' \subseteq CallWaiters(g, k)
        BY <2>5, <4>1 DEF CallWaiters, Waiting, Others
      <4>3. FewerRoutes(g, k)
        BY <3>3, <4>2, OneFewer DEF FewerRoutes
      <4>4. SameHand(g, k)
        BY <2>1, <3>1, <3>5 DEF SameHand, Calling, Doomed
      <4>5. QED
        BY <1>1, <2>2, <3>2, <4>3, <4>4, AnsweredFewer
    <3>6. QED
      BY <3>4, <3>5
  <2>6. QED
    BY <2>1, <2>3, <2>4, <2>5
<1>15. ASSUME NEW h \in Conn, FailInitialize(h) PROVE Answered(g, k)'
  <2>1. /\ UNCHANGED <<hand, queue, job, used, answers, pending>> /\ pc[h] = "failinit" /\ Goto(h, "failing")
        /\ initialize'.waiters = {} /\ out' = [out EXCEPT ![h] = Failures(h)]
    BY <1>15 DEF FailInitialize, history, Initialize
  <2>2. /\ hand[h].kind = "initialize" /\ out[h] = {} /\ h \in Thread
    BY <2>1, ThreadIs DEF Shaped, Shape, NoDelivery
  <2>3. /\ \A t \in Thread : t # h => out'[t] = out[t]
        /\ out'[h] = {To(w.conn, ErrorFor(w.orig)) : w \in initialize.waiters}
        /\ (h # g => pc'[g] = pc[g]) /\ (h = g => pc'[g] = "failing")
    BY <1>0, <2>1, <2>2 DEF Goto, Failures
  <2>4. SameCall(g, k) /\ CallRoutes(g, k)' = CallRoutes(g, k) /\ CallWaiters(g, k)' = {}
        /\ CallJobs(g, k)' = CallJobs(g, k) /\ CallQueued(g, k)' = CallQueued(g, k)
    BY <1>3, <2>1 DEF CallRoutes, CallWaiters, CallJobs, CallQueued, Thread, Conn, Reader
  <2>5. /\ \A d \in CallFrom(h, g, k)' : d = To(g, ErrorFor(k))
        /\ CallFrom(h, g, k)' # {} => CallWaiters(g, k) # {}
        /\ \A t \in Thread : t # h => CallFrom(t, g, k)' = CallFrom(t, g, k)
    BY <2>3 DEF CallFrom, CallWaiters, To, ErrorFor, Gives
  <2>6. CASE g = h \/ pc[g] \in Doomed
    <3>1. pc'[g] \in Doomed
      BY <2>3, <2>6 DEF Doomed
    <3>2. QED
      BY <1>1, <2>1, <2>4, <3>1, AnsweredDoomed DEF Calling
  <2>7. CASE g # h /\ pc[g] \notin Doomed /\ CallWaiters(g, k) = {}
    <3>1. \A t \in Thread : CallFrom(t, g, k)' \subseteq CallFrom(t, g, k)
      BY <2>5, <2>7
    <3>2. FewerSends(g, k)
      BY <2>1, <2>4, <3>1, SendsFewer
    <3>3. FewerRoutes(g, k)
      BY <2>4, OneFewer DEF FewerRoutes
    <3>4. SameHand(g, k)
      BY <2>1, <2>3, <2>7 DEF SameHand
    <3>5. QED
      BY <1>1, <2>4, <3>2, <3>3, <3>4, AnsweredFewer
  <2>8. CASE g # h /\ pc[g] \notin Doomed /\ CallWaiters(g, k) # {}
    <3>1. Settling(g, k)
      BY <1>1, <2>8 DEF Answered
    <3>2. /\ CallRoutes(g, k) = {} /\ CallOut(g, k) = {} /\ CallJobs(g, k) = {} /\ CallQueued(g, k) = {}
          /\ ~Unanswered(g, k)
      BY <2>8, <3>1 DEF Settling, Alone, Unanswered
    <3>3. ~(Calling(g, k) /\ pc[g] \in {"routing", "send", "replay"})
      <4>1. ASSUME Calling(g, k), pc[g] = "send" PROVE FALSE
        <5>1. hand[g].kind = "initialize"
          BY <2>8, <3>1, <4>1 DEF Settling, Calling
        <5>2. Forwarding(g) /\ Forwarding(h)
          BY <2>1, <2>2, <4>1, <5>1 DEF Forwarding
        <5>3. QED
          BY <2>8, <5>2, OneForwards
      <4>2. QED
        BY <2>8, <3>1, <3>2, <4>1 DEF Settling
    <3>4. \A t \in Thread : CallFrom(t, g, k) = {}
      BY <3>2 DEF CallOut
    <3>5. \A t \in Thread : One(CallFrom(t, g, k)') /\ (t # h => CallFrom(t, g, k)' = {})
      BY <2>5, <3>4 DEF One
    <3>6. CallOut(g, k)' \subseteq {h} /\ One({h})
      BY <3>5 DEF CallOut, One, Thread, Conn, Reader
    <3>7. pc'[g] = pc[g]
      BY <2>3, <2>8
    <3>8. QED
      BY <1>1, <2>1, <2>4, <3>1, <3>2, <3>3, <3>5, <3>6, <3>7, AnswerSent
  <2>9. QED
    BY <2>6, <2>7, <2>8
<1>16. ASSUME NEW i \in Iid, ServerRespond(i) PROVE Answered(g, k)'
  <2>1. /\ UNCHANGED <<pc, hand, queue, job, used, answers>> /\ i \in srv
        /\ pending' \subseteq pending /\ initialize'.waiters \subseteq initialize.waiters
        /\ \/ /\ initialize.internal = i /\ initialize'.waiters = {}
              /\ out' = [out EXCEPT ![Reader] = {To(w.conn, Answer(w.orig, i)) : w \in Fresh(initialize.waiters)}]
           \/ /\ initialize.internal # i /\ \A r \in pending' : r.iid # i
              /\ out' = [out EXCEPT ![Reader] =
                   {To(r.conn, Answer(r.orig, i)) : r \in {q \in Fresh(pending) : q.iid = i}}]
    BY <1>16 DEF ServerRespond, history, Initialize, Pruned, WaitersOnly, Fresh
  <2>2. FewerRoutes(g, k) /\ SameCall(g, k)
        /\ CallJobs(g, k)' = CallJobs(g, k) /\ CallQueued(g, k)' = CallQueued(g, k)
    BY <1>3, <2>1, RoutesFewer DEF CallJobs, CallQueued, Thread, Conn, Reader
  <2>3. Reader \in Thread /\ \A t \in Thread : t # Reader => CallFrom(t, g, k)' = CallFrom(t, g, k)
    BY <1>0, <2>1, ThreadIs DEF CallFrom
  <2> DEFINE Source == {w \in CallWaiters(g, k) : initialize.internal = i}
                       \cup {r \in CallRoutes(g, k) : initialize.internal # i /\ r.iid = i}
  <2>4. /\ \A d \in CallFrom(Reader, g, k)' : d = To(g, Answer(k, i))
        /\ CallFrom(Reader, g, k)' # {} => Source # {}
    <3>1. \A S : out' = [out EXCEPT ![Reader] = S] => out'[Reader] = S
      BY <1>0, <2>3
    <3>2. CASE initialize.internal = i
      <4>1. out'[Reader] = {To(w.conn, Answer(w.orig, i)) : w \in Fresh(initialize.waiters)}
        BY <2>1, <3>1, <3>2
      <4>2. QED
        BY <3>2, <4>1 DEF CallFrom, CallWaiters, Fresh, To, Answer, Gives
    <3>3. CASE initialize.internal # i
      <4>1. out'[Reader] = {To(r.conn, Answer(r.orig, i)) : r \in {q \in Fresh(pending) : q.iid = i}}
        BY <2>1, <3>1, <3>3
      <4>2. QED
        BY <3>3, <4>1 DEF CallFrom, CallRoutes, Fresh, To, Answer, Gives
    <3>4. QED
      BY <3>2, <3>3
  <2>5. SameHand(g, k)
    BY <2>1, HandSame
  <2>6. CASE Source = {}
    <3>1. \A t \in Thread : CallFrom(t, g, k)' \subseteq CallFrom(t, g, k)
      BY <2>3, <2>4, <2>6
    <3>2. FewerSends(g, k)
      BY <2>1, <2>2, <3>1, SendsFewer
    <3>3. QED
      BY <1>1, <2>2, <2>5, <3>2, AnsweredFewer
  <2>7. CASE pc[g] \in Doomed
    BY <1>1, <2>1, <2>2, <2>7, AnsweredDoomed DEF Calling
  <2>8. CASE Source # {} /\ pc[g] \notin Doomed
    <3>1. Settling(g, k)
      BY <1>1, <2>8 DEF Answered
    <3>2. CallWaiters(g, k) # {} \/ CallRoutes(g, k) # {}
      BY <2>8
    <3>3. /\ CallOut(g, k) = {} /\ CallJobs(g, k) = {} /\ CallQueued(g, k) = {}
          /\ ~Unanswered(g, k)
      BY <3>1, <3>2 DEF Settling, Alone, Unanswered
    <3>4. CallRoutes(g, k)' = {} /\ CallWaiters(g, k)' = {}
      <4>1. CASE initialize.internal = i
        <5>1. CallWaiters(g, k) # {} /\ CallWaiters(g, k)' = {}
          BY <2>1, <2>8, <4>1 DEF CallWaiters
        <5>2. QED
          BY <2>2, <3>1, <5>1 DEF Settling, Alone, FewerRoutes, Fewer
      <4>2. CASE initialize.internal # i
        <5>1. PICK r \in CallRoutes(g, k) : r.iid = i
          BY <2>8, <4>2
        <5>2. CallRoutes(g, k) = {r} /\ CallWaiters(g, k) = {}
          BY <3>1, <5>1 DEF Settling, Alone, One
        <5>3. CallRoutes(g, k)' \subseteq CallRoutes(g, k) /\ \A q \in CallRoutes(g, k)' : q.iid # i
          BY <2>1, <4>2 DEF CallRoutes
        <5>4. QED
          BY <2>2, <5>1, <5>2, <5>3 DEF FewerRoutes, Fewer
      <4>3. QED
        BY <4>1, <4>2
    <3>5. ~(Calling(g, k) /\ pc[g] \in {"routing", "send", "replay"})
      <4>1. ASSUME Calling(g, k), pc[g] = "send" PROVE FALSE
        <5>1. hand[g].iid = i
          <6>1. CASE initialize.internal = i
            <7>1. CallWaiters(g, k) # {}
              BY <2>8, <6>1
            <7>2. Forwarding(g)
              BY <3>1, <4>1, <7>1 DEF Settling, Calling, Forwarding
            <7>3. QED
              BY <6>1, <7>2 DEF Carried, Underway
          <6>2. CASE initialize.internal # i
            <7>1. PICK r \in CallRoutes(g, k) : r.iid = i
              BY <2>8, <6>2
            <7>2. QED
              BY <3>1, <4>1, <7>1 DEF Settling, Calling
          <6>3. QED
            BY <6>1, <6>2
        <5>2. g \in HandIid(i) /\ i \in Nat \ {0}
          BY <4>1, <5>1 DEF HandIid, Carries, Calling, Iid
        <5>3. QED
          BY <2>1, <5>2 DEF Carried, CarriedOnce, Carrier
      <4>2. QED
        BY <3>1, <3>2, <3>3, <4>1 DEF Settling
    <3>6. \A t \in Thread : CallFrom(t, g, k) = {}
      BY <3>3 DEF CallOut
    <3>7. \A t \in Thread : One(CallFrom(t, g, k)') /\ (t # Reader => CallFrom(t, g, k)' = {})
      BY <2>3, <2>4, <3>6 DEF One
    <3>8. CallOut(g, k)' \subseteq {Reader} /\ One({Reader})
      BY <3>7 DEF CallOut, One, Thread, Conn, Reader
    <3>9. QED
      BY <1>1, <2>1, <2>2, <3>1, <3>3, <3>4, <3>5, <3>7, <3>8, AnswerSent
  <2>9. QED
    BY <2>6, <2>7, <2>8
\* A delivery, from a thread to the panel's queue.
<1>17. ASSUME NEW t \in Thread, Lookup(t) PROVE Answered(g, k)'
  <2>1. /\ UNCHANGED <<pending, initialize, queue, used, answers>> /\ job[t] = NoJob
        /\ \E d \in out[t] :
             /\ out' = [out EXCEPT ![t] = @ \ {d}]
             /\ \/ (\E h : job' = [job EXCEPT ![t] = JobOf("send", d.to, h, d.msg)]) /\ UNCHANGED <<pc, hand>>
                \/ UNCHANGED job /\ Delivered(t, FALSE)
    BY <1>17 DEF Lookup, routes, history
  <2>2. PICK d \in out[t] :
             /\ out' = [out EXCEPT ![t] = @ \ {d}]
             /\ \/ (\E h : job' = [job EXCEPT ![t] = JobOf("send", d.to, h, d.msg)]) /\ UNCHANGED <<pc, hand>>
                \/ UNCHANGED job /\ Delivered(t, FALSE)
    BY <2>1
  <2>3. SameCall(g, k) /\ FewerRoutes(g, k) /\ CallQueued(g, k)' = CallQueued(g, k)
    BY <1>3, <1>5, <2>1 DEF CallQueued
  <2>4. /\ CallFrom(t, g, k)' = CallFrom(t, g, k) \ {d}
        /\ \A u \in Thread : CallFrom(u, g, k)' \subseteq CallFrom(u, g, k)
    BY <1>0, <2>2 DEF CallFrom
  <2>5. SameHand(g, k)
    BY <2>2, HandSame, HandDelivered
  <2>6. CASE UNCHANGED job
    <3>1. CallJobs(g, k)' = CallJobs(g, k)
      BY <2>6 DEF CallJobs, Thread, Conn, Reader
    <3>2. QED
      BY <1>1, <2>1, <2>3, <2>4, <2>5, <3>1, SendsFewer, AnsweredFewer
  <2>7. ASSUME NEW h, job' = [job EXCEPT ![t] = JobOf("send", d.to, h, d.msg)], UNCHANGED <<pc, hand>>
        PROVE  Answered(g, k)'
    <3>1. /\ \A u \in Thread : u # t => job'[u] = job[u]
          /\ job'[t].stage = "send" /\ job'[t].to = d.to /\ job'[t].msg = d.msg
      BY <1>0, <2>7 DEF JobOf
    <3>2. \A u \in Thread : u # t => (u \in CallJobs(g, k)' <=> u \in CallJobs(g, k))
      BY <3>1 DEF CallJobs
    <3>3. t \notin CallJobs(g, k) /\ (t \in CallJobs(g, k)' <=> d \in CallFrom(t, g, k))
      BY <1>2, <2>1, <3>1 DEF CallJobs, CallFrom, Thread, Conn, Reader
    <3>4. CASE d \notin CallFrom(t, g, k)
      BY <1>1, <2>1, <2>3, <2>4, <2>5, <3>2, <3>3, <3>4, SendsFewer, AnsweredFewer
    <3>5. CASE pc[g] \in Doomed
      BY <1>1, <2>3, <2>7, <3>5, AnsweredDoomed DEF Calling
    <3>6. CASE d \in CallFrom(t, g, k) /\ pc[g] \notin Doomed
      <4>1. Settling(g, k) /\ t \in CallOut(g, k)
        BY <1>1, <3>6 DEF Answered, CallOut
      <4>2. /\ CallRoutes(g, k) = {} /\ CallWaiters(g, k) = {} /\ CallJobs(g, k) = {}
            /\ CallQueued(g, k) = {} /\ CallOut(g, k) = {t} /\ ~Unanswered(g, k)
            /\ CallFrom(t, g, k)' = {}
        BY <2>4, <3>6, <4>1 DEF Settling, Alone, One, Unanswered
      <4>3. \A u \in Thread : CallFrom(u, g, k)' = {}
        BY <2>4, <4>2 DEF CallOut
      <4>4. CallOut(g, k)' = {}
        BY <4>3 DEF CallOut, Thread, Conn, Reader
      <4>5. CallJobs(g, k)' = {t}
        BY <3>2, <3>3, <3>6, <4>2 DEF CallJobs, Thread, Conn, Reader
      <4>6. CallRoutes(g, k)' = {} /\ CallWaiters(g, k)' = {} /\ CallQueued(g, k)' = {}
        BY <2>3, <4>2 DEF FewerRoutes, Fewer
      <4>7. answers'[g][k] = 0 /\ k \in used'[g] /\ pc'[g] = pc[g] /\ hand'[g] = hand[g]
            /\ (Calling(g, k)' <=> Calling(g, k))
        BY <1>1, <2>1, <2>7, <4>1, <4>2 DEF Answered, Settling, Calling
      <4>8. Calling(g, k) => pc[g] \notin {"routing", "send"} /\ (pc[g] = "replay" => t = g)
        BY <4>1, <4>2 DEF Settling
      <4>9. Settling(g, k)'
        BY <4>3, <4>4, <4>5, <4>6, <4>7, <4>8 DEF Settling, Alone, One, Thread, Conn, Reader
      <4>10. QED
        BY <1>1, <4>7, <4>9 DEF Answered
    <3>7. QED
      BY <3>4, <3>5, <3>6
  <2>8. QED
    BY <2>2, <2>6, <2>7
<1>18. ASSUME NEW t \in Thread, Evict(t) PROVE Answered(g, k)'
  <2>1. /\ UNCHANGED <<out, queue, used, answers>> /\ job[t].stage = "evict" /\ Drop(job[t].target)
        /\ job' = [job EXCEPT ![t] = NoJob] /\ Delivered(t, FALSE)
    BY <1>18 DEF Evict, history
  <2>2. job[t].target \in Conn
    BY <1>0, <2>1 DEF Job
  <2>3. SameCall(g, k) /\ FewerRoutes(g, k) /\ SameHand(g, k)
    BY <1>3, <1>5, <2>1, <2>2, HandDelivered
  <2>4. \A u \in Thread : u \in CallJobs(g, k)' => u \in CallJobs(g, k)
    BY <1>0, <1>2, <2>1 DEF CallJobs
  <2>5. \A u \in Thread : CallFrom(u, g, k)' \subseteq CallFrom(u, g, k)
    BY <2>1 DEF CallFrom
  <2>6. QED
    BY <1>1, <2>1, <2>3, <2>4, <2>5, SendsFewer, AnsweredFewer
<1>19. ASSUME NEW t \in Thread, TrySend(t) PROVE Answered(g, k)'
  <2> DEFINE h == job[t].target
             m == job[t].msg
  <2>1. /\ UNCHANGED <<out, pending, initialize, used, answers>> /\ job[t].stage = "send"
        /\ \/ /\ queue' = [queue EXCEPT ![h] = Append(@, m)] /\ job' = [job EXCEPT ![t] = NoJob]
              /\ Delivered(t, TRUE)
           \/ /\ job' = [job EXCEPT ![t] = JobOf("evict", @.to, @.target, @.msg)]
              /\ UNCHANGED <<queue, pc, hand>>
    BY <1>19 DEF TrySend, routes, history
  <2>2. h \in Conn /\ m \in PanelMsg /\ job[t].to = h
    BY <1>0, <2>1 DEF Job, JobRight
  <2>3. SameCall(g, k) /\ FewerRoutes(g, k)
        /\ \A u \in Thread : CallFrom(u, g, k)' = CallFrom(u, g, k)
    BY <1>3, <1>5, <2>1 DEF CallFrom
  <2>4. CASE /\ job' = [job EXCEPT ![t] = JobOf("evict", @.to, @.target, @.msg)]
             /\ UNCHANGED <<queue, pc, hand>>
    <3>1. \A u \in Thread : u \in CallJobs(g, k)' => u \in CallJobs(g, k)
      BY <1>0, <2>1, <2>4 DEF CallJobs, JobOf
    <3>2. QED
      BY <1>1, <2>3, <2>4, <3>1, SendsFewer, HandSame, AnsweredFewer
  <2>5. CASE /\ queue' = [queue EXCEPT ![h] = Append(@, m)] /\ job' = [job EXCEPT ![t] = NoJob]
             /\ Delivered(t, TRUE)
    <3>1. SameHand(g, k)
      BY <2>5, HandDelivered
    <3>2. /\ t \notin CallJobs(g, k)'
          /\ \A u \in Thread : u # t => (u \in CallJobs(g, k)' <=> u \in CallJobs(g, k))
      BY <1>0, <1>2, <2>5 DEF CallJobs
    <3>3. CASE h # g \/ ~Gives(m, k)
      <4>1. CASE h # g
        <5>1. queue'[g] = queue[g]
          BY <1>0, <2>5, <4>1
        <5>2. QED
          BY <1>1, <2>3, <3>1, <3>2, <5>1, SendsFewer, AnsweredFewer
      <4>2. CASE h = g /\ ~Gives(m, k)
        <5>1. /\ queue[g] \in Seq(PanelMsg) /\ queue'[g] = Append(queue[g], m)
          BY <1>0, <2>5, <4>2
        <5>2. \A n \in DOMAIN queue'[g] : (n \in DOMAIN queue[g] /\ queue'[g][n] = queue[g][n]) \/ queue'[g][n] = m
          BY <2>2, <5>1
        <5>3. CallQueued(g, k)' \subseteq CallQueued(g, k)
          BY <4>2, <5>2 DEF CallQueued
        <5>4. CallJobs(g, k)' \subseteq CallJobs(g, k)
          BY <3>2 DEF CallJobs, Thread, Conn, Reader
        <5>5. CallOut(g, k)' \subseteq CallOut(g, k)
          BY <2>3 DEF CallOut, Thread, Conn, Reader
        <5>6. FewerSends(g, k)
          BY <2>3, <5>3, <5>4, <5>5, OneFewer DEF FewerSends
        <5>7. QED
          BY <1>1, <2>3, <3>1, <5>6, AnsweredFewer
      <4>3. QED
        BY <3>3, <4>1, <4>2
    <3>4. CASE pc'[g] \in Doomed
      BY <1>1, <2>3, <3>1, <3>4, AnsweredDoomed DEF SameHand, Calling
    <3>5. CASE h = g /\ Gives(m, k) /\ pc'[g] \notin Doomed
      <4>1. Settling(g, k) /\ t \in CallJobs(g, k)
        BY <1>1, <2>1, <2>2, <3>1, <3>5 DEF Answered, CallJobs, SameHand
      <4>2. /\ CallRoutes(g, k) = {} /\ CallWaiters(g, k) = {} /\ CallOut(g, k) = {}
            /\ CallQueued(g, k) = {} /\ CallJobs(g, k) = {t} /\ ~Unanswered(g, k)
        BY <4>1 DEF Settling, Alone, One, Unanswered
      <4>3. CallJobs(g, k)' = {}
        BY <3>2, <4>2 DEF CallJobs, Thread, Conn, Reader
      <4>4. CallRoutes(g, k)' = {} /\ CallWaiters(g, k)' = {} /\ CallOut(g, k)' = {}
            /\ \A u \in Thread : CallFrom(u, g, k)' = {}
        <5>1. \A u \in Thread : CallFrom(u, g, k)' = {}
          BY <2>3, <4>2 DEF CallOut
        <5>2. QED
          BY <2>3, <4>2, <5>1 DEF FewerRoutes, Fewer, CallOut, Thread, Conn, Reader
      <4>5. One(CallQueued(g, k)')
        <5>1. /\ queue[g] \in Seq(PanelMsg) /\ queue'[g] = Append(queue[g], m)
          BY <1>0, <2>5, <3>5
        <5>2. \A n \in DOMAIN queue'[g] : (n \in DOMAIN queue[g] /\ queue'[g][n] = queue[g][n]) \/ n = Len(queue[g]) + 1
          BY <2>2, <5>1
        <5>3. CallQueued(g, k)' \subseteq {Len(queue[g]) + 1}
          BY <4>2, <5>2 DEF CallQueued
        <5>4. QED
          BY <5>3 DEF One
      <4>6. answers'[g][k] = 0 /\ k \in used'[g]
        BY <1>1, <2>1, <4>1, <4>2 DEF Answered, Settling
      <4>7. ~(Calling(g, k)' /\ pc'[g] \in {"routing", "send", "replay"})
        <5>1. ASSUME Calling(g, k)', pc'[g] \in {"routing", "send", "replay"} PROVE FALSE
          <6>1. hand'[g] = hand[g] /\ pc'[g] = pc[g] /\ Calling(g, k)
            BY <3>1, <5>1 DEF SameHand, Calling
          <6>2. pc[g] = "replay" /\ t = g
            BY <4>1, <4>2, <5>1, <6>1 DEF Settling
          <6>3. pc'[g] = "top"
            BY <1>0, <2>5, <6>2, ThreadIs DEF Delivered, Goto
          <6>4. QED
            BY <5>1, <6>3
        <5>2. QED
          BY <5>1
      <4>8. Settling(g, k)'
        BY <4>3, <4>4, <4>5, <4>6, <4>7 DEF Settling, Alone, One, Thread, Conn, Reader
      <4>9. Calling(g, k)' => Calling(g, k)
        BY <3>1 DEF SameHand, Calling
      <4>10. QED
        BY <1>1, <4>6, <4>8 DEF Answered
    <3>6. QED
      BY <3>3, <3>4, <3>5
  <2>6. QED
    BY <2>1, <2>4, <2>5
\* The panel's socket.
<1>20. ASSUME NEW h \in Conn, Poll(h) PROVE Answered(g, k)'
  <2>1. UNCHANGED <<pending, initialize, out, job, hand, used>> /\ pc[h] = "top"
    BY <1>20 DEF Poll, routes
  <2>2. CASE UNCHANGED <<answers, queue>> /\ Goto(h, "closing")
    <3>1. SameHand(g, k)
      BY <2>1, <2>2, HandMoved DEF Doomed
    <3>2. QED
      BY <1>1, <1>3, <1>5, <2>1, <2>2, <3>1, SendsSame, AnsweredFewer
  <2>3. CASE /\ answers' = [answers EXCEPT ![h] = [j \in OrigId |->
                  @[j] + Cardinality({n \in DOMAIN queue[h] : IsAnswer(queue[h][n]) /\ queue[h][n].id = j})]]
             /\ queue' = [queue EXCEPT ![h] = <<>>] /\ Goto(h, "read")
    <3>1. ~Calling(h, k) /\ ~Calling(h, k)'
      BY <1>2, <2>1 DEF Shaped, Shape, Calling
    <3>2. SameHand(g, k)
      BY <2>1, <2>3, <3>1, HandMoved DEF Doomed
    <3>3. queue'[g] = queue[g] \/ queue'[g] = <<>>
      BY <1>0, <2>3
    <3>4. FewerRoutes(g, k) /\ FewerSends(g, k)
      BY <1>5, <2>1, <3>3, SendsSame
    <3>5. CASE g # h
      <4>1. SameCall(g, k)
        BY <1>0, <2>1, <2>3, <3>5 DEF SameCall
      <4>2. QED
        BY <1>1, <3>2, <3>4, <4>1, AnsweredFewer
    <3>6. CASE g = h
      <4>1. Settling(g, k)
        BY <1>1, <2>1, <3>6 DEF Answered, Doomed
      <4>2. answers'[g][k] = answers[g][k] + Cardinality(CallQueued(g, k))
        BY <1>0, <2>3, <3>6 DEF CallQueued, Gives
      <4>3. Cardinality(CallQueued(g, k)) = IF CallQueued(g, k) = {} THEN 0 ELSE 1
        BY <4>1, CountOne DEF Settling, Alone
      <4>4. CASE CallQueued(g, k) = {}
        <5>1. SameCall(g, k)
          BY <1>0, <2>1, <4>2, <4>3, <4>4 DEF SameCall
        <5>2. QED
          BY <1>1, <3>2, <3>4, <5>1, AnsweredFewer
      <4>5. CASE CallQueued(g, k) # {}
        <5>1. /\ CallRoutes(g, k) = {} /\ CallWaiters(g, k) = {} /\ CallOut(g, k) = {}
              /\ CallJobs(g, k) = {} /\ ~Unanswered(g, k)
          BY <4>1, <4>5 DEF Settling, Alone, Unanswered
        <5>2. answers'[g][k] = 1 /\ k \in used'[g]
          BY <1>1, <2>1, <4>1, <4>2, <4>3, <4>5, <5>1 DEF Answered, Settling
        <5>3. CallQueued(g, k)' = {}
          BY <1>0, <2>3, <3>6 DEF CallQueued
        <5>4. Unanswered(g, k)'
          BY <3>4, <5>1, <5>3 DEF FewerRoutes, FewerSends, Fewer, Unanswered
        <5>5. \A t \in Thread : One(CallFrom(t, g, k)')
          BY <3>4, <4>1 DEF FewerSends, Settling, One
        <5>6. Settling(g, k)'
          BY <3>1, <3>6, <5>2, <5>4, <5>5 DEF Settling, Alone, One, Unanswered, Thread, Conn, Reader
        <5>7. QED
          BY <3>1, <3>6, <5>2, <5>6 DEF Answered
      <4>6. QED
        BY <4>4, <4>5
    <3>7. QED
      BY <3>5, <3>6
  <2>4. QED
    BY <1>20, <2>2, <2>3 DEF Poll
<1>21. ASSUME NEW h \in Conn, HangUp(h) PROVE Answered(g, k)'
  <2>1. /\ UNCHANGED <<out, job, used>> /\ Drop(h) /\ Goto(h, "done")
        /\ hand' = [hand EXCEPT ![h] = NoHand] /\ queue' = [queue EXCEPT ![h] = <<>>]
        /\ answers' = [answers EXCEPT ![h] = [j \in OrigId |-> IF Refused(h) /\ Calling(h, j) THEN @[j] + 1 ELSE @[j]]]
    BY <1>21 DEF HangUp, Calling
  <2>2. CASE g # h
    <3>1. SameCall(g, k)
      BY <1>0, <2>1, <2>2 DEF SameCall
    <3>2. queue'[g] = queue[g]
      BY <1>0, <2>1, <2>2
    <3>3. FewerRoutes(g, k) /\ FewerSends(g, k)
      BY <1>5, <2>1, <3>2, SendsSame
    <3>4. SameHand(g, k)
      BY <2>1, HandMoved DEF Doomed
    <3>5. QED
      BY <1>1, <3>1, <3>3, <3>4, AnsweredFewer
  <2>3. CASE g = h
    <3>1. pc'[g] = "done" /\ ~Calling(g, k)'
      BY <1>0, <1>2, <2>1, <2>3 DEF Goto, Calling
    <3>2. answers'[g][k] = IF Refused(g) /\ Calling(g, k) THEN answers[g][k] + 1 ELSE answers[g][k]
      BY <1>0, <2>1, <2>3
    <3>3. answers'[g][k] \in {0, 1} /\ (k \notin used[g] => answers'[g][k] = 0)
      BY <1>1, <3>2 DEF Answered
    <3>4. QED
      BY <2>1, <3>1, <3>3 DEF Answered, Doomed
  <2>4. QED
    BY <2>2, <2>3
<1>22. QED
  BY <1>7, <1>8, <1>9, <1>10, <1>11, <1>12, <1>13, <1>14, <1>15, <1>16, <1>17, <1>18, <1>19, <1>20, <1>21
     DEF Next, Handle, Deliver

\* No call of a panel gets two answers on its socket, though the reader, the replay
\* of a cached initialize, a failed initialize and the thread's own error reply may
\* all come to answer it.
THEOREM AlwaysAnsweredOnce == Spec => []AnsweredOnce
<1>1. Init => TypeOK /\ Shaped /\ Carried /\ Addressed /\ OneAnswer
  BY InitTypeOK, InitShaped, InitCarried, InitAddressed, InitOneAnswer
<1>2. TypeOK /\ Shaped /\ Carried /\ Addressed /\ OneAnswer /\ [Next]_vars
        => (TypeOK /\ Shaped /\ Carried /\ Addressed /\ OneAnswer)'
  BY NextTypeOK, NextShaped, NextCarried, NextAddressed, NextOneAnswer DEF Addressed
<1>3. TypeOK /\ OneAnswer => AnsweredOnce
  BY DEF OneAnswer, Answered, AnsweredOnce
<1>4. QED
  BY <1>1, <1>2, <1>3, PTL DEF Spec

-----------------------------------------------------------------------------
(* The broker implements CallService, step by step. *)

\* The refinement mapping of Calls.
Status   == [g \in Conn |-> [k \in OrigId |-> StatusOf(g, k)]]
EndedSet == {g \in Conn : pc[g] = "done"}

\* Whatever an internal id stands for was sent.
AskedUsed == \A c \in asked : c.orig \in used[c.conn]

\* What a step leaves alone that answers nothing, ends nothing and begins no call.
SameCalls(g, k) ==
  /\ answers'[g][k] = answers[g][k] /\ (pc'[g] = "done" <=> pc[g] = "done")
  /\ k \in used'[g] <=> k \in used[g]

LEMMA StatusNow ==
  ASSUME NEW g \in Conn, NEW k \in OrigId
  PROVE  /\ answers[g][k] = 1 => Status[g][k] = "answered"
         /\ answers[g][k] = 0 /\ pc[g] = "done" => Status[g][k] = "closed"
         /\ answers[g][k] = 0 /\ pc[g] # "done" /\ k \notin used[g] => Status[g][k] = "unused"
         /\ answers[g][k] = 0 /\ pc[g] # "done" /\ k \in used[g] /\ Superseded(g, k)
              => Status[g][k] = "lapsed"
         /\ answers[g][k] = 0 /\ pc[g] # "done" /\ k \in used[g] /\ ~Superseded(g, k)
              => Status[g][k] = "open"
<1>1. Status[g][k] = StatusOf(g, k)
  BY DEF Status
<1>2. answers[g][k] = 1 => Status[g][k] = "answered"
  BY <1>1 DEF StatusOf
<1>3. answers[g][k] = 0 /\ pc[g] = "done" => Status[g][k] = "closed"
  BY <1>1 DEF StatusOf
<1>4. answers[g][k] = 0 /\ pc[g] # "done" /\ k \notin used[g] => Status[g][k] = "unused"
  BY <1>1 DEF StatusOf
<1>5. answers[g][k] = 0 /\ pc[g] # "done" /\ k \in used[g] /\ Superseded(g, k)
        => Status[g][k] = "lapsed"
  BY <1>1 DEF StatusOf
<1>6. answers[g][k] = 0 /\ pc[g] # "done" /\ k \in used[g] /\ ~Superseded(g, k)
        => Status[g][k] = "open"
  BY <1>1 DEF StatusOf
<1>7. QED
  BY <1>2, <1>3, <1>4, <1>5, <1>6

LEMMA StatusNext ==
  ASSUME NEW g \in Conn, NEW k \in OrigId
  PROVE  /\ answers'[g][k] = 1 => Status'[g][k] = "answered"
         /\ answers'[g][k] = 0 /\ pc'[g] = "done" => Status'[g][k] = "closed"
         /\ answers'[g][k] = 0 /\ pc'[g] # "done" /\ k \notin used'[g] => Status'[g][k] = "unused"
         /\ answers'[g][k] = 0 /\ pc'[g] # "done" /\ k \in used'[g] /\ Superseded(g, k)'
              => Status'[g][k] = "lapsed"
         /\ answers'[g][k] = 0 /\ pc'[g] # "done" /\ k \in used'[g] /\ ~Superseded(g, k)'
              => Status'[g][k] = "open"
<1>1. Status'[g][k] = StatusOf(g, k)'
  BY DEF Status
<1>2. answers'[g][k] = 1 => Status'[g][k] = "answered"
  BY <1>1 DEF StatusOf
<1>3. answers'[g][k] = 0 /\ pc'[g] = "done" => Status'[g][k] = "closed"
  BY <1>1 DEF StatusOf
<1>4. answers'[g][k] = 0 /\ pc'[g] # "done" /\ k \notin used'[g] => Status'[g][k] = "unused"
  BY <1>1 DEF StatusOf
<1>5. answers'[g][k] = 0 /\ pc'[g] # "done" /\ k \in used'[g] /\ Superseded(g, k)'
        => Status'[g][k] = "lapsed"
  BY <1>1 DEF StatusOf
<1>6. answers'[g][k] = 0 /\ pc'[g] # "done" /\ k \in used'[g] /\ ~Superseded(g, k)'
        => Status'[g][k] = "open"
  BY <1>1 DEF StatusOf
<1>7. QED
  BY <1>2, <1>3, <1>4, <1>5, <1>6

LEMMA StatusSame ==
  ASSUME NEW g \in Conn, NEW k \in OrigId, SameCalls(g, k), UNCHANGED asked,
         Awaited(g, k)' <=> Awaited(g, k)
  PROVE  Status'[g][k] = Status[g][k]
<1>1. Superseded(g, k)' <=> Superseded(g, k)
  BY DEF Superseded
<1>2. StatusOf(g, k)' = StatusOf(g, k)
  BY <1>1 DEF StatusOf, SameCalls
<1>3. QED
  BY <1>2 DEF Status

LEMMA InitCalls == Init => Calls!Init
<1> SUFFICES ASSUME Init PROVE Calls!Init
  OBVIOUS
<1>1. \A g \in Conn, k \in OrigId : StatusOf(g, k) = "unused"
  BY DEF Init, StatusOf
<1>2. \A g \in Conn : pc[g] # "done"
  BY DEF Init
<1>3. QED
  BY <1>1, <1>2 DEF Calls!Init

\* A step that makes no answer come that did not: calls may lapse.
LEMMA LapseStep ==
  ASSUME OneAnswer, AskedUsed', asked \subseteq asked',
         \A g \in Conn, k \in OrigId : SameCalls(g, k) /\ (Awaited(g, k)' => Awaited(g, k)),
         \A g \in Conn : pc'[g] = "done" <=> pc[g] = "done", asked' \subseteq Call(OrigId)
  PROVE  [Calls!Next]_(Calls!vars)
<1> DEFINE L == {c \in Conn \X OrigId : Status[c[1]][c[2]] = "open" /\ Status'[c[1]][c[2]] = "lapsed"}
<1>1. ASSUME NEW g \in Conn, NEW k \in OrigId
      PROVE  Status'[g][k] = IF <<g, k>> \in L THEN "lapsed" ELSE Status[g][k]
  <2>1. answers[g][k] \in {0, 1} /\ SameCalls(g, k)
    BY DEF OneAnswer, Answered
  <2>2. Superseded(g, k) => Superseded(g, k)'
    BY DEF Superseded
  <2>3. \/ Status'[g][k] = Status[g][k]
        \/ Status[g][k] = "open" /\ Status'[g][k] = "lapsed"
    BY <2>1, <2>2, StatusNow, StatusNext DEF SameCalls
  <2>4. QED
    BY <2>3
<1>2. ASSUME NEW g \in Conn, NEW k \in OrigId, <<g, k>> \in L
      PROVE  /\ g \notin EndedSet /\ Status[g][k] = "open"
             /\ \E j \in OrigId \ {k} : Status[g][j] # "unused"
  <2>1. answers[g][k] \in {0, 1} /\ SameCalls(g, k)
    BY DEF OneAnswer, Answered
  <2>2. Status[g][k] = "open" /\ Status'[g][k] = "lapsed"
    BY <1>2
  <2>3. pc[g] # "done"
    BY <2>1, <2>2, StatusNow
  <2>4. Superseded(g, k)'
    BY <2>1, <2>2, StatusNext DEF SameCalls
  <2>5. PICK q \in asked' : q.conn = g /\ q.orig # k
    BY <2>4 DEF Superseded
  <2>6. q.orig \in OrigId /\ q.orig \in used'[g]
    BY <2>5 DEF AskedUsed, Call
  <2>7. q.orig \in used[g] /\ answers[g][q.orig] \in {0, 1}
    BY <2>6 DEF SameCalls, OneAnswer, Answered
  <2>8. Status[g][q.orig] # "unused"
    BY <2>3, <2>6, <2>7, StatusNow
  <2>9. QED
    BY <2>2, <2>3, <2>5, <2>6, <2>8 DEF EndedSet
<1>3. EndedSet' = EndedSet
  BY DEF EndedSet
<1>4. CASE L = {}
  <2>1. \A g \in Conn, k \in OrigId : Status'[g][k] = Status[g][k]
    BY <1>1, <1>4
  <2>2. Status' = Status
    BY <2>1 DEF Status
  <2>3. QED
    BY <1>3, <2>2 DEF Calls!vars, Status, EndedSet
<1>5. CASE L # {}
  <2>1. Status' = [g \in Conn |-> [k \in OrigId |-> IF <<g, k>> \in L THEN "lapsed" ELSE Status[g][k]]]
    BY <1>1 DEF Status
  <2>2. \A c \in L : c = <<c[1], c[2]>> /\ c[1] \in Conn /\ c[2] \in OrigId
    OBVIOUS
  <2> HIDE DEF L
  <2>3. \A c \in L : Calls!Obsolete(c[1], c[2])
    BY <1>2, <2>2 DEF Calls!Obsolete, Status, EndedSet
  <2>4. Calls!Lapse(L)
    BY <1>3, <1>5, <2>1, <2>3 DEF Calls!Lapse, Status, EndedSet
  <2>5. L \in SUBSET (Conn \X OrigId)
    BY DEF L
  <2>6. QED
    BY <2>4, <2>5 DEF Calls!Next
<1>6. QED
  BY <1>4, <1>5

\* A step that settles the calls K of g, which may end with it.
LEMMA SettleStep ==
  ASSUME OneAnswer, NEW g \in Conn, NEW K \in SUBSET OrigId, NEW ends \in BOOLEAN, ends \/ K # {},
         pc[g] # "done", UNCHANGED <<used, asked>>,
         pc'[g] = "done" <=> ends, \A h \in Conn \ {g} : pc'[h] = "done" <=> pc[h] = "done",
         \A k \in K : k \in used[g] /\ answers[g][k] = 0 /\ answers'[g][k] = 1,
         \A k \in OrigId \ K : answers'[g][k] = answers[g][k],
         \A h \in Conn \ {g} : answers'[h] = answers[h],
         \A h \in Conn, k \in OrigId : (h # g \/ (~ends /\ k \notin K)) => (Awaited(h, k)' <=> Awaited(h, k))
  PROVE  [Calls!Next]_(Calls!vars)
<1>1. \A h \in Conn, k \in OrigId : answers[h][k] \in {0, 1}
  BY DEF OneAnswer, Answered
<1>2. EndedSet' = (IF ends THEN EndedSet \cup {g} ELSE EndedSet) /\ g \notin EndedSet
  BY DEF EndedSet
<1>3. \A k \in K : Status[g][k] \in {"open", "lapsed"}
  BY StatusNow
<1>4. ASSUME NEW h \in Conn, NEW k \in OrigId
      PROVE  Status'[h][k] = IF h = g
                             THEN IF k \in K \/ Status[h][k] = "answered" THEN "answered"
                                  ELSE IF ends THEN "closed" ELSE Status[h][k]
                             ELSE Status[h][k]
  <2>1. CASE h # g
    BY <2>1, StatusSame DEF SameCalls
  <2>2. CASE h = g /\ k \in K
    BY <2>2, StatusNext
  <2>3. CASE h = g /\ k \notin K /\ ends
    <3>1. answers'[g][k] = answers[g][k] /\ answers[g][k] \in {0, 1}
      BY <1>1, <2>3
    <3>2. Status[g][k] = "answered" <=> answers[g][k] = 1
      BY <3>1, StatusNow
    <3>3. QED
      BY <2>3, <3>1, <3>2, StatusNext
  <2>4. CASE h = g /\ k \notin K /\ ~ends
    BY <2>4, StatusSame DEF SameCalls
  <2>5. QED
    BY <2>1, <2>2, <2>3, <2>4
<1>5. Status' = [h \in Conn |-> IF h = g
                    THEN [k \in OrigId |-> IF k \in K \/ Status[g][k] = "answered" THEN "answered"
                                           ELSE IF ends THEN "closed" ELSE Status[g][k]]
                    ELSE Status[h]]
  <2>1. Status' = [h \in Conn |-> [k \in OrigId |-> Status'[h][k]]]
    BY DEF Status
  <2>2. \A h \in Conn : Status[h] = [k \in OrigId |-> Status[h][k]]
    BY DEF Status
  <2>3. ASSUME NEW h \in Conn
        PROVE  [k \in OrigId |-> Status'[h][k]]
                 = IF h = g
                    THEN [k \in OrigId |-> IF k \in K \/ Status[g][k] = "answered" THEN "answered"
                                           ELSE IF ends THEN "closed" ELSE Status[g][k]]
                    ELSE Status[h]
    <3>1. CASE h = g
      BY <1>4, <3>1
    <3>2. CASE h # g
      BY <1>4, <2>2, <3>2
    <3>3. QED
      BY <3>1, <3>2
  <2>4. QED
    BY <2>1, <2>3
<1>6. Status' = [Status EXCEPT ![g] = [k \in OrigId |->
        IF k \in K \/ @[k] = "answered" THEN "answered" ELSE IF ends THEN "closed" ELSE @[k]]]
  BY <1>5 DEF Status
<1>7. Calls!Settle(g, K, ends)
  BY <1>2, <1>3, <1>6 DEF Calls!Settle, Status, EndedSet
<1>8. QED
  BY <1>7 DEF Calls!Next

\* No answer comes that did not.
NoNewAnswer == \A g \in Conn, k \in OrigId : Awaited(g, k)' => Awaited(g, k)
RoutesLess ==
  \A r \in pending' \cup initialize'.waiters :
    \/ \E q \in pending \cup initialize.waiters : q.conn = r.conn /\ q.orig = r.orig
    \/ Calling(r.conn, r.orig)
HandsLess == \A g \in Conn, k \in OrigId : Calling(g, k)' => Calling(g, k)
OutLess   == \A t \in Thread : \A d \in out'[t] : d \in out[t] \/ (IsAnswer(d.msg) => Awaited(d.to, d.msg.id))
JobsLess  == \A t \in Thread : /\ job'[t].to \in Conn /\ IsAnswer(job'[t].msg)
                               => Awaited(job'[t].to, job'[t].msg.id)
QueueLess == \A g \in Conn : \A i \in DOMAIN queue'[g] :
               IsAnswer(queue'[g][i]) => Awaited(g, queue'[g][i].id)

LEMMA AwaitedLess ==
  ASSUME RoutesLess, HandsLess, OutLess, JobsLess, QueueLess
  PROVE  NoNewAnswer
<1> SUFFICES ASSUME NEW g \in Conn, NEW k \in OrigId, Awaited(g, k)' PROVE Awaited(g, k)
  BY DEF NoNewAnswer
<1>1. ASSUME NEW r \in pending' \cup initialize'.waiters, r.conn = g, r.orig = k PROVE Awaited(g, k)
  BY <1>1 DEF RoutesLess, Awaited, Calling
<1>2. ASSUME Calling(g, k)' PROVE Awaited(g, k)
  BY <1>2 DEF HandsLess, Awaited, Calling
<1>3. ASSUME NEW t \in Thread, NEW d \in out'[t], d.to = g, IsAnswer(d.msg), d.msg.id = k PROVE Awaited(g, k)
  <2>1. CASE d \in out[t]
    BY <1>3, <2>1 DEF Awaited
  <2>2. QED
    BY <1>3, <2>1 DEF OutLess
<1>4. ASSUME NEW t \in Thread, job'[t].to = g, IsAnswer(job'[t].msg), job'[t].msg.id = k PROVE Awaited(g, k)
  BY <1>4 DEF JobsLess
<1>5. ASSUME NEW i \in DOMAIN queue'[g], IsAnswer(queue'[g][i]), queue'[g][i].id = k PROVE Awaited(g, k)
  BY <1>5 DEF QueueLess
<1>6. QED
  BY <1>1, <1>2, <1>3, <1>4, <1>5 DEF Awaited, Calling, Thread, Conn, Reader, IsAnswer

LEMMA OutSame == UNCHANGED out => OutLess
BY DEF OutLess
LEMMA JobsSame == UNCHANGED job => JobsLess
BY DEF JobsLess, Awaited
LEMMA QueueSame == UNCHANGED queue => QueueLess
BY DEF QueueLess, Awaited
LEMMA HandsSame == UNCHANGED hand => HandsLess
BY DEF HandsLess, Calling

LEMMA QuietSends ==
  ASSUME RoutesLess, HandsLess, UNCHANGED sending
  PROVE  NoNewAnswer
BY AwaitedLess, OutSame, JobsSame, QueueSame DEF sending

LEMMA RoutesGone ==
  ASSUME pending' \subseteq pending, initialize'.waiters \subseteq initialize.waiters
  PROVE  RoutesLess
BY DEF RoutesLess

LEMMA RoutesDropped ==
  ASSUME TypeOK, NEW g \in Conn, Drop(g)
  PROVE  RoutesLess
BY DropLess, RoutesGone

LEMMA HandTaken ==
  ASSUME TypeOK, NEW g \in Conn, NEW h, hand' = [hand EXCEPT ![g] = h],
         h.kind \in {"none", "note", "response"} \/ (h.kind = hand[g].kind /\ h.id = hand[g].id)
  PROVE  HandsLess
<1>1. \A f \in Conn : hand'[f] = IF f = g THEN h ELSE hand[f]
  BY DEF TypeOK, ThreadsOK
<1>2. QED
  BY <1>1 DEF HandsLess, Calling

LEMMA NoHandKind == NoHand.kind = "none" /\ ~IsAnswer(Note) /\ NoJob.to = 0 /\ NoJob.stage = "idle"
BY DEF NoHand, Carry, IsAnswer, Note, NoJob, JobOf

\* The thread that made a delivery goes on, without its message.
LEMMA HandsDelivered ==
  ASSUME TypeOK, NEW t \in Thread, NEW ok \in BOOLEAN, Delivered(t, ok)
  PROVE  HandsLess /\ \A g \in Conn : pc'[g] = "done" <=> pc[g] = "done"
<1>1. CASE t # Reader /\ pc[t] = "replay"
  <2>1. t \in Conn /\ (pc' = [pc EXCEPT ![t] = "top"] \/ pc' = [pc EXCEPT ![t] = "error"])
        /\ (UNCHANGED hand \/ hand' = [hand EXCEPT ![t] = NoHand])
    BY <1>1 DEF Delivered, Goto, Thread
  <2>2. HandsLess
    BY <2>1, HandTaken, HandsSame, NoHandKind
  <2>3. QED
    BY <1>1, <2>1, <2>2 DEF TypeOK, ThreadsOK
<1>2. CASE ~(t # Reader /\ pc[t] = "replay")
  BY <1>2, HandsSame DEF Delivered
<1>3. QED
  BY <1>1, <1>2

\* What a call is answered with was asked for.
LEMMA NextAskedUsed == TypeOK /\ OneAnswer /\ AskedUsed /\ [Next]_vars => AskedUsed'
<1> SUFFICES ASSUME TypeOK, OneAnswer, AskedUsed, [Next]_vars PROVE AskedUsed'
  OBVIOUS
<1> USE DEF history
<1>1. ASSUME UNCHANGED <<used, asked>> PROVE AskedUsed'
  BY <1>1 DEF AskedUsed
<1>2. ASSUME NEW g \in Conn, NEW i, hand[g].kind \in {"request", "initialize"}, hand[g].id \in OrigId, UNCHANGED used,
             asked' = asked \cup {CallOf(i, g, hand[g].id)} \/ asked' = asked
      PROVE  AskedUsed'
  <2>1. hand[g].id \in used[g]
    BY <1>2 DEF OneAnswer, Answered, Calling
  <2>2. QED
    BY <1>2, <2>1 DEF AskedUsed, CallOf
<1>3. \A g \in Conn : hand[g].kind \in {"request", "initialize"} => hand[g].id \in OrigId
  BY DEF TypeOK, ThreadsOK, Hand
<1>4. ASSUME NEW g \in Conn, RouteRequest(g) PROVE AskedUsed'
  <2>1. /\ hand[g].kind = "request" /\ UNCHANGED used
        /\ asked' = asked \cup {CallOf(nextReq, g, hand[g].id)} \/ asked' = asked
    BY <1>4 DEF RouteRequest
  <2>2. QED
    BY <1>2, <1>3, <2>1
<1>5. ASSUME NEW g \in Conn, RouteInitialize(g) PROVE AskedUsed'
  <2>1. /\ hand[g].kind = "initialize" /\ UNCHANGED used
        /\ \E i : asked' = asked \cup {CallOf(i, g, hand[g].id)} \/ asked' = asked
    BY <1>5 DEF RouteInitialize
  <2>2. QED
    BY <1>2, <1>3, <2>1
<1>6. ASSUME NEW g \in Conn, ReadMessage(g) PROVE AskedUsed'
  <2>1. UNCHANGED asked /\ \E x : used' = [used EXCEPT ![g] = @ \cup {x}]
    BY <1>6 DEF ReadMessage, ReadCall, ReadNote, ReadResponse, ReadOnce
  <2>2. \A h \in Conn : used[h] \subseteq used'[h]
    BY <2>1 DEF TypeOK, HistoryOK
  <2>3. \A c \in asked : c.conn \in Conn
    BY DEF TypeOK, HistoryOK, Call
  <2>4. QED
    BY <2>1, <2>2, <2>3 DEF AskedUsed
<1>7. ASSUME NEW c \in ClientId, Connect(c) \/ ConnectRejected(c) PROVE AskedUsed'
  BY <1>1, <1>7 DEF Connect, ConnectRejected
<1>8. ASSUME NEW g \in Conn, \/ Poll(g) \/ RouteResponse(g) \/ SendChild(g) \/ Unsend(g) \/ FailInitialize(g)
                             \/ HangUp(g) \/ ReadNothing(g) \/ SocketEnds(g)
      PROVE  AskedUsed'
  BY <1>1, <1>8 DEF Poll, RouteResponse, SendChild, Unsend, FailInitialize, HangUp, ReadNothing, SocketEnds
<1>9. ASSUME NEW t \in Thread, Deliver(t) PROVE AskedUsed'
  BY <1>1, <1>9 DEF Deliver, Lookup, TrySend, Evict
<1>10. ASSUME NEW i \in Iid, ServerRespond(i) PROVE AskedUsed'
  BY <1>1, <1>10 DEF ServerRespond
<1>11. ASSUME NEW s \in ServerId, ServerAsk(s) PROVE AskedUsed'
  BY <1>1, <1>11 DEF ServerAsk
<1>12. ASSUME ServerNotify \/ ReaderStops \/ WriteChild \/ WriterStops \/ TimePasses \/ UNCHANGED vars
       PROVE  AskedUsed'
  BY <1>1, <1>12 DEF ServerNotify, ReaderStops, WriteChild, WriterStops, TimePasses, vars
<1>13. QED
  BY <1>4, <1>5, <1>6, <1>7, <1>8, <1>9, <1>10, <1>11, <1>12 DEF Next, Handle

\* A step that answers nothing, ends nothing and begins no call.
LEMMA QuietStep ==
  ASSUME TypeOK', OneAnswer, AskedUsed', asked \subseteq asked', UNCHANGED <<used, answers>>,
         \A g \in Conn : pc'[g] = "done" <=> pc[g] = "done", NoNewAnswer
  PROVE  [Calls!Next]_(Calls!vars)
BY LapseStep DEF SameCalls, NoNewAnswer, TypeOK, HistoryOK

LEMMA GoesOn ==
  ASSUME TypeOK, NEW g \in Conn, NEW l, Goto(g, l), pc[g] # "done", l # "done"
  PROVE  \A h \in Conn : pc'[h] = "done" <=> pc[h] = "done"
BY DEF Goto, TypeOK, ThreadsOK

\* Where the answers to a call may be is told by these.
LEMMA AwaitedSame ==
  ASSUME NEW g \in Conn, NEW k \in OrigId,
         \A r \in pending' \cup initialize'.waiters : r.conn = g => r \in pending \cup initialize.waiters,
         \A r \in pending \cup initialize.waiters : r.conn = g => r \in pending' \cup initialize'.waiters,
         Calling(g, k)' <=> Calling(g, k), UNCHANGED <<out, job>>,
         CallQueued(g, k)' # {} <=> CallQueued(g, k) # {}
  PROVE  Awaited(g, k)' <=> Awaited(g, k)
<1>1. /\ Awaited(g, k) <=> \/ \E r \in pending \cup initialize.waiters : r.conn = g /\ r.orig = k
                           \/ Calling(g, k)
                           \/ \E t \in Thread : \/ \E d \in out[t] : d.to = g /\ IsAnswer(d.msg) /\ d.msg.id = k
                                                \/ job[t].to = g /\ IsAnswer(job[t].msg) /\ job[t].msg.id = k
                           \/ CallQueued(g, k) # {}
  BY DEF Awaited, Calling, CallQueued, Gives
<1>2. /\ Awaited(g, k)' <=> \/ \E r \in pending' \cup initialize'.waiters : r.conn = g /\ r.orig = k
                            \/ Calling(g, k)'
                            \/ \E t \in Thread : \/ \E d \in out[t] : d.to = g /\ IsAnswer(d.msg) /\ d.msg.id = k
                                                 \/ job[t].to = g /\ IsAnswer(job[t].msg) /\ job[t].msg.id = k
                            \/ CallQueued(g, k)' # {}
  BY DEF Awaited, Calling, CallQueued, Gives
<1>3. QED
  BY <1>1, <1>2

\* The batch that a thread writes answers the calls whose answers were queued.
LEMMA PollStep ==
  ASSUME TypeOK, TypeOK', OneAnswer, AskedUsed', NEW g \in Conn, Poll(g)
  PROVE  [Calls!Next]_(Calls!vars)
<1> DEFINE K == {k \in OrigId : CallQueued(g, k) # {}}
<1>1. /\ pc[g] = "top" /\ UNCHANGED <<pending, initialize, out, job, hand, used, asked>>
      /\ \E l : l # "done" /\ Goto(g, l)
  BY DEF Poll, routes
<1>2. \A h \in Conn : pc'[h] = "done" <=> pc[h] = "done"
  BY <1>1, GoesOn
<1>3. CASE UNCHANGED <<answers, queue>>
  <2>1. RoutesLess /\ UNCHANGED sending
    BY <1>1, <1>3, RoutesGone DEF sending
  <2>2. QED
    BY <1>1, <1>2, <1>3, <2>1, QuietSends, HandsSame, QuietStep
<1>4. CASE /\ queue' = [queue EXCEPT ![g] = <<>>]
           /\ answers' = [answers EXCEPT ![g] = [k \in OrigId |->
                @[k] + Cardinality({i \in DOMAIN queue[g] : IsAnswer(queue[g][i]) /\ queue[g][i].id = k})]]
  <2>1. /\ queue'[g] = <<>> /\ \A h \in Conn \ {g} : queue'[h] = queue[h] /\ answers'[h] = answers[h]
        /\ \A k \in OrigId : answers'[g][k] = answers[g][k] + Cardinality(CallQueued(g, k))
    BY <1>4 DEF TypeOK, SendingOK, HistoryOK, CallQueued, Gives
  <2>2. \A k \in OrigId : /\ One(CallQueued(g, k)) /\ answers[g][k] \in {0, 1}
                          /\ CallQueued(g, k) # {} => k \in used[g] /\ answers[g][k] = 0
    BY <1>1 DEF OneAnswer, Answered, Settling, Alone, Doomed, Unanswered
  <2>3. \A k \in OrigId : answers'[g][k] = IF k \in K THEN 1 ELSE answers[g][k]
    BY <2>1, <2>2, CountOne
  <2>4. \A h \in Conn, k \in OrigId : (h # g \/ k \notin K) => (CallQueued(h, k)' # {} <=> CallQueued(h, k) # {})
    BY <2>1 DEF CallQueued
  <2>5. \A h \in Conn, k \in OrigId : (h # g \/ k \notin K) => (Awaited(h, k)' <=> Awaited(h, k))
    BY <1>1, <2>4, AwaitedSame DEF Calling
  <2> HIDE DEF K
  <2>6. CASE K # {}
    <3>1. K \in SUBSET OrigId /\ FALSE \in BOOLEAN
      BY DEF K
    <3>2. \A k \in K : k \in used[g] /\ answers[g][k] = 0 /\ answers'[g][k] = 1
      BY <2>2, <2>3, <3>1 DEF K
    <3>3. \A k \in OrigId \ K : answers'[g][k] = answers[g][k]
      BY <2>3
    <3>4. pc[g] # "done" /\ UNCHANGED <<used, asked>> /\ (pc'[g] = "done" <=> FALSE)
      BY <1>1, <1>2
    <3>5. \A h \in Conn \ {g} : answers'[h] = answers[h]
      BY <2>1
    <3>6. \A h \in Conn \ {g} : pc'[h] = "done" <=> pc[h] = "done"
      BY <1>2
    <3>7. PICK ends \in BOOLEAN : ~ends
      OBVIOUS
    <3>8. \A h \in Conn, k \in OrigId : (h # g \/ (~ends /\ k \notin K)) => (Awaited(h, k)' <=> Awaited(h, k))
      BY <2>5
    <3>9. QED
      BY <2>6, <3>1, <3>2, <3>3, <3>4, <3>5, <3>6, <3>7, <3>8, SettleStep
  <2>7. CASE K = {}
    <3>1. ASSUME NEW h \in Conn, NEW k \in OrigId PROVE Status'[h][k] = Status[h][k]
      BY <1>1, <1>2, <2>1, <2>3, <2>5, <2>7, StatusSame DEF SameCalls
    <3>2. Status' = Status
      BY <3>1 DEF Status
    <3>3. EndedSet' = EndedSet
      BY <1>2 DEF EndedSet
    <3>4. QED
      BY <3>2, <3>3 DEF Calls!vars, Status, EndedSet
  <2>8. QED
    BY <2>6, <2>7
<1>5. QED
  BY <1>3, <1>4 DEF Poll

\* A thread that hangs up closes its calls, but for the one it refuses.
LEMMA HangUpStep ==
  ASSUME TypeOK, OneAnswer, NEW g \in Conn, HangUp(g)
  PROVE  [Calls!Next]_(Calls!vars)
<1> DEFINE K == {k \in OrigId : Refused(g) /\ Calling(g, k)}
<1>1. /\ pc[g] # "done" /\ pc'[g] = "done" /\ (\A h \in Conn \ {g} : pc'[h] = pc[h])
      /\ UNCHANGED <<out, job, used, asked>>
      /\ \A h \in Conn \ {g} : hand'[h] = hand[h] /\ queue'[h] = queue[h] /\ answers'[h] = answers[h]
  BY DEF HangUp, Refused, Goto, TypeOK, ThreadsOK, SendingOK, HistoryOK
<1>2. \A k \in OrigId : answers'[g][k] = IF k \in K THEN answers[g][k] + 1 ELSE answers[g][k]
  BY DEF HangUp, Calling, TypeOK, HistoryOK
<1>3. \A k \in K : k \in used[g] /\ answers[g][k] = 0
  BY DEF OneAnswer, Answered
<1>4. /\ \A r \in pending' \cup initialize'.waiters : r \in pending \cup initialize.waiters
      /\ \A r \in pending \cup initialize.waiters : r.conn # g => r \in pending' \cup initialize'.waiters
  <2>1. Drop(g)
    BY DEF HangUp
  <2>2. CASE Current(g)
    BY <2>1, <2>2 DEF Drop, Others, WaitersOnly, Initialize
  <2>3. CASE ~Current(g)
    BY <2>1, <2>3 DEF Drop, routes
  <2>4. QED
    BY <2>2, <2>3
<1>5. \A h \in Conn \ {g}, k \in OrigId : Awaited(h, k)' <=> Awaited(h, k)
  BY <1>1, <1>4, AwaitedSame DEF Calling, CallQueued
<1>6. \A k \in K : k \in used[g] /\ answers[g][k] = 0 /\ answers'[g][k] = 1
  BY <1>2, <1>3
<1> HIDE DEF K
<1>7. K \in SUBSET OrigId
  BY DEF K
<1>8. QED
  BY <1>1, <1>2, <1>5, <1>6, <1>7, SettleStep

\* A call is read.
LEMMA ReadStep ==
  ASSUME TypeOK, Shaped, OneAnswer, NEW g \in Conn, NEW k \in OrigId, NEW kind \in {"request", "initialize"},
         ReadCall(g, k, kind)
  PROVE  [Calls!Next]_(Calls!vars)
<1>1. /\ k \notin used[g] /\ used'[g] = used[g] \cup {k} /\ (\A h \in Conn \ {g} : used'[h] = used[h])
      /\ pc[g] = "read" /\ hand' = [hand EXCEPT ![g] = Carry(kind, k, 0)]
      /\ \E l : l # "done" /\ Goto(g, l)
      /\ UNCHANGED <<pending, initialize, sending, asked, answers>>
  BY DEF ReadCall, ReadOnce, TypeOK, HistoryOK, routes
<1>2. \A h \in Conn : pc'[h] = "done" <=> pc[h] = "done"
  BY <1>1, GoesOn
<1>3. \A h \in Conn, j \in OrigId : (h # g \/ j # k) => (Calling(h, j)' <=> Calling(h, j))
  <2>1. hand[g].kind = "none"
    BY <1>1, NoHandKind DEF Shaped, Shape
  <2>2. \A h \in Conn : hand'[h] = IF h = g THEN Carry(kind, k, 0) ELSE hand[h]
    BY <1>1 DEF TypeOK, ThreadsOK
  <2>3. QED
    BY <2>1, <2>2 DEF Calling, Carry
<1>4. \A h \in Conn, j \in OrigId : (h # g \/ j # k) => (Awaited(h, j)' <=> Awaited(h, j))
  BY <1>1, <1>3, AwaitedSame DEF CallQueued, sending
<1>5. Awaited(g, k)'
  BY <1>1 DEF Awaited, Carry, TypeOK, ThreadsOK
<1>6. answers[g][k] = 0 /\ answers'[g][k] = 0
  BY <1>1 DEF OneAnswer, Answered
<1>7. Status[g][k] = "unused" /\ Status'[g][k] = "open"
  BY <1>1, <1>2, <1>5, <1>6, StatusNow, StatusNext DEF Superseded
<1>8. \A h \in Conn, j \in OrigId : Status'[h][j] = IF h = g /\ j = k THEN "open" ELSE Status[h][j]
  BY <1>1, <1>2, <1>4, <1>7, StatusSame DEF SameCalls
<1>9. Status' = [Status EXCEPT ![g][k] = "open"]
  <2>1. Status' = [h \in Conn |-> [j \in OrigId |-> Status'[h][j]]]
    BY DEF Status
  <2>2. Status' = [h \in Conn |-> [j \in OrigId |-> IF h = g /\ j = k THEN "open" ELSE Status[h][j]]]
    BY <1>8, <2>1
  <2>3. Status = [h \in Conn |-> [j \in OrigId |-> Status[h][j]]]
    BY DEF Status
  <2>4. QED
    BY <2>2, <2>3
<1>10. EndedSet' = EndedSet /\ g \notin EndedSet
  BY <1>1, <1>2 DEF EndedSet
<1>11. Calls!Open(g, k)
  BY <1>7, <1>9, <1>10 DEF Calls!Open, Status, EndedSet
<1>12. QED
  BY <1>11 DEF Calls!Next
\* A message that is no call is read.
LEMMA OtherRead ==
  ASSUME TypeOK, TypeOK', OneAnswer, AskedUsed', NEW g \in Conn, ReadNote(g) \/ ReadResponse(g)
  PROVE  [Calls!Next]_(Calls!vars)
<1>1. PICK x \in ServerId \cup {0}, h \in {"note", "response"}, i, l \in {"send", "routing"} :
        ReadOnce(g, x, Carry(h, i, 0), l) \/ \E j : ReadOnce(g, x, Carry(h, j, 0), l)
  <2>1. CASE ReadNote(g)
    BY <2>1 DEF ReadNote
  <2>2. CASE ReadResponse(g)
    BY <2>2 DEF ReadResponse, TypeOK, HistoryOK, Call
  <2>3. QED
    BY <2>1, <2>2
<1>2. PICK j : ReadOnce(g, x, Carry(h, j, 0), l)
  BY <1>1
<1>3. /\ used' = [used EXCEPT ![g] = @ \cup {x}] /\ pc[g] = "read"
      /\ hand' = [hand EXCEPT ![g] = Carry(h, j, 0)]
      /\ \E m : m # "done" /\ Goto(g, m)
      /\ UNCHANGED <<pending, initialize, sending, asked, answers>>
  BY <1>2 DEF ReadOnce, routes
<1>4. x \notin OrigId
  BY BrokerAssumption
<1>5. \A f \in Conn, k \in OrigId : k \in used'[f] <=> k \in used[f]
  BY <1>3, <1>4 DEF TypeOK, HistoryOK
<1>6. \A f \in Conn : pc'[f] = "done" <=> pc[f] = "done"
  BY <1>3, GoesOn
<1>7. HandsLess
  BY <1>3, HandTaken DEF Carry
<1>8. NoNewAnswer
  BY <1>3, <1>7, RoutesGone, QuietSends
<1>9. QED
  BY <1>3, <1>5, <1>6, <1>8, LapseStep DEF SameCalls, NoNewAnswer, TypeOK, HistoryOK

\* What the broker's refinement rests on.
CallsInv == TypeOK /\ Shaped /\ Carried /\ Addressed /\ OneAnswer /\ AskedUsed

LEMMA NextCalls == CallsInv /\ CallsInv' /\ [Next]_vars => [Calls!Next]_(Calls!vars)
<1> SUFFICES ASSUME CallsInv, CallsInv', [Next]_vars PROVE [Calls!Next]_(Calls!vars)
  OBVIOUS
<1> USE DEF history
<1>0. /\ TypeOK /\ TypeOK' /\ Shaped /\ JobRight /\ OneAnswer /\ AskedUsed'
      /\ job \in [Thread -> Job] /\ out \in [Thread -> SUBSET Delivery] /\ queue \in [Conn -> Seq(PanelMsg)]
      /\ pc = [g \in Conn |-> pc[g]]
  BY DEF CallsInv, Addressed, TypeOK, SendingOK, ThreadsOK
\* Almost every step answers nothing.
<1>1. ASSUME UNCHANGED <<used, asked, answers>>, \A g \in Conn : pc'[g] = "done" <=> pc[g] = "done",
             RoutesLess, HandsLess, OutLess, JobsLess, QueueLess
      PROVE  [Calls!Next]_(Calls!vars)
  BY <1>0, <1>1, AwaitedLess, QuietStep
<1>2. ASSUME UNCHANGED <<used, asked, answers>>, UNCHANGED sending, HandsLess, RoutesLess,
             \A g \in Conn : pc'[g] = "done" <=> pc[g] = "done"
      PROVE  [Calls!Next]_(Calls!vars)
  BY <1>0, <1>2, QuietSends, QuietStep
<1>3. ASSUME NEW c \in ClientId, Connect(c) PROVE [Calls!Next]_(Calls!vars)
  <2>1. /\ UNCHANGED <<used, asked, answers, sending, hand>>
        /\ nextConn \in Conn /\ pc[nextConn] = "free" /\ Goto(nextConn, "top")
    BY <1>0, <1>3 DEF Connect, Register, Conn, TypeOK, RegistryOK, Shaped, Shape
  <2>2. pending' \subseteq pending /\ initialize'.waiters \subseteq initialize.waiters
    BY <1>3 DEF Connect, Register, Others, Fresh, WaitersOnly, Initialize
  <2>3. \A g \in Conn : pc'[g] = "done" <=> pc[g] = "done"
    BY <1>0, <2>1, GoesOn
  <2>4. QED
    BY <1>2, <2>1, <2>2, <2>3, RoutesGone, HandsSame
<1>4. ASSUME NEW c \in ClientId, ConnectRejected(c) PROVE [Calls!Next]_(Calls!vars)
  <2>1. pending' \subseteq pending /\ initialize'.waiters \subseteq initialize.waiters
    BY <1>4 DEF ConnectRejected, Prune, Pruned, Fresh, WaitersOnly, Initialize
  <2>2. UNCHANGED <<used, asked, answers, sending, hand, pc>>
    BY <1>4 DEF ConnectRejected
  <2>3. QED
    BY <1>2, <2>1, <2>2, RoutesGone, HandsSame
<1>5. ASSUME NEW g \in Conn, Poll(g) PROVE [Calls!Next]_(Calls!vars)
  BY <1>0, <1>5, PollStep
<1>6. ASSUME NEW g \in Conn, HangUp(g) PROVE [Calls!Next]_(Calls!vars)
  BY <1>0, <1>6, HangUpStep
<1>7. ASSUME NEW g \in Conn, ReadMessage(g) PROVE [Calls!Next]_(Calls!vars)
  BY <1>0, <1>7, ReadStep, OtherRead DEF ReadMessage
<1>8. ASSUME NEW g \in Conn, ReadNothing(g) \/ SocketEnds(g) PROVE [Calls!Next]_(Calls!vars)
  <2>1. /\ UNCHANGED <<used, asked, answers, sending, hand, pending, initialize>> /\ pc[g] # "done"
        /\ \E l : l # "done" /\ Goto(g, l)
    BY <1>8 DEF ReadNothing, SocketEnds, Refused, routes
  <2>2. QED
    BY <1>0, <1>2, <2>1, GoesOn, RoutesGone, HandsSame
<1>9. ASSUME NEW g \in Conn, RouteRequest(g) PROVE [Calls!Next]_(Calls!vars)
  <2>1. /\ hand[g].kind = "request" /\ pc[g] = "routing" /\ UNCHANGED <<used, answers, sending>>
        /\ asked \subseteq asked' /\ initialize' = Pruned
        /\ pending' \subseteq pending \cup {RouteOf(nextReq, g, hand[g].id)}
        /\ (hand' = [hand EXCEPT ![g] = Carry(@.kind, @.id, nextReq)]) \/ UNCHANGED hand
        /\ \E l : l # "done" /\ Goto(g, l)
    BY <1>9 DEF RouteRequest, Fresh
  <2>2. initialize'.waiters \subseteq initialize.waiters
    BY <2>1 DEF Pruned, Fresh, WaitersOnly, Initialize
  <2>3. \A r \in pending' : r \in pending \/ Calling(r.conn, r.orig)
    BY <2>1 DEF RouteOf, Calling
  <2>4. RoutesLess
    BY <2>2, <2>3 DEF RoutesLess
  <2>5. HandsLess
    <3>1. CASE UNCHANGED hand
      BY <3>1, HandsSame
    <3>2. CASE hand' = [hand EXCEPT ![g] = Carry(@.kind, @.id, nextReq)]
      <4>1. hand' = [hand EXCEPT ![g] = Carry(hand[g].kind, hand[g].id, nextReq)]
        BY <3>2
      <4>2. QED
        BY <1>0, <4>1, HandTaken DEF Carry
    <3>3. QED
      BY <2>1, <3>1, <3>2
  <2>6. QED
    BY <1>0, <2>1, <2>4, <2>5, GoesOn, QuietSends, QuietStep
<1>10. ASSUME NEW g \in Conn, RouteInitialize(g) PROVE [Calls!Next]_(Calls!vars)
  <2>1. /\ hand[g].kind = "initialize" /\ pc[g] = "routing" /\ UNCHANGED <<used, answers, pending, job, queue>>
        /\ asked \subseteq asked' /\ \E l : l # "done" /\ Goto(g, l)
    BY <1>10 DEF RouteInitialize
  <2>2. \/ UNCHANGED hand \/ hand' = [hand EXCEPT ![g] = NoHand]
        \/ hand' = [hand EXCEPT ![g] = Carry(hand[g].kind, hand[g].id, nextReq)]
    BY <1>10 DEF RouteInitialize
  <2>3. HandsLess
    BY <1>0, <2>2, HandTaken, HandsSame, NoHandKind DEF Carry
  <2>4. \A w \in initialize'.waiters : w \in initialize.waiters \/ Calling(w.conn, w.orig)
    <3>1. initialize' = initialize \/ initialize'.waiters = Waiting(g, hand[g].id)
      BY <1>10 DEF RouteInitialize, WaitersOnly, Initialize
    <3>2. \A w \in Waiting(g, hand[g].id) : w \in initialize.waiters \/ Calling(w.conn, w.orig)
      BY <2>1 DEF Waiting, Others, RouteOf, Calling
    <3>3. QED
      BY <3>1, <3>2
  <2>5. RoutesLess
    BY <2>1, <2>4 DEF RoutesLess
  <2>6. OutLess
    <3>1. out' = out \/ \E i : out' = [out EXCEPT ![g] = {To(g, Answer(hand[g].id, i))}]
      BY <1>10 DEF RouteInitialize
    <3>2. CASE out' = out
      BY <3>2, OutSame
    <3>3. ASSUME NEW i, out' = [out EXCEPT ![g] = {To(g, Answer(hand[g].id, i))}] PROVE OutLess
      <4>1. \A t \in Thread : \A d \in out'[t] : d \in out[t] \/ d = To(g, Answer(hand[g].id, i))
        BY <1>0, <3>3
      <4>2. Awaited(g, hand[g].id)
        BY <2>1 DEF Awaited
      <4>3. QED
        BY <4>1, <4>2 DEF OutLess, To, Answer
    <3>4. QED
      BY <3>1, <3>2, <3>3
  <2>7. QED
    BY <1>0, <2>1, <2>3, <2>5, <2>6, JobsSame, QueueSame, AwaitedLess, GoesOn, QuietStep
<1>11. ASSUME NEW g \in Conn, RouteResponse(g) \/ SendChild(g) \/ Unsend(g) PROVE [Calls!Next]_(Calls!vars)
  <2>1. /\ UNCHANGED <<used, asked, answers, sending, initialize>> /\ pc[g] # "done"
        /\ \E l : l # "done" /\ Goto(g, l)
        /\ pending' \subseteq pending
    <3>1. CASE RouteResponse(g)
      BY <3>1 DEF RouteResponse
    <3>2. CASE Unsend(g)
      BY <3>2 DEF Unsend
    <3>3. CASE SendChild(g)
      <4>1. hand[g].kind \in {"none", "note", "request", "initialize", "response"}
        BY <1>0, HandFields DEF TypeOK, ThreadsOK
      <4>2. AfterRefusal[hand[g].kind] # "done"
        BY <4>1 DEF AfterRefusal
      <4>3. QED
        BY <3>3, <4>2 DEF SendChild, routes
    <3>4. QED
      BY <1>11, <3>1, <3>2, <3>3
  <2>2. \/ UNCHANGED hand \/ hand' = [hand EXCEPT ![g] = NoHand]
        \/ \E k, i : hand' = [hand EXCEPT ![g] = Carry("response", k, i)]
    BY <1>11 DEF RouteResponse, SendChild, Unsend
  <2>3. HandsLess
    BY <1>0, <2>2, HandTaken, HandsSame, NoHandKind DEF Carry
  <2>4. QED
    BY <1>0, <1>2, <2>1, <2>3, GoesOn, RoutesGone
<1>12. ASSUME NEW g \in Conn, FailInitialize(g) PROVE [Calls!Next]_(Calls!vars)
  <2>1. /\ UNCHANGED <<used, asked, answers, pending, queue, job, hand>> /\ pc[g] # "done" /\ Goto(g, "failing")
        /\ initialize'.waiters = {} /\ out' = [out EXCEPT ![g] = Failures(g)]
    BY <1>12 DEF FailInitialize, Initialize
  <2>2. \A d \in Failures(g) : Awaited(d.to, d.msg.id)
    BY DEF Failures, To, ErrorFor, Awaited
  <2>3. OutLess
    BY <1>0, <2>1, <2>2 DEF OutLess
  <2>4. QED
    BY <1>0, <1>1, <2>1, <2>3, GoesOn, RoutesGone, HandsSame, JobsSame, QueueSame
<1>13. ASSUME NEW t \in Thread, Lookup(t) PROVE [Calls!Next]_(Calls!vars)
  <2>1. PICK d \in out[t] :
          /\ out' = [out EXCEPT ![t] = @ \ {d}]
          /\ \/ job' = [job EXCEPT ![t] = JobOf("send", d.to, Target(d.to), d.msg)] /\ UNCHANGED <<pc, hand>>
             \/ UNCHANGED job /\ Delivered(t, FALSE)
    BY <1>13 DEF Lookup
  <2>2. UNCHANGED <<used, asked, answers, pending, initialize, queue>>
    BY <1>13 DEF Lookup, routes
  <2>3. OutLess
    BY <1>0, <2>1 DEF OutLess
  <2>4. IsAnswer(d.msg) => Awaited(d.to, d.msg.id)
    BY DEF Awaited
  <2>5. JobsLess
    <3>1. CASE UNCHANGED job
      BY <3>1, JobsSame
    <3>2. CASE job' = [job EXCEPT ![t] = JobOf("send", d.to, Target(d.to), d.msg)]
      <4>1. \A u \in Thread : job'[u] = IF u = t THEN JobOf("send", d.to, Target(d.to), d.msg) ELSE job[u]
        BY <1>0, <3>2
      <4>2. \A u \in Thread : IsAnswer(job[u].msg) => Awaited(job[u].to, job[u].msg.id)
        BY DEF Awaited
      <4>3. QED
        BY <2>4, <4>1, <4>2 DEF JobsLess, JobOf
    <3>3. QED
      BY <2>1, <3>1, <3>2
  <2>6. HandsLess /\ \A g \in Conn : pc'[g] = "done" <=> pc[g] = "done"
    <3>1. FALSE \in BOOLEAN
      OBVIOUS
    <3>2. QED
      BY <1>0, <2>1, <3>1, HandsDelivered, HandsSame
  <2>7. QED
    BY <1>1, <2>2, <2>3, <2>5, <2>6, RoutesGone, QueueSame
<1>14. ASSUME NEW t \in Thread, TrySend(t) PROVE [Calls!Next]_(Calls!vars)
  <2>1. UNCHANGED <<used, asked, answers, pending, initialize, out>> /\ job[t].stage = "send"
    BY <1>14 DEF TrySend, routes
  <2>2. \/ /\ queue' = [queue EXCEPT ![job[t].target] = Append(@, job[t].msg)]
           /\ job' = [job EXCEPT ![t] = NoJob] /\ Delivered(t, TRUE)
        \/ /\ job' = [job EXCEPT ![t] = JobOf("evict", @.to, @.target, @.msg)]
           /\ UNCHANGED <<queue, pc, hand>>
    BY <1>14 DEF TrySend
  <2>3. HandsLess /\ \A g \in Conn : pc'[g] = "done" <=> pc[g] = "done"
    <3>1. TRUE \in BOOLEAN
      OBVIOUS
    <3>2. QED
      BY <1>0, <2>2, <3>1, HandsDelivered, HandsSame
  <2>4. JobsLess
    <3>1. \A u \in Thread : job'[u].to \in Conn => job'[u].to = job[u].to /\ job'[u].msg = job[u].msg
      <4>1. 0 \notin Conn
        BY DEF Conn
      <4>2. CASE job' = [job EXCEPT ![t] = NoJob]
        BY <1>0, <4>1, <4>2, NoHandKind
      <4>3. CASE job' = [job EXCEPT ![t] = JobOf("evict", @.to, @.target, @.msg)]
        <5>1. \A u \in Thread : job'[u] = IF u = t THEN JobOf("evict", job[t].to, job[t].target, job[t].msg) ELSE job[u]
          BY <1>0, <4>3
        <5>2. QED
          BY <5>1 DEF JobOf
      <4>4. QED
        BY <2>2, <4>2, <4>3
    <3>2. QED
      BY <3>1 DEF JobsLess, Awaited
  <2>5. QueueLess
    <3>1. CASE UNCHANGED queue
      BY <3>1, QueueSame
    <3>2. CASE queue' = [queue EXCEPT ![job[t].target] = Append(@, job[t].msg)]
      <4>1. job[t].target = job[t].to /\ job[t].to \in Conn /\ job[t].msg \in PanelMsg
        BY <1>0, <2>1 DEF JobRight, Job
      <4>2. SUFFICES ASSUME NEW g \in Conn, NEW i \in DOMAIN queue'[g], IsAnswer(queue'[g][i])
                     PROVE  Awaited(g, queue'[g][i].id)
        BY DEF QueueLess
      <4>3. CASE g # job[t].to
        <5>1. queue'[g] = queue[g]
          BY <1>0, <3>2, <4>1, <4>3
        <5>2. QED
          BY <4>2, <5>1 DEF Awaited
      <4>4. CASE g = job[t].to
        <5>1. queue'[g] = Append(queue[g], job[t].msg) /\ queue[g] \in Seq(PanelMsg)
          BY <1>0, <3>2, <4>1, <4>4
        <5>2. (i \in DOMAIN queue[g] /\ queue'[g][i] = queue[g][i]) \/ queue'[g][i] = job[t].msg
          BY <4>1, <4>2, <5>1
        <5>3. CASE i \in DOMAIN queue[g] /\ queue'[g][i] = queue[g][i]
          BY <4>2, <5>3 DEF Awaited
        <5>4. CASE queue'[g][i] = job[t].msg
          BY <4>2, <4>4, <5>4 DEF Awaited
        <5>5. QED
          BY <5>2, <5>3, <5>4
      <4>5. QED
        BY <4>3, <4>4
    <3>3. QED
      BY <2>2, <3>1, <3>2
  <2>6. QED
    BY <1>1, <2>1, <2>3, <2>4, <2>5, RoutesGone, OutSame
<1>15. ASSUME NEW t \in Thread, Evict(t) PROVE [Calls!Next]_(Calls!vars)
  <2>1. /\ UNCHANGED <<used, asked, answers, out, queue>> /\ job[t].stage = "evict" /\ Drop(job[t].target)
        /\ job' = [job EXCEPT ![t] = NoJob] /\ Delivered(t, FALSE)
    BY <1>15 DEF Evict
  <2>2. job[t].target \in Conn
    BY <1>0, <2>1 DEF Job
  <2>3. RoutesLess
    BY <1>0, <2>1, <2>2, RoutesDropped
  <2>4. FALSE \in BOOLEAN
    OBVIOUS
  <2>5. HandsLess /\ \A g \in Conn : pc'[g] = "done" <=> pc[g] = "done"
    BY <1>0, <2>1, <2>4, HandsDelivered
  <2>6. JobsLess
    <3>1. 0 \notin Conn
      BY DEF Conn
    <3>2. \A u \in Thread : job'[u].to \in Conn => job'[u] = job[u]
      BY <1>0, <2>1, <3>1, NoHandKind
    <3>3. QED
      BY <3>2 DEF JobsLess, Awaited
  <2>7. QED
    BY <1>1, <2>1, <2>3, <2>5, <2>6, OutSame, QueueSame
<1>16. ASSUME NEW i \in Iid, ServerRespond(i) PROVE [Calls!Next]_(Calls!vars)
  <2>1. UNCHANGED <<used, asked, answers, queue, job, pc, hand>>
    BY <1>16 DEF ServerRespond
  <2>2. pending' \subseteq pending /\ initialize'.waiters \subseteq initialize.waiters
    BY <1>16 DEF ServerRespond, Fresh, Pruned, WaitersOnly, Initialize
  <2>3. PICK R \in SUBSET (pending \cup initialize.waiters) :
          out' = [out EXCEPT ![Reader] = {To(r.conn, Answer(r.orig, i)) : r \in R}]
    <3>1. CASE initialize.internal = i
      <4>1. Fresh(initialize.waiters) \in SUBSET (pending \cup initialize.waiters)
        BY DEF Fresh
      <4>2. QED
        BY <1>16, <3>1, <4>1 DEF ServerRespond
    <3>2. CASE initialize.internal # i
      <4>1. {q \in Fresh(pending) : q.iid = i} \in SUBSET (pending \cup initialize.waiters)
        BY DEF Fresh
      <4>2. QED
        BY <1>16, <3>2, <4>1 DEF ServerRespond
    <3>3. QED
      BY <3>1, <3>2
  <2>4. \A r \in R : Awaited(r.conn, r.orig)
    BY DEF Awaited
  <2>5. OutLess
    <3>1. \A t \in Thread : \A d \in out'[t] : d \in out[t] \/ \E r \in R : d = To(r.conn, Answer(r.orig, i))
      BY <1>0, <2>3
    <3>2. QED
      BY <2>4, <3>1 DEF OutLess, To, Answer
  <2>6. QED
    BY <1>1, <2>1, <2>2, <2>5, RoutesGone, HandsSame, JobsSame, QueueSame
\* Deliveries that answer nothing.
<1>17. ASSUME NEW s \in ServerId, ServerAsk(s) PROVE [Calls!Next]_(Calls!vars)
  <2>1. /\ UNCHANGED <<used, asked, answers, queue, job, pc, hand>>
        /\ pending' \subseteq pending /\ initialize' = Pruned
    BY <1>17 DEF ServerAsk, Fresh
  <2>2. initialize'.waiters \subseteq initialize.waiters
    BY <2>1 DEF Pruned, Fresh, WaitersOnly, Initialize
  <2>3. out' = out \/ \E g : out' = [out EXCEPT ![Reader] = {To(g, Ask(nextReq))}]
    BY <1>17 DEF ServerAsk
  <2>4. \A t \in Thread : \A d \in out'[t] : d \in out[t] \/ d.msg = Ask(nextReq)
    BY <1>0, <2>3 DEF To
  <2>5. OutLess
    BY <2>4 DEF OutLess, IsAnswer, Ask
  <2>6. QED
    BY <1>1, <2>1, <2>2, <2>5, RoutesGone, HandsSame, JobsSame, QueueSame
<1>18. ASSUME ServerNotify PROVE [Calls!Next]_(Calls!vars)
  <2>1. /\ UNCHANGED <<used, asked, answers, queue, job, pc, hand, pending, initialize>>
        /\ out' = [out EXCEPT ![Reader] = {To(clients[c], Note) : c \in Registered}]
    BY <1>18 DEF ServerNotify, routes
  <2>2. \A t \in Thread : \A d \in out'[t] : d \in out[t] \/ d.msg = Note
    BY <1>0, <2>1 DEF To
  <2>3. OutLess
    BY <2>2, NoHandKind DEF OutLess
  <2>4. QED
    BY <1>1, <2>1, <2>3, RoutesGone, HandsSame, JobsSame, QueueSame
<1>19. ASSUME ReaderStops \/ WriteChild \/ WriterStops \/ UNCHANGED vars PROVE [Calls!Next]_(Calls!vars)
  <2>1. UNCHANGED <<used, asked, answers, sending, pc, hand, pending, initialize>>
    BY <1>19 DEF ReaderStops, WriteChild, WriterStops, vars, routes
  <2>2. QED
    BY <1>2, <2>1, RoutesGone, HandsSame
<1>20. ASSUME TimePasses PROVE [Calls!Next]_(Calls!vars)
  <2>1. /\ UNCHANGED <<used, asked, answers, sending, pc, hand>>
        /\ pending' = {Aged(r) : r \in pending}
        /\ initialize'.waiters = {Aged(r) : r \in initialize.waiters}
    BY <1>20 DEF TimePasses, WaitersOnly, Initialize
  <2>2. RoutesLess
    BY <2>1 DEF RoutesLess, Aged
  <2>3. QED
    BY <1>2, <2>1, <2>2, HandsSame
<1>21. QED
  BY <1>3, <1>4, <1>5, <1>6, <1>7, <1>8, <1>9, <1>10, <1>11, <1>12, <1>13, <1>14, <1>15, <1>16, <1>17,
     <1>18, <1>19, <1>20 DEF Next, Handle, Deliver

LEMMA CallsInvariant == Init => CallsInv
BY InitTypeOK, InitShaped, InitCarried, InitAddressed, InitOneAnswer DEF CallsInv, AskedUsed, Init

LEMMA CallsInvStep == CallsInv /\ [Next]_vars => CallsInv'
BY NextTypeOK, NextShaped, NextCarried, NextAddressed, NextOneAnswer, NextAskedUsed DEF CallsInv, Addressed

\* The broker implements CallService but for its liveness: whatever the child's pipes
\* and the clock do, a call made on a connection is answered at most once, on that
\* connection and never after its end, and only a call that a second initialize made
\* obsolete lapses (route_client_message, route_server_message, unregister).
THEOREM BrokerImplementsCalls == Spec => Calls!Init /\ [][Calls!Next]_(Calls!vars)
<1>1. Init => CallsInv /\ Calls!Init
  BY CallsInvariant, InitCalls
<1>2. CallsInv /\ [Next]_vars => CallsInv' /\ [Calls!Next]_(Calls!vars)
  BY CallsInvStep, NextCalls
<1>3. QED
  BY <1>1, <1>2, PTL DEF Spec
=============================================================================
