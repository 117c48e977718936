----------------------------- MODULE RuntimeProofs -----------------------------
(***************************************************************************)
(* Type correctness of RuntimeManager, the exactness of its permits, and   *)
(* that no runtime the extension was told of is ever forgotten.            *)
(***************************************************************************)
EXTENDS RuntimeManager, FiniteSetTheorems, TLAPS

\* The types, but for the sign of the counters, which needs PermitsExact.
ShapeOK ==
  /\ pc \in {"idle", "ensure", "restart", "kill", "lastKill", "start", "result", "over"}
  /\ wanted \in Config \cup {0}
  /\ slot \in Session \cup {0} /\ hand \in Session \cup {0} /\ reply \in Session \cup {0}
  /\ pc = "result" => hand \in Session
  /\ granted \subseteq Session /\ lately \subseteq Session
  /\ config \in [Session -> Config \cup {0}]
  /\ child \in [Session -> {"none", "running", "exited"}]
  /\ healthy \in [Session -> BOOLEAN] /\ stop \in [Session -> BOOLEAN]
  /\ listener \in [Session -> {"none", "top", "accept", "ended"}]
  /\ handshakes \in [Session -> Int]
  /\ panel \in [Panel -> {"none", "handshake", "serving", "gone"}]
  /\ joined \in [Panel -> Session \cup {0}]

\* A connection thread belongs to a session.
Joined == \A k \in Panel : panel[k] \in {"handshake", "serving"} => joined[k] \in Session

Permits == ShapeOK /\ Joined /\ PermitsExact

-----------------------------------------------------------------------------
LEMMA LiveFinite == \A s \in Session : IsFiniteSet(Live(s))
BY RuntimeAssumption, FS_Subset DEF Live

\* The set of connection threads of every session changes by at most the panel that moves.
LEMMA LiveSame ==
  ASSUME ShapeOK, NEW k \in Panel, NEW l, UNCHANGED joined,
         panel' = [panel EXCEPT ![k] = l],
         panel[k] \in {"handshake", "serving"} <=> l \in {"handshake", "serving"}
  PROVE  \A s \in Session : Live(s)' = Live(s)
BY DEF ShapeOK, Live

LEMMA InitPermits == Init => Permits
<1> SUFFICES ASSUME Init PROVE Permits
  OBVIOUS
<1>1. ShapeOK /\ Joined
  BY RuntimeAssumption DEF Init, ShapeOK, Joined
<1>2. \A s \in Session : Live(s) = {}
  BY DEF Init, Live
<1>3. PermitsExact
  BY <1>2, FS_EmptySet DEF Init, PermitsExact
<1> QED
  BY <1>1, <1>3 DEF Permits

\* Steps of the main thread and of the process leave the connections alone.
LEMMA PermitsFrame == Permits /\ UNCHANGED accepted => (Joined /\ PermitsExact)'
<1> SUFFICES ASSUME Permits, UNCHANGED accepted PROVE (Joined /\ PermitsExact)'
  OBVIOUS
<1>1. \A s \in Session : Live(s)' = Live(s)
  BY DEF accepted, Live
<1> QED
  BY <1>1 DEF Permits, Joined, PermitsExact, accepted

LEMMA NextPermits == Permits /\ [Next]_vars => Permits'
<1> SUFFICES ASSUME Permits, [Next]_vars PROVE Permits'
  OBVIOUS
<1>0. ShapeOK /\ Joined /\ PermitsExact
  BY DEF Permits
<1> USE RuntimeAssumption
<1>1. ASSUME MainThread PROVE Permits'
  <2>1. UNCHANGED accepted
    BY <1>1 DEF MainThread, Call, Unresolved, NothingToReuse, Reuse, Replace, Kill, StartFails,
                Start, StartBreaks, Result, ResultFails, Shutdown
  <2>2. ShapeOK'
    <3>1. CASE Call \/ Unresolved \/ NothingToReuse \/ Reuse \/ StartFails \/ Result \/ ResultFails
      BY <1>0, <2>1, <3>1 DEF ShapeOK, Call, Unresolved, NothingToReuse, Reuse, StartFails, Result,
                              ResultFails, Goto, process, accepted
    <3>2. CASE Replace \/ Shutdown
      BY <1>0, <2>1, <3>2 DEF ShapeOK, Replace, Shutdown, StopFlag, Flagged, Goto, accepted
    <3>3. CASE Kill
      BY <1>0, <2>1, <3>3 DEF ShapeOK, Kill, Killed, Goto, accepted
    <3>4. ASSUME NEW s \in Session, Start(s) PROVE ShapeOK'
      BY <1>0, <2>1, <3>4 DEF ShapeOK, Start, Spawns, Goto, accepted
    <3>5. ASSUME NEW s \in Session, StartBreaks(s) PROVE ShapeOK'
      <4>1. /\ config' \in [Session -> Config \cup {0}]
            /\ child' \in [Session -> {"none", "running", "exited"}]
            /\ listener' \in [Session -> {"none", "top", "accept", "ended"}]
            /\ stop' \in [Session -> BOOLEAN]
        BY <1>0, <3>5 DEF ShapeOK, StartBreaks, Spawns
      <4>2. pc' = "idle" /\ reply' = 0 /\ UNCHANGED <<wanted, slot, hand, granted, lately, healthy>>
        BY <3>5 DEF StartBreaks, Goto
      <4> QED
        BY <1>0, <2>1, <4>1, <4>2 DEF ShapeOK, accepted
    <3> QED
      BY <1>1, <3>1, <3>2, <3>3, <3>4, <3>5 DEF MainThread
  <2> QED
    BY <2>1, <2>2, PermitsFrame DEF Permits
<1>2. ASSUME NEW s \in Session, ChildExits(s) \/ ReaderStops(s) \/ ListenerTop(s) \/ NoConnection(s)
      PROVE  Permits'
  <2>1. UNCHANGED accepted
    BY <1>2 DEF ChildExits, ReaderStops, ListenerTop, NoConnection
  <2>2. ShapeOK'
    BY <1>0, <1>2, <2>1 DEF ShapeOK, ChildExits, ReaderStops, ListenerTop, NoConnection,
                            manager, process, accepted
  <2> QED
    BY <2>1, <2>2, PermitsFrame DEF Permits
<1>3. ASSUME NEW s \in Session, NEW k \in Panel, Accept(s, k) PROVE Permits'
  <2>1. ShapeOK'
    BY <1>0, <1>3 DEF ShapeOK, Accept, AfterRefusal, manager, process
  <2>2. Joined'
    BY <1>0, <1>3 DEF ShapeOK, Joined, Accept
  <2>3. k \notin Live(s) /\ \A r \in Session : k \notin Live(r)
    BY <1>3 DEF Accept, Live
  <2>4. CASE handshakes[s] >= MaxHandshakes
    <3>1. \A r \in Session : Live(r)' = Live(r)
      BY <1>0, <1>3, <2>4 DEF ShapeOK, Accept, Live
    <3>2. handshakes' = handshakes
      BY <1>0, <1>3, <2>4 DEF ShapeOK, Accept, AfterRefusal
    <3> QED
      BY <1>0, <2>1, <2>2, <3>1, <3>2 DEF Permits, PermitsExact
  <2>5. CASE handshakes[s] < MaxHandshakes
    <3>1. Live(s)' = Live(s) \cup {k} /\ \A r \in Session \ {s} : Live(r)' = Live(r)
      BY <1>0, <1>3, <2>5 DEF ShapeOK, Accept, Live
    <3>2. Cardinality(Live(s) \cup {k}) = Cardinality(Live(s)) + 1
      BY <2>3, LiveFinite, FS_AddElement
    <3>3. handshakes' = [handshakes EXCEPT ![s] = @ + 1]
      BY <1>0, <1>3, <2>5 DEF ShapeOK, Accept
    <3> QED
      BY <1>0, <2>1, <2>2, <3>1, <3>2, <3>3 DEF Permits, PermitsExact, ShapeOK
  <2> QED
    BY <1>0, <1>3, <2>4, <2>5 DEF Accept
<1>4. ASSUME NEW k \in Panel, Registered(k) PROVE Permits'
  <2>1. ShapeOK' /\ Joined'
    BY <1>0, <1>4 DEF ShapeOK, Joined, Registered, manager, process
  <2>2. \A s \in Session : Live(s)' = Live(s)
    BY <1>0, <1>4, LiveSame DEF Registered
  <2> QED
    BY <1>0, <1>4, <2>1, <2>2 DEF Permits, PermitsExact, Registered
<1>5. ASSUME NEW k \in Panel, PanelEnds(k) PROVE Permits'
  <2>0. PICK s \in Session : joined[k] = s
    BY <1>0, <1>5 DEF Joined, PanelEnds
  <2>1. s \in Session /\ k \in Live(s)
    BY <1>5, <2>0 DEF PanelEnds, Live
  <2>2. ShapeOK' /\ Joined'
    BY <1>0, <1>5, <2>0 DEF ShapeOK, Joined, PanelEnds, manager, process
  <2>3. Live(s)' = Live(s) \ {k} /\ \A r \in Session \ {s} : Live(r)' = Live(r)
    BY <1>0, <1>5, <2>0 DEF ShapeOK, PanelEnds, Live
  <2>4. Cardinality(Live(s) \ {k}) = Cardinality(Live(s)) - 1
    BY <2>1, LiveFinite, FS_RemoveElement
  <2>5. handshakes' = [handshakes EXCEPT ![s] = @ - 1]
    BY <1>5, <2>0 DEF PanelEnds
  <2> QED
    BY <1>0, <2>1, <2>2, <2>3, <2>4, <2>5 DEF Permits, PermitsExact, ShapeOK
<1>6. ASSUME UNCHANGED vars PROVE Permits'
  <2>1. UNCHANGED accepted
    BY <1>6 DEF vars
  <2>2. ShapeOK'
    BY <1>0, <1>6 DEF ShapeOK, vars, manager, process, accepted
  <2> QED
    BY <2>1, <2>2, PermitsFrame DEF Permits
<1> QED
  BY <1>1, <1>2, <1>3, <1>4, <1>5, <1>6 DEF Next

LEMMA PermitsTyped == Permits => TypeOK
<1> SUFFICES ASSUME Permits PROVE TypeOK
  OBVIOUS
<1>1. \A s \in Session : handshakes[s] \in Nat
  BY LiveFinite, FS_CardinalityType DEF Permits, PermitsExact
<1> QED
  BY <1>1 DEF Permits, ShapeOK, TypeOK

\* Every reachable state is well typed: above all, the unsigned counter of the listener never
\* wraps below zero, however its connections end (spawn_proxy_listener).
THEOREM TypeCorrect == Spec => []TypeOK
<1>1. Spec => []Permits
  BY InitPermits, NextPermits, PTL DEF Spec
<1> QED
  BY <1>1, PermitsTyped, PTL

\* The listener's counter is the number of its connection threads, for any number of panels.
THEOREM PermitsAlwaysExact == Spec => []PermitsExact
<1>1. Permits => PermitsExact
  BY DEF Permits
<1> QED
  BY <1>1, InitPermits, NextPermits, PTL DEF Spec

-----------------------------------------------------------------------------
\* A session that was not started was not stopped and is known to nobody.
Unborn == \A s \in Session : config[s] = 0 => ~stop[s] /\ s \notin granted

\* Where the main thread stands with its session.
Stands ==
  /\ slot # 0 => ~stop[slot] /\ config[slot] # 0
  /\ pc \in {"start", "kill", "lastKill"} => slot = 0
  /\ pc \in {"kill", "lastKill"} => hand \in Session /\ stop[hand]
  /\ pc = "result" => slot \in {0, hand}
  /\ pc = "result" => hand \in Session /\ config[hand] = wanted /\ ~stop[hand] /\ hand \in lately
  /\ pc \in {"ensure", "restart", "kill", "start", "result"} => wanted \in Config

\* No session comes to life between a request and the look at the stored one.
Looked == pc \in {"ensure", "restart"} => \A s \in Session : IsAlive(s) => s \in lately

\* Every other session the extension knows of is stopped and its process gone; while the
\* main thread is killing one, that one is only stopped.
Parted ==
  \A s \in granted : s # slot =>
    stop[s] /\ (child[s] = "exited" \/ (pc \in {"kill", "lastKill"} /\ s = hand))

Kept == Unborn /\ Stands /\ Looked /\ Parted /\ FreshReply

LEMMA InitKept == Init => Kept
BY RuntimeAssumption DEF Init, Kept, Unborn, Stands, Looked, IsAlive, Parted, FreshReply

LEMMA NextKept == Permits /\ Kept /\ [Next]_vars => Kept'
<1> SUFFICES ASSUME Permits, Kept, [Next]_vars PROVE Kept'
  OBVIOUS
<1>0. ShapeOK /\ Unborn /\ Stands /\ Looked /\ Parted /\ FreshReply
  BY DEF Permits, Kept
<1> USE RuntimeAssumption
<1>1. CASE Call
  BY <1>0, <1>1 DEF Call, Goto, process, Unborn, Stands, Looked, IsAlive, Parted, FreshReply, Kept
<1>2. CASE Unresolved
  BY <1>0, <1>2 DEF Unresolved, process, Unborn, Stands, Looked, IsAlive, Parted, FreshReply, Kept
<1>3. CASE NothingToReuse
  BY <1>0, <1>3 DEF NothingToReuse, Goto, process, Unborn, Stands, Looked, IsAlive, Parted, FreshReply, Kept
<1>4. CASE Reuse
  BY <1>0, <1>4 DEF Reuse, Reusable, Goto, process, ShapeOK, Unborn, Stands, Looked, IsAlive, Parted, FreshReply, Kept
<1>5. CASE Replace
  BY <1>0, <1>5 DEF Replace, StopFlag, Flagged, Goto, ShapeOK, Unborn, Stands, Looked, IsAlive, Parted, FreshReply, Kept
<1>6. CASE Kill
  <2>0. hand \in Session /\ slot = 0 /\ child' = [child EXCEPT ![hand] = "exited"]
    BY <1>0, <1>6 DEF Kill, Killed, Stands
  <2>1. \A s \in Session : child'[s] = IF s = hand THEN "exited" ELSE child[s]
    BY <1>0, <2>0 DEF ShapeOK
  <2>2. Unborn' /\ Stands' /\ Looked' /\ FreshReply'
    BY <1>0, <1>6, <2>0 DEF Kill, Goto, Unborn, Stands, Looked, FreshReply
  <2>3. granted \subseteq Session /\ UNCHANGED <<granted, slot, stop>>
    BY <1>0, <1>6 DEF Kill, ShapeOK
  <2>4. Parted'
    <3>1. ASSUME NEW s \in granted, s # slot PROVE stop[s] /\ child'[s] = "exited"
      BY <1>0, <2>1, <2>3, <3>1 DEF Parted
    <3> QED
      BY <2>3, <3>1 DEF Parted
  <2> QED
    BY <2>2, <2>4 DEF Kept
<1>7. CASE StartFails
  BY <1>0, <1>7 DEF StartFails, Goto, process, Unborn, Stands, Looked, IsAlive, Parted, FreshReply, Kept
<1>8. ASSUME NEW s \in Session, Start(s) \/ StartBreaks(s) PROVE Kept'
  BY <1>0, <1>8 DEF Start, StartBreaks, Spawns, Goto, ShapeOK, Unborn, Stands, Looked, IsAlive, Parted, FreshReply, Kept
<1>9. CASE Result
  <2>1. Unborn'
    BY <1>0, <1>9 DEF Result, Goto, process, ShapeOK, Unborn, Stands
  <2>2. Stands'
    BY <1>0, <1>9 DEF Result, Goto, process, ShapeOK, Unborn, Stands
  <2>3. Parted'
    <3>1. /\ slot' = hand /\ granted' = granted \cup {hand} /\ slot \in {0, hand}
          /\ UNCHANGED <<stop, child>> /\ pc = "result"
      BY <1>0, <1>9 DEF Result, process, Stands
    <3>2. 0 \notin granted
      BY <1>0 DEF ShapeOK, Session
    <3> QED
      BY <1>0, <3>1, <3>2 DEF Parted
  <2>4. FreshReply'
    BY <1>0, <1>9 DEF Result, Goto, process, ShapeOK, Stands, FreshReply
  <2>5. Looked'
    BY <1>9 DEF Result, Goto, Looked
  <2> QED
    BY <2>1, <2>2, <2>3, <2>4, <2>5 DEF Kept
<1>10. CASE ResultFails
  BY <1>0, <1>10 DEF ResultFails, Goto, process, ShapeOK, Unborn, Stands, Looked, IsAlive, Parted, FreshReply, Kept
<1>11. CASE Shutdown
  <2>1. Unborn'
    BY <1>0, <1>11 DEF Shutdown, StopFlag, Flagged, Goto, ShapeOK, Unborn, Stands
  <2>2. Stands'
    BY <1>0, <1>11 DEF Shutdown, StopFlag, Flagged, Goto, ShapeOK, Unborn, Stands
  <2>3. Parted'
    BY <1>0, <1>11 DEF Shutdown, StopFlag, Flagged, Goto, ShapeOK, Stands, Parted
  <2>4. FreshReply'
    BY <1>0, <1>11 DEF Shutdown, StopFlag, Flagged, Goto, ShapeOK, Stands, FreshReply
  <2>5. Looked'
    BY <1>11 DEF Shutdown, StopFlag, Goto, Looked
  <2> QED
    BY <2>1, <2>2, <2>3, <2>4, <2>5 DEF Kept
<1>12. ASSUME NEW s \in Session, ChildExits(s) PROVE Kept'
  BY <1>0, <1>12 DEF ChildExits, manager, ShapeOK, Unborn, Stands, Looked, IsAlive, Parted, FreshReply, Kept
<1>13. ASSUME UNCHANGED <<manager, config, child, stop>>, \A s \in Session : healthy'[s] => healthy[s]
       PROVE  Kept'
  BY <1>0, <1>13 DEF manager, Unborn, Stands, Looked, IsAlive, Parted, FreshReply, Kept
<1>14. ASSUME NEW s \in Session, ReaderStops(s) \/ ListenerTop(s) \/ NoConnection(s) PROVE Kept'
  BY <1>0, <1>13, <1>14 DEF ReaderStops, ListenerTop, NoConnection, process, ShapeOK
<1>15. ASSUME NEW k \in Panel, Registered(k) \/ PanelEnds(k) \/ \E s \in Session : Accept(s, k)
       PROVE  Kept'
  BY <1>13, <1>15 DEF Registered, PanelEnds, Accept, process
<1>16. CASE UNCHANGED vars
  BY <1>13, <1>16 DEF vars, process
<1> QED
  BY <1>1, <1>2, <1>3, <1>4, <1>5, <1>6, <1>7, <1>8, <1>9, <1>10, <1>11, <1>12, <1>14, <1>15, <1>16
  DEF Next, MainThread

LEMMA AlwaysKept == Spec => []Kept
BY InitPermits, NextPermits, InitKept, NextKept, PTL DEF Spec

\* No runtime the extension was ever told of outlives its replacement: it is the current one,
\* or told to stop, and its process is gone before ensure starts another (RuntimeManager::ensure).
THEOREM NeverForgotten == Spec => []NothingForgotten
<1>1. Permits /\ Kept => NothingForgotten
  BY DEF Kept, Parted, NothingForgotten
<1> QED
  BY <1>1, AlwaysKept, InitPermits, NextPermits, PTL DEF Spec

\* Every answer of ensure names the stored runtime, of the configuration resolved for it, which
\* lived when the request came or was started for it.
THEOREM AlwaysFreshReply == Spec => []FreshReply
<1>1. Kept => FreshReply
  BY DEF Kept
<1> QED
  BY <1>1, AlwaysKept, PTL
=============================================================================
