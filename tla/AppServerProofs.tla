--------------------------- MODULE AppServerProofs ---------------------------
(***************************************************************************)
(* Type correctness of AppServer, and its safety invariants: no promise is *)
(* forgotten, responses go to their own requests, one process at a time.   *)
(* Its windows get what CallService promises, but for its liveness.        *)
(***************************************************************************)
EXTENDS AppServer, TLAPS

LEMMA RequestFacts ==
  /\ \A p \in Proc : Hello(p) \in Request /\ Hello(p).win = 0 /\ Hello(p).id = p /\ Hello(p) # None
  /\ \A w \in Window : \A k \in WindowId :
       Of(w, k) \in Request /\ Of(w, k).win = w /\ Of(w, k).id = k /\ w # 0 /\ Of(w, k) # None
  /\ \A r \in Request : r.win = 0 => r.id \in Proc /\ r = Hello(r.id)
  /\ \A r \in Request : r.win # 0 => r.win \in Window /\ r.id \in WindowId
  /\ None \notin Request
BY AppServerAssumption DEF Request, Hello, Of, None, Proc

LEMMA JobFacts ==
  /\ \A h \in {"result", "error", "send"} : \A r \in Request :
       Do(h, r) \in Job /\ Do(h, r).for = r /\ Do(h, r).how = h
  /\ \A h \in {"result", "error", "send"} : \A R \in SUBSET Request :
       All(h, R) \subseteq Job /\ \A j \in All(h, R) : j.for \in R /\ j.how = h
  /\ \A j \in Job : j.for \in Request
BY DEF Do, All, Job

LEMMA InitType == Init => TypeOK
<1> SUFFICES ASSUME Init PROVE TypeOK
  OBVIOUS
<1>1. 1 \in Proc
  BY AppServerAssumption DEF Proc
<1>2. Hello(1) \in Request
  BY <1>1, RequestFacts
<1>3. life \in [Proc -> {"none", "running", "failed", "dead", "gone"}]
  BY DEF Init
<1>4. atServer \in [Proc -> SUBSET Request]
  BY RequestFacts DEF Init
<1> QED
  BY <1>1, <1>2, <1>3, <1>4 DEF Init, TypeOK

\* Answers, timers, errors and exits shrink the pending map and make continuations.
LEMMA TakenType ==
  ASSUME TypeOK, NEW k, NEW h \in {"result", "error"}, Taken(k, h)
  PROVE  /\ pending' \subseteq pending /\ timers' \subseteq timers
         /\ Matching(k) \in SUBSET Request /\ jobs' \subseteq Job
         /\ \A j \in jobs' : j.for \in Matching(k) /\ j.how = h
<1>1. Matching(k) \in SUBSET Request
  BY DEF Matching, TypeOK
<1>2. All(h, Matching(k)) \subseteq Job /\ \A j \in All(h, Matching(k)) : j.for \in Matching(k) /\ j.how = h
  BY <1>1, JobFacts
<1> QED
  BY <1>1, <1>2 DEF Taken, TypeOK

LEMMA IncomingType ==
  ASSUME TypeOK, NEW r \in Request, NEW h \in {"result", "error"}, Incoming(r, h)
  PROVE  /\ pending' \subseteq pending /\ timers' \subseteq timers
         /\ jobs' \subseteq Job /\ foreign' \subseteq Request
BY TakenType DEF Incoming, TypeOK

LEMMA RejectType ==
  ASSUME TypeOK, RejectAllPending
  PROVE  pending' = {} /\ timers' \subseteq timers /\ jobs' \subseteq Job
<1>1. pending \in SUBSET Request
  BY DEF TypeOK
<1>2. All("error", pending) \subseteq Job
  BY <1>1, JobFacts
<1> QED
  BY <1>2 DEF RejectAllPending

LEMMA SentType ==
  ASSUME TypeOK, NEW r \in Request, Sent(r)
  PROVE  /\ pending' \subseteq Request /\ timers' \subseteq Request
         /\ \A x, y \in pending' : x.id = y.id => x = y
         /\ atServer' \in [Proc -> SUBSET Request]
BY DEF TypeOK, Sent, Kept, TimerSet

LEMMA SpawnedType ==
  ASSUME TypeOK, NEW p \in Proc, Spawned(p)
  PROVE  /\ pending' \subseteq Request /\ timers' \subseteq Request
         /\ \A x, y \in pending' : x.id = y.id => x = y
         /\ atServer' \in [Proc -> SUBSET Request]
         /\ life' \in [Proc -> {"none", "running", "failed", "dead", "gone"}]
         /\ proc' \in Proc /\ connected' \in BOOLEAN /\ initialized' \in BOOLEAN
         /\ connecting' \in BOOLEAN
<1>1. Hello(p) \in Request
  BY RequestFacts
<1>2. /\ life' \in [Proc -> {"none", "running", "failed", "dead", "gone"}]
      /\ atServer' \in [Proc -> SUBSET Request]
  BY <1>1 DEF TypeOK, Spawned
<1>3. pending' = Kept(Hello(p)) \cup {Hello(p)} /\ timers' = timers \cup {Hello(p)}
  BY DEF Spawned, TimerSet
<1>4. pending' \subseteq Request /\ timers' \subseteq Request
  BY <1>1, <1>3 DEF TypeOK, Kept
<1>5. \A x, y \in pending' : x.id = y.id => x = y
  BY <1>1, <1>3 DEF TypeOK, Kept
<1> QED
  BY <1>2, <1>4, <1>5 DEF Spawned

LEMMA NextType == TypeOK /\ [Next]_vars => TypeOK'
<1> SUFFICES ASSUME TypeOK, [Next]_vars PROVE TypeOK'
  OBVIOUS
<1>1. ASSUME NEW w \in Window, NEW k \in WindowId, Ask(w, k) PROVE TypeOK'
  <2> DEFINE r == Of(w, k)
  <2>0. r \in Request /\ Do("error", r) \in Job
    BY RequestFacts, JobFacts
  <2>1. used' \in [Window -> SUBSET WindowId]
    BY <1>1 DEF Ask, TypeOK
  <2>2. UNCHANGED <<phase, window, buffer, stdin, answers, foreign, theirs>>
    BY <1>1 DEF Ask
  <2> HIDE DEF r
  <2>3. CASE Sent(r) /\ UNCHANGED <<client, start, jobs, life>>
    BY <2>0, <2>1, <2>2, <2>3, SentType DEF TypeOK, client, start
  <2>4. CASE waiting' = waiting \cup {r} /\ UNCHANGED <<client, connecting, calls, jobs, life, atServer>>
    BY <2>0, <2>1, <2>2, <2>4 DEF TypeOK, client, calls
  <2>5. CASE Jobs({Do("error", r)}) /\ UNCHANGED <<client, start, calls, life, atServer>>
    BY <2>0, <2>1, <2>2, <2>5 DEF TypeOK, client, start, calls, Jobs
  <2>6. CASE (\E p \in Proc : Spawned(p)) /\ waiting' = {r} /\ UNCHANGED jobs
    BY <2>0, <2>1, <2>2, <2>6, SpawnedType DEF TypeOK
  <2> QED
    BY <1>1, <2>3, <2>4, <2>5, <2>6 DEF Ask, r
<1>2. ASSUME NEW w \in Window, WindowCloses(w) PROVE TypeOK'
  BY <1>2 DEF WindowCloses, TypeOK, client, start, calls, process, history
<1>3. ASSUME NEW p \in Proc, StdinError(p) PROVE TypeOK'
  <2>1. stdin' \in [Proc -> BOOLEAN] /\ connected' = FALSE /\ initialized' = FALSE /\ RejectAllPending
        /\ UNCHANGED <<phase, window, proc, start, buffer, life, atServer, history>>
    BY <1>3 DEF StdinError, TypeOK
  <2> QED
    BY <2>1, RejectType DEF TypeOK, start, history
<1>4. ASSUME NEW p \in Proc, Dies(p) PROVE TypeOK'
  BY <1>4 DEF Dies, TypeOK, client, start, calls, history
<1>5. ASSUME NEW p \in Proc, Exit(p) PROVE TypeOK'
  <2>1. life' \in [Proc -> {"none", "running", "failed", "dead", "gone"}] /\ Forget
        /\ UNCHANGED <<phase, window, start, stdin, atServer, history>>
    BY <1>5 DEF Exit, TypeOK
  <2> QED
    BY <2>1, RejectType DEF Forget, TypeOK, start, history
<1>6. ASSUME NEW p \in Proc, NEW r \in atServer[p], Line(p, r) PROVE TypeOK'
  <2>0. r \in Request /\ atServer' \in [Proc -> SUBSET Request]
    BY <1>6 DEF TypeOK, Line, Answered
  <2>1. buffer' = None /\ UNCHANGED <<phase, window, client, start, life, stdin, used, answers, theirs>>
    BY <1>6 DEF Line
  <2>2. CASE \E h \in {"result", "error"} : Incoming(r, h)
    BY <2>0, <2>1, <2>2, IncomingType DEF TypeOK, client, start
  <2>3. CASE UNCHANGED <<calls, jobs, foreign>>
    BY <2>0, <2>1, <2>3 DEF TypeOK, client, start, calls
  <2> QED
    BY <1>6, <2>2, <2>3 DEF Line
<1>7. ASSUME NEW p \in Proc, NEW r \in atServer[p], Part(p, r) PROVE TypeOK'
  <2>0. r \in Request /\ atServer' \in [Proc -> SUBSET Request]
    BY <1>7 DEF TypeOK, Part, Answered
  <2> QED
    BY <1>7, <2>0 DEF Part, TypeOK, client, start, calls, history
<1>8. CASE Rest
  <2>0. buffer \in Request
    BY <1>8 DEF Rest, TypeOK
  <2>1. buffer' = None /\ UNCHANGED <<phase, window, client, start, process, used, answers, theirs>>
    BY <1>8 DEF Rest
  <2>2. PICK h \in {"result", "error"} : Incoming(buffer, h)
    BY <1>8 DEF Rest
  <2> QED
    BY <2>0, <2>1, <2>2, IncomingType DEF TypeOK, client, start, process
<1>9. CASE Shutdown
  <2>1. /\ window' \in [Window -> {"open", "closing", "closed"}]
        /\ life' \in [Proc -> {"none", "running", "failed", "dead", "gone"}]
        /\ phase' = "stopping" /\ Forget /\ UNCHANGED <<start, stdin, atServer, history>>
    BY <1>9 DEF Shutdown, TypeOK
  <2> QED
    BY <2>1, RejectType DEF Forget, TypeOK, start, history
<1>10. CASE Over
  BY <1>10 DEF Over, TypeOK, client, start, calls, process, history
<1>11. ASSUME NEW r \in Request, Timeout(r) PROVE TypeOK'
  <2>1. jobs' \subseteq Job
    BY <1>11, JobFacts DEF Timeout, Jobs
  <2>2. pending' \subseteq pending /\ timers' \subseteq timers
    BY <1>11 DEF Timeout
  <2>3. UNCHANGED <<phase, window, client, start, buffer, process, history>>
    BY <1>11 DEF Timeout
  <2> QED
    BY <2>1, <2>2, <2>3 DEF TypeOK, client, start, process, history
<1>12. ASSUME NEW j \in jobs, Settle(j) PROVE TypeOK'
  <2>1. j.for.win \in Window /\ j.for.id \in WindowId
    BY <1>12, RequestFacts, JobFacts DEF Settle, TypeOK
  <2>2. answers' \in [Window -> SUBSET WindowId]
    BY <1>12, <2>1 DEF Settle, Reply, TypeOK
  <2> QED
    BY <1>12, <2>2 DEF Settle, TypeOK, client, start, calls, process
<1>13. ASSUME NEW j \in jobs, Initialized(j) PROVE TypeOK'
  <2>1. PICK h \in {"send", "error"} : Begin(j, h)
    BY <1>13 DEF Initialized
  <2>2. initialized' \in BOOLEAN /\ UNCHANGED <<window, proc, connected, calls, buffer, process, history>>
    BY <1>13 DEF Initialized, TypeOK
  <2>3. waiting \in SUBSET Request
    BY DEF TypeOK
  <2>4. All(h, waiting) \subseteq Job
    BY <2>3, JobFacts
  <2>5. jobs' \subseteq Job /\ connecting' = FALSE /\ waiting' = {} /\ phase' \in {"run", phase}
    BY <2>1, <2>4 DEF Begin, TypeOK
  <2>6. UNCHANGED <<window, proc, connected, pending, timers, buffer, life, stdin, atServer, used, answers, foreign, theirs>>
    BY <2>2 DEF calls, process, history
  <2> QED
    BY <2>2, <2>5, <2>6 DEF TypeOK
<1>14. ASSUME NEW j \in jobs, Forward(j) PROVE TypeOK'
  <2>1. j.for \in Request
    BY JobFacts DEF TypeOK
  <2> QED
    BY <1>14, <2>1, SentType DEF Forward, TypeOK, client, start, history
<1>15. ASSUME NEW p \in Proc, NEW k \in ServerId, ServerAsks(p, k) PROVE TypeOK'
  <2>1. /\ theirs' \subseteq ServerId /\ buffer' = None
        /\ UNCHANGED <<phase, window, client, start, process, used, answers>>
    BY <1>15 DEF ServerAsks, TypeOK
  <2>2. CASE Taken(k, "result") /\ foreign' = foreign \cup Matching(k)
    BY <2>1, <2>2, TakenType DEF TypeOK, client, start, process
  <2>3. CASE UNCHANGED <<calls, jobs, foreign>>
    BY <2>1, <2>3 DEF TypeOK, client, start, calls, process
  <2> QED
    BY <1>15, <2>2, <2>3 DEF ServerAsks
<1>16. CASE UNCHANGED vars
  BY <1>16 DEF vars, TypeOK, client, start, calls, process, history
<1> QED
  BY <1>1, <1>2, <1>3, <1>4, <1>5, <1>6, <1>7, <1>8, <1>9, <1>10, <1>11, <1>12, <1>13, <1>14, <1>15, <1>16
     DEF Next, Run

\* Every reachable state of AppServer is well typed, and the pending map holds one entry
\* for an id, whatever ids the windows choose.
THEOREM TypeCorrect == Spec => []TypeOK
<1> QED
  BY InitType, NextType, PTL DEF Spec

-----------------------------------------------------------------------------
(* No promise is forgotten. *)

\* The initialize of p is under way: its timer runs, or its continuation is runnable.
Carried(p) == Hello(p) \in timers \/ \E j \in jobs : j.for = Hello(p)

\* At most one initialize is under way, and it is carried once.
OneGreeting ==
  /\ \A p, q \in Proc : Carried(p) /\ Carried(q) => p = q
  /\ \A p \in Proc : Hello(p) \in timers => \A j \in jobs : j.for # Hello(p)
  /\ \A i, j \in jobs : i.for.win = 0 /\ j.for.win = 0 => i = j

\* Only requests of windows wait for a start.
OfWindows ==
  /\ \A r \in waiting : r.win # 0
  /\ \A j \in jobs : j.how = "send" => j.for.win # 0

Connecting == connecting <=> \E p \in Proc : Carried(p)
Waiting == waiting # {} => connecting

Greeting == Connecting /\ Waiting /\ OneGreeting /\ OfWindows
Held == pending \subseteq timers /\ Greeting

LEMMA HeldNeverForgotten == Held => NeverForgotten
<1>1. \A p \in Proc : Carried(p) <=> Hello(p) \in timers \cup {j.for : j \in jobs}
  BY DEF Carried
<1> QED
  BY <1>1 DEF Held, Greeting, Connecting, Waiting, NeverForgotten

LEMMA InitHeld == Init => Held
<1> SUFFICES ASSUME Init PROVE Held
  OBVIOUS
<1>1. 1 \in Proc
  BY AppServerAssumption DEF Proc
<1>2. \A p \in Proc : Carried(p) <=> p = 1
  BY <1>1, RequestFacts DEF Init, Carried
<1>3. Connecting /\ Waiting /\ pending \subseteq timers
  BY <1>1, <1>2 DEF Init, Connecting, Waiting
<1>4. OneGreeting /\ OfWindows
  BY <1>2 DEF Init, OneGreeting, OfWindows
<1> QED
  BY <1>3, <1>4 DEF Held, Greeting

\* Requests pass from the timers to the continuations.
LEMMA MovedGreeting ==
  ASSUME TypeOK, Greeting, jobs = {}, NEW M \in SUBSET timers, NEW h \in {"result", "error"},
         timers' = timers \ M, jobs' = All(h, M), UNCHANGED start
  PROVE  Greeting'
<1>1. M \in SUBSET Request
  BY DEF TypeOK
<1>2. \A j \in jobs' : j.for \in M /\ j.how = h
  BY <1>1, JobFacts
<1>3. \A i, j \in jobs' : i.for = j.for => i = j
  BY <1>1, JobFacts DEF All
<1>4. \A r \in M : \E j \in jobs' : j.for = r
  <2>1. \A r \in M : Do(h, r) \in jobs' /\ Do(h, r).for = r
    BY <1>1, JobFacts DEF All
  <2> QED
    BY <2>1
<1>5. \A p \in Proc : Carried(p)' <=> Carried(p)
  BY <1>2, <1>4 DEF Carried
<1>6. Connecting' /\ Waiting'
  BY <1>5 DEF Greeting, Connecting, Waiting, start
<1>7. OneGreeting'
  <2>1. \A p, q \in Proc : Carried(p)' /\ Carried(q)' => p = q
    BY <1>5 DEF Greeting, OneGreeting
  <2>2. \A p \in Proc : Hello(p) \in timers' => \A j \in jobs' : j.for # Hello(p)
    BY <1>2
  <2>3. ASSUME NEW i \in jobs', NEW j \in jobs', i.for.win = 0, j.for.win = 0 PROVE i = j
    <3>1. i.for \in Request /\ j.for \in Request
      BY <1>1, <1>2
    <3>2. i.for.id \in Proc /\ j.for.id \in Proc /\ i.for = Hello(i.for.id) /\ j.for = Hello(j.for.id)
      BY <2>3, <3>1, RequestFacts
    <3>3. Carried(i.for.id)' /\ Carried(j.for.id)'
      BY <3>2 DEF Carried
    <3> QED
      BY <1>3, <2>1, <3>2, <3>3
  <2> QED
    BY <2>1, <2>2, <2>3 DEF OneGreeting
<1>8. OfWindows'
  BY <1>2 DEF Greeting, OfWindows, start
<1> QED
  BY <1>6, <1>7, <1>8 DEF Greeting

\* A request of a window gets a timer, or its continuation is run or made runnable.
LEMMA WindowGreeting ==
  ASSUME TypeOK, Greeting, UNCHANGED start,
         \A r \in Request : r.win = 0 => (r \in timers' <=> r \in timers),
         \A j : j \in Job /\ j.for.win = 0 => (j \in jobs' <=> j \in jobs),
         jobs' \subseteq Job, \A j \in jobs' : j.how = "send" => j.for.win # 0
  PROVE  Greeting'
<1>1. \A p \in Proc : Hello(p) \in timers' <=> Hello(p) \in timers
  BY RequestFacts
<1>2. \A p \in Proc : \A j : j.for = Hello(p) => (j \in jobs' <=> j \in jobs)
  BY RequestFacts DEF TypeOK
<1>3. \A p \in Proc : Carried(p)' <=> Carried(p)
  BY <1>1, <1>2 DEF Carried
<1>4. Connecting' /\ Waiting' /\ OfWindows'
  BY <1>3 DEF Greeting, Connecting, Waiting, OfWindows, start
<1>5. OneGreeting'
  BY <1>1, <1>2, <1>3 DEF Greeting, OneGreeting, TypeOK
<1> QED
  BY <1>4, <1>5 DEF Greeting

LEMMA NextHeld == TypeOK /\ TypeOK' /\ Held /\ [Next]_vars => Held'
<1> SUFFICES ASSUME TypeOK, TypeOK', Held, [Next]_vars PROVE Held'
  OBVIOUS
<1>0. pending \subseteq timers /\ Greeting
  BY DEF Held
<1>1. ASSUME NEW w \in Window, NEW k \in WindowId, Ask(w, k) PROVE Held'
  <2>0. PICK r \in Request : r = Of(w, k) /\ r.win # 0
    BY RequestFacts
  <2>1. jobs = {}
    BY <1>1 DEF Ask, Turn
  <2>2. CASE Sent(r) /\ UNCHANGED <<client, start, jobs, life>>
    <3>1. pending' \subseteq timers' /\ timers' = timers \cup {r}
      BY <1>0, <2>2 DEF Sent, Kept, TimerSet
    <3>2. Greeting'
      BY <1>0, <2>0, <2>1, <2>2, <3>1, WindowGreeting
    <3> QED
      BY <3>1, <3>2 DEF Held
  <2>3. CASE connecting /\ waiting' = waiting \cup {r} /\ UNCHANGED <<client, connecting, calls, jobs, life, atServer>>
    <3>1. \A p \in Proc : Carried(p)' <=> Carried(p)
      BY <2>3 DEF Carried, calls
    <3>2. Connecting' /\ Waiting'
      BY <1>0, <2>3, <3>1 DEF Greeting, Connecting, Waiting
    <3>3. OneGreeting' /\ OfWindows'
      BY <1>0, <2>0, <2>1, <2>3, <3>1 DEF Greeting, OneGreeting, OfWindows, calls
    <3> QED
      BY <1>0, <2>3, <3>2, <3>3 DEF Held, Greeting, calls
  <2>4. CASE Jobs({Do("error", r)}) /\ UNCHANGED <<client, start, calls, life, atServer>>
    <3>1. jobs' \subseteq Job /\ \A j \in jobs' : j.for.win # 0 /\ j.how = "error"
      BY <2>0, <2>4, JobFacts DEF Jobs
    <3>2. Greeting'
      BY <1>0, <2>1, <2>4, <3>1, WindowGreeting DEF calls
    <3> QED
      BY <1>0, <2>4, <3>2 DEF Held, calls
  <2>5. CASE ~connecting /\ (\E p \in Proc : Spawned(p)) /\ waiting' = {r} /\ UNCHANGED jobs
    <3>1. PICK p \in Proc : Spawned(p)
      BY <2>5
    <3>2. pending' \subseteq timers' /\ timers' = timers \cup {Hello(p)} /\ connecting'
      BY <1>0, <3>1 DEF Spawned, Kept, TimerSet
    <3>3. \A q \in Proc : ~Carried(q)
      BY <1>0, <2>5 DEF Greeting, Connecting
    <3>4. \A q \in Proc : Hello(q) = Hello(p) => q = p
      BY RequestFacts
    <3>5. \A q \in Proc : Carried(q)' <=> q = p
      BY <2>1, <2>5, <3>2, <3>3, <3>4 DEF Carried
    <3>6. Connecting' /\ Waiting'
      BY <3>2, <3>5 DEF Connecting, Waiting
    <3>7. OneGreeting' /\ OfWindows'
      BY <2>0, <2>1, <2>5, <3>5 DEF OneGreeting, OfWindows
    <3> QED
      BY <3>2, <3>6, <3>7 DEF Held, Greeting
  <2> QED
    BY <1>1, <2>0, <2>2, <2>3, <2>4, <2>5 DEF Ask
<1>2. ASSUME UNCHANGED <<start, calls, jobs>> PROVE Held'
  <2>1. Greeting'
    BY <1>0, <1>2, WindowGreeting DEF calls, TypeOK, Greeting, OfWindows
  <2> QED
    BY <1>0, <1>2, <2>1 DEF Held, calls
<1>3. ASSUME jobs = {}, RejectAllPending, UNCHANGED start PROVE Held'
  <2>1. Greeting'
    BY <1>0, <1>3, MovedGreeting DEF RejectAllPending
  <2> QED
    BY <1>3, <2>1 DEF Held, RejectAllPending
<1>4. ASSUME NEW k, NEW h \in {"result", "error"}, jobs = {}, Taken(k, h), UNCHANGED start PROVE Held'
  <2>1. Matching(k) \subseteq timers
    BY <1>0 DEF Matching
  <2>2. Greeting'
    BY <1>0, <1>4, <2>1, MovedGreeting DEF Taken
  <2> QED
    BY <1>0, <1>4, <2>2 DEF Held, Taken
<1>5. ASSUME NEW r \in Request, Timeout(r) PROVE Held'
  <2>1. jobs' = All("error", {r}) /\ timers' = timers \ {r} /\ r \in timers /\ jobs = {} /\ UNCHANGED start
    BY <1>5 DEF Timeout, Jobs, All, Due, Turn
  <2>2. Greeting'
    BY <1>0, <2>1, MovedGreeting
  <2>3. pending' \subseteq timers'
    BY <1>0, <1>5 DEF Timeout
  <2> QED
    BY <2>2, <2>3 DEF Held
<1>6. ASSUME NEW j \in jobs, Settle(j) PROVE Held'
  <2>1. Greeting'
    <3>1. jobs' = jobs \ {j} /\ j.for.win # 0 /\ UNCHANGED <<start, calls>>
      BY <1>6 DEF Settle
    <3> QED
      BY <1>0, <3>1, WindowGreeting DEF calls, TypeOK, Greeting, OfWindows
  <2> QED
    BY <1>0, <1>6, <2>1 DEF Held, Settle, calls
<1>7. ASSUME NEW j \in jobs, Forward(j) PROVE Held'
  <2>1. jobs' = jobs \ {j} /\ timers' = timers \cup {j.for} /\ UNCHANGED start /\ j.how = "send"
    BY <1>7 DEF Forward, Sent, TimerSet
  <2>2. j.for.win # 0
    BY <1>0, <2>1 DEF Greeting, OfWindows
  <2>3. Greeting'
    BY <1>0, <2>1, <2>2, WindowGreeting DEF TypeOK, Greeting, OfWindows
  <2>4. pending' \subseteq timers'
    BY <1>0, <1>7 DEF Forward, Sent, Kept, TimerSet
  <2> QED
    BY <2>3, <2>4 DEF Held
<1>8. ASSUME NEW j \in jobs, Initialized(j) PROVE Held'
  <2>1. PICK h \in {"send", "error"} : Begin(j, h)
    BY <1>8 DEF Initialized
  <2>2. j.for.win = 0 /\ UNCHANGED calls
    BY <1>8 DEF Initialized
  <2>3. connecting' = FALSE /\ waiting' = {} /\ jobs' = (jobs \ {j}) \cup All(h, waiting)
    BY <2>1 DEF Begin
  <2>4. waiting \in SUBSET Request /\ j.for \in Request
    BY JobFacts DEF TypeOK
  <2>5. \A i \in All(h, waiting) : i.for.win # 0
    BY <1>0, <2>4, JobFacts DEF Greeting, OfWindows
  <2>6. j.for.id \in Proc /\ j.for = Hello(j.for.id) /\ Carried(j.for.id)
    BY <2>2, <2>4, RequestFacts DEF Carried
  <2>7. \A q \in Proc : Hello(q) \notin timers
    BY <1>0, <2>6 DEF Greeting, OneGreeting, Carried
  <2>8. \A i \in jobs' : i.for.win # 0
    BY <1>0, <2>2, <2>3, <2>5 DEF Greeting, OneGreeting
  <2>9. \A q \in Proc : ~Carried(q)'
    BY <2>2, <2>7, <2>8, RequestFacts DEF Carried, calls
  <2>10. Connecting' /\ Waiting'
    BY <2>3, <2>9 DEF Connecting, Waiting
  <2>11. OneGreeting' /\ OfWindows'
    BY <2>3, <2>8, <2>9 DEF OneGreeting, OfWindows, Carried
  <2> QED
    BY <1>0, <2>2, <2>10, <2>11 DEF Held, Greeting, calls
<1>9. ASSUME NEW p \in Proc, StdinError(p) \/ Dies(p) \/ Exit(p) PROVE Held'
  BY <1>2, <1>3, <1>9 DEF StdinError, Dies, Exit, Forget, Turn
<1>10. ASSUME NEW p \in Proc, NEW r \in atServer[p], Line(p, r) \/ Part(p, r) PROVE Held'
  BY <1>2, <1>4, <1>10 DEF Line, Part, Turn, Incoming
<1>11. CASE Rest \/ \E p \in Proc, k \in ServerId : ServerAsks(p, k)
  BY <1>2, <1>4, <1>11 DEF Rest, ServerAsks, Turn, Incoming
<1>12. CASE Shutdown
  BY <1>3, <1>12 DEF Shutdown, Forget, Turn
<1>13. CASE Over \/ (\E w \in Window : WindowCloses(w)) \/ UNCHANGED vars
  BY <1>2, <1>13 DEF Over, WindowCloses, vars
<1> QED
  BY <1>1, <1>5, <1>6, <1>7, <1>8, <1>9, <1>10, <1>11, <1>12, <1>13 DEF Next, Run

\* Whatever fails, an open request keeps a timer or a continuation, and whoever waits for
\* a start waits for one that is under way.
THEOREM PromisesKept == Spec => []NeverForgotten
<1>1. Spec => [](TypeOK /\ Held)
  BY InitType, NextType, InitHeld, NextHeld, PTL DEF Spec
<1> QED
  BY <1>1, HeldNeverForgotten, PTL

-----------------------------------------------------------------------------
(* Responses go to their own requests. *)

\* What a process, a half line or a continuation speaks of has been asked.
AllMade ==
  /\ \A p \in Proc : \A r \in atServer[p] : Made(r)
  /\ \A r \in waiting : Made(r)
  /\ \A j \in jobs : j.how = "send" => Made(j.for)
  /\ buffer # None => Made(buffer)

\* An initialize is answered by its own process, once.
AtHome ==
  /\ \A p \in Proc : \A r \in atServer[p] : r.win = 0 => r.id = p
  /\ buffer # None /\ buffer.win = 0 => buffer \notin atServer[buffer.id]

Origins == AllMade /\ AtHome /\ OwnResponse

LEMMA InitOrigins == Init => Origins
<1> SUFFICES ASSUME Init PROVE Origins
  OBVIOUS
<1>1. \A p \in Proc : \A r \in atServer[p] : r = Hello(p) /\ life[p] # "none"
  BY DEF Init
<1> QED
  BY <1>1, RequestFacts DEF Init, Origins, AllMade, AtHome, OwnResponse, Made

\* Processes are not unborn, nor ids unused again.
LEMMA MadeGrows == TypeOK /\ [Next]_vars => \A r \in Request : Made(r) => Made(r)'
<1> SUFFICES ASSUME TypeOK, [Next]_vars PROVE \A r \in Request : Made(r) => Made(r)'
  OBVIOUS
<1>1. \A p \in Proc : life[p] # "none" => life'[p] # "none"
  BY DEF TypeOK, Next, Run, Ask, Spawned, WindowCloses, StdinError, Dies, Exit, Line, Part, Rest, ServerAsks, Shutdown,
         Over, Timeout, Settle, Initialized, Forward, vars, process
<1>2. \A w \in Window : used[w] \subseteq used'[w]
  <2>1. CASE \E w \in Window : \E k \in WindowId : Ask(w, k)
    BY <2>1 DEF Ask, TypeOK
  <2>2. CASE UNCHANGED used
    BY <2>2
  <2> QED
    BY <2>1, <2>2 DEF Next, Run, WindowCloses, StdinError, Dies, Exit, Line, Part, Rest, ServerAsks, Shutdown,
         Over, Timeout, Settle, Initialized, Forward, vars, history
<1> QED
  BY <1>1, <1>2, RequestFacts DEF Made

\* What was made stays made; what is new is made by the step.
LEMMA AllMadeStep ==
  ASSUME TypeOK, TypeOK', AllMade, \A r \in Request : Made(r) => Made(r)',
         NEW N \in SUBSET Request, \A r \in N : Made(r)',
         \A p \in Proc : atServer'[p] \subseteq atServer[p] \cup N,
         waiting' \subseteq waiting \cup N,
         \A j \in jobs' : j.how = "send" => j \in jobs \/ j.for \in waiting,
         buffer' = buffer \/ buffer' = None \/ \E p \in Proc : buffer' \in atServer[p]
  PROVE  AllMade'
<1>1. \A p \in Proc : \A r \in atServer'[p] : Made(r)'
  BY DEF TypeOK, AllMade
<1>2. \A r \in waiting' : Made(r)'
  BY DEF TypeOK, AllMade
<1>3. \A j \in jobs' : j.how = "send" => Made(j.for)'
  BY JobFacts DEF TypeOK, AllMade
<1>4. buffer' # None => Made(buffer)'
  BY DEF TypeOK, AllMade
<1> QED
  BY <1>1, <1>2, <1>3, <1>4 DEF AllMade

LEMMA AllMadeKept ==
  ASSUME TypeOK, TypeOK', AllMade, \A r \in Request : Made(r) => Made(r)',
         \A p \in Proc : atServer'[p] \subseteq atServer[p], waiting' \subseteq waiting,
         \A j \in jobs' : j.how = "send" => j \in jobs \/ j.for \in waiting,
         buffer' = buffer \/ buffer' = None \/ \E p \in Proc : buffer' \in atServer[p]
  PROVE  AllMade'
<1> DEFINE N == {}
<1>1. N \in SUBSET Request /\ \A r \in N : Made(r)'
  OBVIOUS
<1>2. waiting' \subseteq waiting \cup N /\ \A p \in Proc : atServer'[p] \subseteq atServer[p] \cup N
  OBVIOUS
<1> HIDE DEF N
<1> QED
  BY <1>1, <1>2, AllMadeStep

LEMMA TheirsGrow == [Next]_vars => theirs \subseteq theirs'
BY DEF Next, Run, Ask, WindowCloses, StdinError, Dies, Exit, Line, Part, Rest, ServerAsks, Shutdown,
       Over, Timeout, Settle, Initialized, Forward, vars, history

LEMMA IncomingOwn ==
  ASSUME TypeOK, OwnResponse, \A r \in Request : Made(r) => Made(r)', theirs \subseteq theirs',
         NEW r \in Request, Made(r), NEW h, Incoming(r, h)
  PROVE  OwnResponse'
<1>1. foreign' = foreign \cup {x \in Matching(r.id) : x # r}
  BY DEF Incoming
<1>2. \A x \in foreign : x.id \in theirs' \/ \E q \in Request \ {x} : q.id = x.id /\ Made(q)'
  BY DEF OwnResponse
<1>3. \A x \in Matching(r.id) : x # r => r \in Request \ {x} /\ r.id = x.id /\ Made(r)'
  BY DEF Matching
<1> QED
  BY <1>1, <1>2, <1>3 DEF OwnResponse

LEMMA OwnSame ==
  ASSUME OwnResponse, TypeOK, \A r \in Request : Made(r) => Made(r)', theirs \subseteq theirs', UNCHANGED foreign
  PROVE  OwnResponse'
BY DEF OwnResponse

\* Only new requests of windows are given to a process.
LEMMA AtHomeStep ==
  ASSUME TypeOK, AtHome, NEW N \in SUBSET Request, \A r \in N : r.win # 0,
         \A p \in Proc : atServer'[p] \subseteq atServer[p] \cup N,
         buffer' = buffer \/ buffer' = None
  PROVE  AtHome'
<1>1. \A p \in Proc : \A r \in atServer'[p] : r.win = 0 => r.id = p
  BY DEF AtHome
<1>2. ASSUME buffer' # None, buffer'.win = 0 PROVE buffer' \notin atServer'[buffer'.id]
  <2>1. buffer \in Request /\ buffer.id \in Proc /\ buffer' = buffer
    BY <1>2, RequestFacts DEF TypeOK
  <2> QED
    BY <1>2, <2>1 DEF AtHome
<1> QED
  BY <1>1, <1>2 DEF AtHome

LEMMA AtHomeKept ==
  ASSUME TypeOK, AtHome, \A p \in Proc : atServer'[p] \subseteq atServer[p],
         buffer' = buffer \/ buffer' = None
  PROVE  AtHome'
<1> DEFINE N == {}
<1>1. N \in SUBSET Request /\ \A r \in N : r.win # 0
  OBVIOUS
<1>2. \A p \in Proc : atServer'[p] \subseteq atServer[p] \cup N
  OBVIOUS
<1> HIDE DEF N
<1> QED
  BY <1>1, <1>2, AtHomeStep

LEMMA NextOrigins == TypeOK /\ TypeOK' /\ Held /\ Origins /\ [Next]_vars => Origins'
<1> SUFFICES ASSUME TypeOK, TypeOK', Held, Origins, [Next]_vars PROVE Origins'
  OBVIOUS
<1>0. AllMade /\ AtHome /\ OwnResponse /\ OfWindows
  BY DEF Origins, Held, Greeting
<1>m. theirs \subseteq theirs' /\ \A r \in Request : Made(r) => Made(r)'
  BY MadeGrows, TheirsGrow
<1>1. ASSUME NEW w \in Window, NEW k \in WindowId, Ask(w, k) PROVE Origins'
  <2>0. PICK r \in Request : r = Of(w, k) /\ r.win = w /\ r.id = k /\ r.win # 0
    BY RequestFacts
  <2>1. Made(r)'
    BY <1>1, <2>0 DEF Ask, Made, TypeOK
  <2>2. UNCHANGED <<buffer, foreign>> /\ OwnResponse'
    BY <1>0, <1>1, <1>m, OwnSame DEF Ask
  <2>3. ASSUME \A p \in Proc : atServer'[p] \subseteq atServer[p] \cup {r}, waiting' \subseteq waiting \cup {r},
               \A j \in jobs' : j.how = "send" => j \in jobs
        PROVE  Origins'
    <3>0. {r} \in SUBSET Request /\ \A x \in {r} : Made(x)'
      BY <2>1
    <3>1. AllMade'
      BY <1>0, <1>m, <2>2, <2>3, <3>0, AllMadeStep
    <3>2. AtHome'
      BY <1>0, <2>0, <2>2, <2>3, AtHomeStep
    <3> QED
      BY <2>2, <3>1, <3>2 DEF Origins
  <2>4. CASE Sent(r) /\ UNCHANGED <<client, start, jobs, life>>
    BY <2>3, <2>4 DEF Sent, TypeOK, start
  <2>5. CASE waiting' = waiting \cup {r} /\ UNCHANGED <<client, connecting, calls, jobs, life, atServer>>
    BY <2>3, <2>5
  <2>6. CASE Jobs({Do("error", r)}) /\ UNCHANGED <<client, start, calls, life, atServer>>
    BY <2>3, <2>6, JobFacts DEF Jobs, start
  <2>7. CASE (\E p \in Proc : Fresh(p) /\ Spawned(p)) /\ waiting' = {r} /\ UNCHANGED jobs
    <3>1. PICK p \in Proc : Fresh(p) /\ Spawned(p)
      BY <2>7
    <3>2. Hello(p) \in Request /\ Hello(p).win = 0 /\ Hello(p).id = p
      BY RequestFacts
    <3>3. life' \in {[life EXCEPT ![p] = "running"], [life EXCEPT ![p] = "failed"]}
      BY <3>1 DEF Spawned
    <3>4. Made(Hello(p))'
      BY <3>2, <3>3 DEF Made, TypeOK
    <3>5. /\ \A q \in Proc : q # p => atServer'[q] = atServer[q]
          /\ atServer'[p] \subseteq atServer[p] \cup {Hello(p)}
      BY <3>1 DEF Spawned, TypeOK
    <3>6. AllMade'
      <4>1. \A x \in {r, Hello(p)} : Made(x)'
        BY <2>1, <3>4
      <4>2. {r, Hello(p)} \in SUBSET Request
        BY <3>2
      <4>3. \A q \in Proc : atServer'[q] \subseteq atServer[q] \cup {r, Hello(p)}
        BY <3>5
      <4> QED
        BY <1>0, <1>m, <2>2, <2>7, <4>1, <4>2, <4>3, AllMadeStep
    <3>7. AtHome'
      <4>1. \A q \in Proc : \A x \in atServer'[q] : x.win = 0 => x.id = q
        BY <1>0, <3>2, <3>5 DEF AtHome
      <4>2. ASSUME buffer # None, buffer.win = 0 PROVE buffer \notin atServer'[buffer.id]
        <5>1. buffer \in Request /\ buffer.id \in Proc
          BY <4>2, RequestFacts DEF TypeOK
        <5>2. life[buffer.id] # "none"
          BY <1>0, <4>2 DEF AllMade, Made
        <5>3. buffer.id # p
          BY <3>1, <5>2 DEF Fresh
        <5> QED
          BY <1>0, <3>5, <4>2, <5>1, <5>3 DEF AtHome
      <4> QED
        BY <2>2, <4>1, <4>2 DEF AtHome
    <3> QED
      BY <2>2, <3>6, <3>7 DEF Origins
  <2> QED
    BY <1>1, <2>0, <2>4, <2>5, <2>6, <2>7 DEF Ask
<1>2. ASSUME UNCHANGED <<waiting, atServer, foreign>>, buffer' = buffer \/ buffer' = None,
             \A j \in jobs' : j.how = "send" => j \in jobs \/ j.for \in waiting
      PROVE  Origins'
  <2>1. AllMade'
    BY <1>0, <1>m, <1>2, AllMadeKept
  <2>2. AtHome'
    BY <1>0, <1>2, AtHomeKept
  <2> QED
    BY <1>0, <1>m, <1>2, <2>1, <2>2, OwnSame DEF Origins
<1>3. ASSUME RejectAllPending, UNCHANGED <<waiting, atServer, foreign>>, buffer' = buffer \/ buffer' = None
      PROVE  Origins'
  <2>1. pending \in SUBSET Request
    BY DEF TypeOK
  <2>2. \A j \in jobs' : j.how = "error"
    BY <1>3, <2>1, JobFacts DEF RejectAllPending
  <2> QED
    BY <1>2, <1>3, <2>2
<1>4. ASSUME NEW p \in Proc, NEW r \in atServer[p], Line(p, r) \/ Part(p, r) PROVE Origins'
  <2>0. r \in Request /\ Made(r) /\ (r.win = 0 => r.id = p)
    BY <1>0 DEF TypeOK, AllMade, AtHome
  <2>1. /\ \A q \in Proc : atServer'[q] \subseteq atServer[q] /\ r \notin atServer'[p]
        /\ UNCHANGED waiting
    BY <1>4 DEF Line, Part, Answered, TypeOK, start
  <2>2. CASE Part(p, r)
    <3>1. buffer' = r /\ UNCHANGED <<jobs, foreign>>
      BY <2>2 DEF Part, history
    <3>2. AllMade'
      BY <1>0, <1>m, <2>1, <3>1, AllMadeKept
    <3>3. AtHome'
      BY <1>0, <2>0, <2>1, <3>1 DEF AtHome
    <3> QED
      BY <1>0, <1>m, <3>1, <3>2, <3>3, OwnSame DEF Origins
  <2>3. CASE Line(p, r)
    <3>1. buffer' = None
      BY <2>3 DEF Line
    <3>2. AtHome'
      BY <1>0, <2>1, <3>1, AtHomeKept
    <3>3. OwnResponse' /\ \A j \in jobs' : j.how = "send" => j \in jobs
      <4>1. ASSUME NEW h \in {"result", "error"}, Incoming(r, h) PROVE OwnResponse' /\ \A j \in jobs' : j.how # "send"
        <5>1. \A j \in jobs' : j.how # "send"
          BY <4>1, TakenType DEF Incoming
        <5> QED
          BY <1>0, <1>m, <2>0, <4>1, <5>1, IncomingOwn
      <4> QED
        BY <1>0, <1>m, <2>3, <4>1, OwnSame DEF Line
    <3>4. AllMade'
      BY <1>0, <1>m, <2>1, <3>1, <3>3, AllMadeKept
    <3> QED
      BY <3>2, <3>3, <3>4 DEF Origins
  <2> QED
    BY <1>4, <2>2, <2>3
<1>5. CASE Rest
  <2>1. PICK h \in {"result", "error"} : Incoming(buffer, h)
    BY <1>5 DEF Rest
  <2>2. buffer # None /\ buffer' = None /\ UNCHANGED <<atServer, waiting>>
    BY <1>5 DEF Rest, process, start
  <2>3. buffer \in Request /\ Made(buffer)
    BY <1>0, <2>2 DEF TypeOK, AllMade
  <2>4. \A j \in jobs' : j.how # "send"
    BY <2>1, TakenType DEF Incoming
  <2>5. AllMade'
    BY <1>0, <1>m, <2>2, <2>4, AllMadeKept
  <2>6. AtHome'
    BY <1>0, <2>2, AtHomeKept
  <2> QED
    BY <1>0, <1>m, <2>1, <2>3, <2>5, <2>6, IncomingOwn DEF Origins
<1>6. ASSUME NEW r \in Request, Timeout(r) PROVE Origins'
  <2>1. \A j \in jobs' : j.how = "error"
    BY <1>6, JobFacts DEF Timeout, Jobs
  <2> QED
    BY <1>2, <1>6, <2>1 DEF Timeout, start, process, history
<1>7. ASSUME NEW j \in jobs, Settle(j) PROVE Origins'
  BY <1>2, <1>7 DEF Settle, start, process
<1>8. ASSUME NEW j \in jobs, Initialized(j) PROVE Origins'
  <2>1. PICK h \in {"send", "error"} : Begin(j, h)
    BY <1>8 DEF Initialized
  <2>2. waiting' = {} /\ jobs' = (jobs \ {j}) \cup All(h, waiting) /\ UNCHANGED <<atServer, buffer, foreign>>
    BY <1>8, <2>1 DEF Begin, Initialized, process, history
  <2>3. waiting \in SUBSET Request
    BY DEF TypeOK
  <2>4. \A i \in All(h, waiting) : i.for \in waiting
    BY <2>3, JobFacts
  <2>5. AllMade'
    BY <1>0, <1>m, <2>2, <2>4, AllMadeKept
  <2>6. AtHome'
    BY <1>0, <2>2, AtHomeKept
  <2> QED
    BY <1>0, <1>m, <2>2, <2>5, <2>6, OwnSame DEF Origins
<1>9. ASSUME NEW j \in jobs, Forward(j) PROVE Origins'
  <2>1. j.how = "send" /\ jobs' = jobs \ {j} /\ UNCHANGED <<waiting, buffer, foreign>>
    BY <1>9 DEF Forward, start, history
  <2>2. j.for \in Request /\ j.for.win # 0 /\ Made(j.for)
    BY <1>0, <2>1, JobFacts DEF TypeOK, OfWindows, AllMade
  <2>3. \A p \in Proc : atServer'[p] \subseteq atServer[p] \cup {j.for}
    BY <1>9 DEF Forward, Sent, TypeOK
  <2>4. AllMade'
    <3>1. {j.for} \in SUBSET Request /\ \A x \in {j.for} : Made(x)'
      BY <1>m, <2>2
    <3> QED
      BY <1>0, <1>m, <2>1, <2>3, <3>1, AllMadeStep
  <2>5. AtHome'
    BY <1>0, <2>1, <2>2, <2>3, AtHomeStep
  <2> QED
    BY <1>0, <1>m, <2>1, <2>4, <2>5, OwnSame DEF Origins
<1>10. ASSUME NEW p \in Proc, StdinError(p) \/ Exit(p) PROVE Origins'
  BY <1>3, <1>10 DEF StdinError, Exit, Forget, start, history
<1>11. CASE Shutdown
  BY <1>3, <1>11 DEF Shutdown, Forget, start, history
<1>12. CASE Over \/ (\E w \in Window : WindowCloses(w)) \/ (\E p \in Proc : Dies(p)) \/ UNCHANGED vars
  BY <1>2, <1>12 DEF Over, WindowCloses, Dies, vars, start, process, history
<1>13. ASSUME NEW p \in Proc, NEW k \in ServerId, ServerAsks(p, k) PROVE Origins'
  <2>1. buffer' = None /\ theirs' = theirs \cup {k} /\ UNCHANGED <<atServer, waiting>>
    BY <1>13 DEF ServerAsks, process, start
  <2>2. CASE UNCHANGED <<calls, jobs, foreign>>
    BY <1>2, <2>1, <2>2
  <2>3. CASE Taken(k, "result") /\ foreign' = foreign \cup Matching(k)
    <3>1. \A j \in jobs' : j.how # "send"
      BY <2>3, TakenType
    <3>2. AllMade'
      BY <1>0, <1>m, <2>1, <3>1, AllMadeKept
    <3>3. AtHome'
      BY <1>0, <2>1, AtHomeKept
    <3>4. \A r \in foreign' : r \in foreign \/ r.id \in theirs'
      BY <2>1, <2>3 DEF Matching
    <3>5. OwnResponse'
      BY <1>0, <1>m, <3>4 DEF OwnResponse
    <3> QED
      BY <3>2, <3>3, <3>5 DEF Origins
  <2> QED
    BY <1>13, <2>2, <2>3 DEF ServerAsks
<1> QED
  BY <1>1, <1>4, <1>5, <1>6, <1>7, <1>8, <1>9, <1>10, <1>11, <1>12, <1>13 DEF Next, Run

\* A request or an initialize is answered with what is not its response only if two
\* senders chose the same id, for any number of windows, ids and processes.
THEOREM ResponsesAreOwn == Spec => []OwnResponse
<1>1. Spec => [](TypeOK /\ Held /\ Origins)
  BY InitType, NextType, InitHeld, NextHeld, InitOrigins, NextOrigins, PTL DEF Spec
<1> QED
  BY <1>1, PTL DEF Origins

-----------------------------------------------------------------------------
(* One process at a time. *)

\* The map only holds the initialize of the process the manager knows of.
Current == \A p \in Proc : Hello(p) \in pending => proc = p /\ connected

\* The process has answered the greeting, or another response was taken for its answer.
Heard(p) == Hello(p) \notin atServer[p] \/ Hello(p) \in foreign

\* So has a process whose initialize goes on with a result.
Greeted == \A j \in jobs : j.for.win = 0 /\ j.how = "result" => connected /\ proc = j.for.id /\ Heard(proc)

Known == Current /\ Greeted /\ OneProcess

LEMMA InitKnown == Init => Known
<1> SUFFICES ASSUME Init PROVE Known
  OBVIOUS
<1>1. \A p \in Proc : Hello(p) = Hello(1) => p = 1
  BY RequestFacts, AppServerAssumption DEF Proc
<1>2. \A p \in Proc : life[p] \in {"running", "dead"} => p = 1
  BY DEF Init
<1> QED
  BY <1>1, <1>2 DEF Init, Known, Current, Greeted, OneProcess

\* Steps that keep the manager's process and give processes only requests of windows.
LEMMA KnownKept ==
  ASSUME TypeOK, Known, UNCHANGED <<phase, client, life>>,
         \A p \in Proc : Hello(p) \in pending' => Hello(p) \in pending,
         \A j \in jobs' : j.for.win = 0 /\ j.how = "result" => j \in jobs,
         \A p \in Proc : Hello(p) \in atServer'[p] => Hello(p) \in atServer[p],
         foreign \subseteq foreign'
  PROVE  Known'
<1>1. \A p \in Proc : Heard(p) => Heard(p)'
  BY DEF Heard
<1>2. Current'
  BY DEF Known, Current, client
<1>3. Greeted'
  <2>1. ASSUME NEW j \in jobs', j.for.win = 0, j.how = "result"
        PROVE  connected' /\ proc' = j.for.id /\ (Hello(proc') \notin atServer'[proc'] \/ Hello(proc') \in foreign')
    <3>1. connected /\ proc = j.for.id /\ Heard(proc) /\ j.for \in Request
      BY <2>1, JobFacts DEF Known, Greeted, TypeOK
    <3>2. proc \in Proc
      BY <2>1, <3>1, RequestFacts
    <3> QED
      BY <1>1, <3>1, <3>2 DEF client, Heard
  <2> QED
    BY <2>1 DEF Greeted, Heard
<1>4. OneProcess'
  <2>1. initialized => proc \in Proc /\ connected /\ Heard(proc)
    BY DEF Known, OneProcess, Heard, TypeOK
  <2>2. initialized' => proc' # 0 /\ connected' /\ (Hello(proc') \notin atServer'[proc'] \/ Hello(proc') \in foreign')
    BY <1>1, <2>1 DEF Known, OneProcess, Heard, client, TypeOK
  <2>3. phase' \in {"boot", "run"} => \A p \in Proc : life'[p] \in {"running", "dead"} => p = proc'
    BY DEF Known, OneProcess, client
  <2> QED
    BY <2>2, <2>3 DEF OneProcess
<1> QED
  BY <1>2, <1>3, <1>4 DEF Known

\* Steps after which nothing is pending and the manager takes nothing for initialized.
LEMMA KnownRejected ==
  ASSUME TypeOK, RejectAllPending, initialized' = FALSE,
         phase' \in {"boot", "run"} => \A p \in Proc : life'[p] \in {"running", "dead"} => p = proc'
  PROVE  Known'
<1>1. pending \in SUBSET Request
  BY DEF TypeOK
<1>2. pending' = {} /\ \A j \in jobs' : j.how = "error"
  BY <1>1, JobFacts DEF RejectAllPending
<1> QED
  BY <1>2 DEF Known, Current, Greeted, OneProcess

\* What is taken for the answer to the greeting is that, or is counted as foreign.
LEMMA KnownTaken ==
  ASSUME TypeOK, Known, NEW k, NEW h \in {"result", "error"}, Taken(k, h),
         UNCHANGED <<phase, client, life>>, foreign \subseteq foreign',
         \A x \in Matching(k) : x \in foreign' \/ (x.win = 0 => x \notin atServer'[x.id]),
         \A p \in Proc : atServer'[p] \subseteq atServer[p]
  PROVE  Known'
<1>1. Matching(k) \in SUBSET Request
  BY TakenType
<1>2. /\ pending' \subseteq pending
      /\ \A j \in jobs' : j.for \in Matching(k) /\ j.how = h
  BY TakenType
<1>3. \A p \in Proc : Heard(p) => Heard(p)'
  BY <1>2 DEF Heard
<1>4. Current'
  BY <1>2 DEF Known, Current, client
<1>5. ASSUME NEW j \in jobs', j.for.win = 0, j.how = "result"
      PROVE  connected' /\ proc' = j.for.id /\ (Hello(proc') \notin atServer'[proc'] \/ Hello(proc') \in foreign')
  <2>1. j.for \in Matching(k) /\ j.for \in pending /\ j.for \in Request
    BY <1>1, <1>2 DEF Matching
  <2>2. j.for.id \in Proc /\ j.for = Hello(j.for.id)
    BY <1>5, <2>1, RequestFacts
  <2>3. connected /\ proc = j.for.id
    BY <2>1, <2>2 DEF Known, Current
  <2> QED
    BY <1>5, <2>1, <2>2, <2>3 DEF Heard, client
<1>6. OneProcess'
  <2>1. initialized => proc \in Proc /\ connected /\ Heard(proc)
    BY DEF Known, OneProcess, Heard, TypeOK
  <2>2. initialized' => proc' # 0 /\ connected' /\ (Hello(proc') \notin atServer'[proc'] \/ Hello(proc') \in foreign')
    BY <1>3, <2>1 DEF Known, OneProcess, Heard, client, TypeOK
  <2>3. phase' \in {"boot", "run"} => \A p \in Proc : life'[p] \in {"running", "dead"} => p = proc'
    BY DEF Known, OneProcess, client
  <2> QED
    BY <2>2, <2>3 DEF OneProcess
<1> QED
  BY <1>4, <1>5, <1>6 DEF Known, Greeted, Heard

LEMMA KnownIncoming ==
  ASSUME TypeOK, Known, NEW r \in Request, NEW h \in {"result", "error"}, Incoming(r, h),
         UNCHANGED <<phase, client, life>>, r.win = 0 => r \notin atServer'[r.id],
         \A p \in Proc : atServer'[p] \subseteq atServer[p]
  PROVE  Known'
<1>1. Taken(r.id, h) /\ foreign' = foreign \cup {x \in Matching(r.id) : x # r}
  BY DEF Incoming
<1>2. \A x \in Matching(r.id) : x \in foreign' \/ (x.win = 0 => x \notin atServer'[x.id])
  BY <1>1
<1> QED
  BY <1>1, <1>2, KnownTaken

LEMMA NextKnown == TypeOK /\ Held /\ Origins /\ Known /\ [Next]_vars => Known'
<1> SUFFICES ASSUME TypeOK, Held, Origins, Known, [Next]_vars PROVE Known'
  OBVIOUS
<1>0. Current /\ Greeted /\ OneProcess /\ OneGreeting /\ OfWindows /\ pending \subseteq timers /\ AtHome
  BY DEF Known, Held, Greeting, Origins
<1>1. ASSUME NEW w \in Window, NEW k \in WindowId, Ask(w, k) PROVE Known'
  <2>0. PICK r \in Request : r = Of(w, k) /\ r.win # 0
    BY RequestFacts
  <2>1. jobs = {} /\ UNCHANGED <<phase, foreign>> /\ \A p \in Proc : Hello(p) # r
    BY <1>1, <2>0, RequestFacts DEF Ask, Turn
  <2>2. CASE Ready /\ Sent(r) /\ UNCHANGED <<client, start, jobs, life>>
    <3>1. \A p \in Proc : Hello(p) \in pending' => Hello(p) \in pending
      BY <2>1, <2>2 DEF Sent, Kept
    <3>2. \A p \in Proc : Hello(p) \in atServer'[p] => Hello(p) \in atServer[p]
      BY <2>1, <2>2 DEF Sent, TypeOK
    <3> QED
      BY <2>1, <2>2, <3>1, <3>2, KnownKept
  <2>3. CASE waiting' = waiting \cup {r} /\ UNCHANGED <<client, connecting, calls, jobs, life, atServer>>
    BY <2>1, <2>3, KnownKept DEF calls
  <2>4. CASE Jobs({Do("error", r)}) /\ UNCHANGED <<client, start, calls, life, atServer>>
    <3>1. \A j \in jobs' : j.how # "result"
      BY <2>4, JobFacts DEF Jobs
    <3> QED
      BY <2>1, <2>4, <3>1, KnownKept DEF calls
  <2>5. CASE NoProcess /\ (\E p \in Proc : Fresh(p) /\ Spawned(p)) /\ UNCHANGED jobs
    <3>1. PICK p \in Proc : Spawned(p)
      BY <2>5
    <3>2. proc = 0 /\ 0 \notin Proc
      BY <2>5 DEF NoProcess, Proc
    <3>3. \A q \in Proc : Hello(q) \notin pending
      BY <1>0, <3>2 DEF Current
    <3>4. pending' = Kept(Hello(p)) \cup {Hello(p)} /\ proc' = p /\ connected' = TRUE /\ initialized' = FALSE
      BY <3>1 DEF Spawned
    <3>5. \A q \in Proc : Hello(q) \in pending' => q = p
      <4>1. ASSUME NEW q \in Proc, Hello(q) \in pending' PROVE q = p
        <5>1. Hello(q) = Hello(p)
          BY <3>3, <3>4, <4>1 DEF Kept
        <5> QED
          BY <5>1, RequestFacts
      <4> QED
        BY <4>1
    <3>6. \A q \in Proc : q # p => life'[q] = life[q]
      BY <3>1 DEF Spawned, TypeOK
    <3>7. phase \in {"boot", "run"} => \A q \in Proc : life[q] \notin {"running", "dead"}
      BY <1>0, <3>2 DEF OneProcess
    <3>8. phase' \in {"boot", "run"} => \A q \in Proc : life'[q] \in {"running", "dead"} => q = proc'
      BY <2>1, <3>4, <3>6, <3>7
    <3> QED
      BY <2>1, <2>5, <3>4, <3>5, <3>8 DEF Known, Current, Greeted, OneProcess
  <2> QED
    BY <1>1, <2>0, <2>2, <2>3, <2>4, <2>5 DEF Ask
<1>2. ASSUME NEW p \in Proc, StdinError(p) PROVE Known'
  BY <1>0, <1>2, KnownRejected DEF StdinError, OneProcess
<1>3. ASSUME NEW p \in Proc, Dies(p) PROVE Known'
  <2>1. \A q \in Proc : life'[q] \in {"running", "dead"} => life[q] \in {"running", "dead"}
    BY <1>3 DEF Dies, TypeOK
  <2>2. UNCHANGED <<phase, client, calls, jobs, atServer, foreign>>
    BY <1>3 DEF Dies, history
  <2>3. OneProcess'
    BY <1>0, <2>1, <2>2 DEF OneProcess, client
  <2> QED
    BY <1>0, <2>2, <2>3 DEF Known, Current, Greeted, Heard, client, calls
<1>4. ASSUME NEW p \in Proc, Exit(p) PROVE Known'
  <2>1. phase \in {"boot", "run"} => \A q \in Proc : life'[q] \notin {"running", "dead"}
    BY <1>0, <1>4 DEF Exit, OneProcess, TypeOK
  <2> QED
    BY <1>4, <2>1, KnownRejected DEF Exit, Forget
<1>5. ASSUME NEW p \in Proc, NEW r \in atServer[p], Line(p, r) \/ Part(p, r) PROVE Known'
  <2>0. r \in Request /\ (r.win = 0 => r.id = p)
    BY <1>0 DEF TypeOK, AtHome
  <2>1. /\ \A q \in Proc : atServer'[q] \subseteq atServer[q] /\ r \notin atServer'[p]
        /\ UNCHANGED <<phase, client, life>>
    BY <1>5 DEF Line, Part, Answered, TypeOK
  <2>2. CASE UNCHANGED <<calls, jobs, foreign>>
    BY <2>1, <2>2, KnownKept DEF calls
  <2>3. CASE \E h \in {"result", "error"} : Incoming(r, h)
    BY <2>0, <2>1, <2>3, KnownIncoming
  <2> QED
    BY <1>5, <2>2, <2>3 DEF Line, Part, history
<1>6. CASE Rest
  <2>1. PICK h \in {"result", "error"} : Incoming(buffer, h)
    BY <1>6 DEF Rest
  <2>2. buffer # None /\ UNCHANGED <<phase, client, life, atServer>>
    BY <1>6 DEF Rest, process
  <2>3. buffer \in Request /\ (buffer.win = 0 => buffer \notin atServer'[buffer.id])
    BY <1>0, <2>2 DEF TypeOK, AtHome
  <2> QED
    BY <2>1, <2>2, <2>3, KnownIncoming
<1>7. CASE Shutdown
  BY <1>7, KnownRejected DEF Shutdown, Forget
<1>8. CASE Over
  BY <1>0, <1>8 DEF Over, client, calls, process, history, Known, Current, Greeted, OneProcess, Heard
<1>9. ASSUME NEW r \in Request, Timeout(r) PROVE Known'
  <2>1. \A j \in jobs' : j.how # "result"
    BY <1>9, JobFacts DEF Timeout, Jobs
  <2> QED
    BY <1>9, <2>1, KnownKept DEF Timeout, process, history
<1>10. ASSUME NEW j \in jobs, Settle(j) PROVE Known'
  BY <1>10, KnownKept DEF Settle, calls, process
<1>11. ASSUME NEW j \in jobs, Forward(j) PROVE Known'
  <2>1. j.how = "send" /\ jobs' = jobs \ {j} /\ UNCHANGED <<phase, client, life, foreign>> /\ Sent(j.for)
    BY <1>11 DEF Forward, history
  <2>2. \A p \in Proc : Hello(p) # j.for
    BY <1>0, <2>1, RequestFacts DEF OfWindows
  <2>3. \A p \in Proc : Hello(p) \in pending' => Hello(p) \in pending
    BY <2>1, <2>2 DEF Sent, Kept
  <2>4. \A p \in Proc : Hello(p) \in atServer'[p] => Hello(p) \in atServer[p]
    BY <2>1, <2>2 DEF Sent, TypeOK
  <2> QED
    BY <2>1, <2>3, <2>4, KnownKept
<1>12. ASSUME NEW j \in jobs, Initialized(j) PROVE Known'
  <2>1. PICK h \in {"send", "error"} : Begin(j, h)
    BY <1>12 DEF Initialized
  <2>2. /\ j.for.win = 0 /\ UNCHANGED <<proc, connected, calls, life, atServer, foreign>>
        /\ initialized' = initialized \/ (initialized' = TRUE /\ j.how = "result")
    BY <1>12 DEF Initialized, process, history
  <2>3. waiting \in SUBSET Request /\ j.for \in Request
    BY JobFacts DEF TypeOK
  <2>4. \A i \in jobs' : i \in jobs \/ i.how # "result"
    BY <2>1, <2>3, JobFacts DEF Begin
  <2>5. phase' \in {"boot", "run"} => phase \in {"boot", "run"}
    BY <2>1 DEF Begin
  <2>6. j.how = "result" => connected /\ proc = j.for.id /\ Heard(proc) /\ proc \in Proc
    BY <1>0, <2>2, <2>3, RequestFacts DEF Greeted
  <2>7. initialized' => proc \in Proc /\ connected /\ Heard(proc)
    BY <1>0, <2>2, <2>6 DEF OneProcess, Heard, TypeOK
  <2>8. OneProcess'
    BY <1>0, <2>2, <2>5, <2>7 DEF OneProcess, Heard, Proc
  <2> QED
    BY <1>0, <2>2, <2>4, <2>8 DEF Known, Current, Greeted, Heard, calls
<1>13. CASE (\E w \in Window : WindowCloses(w)) \/ UNCHANGED vars
  BY <1>13, KnownKept DEF WindowCloses, vars, calls, process, history
<1>14. ASSUME NEW p \in Proc, NEW k \in ServerId, ServerAsks(p, k) PROVE Known'
  <2>1. UNCHANGED <<phase, client, life, atServer>>
    BY <1>14 DEF ServerAsks, process
  <2>2. CASE UNCHANGED <<calls, jobs, foreign>>
    BY <2>1, <2>2, KnownKept DEF calls
  <2>3. CASE Taken(k, "result") /\ foreign' = foreign \cup Matching(k)
    BY <2>1, <2>3, KnownTaken
  <2> QED
    BY <1>14, <2>2, <2>3 DEF ServerAsks
<1> QED
  BY <1>1, <1>2, <1>3, <1>4, <1>5, <1>6, <1>7, <1>8, <1>9, <1>10, <1>11, <1>12, <1>13, <1>14 DEF Next, Run

\* Before the shutdown there is at most one app server, the one the manager knows of, and
\* it counts as initialized only once it has answered the greeting.
THEOREM AlwaysOneProcess == Spec => []OneProcess
<1>1. Spec => [](TypeOK /\ Held /\ Origins /\ Known)
  BY InitType, NextType, InitHeld, NextHeld, InitOrigins, NextOrigins, InitKnown, NextKnown, PTL DEF Spec
<1> QED
  BY <1>1, PTL DEF Known

-----------------------------------------------------------------------------
(* A window's request is answered once. *)

\* A request that is to be settled was made, is not answered yet, and is held once.
HeldOnce ==
  /\ \A r \in Request : r.win # 0 /\ Outstanding(r) => r.id \in used[r.win] /\ r.id \notin answers[r.win]
  /\ \A r \in waiting : r \notin timers /\ \A j \in jobs : j.for # r
  /\ \A j \in jobs : j.for \notin timers
  /\ \A i, j \in jobs : i.for = j.for => i = j
  /\ \A w \in Window : answers[w] \subseteq used[w]

LEMMA InitHeldOnce == Init => HeldOnce
<1> SUFFICES ASSUME Init PROVE HeldOnce
  OBVIOUS
<1>1. Hello(1).win = 0
  BY DEF Hello, Of
<1> QED
  BY <1>1 DEF Init, HeldOnce, Outstanding

\* Nothing new is to be settled.
LEMMA HeldOnceLess ==
  ASSUME HeldOnce, \A r \in Request : r.win # 0 /\ Outstanding(r)' => Outstanding(r), UNCHANGED <<used, answers>>,
         \A r \in waiting' : r \notin timers' /\ \A j \in jobs' : j.for # r,
         \A j \in jobs' : j.for \notin timers',
         \A i, j \in jobs' : i.for = j.for => i = j
  PROVE  HeldOnce'
BY DEF HeldOnce

LEMMA HeldOnceSame ==
  ASSUME HeldOnce, UNCHANGED <<waiting, timers, jobs, used, answers>>
  PROVE  HeldOnce'
BY DEF HeldOnce, Outstanding

\* Requests pass from the timers to the continuations.
LEMMA HeldOnceMoved ==
  ASSUME TypeOK, HeldOnce, jobs = {}, NEW M \in SUBSET timers, NEW h \in {"result", "error"},
         timers' = timers \ M, jobs' = All(h, M), UNCHANGED <<waiting, used, answers>>
  PROVE  HeldOnce'
<1>1. M \in SUBSET Request
  BY DEF TypeOK
<1>2. \A j \in jobs' : j.for \in M
  BY <1>1, JobFacts
<1>3. \A i, j \in jobs' : i.for = j.for => i = j
  BY <1>1, JobFacts DEF All
<1>4. \A r \in Request : r.win # 0 /\ Outstanding(r)' => Outstanding(r)
  BY <1>2 DEF Outstanding
<1>5. \A r \in waiting' : r \notin timers' /\ \A j \in jobs' : j.for # r
  BY <1>2 DEF HeldOnce
<1> QED
  BY <1>2, <1>3, <1>4, <1>5, HeldOnceLess

\* A window's new request is held in one place.
LEMMA HeldOnceNew ==
  ASSUME TypeOK, HeldOnce, jobs = {}, NEW w \in Window, NEW k \in WindowId, k \notin used[w],
         used' = [used EXCEPT ![w] = @ \cup {k}], UNCHANGED answers,
         \A r \in Request : r.win # 0 /\ r # Of(w, k) /\ Outstanding(r)' => Outstanding(r),
         \A r \in waiting' : r \notin timers' /\ \A j \in jobs' : j.for # r,
         \A j \in jobs' : j.for \notin timers',
         \A i, j \in jobs' : i.for = j.for => i = j
  PROVE  HeldOnce'
<1>1. Of(w, k).win = w /\ Of(w, k).id = k
  BY DEF Of
<1>2. \A v \in Window : used'[v] = IF v = w THEN used[w] \cup {k} ELSE used[v]
  BY DEF TypeOK
<1>3. k \notin answers[w]
  BY DEF HeldOnce
<1>4. \A r \in Request : r.win # 0 /\ Outstanding(r)' => r.id \in used'[r.win] /\ r.id \notin answers[r.win]
  BY <1>1, <1>2, <1>3, RequestFacts DEF HeldOnce
<1>5. \A v \in Window : answers'[v] \subseteq used'[v]
  BY <1>2 DEF HeldOnce
<1> QED
  BY <1>4, <1>5 DEF HeldOnce

LEMMA NextHeldOnce == TypeOK /\ Held /\ HeldOnce /\ [Next]_vars => HeldOnce'
<1> SUFFICES ASSUME TypeOK, Held, HeldOnce, [Next]_vars PROVE HeldOnce'
  OBVIOUS
<1>0. pending \subseteq timers /\ OfWindows
  BY DEF Held, Greeting
<1>1. ASSUME NEW w \in Window, NEW k \in WindowId, Ask(w, k) PROVE HeldOnce'
  <2>1. /\ jobs = {} /\ k \notin used[w] /\ UNCHANGED answers
        /\ used' = [used EXCEPT ![w] = @ \cup {k}]
    BY <1>1 DEF Ask, Turn
  <2>2. PICK r \in Request : r = Of(w, k) /\ r.win # 0 /\ ~Outstanding(r)
    <3>1. Of(w, k) \in Request /\ Of(w, k).win = w /\ Of(w, k).id = k /\ w # 0
      BY RequestFacts
    <3> QED
      BY <2>1, <3>1 DEF HeldOnce
  <2>3. \A q \in Proc : Hello(q) # r /\ Hello(q).win = 0 /\ Hello(q) \notin waiting
    BY <1>0, <2>2, RequestFacts DEF OfWindows
  <2>4. r \notin waiting /\ r \notin timers /\ \A q \in waiting : q \notin timers
    BY <2>2 DEF Outstanding, HeldOnce
  <2>5. CASE Sent(r) /\ UNCHANGED <<start, jobs>>
    <3>1. timers' = timers \cup {r} /\ waiting' = waiting /\ jobs' = {}
      BY <2>1, <2>5 DEF Sent, TimerSet, start
    <3>2. \A q \in Request : q.win # 0 /\ q # r /\ Outstanding(q)' => Outstanding(q)
      BY <3>1 DEF Outstanding
    <3> QED
      BY <2>1, <2>2, <2>4, <3>1, <3>2, HeldOnceNew
  <2>6. CASE waiting' = waiting \cup {r} /\ UNCHANGED <<calls, jobs>>
    <3>1. timers' = timers /\ jobs' = {}
      BY <2>1, <2>6 DEF calls
    <3>2. \A q \in Request : q.win # 0 /\ q # r /\ Outstanding(q)' => Outstanding(q)
      BY <2>6, <3>1 DEF Outstanding
    <3> QED
      BY <2>1, <2>2, <2>4, <2>6, <3>1, <3>2, HeldOnceNew
  <2>7. CASE Jobs({Do("error", r)}) /\ UNCHANGED <<start, calls>>
    <3>1. timers' = timers /\ waiting' = waiting /\ jobs' = {Do("error", r)} /\ Do("error", r).for = r
      BY <2>7 DEF Jobs, start, calls, Do
    <3>2. \A q \in Request : q.win # 0 /\ q # r /\ Outstanding(q)' => Outstanding(q)
      BY <3>1 DEF Outstanding
    <3> QED
      BY <2>1, <2>2, <2>4, <3>1, <3>2, HeldOnceNew
  <2>8. CASE (\E p \in Proc : Spawned(p)) /\ waiting' = {r} /\ UNCHANGED jobs
    <3>1. PICK p \in Proc : timers' = timers \cup {Hello(p)}
      BY <2>8 DEF Spawned, TimerSet
    <3>2. \A q \in Request : q.win # 0 /\ q # r /\ Outstanding(q)' => Outstanding(q)
      BY <2>1, <2>3, <2>8, <3>1 DEF Outstanding
    <3> QED
      BY <2>1, <2>2, <2>3, <2>4, <2>8, <3>1, <3>2, HeldOnceNew
  <2> QED
    BY <1>1, <2>2, <2>5, <2>6, <2>7, <2>8 DEF Ask
<1>2. ASSUME RejectAllPending, jobs = {}, UNCHANGED <<waiting, used, answers>> PROVE HeldOnce'
  BY <1>0, <1>2, HeldOnceMoved DEF RejectAllPending
<1>3. ASSUME NEW k, NEW h \in {"result", "error"}, Taken(k, h), jobs = {}, UNCHANGED <<waiting, used, answers>>
      PROVE  HeldOnce'
  <2>1. Matching(k) \in SUBSET timers
    BY <1>0 DEF Matching
  <2> QED
    BY <1>3, <2>1, HeldOnceMoved DEF Taken
<1>4. ASSUME NEW p \in Proc, StdinError(p) \/ Exit(p) PROVE HeldOnce'
  BY <1>2, <1>4 DEF StdinError, Exit, Forget, Turn, start, history
<1>5. ASSUME NEW p \in Proc, NEW r \in atServer[p], Line(p, r) \/ Part(p, r) PROVE HeldOnce'
  BY <1>3, <1>5, HeldOnceSame DEF Line, Part, Incoming, Turn, start, calls, history
<1>6. CASE Rest \/ \E p \in Proc, k \in ServerId : ServerAsks(p, k)
  BY <1>3, <1>6, HeldOnceSame DEF Rest, ServerAsks, Incoming, Turn, start, calls
<1>7. CASE Shutdown
  BY <1>2, <1>7 DEF Shutdown, Forget, Turn, start, history
<1>8. ASSUME NEW r \in Request, Timeout(r) PROVE HeldOnce'
  <2>1. jobs' = All("error", {r}) /\ timers' = timers \ {r} /\ {r} \in SUBSET timers /\ jobs = {}
        /\ UNCHANGED <<waiting, used, answers>>
    BY <1>8 DEF Timeout, Jobs, All, Due, Turn, start, history
  <2> QED
    BY <2>1, HeldOnceMoved
<1>9. ASSUME NEW j \in jobs, Settle(j) PROVE HeldOnce'
  <2>1. jobs' = jobs \ {j} /\ j.for.win # 0 /\ UNCHANGED <<waiting, timers, used>>
    BY <1>9 DEF Settle, start, calls
  <2>2. j.for \in Request /\ j.for.win \in Window /\ Outstanding(j.for)
    BY <2>1, JobFacts, RequestFacts DEF TypeOK, Outstanding
  <2>3. \A v \in Window : answers'[v] = answers[v] \/ (v = j.for.win /\ answers'[v] = answers[v] \cup {j.for.id})
    BY <1>9, <2>2 DEF Settle, Reply, TypeOK
  <2>4. ~Outstanding(j.for)' /\ \A r \in Request : Outstanding(r)' => Outstanding(r)
    <3>1. \A i \in jobs' : i.for # j.for /\ i \in jobs
      BY <2>1 DEF HeldOnce
    <3>2. j.for \notin waiting /\ j.for \notin timers
      BY DEF HeldOnce
    <3> QED
      BY <2>1, <3>1, <3>2 DEF Outstanding
  <2>5. \A r \in Request : r.win # 0 /\ Outstanding(r)' => r.id \in used'[r.win] /\ r.id \notin answers'[r.win]
    <3>1. SUFFICES ASSUME NEW r \in Request, r.win # 0, Outstanding(r)'
                   PROVE  r.id \in used'[r.win] /\ r.id \notin answers'[r.win]
      OBVIOUS
    <3>2. r.win \in Window /\ r # j.for /\ Outstanding(r)
      BY <2>4, <3>1, RequestFacts
    <3>3. r.id = j.for.id => r.win # j.for.win
      BY <2>1, <2>2, <3>1, <3>2 DEF Request
    <3> QED
      BY <2>1, <2>3, <3>1, <3>2, <3>3 DEF HeldOnce
  <2>6. \A v \in Window : answers'[v] \subseteq used'[v]
    BY <2>1, <2>2, <2>3 DEF HeldOnce
  <2> QED
    BY <2>1, <2>5, <2>6 DEF HeldOnce
<1>10. ASSUME NEW j \in jobs, Initialized(j) PROVE HeldOnce'
  <2>1. PICK h \in {"send", "error"} : Begin(j, h)
    BY <1>10 DEF Initialized
  <2>2. /\ waiting' = {} /\ jobs' = (jobs \ {j}) \cup All(h, waiting) /\ UNCHANGED <<timers, used, answers>>
    BY <1>10, <2>1 DEF Begin, Initialized, calls, history
  <2>3. waiting \in SUBSET Request
    BY DEF TypeOK
  <2>4. \A i \in All(h, waiting) : i.for \in waiting
    BY <2>3, JobFacts
  <2>5. \A i, l \in All(h, waiting) : i.for = l.for => i = l
    BY <2>3, JobFacts DEF All
  <2>6. \A r \in Request : Outstanding(r)' => Outstanding(r)
    BY <2>2, <2>4 DEF Outstanding
  <2>7. \A i \in jobs' : i.for \notin timers'
    BY <2>2, <2>4 DEF HeldOnce
  <2>8. \A i, l \in jobs' : i.for = l.for => i = l
    BY <2>2, <2>4, <2>5 DEF HeldOnce
  <2> QED
    BY <2>2, <2>6, <2>7, <2>8, HeldOnceLess
<1>11. ASSUME NEW j \in jobs, Forward(j) PROVE HeldOnce'
  <2>1. jobs' = jobs \ {j} /\ timers' = timers \cup {j.for} /\ UNCHANGED <<waiting, used, answers>>
    BY <1>11 DEF Forward, Sent, TimerSet, start, history
  <2>2. \A r \in Request : Outstanding(r)' => Outstanding(r)
    BY <2>1 DEF Outstanding
  <2>3. \A i \in jobs' : i.for \notin timers'
    BY <2>1 DEF HeldOnce
  <2>4. \A r \in waiting' : r \notin timers' /\ \A i \in jobs' : i.for # r
    BY <2>1 DEF HeldOnce
  <2>5. \A i, l \in jobs' : i.for = l.for => i = l
    BY <2>1 DEF HeldOnce
  <2> QED
    BY <2>1, <2>2, <2>3, <2>4, <2>5, HeldOnceLess
<1>12. CASE Over \/ (\E w \in Window : WindowCloses(w)) \/ (\E p \in Proc : Dies(p)) \/ UNCHANGED vars
  BY <1>12, HeldOnceSame DEF Over, WindowCloses, Dies, vars, start, calls, history
<1> QED
  BY <1>1, <1>4, <1>5, <1>6, <1>7, <1>8, <1>9, <1>10, <1>11, <1>12 DEF Next, Run

\* The refinement mapping of Calls.
Statuses == [w \in Window |-> [k \in WindowId |-> Status(w, k)]]

LEMMA StatusNow ==
  ASSUME TypeOK, HeldOnce, NEW w \in Window, NEW k \in WindowId
  PROVE  /\ k \in answers[w] => Statuses[w][k] = "answered"
         /\ k \notin answers[w] /\ w \in Gone => Statuses[w][k] = "closed"
         /\ k \notin answers[w] /\ w \notin Gone /\ k \in used[w] => Statuses[w][k] = "open"
         /\ k \notin answers[w] /\ w \notin Gone /\ k \notin used[w] => Statuses[w][k] = "unused"
<1>1. Statuses[w][k] = Status(w, k)
  BY DEF Statuses
<1>2. k \in answers[w] => ~Outstanding(Of(w, k))
  BY RequestFacts DEF HeldOnce
<1>3. k \in answers[w] => Statuses[w][k] = "answered"
  BY <1>1, <1>2 DEF Status
<1>4. k \notin answers[w] /\ w \in Gone => Statuses[w][k] = "closed"
  BY <1>1 DEF Status
<1>5. k \notin answers[w] /\ w \notin Gone /\ k \in used[w] => Statuses[w][k] = "open"
  BY <1>1 DEF Status
<1>6. k \notin answers[w] /\ w \notin Gone /\ k \notin used[w] => Statuses[w][k] = "unused"
  BY <1>1 DEF Status
<1> QED
  BY <1>3, <1>4, <1>5, <1>6

LEMMA StatusNext ==
  ASSUME TypeOK', HeldOnce', NEW w \in Window, NEW k \in WindowId
  PROVE  /\ k \in answers'[w] => Statuses'[w][k] = "answered"
         /\ k \notin answers'[w] /\ w \in Gone' => Statuses'[w][k] = "closed"
         /\ k \notin answers'[w] /\ w \notin Gone' /\ k \in used'[w] => Statuses'[w][k] = "open"
         /\ k \notin answers'[w] /\ w \notin Gone' /\ k \notin used'[w] => Statuses'[w][k] = "unused"
<1>1. Statuses'[w][k] = Status(w, k)'
  BY DEF Statuses
<1>2. k \in answers'[w] => ~Outstanding(Of(w, k))'
  BY RequestFacts DEF HeldOnce
<1>3. k \in answers'[w] => Statuses'[w][k] = "answered"
  BY <1>1, <1>2 DEF Status
<1>4. k \notin answers'[w] /\ w \in Gone' => Statuses'[w][k] = "closed"
  BY <1>1 DEF Status
<1>5. k \notin answers'[w] /\ w \notin Gone' /\ k \in used'[w] => Statuses'[w][k] = "open"
  BY <1>1 DEF Status
<1>6. k \notin answers'[w] /\ w \notin Gone' /\ k \notin used'[w] => Statuses'[w][k] = "unused"
  BY <1>1 DEF Status
<1> QED
  BY <1>3, <1>4, <1>5, <1>6

LEMMA StatusesIs ==
  /\ Statuses = [w \in Window |-> [k \in WindowId |-> Statuses[w][k]]]
  /\ Statuses' = [w \in Window |-> [k \in WindowId |-> Statuses'[w][k]]]
BY DEF Statuses

\* A step that changes no status and ends no window.
LEMMA Stutters ==
  ASSUME \A w \in Window, k \in WindowId : Statuses'[w][k] = Statuses[w][k], Gone' = Gone
  PROVE  [Calls!Next]_(Calls!vars)
<1>1. Statuses' = Statuses
  BY StatusesIs
<1> QED
  BY <1>1 DEF Calls!vars, Statuses

LEMMA InitImplements == Init => Calls!Init
<1> SUFFICES ASSUME Init PROVE Calls!Init
  OBVIOUS
<1>1. Gone = {} /\ \A w \in Window : answers[w] = {} /\ used[w] = {}
  BY DEF Init, Gone
<1>2. \A w \in Window, k \in WindowId : Status(w, k) = "unused"
  BY <1>1 DEF Status
<1> QED
  BY <1>1, <1>2 DEF Calls!Init

\* A window asks.
LEMMA AskImplements ==
  ASSUME TypeOK, TypeOK', HeldOnce, HeldOnce', NEW w \in Window, NEW k \in WindowId, Ask(w, k)
  PROVE  [Calls!Next]_(Calls!vars)
<1>1. /\ k \notin used[w] /\ UNCHANGED answers /\ Gone' = Gone
      /\ \A v \in Window : used'[v] = IF v = w THEN used[w] \cup {k} ELSE used[v]
  BY DEF Ask, Gone, TypeOK
<1>2. k \notin answers[w]
  BY <1>1 DEF HeldOnce
<1>3. \A v \in Window, i \in WindowId : (v # w \/ i # k) => Statuses'[v][i] = Statuses[v][i]
  BY <1>1, StatusNow, StatusNext
<1>4. CASE w \in Gone
  <2>1. Statuses'[w][k] = Statuses[w][k]
    BY <1>1, <1>2, <1>4, StatusNow, StatusNext
  <2> QED
    BY <1>1, <1>3, <2>1, Stutters
<1>5. CASE w \notin Gone
  <2>1. Statuses[w][k] = "unused" /\ Statuses'[w][k] = "open"
    BY <1>1, <1>2, <1>5, StatusNow, StatusNext
  <2>2. \A v \in Window, i \in WindowId : Statuses'[v][i] = IF v = w /\ i = k THEN "open" ELSE Statuses[v][i]
    BY <1>3, <2>1
  <2>3. Statuses' = [v \in Window |-> [i \in WindowId |-> IF v = w /\ i = k THEN "open" ELSE Statuses[v][i]]]
    BY <2>2, StatusesIs
  <2>4. Statuses' = [Statuses EXCEPT ![w][k] = "open"]
    BY <2>3, StatusesIs
  <2>5. Calls!Open(w, k)
    BY <1>1, <1>5, <2>1, <2>4 DEF Calls!Open, Statuses
  <2> QED
    BY <2>5 DEF Calls!Next
<1> QED
  BY <1>4, <1>5

\* The answer is written to an open window.
LEMMA SettleImplements ==
  ASSUME TypeOK, TypeOK', HeldOnce, HeldOnce', NEW j \in jobs, Settle(j)
  PROVE  [Calls!Next]_(Calls!vars)
<1>0. PICK w \in Window, k \in WindowId : w = j.for.win /\ k = j.for.id
  BY RequestFacts, JobFacts DEF Settle, TypeOK
<1>1. UNCHANGED used /\ Gone' = Gone
  BY DEF Settle, Gone
<1>2. k \in used[w] /\ k \notin answers[w]
  <2>1. j.for \in Request /\ j.for.win # 0 /\ Outstanding(j.for)
    BY JobFacts DEF Settle, TypeOK, Outstanding
  <2> QED
    BY <1>0, <2>1 DEF HeldOnce
<1>3. CASE w \in Gone
  <2>1. UNCHANGED answers
    BY <1>0, <1>3 DEF Settle, Reply, Gone
  <2>2. \A v \in Window, i \in WindowId : Statuses'[v][i] = Statuses[v][i]
    BY <1>1, <2>1, StatusNow, StatusNext
  <2> QED
    BY <1>1, <2>2, Stutters
<1>4. CASE w \notin Gone
  <2>1. \A v \in Window : answers'[v] = IF v = w THEN answers[w] \cup {k} ELSE answers[v]
    BY <1>0, <1>4 DEF Settle, Reply, Gone, TypeOK
  <2>2. Statuses[w][k] = "open"
    BY <1>2, <1>4, StatusNow
  <2>3. \A v \in Window, i \in WindowId : Statuses'[v][i] = IF v = w /\ i = k THEN "answered" ELSE Statuses[v][i]
    BY <1>1, <2>1, StatusNow, StatusNext
  <2>4. Statuses' = [v \in Window |-> [i \in WindowId |-> IF v = w /\ i = k THEN "answered" ELSE Statuses[v][i]]]
    BY <2>3, StatusesIs
  <2>5. Statuses' = [Statuses EXCEPT ![w] = [i \in WindowId |->
          IF i \in {k} \/ @[i] = "answered" THEN "answered" ELSE IF FALSE THEN "closed" ELSE @[i]]]
    BY <2>4, StatusesIs
  <2>6. Calls!Settle(w, {k}, FALSE)
    BY <1>1, <1>4, <2>2, <2>5 DEF Calls!Settle, Statuses
  <2>7. {k} \in SUBSET WindowId /\ FALSE \in BOOLEAN
    OBVIOUS
  <2> QED
    BY <2>6, <2>7 DEF Calls!Next
<1> QED
  BY <1>3, <1>4

\* Windows end.
LEMMA GoneImplements ==
  ASSUME TypeOK, TypeOK', HeldOnce, HeldOnce', UNCHANGED <<used, answers>>, Gone \subseteq Gone', Gone' \subseteq Window
  PROVE  [Calls!Next]_(Calls!vars)
<1> DEFINE G == Gone' \ Gone
<1>1. Gone' = Gone \cup G /\ G \cap Gone = {} /\ G \in SUBSET Window
  OBVIOUS
<1>2. \A w \in Window, k \in WindowId :
        Statuses'[w][k] = IF w \in G /\ Statuses[w][k] # "answered" THEN "closed" ELSE Statuses[w][k]
  BY <1>1, StatusNow, StatusNext
<1>3. CASE G = {}
  BY <1>1, <1>2, <1>3, Stutters
<1>4. CASE G # {}
  <2>1. Statuses' = [w \in Window |-> [k \in WindowId |->
          IF w \in G /\ Statuses[w][k] # "answered" THEN "closed" ELSE Statuses[w][k]]]
    BY <1>2, StatusesIs
  <2> HIDE DEF G
  <2>2. Calls!Close(G)
    BY <1>1, <1>4, <2>1 DEF Calls!Close, Statuses
  <2> QED
    BY <1>1, <2>2 DEF Calls!Next
<1> QED
  BY <1>3, <1>4

LEMMA NextImplements ==
  TypeOK /\ TypeOK' /\ HeldOnce /\ HeldOnce' /\ [Next]_vars => [Calls!Next]_(Calls!vars)
<1> SUFFICES ASSUME TypeOK, TypeOK', HeldOnce, HeldOnce', [Next]_vars PROVE [Calls!Next]_(Calls!vars)
  OBVIOUS
<1>1. ASSUME UNCHANGED <<window, used, answers>> PROVE [Calls!Next]_(Calls!vars)
  BY <1>1, GoneImplements DEF Gone
<1>2. ASSUME NEW w \in Window, NEW k \in WindowId, Ask(w, k) PROVE [Calls!Next]_(Calls!vars)
  BY <1>2, AskImplements
<1>3. ASSUME NEW j \in jobs, Settle(j) PROVE [Calls!Next]_(Calls!vars)
  BY <1>3, SettleImplements
<1>4. ASSUME (\E w \in Window : WindowCloses(w)) \/ Shutdown PROVE [Calls!Next]_(Calls!vars)
  <2>1. UNCHANGED <<used, answers>> /\ Gone \subseteq Gone' /\ Gone' \subseteq Window
    BY <1>4 DEF WindowCloses, Shutdown, history, Gone, TypeOK
  <2> QED
    BY <2>1, GoneImplements
<1>5. ASSUME NEW p \in Proc,
             StdinError(p) \/ Dies(p) \/ Exit(p) \/ \E r \in atServer[p] : Line(p, r) \/ Part(p, r)
      PROVE  [Calls!Next]_(Calls!vars)
  BY <1>1, <1>5 DEF StdinError, Dies, Exit, Line, Part, history
<1>6. ASSUME \/ Rest \/ Over \/ (\E r \in Request : Timeout(r)) \/ UNCHANGED vars
             \/ \E p \in Proc, k \in ServerId : ServerAsks(p, k)
      PROVE  [Calls!Next]_(Calls!vars)
  BY <1>1, <1>6 DEF Rest, Over, Timeout, ServerAsks, vars, history
<1>7. ASSUME NEW j \in jobs, Initialized(j) \/ Forward(j) PROVE [Calls!Next]_(Calls!vars)
  BY <1>1, <1>7 DEF Initialized, Forward, history
<1> QED
  BY <1>2, <1>3, <1>4, <1>5, <1>6, <1>7 DEF Next, Run

\* The client implements CallService but for its liveness: whatever happens to its
\* processes, a window's request is answered at most once, and not after the window has
\* gone; once it is answered no timer, start or continuation is left to answer it again.
THEOREM ClientImplementsCalls == Spec => Calls!Init /\ [][Calls!Next]_(Calls!vars)
<1>1. Init => Calls!Init
  BY InitImplements
<1>2. Spec => [](TypeOK /\ Held /\ HeldOnce)
  BY InitType, NextType, InitHeld, NextHeld, InitHeldOnce, NextHeldOnce, PTL DEF Spec
<1> QED
  BY <1>1, <1>2, NextImplements, PTL DEF Spec
=============================================================================
