----------------------------- MODULE GitWorker -----------------------------
(***************************************************************************)
(* The git worker of the web server: GitWorkerBridge of message-router.mjs.*)
(*                                                                         *)
(* Every post first awaits a file access, so posts reach the worker in the *)
(* order the accesses resolve: a cancel may overtake its request, and the  *)
(* window that asked may be gone.  The worker is an external thread that   *)
(* answers what it was given, until it exits; a window's id is unique.     *)
(***************************************************************************)
EXTENDS Webstrap

CONSTANT Asks        \* worker requests, by their id

VARIABLES posts,     \* posts whose isAvailable() is under way
          pending,   \* pendingByRequestId: id |-> the window that asked
          worker,    \* "none", "live", or "gone": ended, its exit not yet heard
          work,      \* ids the worker has been given and not yet answered
          answers,   \* its messages the router has not received yet
          asker,     \* who asked for each id
          withdrawn, \* ids whose asker cancelled or left, or whose worker exited
          got        \* the windows that received an answer to each id

gitVars == <<posts, pending, worker, work, answers, asker, withdrawn, got>>

Nobody == "nobody"
ASSUME GitAssumption == Nobody \notin Windows
Kinds == {"request", "cancel"}

GitTypeOK ==
  /\ posts \subseteq [id : Asks, kind : Kinds]
  /\ DOMAIN pending \subseteq Asks /\ \A r \in DOMAIN pending : pending[r] \in Windows
  /\ worker \in {"none", "live", "gone"}
  /\ work \subseteq Asks /\ answers \subseteq Asks
  /\ asker \in [Asks -> Windows \cup {Nobody}]
  /\ withdrawn \subseteq Asks
  /\ got \in [Asks -> SUBSET Windows]

GitInit ==
  /\ posts = {} /\ pending = [r \in {} |-> Nobody]
  /\ worker = "none" /\ work = {} /\ answers = {}
  /\ asker = [r \in Asks |-> Nobody] /\ withdrawn = {}
  /\ got = [r \in Asks |-> {}]

\* A window posts a request, or cancels one it posted.
GitAsk(w, r) ==
  /\ asker[r] = Nobody
  /\ asker' = [asker EXCEPT ![r] = w]
  /\ posts' = posts \cup {[id |-> r, kind |-> "request"]}
  /\ UNCHANGED <<pending, worker, work, answers, withdrawn, got>>

GitCancel(w, r) ==
  /\ asker[r] = w /\ r \notin withdrawn
  /\ withdrawn' = withdrawn \cup {r}
  /\ posts' = posts \cup {[id |-> r, kind |-> "cancel"]}
  /\ UNCHANGED <<pending, worker, work, answers, asker, got>>

\* isAvailable() is false: the sender of the post gets an error, a cancel's included.
GitUnavailable(post, clients) ==
  /\ post \in posts
  /\ posts' = posts \ {post}
  /\ got' = [got EXCEPT ![post.id] = @ \cup ({asker[post.id]} \cap clients)]
  /\ UNCHANGED <<pending, worker, work, answers, asker, withdrawn>>

\* Mutant: the request is posted and not registered.
Unregistered(post) == Without(pending, post.id)

\* What a post registers, once it is known that there is a worker.
Registered(post) ==
  IF post.kind = "request" THEN With(pending, post.id, asker[post.id]) ELSE Without(pending, post.id)

\* A worker is started when there is none.  One that has ended without its exit being
\* heard is still there for _ensureWorker, and what is posted to it is lost.
GitPost(post) ==
  /\ post \in posts
  /\ posts' = posts \ {post}
  /\ pending' = Registered(post)
  /\ worker' = IF worker = "none" THEN "live" ELSE worker
  /\ work' = IF worker # "gone" /\ post.kind = "request" THEN work \cup {post.id} ELSE work
  /\ withdrawn' = IF worker = "gone" THEN withdrawn \cup {post.id} ELSE withdrawn
  /\ UNCHANGED <<answers, asker, got>>

\* The file access resolves.
GitResolves(post, clients) == GitUnavailable(post, clients) \/ GitPost(post)

GitAnswer(r) ==
  /\ worker = "live" /\ r \in work
  /\ work' = work \ {r} /\ answers' = answers \cup {r}
  /\ UNCHANGED <<posts, pending, worker, asker, withdrawn, got>>

\* An answer goes to the window its id is registered for, or else to every client.
Receivers(r, clients) == IF r \in DOMAIN pending THEN {pending[r]} \cap clients ELSE clients

GitDeliver(r, clients) ==
  /\ r \in answers
  /\ answers' = answers \ {r}
  /\ got' = [got EXCEPT ![r] = @ \cup Receivers(r, clients)]
  /\ pending' = Without(pending, r)
  /\ UNCHANGED <<posts, worker, work, asker, withdrawn>>

\* The thread ends with the work it had; nothing tells those who asked for it.
GitWorkerDies ==
  /\ worker = "live"
  /\ worker' = "gone"
  /\ withdrawn' = withdrawn \cup work
  /\ work' = {}
  /\ UNCHANGED <<posts, pending, answers, asker, got>>

\* Its exit is heard after its last message.
GitWorkerExit ==
  /\ worker = "gone" /\ answers = {}
  /\ worker' = "none"
  /\ UNCHANGED <<posts, pending, work, answers, asker, withdrawn, got>>

\* removeClient knows what is registered, not the posts that are still to register.
GitLose(w) ==
  /\ pending' = [r \in {q \in DOMAIN pending : pending[q] # w} |-> pending[r]]
  /\ withdrawn' = withdrawn \cup {r \in Asks : asker[r] = w}
  /\ UNCHANGED <<posts, worker, work, answers, asker, got>>

\* terminate() ends the thread; a post that resolves later starts another one.
GitDispose ==
  /\ worker' = "none" /\ work' = {} /\ answers' = {}
  /\ pending' = [r \in {} |-> Nobody]
  /\ withdrawn' = Asks
  /\ UNCHANGED <<posts, asker, got>>

GitNext(clients) ==
  \/ \E w \in clients, r \in Asks : GitAsk(w, r) \/ GitCancel(w, r)
  \/ \E post \in posts : GitResolves(post, clients)
  \/ \E r \in Asks : GitAnswer(r) \/ GitDeliver(r, clients)
  \/ GitWorkerDies \/ GitWorkerExit

----------------------------------------------------------------------------
(* The answer to a request reaches no window but the one that asked, and until *)
(* then the id is registered for that window, unless it cancelled, left, or    *)
(* lost its worker: then the id is unknown and the answer is shown to everyone.*)
GitRightWindow ==
  \A r \in Asks \ withdrawn :
    /\ got[r] \subseteq {asker[r]}
    /\ r \in work \cup answers => r \in DOMAIN pending /\ pending[r] = asker[r]

(* Every request is answered to its asker, unless it was withdrawn.            *)
GitAnswered == \A r \in Asks : asker[r] # Nobody ~> got[r] # {} \/ r \in withdrawn
=============================================================================
