------------------------------ MODULE Session ------------------------------
(***************************************************************************)
(* A page and the web server: the token and the sessions (auth.mjs), the   *)
(* upgrade, the start and the end of the server (server.mjs), the socket   *)
(* and the queue of the page (bridge-shim.js), and the objects pages share *)
(* through the router.                                                     *)
(*                                                                         *)
(* The page sends numbered envelopes.  A connection is numbered too: the   *)
(* server may still hold the previous one of the page when the next opens. *)
(* What travels is in up (page to server) and down (server to page) of the *)
(* page's latest connection, and is lost when that connection dies.        *)
(***************************************************************************)
EXTENDS Webstrap

CONSTANTS MaxEnvelopes,  \* envelopes the page sends
          MaxConns,      \* connections it opens
          MaxValue       \* times the shared object is set

ASSUME SessionAssumption == MaxEnvelopes \in Nat /\ MaxConns \in Nat /\ MaxValue \in Nat

VARIABLES
  running, tokenKept,         \* the server; whether the token file holds its token
  cookie,                     \* the page's session: "none", "valid" in SessionStore, or "gone"
  conns,                      \* sockets the server has registered
  subscribers, shared,        \* sharedObjectSubscribers and the value of the object
  url,                        \* the token in the page's URL: "none", "good" or "old"
  ws, conn, timer, queue,     \* its socket, the socket's number, reconnectTimer, queuedEnvelopes
  up, down,                   \* in flight
  sent, taken, lost,          \* envelopes: how many were sent, which were taken, which lost
  wants, subscribed, view     \* it asked for the object; the connection that took this; the value it shows

serverVars == <<running, tokenKept, cookie>>
objectVars == <<subscribers, shared>>
pageVars == <<url, ws, conn, timer, queue>>
wireVars == <<up, down, sent, taken, lost>>
viewVars == <<wants, subscribed, view>>
sessionVars == <<serverVars, conns, objectVars, pageVars, wireVars, viewVars>>

\* The envelope that subscribes to the shared object, beside the numbered ones.
Subscription == MaxEnvelopes + 1
Sendable == 1..Subscription

SessionTypeOK ==
  /\ running \in BOOLEAN /\ tokenKept \in BOOLEAN
  /\ cookie \in {"none", "valid", "gone"}
  /\ conns \subseteq 1..MaxConns /\ subscribers \subseteq conns /\ shared \in 0..MaxValue
  /\ url \in {"none", "good", "old"}
  /\ ws \in {"none", "connecting", "open", "dead", "closing"} /\ conn \in 0..MaxConns
  /\ timer \in BOOLEAN /\ queue \in Seq(Sendable)
  /\ up \in Seq(Sendable) /\ down \in Seq(0..MaxValue)
  /\ sent \in 0..MaxEnvelopes /\ taken \in Seq(1..MaxEnvelopes) /\ lost \subseteq 1..MaxEnvelopes
  /\ wants \in BOOLEAN /\ subscribed \in 0..MaxConns /\ view \in 0..MaxValue

SessionInit ==
  /\ running = FALSE /\ tokenKept = FALSE /\ cookie = "none"
  /\ conns = {} /\ subscribers = {} /\ shared = 0
  /\ url = "none"
  /\ ws = "none" /\ conn = 0 /\ timer = FALSE /\ queue = <<>>
  /\ up = <<>> /\ down = <<>> /\ sent = 0 /\ taken = <<>> /\ lost = {}
  /\ wants = FALSE /\ subscribed = 0 /\ view = 0

----------------------------------------------------------------------------
(* The server. *)

Gone == IF cookie = "valid" THEN "gone" ELSE cookie

\* ensurePersistentToken keeps the token of the file, or makes and writes one.  Two
\* servers started together both make one: the file keeps the token of the last writer,
\* and the port may go to the other, whose URLs the next start then refuses.
StartServer ==
  /\ ~running
  /\ running' = TRUE
  /\ tokenKept' \in {tokenKept, TRUE}
  /\ url' = IF ~tokenKept /\ url = "good" THEN "old" ELSE url
  /\ cookie' = Gone
  /\ UNCHANGED <<conns, objectVars, ws, conn, timer, queue, wireVars, viewVars>>

Envelopes(s) == {s[i] : i \in DOMAIN s} \ {Subscription}

\* A connection dies with what it carries, but what already reached the other side.
Cut == up' = <<>> /\ down' = <<>> /\ lost' = lost \cup Envelopes(up)

\* A crash, or shutdown(): the sockets close, sessions and objects are gone.
ServerEnds ==
  /\ running
  /\ running' = FALSE /\ conns' = {} /\ subscribers' = {} /\ shared' = 0
  /\ ws' = IF ws = "open" THEN "dead" ELSE ws
  /\ Cut
  /\ UNCHANGED <<tokenKept, cookie, url, conn, timer, queue, sent, taken, viewVars>>

\* The TTL of a session has passed: isValid and pruneExpired drop it.  Connections stay.
SessionExpires ==
  /\ cookie = "valid" /\ cookie' = "gone"
  /\ UNCHANGED <<running, tokenKept, conns, objectVars, pageVars, wireVars, viewVars>>

\* requireAuth: a valid cookie, or the token in the URL, which makes a new session.
Authorized == cookie = "valid"

----------------------------------------------------------------------------
(* The page. *)

\* Loading the page starts it afresh: an empty queue, no subscription, a new socket.
FreshPage ==
  /\ ws' = "connecting" /\ timer' = FALSE /\ queue' = <<>>
  /\ up' = <<>> /\ down' = <<>>
  /\ lost' = lost \cup Envelopes(up) \cup Envelopes(queue)
  /\ wants' = FALSE /\ subscribed' = 0 /\ view' = 0

\* The URL the server printed: handleAuthRoute makes a session and redirects to /?token=.
OpenAuthUrl ==
  /\ running
  /\ cookie' = "valid" /\ url' = "good"
  /\ FreshPage
  /\ UNCHANGED <<running, tokenKept, conns, objectVars, conn, sent, taken>>

\* A reload, or a bookmark: refused unless the cookie or the token in the URL is good.
Reload ==
  /\ running /\ (Authorized \/ url = "good")
  /\ cookie' = "valid"
  /\ FreshPage
  /\ UNCHANGED <<running, tokenKept, conns, objectVars, url, conn, sent, taken>>

\* Mutant: the queue is emptied from its end.
FlushedByPop == IF ws' = "open" THEN [i \in DOMAIN queue |-> queue[Len(queue) + 1 - i]] ELSE <<>>
\* flushQueue empties the queue from its head.
Flushed == IF ws' = "open" THEN queue ELSE <<>>

\* The upgrade is authorised by the cookie alone.  On open, the queue is flushed.
Upgrade ==
  /\ ws = "connecting" /\ running /\ Authorized /\ conn < MaxConns
  /\ ws' = "open" /\ conn' = conn + 1
  /\ conns' = conns \cup {conn + 1}
  /\ up' = Flushed /\ down' = <<>> /\ queue' = <<>>
  /\ UNCHANGED <<serverVars, objectVars, url, timer, sent, taken, lost, viewVars>>

\* Refused (401), or no server: error and close, each of which arms the one timer.
UpgradeFails ==
  /\ ws = "connecting" /\ (~running \/ ~Authorized)
  /\ ws' = "none" /\ timer' = TRUE
  /\ UNCHANGED <<serverVars, conns, objectVars, url, conn, queue, wireVars, viewVars>>

\* The connection breaks, and neither side knows yet.
Breaks ==
  /\ ws = "open" /\ conn < MaxConns
  /\ ws' = "dead"
  /\ Cut
  /\ UNCHANGED <<serverVars, conns, objectVars, url, conn, timer, queue, sent, taken, viewVars>>

\* The page hears of the end of the connection, which is not closed yet.
Closing ==
  /\ ws = "dead" /\ ws' = "closing"
  /\ UNCHANGED <<serverVars, conns, objectVars, url, conn, timer, queue, wireVars, viewVars>>

\* Mutant: the close handler arms no timer.
NoticesOnly ==
  /\ ws \in {"dead", "closing"}
  /\ ws' = "none"
  /\ UNCHANGED <<serverVars, conns, objectVars, url, conn, timer, queue, wireVars, viewVars>>

PageNotices ==
  /\ ws \in {"dead", "closing"}
  /\ ws' = "none" /\ timer' = TRUE
  /\ UNCHANGED <<serverVars, conns, objectVars, url, conn, queue, wireVars, viewVars>>

\* Mutant: it forgets the page, not the socket.
PageForgotten(c) ==
  /\ c \in conns /\ (c # conn \/ ws # "open")
  /\ conns' = conns \ {c} /\ subscribers' = {}
  /\ UNCHANGED <<serverVars, shared, pageVars, wireVars, viewVars>>

\* unregisterClient, for a broken connection or one its page has left behind.
ServerNotices(c) ==
  /\ c \in conns /\ (c # conn \/ ws # "open")
  /\ conns' = conns \ {c} /\ subscribers' = subscribers \ {c}
  /\ UNCHANGED <<serverVars, shared, pageVars, wireVars, viewVars>>

Reconnect ==
  /\ timer /\ timer' = FALSE
  /\ ws' = IF ws \in {"open", "connecting"} THEN ws ELSE "connecting"
  /\ UNCHANGED <<serverVars, conns, objectVars, url, conn, queue, wireVars, viewVars>>

\* sendEnvelope: onto a socket believed open, or else into the queue.
Send(e) ==
  \/ ws = "open" /\ up' = Append(up, e) /\ UNCHANGED <<queue, lost>>
  \/ ws = "dead" /\ lost' = lost \cup Envelopes(<<e>>) /\ UNCHANGED <<queue, up>>
  \/ ws \in {"none", "connecting", "closing"} /\ queue' = Append(queue, e) /\ UNCHANGED <<up, lost>>

SendEnvelope ==
  /\ url # "none" /\ sent < MaxEnvelopes
  /\ sent' = sent + 1
  /\ Send(sent + 1)
  /\ UNCHANGED <<serverVars, conns, objectVars, url, ws, conn, timer, down, taken, viewVars>>

\* The page subscribes once in its life, whatever happens to its socket.  That it may take
\* its subscription back (shared-object-unsubscribe) is left out.
Subscribe ==
  /\ url # "none" /\ ~wants
  /\ wants' = TRUE
  /\ Send(Subscription)
  /\ UNCHANGED <<serverVars, conns, objectVars, url, ws, conn, timer, down, sent, taken, subscribed, view>>

----------------------------------------------------------------------------
(* What arrives. *)

\* _subscribeSharedObject answers with the value the object has.
ServerTakes ==
  /\ up # <<>> /\ up' = Tail(up)
  /\ IF Head(up) = Subscription
     THEN /\ subscribers' = subscribers \cup {conn} /\ down' = Append(down, shared)
          /\ subscribed' = conn /\ UNCHANGED taken
     ELSE taken' = Append(taken, Head(up)) /\ UNCHANGED <<subscribers, down, subscribed>>
  /\ UNCHANGED <<serverVars, conns, shared, pageVars, sent, lost, wants, view>>

\* Another page sets the object: every subscriber is sent the value, a broken one in vain.
SetObject ==
  /\ running /\ shared < MaxValue
  /\ shared' = shared + 1
  /\ down' = IF conn \in subscribers /\ ws = "open" THEN Append(down, shared + 1) ELSE down
  /\ UNCHANGED <<serverVars, conns, subscribers, pageVars, up, sent, taken, lost, viewVars>>

PageTakes ==
  /\ down # <<>>
  /\ view' = Head(down) /\ down' = Tail(down)
  /\ UNCHANGED <<serverVars, conns, objectVars, pageVars, up, sent, taken, lost, wants, subscribed>>

SessionNext ==
  \/ StartServer \/ ServerEnds \/ SessionExpires
  \/ OpenAuthUrl \/ Reload \/ Upgrade \/ UpgradeFails \/ Breaks \/ Closing \/ PageNotices \/ Reconnect
  \/ SendEnvelope \/ Subscribe
  \/ \E c \in conns : ServerNotices(c)
  \/ ServerTakes \/ SetObject \/ PageTakes

----------------------------------------------------------------------------
\* The numbered envelopes of a sequence increase.
Ordered(s) ==
  \A i, j \in DOMAIN s : i < j /\ s[i] # Subscription /\ s[j] # Subscription => s[i] < s[j]

(* Envelopes arrive in the order the page sent them, each at most once, and    *)
(* every one sent was taken, is under way, waits in the queue, or was lost     *)
(* with a connection or with the page: the queue never overtakes the socket.   *)
EnvelopesInOrder ==
  LET all == taken \o up \o queue
  IN  Ordered(all) /\ Envelopes(all) \cup lost = 1..sent /\ Envelopes(all) \cap lost = {}

(* A page whose subscription was taken by the connection it still has shows,   *)
(* once what is under way has arrived, the value the object has - whatever     *)
(* older connection of the page the server buries meanwhile.  After a          *)
(* reconnection nothing renews the subscription, and nothing can be said.      *)
ViewIsCurrent ==
  ws = "open" /\ subscribed = conn => (<<view>> \o down)[Len(down) + 1] = shared

(* A page that is not connected gets a socket again, unless the server is down *)
(* or no longer knows its session: then only a reload can help it.             *)
PageReconnects ==
  url # "none" /\ ws # "open" ~> ws = "open" \/ ~running \/ ~Authorized \/ conn = MaxConns
=============================================================================
