# A verification project for codex-app-linux

TLA+ models of the concurrent core of `codex-app-linux`, TLC runs that check them
on small instances, and TLAPS proofs of the properties that matter most.  Paths are
relative to the repository (`src/`).

## 1. The system

`codex-app-linux` runs the Codex desktop app on Linux.  Four parts do the work.

**A. The Chrome extension host** (`native/chrome-extension-host/src`, Rust, threads and
mutexes).  Chrome starts it as a native-messaging host; it speaks length-prefixed JSON
on stdin and stdout.

| part | state | operations |
|---|---|---|
| app-server broker (`runtime/broker.rs`, `proxy.rs`, `process.rs`) | registered side panels with a generation each, routes of calls in both directions, the shared `initialize`, bounded channels | register, replace, evict, route a call, answer, notify, fail, expire |
| Browser Use relay (`legacy.rs`, `legacy_connection.rs`) | the one registered browser client, routes in both directions, bounded channels with blocking sends, permits | accept, register and evict, route, ping, dispatch Chrome's messages, write with timeout |
| runtime manager and session (`runtime/mod.rs`, `proxy.rs`) | the running app server and its configuration | ensure, restart, shutdown, accept loop |
| rollout tracker (`rollout.rs`) | observed turns with a file and an offset | observe, discover with backoff, read on, report turnEnded |
| tab-context assets (`assets.rs`) | open files and byte counts | create, append, finish, abort, remove |
| configuration, sockets, framing | files and bytes | load, bind, read, write |

**B. The web wrapper** (`runtime/webstrap`, Node, event loop).  It serves the Codex UI to
browser windows and stands in for Electron's main process.

| part | state | operations |
|---|---|---|
| app-server client (`app-server.mjs`) | the child process, pending requests with timers, the connecting promise | start, stop, send, handle a line, initialize, exit |
| IPC client (`ipc-uds.mjs`) | socket, frame decoder, pending requests, reconnect timer | connect, initialize, request, close, reconnect |
| message router (`message-router.mjs`) | windows, terminals, the git worker's requests, fetches, global state, shared objects | one handler per message of a window |
| server and auth (`server.mjs`, `auth.mjs`) | windows' sockets, token file, sessions | authenticate, upgrade, prune, shut down |
| bridge shim (`bridge-shim.js`) | a reconnecting socket and a queue | send, flush, reconnect |
| assets (`assets.mjs`) | a directory per build, shared by servers | look, extract, replace, mark |
| PTY bridge (`bun-pty-bridge.mjs`) | one shell | write, resize, close, exit |

**C. The launcher** (`runtime/launcher.mjs`, `runtime/lib`): downloads the desktop binary into
a cache on first run and starts it.

**D. The build and release scripts** (`scripts`, `.github/workflows`): sequential programs
that patch the upstream archive, build packages and publish them.

### How the parts interact

Chrome's messages reach the host's main thread (`main.rs:39-55`), which hands them to
the protocol host (A: runtime manager and assets) or to the relay's dispatcher.  The
relay, the protocol host and the rollout tracker share the channel to Chrome.  The
runtime manager owns one session: an app-server child, its broker and a loopback
WebSocket listener that side panels connect to.  In B, a window's messages reach the
router over a WebSocket; the router calls the app-server client and the IPC client and
sends their answers back to the window that asked, or to all.

### What is hard

* **Unlock, then use.** The broker and the relay release their mutex between reading the
  routing state and using a channel; the connection may be replaced in between.
* **Reused names.** Panels reconnect under the same client id and reuse JSON-RPC ids;
  two panels choose equal ids.
* **Bounded channels.** The broker evicts a panel whose queue is full; the relay blocks,
  and threads that block on each other's channels are freed only by a write timeout.
* **Failures in the middle.** A refused send after a route was inserted, an `initialize`
  that fails after others joined it, pipes that break one direction at a time.
* **Event loop** (B): callbacks of an old process or socket that arrive after the new one
  was made; state read before an `await` and used after it; overlapping file writes.
* **What outlives a process** (B, C, D): files that are overwritten in place, caches that
  concurrent processes delete and fill again, commands that go on after their timeout,
  a release whose steps fail one by one while another run takes the same steps.

`PROJECT.json` lists the hazards at their lines, and the properties that cover them.  Where the code
gives a promise up in one of these situations, the hazard's note says so: that part of it is
covered by no property (see "What the properties leave out on purpose").

## 2. What is modelled

### Broker (`Broker.tla`)

A connection is named by its generation, so `Conn` are both the serving threads and the
generations.  State and code correspond as follows.

| model | code |
|---|---|
| `clients`, `owner`, `nextConn` | `State.clients` and the generation in `Client`; `next_connection` |
| `alive` | the `AtomicBool` shared by `Client` and `ClientConnection` |
| `queue` | the `sync_channel(CLIENT_QUEUE_CAPACITY)` of a connection |
| `pending`, `serverPending`, `initialize` | `State.pending`, `server_pending`, `InitializeState` |
| `pc`, `hand` | where `serve_registered_connection` and the handlers below it stand, and the message they route |
| `out`, `job` | the list of deliveries a handler makes after its unlock, and the `send_to_client` under way |
| `childIn`, `childOpen`, `healthy` | the channel to the child's stdin writer, whether the writer lives, `Broker.healthy` |
| `srv`, `asks` | the app server: calls it read and owes an answer, its own requests |
| `used`, `asked`, `routed`, `answers` | history variables that properties speak of |

Each handler is split at every unlock.  A call goes through `Poll`, `ReadCall` (with the
first `ensure_current`), `RouteRequest` or `RouteInitialize` (one critical section each),
`SendChild` (`try_send`) and, if refused, `Unsend` or `FailInitialize`; a failed route
ends in `HangUp`, which writes the error, unregisters and drops the receiver.
`send_to_client` is `Lookup` (generation check and clone of the sender), `TrySend`, and
`Evict` when the queue is full or closed.  The stdout reader takes one message at a time:
`ServerRespond`, `ServerAsk`, `ServerNotify`, then its deliveries.

Abstractions.  A message is its kind, its id and the internal id it stands for; payloads
are left out.  The `HashMap` order of deliveries and of the panel an app-server request
goes to is a free choice.  The flag check and the batch of `try_recv` at the top of the
loop are one step.  `PENDING_TTL` is a step that ages every route at once.  The id
`next_connection` wraps around after 2^64 connections; that is out of scope.  A panel is
assumed not to reuse an id while it is on one connection (JSON-RPC).  It may answer with any id
that a request had, its own or another panel's, or with one that no request had.

### Browser Use relay (`LegacyRelay.tla`)

A connection is its reader thread, named by the client id that `register_client` gives it.

| model | code |
|---|---|
| `clients` | the keys of `State.clients` |
| `pendingChrome`, `pendingClients` | the maps of the same names |
| `pc`, `hand`, `evicted` | where `serve_client` stands, the message it sends, the clients it still has to shut down |
| `over` | sockets that were shut down or closed by the peer |
| `queue`, `writer` | the channel of a `client_writer` thread, and whether it holds the receiver |
| `chromeOut` | the channel of `spawn_chrome_writer` |
| `disp` | the blocking sends the main thread is in (`handle_chrome_message`) |
| `inChrome`, `asks` | Chrome: requests it read, its own requests |

Every send blocks, so it is a step of its own with room, or a dead receiver, as its guard.
A frame that was received before the socket was shut down is still read.
`authorize_peer` and the peer's bytes are left out; `observe_request` (a send on the rollout
tracker's channel of 1024) is taken never to block; the getInfo fallback changes a payload only.
When the channel to Chrome fails the process exits, which ends every behaviour.

### Runtime manager (`RuntimeManager.tla`)

| model | code |
|---|---|
| `pc`, `wanted`, `hand` | where the main thread stands in `ensure` or `shutdown`, the resolved configuration, the session it stops or has started |
| `slot` | `RuntimeManager.session` |
| `config`, `child`, `healthy`, `stop` | a session's configuration, its process, `Broker.healthy`, `RuntimeSession.stop` |
| `listener`, `handshakes` | where its listener thread stands, and the counter it keeps |
| `panel`, `joined` | the threads of connections, up to the broker and back |
| `reply`, `granted`, `lately` | history: what the extension was told, and which sessions were alive when it asked or were started for it |

`ensure` is `Call` (resolve and the request's checks), then `Reuse`, or `Replace` and `Kill`
(the flag is raised before the process is killed and waited for), `Start` or
`StartFails`, and `Result` or `ResultFails`: the session is stored only after
`runtime_result` returned.  Requests with refused constraints change nothing and are left out.
`StartBreaks` is a start that fails once the process runs.  `Faults` says what may fail there:
"random", the token (`proxy.rs:100`), when there is no session yet to be dropped and the process is
left to itself, its input held open by the broker its reader has; "listener", the thread's spawn, when the
session is dropped and so stopped and killed; "client", `runtime_result`, as a managed
configuration is not checked for its browser client (`validate_managed`), which that reads.  Serving a connection is
module `Broker`; here a connection only registers and ends.

### Rollout tracker (`RolloutTracker.tla`)

| model | code |
|---|---|
| `inbox`, `out` | the channel of observations, the channel to Chrome |
| `tracked`, `found`, `offset`, `old` | the keys of `observed`; `path`, `offset`, and whether `created_at` is `OBSERVED_TURN_TTL` ago |
| `todo`, `ended` | what is left of a pass of `process_observed`, and the turn in its `send` |
| `there`, `file` | the rollout file, by half lines: the second half has the newline |
| `asked`, `sent`, `excused` | history variables that properties speak of |

The thread takes what waits in its channel (`Insert`), then makes a pass: `Expires`, `Discover`,
`Drain` or `DrainFails` for each turn, and `TurnEnded`, which blocks.  Turns are removed when they are
reported and not at the end of the pass, which nobody can tell apart.  The waits between two
searches are left out, and the walk through the directories with its limits: a session has one
file.  Lines beyond `MAX_ROLLOUT_LINE_BYTES` never parse and are `NoTurn`.

### Tab-context assets (`AssetStore.tla`)

The main thread takes Chrome's requests one by one, so a step is a request.  Sizes are
counted in small units; names, base64 and permissions are left out.  A request that is refused
changes nothing and is no step.  A host ends by `Drop` or is killed; hosts of other Chrome
profiles share the directory but not the names.

### App-server client of the web wrapper (`AppServer.tla`)

| model | code |
|---|---|
| `proc`, `connected`, `initialized`, `buffer` | the fields of `AppServerManager` (`buffer` for `stdoutBuffer`) |
| `connecting`, `waiting` | `connectingPromise`, and the requests that await it in `_ensureReady` |
| `pending`, `timers` | the `pending` map, and the requests whose timeout is set |
| `jobs` | promise continuations that are runnable |
| `life`, `stdin`, `atServer` | the processes: their life, whether their input can be written, what they owe an answer |
| `window`, `used`, `answers`, `foreign`, `theirs` | a window's bridge socket; history of its ids, its answers, of responses matched to another request, and of the ids of the app server's own requests |
| `phase` | `main` awaiting the first start, running, in `shutdown`, over |

An event handler runs to completion and makes continuations runnable; they all run before the
next event (`Turn`).  A process may fail to start, die, close its input or answer late: its
output may arrive after its exit event, whole or in two parts (`Line`, `Part`, `Rest`), and is
then read into the buffer that the next process shares.  The map is keyed by the id the
window chose, so a second request under one id replaces the first, whose timer
later deletes whatever has that id.  `initialize` takes the counter `nextId`; the router's own
requests, which take it too, and virtual answers are left out.

`ServerAsks` is a request of the app server's own.  The client looks for the id before it looks for
a method (`app-server.mjs:233-246`), so one whose id is that of a pending entry is taken for that entry's
response, and is never shown to a window; `OwnResponse` excepts such ids.  Any other is shown to the
windows, whose answers to it are passed through and left out.

### The web wrapper's router (`Router.tla`, `Terminals.tla`, `GitWorker.tla`, `Fetches.tla`)

A window is one WebSocket; a page that reconnects is another window.  `Router` keeps the
registered windows and composes three components that share nothing else: a window that
leaves is taken out of the terminals and of the git worker's requests in one step
(`UnregisterClient`), and `Dispose` ends all three while sockets are still closing.

| model | code |
|---|---|
| `clients`, `left`, `disposed` | `MessageRouter.clients`, the sockets that closed, `dispose()` has run |
| `terminals` | `TerminalRegistry.sessions`: id to process and listeners |
| `shells` | the processes, with `proc.killed` and the events node has still to deliver (`due`) |
| `ptys` | `bunPtyAvailable`, `pythonPtyAvailable` |
| `posts` | `postMessage` calls awaiting `isAvailable()` |
| `pending`, `worker` | `pendingByRequestId`, `GitWorkerBridge.worker` |
| `work`, `answers` | what the thread was given, what it has answered and nobody heard |
| `fetches`, `controllers`, `aborted` | where a `_handleFetch` stands, `fetchControllers`, signals that are set |
| `told`, `rebuilt`, `asker`, `withdrawn`, `got`, `owners`, `replies` | history |

A bun terminal ends by a line the bridge prints and by the exit of its process, in either
order, and both handlers know only the terminal's id.  Bytes of a terminal, resizing and
what an endpoint's answer says are left out: an endpoint is what it awaits - nothing, files, or
commands - and only the commands can throw (`childSpawn` in a path with a NUL byte), which
ends in a `bridge-error` that names no request.  Ids of fetches and worker requests are
taken to be unique, as the page, which is external, makes them.

### A page, its session and its socket (`Session.tla`)

The token file, `SessionStore`, the upgrade, the bridge socket with its reconnect timer and
queue, and one shared object another page sets.  Envelopes are numbered in the order the
page makes them; connections are numbered because the server may still hold an
old one.  A connection may break without either side knowing: what is then written is `lost`.
Once the browser knows of the end (`Closing`) the page queues what it writes, before its close
handler has run.  A cookie is `valid`, or `gone` after its TTL or a restart.  Loading the page
starts it afresh.  That a page takes its subscription back (`shared-object-unsubscribe`) is left out.

### IPC client (`IpcClient.tla`)

`link`, `stopped`, `retry`, `initialized`, `pending` are the fields of `UdsIpcClient`; the decoder
is `clean`, in the `mid`dle of a frame, or `stale`: it holds part of a frame of an earlier
connection, since it is made once (`ipc-uds.mjs:103`).  The peer is free.

### Global state (`GlobalState.tla`)

The debounce timer and each write in two steps (the file is truncated, then written), with
any number of writes overlapping up to `Writers`, failures, and the end of the process at any
moment; `Boot` reads what is there, and takes what does not parse for nothing.  One value stands for
the host's global state and the atoms of the pages, which are kept and written together.  The
active root may be none (`DeactivateRoots`), which the next start replaces by the default;
`userSelectedActiveWorkspaceRoots` is set and never read, and left out.

### Repository commands (`RepoCommands.tla`)

A handler is a table: for each command it runs, what follows its success and its
failure.  `_runCommand` is `Works` (the command does what it does), `Exits` and `TimesOut`; the
three are separate, so a command may fail after it has done its work, and may do it
after it was signalled (`WorksLate`).  git, gh and GitHub are external, and known by what the
handlers rely on: a branch is made once and has one open pull request.

### Caches (`Launcher.tla`, `Assets.tla`)

Launches share the `.download` file, the archive and the unpacked bundle; servers share the
directory of a build.  Deleting and unpacking go file by file, a process may be killed
between any two, and a stream keeps writing to the file it opened when that is renamed.  The
checksum of the archive is taken as given, as the release writes it into the package; without it
`matchesChecksum` asks for an executable file (`linux-desktop.mjs:225-227`), which a download is not,
and every launch would fail without changing the bundle.

### Publication (`Release.tla`)

One version, several runs of the workflow.  A build is named by its run.  `npm view` may fail for
any reason, which every script takes for an absent version.  Prod and beta take the
same steps with names of their own, so one of them is modelled.

### CallService (`CallService.tla`)

The abstract specification of what the three components promise about calls: a call made on a
connection is answered at most once, on that connection, and does not stay open for ever:
it is answered or the connection ends.  Several connections may end at once, and several
calls lapse that a second `initialize` made obsolete.  `Broker`, `LegacyRelay` and
`AppServer` each implement it under a refinement mapping (`ImplementsCalls`): the status of a
call is computed from the history of its connection and from where its answer is waited for.

## 3. What the runs check

| run | instance | shows |
|---|---|---|
| `broker_calls` | 2 panels, 3 connections, 2 internal ids, every capacity 1, expiry and pipe faults | `RightPanel`, `NoStaleRoute`, `OneInitialize` |
| `broker_asks` | 3 panels of which 2 are admitted, 2 connections, 1 app-server request, notifications | `TypeOK`, `NoZombie`, `AuthenticServerAnswer` |
| `broker_live` | 2 panels, 2 connections, 2 call ids each, fair, no expiry, no faults | `AnsweredOnce`, `ImplementsCalls` |
| `relay_safety` | 2 connections, 1 call each, 1 Chrome request, expiry, stalls | `TypeOK`, `OnlyCurrent`, `RightClient`, `AuthenticAnswer`, `NeverUnseated` |
| `relay_stalls` | 2 connections, calls, pings and notifications, stalls, fair | `NothingStalls` |
| `relay_calls` | 2 connections, 2 calls each, fair, clients read; 2 turns, 2 requests, room for 1 turn, a file of 4 half lines | `ImplementsCalls`, `TracksTurns` |
| `runtime_safety` | 2 sessions, 2 configurations (one with a fixed port), 2 connections, 1 permit, crashes, every fault of a start, fair | `TypeOK`, `PermitsExact`, `FreshReply`, `NothingForgotten`, `Drains` |
| `runtime_orphan` | 2 sessions, 1 configuration, 1 connection | `OneRuntime` is violated (see Findings) |
| `app_server` | 2 windows with one id, a number that the second `initialize` takes too and the app server may use for a request of its own, 3 processes, fair | `TypeOK`, `OwnResponse`, `NeverForgotten`, `OneProcess`, `ImplementsCalls` |
| `router` | 2 windows, 1 terminal id with 3 processes, 2 worker requests, 2 fetches, fair | `RouterTypeOK`, `TerminalOwnsItsShell`, `NothingForTheGone`, `AnsweredRight`, `AllAnswered` |
| `backends` | 1 page with 3 connections and 3 envelopes; 2 IPC requests over 3 connections; 2 overlapping writes; 2 calls of repository handlers; 2 launches; 2 servers; 2 workflow runs; 3 asset names, 2 active; fair | `TypeOK`, `EnvelopesInOrder`, `ViewIsCurrent`, `IpcSound`, `DiskFollowsMemory`, `AnswersAreTrue`, `FilesAreSound`, `ReleaseHolds`, `NeverStuck` |
| `release_race` | 2 workflow runs | `NeverClobbered` is violated (see Findings) |

The last modules share no state, so `router` and `backends` run them side by side: the
constant variable `part`, chosen at the start, says which of them a behaviour exercises.
(`router` moves the windows in every part, as they are what its components share.)  `relay_calls`
does the same with the relay and the rollout tracker that it starts.

**Why the bounds are enough.**  A hazard of the broker needs two panels whose ids collide, or
one panel with two generations; three connections give one panel two generations beside a
second panel, or three generations of one.  Capacities of 1 make every queue full after one
message, so refusals, evictions and blocking happen in the first steps.  Two internal ids
let a call race another call, an initialize or a request of the app server.  In the relay
only one client is registered at a time, so an evicted and a current connection are the
whole cast; `MaxPending` of 1 reaches the refusal.  Two sessions are a runtime and its
successor, and one permit makes the second connection the refused one.  Three app-server
processes are what a stale exit event needs: one stopped or dead, one that follows it and one
more started after the stale event; two windows with one id make every collision of ids.
In the router, three processes under one
id are a terminal, its replacement, and one more after the late exit of the first; two requests
and two fetches let one be cancelled or lost beside the other.  Three connections of a page are one
that breaks, its successor that breaks while the server still holds the first, and a third.  Two
writers, launches, servers, workflow runs and calls are one and the other that it does not know
of; a third would meet the same states.  A rollout file of four half lines, first read from two
before its end, holds a line that is cut by the first read, one whose newline comes later, and
a file that was started again and grew past an offset; with room for one turn the second is
dropped or comes after the first, and finds the channel full.  Two active assets and a total of one and a half meet every limit of the store.
Every invariant of these runs, and `NeverUnseated`, is also proved for all sizes (section 4), so that
the bounds matter only to liveness and to the two violations.

**Symmetry** of panels (connections in the relay) is used in the safety runs only.

**Deadlock checking is off**: when all connections have ended and the bounds are used up
the model, like the program, has nothing to do.

**Fairness.**  Threads are scheduled; a read ends after its 50 ms timeout (`proxy.rs:230-232`);
writer threads drain their channels; a write to a relay client either succeeds or fails after
five seconds (`legacy.rs:297`).  About the environment: the app server answers what it read,
Chrome reads the host's stdout and answers what it read.  No fairness is assumed of
connects, calls, closes, expiry or faults.  The runs of `ImplementsCalls` exclude expiry, pipe
faults and (relay) clients that stop reading, because then the code does leave calls
unanswered on an open connection: see the hazards with a note.

In `RuntimeManager`: `accept` does not block, a handshake ends within its 5 s socket timeouts,
a round of serving within 50 ms, and `kill` and `wait` return.  In `AppServer`: the event
loop runs its continuations and timers fire; nothing is assumed of the app server.

In `Router`: a file access resolves, the worker answers and node delivers its messages while it
lives, a command, the network and the token's request end (each has a timeout, or the fetch an
end).  In `RolloutTracker`: the tracker's thread runs, Chrome reads, and a file that can be read now
and then is read (a failed read is tried again half a second later).  In `backends`: the page's
handlers and timers run and an upgrade is answered, a connect ends one way or the other, a
destroyed socket closes, and the timers of requests fire; nobody has to send, answer or restart.  That
the page hears of a broken connection in the end (`PageNotices`) is TCP's and the browser's doing: neither
side sends heartbeats, so a connection that breaks silently may be believed open for long.

**What the properties leave out on purpose.**  Where the code gives a promise up, the property names
it instead of hiding it: an id the app server used for a request of its own (`theirs`), the time from
`shutdown()` on, when a late request may start another app server (`phase`), an id of a terminal created again too early (`rebuilt`), a request
withdrawn or a worker lost (`withdrawn`), a command that threw or was cut off (`unsure`) or whose
working tree another one moved (`moved`), a server that no longer knows
the page's session, active roots changed by open-file (`unsaved`), a write that failed or
overlapped (`spoiled`) or was cut by the end of the process (`cut`), a stop during a connect
(`stopLate`), a stream cut in a frame (`torn`), launches and servers at work together (`company`,
`together`) or killed while they delete (`hurt`, `dropped`), workflow runs that passed the refusal
together (`raced`) or were told wrong by npm (`misled`), turns out of reach of the first read or in a
file that was started again (`excused`), assets with a refused append (`torn`) or whose deletion
failed or whose host was killed (`left`).  Each of these variables is set by the step
that breaks the promise and by no other, and is cleared by the step that restores it where
there is one: the property says that nothing else breaks it.  It does not cover what the variable
stands for: the notes of the hazards say, one by one, what remains uncovered and where the code does it.

**Mutants.**  Each property of each run has a mutant in `PROJECT.json`: an operator beside the
original that makes a plausible mistake, with which the property fails.

**Findings.**  `runtime_orphan`: `ensure` starts the app server, then asks `runtime_result` for
the answer and stores the session only if that succeeds (`runtime/mod.rs:88-90`).  When the
managed browser client cannot be read the session is dropped from `ensure` but kept alive by
its listener thread; nobody can stop it, and the next `ensure` starts a second app server.  The
same comes of a start whose `random_hex` fails after the spawn (`proxy.rs:100`).
The test `ensure_reuses_one_runtime_for_all_clients_and_restart_replaces_it`
(`runtime/mod.rs:336`) states that there is one.

`release_race`: the publish job asks npm whether the version exists, and uploads with `--clobber`
afterwards; two runs of the workflow are not kept apart.  The second passes the refusal before
the first has published, and replaces the assets that npm's package holds checksums of.  The
test `release workflow refuses existing npm versions before clobbering release assets`
(`test/release-workflow.test.mjs:9`) looks at the order of the steps in one run.

## 4. What is proved

Every invariant of every passing run is a theorem, for every value of the constants that the
`ASSUME`s of the modules allow; so is the one action property, the safety half of the refinement
of `CallService` by each of its three implementations, and that of `TracksTurns`.  Each proof has an inductive invariant made of named parts; each of these
was checked by TLC on the instance of the run before it was proved.

### The assumptions

They are as weak as the code justifies: capacities and limits are positive (`BrokerAssumption`,
`RelayAssumption`, `AppServerAssumption`, `RuntimeAssumption`, `AssetStoreAssumption`,
`RolloutAssumption`), bounds of
the model are naturals (`SessionAssumption`), the two directions' ids are apart, as the ids that the broker
and the relay make are numbers and those they pass through are kept as they came, a distinguished value is in its
set or outside it (`Hello`, `Home`, `Main`, `Nobody`), there is a terminal id (`TerminalAssumption`), and
panels and workflow runs are finite.  No theorem assumes anything else.

### The broker (`BrokerProofs.tla`, `BrokerSafety.tla`, `BrokerAnswers.tla`)

* `TypeCorrect`: `TypeOK` is inductive as it stands.  Lemmas about the record constructors,
  one frame lemma per group of variables, a step per action under each part.
* `RoutesNeverStale`, `NeverZombie`.  `NoStaleRoute` alone is not inductive: a route is removed by
  looking its owner up in `clients`, so one has to know that a registered generation is owned by
  the panel it is registered under and was handed out before `nextConn` (`Linked`).  The
  invariant is `Sound == Linked /\ NoZombie /\ NoStaleRoute`.
* `AlwaysRightPanel`.  A queue is filled by a thread that took the message from its
  deliveries, which were built from a route: `Addressed` says at each of these stations that the
  message is meant for where it is going (`RoutesAsked`, `OutRight`, `JobRight`), using that
  history only grows.
* `AlwaysOneInitialize`.  That a panel waits only while something carries the initialize is inductive
  only with the stations it passes: a thread that forwards it, the child's channel, or the
  app server, exactly one of them for an internal id (`Carried`), and with what a thread may hold
  at each of its steps (`Shaped`).
* `AlwaysAuthenticServerAnswer`.  One reply at most is under way for a request, on its route, in a
  thread's hand or in the child's channel, none before the request or after its answer
  (`OneReply`), and whoever holds it was asked (`RepliesOwn`): a route is consumed under the lock by the
  thread that will send.
* `AlwaysAnsweredOnce`.  Per call, the places an answer can come from - a route, the waiters of the
  initialize, a delivery, a queue, the thread's own error - are counted and at most one is
  taken (`OneAnswer`).  A thread about to end is exempt: nobody will read what is left for its socket.
* `BrokerImplementsCalls`: the refinement mapping of `ImplementsCalls`, step by step, with expiry and
  failing pipes.  Most steps make no answer come that did not (`NoNewAnswer`, shown place by place: routes,
  hands, deliveries, jobs, queues) and so at most let calls lapse (`LapseStep`); the batch a thread
  writes and its end settle calls (`SettleStep`), for which `OneAnswer` says that each of them was still
  open.  A call lapses only if the broker was asked it and another of the connection under
  one internal id, which `AskedUsed` says the connection did send.  A prune may let several calls lapse
  at once, of several connections; `CallService` allows it.

### The relay and the rollout tracker (`RelayProofs.tla`)

* `TypeCorrect`; `AlwaysOnlyCurrent` (`Seated`: who is registered has a serving thread, and every
  route names who is registered); `NeverUnseatedByOthers`, the action property, a step per
  way to clear `client`.
* `AlwaysRightClient`: `Addressed == Remembered /\ Outbound /\ Inbound`, the relay's counterpart of
  the broker's, over two bounded channels and through Chrome, which answers from what it took.
* `AnswersAreAuthentic`: `OneReply` counts the stations of an answer to Chrome.
* `RelayImplementsCalls`: the refinement mapping of `ImplementsCalls`, step by step, with stalls and
  expiry.  `OneAnswer` gives that a call is answered once; with it every action of the relay is an
  action of `CallService` on the mapped state or leaves it alone.  `StatusOf` distinguishes
  a second answer from the first ("answered again"), so the mapping cannot hide one.
* `ReportsAlwaysSound`: `OncePerRequest` is a balance per turn of what was reported, what waits in the
  channel and what is tracked (`Owed`), kept with lemmas on how often a turn occurs in a queue and in its
  tail.  `NothingSkipped` needs that a turn that is not excused is read from within its file
  (`WithinFile`), and that a turn being reported is tracked (`EndingIsTracked`).  `TracksTurnsSafely` is the
  same of the run's joint specification.

### The runtime manager and the app-server client (`RuntimeProofs.tla`, `AppServerProofs.tla`)

* `TypeCorrect`, `PermitsAlwaysExact`, `NeverForgotten`, `AlwaysFreshReply`.  `handshakes` is
  only a natural number because it counts the live threads, so `TypeOK` and `PermitsExact`
  are proved together, with lemmas on how the set of live threads changes.  The replies need
  to know what the main thread holds at each of its steps (`Stands`, `Parted`, `Unborn`): the
  stored session is not flagged, the one in `hand` is fresh or about to be killed; and that whoever is
  found alive was alive when the request was taken (`Looked`), as nothing comes to life in between.
* `TypeCorrect`, `PromisesKept`, `ResponsesAreOwn`, `AlwaysOneProcess`.  `NeverForgotten`
  needs that one initialize at most is under way and is carried by one timer or one
  continuation (`OneGreeting`): then the start it belongs to is the one that settles
  when it does.  `OwnResponse` needs that whatever a process, half a line or a continuation
  speaks of was asked (`AllMade`), and that the ids of the app server's requests only become
  more (`TheirsGrow`).  `OneProcess` needs both, and that a pending initialize is
  that of the process the manager knows (`Current`, `Greeted`, `AtHome`).
* `ClientImplementsCalls`: a request is held in one place until it is settled, and in none afterwards
  (`HeldOnce`); so a continuation that replies finds its request open, and the mapping, which takes an
  answered request that is still held for "answered again", never shows that.

### The router (`RouterProofs.tla`)

The three components have an invariant each, and `RouterInv` adds that every terminal has
a listener and listeners are connected windows (`Listened`).

* `AlwaysOwnsItsShell`: for each shell, which events node still has to deliver given how it
  ended (`DueOf`), and that the terminal of a shell still to be heard of is its own (`Heard`); for each
  terminal, that its shell was started under its id (`Kept`).
* `NeverForTheGone` follows from `Listened` and the above.
* `AlwaysAnsweredRight`: a request of the git worker is in one place on its way (`Travels`), and unless
  it was withdrawn its entry names its asker until it is answered (`RightlyAnswered`); a fetch has its controller
  exactly while it waits (`FetchAnsweredOnce`).

### The backends (`BackendProofs.tla`)

Each part has its own specification, of which the joint one of the run is a refinement
(`PartsTogether`); the theorems about a part hold whatever runs beside it.

* `EnvelopesAlwaysInOrder`, `ViewAlwaysCurrent`: what is under way belongs to the open socket, and an open
  socket has an empty queue (`Linked`); every envelope sent is in one place and what is further on
  was sent before (`Sequenced`).  `ViewIsCurrent` needs that the value the page will come to show is the
  shared one as soon as its present connection is subscribed.
* `ClientAlwaysSound`: a request that waits has not ended (`WaitsOnce`).
* `DiskAlwaysFollows`: a write that is alone will leave the memory's state (`AloneIn`), and a process that
  is down has no write (`AtRest`).
* `AnswersAlwaysTrue`: each handler's table read backwards: at a given command, what was done
  before it (`Done`), and at an error, the command that was cut off (`Owed`).
* `BundleAlwaysWhole`, `AssetsAlwaysWhole`: while one process is at work, each of its steps says what
  is on the disk (`Step`); a torn directory with the mark is one that is being cleared (`BeingCleared`).
* `StoreAlwaysSound`: the total is a sum over a finite set.  The laws of that sum (adding,
  removing, changing one term) are lemmas proved by a smallest counterexample over the size of the
  set, as induction over an operator is not available.
* `ReleaseAlwaysHolds`: a run past the refusal is alone unless they raced (`Solitary`); what it is ready to
  publish was smoked and uploaded (`Ready`), and what is published agrees with it (`Published`).
* `TypesAlwaysCorrect` and `FilesAlwaysSound` state the run's two joint invariants of the joint specification.

### Only model-checked

Liveness under fairness is out of the prover's reach: `NothingStalls`, `Drains`, `AllAnswered`,
`NeverStuck`, of `ImplementsCalls` that no call stays open for ever (the rest of it is
`BrokerImplementsCalls`, `RelayImplementsCalls` and `ClientImplementsCalls`), and of `TracksTurns` that a turn
that ended is reported.  That the two expected violations happen is shown by TLC's traces.

## 5. Plan

1. `Broker`, `CallService`, `LegacyRelay`, `RuntimeManager`, `AppServer`: done.
2. `Router` with `Terminals`, `GitWorker`, `Fetches`; `Session`; `IpcClient`; `GlobalState`;
   `RepoCommands`; `Launcher`, `Assets`; `Release`: done.
3. `RolloutTracker`, `AssetStore`: done.
4. Proofs of every safety invariant, of the three refinements of `CallService` and of the
   rollout tracker's reports: done.

To come: shorter proofs where two components repeat an argument (`OneReply`, `OneAnswer`), with lemmas
about queues and routes of their own.

## 6. Not modelled, and why

* Configuration loading, socket guards, framing and HTTP header limits: sequential input and
  output without interleavings; their tests reach what they do.
* Failures the code leaves as they are, and no property can be stated of: the calls of panels
  when the app server dies (`process.rs:54`) or its stdin writer ends (`process.rs:27`); a relay client
  forgotten after a write timeout whose reader keeps its permit (`legacy.rs:135`); an app-server
  request approved after two minutes (`broker.rs:454`); a request during the shutdown that starts the app
  server again (`app-server.mjs:39`); a write to a terminal whose process has just ended, and
  `open` missing on the host: error events nobody listens to (`message-router.mjs:241`, `:3732`); a
  terminal whose shell could not be started and keeps its entry (`message-router.mjs:195`); two
  servers started together for the first time, which both make a token (`auth.mjs:19`,
  modelled in `Session`); another `app.asar` with an unchanged build key, which is never
  extracted again (`assets.mjs:186`).
* The router's formatting of answers, terminal-write and resize, and the messages of
  Electron it ignores; the page's menus, styles and file links (DOM code).
* `findLatestCachedBinaryPath` and the codex++ installer (`plusplus.mjs`) of the launcher.
* The build itself: `upstream-patches.mjs` and the other patches are pure functions from a source
  text to a source text over its syntax tree, whose contracts the repository tests on samples;
  `build.mjs` and the smoke tests are one step each of `Release`.

## Running

    tlc -workers 2 -config BrokerCalls.cfg MCBroker.tla
    tlc -workers 2 -config Router.cfg MCRouter.tla
    tlc -workers 2 -config Backends.cfg MCBackends.tla
    tlc -workers 2 -config RelayCalls.cfg MCRelayTracker.tla
    for m in BrokerProofs BrokerSafety BrokerAnswers RelayProofs RuntimeProofs AppServerProofs RouterProofs BackendProofs
    do tlapm $m.tla; done
