---------------------------- MODULE GlobalState ----------------------------
(***************************************************************************)
(* What the web server persists (message-router.mjs): the global state and *)
(* the atoms of the pages, here one value, and the workspace roots, here   *)
(* whether any is saved and which one is active, if any.  (The flag that   *)
(* the user chose it, userSelectedActiveWorkspaceRoots, is never read.)  A *)
(* change arms a timer; when it fires, the file is overwritten in place    *)
(* with a snapshot: truncated first, written later.  The process may end   *)
(* at any moment: shutdown() does not wait for its last write.             *)
(***************************************************************************)
EXTENDS Naturals, FiniteSets

CONSTANTS Values,   \* of what the pages store
          Roots,    \* workspace directories
          Home,     \* the one the server starts with
          Writers   \* bound: writes under way at once

VARIABLES server,        \* "down", "up", or "closing": dispose() has run
          mem,       \* what the router knows
          file,      \* what the file holds: a state, or one that JSON.parse refuses
          armed,     \* globalStateWriteTimer
          writes,    \* the writes under way
          unsaved,   \* active roots changed by open-file, which arms no timer
          spoiled,   \* the last write to end had failed, or overlapped another one
          cut        \* the process ended while a write had the file truncated

globalVars == <<server, mem, file, armed, writes, unsaved, spoiled, cut>>

None == "none"

ASSUME GlobalAssumption == Home \in Roots /\ Home # None

States == [stored : Values \cup {None}, saved : SUBSET {Home}, active : Roots \cup {None}]

GlobalTypeOK ==
  /\ server \in {"down", "up", "closing"} /\ mem \in States
  /\ file \in [text : {"none", "empty", "garbled", "state"}, state : States]
  /\ armed \in BOOLEAN /\ unsaved \in BOOLEAN /\ spoiled \in BOOLEAN /\ cut \in BOOLEAN
  /\ DOMAIN writes = Writers
  /\ \A i \in Writers : writes[i].step \in {"idle", "mkdir", "open"} /\ writes[i].payload \in States

Defaults == [stored |-> None, saved |-> {Home}, active |-> Home]
Idle == [step |-> "idle", payload |-> Defaults, alone |-> TRUE]

\* The file: there is none, it is empty or no JSON any more, or it holds a state.
Unreadable(text) == [text |-> text, state |-> Defaults]
Holds(state) == [text |-> "state", state |-> state]

\* _loadPersistedGlobalState: what does not parse is ignored, as are roots without a member.
Loaded(state) ==
  [state EXCEPT !.saved = IF @ = {} THEN {Home} ELSE @, !.active = IF @ = None THEN Home ELSE @]
Load == IF file.text = "state" THEN Loaded(file.state) ELSE Defaults

GlobalInit ==
  /\ server = "down" /\ mem = Defaults /\ file = Unreadable("none")
  /\ armed = FALSE /\ writes = [i \in Writers |-> Idle]
  /\ unsaved = FALSE /\ spoiled = FALSE /\ cut = FALSE

Boot ==
  /\ server = "down"
  /\ server' = "up" /\ mem' = Load /\ unsaved' = FALSE /\ spoiled' = FALSE
  /\ UNCHANGED <<file, armed, writes, cut>>

Busy == {i \in Writers : writes[i].step # "idle"}

\* Mutant: a write under way is trusted to save the change.
ScheduledByWriter == armed' = (armed \/ Busy = {})
\* _scheduleGlobalStateWrite: a timer that was armed is started again.
Scheduled == armed' = TRUE

Changes(state) ==
  /\ server # "down"
  /\ mem' = state /\ Scheduled
  /\ UNCHANGED <<server, file, writes, unsaved, spoiled, cut>>

\* set-global-state (null deletes), persisted-atom-update and persisted-atom-reset.
SetGlobal(v) == Changes([mem EXCEPT !.stored = v])
SetAtom(v) == Changes([mem EXCEPT !.stored = v])
SaveRoots(roots) == Changes([mem EXCEPT !.saved = roots])
ActivateRoot(r) == Changes([mem EXCEPT !.active = r])
\* set-global-state with active roots of which none is left.
DeactivateRoots == Changes([mem EXCEPT !.active = None])
SkipOnboarding == Changes([mem EXCEPT !.saved = {Home}, !.active = Home])

\* open-file makes the file's root the active one, and does not persist it.
OpenFile(r) ==
  /\ server # "down" /\ r # mem.active
  /\ mem' = [mem EXCEPT !.active = r] /\ unsaved' = TRUE
  /\ UNCHANGED <<server, file, armed, writes, spoiled, cut>>

\* _buildGlobalStatePayload takes the snapshot before anything is awaited.
WriteBegins ==
  /\ unsaved' = FALSE
  /\ \E i \in Writers \ Busy :
       writes' = [j \in Writers |->
         IF j = i THEN [step |-> "mkdir", payload |-> mem, alone |-> Busy = {}]
         ELSE [writes[j] EXCEPT !.alone = j \notin Busy]]

TimerFires ==
  /\ server # "down" /\ armed
  /\ armed' = FALSE
  /\ WriteBegins
  /\ UNCHANGED <<server, mem, file, spoiled, cut>>

\* The directory is there; the file is opened, which empties it.
WriteOpens(i) ==
  /\ writes[i].step = "mkdir"
  /\ file' = Unreadable("empty")
  /\ writes' = [writes EXCEPT ![i].step = "open"]
  /\ UNCHANGED <<server, mem, armed, unsaved, spoiled, cut>>

\* Over what another write left since, a shorter text keeps the end of the longer one.
WriteEnds(i) ==
  /\ writes[i].step = "open"
  /\ file' \in {Holds(writes[i].payload)} \cup IF file.text = "empty" THEN {} ELSE {Unreadable("garbled")}
  /\ writes' = [writes EXCEPT ![i] = Idle]
  /\ spoiled' = ~writes[i].alone
  /\ cut' = (cut /\ ~writes[i].alone)
  /\ UNCHANGED <<server, mem, armed, unsaved>>

\* No space, no right: a warning, and no other attempt.
WriteFails(i) ==
  /\ i \in Busy
  /\ writes' = [writes EXCEPT ![i] = Idle]
  /\ spoiled' = TRUE
  /\ UNCHANGED <<server, mem, file, armed, unsaved, cut>>

\* dispose() of the router, of which this is the part that concerns the file.
DisposeState ==
  /\ server = "up" /\ server' = "closing"
  /\ armed' = FALSE
  /\ IF armed THEN WriteBegins ELSE UNCHANGED <<writes, unsaved>>
  /\ UNCHANGED <<mem, file, spoiled, cut>>

\* A crash, or the process.exit at the end of shutdown().
ProcessEnds ==
  /\ server # "down" /\ server' = "down"
  /\ armed' = FALSE /\ writes' = [i \in Writers |-> Idle]
  /\ cut' = (cut \/ spoiled \/ \E i \in Writers : writes[i].step = "open")
  /\ UNCHANGED <<mem, file, unsaved, spoiled>>

GlobalNext ==
  \/ Boot \/ TimerFires \/ DisposeState \/ ProcessEnds \/ SkipOnboarding \/ DeactivateRoots
  \/ \E v \in Values \cup {None} : SetGlobal(v) \/ SetAtom(v)
  \/ \E roots \in SUBSET {Home} : SaveRoots(roots)
  \/ \E r \in Roots : ActivateRoot(r) \/ OpenFile(r)
  \/ \E i \in Writers : WriteOpens(i) \/ WriteEnds(i) \/ WriteFails(i)

----------------------------------------------------------------------------
(* Once nothing is to be written any more, a restart would bring back what the *)
(* server knows, and the file can be read, always: but for the ways out named  *)
(* here.  open-file changes what is not written; a failed write is not tried   *)
(* again; of two writes that overlap the older may be the last; and a process  *)
(* that ends in a write leaves an empty file, with all that was persisted lost.*)
DiskFollowsMemory ==
  /\ server # "down" /\ ~armed /\ Busy = {} /\ ~unsaved /\ ~spoiled => Load = Loaded(mem)
  /\ file.text \in {"empty", "garbled"} => spoiled \/ cut \/ \E i \in Busy : writes[i].step = "open"
=============================================================================
