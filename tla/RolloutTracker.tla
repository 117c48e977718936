--------------------------- MODULE RolloutTracker ---------------------------
(***************************************************************************)
(* The thread that watches a session's rollout file and tells Chrome that  *)
(* a turn has ended: rollout.rs.  Relay readers send it the turns that     *)
(* requests name, over a bounded channel; twice a second it looks for the  *)
(* file of each turn, reads on from where it stopped and reports the turns *)
(* whose line is there.  The file grows by half lines: a write of the      *)
(* session may be seen before its newline.                                 *)
(***************************************************************************)
EXTENDS Naturals, Sequences, FiniteSetsExt

CONSTANTS Turns,       \* turns of one session, which has one file
          MaxObserved, \* MAX_OBSERVED_TURNS
          TailSize,    \* INITIAL_TAIL_BYTES, in half lines
          MaxRequests, \* bound: requests
          MaxFile      \* bound: half lines in the file

ASSUME RolloutAssumption ==
  /\ MaxObserved \in Nat \ {0} /\ TailSize \in Nat \ {0} /\ MaxRequests \in Nat /\ MaxFile \in Nat
  /\ "none" \notin Turns

VARIABLES requests,    \* how many requests named a turn (history)
          inbox,    \* the channel of observations
          tracked,  \* the turns in `observed'
          located,  \* those of them with a path
          offset,   \* where the next read of a turn starts
          old,      \* turns tracked for longer than OBSERVED_TURN_TTL
          passing,  \* what a pass of process_observed has still to look at; {} while receiving
          ending,   \* the turn whose turnEnded is being sent
          out,      \* the channel to Chrome
          reading,  \* the writer of Chrome's output lives
          reported, \* how many turnEnded a turn had (history)
          there,    \* the file exists
          rollout,  \* its half lines
          excused   \* tracked turns whose line may lie behind their offset

rolloutVars == <<requests, inbox, tracked, located, offset, old, passing, ending, out,
                 reading, reported, there, rollout, excused>>
fileVars == <<there, rollout>>
trackVars == <<tracked, located, offset, old>>

NoTurn == "none"
HalfLine == [of : Turns \cup {NoTurn}, last : BOOLEAN]

RolloutTypeOK ==
  /\ requests \in [Turns -> Nat] /\ reported \in [Turns -> Nat]
  /\ inbox \in Seq(Turns) /\ Len(inbox) <= MaxObserved
  /\ tracked \in SUBSET Turns /\ located \in SUBSET tracked /\ old \in SUBSET tracked
  /\ offset \in [Turns -> 0..MaxFile] /\ passing \in SUBSET tracked
  /\ reading \in BOOLEAN /\ there \in BOOLEAN
  /\ ending \in Turns \cup {NoTurn} /\ out \in Seq(Turns) /\ Len(out) <= 1
  /\ rollout \in Seq(HalfLine) /\ Len(rollout) <= MaxFile
  /\ excused \in SUBSET tracked

RolloutInit ==
  /\ requests = [t \in Turns |-> 0] /\ reported = [t \in Turns |-> 0] /\ inbox = <<>>
  /\ tracked = {} /\ located = {} /\ old = {} /\ offset = [t \in Turns |-> 0]
  /\ passing = {} /\ ending = NoTurn /\ out = <<>> /\ reading = TRUE
  /\ there = FALSE /\ rollout = <<>> /\ excused = {}

\* line_marks_turn_complete, of the line that begins at i; it must have its newline
BeginsEnd(i, t) == rollout[i].of = t /\ ~rollout[i].last
EndsAt(i, t) == i \in 1..(Len(rollout) - 1) /\ BeginsEnd(i, t)
HasEnded(t) == \E i \in 1..Len(rollout) : EndsAt(i, t)

-----------------------------------------------------------------------------
(* The session writes its file; it may also start the file again.            *)

SessionWrites ==
  /\ Len(rollout) < MaxFile
  /\ there' = TRUE
  /\ IF rollout # <<>> /\ ~rollout[Len(rollout)].last
     THEN rollout' = Append(rollout, [rollout[Len(rollout)] EXCEPT !.last = TRUE])
     ELSE \E t \in {u \in Turns : \A i \in 1..Len(rollout) : rollout[i].of # u} \cup {NoTurn} :
            rollout' = Append(rollout, [of |-> t, last |-> FALSE])
  /\ UNCHANGED <<requests, inbox, trackVars, passing, ending, out, reading, reported, excused>>

\* What is written next may lie before an offset kept, unless a read finds the file
\* shorter first.
SessionTruncates ==
  /\ rollout # <<>> /\ rollout' = <<>>
  /\ excused' = excused \cup {t \in located : offset[t] > 0}
  /\ UNCHANGED <<requests, inbox, trackVars, passing, ending, out, reading, reported, there>>

-----------------------------------------------------------------------------
(* The channels.                                                             *)

Requested == MapThenSumSet(LAMBDA t : requests[t], Turns)

\* observe_request: a relay reader's send blocks while the channel is full
Observe(t) ==
  /\ Requested < MaxRequests /\ Len(inbox) < MaxObserved
  /\ requests' = [requests EXCEPT ![t] = @ + 1] /\ inbox' = Append(inbox, t)
  /\ UNCHANGED <<trackVars, passing, ending, out, reading, reported, fileVars, excused>>

\* insert_observation: a turn that is tracked is not tracked anew, one too many is dropped
Insert ==
  LET t == Head(inbox) IN
  /\ passing = {} /\ inbox # <<>> /\ inbox' = Tail(inbox)
  /\ IF t \notin tracked /\ Cardinality(tracked) < MaxObserved
     THEN tracked' = tracked \cup {t} /\ offset' = [offset EXCEPT ![t] = 0]
     ELSE UNCHANGED <<tracked, offset>>
  /\ UNCHANGED <<requests, located, old, passing, ending, out, reading, reported, fileVars, excused>>

ChromeTakes ==
  /\ out # <<>> /\ out' = Tail(out)
  /\ UNCHANGED <<requests, inbox, trackVars, passing, ending, reading, reported, fileVars, excused>>

\* The writer of Chrome's output ends and drops what is in its channel
ChromeGone ==
  /\ reading /\ reading' = FALSE /\ out' = <<>>
  /\ UNCHANGED <<requests, inbox, trackVars, passing, ending, reported, fileVars, excused>>

-----------------------------------------------------------------------------
(* process_observed: a pass looks at every turn once, in any order.          *)

Ages(t) ==
  /\ t \in tracked \ old /\ old' = old \cup {t}
  /\ UNCHANGED <<requests, inbox, tracked, located, offset, passing, ending, out, reading, reported,
                 fileVars, excused>>

PassBegins ==
  /\ passing = {} /\ inbox = <<>> /\ tracked # {}
  /\ passing' = tracked
  /\ UNCHANGED <<requests, inbox, trackVars, ending, out, reading, reported, fileVars, excused>>

LooksAt(t) == ending = NoTurn /\ t \in passing

\* Mutant: a reported turn stays.
StaysTracked(t) == passing' = passing \ {t} /\ UNCHANGED <<tracked, located, old, excused>>
\* Turns are removed when the pass is over; nobody asks for them before.
Forgets(t) ==
  /\ tracked' = tracked \ {t} /\ located' = located \ {t} /\ old' = old \ {t}
  /\ passing' = passing \ {t} /\ excused' = excused \ {t}

Expires(t) ==
  /\ LooksAt(t) /\ t \in old /\ Forgets(t)
  /\ UNCHANGED <<requests, inbox, offset, ending, out, reading, reported, fileVars>>

\* Mutant: the subtraction does not saturate.
FarBack == Len(rollout) - TailSize
\* The first read starts TailSize before the end, perhaps within a line
FirstOffset == IF Len(rollout) > TailSize THEN Len(rollout) - TailSize ELSE 0

\* Its size may not be known.  No file yet: the turn waits for a later
\* pass (a bounded backoff).
Discover(t) ==
  /\ LooksAt(t) /\ t \notin old \cup located
  /\ IF there
     THEN \E o \in {FirstOffset, 0} :
          /\ located' = located \cup {t} /\ offset' = [offset EXCEPT ![t] = o]
          /\ excused' = excused \cup {u \in {t} : \E i \in 1..o : BeginsEnd(i, u)}
          /\ UNCHANGED passing
     ELSE passing' = passing \ {t} /\ UNCHANGED <<located, offset, excused>>
  /\ UNCHANGED <<requests, inbox, tracked, old, ending, out, reading, reported, fileVars>>

\* A file shorter than the offset is read from its beginning
ReadsFrom(t) == IF offset[t] > Len(rollout) THEN 0 ELSE offset[t]

\* Mutant: half a line is not read again.
PastTheEnd(start) == Len(rollout)
\* A line without its newline is read again, from its beginning
NextOffset(start) ==
  IF Len(rollout) > start /\ ~rollout[Len(rollout)].last THEN Len(rollout) - 1 ELSE Len(rollout)

\* drain_rollout_file
Drain(t) ==
  /\ LooksAt(t) /\ t \in located \ old
  /\ offset' = [offset EXCEPT ![t] = NextOffset(ReadsFrom(t))]
  /\ IF \E i \in (ReadsFrom(t) + 1)..Len(rollout) : EndsAt(i, t)
     THEN ending' = t /\ UNCHANGED passing
     ELSE passing' = passing \ {t} /\ UNCHANGED ending
  /\ excused' = IF ReadsFrom(t) = 0 THEN excused \ {t} ELSE excused
  /\ UNCHANGED <<requests, inbox, tracked, located, old, out, reading, reported, fileVars>>

DrainFails(t) ==
  /\ LooksAt(t) /\ t \in located \ old /\ passing' = passing \ {t}
  /\ UNCHANGED <<requests, inbox, trackVars, ending, out, reading, reported, fileVars, excused>>

\* Mutant: a full channel is not waited for.
TriesTurnEnded ==
  /\ ending # NoTurn /\ Forgets(ending) /\ ending' = NoTurn
  /\ IF reading /\ out = <<>>
     THEN out' = Append(out, ending) /\ reported' = [reported EXCEPT ![ending] = @ + 1]
     ELSE UNCHANGED <<out, reported>>
  /\ UNCHANGED <<requests, inbox, offset, reading, fileVars>>

\* The send blocks while the channel is full, and fails when Chrome's writer has ended
TurnEnded ==
  /\ ending # NoTurn /\ Forgets(ending) /\ ending' = NoTurn
  /\ IF reading
     THEN /\ out = <<>> /\ out' = Append(out, ending)
          /\ reported' = [reported EXCEPT ![ending] = @ + 1]
     ELSE UNCHANGED <<out, reported>>
  /\ UNCHANGED <<requests, inbox, offset, reading, fileVars>>

-----------------------------------------------------------------------------

RolloutNext ==
  \/ SessionWrites \/ SessionTruncates \/ ChromeTakes \/ ChromeGone
  \/ Insert \/ PassBegins \/ TurnEnded
  \/ \E t \in Turns :
       Observe(t) \/ Ages(t) \/ Expires(t) \/ Discover(t) \/ Drain(t) \/ DrainFails(t)

(* A turn's line is never behind the offset from which the turn will be read,  *)
(* however the writes of the line and the reads of the file fall: half a line  *)
(* that was read is read again.  Excused is a turn that ended further back     *)
(* than the first read goes, or whose file was started again and had grown     *)
(* past the offset before it was read.                                         *)
NothingSkipped ==
  \A t \in located \ (excused \cup {ending}) :
    \A i \in 1..Len(rollout) : BeginsEnd(i, t) => i > ReadsFrom(t)

(* Every turnEnded goes back to a request that named the turn, and to its own: *)
(* a turn observed while it is tracked, or while the observation of an earlier *)
(* request still waits, is not reported twice for it.                          *)
OncePerRequest ==
  \A t \in Turns :
    reported[t] + Cardinality({i \in 1..Len(inbox) : inbox[i] = t})
      + Cardinality({t} \cap tracked) <= requests[t]

ReportsAreSound == NothingSkipped /\ OncePerRequest

(* A tracked turn that has ended is reported, unless it is too old, its line   *)
(* is out of the read's reach or gone from the file, or Chrome has left.       *)
TurnsReported ==
  \A t \in Turns :
    (t \in tracked /\ HasEnded(t)) ~> (out = <<t>> \/ t \in old \cup excused \/ ~HasEnded(t) \/ ~reading)
=============================================================================
