---------------------------- MODULE RouterProofs ----------------------------
(***************************************************************************)
(* What the router of the web server keeps for any number of windows,      *)
(* terminals, shells, requests and fetches.  Each of the three components  *)
(* has its own invariant, kept by its own steps and by what the router does*)
(* to it when a window leaves or when it is disposed of; the last section  *)
(* joins them with the set of windows.                                     *)
(***************************************************************************)
EXTENDS Router, FiniteSetTheorems, TLAPS

----------------------------------------------------------------------------
(* Fetches.  Nobody cancels a fetch before it begins.                          *)
NotYetAborted == \A f \in Fids : fetches[f] = "unasked" => f \notin aborted
FetchInv == FetchTypeOK /\ NotYetAborted /\ FetchAnsweredOnce

\* It holds at the start.
LEMMA FetchStarts == FetchInit => FetchInv
<1> SUFFICES ASSUME FetchInit PROVE FetchInv
    OBVIOUS
<1>1. Cardinality({}) = 0
      BY FS_EmptySet
<1>2. replies \in [Fids -> 0..2] /\ \A f \in Fids : replies[f] = 0 /\ owners[f] = {} /\ fetches[f] = "unasked"
      BY DEF FetchInit
<1> QED
    BY <1>1, <1>2 DEF FetchInit, FetchInv, FetchTypeOK, NotYetAborted, FetchAnsweredOnce

\* One fetch goes to another stage, and is answered if that is its end.
FetchGoes(f, stage) ==
  /\ fetches' = [fetches EXCEPT ![f] = stage]
  /\ IF stage = "done" THEN Reply(f) ELSE UNCHANGED replies

Stages == {"unasked", "reading", "running", "token", "network", "done", "thrown"}

LEMMA OneFetch ==
  ASSUME FetchInv, NEW f \in Fids, NEW stage \in Stages \ {"unasked"}, FetchGoes(f, stage),
         fetches[f] \notin {"done", "thrown"},
         owners' \in [Fids -> SUBSET Windows], \A g \in Fids : Cardinality(owners'[g]) <= 1,
         aborted' = aborted, controllers' \subseteq Fids,
         \A g \in Fids \ {f} : g \in controllers' <=> g \in controllers,
         f \in controllers' <=> stage \in {"token", "network"} /\ f \notin aborted
  PROVE  FetchInv'
<1>t. FetchTypeOK /\ NotYetAborted /\ FetchAnsweredOnce
      BY DEF FetchInv
<1>1. /\ fetches' \in [Fids -> Stages] /\ fetches'[f] = stage
      /\ \A g \in Fids \ {f} : fetches'[g] = fetches[g]
      BY <1>t DEF FetchTypeOK, FetchGoes, Stages
<1>2. replies[f] = 0 /\ \A g \in Fids : replies[g] \in {0, 1}
      BY <1>t DEF FetchAnsweredOnce
<1>3. /\ replies' \in [Fids -> 0..2] /\ replies'[f] = IF stage = "done" THEN 1 ELSE 0
      /\ \A g \in Fids \ {f} : replies'[g] = replies[g]
  <2>1. CASE stage = "done"
    <3>1. replies' = [replies EXCEPT ![f] = 1]
          BY <1>2, <2>1 DEF FetchGoes, Reply
    <3> QED
        BY <1>t, <2>1, <3>1 DEF FetchTypeOK
  <2>2. CASE stage # "done"
        BY <1>t, <1>2, <2>2 DEF FetchTypeOK, FetchGoes
  <2> QED
      BY <2>1, <2>2
<1>4. FetchTypeOK'
      BY <1>t, <1>1, <1>3 DEF FetchTypeOK, Stages
<1>5. NotYetAborted'
      BY <1>t, <1>1 DEF NotYetAborted
<1>6. FetchAnsweredOnce'
      BY <1>t, <1>1, <1>3 DEF FetchAnsweredOnce
<1> QED
    BY <1>4, <1>5, <1>6 DEF FetchInv

LEMMA FetchSteps ==
  ASSUME FetchInv, clients \subseteq Windows,
         FetchNext(clients) \/ FetchesDispose \/ UNCHANGED fetchVars
  PROVE  FetchInv'
<1>t. FetchTypeOK /\ NotYetAborted /\ FetchAnsweredOnce
      BY DEF FetchInv
<1>1. ASSUME NEW f \in Fids, NEW w \in clients, FetchBegin(w, f) PROVE FetchInv'
  <2>1. PICK now \in Stages \ {"unasked", "thrown"} :
          /\ fetches' = [fetches EXCEPT ![f] = now]
          /\ controllers' = IF now \in {"token", "network"} THEN controllers \cup {f} ELSE controllers
          /\ IF now = "done" THEN Reply(f) ELSE UNCHANGED replies
        BY <1>1 DEF FetchBegin, FirstStages, Prepares, VirtualFetch, StateEndpoints, FileEndpoints, LocalEnvironments,
             CommandEndpoints, SettingEndpoints, PullRequestEndpoints, Stages
  <2>2. fetches[f] = "unasked" /\ aborted' = aborted /\ f \notin aborted /\ f \notin controllers
        BY <1>t, <1>1 DEF FetchBegin, NotYetAborted, FetchAnsweredOnce
  <2>3. owners' \in [Fids -> SUBSET Windows] /\ \A g \in Fids : Cardinality(owners'[g]) <= 1
    <3>1. Cardinality({w}) = 1
          BY FS_Singleton
    <3>2. owners' = [owners EXCEPT ![f] = {w}]
          BY <1>1 DEF FetchBegin
    <3>3. \A g \in Fids : owners'[g] = IF g = f THEN {w} ELSE owners[g]
          BY <1>t, <3>2 DEF FetchTypeOK
    <3> QED
        BY <1>t, <3>1, <3>2, <3>3 DEF FetchTypeOK
  <2>4. controllers' \subseteq Fids
        BY <1>t, <2>1 DEF FetchTypeOK
  <2> QED
      BY <2>1, <2>2, <2>3, <2>4, OneFetch DEF FetchGoes
<1>2. ASSUME NEW f \in Fids, FetchEnds(f) PROVE FetchInv'
  <2>1. owners' = owners /\ aborted' = aborted /\ fetches[f] \notin {"done", "thrown", "unasked"}
        BY <1>2 DEF FetchEnds, VirtualEnds, VirtualThrows, TokenResolves, NetworkEnds, Finish
  <2>2. PICK stage \in Stages \ {"unasked"} :
          /\ FetchGoes(f, stage)
          /\ \/ stage \in {"done", "thrown"} /\ controllers' = controllers \ {f}
             \/ stage = "network" /\ fetches[f] = "token" /\ f \notin aborted /\ controllers' = controllers
    <3>1. CASE VirtualEnds(f)
          BY <1>t, <3>1 DEF VirtualEnds, FetchGoes, Stages, FetchAnsweredOnce
    <3>2. CASE VirtualThrows(f)
          BY <1>t, <3>2 DEF VirtualThrows, FetchGoes, Stages, FetchAnsweredOnce
    <3>3. CASE Finish(f)
          BY <3>3 DEF Finish, FetchGoes, Stages
    <3>4. CASE TokenResolves(f) /\ ~Finish(f)
          BY <3>4 DEF TokenResolves, FetchGoes, Stages
    <3> QED
        BY <1>2, <3>1, <3>2, <3>3, <3>4 DEF FetchEnds, NetworkEnds
  <2>3. controllers' \subseteq Fids /\ (f \in controllers' <=> stage \in {"token", "network"} /\ f \notin aborted)
        BY <1>t, <2>2 DEF FetchTypeOK, FetchAnsweredOnce
  <2>4. owners' \in [Fids -> SUBSET Windows] /\ \A g \in Fids : Cardinality(owners'[g]) <= 1
        BY <1>t, <2>1 DEF FetchTypeOK
  <2> QED
      BY <2>1, <2>2, <2>3, <2>4, OneFetch
<1>3. ASSUME NEW f \in Fids, FetchCancel(f) PROVE FetchInv'
      BY <1>t, <1>3 DEF FetchCancel, FetchInv, FetchTypeOK, NotYetAborted, FetchAnsweredOnce
<1>4. CASE FetchesDispose
      BY <1>t, <1>4 DEF FetchesDispose, FetchInv, FetchTypeOK, NotYetAborted, FetchAnsweredOnce
<1>5. CASE UNCHANGED fetchVars
      BY <1>t, <1>5 DEF fetchVars, FetchInv, FetchTypeOK, NotYetAborted, FetchAnsweredOnce
<1> QED
    BY <1>1, <1>2, <1>3, <1>4, <1>5 DEF FetchNext

----------------------------------------------------------------------------
(* The git worker.  An id is posted once, then is with the worker, then its    *)
(* answer is under way; and whoever cancels has withdrawn.                     *)
Posted(r, kind) == [id |-> r, kind |-> kind] \in posts

Travels(r) ==
  /\ asker[r] = Nobody => got[r] = {} /\ ~Posted(r, "request") /\ ~Posted(r, "cancel") /\ r \notin work \cup answers
  /\ Posted(r, "request") => r \notin work \cup answers
  /\ r \notin work \cap answers
  /\ Posted(r, "cancel") => r \in withdrawn

RightlyAnswered(r) ==
  r \notin withdrawn =>
    /\ got[r] \subseteq {asker[r]}
    /\ r \in work \cup answers => r \in DOMAIN pending /\ pending[r] = asker[r]

GitInv == GitTypeOK /\ \A r \in Asks : Travels(r) /\ RightlyAnswered(r)

\* It holds at the start.
LEMMA GitStarts == GitInit => GitInv
  BY DEF GitInit, GitInv, GitTypeOK, Travels, RightlyAnswered, Posted

LEMMA GitSteps ==
  ASSUME GitInv, clients \subseteq Windows,
         GitNext(clients) \/ (\E w \in Windows : GitLose(w)) \/ GitDispose \/ UNCHANGED gitVars
  PROVE  GitInv'
<1>t. GitTypeOK /\ \A r \in Asks : Travels(r) /\ RightlyAnswered(r)
      BY DEF GitInv
<1> USE DEF GitTypeOK
<1>1. ASSUME NEW w \in clients, NEW r \in Asks, GitAsk(w, r) PROVE GitInv'
  <2>1. /\ asker[r] = Nobody /\ asker' \in [Asks -> Windows \cup {Nobody}] /\ asker'[r] = w /\ w # Nobody
        /\ \A q \in Asks \ {r} : asker'[q] = asker[q]
        /\ posts' = posts \cup {[id |-> r, kind |-> "request"]}
        /\ UNCHANGED <<pending, worker, work, answers, withdrawn, got>>
        BY <1>t, <1>1, GitAssumption DEF GitAssumption, GitAsk
  <2>2. GitTypeOK'
        BY <1>t, <2>1 DEF Kinds
  <2>3. ASSUME NEW q \in Asks PROVE Travels(q)' /\ RightlyAnswered(q)'
        BY <1>t, <2>1, <2>3 DEF Travels, RightlyAnswered, Posted
  <2> QED
      BY <2>2, <2>3 DEF GitInv
<1>2. ASSUME NEW w \in clients, NEW r \in Asks, GitCancel(w, r) PROVE GitInv'
  <2>1. /\ asker[r] = w /\ w # Nobody /\ withdrawn' = withdrawn \cup {r}
        /\ posts' = posts \cup {[id |-> r, kind |-> "cancel"]}
        /\ UNCHANGED <<pending, worker, work, answers, asker, got>>
        BY <1>2, GitAssumption DEF GitAssumption, GitCancel
  <2>2. GitTypeOK'
        BY <1>t, <2>1 DEF Kinds
  <2>3. ASSUME NEW q \in Asks PROVE Travels(q)' /\ RightlyAnswered(q)'
        BY <1>t, <2>1, <2>3 DEF Travels, RightlyAnswered, Posted
  <2> QED
      BY <2>2, <2>3 DEF GitInv
<1>3. ASSUME NEW post \in posts, GitUnavailable(post, clients) PROVE GitInv'
  <2>1. /\ post.id \in Asks /\ post.kind \in Kinds /\ post = [id |-> post.id, kind |-> post.kind]
        BY <1>t
  <2>2. asker[post.id] # Nobody
        BY <1>t, <2>1 DEF Travels, Posted, Kinds
  <2>3. /\ posts' = posts \ {post} /\ UNCHANGED <<pending, worker, work, answers, asker, withdrawn>>
        /\ got' = [got EXCEPT ![post.id] = @ \cup ({asker[post.id]} \cap clients)]
        BY <1>3 DEF GitUnavailable
  <2>4. /\ got' \in [Asks -> SUBSET Windows]
        /\ \A q \in Asks : got'[q] = IF q = post.id THEN got[q] \cup ({asker[q]} \cap clients) ELSE got[q]
        BY <1>t, <2>1, <2>3
  <2>5. GitTypeOK'
        BY <1>t, <2>3, <2>4
  <2>6. ASSUME NEW q \in Asks PROVE Travels(q)' /\ RightlyAnswered(q)'
        BY <1>t, <2>2, <2>3, <2>4, <2>6 DEF Travels, RightlyAnswered, Posted
  <2> QED
      BY <2>5, <2>6 DEF GitInv
<1>4. ASSUME NEW post \in posts, GitPost(post) PROVE GitInv'
  <2>1. /\ post.id \in Asks /\ post.kind \in Kinds /\ post = [id |-> post.id, kind |-> post.kind]
        BY <1>t
  <2>2. asker[post.id] # Nobody /\ asker[post.id] \in Windows
        BY <1>t, <2>1 DEF Travels, Posted, Kinds
  <2>3. /\ posts' = posts \ {post} /\ UNCHANGED <<answers, asker, got>>
        /\ worker' \in {"none", "live", "gone"}
        /\ work' = IF worker # "gone" /\ post.kind = "request" THEN work \cup {post.id} ELSE work
        /\ withdrawn' = IF worker = "gone" THEN withdrawn \cup {post.id} ELSE withdrawn
        BY <1>t, <1>4 DEF GitPost
  <2>4. CASE post.kind = "request"
    <3>1. /\ DOMAIN pending' = DOMAIN pending \cup {post.id} /\ pending'[post.id] = asker[post.id]
          /\ \A q \in DOMAIN pending \ {post.id} : pending'[q] = pending[q]
          BY <1>4, <2>4 DEF GitPost, Registered, With
    <3>2. GitTypeOK'
          BY <1>t, <2>1, <2>2, <2>3, <3>1
    <3>3. post.id \notin work \cup answers
      <4>1. Posted(post.id, "request")
            BY <2>1, <2>4 DEF Posted
      <4> QED
          BY <1>t, <2>1, <4>1 DEF Travels
    <3>4. ASSUME NEW q \in Asks PROVE Travels(q)'
          BY <1>t, <2>1, <2>2, <2>3, <2>4, <3>3, <3>4 DEF Travels, Posted
    <3>5. ASSUME NEW q \in Asks PROVE RightlyAnswered(q)'
          BY <1>t, <2>1, <2>3, <2>4, <3>1, <3>5 DEF RightlyAnswered
    <3> QED
        BY <3>2, <3>4, <3>5 DEF GitInv
  <2>5. CASE post.kind = "cancel"
    <3>1. /\ DOMAIN pending' = DOMAIN pending \ {post.id}
          /\ \A q \in DOMAIN pending \ {post.id} : pending'[q] = pending[q]
          BY <1>4, <2>5 DEF GitPost, Registered, Without, Restrict
    <3>2. GitTypeOK'
          BY <1>t, <2>1, <2>2, <2>3, <3>1
    <3>3. post.id \in withdrawn
          BY <1>t, <2>1, <2>5 DEF Travels, Posted
    <3>4. ASSUME NEW q \in Asks PROVE Travels(q)'
          BY <1>t, <2>1, <2>2, <2>3, <2>5, <3>4 DEF Travels, Posted
    <3>5. ASSUME NEW q \in Asks PROVE RightlyAnswered(q)'
          BY <1>t, <2>1, <2>3, <2>5, <3>1, <3>3, <3>5 DEF RightlyAnswered
    <3> QED
        BY <3>2, <3>4, <3>5 DEF GitInv
  <2> QED
      BY <2>1, <2>4, <2>5 DEF Kinds
<1>5. ASSUME NEW r \in Asks, GitAnswer(r) PROVE GitInv'
  <2>1. /\ r \in work /\ work' = work \ {r} /\ answers' = answers \cup {r}
        /\ UNCHANGED <<posts, pending, worker, asker, withdrawn, got>>
        BY <1>5 DEF GitAnswer
  <2>2. GitTypeOK'
        BY <1>t, <2>1
  <2>3. ASSUME NEW q \in Asks PROVE Travels(q)' /\ RightlyAnswered(q)'
        BY <1>t, <2>1, <2>3 DEF Travels, RightlyAnswered, Posted
  <2> QED
      BY <2>2, <2>3 DEF GitInv
<1>6. ASSUME NEW r \in Asks, GitDeliver(r, clients) PROVE GitInv'
  <2>1. /\ r \in answers /\ answers' = answers \ {r} /\ UNCHANGED <<posts, worker, work, asker, withdrawn>>
        /\ got' = [got EXCEPT ![r] = @ \cup Receivers(r, clients)]
        BY <1>6 DEF GitDeliver
  <2>2. /\ DOMAIN pending' = DOMAIN pending \ {r}
        /\ \A q \in DOMAIN pending \ {r} : pending'[q] = pending[q]
        BY <1>6 DEF GitDeliver, Without, Restrict
  <2>3. Receivers(r, clients) \subseteq Windows
        BY DEF Receivers
  <2>4. got' \in [Asks -> SUBSET Windows] /\ \A q \in Asks : got'[q] = IF q = r THEN got[q] \cup Receivers(r, clients) ELSE got[q]
        BY <1>t, <2>1, <2>3
  <2>5. r \notin withdrawn => Receivers(r, clients) \subseteq {asker[r]}
        BY <1>t, <2>1 DEF Receivers, RightlyAnswered
  <2>6. GitTypeOK'
        BY <1>t, <2>1, <2>2, <2>4
  <2>7. asker[r] # Nobody /\ r \notin work
        BY <1>t, <2>1 DEF Travels
  <2>8. ASSUME NEW q \in Asks PROVE Travels(q)'
        BY <1>t, <2>1, <2>4, <2>7, <2>8 DEF Travels, Posted
  <2>9. ASSUME NEW q \in Asks PROVE RightlyAnswered(q)'
        BY <1>t, <2>1, <2>2, <2>4, <2>5, <2>7, <2>9 DEF RightlyAnswered
  <2> QED
      BY <2>6, <2>8, <2>9 DEF GitInv
<1>7. CASE GitWorkerDies \/ GitWorkerExit
      BY <1>t, <1>7 DEF GitWorkerDies, GitWorkerExit, GitInv, Travels, RightlyAnswered, Posted
<1>8. ASSUME NEW w \in Windows, GitLose(w) PROVE GitInv'
  <2>1. /\ DOMAIN pending' = {q \in DOMAIN pending : pending[q] # w}
        /\ \A q \in DOMAIN pending' : pending'[q] = pending[q]
        /\ withdrawn' = withdrawn \cup {r \in Asks : asker[r] = w}
        /\ UNCHANGED <<posts, worker, work, answers, asker, got>>
        BY <1>8 DEF GitLose
  <2>2. GitTypeOK'
        BY <1>t, <2>1
  <2>3. ASSUME NEW q \in Asks PROVE Travels(q)' /\ RightlyAnswered(q)'
        BY <1>t, <2>1, <2>3 DEF Travels, RightlyAnswered, Posted
  <2> QED
      BY <2>2, <2>3 DEF GitInv
<1>9. CASE GitDispose
      BY <1>t, <1>9 DEF GitDispose, GitInv, Travels, RightlyAnswered, Posted
<1>10. CASE UNCHANGED gitVars
      BY <1>t, <1>10 DEF gitVars, GitInv, Travels, RightlyAnswered, Posted
<1> QED
    BY <1>1, <1>2, <1>3, <1>4, <1>5, <1>6, <1>7, <1>8, <1>9, <1>10 DEF GitNext, GitResolves

----------------------------------------------------------------------------
(* Terminals.  What is still to be heard of a shell fits how it ended, and was *)
(* not told before.                                                            *)
DueOf(p) ==
  /\ shells[p].st \in {"unborn", "running"} => shells[p].due = {} /\ told[p] = 0
  /\ shells[p].st = "over" => shells[p].due \subseteq {"line", "exit"}
  /\ shells[p].st = "failed" => shells[p].due \subseteq {"error"}
  /\ "line" \in shells[p].due /\ "exit" \in shells[p].due => told[p] = 0
  /\ shells[p].due # {} => told[p] <= 1

ToBeHeard(p) == shells[p].st = "running" \/ shells[p].due # {}

\* Of an id that was not created again too early: the one shell still to be heard of is
\* its terminal's, and one that runs and was not told to stop has its terminal.
Heard(p) ==
  shells[p].id \notin rebuilt =>
    /\ told[p] <= 1
    /\ shells[p].st = "running" /\ ~shells[p].killed => shells[p].id \in DOMAIN terminals
    /\ ToBeHeard(p) /\ shells[p].id \in DOMAIN terminals => terminals[shells[p].id].shell = p /\ told[p] = 0

Kept(t) ==
  /\ shells[terminals[t].shell].id = t /\ shells[terminals[t].shell].st # "unborn"
  /\ t \notin rebuilt /\ shells[terminals[t].shell].st = "over" => shells[terminals[t].shell].due # {}

TerminalInv ==
  /\ TerminalTypeOK
  /\ \A p \in Shells : DueOf(p) /\ Heard(p)
  /\ \A t \in DOMAIN terminals : Kept(t)

ShellRecord == [st : {"unborn", "running", "over", "failed"}, mode : Modes, killed : BOOLEAN,
                due : SUBSET {"line", "exit", "error"}, id : Tids]

\* It holds at the start.
LEMMA TerminalsStart == TerminalInit => TerminalInv
<1> SUFFICES ASSUME TerminalInit PROVE TerminalInv
    OBVIOUS
<1>1. Unborn \in ShellRecord /\ Unborn.st = "unborn" /\ Unborn.due = {}
      BY TerminalAssumption DEF TerminalAssumption, Unborn, ShellRecord, Modes
<1>2. told \in [Shells -> 0..2] /\ \A p \in Shells : told[p] = 0
      BY DEF TerminalInit
<1>3. TerminalTypeOK
      BY <1>1, <1>2 DEF TerminalInit, TerminalTypeOK, ShellRecord
<1>4. ASSUME NEW p \in Shells PROVE DueOf(p) /\ Heard(p)
      BY <1>1, <1>2, <1>4 DEF TerminalInit, DueOf, Heard, ToBeHeard
<1> QED
    BY <1>3, <1>4 DEF TerminalInv, TerminalInit

\* A terminal is closed, its shell is told to stop; the others may lose listeners.
Closes(ts) ==
  /\ DOMAIN terminals' = DOMAIN terminals \ ts
  /\ \A t \in DOMAIN terminals \ ts :
       terminals'[t] \in [shell : Shells, listeners : SUBSET Windows] /\ terminals'[t].shell = terminals[t].shell
  /\ shells' = [p \in Shells |->
       IF \E t \in ts \cap DOMAIN terminals : terminals[t].shell = p
       THEN [shells[p] EXCEPT !.killed = TRUE] ELSE shells[p]]
  /\ UNCHANGED <<ptys, told, rebuilt>>

LEMMA ClosesKeeps ==
  ASSUME TerminalInv, NEW ts, Closes(ts)
  PROVE  TerminalInv'
<1>t. TerminalTypeOK /\ (\A p \in Shells : DueOf(p) /\ Heard(p)) /\ (\A t \in DOMAIN terminals : Kept(t))
      BY DEF TerminalInv
<1>1. ASSUME NEW p \in Shells
      PROVE  /\ shells'[p] \in ShellRecord /\ shells'[p].st = shells[p].st /\ shells'[p].due = shells[p].due
             /\ shells'[p].id = shells[p].id
             /\ ~shells'[p].killed =>
                  ~shells[p].killed /\ ~(\E t \in ts \cap DOMAIN terminals : terminals[t].shell = p)
  <2>1. shells[p] \in ShellRecord
        BY <1>t, <1>1 DEF TerminalTypeOK, ShellRecord
  <2>2. CASE \E t \in ts \cap DOMAIN terminals : terminals[t].shell = p
    <3>1. shells'[p] = [shells[p] EXCEPT !.killed = TRUE]
          BY <2>2 DEF Closes
    <3> QED
        BY <2>1, <3>1 DEF ShellRecord
  <2>3. CASE ~(\E t \in ts \cap DOMAIN terminals : terminals[t].shell = p)
    <3>1. shells'[p] = shells[p]
          BY <2>3 DEF Closes
    <3> QED
        BY <2>1, <2>3, <3>1
  <2> QED
      BY <2>2, <2>3
<1>2. TerminalTypeOK'
  <2>1. shells' \in [Shells -> ShellRecord]
    <3>1. shells' = [p \in Shells |-> shells'[p]]
          BY DEF Closes
    <3> QED
        BY <1>1, <3>1
  <2> QED
      BY <1>t, <2>1 DEF Closes, TerminalTypeOK, ShellRecord
<1>3. ASSUME NEW p \in Shells PROVE DueOf(p)' /\ Heard(p)'
  <2>1. DueOf(p)'
        BY <1>t, <1>1, <1>3 DEF Closes, DueOf
  <2>2. Heard(p)'
    <3>1. CASE shells[p].id \in rebuilt
          BY <1>1, <3>1 DEF Heard, Closes
    <3>2. CASE shells[p].id \notin rebuilt
      <4>1. told'[p] <= 1
            BY <1>t, <3>2 DEF Closes, Heard
      <4>2. ASSUME shells'[p].st = "running", ~shells'[p].killed PROVE shells'[p].id \in DOMAIN terminals'
            BY <1>t, <1>1, <3>2, <4>2 DEF Closes, Heard, ToBeHeard
      <4>3. ASSUME ToBeHeard(p)', shells'[p].id \in DOMAIN terminals'
            PROVE  terminals'[shells'[p].id].shell = p /\ told'[p] = 0
        <5>1. ToBeHeard(p) /\ shells[p].id \in DOMAIN terminals \ ts
              BY <1>1, <4>3 DEF ToBeHeard, Closes
        <5> QED
            BY <1>t, <1>1, <3>2, <5>1 DEF Heard, Closes
      <4> QED
          BY <4>1, <4>2, <4>3 DEF Heard
    <3> QED
        BY <3>1, <3>2
  <2> QED
      BY <2>1, <2>2
<1>4. ASSUME NEW t \in DOMAIN terminals' PROVE Kept(t)'
  <2>1. t \in DOMAIN terminals \ ts /\ terminals'[t].shell = terminals[t].shell /\ terminals[t].shell \in Shells
        BY <1>t, <1>4 DEF Closes, TerminalTypeOK
  <2> QED
      BY <1>t, <1>1, <2>1 DEF Kept, Closes
<1> QED
    BY <1>2, <1>3, <1>4 DEF TerminalInv

\* What closes terminals: a window, the router, and the leaving of their last listener.
LEMMA Closings ==
  ASSUME TerminalInv, NEW ts, Closing(ts)
  PROVE  Closes(ts)
  BY DEF TerminalInv, TerminalTypeOK, Closing, Closes, Restrict

Deaf(w) == {t \in DOMAIN terminals : terminals[t].listeners \subseteq {w}}

LEMMA Leavings ==
  ASSUME TerminalInv, NEW w \in Windows, TerminalsLose(w)
  PROVE  /\ Closes(Deaf(w))
         /\ \A t \in DOMAIN terminals' : t \in DOMAIN terminals \ Deaf(w) /\ terminals'[t].listeners = terminals[t].listeners \ {w}
<1>1. /\ terminals' = [t \in DOMAIN terminals \ Deaf(w) |-> [terminals[t] EXCEPT !.listeners = @ \ {w}]]
      /\ shells' = [p \in Shells |->
           IF \E t \in Deaf(w) : terminals[t].shell = p THEN [shells[p] EXCEPT !.killed = TRUE] ELSE shells[p]]
      /\ UNCHANGED <<ptys, told, rebuilt>>
      BY DEF TerminalsLose, Deaf
<1>2. Deaf(w) \cap DOMAIN terminals = Deaf(w)
      BY DEF Deaf
<1>3. \A t \in DOMAIN terminals : terminals[t] \in [shell : Shells, listeners : SUBSET Windows]
      BY DEF TerminalInv, TerminalTypeOK
<1> HIDE DEF Deaf
<1> QED
    BY <1>1, <1>2, <1>3 DEF Closes

\* One shell changes, and is the one it was.
OneShell(p, new) ==
  /\ new \in ShellRecord
  /\ shells' = [shells EXCEPT ![p] = new]

LEMMA OtherShells ==
  ASSUME TerminalInv, NEW p \in Shells, NEW new, OneShell(p, new)
  PROVE  /\ shells' \in [Shells -> ShellRecord] /\ shells'[p] = new
         /\ \A q \in Shells \ {p} : shells'[q] = shells[q]
  BY DEF OneShell, TerminalInv, TerminalTypeOK, ShellRecord

\* A window attaches to a terminal there is.
LEMMA AttachKeeps ==
  ASSUME TerminalInv, NEW w \in Windows, NEW t \in Tids, TerminalAttach(w, t)
  PROVE  TerminalInv'
<1>1. /\ DOMAIN terminals' = DOMAIN terminals
      /\ \A u \in DOMAIN terminals : /\ terminals'[u] \in [shell : Shells, listeners : SUBSET Windows]
                                     /\ terminals'[u].shell = terminals[u].shell
      /\ UNCHANGED <<shells, ptys, told, rebuilt>>
      BY DEF TerminalAttach, TerminalInv, TerminalTypeOK
<1> QED
    BY <1>1 DEF TerminalInv, TerminalTypeOK, DueOf, Heard, ToBeHeard, Kept

\* A terminal is created, unless no runtime can be spawned.
LEMMA CreateKeeps ==
  ASSUME TerminalInv, NEW w \in Windows, NEW t \in Tids, TerminalCreate(w, t)
  PROVE  TerminalInv'
<1>t. TerminalTypeOK /\ (\A p \in Shells : DueOf(p) /\ Heard(p)) /\ (\A u \in DOMAIN terminals : Kept(u))
      BY DEF TerminalInv
<1>0. /\ t \notin DOMAIN terminals /\ UNCHANGED told
      /\ NewShell \in Shells /\ shells[NewShell].st = "unborn"
      BY DEF TerminalCreate, NewShell, NewShells
<1>1. PICK s \in Spawns(ptys), starts \in BOOLEAN :
       /\ ptys' = s.left
       /\ IF s.mode = "none"
          THEN starts /\ UNCHANGED <<terminals, shells, rebuilt>>
          ELSE /\ terminals' = With(terminals, t, [shell |-> NewShell, listeners |-> {w}])
               /\ shells' = [shells EXCEPT ![NewShell] = Started(s.mode, t, starts)]
               /\ rebuilt' = IF Unheard(t) = {} THEN rebuilt ELSE rebuilt \cup {t}
      BY DEF TerminalCreate
<1>2. s.mode \in Modes \cup {"none"} /\ ptys' \in SUBSET {"bun", "python"}
  <2>1. \/ s = [mode |-> "bun", left |-> ptys]
        \/ s = [mode |-> "python", left |-> ptys \ {"bun"}]
        \/ s = [mode |-> "pipe", left |-> {}]
        \/ s = [mode |-> "none", left |-> {}]
        BY DEF Spawns
  <2>2. s.mode \in {"bun", "python", "pipe", "none"} /\ s.left \in {ptys, ptys \ {"bun"}, {}}
        BY <2>1
  <2>3. ptys \in SUBSET {"bun", "python"} /\ ptys' = s.left
        BY <1>t, <1>1 DEF TerminalTypeOK
  <2>4. ptys' \in SUBSET {"bun", "python"}
        BY <2>2, <2>3
  <2> QED
      BY <2>2, <2>4 DEF Modes
<1>3. CASE s.mode = "none"
      BY <1>t, <1>0, <1>1, <1>2, <1>3 DEF TerminalInv, TerminalTypeOK, DueOf, Heard, ToBeHeard, Kept
<1>4. CASE s.mode # "none"
  <2> DEFINE n == NewShell
             new == Started(s.mode, t, starts)
  <2>1. /\ new \in ShellRecord /\ new.id = t /\ new.st \in {"running", "failed"}
        /\ new.due = (IF new.st = "running" THEN {} ELSE {"error"})
        BY <1>2, <1>4 DEF Started, ShellRecord, Modes
  <2>2. /\ DOMAIN terminals' = DOMAIN terminals \cup {t}
        /\ terminals'[t] = [shell |-> n, listeners |-> {w}] /\ terminals'[t].shell = n
        /\ \A u \in DOMAIN terminals : terminals'[u] = terminals[u]
        BY <1>0, <1>1, <1>4 DEF With
  <2>3. /\ shells' \in [Shells -> ShellRecord] /\ shells'[n] = new
        /\ \A q \in Shells \ {n} : shells'[q] = shells[q]
        BY <1>0, <1>1, <1>4, <2>1, OtherShells DEF OneShell
  <2>4. rebuilt \subseteq rebuilt' /\ rebuilt' \subseteq rebuilt \cup {t} /\ (t \notin rebuilt' => Unheard(t) = {})
        BY <1>1, <1>4
  <2>5. told[n] = 0 /\ told'[n] = 0
        BY <1>t, <1>0 DEF DueOf
  <2> HIDE DEF n, new
  <2>6. n \in Shells /\ shells[n].st = "unborn"
        BY <1>0 DEF n
  <2>7. TerminalTypeOK'
        BY <1>t, <1>0, <1>2, <2>2, <2>3, <2>4, <2>6 DEF TerminalTypeOK, ShellRecord
  <2>8. ASSUME NEW p \in Shells PROVE DueOf(p)' /\ Heard(p)'
    <3>1. CASE p = n
          BY <2>1, <2>2, <2>3, <2>5, <3>1 DEF DueOf, Heard
    <3>2. CASE p # n
      <4>1. shells'[p] = shells[p] /\ told'[p] = told[p]
            BY <1>0, <2>3, <3>2
      <4>2. DueOf(p)'
            BY <1>t, <4>1 DEF DueOf
      <4>3. shells[p].id = t /\ t \notin rebuilt' => ~ToBeHeard(p)
            BY <2>4 DEF Unheard, ToBeHeard
      <4>4. ToBeHeard(p)' = ToBeHeard(p)
            BY <4>1 DEF ToBeHeard
      <4>5. Heard(p)'
        <5>1. CASE shells[p].id = t
              BY <1>t, <2>4, <4>1, <4>3, <4>4, <5>1 DEF Heard, ToBeHeard
        <5>2. CASE shells[p].id # t
              BY <1>t, <2>2, <2>4, <4>1, <4>4, <5>2 DEF Heard
        <5> QED
            BY <5>1, <5>2
      <4> QED
          BY <4>2, <4>5
    <3> QED
        BY <3>1, <3>2
  <2>9. ASSUME NEW u \in DOMAIN terminals' PROVE Kept(u)'
    <3>1. CASE u = t
          BY <2>1, <2>2, <2>3, <3>1 DEF Kept
    <3>2. CASE u # t
      <4>1. u \in DOMAIN terminals /\ terminals'[u] = terminals[u] /\ terminals[u].shell \in Shells /\ terminals[u].shell # n
            BY <1>t, <2>2, <2>6, <2>9, <3>2 DEF TerminalTypeOK, Kept
      <4> QED
          BY <1>t, <2>3, <2>4, <3>2, <4>1 DEF Kept
    <3> QED
        BY <3>1, <3>2
  <2> QED
      BY <2>7, <2>8, <2>9 DEF TerminalInv
<1> QED
    BY <1>3, <1>4

\* A process ends.
LEMMA ShellEndsKeeps ==
  ASSUME TerminalInv, NEW p \in Shells, ShellEnds(p)
  PROVE  TerminalInv'
<1>t. TerminalTypeOK /\ (\A q \in Shells : DueOf(q) /\ Heard(q)) /\ (\A u \in DOMAIN terminals : Kept(u))
      BY DEF TerminalInv
<1>1. PICK due \in {{"exit"}, {"line", "exit"}} : shells' = [shells EXCEPT ![p].st = "over", ![p].due = due]
      BY DEF ShellEnds
<1> DEFINE new == [shells[p] EXCEPT !.st = "over", !.due = due]
<1>2. shells[p] \in ShellRecord /\ shells[p].st = "running" /\ UNCHANGED <<terminals, ptys, told, rebuilt>>
      BY <1>t DEF ShellEnds, TerminalTypeOK, ShellRecord
<1>3. new \in ShellRecord /\ new.st = "over" /\ new.due = due /\ new.id = shells[p].id /\ due # {}
      BY <1>2 DEF ShellRecord
<1>4. shells' = [shells EXCEPT ![p] = new]
      BY <1>1
<1> HIDE DEF new
<1>5. /\ shells' \in [Shells -> ShellRecord] /\ shells'[p] = new
      /\ \A q \in Shells \ {p} : shells'[q] = shells[q]
      BY <1>3, <1>4, OtherShells DEF OneShell
<1>6. TerminalTypeOK'
      BY <1>t, <1>2, <1>5 DEF TerminalTypeOK, ShellRecord
<1>7. ASSUME NEW q \in Shells PROVE DueOf(q)' /\ Heard(q)'
  <2>1. CASE q = p
    <3>1. told[p] = 0 /\ ToBeHeard(p)
          BY <1>t, <1>2 DEF DueOf, ToBeHeard
    <3>2. DueOf(p)'
          BY <1>2, <1>3, <1>5, <3>1 DEF DueOf
    <3>3. Heard(p)'
          BY <1>t, <1>2, <1>3, <1>5, <3>1 DEF Heard
    <3> QED
        BY <2>1, <3>2, <3>3
  <2>2. CASE q # p
        BY <1>t, <1>2, <1>5, <2>2 DEF DueOf, Heard, ToBeHeard
  <2> QED
      BY <2>1, <2>2
<1>8. ASSUME NEW u \in DOMAIN terminals' PROVE Kept(u)'
  <2>1. terminals' = terminals /\ rebuilt' = rebuilt /\ terminals[u].shell \in Shells
        BY <1>t, <1>2, <1>8 DEF TerminalTypeOK
  <2>2. CASE terminals[u].shell = p
        BY <1>t, <1>2, <1>3, <1>5, <1>8, <2>1, <2>2 DEF Kept
  <2>3. CASE terminals[u].shell # p
        BY <1>t, <1>5, <1>8, <2>1, <2>3 DEF Kept
  <2> QED
      BY <2>2, <2>3
<1> QED
    BY <1>6, <1>7, <1>8 DEF TerminalInv

\* The end of a shell is heard: it is told, and the terminal of the id forgotten.
LEMMA HearEndKeeps ==
  ASSUME TerminalInv, NEW p \in Shells, NEW e \in {"line", "exit"}, HearEnd(p, e)
  PROVE  TerminalInv'
<1>t. TerminalTypeOK /\ (\A q \in Shells : DueOf(q) /\ Heard(q)) /\ (\A u \in DOMAIN terminals : Kept(u))
      BY DEF TerminalInv
<1> DEFINE new == [shells[p] EXCEPT !.due = @ \ {e}]
           t == shells[p].id
<1>1. e \in shells[p].due /\ shells' = [shells EXCEPT ![p] = new] /\ UNCHANGED <<ptys, rebuilt>>
      BY DEF HearEnd
<1>2. shells[p] \in ShellRecord /\ shells[p].st = "over"
  <2>1. shells[p] \in ShellRecord
        BY <1>t DEF TerminalTypeOK, ShellRecord
  <2> QED
      BY <1>t, <1>1, <2>1 DEF DueOf, ShellRecord
<1>3. new \in ShellRecord /\ new.st = "over" /\ new.due = shells[p].due \ {e} /\ new.id = t
      BY <1>2 DEF ShellRecord
<1>4. /\ DOMAIN terminals' = DOMAIN terminals \ {t}
      /\ \A u \in DOMAIN terminals \ {t} : terminals'[u] = terminals[u]
      BY DEF HearEnd, ExitHandler, Without, Restrict
<1>5. /\ told'[p] = IF t \in DOMAIN terminals THEN told[p] + 1 ELSE told[p]
      /\ \A q \in Shells \ {p} : told'[q] = told[q]
      /\ told' = [q \in Shells |-> told'[q]]
      BY <1>t DEF HearEnd, ExitHandler, TerminalTypeOK
<1> HIDE DEF new, t
<1>6. /\ shells' \in [Shells -> ShellRecord] /\ shells'[p] = new
      /\ \A q \in Shells \ {p} : shells'[q] = shells[q]
      BY <1>1, <1>3, OtherShells DEF OneShell
<1>7. told[p] \in 0..2 /\ told[p] <= 1
      BY <1>t, <1>1 DEF DueOf, TerminalTypeOK
<1>8. told'[p] \in 0..2 /\ (told[p] = 0 => told'[p] <= 1)
      BY <1>5, <1>7
<1>9. TerminalTypeOK'
  <2>1. told' \in [Shells -> 0..2]
        BY <1>t, <1>5, <1>8 DEF TerminalTypeOK
  <2> QED
      BY <1>t, <1>1, <1>4, <1>6, <2>1 DEF TerminalTypeOK, ShellRecord
<1>10. ASSUME NEW q \in Shells PROVE DueOf(q)' /\ Heard(q)'
  <2>1. CASE q = p
    <3>1. DueOf(p)'
      <4>1. new.due \subseteq {"line", "exit"} /\ ~("line" \in new.due /\ "exit" \in new.due)
            BY <1>t, <1>1, <1>2, <1>3 DEF DueOf
      <4>2. new.due # {} => "line" \in shells[p].due /\ "exit" \in shells[p].due
            BY <1>t, <1>1, <1>2, <1>3 DEF DueOf
      <4>3. new.due # {} => told'[p] <= 1
            BY <1>t, <1>8, <4>2 DEF DueOf
      <4> QED
          BY <1>3, <1>6, <4>1, <4>3 DEF DueOf
    <3>2. Heard(p)'
      <4>1. CASE t \in rebuilt
            BY <1>1, <1>3, <1>6, <4>1 DEF Heard
      <4>2. CASE t \notin rebuilt
        <5>1. told'[p] <= 1
          <6>1. t \in DOMAIN terminals => told[p] = 0
                BY <1>t, <1>1, <4>2 DEF Heard, ToBeHeard, t
          <6> QED
              BY <1>5, <1>7, <6>1
        <5>2. t \notin DOMAIN terminals'
              BY <1>4
        <5> QED
            BY <1>3, <1>6, <5>1, <5>2 DEF Heard
      <4> QED
          BY <4>1, <4>2
    <3> QED
        BY <2>1, <3>1, <3>2
  <2>2. CASE q # p
    <3>1. shells'[q] = shells[q] /\ told'[q] = told[q] /\ rebuilt' = rebuilt
          BY <1>1, <1>5, <1>6, <2>2
    <3>2. DueOf(q)'
          BY <1>t, <3>1 DEF DueOf
    <3>3. ToBeHeard(q)' = ToBeHeard(q)
          BY <3>1 DEF ToBeHeard
    <3>4. Heard(q)'
      <4>1. CASE shells[q].id = t
        <5>1. t \notin rebuilt /\ t \in DOMAIN terminals => ~ToBeHeard(q)
              BY <1>t, <1>1, <2>2, <4>1 DEF Heard, ToBeHeard, t
        <5>2. t \notin DOMAIN terminals'
              BY <1>4
        <5> QED
            BY <1>t, <3>1, <3>3, <4>1, <5>1, <5>2 DEF Heard, ToBeHeard
      <4>2. CASE shells[q].id # t
            BY <1>t, <1>4, <3>1, <3>3, <4>2 DEF Heard
      <4> QED
          BY <4>1, <4>2
    <3> QED
        BY <3>2, <3>4
  <2> QED
      BY <2>1, <2>2
<1>11. ASSUME NEW u \in DOMAIN terminals' PROVE Kept(u)'
  <2>1. u \in DOMAIN terminals \ {t} /\ terminals'[u] = terminals[u] /\ terminals[u].shell \in Shells
        BY <1>t, <1>4, <1>11 DEF TerminalTypeOK
  <2>2. terminals[u].shell # p
        BY <1>t, <2>1 DEF Kept, t
  <2> QED
      BY <1>t, <1>1, <1>6, <2>1, <2>2 DEF Kept
<1> QED
    BY <1>9, <1>10, <1>11 DEF TerminalInv

\* A failed start is heard of: the terminal keeps its entry.
LEMMA HearErrorKeeps ==
  ASSUME TerminalInv, NEW p \in Shells, HearError(p)
  PROVE  TerminalInv'
<1>t. TerminalTypeOK /\ (\A q \in Shells : DueOf(q) /\ Heard(q)) /\ (\A u \in DOMAIN terminals : Kept(u))
      BY DEF TerminalInv
<1> DEFINE new == [shells[p] EXCEPT !.due = {}]
<1>1. "error" \in shells[p].due /\ shells' = [shells EXCEPT ![p] = new] /\ UNCHANGED <<terminals, ptys, told, rebuilt>>
      BY DEF HearError
<1>2. shells[p] \in ShellRecord /\ shells[p].st = "failed"
  <2>1. shells[p] \in ShellRecord
        BY <1>t DEF TerminalTypeOK, ShellRecord
  <2> QED
      BY <1>t, <1>1, <2>1 DEF DueOf, ShellRecord
<1>3. new \in ShellRecord /\ new.st = "failed" /\ new.due = {} /\ new.id = shells[p].id
      BY <1>2 DEF ShellRecord
<1> HIDE DEF new
<1>4. /\ shells' \in [Shells -> ShellRecord] /\ shells'[p] = new
      /\ \A q \in Shells \ {p} : shells'[q] = shells[q]
      BY <1>1, <1>3, OtherShells DEF OneShell
<1>5. TerminalTypeOK'
      BY <1>t, <1>1, <1>4 DEF TerminalTypeOK, ShellRecord
<1>6. ASSUME NEW q \in Shells PROVE DueOf(q)' /\ Heard(q)'
  <2>1. CASE q = p
        BY <1>t, <1>1, <1>3, <1>4, <2>1 DEF DueOf, Heard, ToBeHeard
  <2>2. CASE q # p
        BY <1>t, <1>1, <1>4, <2>2 DEF DueOf, Heard, ToBeHeard
  <2> QED
      BY <2>1, <2>2
<1>7. ASSUME NEW u \in DOMAIN terminals' PROVE Kept(u)'
  <2>1. terminals' = terminals /\ rebuilt' = rebuilt /\ terminals[u].shell \in Shells
        BY <1>t, <1>1, <1>7 DEF TerminalTypeOK
  <2>2. CASE terminals[u].shell = p
        BY <1>t, <1>3, <1>4, <1>7, <2>1, <2>2, <1>2 DEF Kept
  <2>3. CASE terminals[u].shell # p
        BY <1>t, <1>4, <1>7, <2>1, <2>3 DEF Kept
  <2> QED
      BY <2>2, <2>3
<1> QED
    BY <1>5, <1>6, <1>7 DEF TerminalInv

\* And every step of the terminals keeps it.
LEMMA TerminalSteps ==
  ASSUME TerminalInv, clients \subseteq Windows,
         TerminalNext(clients) \/ (\E w \in Windows : TerminalsLose(w)) \/ TerminalsDispose \/ UNCHANGED terminalVars
  PROVE  TerminalInv'
<1>1. ASSUME NEW w \in clients, NEW t \in Tids, TerminalAttach(w, t) \/ TerminalCreate(w, t) PROVE TerminalInv'
      BY <1>1, AttachKeeps, CreateKeeps
<1>2. ASSUME NEW ts, Closing(ts) PROVE TerminalInv'
      BY <1>2, Closings, ClosesKeeps
<1>3. ASSUME NEW p \in Shells, ShellEnds(p) \/ HearError(p) \/ \E e \in {"line", "exit"} : HearEnd(p, e) PROVE TerminalInv'
      BY <1>3, ShellEndsKeeps, HearErrorKeeps, HearEndKeeps
<1>4. ASSUME NEW w \in Windows, TerminalsLose(w) PROVE TerminalInv'
      BY <1>4, Leavings, ClosesKeeps
<1>5. CASE UNCHANGED terminalVars
      BY <1>5 DEF terminalVars, TerminalInv, TerminalTypeOK, DueOf, Heard, ToBeHeard, Kept
<1> QED
    BY <1>1, <1>2, <1>3, <1>4, <1>5 DEF TerminalNext, TerminalClose, TerminalsDispose

----------------------------------------------------------------------------
(* The router.  Every terminal has a listener, and listeners are connected.    *)
Listened == \A t \in DOMAIN terminals : terminals[t].listeners # {} /\ terminals[t].listeners \subseteq clients

RouterInv ==
  /\ clients \subseteq Windows /\ left \subseteq Windows /\ disposed \in BOOLEAN
  /\ TerminalInv /\ GitInv /\ FetchInv /\ Listened

\* A step of the terminals adds no listener that is not connected.
LEMMA ListenersAreClients ==
  ASSUME RouterInv, TerminalNext(clients) \/ TerminalsDispose, clients' = clients
  PROVE  Listened'
<1>1. ASSUME NEW w \in clients, NEW t \in Tids, TerminalAttach(w, t) PROVE Listened'
  <2>1. /\ DOMAIN terminals' = DOMAIN terminals /\ terminals'[t].listeners = terminals[t].listeners \cup {w}
        /\ \A u \in DOMAIN terminals \ {t} : terminals'[u] = terminals[u]
    <3>1. terminals[t] \in [shell : Shells, listeners : SUBSET Windows] /\ t \in DOMAIN terminals
          BY <1>1 DEF TerminalAttach, RouterInv, TerminalInv, TerminalTypeOK
    <3> QED
        BY <1>1, <3>1 DEF TerminalAttach
  <2> QED
      BY <1>1, <2>1 DEF RouterInv, Listened, TerminalAttach
<1>2. ASSUME NEW w \in clients, NEW t \in Tids, TerminalCreate(w, t) PROVE Listened'
  <2>1. \/ terminals' = terminals
        \/ terminals' = With(terminals, t, [shell |-> NewShell, listeners |-> {w}])
        BY <1>2 DEF TerminalCreate
  <2> QED
      BY <1>2, <2>1 DEF RouterInv, Listened, With
<1>3. ASSUME NEW ts, Closing(ts) PROVE Listened'
      BY <1>3 DEF Closing, Restrict, RouterInv, Listened
<1>4. ASSUME NEW p \in Shells, ShellEnds(p) \/ HearError(p) PROVE Listened'
      BY <1>4 DEF ShellEnds, HearError, RouterInv, Listened
<1>5. ASSUME NEW p \in Shells, NEW e \in {"line", "exit"}, HearEnd(p, e) PROVE Listened'
      BY <1>5 DEF HearEnd, ExitHandler, Without, Restrict, RouterInv, Listened
<1> QED
    BY <1>1, <1>2, <1>3, <1>4, <1>5 DEF TerminalNext, TerminalClose, TerminalsDispose

LEMMA RouterStarts == RouterInit => RouterInv
  BY FetchStarts, GitStarts, TerminalsStart DEF RouterInit, RouterInv, Listened, TerminalInit

\* And every step of the router keeps it.
LEMMA RouterSteps ==
  ASSUME RouterInv, [RouterNext]_vars PROVE RouterInv'
<1>t. /\ clients \subseteq Windows /\ left \subseteq Windows /\ disposed \in BOOLEAN
      /\ TerminalInv /\ GitInv /\ FetchInv /\ Listened
      BY DEF RouterInv
<1>1. ASSUME NEW w \in Windows, RegisterClient(w) PROVE RouterInv'
  <2>1. /\ clients' = clients \cup {w} /\ UNCHANGED <<left, disposed, terminals>>
        /\ UNCHANGED terminalVars /\ UNCHANGED gitVars /\ UNCHANGED fetchVars
        BY <1>1 DEF RegisterClient, terminalVars
  <2>2. TerminalInv' /\ GitInv' /\ FetchInv'
        BY <1>t, <2>1, TerminalSteps, GitSteps, FetchSteps
  <2> QED
      BY <1>t, <2>1, <2>2 DEF RouterInv, Listened
<1>2. ASSUME NEW w \in Windows, UnregisterClient(w) PROVE RouterInv'
  <2>1. /\ clients' = clients \ {w} /\ left' = left \cup {w} /\ disposed' = disposed
        /\ TerminalsLose(w) /\ GitLose(w) /\ UNCHANGED fetchVars
        BY <1>2 DEF UnregisterClient
  <2>2. TerminalInv' /\ GitInv' /\ FetchInv'
        BY <1>t, <2>1, TerminalSteps, GitSteps, FetchSteps
  <2>3. \A t \in DOMAIN terminals' : t \in DOMAIN terminals \ Deaf(w) /\ terminals'[t].listeners = terminals[t].listeners \ {w}
        BY <1>t, <2>1, Leavings
  <2>4. Listened'
        BY <1>t, <2>1, <2>3 DEF Listened, Deaf
  <2> QED
      BY <1>t, <2>1, <2>2, <2>4 DEF RouterInv
<1>3. CASE Dispose
  <2>1. /\ disposed' = TRUE /\ UNCHANGED <<clients, left>> /\ TerminalsDispose /\ GitDispose /\ FetchesDispose
        BY <1>3 DEF Dispose
  <2>2. TerminalInv' /\ GitInv' /\ FetchInv'
        BY <1>t, <2>1, TerminalSteps, GitSteps, FetchSteps
  <2>3. Listened'
        BY <2>1, ListenersAreClients
  <2> QED
      BY <1>t, <2>1, <2>2, <2>3 DEF RouterInv
<1>4. CASE TerminalStep
  <2>1. TerminalNext(clients) /\ UNCHANGED <<clients, left, disposed>> /\ UNCHANGED gitVars /\ UNCHANGED fetchVars
        BY <1>4 DEF TerminalStep, routerVars
  <2>2. TerminalInv' /\ GitInv' /\ FetchInv'
        BY <1>t, <2>1, TerminalSteps, GitSteps, FetchSteps
  <2>3. Listened'
        BY <2>1, ListenersAreClients
  <2> QED
      BY <1>t, <2>1, <2>2, <2>3 DEF RouterInv
<1>5. CASE GitStep \/ FetchStep \/ UNCHANGED vars
  <2>1. /\ UNCHANGED <<clients, left, disposed>> /\ UNCHANGED terminalVars
        /\ GitNext(clients) \/ UNCHANGED gitVars
        /\ FetchNext(clients) \/ UNCHANGED fetchVars
        BY <1>5 DEF GitStep, FetchStep, vars, routerVars
  <2>2. TerminalInv' /\ GitInv' /\ FetchInv'
        BY <1>t, <2>1, TerminalSteps, GitSteps, FetchSteps
  <2>3. Listened'
        BY <1>t, <2>1 DEF Listened, terminalVars
  <2> QED
      BY <1>t, <2>1, <2>2, <2>3 DEF RouterInv
<1> QED
    BY <1>1, <1>2, <1>3, <1>4, <1>5 DEF RouterNext

LEMMA RouterAlways == RouterSpec => []RouterInv
<1>1. RouterInv /\ [RouterNext]_vars => RouterInv'
      BY RouterSteps
<1> QED
    BY <1>1, RouterStarts, PTL DEF RouterSpec

(* Whatever the windows do, the router's maps hold what they should, a fetch   *)
(* is never answered three times, nor the end of a shell told three times.     *)
THEOREM TypeCorrect == RouterSpec => []RouterTypeOK
<1>1. RouterInv => RouterTypeOK
      BY DEF RouterInv, TerminalInv, GitInv, FetchInv, RouterTypeOK
<1> QED
    BY <1>1, RouterAlways, PTL

(* A shell nobody told to stop is its terminal's, its end is told at most once *)
(* and a terminal whose shell has ended will hear of it, but for an id that was*)
(* created again before the end of its last shell was heard                    *)
(* (TerminalRegistry of message-router.mjs).                                   *)
THEOREM AlwaysOwnsItsShell == RouterSpec => []TerminalOwnsItsShell
<1>1. RouterInv => TerminalOwnsItsShell
  <2>1. ASSUME RouterInv, NEW p \in Shells, shells[p].id \notin rebuilt
        PROVE  /\ shells[p].st = "running" /\ ~shells[p].killed =>
                    shells[p].id \in DOMAIN terminals /\ terminals[shells[p].id].shell = p
               /\ told[p] <= 1
        BY <2>1 DEF RouterInv, TerminalInv, Heard, ToBeHeard
  <2>2. ASSUME RouterInv, NEW t \in DOMAIN terminals \ rebuilt, shells[terminals[t].shell].st = "over"
        PROVE  shells[terminals[t].shell].due # {}
        BY <2>2 DEF RouterInv, TerminalInv, Kept
  <2> QED
      BY <2>1, <2>2 DEF TerminalOwnsItsShell
<1> QED
    BY <1>1, RouterAlways, PTL

(* No terminal is kept for windows that have left, and once none is connected  *)
(* every shell that still runs was told to stop: removeClient and dispose      *)
(* forget nothing, whatever was created while the sockets closed.              *)
THEOREM NeverForTheGone == RouterSpec => []NothingForTheGone
<1>1. RouterInv => NothingForTheGone
  <2>1. ASSUME RouterInv, NEW p \in Shells, clients = {}, shells[p].st = "running", shells[p].id \notin rebuilt
        PROVE  shells[p].killed
    <3>1. DOMAIN terminals = {}
          BY <2>1 DEF RouterInv, Listened
    <3>2. ~shells[p].killed => shells[p].id \in DOMAIN terminals
          BY <2>1 DEF RouterInv, TerminalInv, Heard
    <3> QED
        BY <3>1, <3>2
  <2> QED
      BY <2>1 DEF RouterInv, Listened, NothingForTheGone
<1> QED
    BY <1>1, RouterAlways, PTL

(* An answer of the git worker reaches no window but the one that asked, and a *)
(* fetch is answered by the step that ends it, once, and can be aborted exactly*)
(* as long as it waits for something (GitWorkerBridge, _handleFetch).          *)
THEOREM AlwaysAnsweredRight == RouterSpec => []AnsweredRight
<1>1. RouterInv => AnsweredRight
      BY DEF RouterInv, GitInv, FetchInv, RightlyAnswered, AnsweredRight, GitRightWindow
<1> QED
    BY <1>1, RouterAlways, PTL
=============================================================================
