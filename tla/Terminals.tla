----------------------------- MODULE Terminals -----------------------------
(***************************************************************************)
(* The terminals of the web server: TerminalRegistry of message-router.mjs *)
(* and the process it starts for each, bun-pty-bridge.mjs included.        *)
(*                                                                         *)
(* A terminal is an entry of `sessions' under an id the windows choose; a  *)
(* shell is one process, started for that id.  Node tells the registry of  *)
(* a shell's end by events it delivers later: the exit of the process and, *)
(* when a bun bridge saw its shell end, the line "exit" it printed; the    *)
(* handlers know the terminal by its id alone.                             *)
(***************************************************************************)
EXTENDS Webstrap

CONSTANTS Tids,      \* ids of terminals
          Shells     \* processes that may be started

ASSUME TerminalAssumption == Tids # {}

VARIABLES terminals, \* sessions: the live ids, each with its shell and listeners
          shells,    \* the processes
          ptys,      \* which of bunPtyAvailable and pythonPtyAvailable hold
          told,      \* how often the end of each shell was broadcast
          rebuilt    \* ids created again before their last shell's end was heard

terminalVars == <<terminals, shells, ptys, told, rebuilt>>

Modes == {"bun", "python", "pipe"}
Unborn == [st |-> "unborn", mode |-> "pipe", killed |-> FALSE, due |-> {}, id |-> CHOOSE t \in Tids : TRUE]

TerminalTypeOK ==
  /\ DOMAIN terminals \subseteq Tids
  /\ \A t \in DOMAIN terminals : terminals[t] \in [shell : Shells, listeners : SUBSET Windows]
  /\ shells \in [Shells -> [st : {"unborn", "running", "over", "failed"}, mode : Modes, killed : BOOLEAN,
                            due : SUBSET {"line", "exit", "error"}, id : Tids]]
  /\ ptys \in SUBSET {"bun", "python"}
  /\ told \in [Shells -> 0..2]
  /\ rebuilt \in SUBSET Tids

\* What the probes at construction find is the environment's choice.
TerminalInit ==
  /\ terminals = [t \in {} |-> {}]
  /\ shells = [p \in Shells |-> Unborn]
  /\ ptys \in SUBSET {"bun", "python"}
  /\ told = [p \in Shells |-> 0]
  /\ rebuilt = {}

\* _spawnRuntime tries bun, python and plain pipes in turn.  A spawn that throws marks
\* its runtime unavailable for good; if that of the pipes throws, nothing is created.
Spawns(avail) ==
  {[mode |-> "bun", left |-> avail] : b \in avail \cap {"bun"}}
    \cup {[mode |-> "python", left |-> avail \ {"bun"}] : b \in avail \cap {"python"}}
    \cup {[mode |-> m, left |-> {}] : m \in {"pipe", "none"}}

\* A process that cannot be started (no such shell, no more processes) reports an error
\* later and never exits: node emits one or the other.
Started(mode, t, starts) ==
  [st |-> IF starts THEN "running" ELSE "failed", mode |-> mode, killed |-> FALSE,
   due |-> IF starts THEN {} ELSE {"error"}, id |-> t]

TerminalAttach(w, t) ==
  /\ t \in DOMAIN terminals
  /\ terminals' = [terminals EXCEPT ![t].listeners = @ \cup {w}]
  /\ UNCHANGED <<shells, ptys, told, rebuilt>>

NewShells == {p \in Shells : shells[p].st = "unborn"}
NewShell == CHOOSE p \in NewShells : TRUE

\* The shells whose end the handlers of id t have not heard of yet.
Unheard(t) == {p \in Shells : shells[p].id = t /\ (shells[p].st = "running" \/ shells[p].due # {})}

TerminalCreate(w, t) ==
  /\ t \notin DOMAIN terminals
  /\ NewShells # {}
  /\ \E s \in Spawns(ptys), starts \in BOOLEAN :
       /\ ptys' = s.left
       /\ IF s.mode = "none"
          THEN starts /\ UNCHANGED <<terminals, shells, rebuilt>>
          ELSE /\ terminals' = With(terminals, t, [shell |-> NewShell, listeners |-> {w}])
               /\ shells' = [shells EXCEPT ![NewShell] = Started(s.mode, t, starts)]
               /\ rebuilt' = IF Unheard(t) = {} THEN rebuilt ELSE rebuilt \cup {t}
  /\ UNCHANGED told

\* close(): every id of `ts' loses its entry, and its process gets a SIGTERM.
Closing(ts) ==
  /\ terminals' = Restrict(terminals, DOMAIN terminals \ ts)
  /\ shells' = [p \in Shells |->
       IF \E t \in ts \cap DOMAIN terminals : terminals[t].shell = p
       THEN [shells[p] EXCEPT !.killed = TRUE] ELSE shells[p]]
  /\ UNCHANGED <<ptys, told, rebuilt>>

TerminalClose(t) == t \in DOMAIN terminals /\ Closing({t})

\* Mutant: the window stops listening, and what it leaves is not closed.
ListenersOnly(w) ==
  /\ terminals' = [t \in DOMAIN terminals |-> [terminals[t] EXCEPT !.listeners = @ \ {w}]]
  /\ UNCHANGED <<shells, ptys, told, rebuilt>>

\* unregisterClient: the window stops listening; what nobody listens to is closed.
TerminalsLose(w) ==
  LET deaf == {t \in DOMAIN terminals : terminals[t].listeners \subseteq {w}}
      heard == DOMAIN terminals \ deaf
  IN  /\ terminals' = [t \in heard |-> [terminals[t] EXCEPT !.listeners = @ \ {w}]]
      /\ shells' = [p \in Shells |->
           IF \E t \in deaf : terminals[t].shell = p THEN [shells[p] EXCEPT !.killed = TRUE] ELSE shells[p]]
      /\ UNCHANGED <<ptys, told, rebuilt>>

TerminalsDispose == Closing(DOMAIN terminals)

\* The process ends, by itself or of the signal.  A bridge whose shell ended prints the
\* line "exit" first; one that was told to close, or could not start its shell, does not.
ShellEnds(p) ==
  /\ shells[p].st = "running"
  /\ \E due \in {{"exit"}} \cup (IF shells[p].mode = "bun" /\ ~shells[p].killed THEN {{"line", "exit"}} ELSE {}) :
       shells' = [shells EXCEPT ![p].st = "over", ![p].due = due]
  /\ UNCHANGED <<terminals, ptys, told, rebuilt>>

\* Mutant: the handler tells, and does not forget.
ExitTellsOnly(p) ==
  /\ told' = [told EXCEPT ![p] = IF shells[p].id \in DOMAIN terminals THEN @ + 1 ELSE @]
  /\ UNCHANGED terminals

\* The exit handler of a pipe or python terminal and both of a bun one: broadcast to
\* the listeners of the id and forget it (without a session the broadcast is void).
ExitHandler(p) ==
  /\ told' = [told EXCEPT ![p] = IF shells[p].id \in DOMAIN terminals THEN @ + 1 ELSE @]
  /\ terminals' = Without(terminals, shells[p].id)

\* The pipe carrying the line and the event of the exit are delivered in either order.
HearEnd(p, e) ==
  /\ e \in shells[p].due \cap {"line", "exit"}
  /\ shells' = [shells EXCEPT ![p].due = @ \ {e}]
  /\ ExitHandler(p)
  /\ UNCHANGED <<ptys, rebuilt>>

\* The error handler only broadcasts: the terminal keeps its entry.
HearError(p) ==
  /\ "error" \in shells[p].due
  /\ shells' = [shells EXCEPT ![p].due = {}]
  /\ UNCHANGED <<terminals, ptys, told, rebuilt>>

TerminalNext(clients) ==
  \/ \E w \in clients, t \in Tids : TerminalAttach(w, t) \/ TerminalCreate(w, t)
  \/ \E t \in Tids : TerminalClose(t)
  \/ \E p \in Shells : ShellEnds(p) \/ HearError(p) \/ \E e \in {"line", "exit"} : HearEnd(p, e)

----------------------------------------------------------------------------
(* A shell nobody killed is the one of its terminal, its end is broadcast at   *)
(* most once, and a terminal whose shell is gone has its end still to be       *)
(* heard, or never started (the dead entry stays until somebody closes it).    *)
(* None of it holds of an id created again too early: the end of the first     *)
(* shell then deletes the second terminal and leaves its process to nobody.    *)
TerminalOwnsItsShell ==
  /\ \A p \in Shells : shells[p].id \notin rebuilt =>
       /\ shells[p].st = "running" /\ ~shells[p].killed =>
            /\ shells[p].id \in DOMAIN terminals
            /\ terminals[shells[p].id].shell = p
       /\ told[p] <= 1
  /\ \A t \in DOMAIN terminals \ rebuilt : shells[terminals[t].shell].st = "over" => shells[terminals[t].shell].due # {}
=============================================================================
