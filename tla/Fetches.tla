------------------------------ MODULE Fetches ------------------------------
(***************************************************************************)
(* The fetches the windows proxy through the web server: _handleFetch of   *)
(* message-router.mjs.  A fetch is virtual (answered here, at once or after*)
(* files were read or commands run), a transcription (waits for a token of *)
(* the app server, then for the network), or goes to the network.  Only the*)
(* last two have a controller a window can cancel.                         *)
(***************************************************************************)
EXTENDS Webstrap

CONSTANT Fids        \* the request ids of fetches, each used once

VARIABLES fetches,     \* where each fetch stands
          owners,      \* the window it answers to
          controllers, \* fetchControllers: ids that can be aborted
          aborted,     \* ids whose signal is set
          replies      \* fetch-response messages produced for each id

fetchVars == <<fetches, owners, controllers, aborted, replies>>

FetchTypeOK ==
  /\ fetches \in [Fids -> {"unasked", "reading", "running", "token", "network", "done", "thrown"}]
  /\ owners \in [Fids -> SUBSET Windows] /\ \A f \in Fids : Cardinality(owners[f]) <= 1
  /\ controllers \subseteq Fids /\ aborted \subseteq Fids
  /\ replies \in [Fids -> 0..2]

FetchInit ==
  /\ fetches = [f \in Fids |-> "unasked"] /\ owners = [f \in Fids |-> {}]
  /\ controllers = {} /\ aborted = {} /\ replies = [f \in Fids |-> 0]

\* What the endpoints that vscode://codex/ names await before they answer.  What the
\* router knows itself is answered at once; a file that cannot be read is an answer too;
\* what runs commands can fail outright.
StateEndpoints == {"done"}
FileEndpoints == {"done", "reading"}
LocalEnvironments == {"done", "reading"}
CommandEndpoints == {"done", "running"}
SettingEndpoints == {"done"}
PullRequestEndpoints == {"running"}

VirtualFetch ==
  StateEndpoints \cup FileEndpoints \cup LocalEnvironments \cup CommandEndpoints
    \cup SettingEndpoints \cup PullRequestEndpoints

\* The stages a URL leads to; one that is neither virtual, absolute nor a path is refused.
FirstStages == VirtualFetch \cup {"token", "network", "done"}

\* A request that cannot be prepared (base64 marker, multipart) fails in the same step.
Prepares(stage) == IF stage \in {"token", "network"} THEN {stage, "done"} ELSE {stage}

Reply(f) == replies' = [replies EXCEPT ![f] = @ + 1]

FetchBegin(w, f) ==
  /\ fetches[f] = "unasked"
  /\ owners' = [owners EXCEPT ![f] = {w}]
  /\ \E stage \in FirstStages : \E now \in Prepares(stage) :
       /\ fetches' = [fetches EXCEPT ![f] = now]
       /\ controllers' = IF now \in {"token", "network"} THEN controllers \cup {f} ELSE controllers
       /\ IF now = "done" THEN Reply(f) ELSE UNCHANGED replies
  /\ UNCHANGED aborted

\* The awaited endpoint answers.
VirtualEnds(f) ==
  /\ fetches[f] \in {"reading", "running"}
  /\ fetches' = [fetches EXCEPT ![f] = "done"]
  /\ Reply(f)
  /\ UNCHANGED <<owners, controllers, aborted>>

\* A spawn that throws (its directory's path is not a valid one) rejects the handler:
\* the window gets a bridge-error, which names no request.
VirtualThrows(f) ==
  /\ fetches[f] = "running"
  /\ fetches' = [fetches EXCEPT ![f] = "thrown"]
  /\ UNCHANGED <<owners, controllers, aborted, replies>>

\* Mutant: no finally, the controller stays.
FinishWithoutFinally(f) ==
  /\ fetches' = [fetches EXCEPT ![f] = "done"]
  /\ Reply(f)
  /\ UNCHANGED <<owners, aborted, controllers>>

\* Mutant: the handler answers and goes on.
FinishWithoutReturn(f) ==
  /\ controllers' = controllers \ {f}
  /\ Reply(f)
  /\ UNCHANGED <<fetches, owners, aborted>>

\* The finally of the handler.
Finish(f) ==
  /\ fetches' = [fetches EXCEPT ![f] = "done"]
  /\ controllers' = controllers \ {f}
  /\ Reply(f)
  /\ UNCHANGED <<owners, aborted>>

\* Mutant: a cancelled transcription is dropped.
TokenDropsAborted(f) ==
  /\ fetches[f] = "token" /\ f \notin aborted
  /\ fetches' = [fetches EXCEPT ![f] = "network"]
  /\ UNCHANGED <<owners, controllers, aborted, replies>>

\* getAuthStatus answers or times out.  The cancel of a transcription is noticed only
\* now, when the network request is given a signal that is already set.
TokenResolves(f) ==
  /\ fetches[f] = "token"
  /\ \/ Finish(f)
     \/ /\ f \notin aborted
        /\ fetches' = [fetches EXCEPT ![f] = "network"]
        /\ UNCHANGED <<owners, controllers, aborted, replies>>

\* The response, a failure, or the abort.
NetworkEnds(f) == fetches[f] = "network" /\ Finish(f)

\* cancel-fetch aborts and forgets; it may come after the end, or for a virtual fetch.
FetchCancel(f) ==
  /\ f \in controllers
  /\ aborted' = aborted \cup {f} /\ controllers' = controllers \ {f}
  /\ UNCHANGED <<fetches, owners, replies>>

FetchesDispose ==
  /\ aborted' = aborted \cup controllers /\ controllers' = {}
  /\ UNCHANGED <<fetches, owners, replies>>

FetchEnds(f) == VirtualEnds(f) \/ VirtualThrows(f) \/ TokenResolves(f) \/ NetworkEnds(f)

FetchNext(clients) ==
  \E f \in Fids :
    \/ \E w \in clients : FetchBegin(w, f)
    \/ FetchEnds(f) \/ FetchCancel(f)

-----------------------------------------------------------------------------
(* A fetch is answered exactly once, by the step that ends it, and can be      *)
(* aborted exactly while it waits and was not aborted: a controller neither    *)
(* outlives its fetch nor disappears before it.                                *)
FetchAnsweredOnce ==
  \A f \in Fids :
    /\ replies[f] = IF fetches[f] = "done" THEN 1 ELSE 0
    /\ f \in controllers <=> fetches[f] \in {"token", "network"} /\ f \notin aborted

(* Every fetch a window makes is answered, unless it ran a command and threw.  *)
FetchAnswered == \A f \in Fids : fetches[f] # "unasked" ~> replies[f] > 0 \/ fetches[f] = "thrown"
=============================================================================
