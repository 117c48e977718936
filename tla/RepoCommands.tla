---------------------------- MODULE RepoCommands ----------------------------
(***************************************************************************)
(* What the windows have done in a repository (message-router.mjs): a      *)
(* handler runs git, gh or codex as a child process (_runCommand), looks at*)
(* how it ended, and runs the next one or answers.  A command that takes   *)
(* too long is sent a signal and counts as failed, though what it was told *)
(* to do may be done, or still happen.  Handlers of several windows work on*)
(* one working tree.                                                       *)
(***************************************************************************)
EXTENDS Naturals, FiniteSets

CONSTANTS Calls,     \* calls of handlers
          Branches,  \* names of branches
          Main       \* the branch of the working tree at the start

ASSUME RepoAssumption == Main \in Branches

VARIABLES calls,     \* every call: its handler, its branch, the command it is at
          branches, head, pushed, prs,  \* of the repository and of GitHub
          orphans    \* commands that were sent the signal and may still do their work

repoVars == <<calls, branches, head, pushed, prs, orphans>>

----------------------------------------------------------------------------
(* A handler, as a table: after each command, what follows its success and its *)
(* failure - another command, or an answer.                                    *)

Then(ok, fail) == [ok |-> ok, fail |-> fail]
Either(next) == Then(next, next)

Joined(f, g) == [c \in DOMAIN f \cup DOMAIN g |-> IF c \in DOMAIN f THEN f[c] ELSE g[c]]

CreateBranch == [show |-> Then("ok", "branch"), branch |-> Then("ok", "error")]
CurrentBranch(next) == [current |-> Either(next)]
CheckoutBranch == Joined([checkout |-> Then("current", "error")], CurrentBranch("ok"))
GitPush == [push |-> Then("ok", "error")]
GhCliStatus(next, unusable) == [version |-> Then("auth", unusable), auth |-> Then(next, unusable)]
GhPrCreate == Joined(GhCliStatus("create", "error"), [create |-> Then("ok", "error")])
GhPrStatus == Joined(GhCliStatus("list", "error"), [list |-> Then("ok", "error")])
BaseRef(next) == [origin |-> Then(next, "candidates"), candidates |-> Either(next)]
DiffSummary == [log |-> Either("names"), names |-> Either("numstat"), numstat |-> Either("current")]
FallbackMessage == Joined(BaseRef("log"), Joined(DiffSummary, CurrentBranch("ok")))
CodexMessage == Joined([codex |-> Then("ok", "origin")], FallbackMessage)
GitOrigin == [toplevel |-> Then("common", "ok"), common |-> Either("remote"), remote |-> Either("ok")]
MergeBase == [base |-> Either("ok")]

Handlers ==
  [createBranch |-> CreateBranch, checkout |-> CheckoutBranch, push |-> GitPush, prCreate |-> GhPrCreate,
   prStatus |-> GhPrStatus, message |-> CodexMessage, gitOrigin |-> GitOrigin, mergeBase |-> MergeBase]
FirstCommand ==
  [createBranch |-> "show", checkout |-> "checkout", push |-> "push", prCreate |-> "version",
   prStatus |-> "version", message |-> "codex", gitOrigin |-> "toplevel", mergeBase |-> "base"]

Answers == {"ok", "error"}
Commands == UNION {DOMAIN Handlers[k] : k \in DOMAIN Handlers}
Changing == {"branch", "checkout", "push", "create"}

Unasked == [kind |-> "push", branch |-> Main, at |-> "unasked", did |-> FALSE, acted |-> FALSE,
            unsure |-> FALSE, moved |-> FALSE, reported |-> Main]

RepoTypeOK ==
  /\ calls \in [Calls -> [kind : DOMAIN Handlers, branch : Branches, at : Commands \cup Answers \cup {"unasked"},
                          did : BOOLEAN, acted : BOOLEAN, unsure : BOOLEAN, moved : BOOLEAN, reported : Branches]]
  /\ branches \subseteq Branches /\ head \in branches /\ pushed \subseteq branches /\ prs \subseteq pushed
  /\ orphans \subseteq Changing \X Branches

RepoInit ==
  /\ calls = [c \in Calls |-> Unasked]
  /\ branches = {Main} /\ head = Main /\ pushed = {Main} /\ prs = {}
  /\ orphans = {}

Asked(c, kind, b) ==
  /\ calls[c].at = "unasked"
  /\ calls' = [calls EXCEPT ![c] = [Unasked EXCEPT !.kind = kind, !.branch = b, !.at = FirstCommand[kind]]]
  /\ UNCHANGED <<branches, head, pushed, prs, orphans>>

\* What a command does when it succeeds; GitHub allows a branch one open pull request.
Does(command, b) ==
  \/ command = "show" /\ b \in branches /\ UNCHANGED <<branches, head, pushed, prs>>
  \/ command = "branch" /\ b \notin branches /\ branches' = branches \cup {b} /\ UNCHANGED <<head, pushed, prs>>
  \/ command = "checkout" /\ b \in branches /\ head' = b /\ UNCHANGED <<branches, pushed, prs>>
  \/ command = "push" /\ b \in branches /\ pushed' = pushed \cup {b} /\ UNCHANGED <<branches, head, prs>>
  \/ command = "create" /\ b \in pushed \ prs /\ prs' = prs \cup {b} /\ UNCHANGED <<branches, head, pushed>>
  \/ command \in Commands \ (Changing \cup {"show"}) /\ UNCHANGED <<branches, head, pushed, prs>>

\* Other calls at work see the working tree move under them.
Noticed == [c \in Calls |-> IF head' # head THEN [calls[c] EXCEPT !.moved = TRUE] ELSE calls[c]]

Works(c) ==
  /\ calls[c].at \in Commands /\ ~calls[c].did
  /\ Does(calls[c].at, calls[c].branch)
  /\ calls' = [Noticed EXCEPT
       ![c].did = TRUE,
       ![c].acted = calls[c].acted \/ calls[c].at \in Changing,
       ![c].moved = calls[c].moved /\ calls[c].at # "checkout",
       ![c].reported = IF calls[c].at = "current" THEN head ELSE calls[c].branch]
  /\ UNCHANGED orphans

\* The command has ended, and the handler goes on.
Continue(c, result) ==
  calls' = [calls EXCEPT
    ![c].at = Handlers[calls[c].kind][calls[c].at][result],
    ![c].did = FALSE,
    ![c].unsure = @ \/ (result = "fail" /\ calls[c].did)]

\* Mutant: any refusal of gh pr create is taken for the one of an existing request.
RefusedAnyway(c) == calls[c].at = "create" /\ ~calls[c].did
\* gh refuses a second pull request with the URL of the first: that is a success.
AlreadyThere(c) == calls[c].at = "create" /\ calls[c].branch \in prs

\* The exit code says what was done, but for one that fails when it has done it (a hook,
\* a lost connection); a command may fail for any reason.
Exits(c) ==
  /\ calls[c].at \in Commands
  /\ \E result \in {"ok", "fail"} :
       /\ result = "ok" => calls[c].did \/ AlreadyThere(c)
       /\ Continue(c, result)
  /\ UNCHANGED <<branches, head, pushed, prs, orphans>>

\* The timer: SIGTERM, and the handler does not wait for the end.
TimesOut(c) ==
  /\ calls[c].at \in Commands
  /\ Continue(c, "fail")
  /\ orphans' = orphans \cup IF calls[c].did THEN {} ELSE {<<calls[c].at, calls[c].branch>>} \cap (Changing \X Branches)
  /\ UNCHANGED <<branches, head, pushed, prs>>

WorksLate(o) ==
  /\ Does(o[1], o[2])
  /\ orphans' = orphans \ {o}
  /\ calls' = Noticed

RepoNext ==
  \/ \E c \in Calls :
       \/ \E kind \in DOMAIN Handlers, b \in Branches : Asked(c, kind, b)
       \/ Works(c) \/ Exits(c) \/ TimesOut(c)
  \/ \E o \in orphans : WorksLate(o)

----------------------------------------------------------------------------
(* A success is true of the repository - a branch that exists, is pushed, has  *)
(* its pull request, was checked out and is named in the answer unless another *)
(* command moved the working tree - however the handlers interleave and after  *)
(* whatever timed out before; and an error answered for what was done comes    *)
(* from a command that was cut off or failed in the end.                       *)
AnswersAreTrue ==
  \A c \in Calls :
    LET call == calls[c]
        ok(kind) == call.at = "ok" /\ call.kind = kind
    IN  /\ ok("createBranch") => call.branch \in branches
        /\ ok("push") => call.branch \in pushed
        /\ ok("prCreate") => call.branch \in prs
        /\ ok("checkout") => call.reported = call.branch \/ call.moved
        /\ call.at = "error" /\ call.acted => call.unsure
=============================================================================
