------------------------------ MODULE Release ------------------------------
(***************************************************************************)
(* The publication of one version: the runs of the release workflow        *)
(* (.github/workflows/release.yml) and the scripts it calls.  Runs are     *)
(* started by a schedule or by hand, nothing keeps two of them apart, and  *)
(* any step can fail, which ends its run.  Two builds of one version are   *)
(* not the same bytes: a build is named by its run, and so is what was     *)
(* published from it, with the checksums of that build inside.             *)
(***************************************************************************)
EXTENDS Naturals, FiniteSets

CONSTANT Workflows   \* runs of the workflow

ASSUME ReleaseAssumption == IsFiniteSet(Workflows)

VARIABLES
  job,       \* the step each run has reached
  trigger,   \* what started it: "schedule", or by hand, "dispatch" or "force"
  smoked,    \* the builds that passed the smoke test
  assets,    \* of the GitHub release: the build each one is from
  unsent,    \* the assets a run has still to upload
  npm, aur,  \* the build published there
  sawIssue,  \* what the reporter of a run saw in the list of issues
  issues,    \* open issues for the canary's failure
  raced,     \* a run passed the refusal while another was between it and its end
  misled,    \* `npm view' failed there for another reason than a missing version
  crossed    \* two runs reported at once

releaseVars == <<job, trigger, smoked, assets, unsent, npm, aur, sawIssue, issues, raced, misled, crossed>>
publicVars == <<smoked, assets, unsent, npm, aur, raced, misled>>
issueVars == <<sawIssue, issues, crossed>>

Nothing == "nothing"
Assets == {"tarball", "icon"}   \* the two that others hold checksums of
Publishing == {"release", "publish", "aur"}
Over == {"done", "failed"}
Steps == {"idle", "preflight", "canary", "report", "create", "build", "smoke", "refuse"} \cup Publishing \cup Over

ReleaseTypeOK ==
  /\ job \in [Workflows -> Steps] /\ trigger \in [Workflows -> {"schedule", "dispatch", "force"}]
  /\ smoked \subseteq Workflows
  /\ assets \in [Assets -> Workflows \cup {Nothing}]
  /\ unsent \in [Workflows -> SUBSET Assets]
  /\ npm \in Workflows \cup {Nothing} /\ aur \in Workflows \cup {Nothing}
  /\ sawIssue \in [Workflows -> BOOLEAN] /\ issues \in 0..Cardinality(Workflows)
  /\ raced \in BOOLEAN /\ misled \in BOOLEAN /\ crossed \in BOOLEAN

ReleaseInit ==
  /\ job = [r \in Workflows |-> "idle"] /\ trigger = [r \in Workflows |-> "schedule"]
  /\ smoked = {} /\ assets = [a \in Assets |-> Nothing] /\ unsent = [r \in Workflows |-> Assets]
  /\ npm = Nothing /\ aur = Nothing
  /\ sawIssue = [r \in Workflows |-> FALSE] /\ issues = 0
  /\ raced = FALSE /\ misled = FALSE /\ crossed = FALSE

At(r, step) == job[r] = step
Goes(r, step) == job' = [job EXCEPT ![r] = step]

Starts(r, how) ==
  /\ At(r, "idle") /\ Goes(r, "preflight")
  /\ trigger' = [trigger EXCEPT ![r] = how]
  /\ UNCHANGED <<publicVars, issueVars>>

\* Whatever the reason, a failure of `npm view' says that there is no such version.
NpmSays == {npm # Nothing, FALSE}
Forced(r) == trigger[r] = "force"

\* check-release-state: a version that npm does not have is outdated.
Preflight(r) ==
  /\ At(r, "preflight")
  /\ \E published \in NpmSays : Goes(r, IF published /\ ~Forced(r) THEN "done" ELSE "canary")
  /\ UNCHANGED <<trigger, publicVars, issueVars>>

\* canary.mjs builds and smokes; its failure is reported for a scheduled run only.
Canary(r) ==
  /\ At(r, "canary")
  /\ \E ok \in BOOLEAN :
       Goes(r, IF ok THEN "build" ELSE IF trigger[r] = "schedule" THEN "report" ELSE "failed")
  /\ UNCHANGED <<trigger, publicVars, issueVars>>

----------------------------------------------------------------------------
(* report-canary-failure: the open issues are listed, then one is edited or    *)
(* made.                                                                       *)

ListOpenIssues(r) ==
  /\ At(r, "report") /\ Goes(r, "create")
  /\ sawIssue' = [sawIssue EXCEPT ![r] = issues > 0]
  /\ crossed' = (crossed \/ \E o \in Workflows : At(o, "create"))
  /\ UNCHANGED <<trigger, publicVars, issues>>

Missing(r) == ~sawIssue[r]

CreateOrUpdateIssue(r) ==
  /\ At(r, "create") /\ Goes(r, "failed")
  /\ issues' = IF Missing(r) THEN issues + 1 ELSE issues
  /\ UNCHANGED <<trigger, publicVars, sawIssue, crossed>>

\* A maintainer.
CloseIssue ==
  /\ issues > 0 /\ issues' = issues - 1
  /\ UNCHANGED <<job, trigger, publicVars, sawIssue, crossed>>

----------------------------------------------------------------------------
(* The publish job. *)

\* release-channel: a version that is published is skipped, unless forced.
BuildChannel(r) ==
  /\ At(r, "build")
  /\ \E published \in NpmSays : Goes(r, IF published /\ ~Forced(r) THEN "done" ELSE "smoke")
  /\ UNCHANGED <<trigger, publicVars, issueVars>>

Smoke(r) ==
  /\ At(r, "smoke") /\ Goes(r, "refuse")
  /\ smoked' = smoked \cup {r}
  /\ UNCHANGED <<trigger, assets, unsent, npm, aur, raced, misled, issueVars>>

\* Mutant: a forced run is not refused.
PassesWhenForced(r, published) == ~published \/ Forced(r)
Passes(r, published) == ~published

\* "Refuse immutable npm version overwrite".
Refuse(r) ==
  /\ At(r, "refuse")
  /\ \E published \in NpmSays :
       /\ Goes(r, IF Passes(r, published) THEN "release" ELSE "failed")
       /\ misled' = (misled \/ (npm # Nothing /\ ~published))
       /\ raced' = (raced \/ (Passes(r, published) /\ \E o \in Workflows : job[o] \in Publishing))
  /\ UNCHANGED <<trigger, smoked, assets, unsent, npm, aur, issueVars>>

\* gh release upload --clobber, asset by asset: the old one is deleted, the new one sent.
UploadAsset(r, a) ==
  /\ At(r, "release") /\ a \in unsent[r]
  /\ \/ assets[a] # Nothing /\ assets' = [assets EXCEPT ![a] = Nothing] /\ UNCHANGED unsent
     \/ assets[a] = Nothing /\ assets' = [assets EXCEPT ![a] = r] /\ unsent' = [unsent EXCEPT ![r] = @ \ {a}]
  /\ UNCHANGED <<job, trigger, smoked, npm, aur, raced, misled, issueVars>>

Uploaded(r) ==
  /\ At(r, "release") /\ unsent[r] = {}
  /\ Goes(r, "publish")
  /\ UNCHANGED <<trigger, publicVars, issueVars>>

\* A version that is there is left alone; npm accepts a version once, and its answer can
\* be lost.
PublishNpm(r) ==
  /\ At(r, "publish")
  /\ \/ npm = Nothing /\ npm' = r /\ job' \in {[job EXCEPT ![r] = "aur"], [job EXCEPT ![r] = "failed"]}
     \/ npm # Nothing /\ Goes(r, "aur") /\ UNCHANGED npm
  /\ UNCHANGED <<trigger, smoked, assets, unsent, aur, raced, misled, issueVars>>

\* Skipped where it is not enabled; otherwise the PKGBUILD of this build is pushed.
PublishAur(r) ==
  /\ At(r, "aur") /\ Goes(r, "done")
  /\ aur' \in {r, aur}
  /\ UNCHANGED <<trigger, smoked, assets, unsent, npm, raced, misled, issueVars>>

\* Every step ends the run when it fails, and nothing is undone.
StepFails(r) ==
  /\ job[r] \notin {"idle"} \cup Over
  /\ Goes(r, "failed")
  /\ UNCHANGED <<trigger, publicVars, issueVars>>

ReleaseNext ==
  \/ \E r \in Workflows :
       \/ \E how \in {"schedule", "dispatch", "force"} : Starts(r, how)
       \/ Preflight(r) \/ Canary(r) \/ ListOpenIssues(r) \/ CreateOrUpdateIssue(r)
       \/ BuildChannel(r) \/ Smoke(r) \/ Refuse(r)
       \/ \E a \in Assets : UploadAsset(r, a)
       \/ Uploaded(r) \/ PublishNpm(r) \/ PublishAur(r) \/ StepFails(r)
  \/ CloseIssue

----------------------------------------------------------------------------
(* A launcher from npm and a PKGBUILD refuse assets of another build.  What    *)
(* they will download is what they were made with, it has been smoked, and it  *)
(* stays so however runs fail, repeat or are forced - as long as the refusal   *)
(* was not passed by two runs at once, nor by one that was told wrong.         *)
(* Reporters that do not run at once leave one issue for one failure.          *)
ReleaseHolds ==
  /\ ~raced /\ ~misled =>
       /\ npm # Nothing => npm \in smoked /\ \A a \in Assets : assets[a] = npm
       /\ aur \in {Nothing, npm}
  /\ ~crossed => issues <= 1

(* "release workflow refuses existing npm versions before clobbering release   *)
(* assets": whatever runs overlap, the assets of a version that npm has are    *)
(* those it was published with, as long as npm answers.                        *)
NeverClobbered == npm # Nothing /\ ~misled => \A a \in Assets : assets[a] = npm
=============================================================================
