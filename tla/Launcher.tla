------------------------------ MODULE Launcher ------------------------------
(***************************************************************************)
(* The bundle the launcher keeps in its cache (linux-desktop.mjs): an      *)
(* archive and, unpacked beside it, the binary and the rest.  Launches do  *)
(* not know of each other: all download to one temporary file, rename it to*)
(* the archive, delete what is unpacked and unpack again.  A launch can be *)
(* killed between any two steps.  What is downloaded is always the same.   *)
(***************************************************************************)
EXTENDS Naturals, FiniteSets

CONSTANT Launches

VARIABLES
  launch,   \* where each launch stands
  target,   \* the file its download stream writes to: the names move, the stream does not
  todo,     \* what it has still to delete or to unpack
  tmp, archive, \* "none", "part", "whole"
  bundle,   \* what is there of the unpacked bundle
  hurt,     \* a launch ended while deleting or unpacking
  company   \* two launches were at work together

launcherVars == <<launch, target, todo, tmp, archive, bundle, hurt, company>>

Members == {"binary", "rest"}
Working == {l \in Launches : launch[l] \notin {"idle", "running"}}

LauncherTypeOK ==
  /\ launch \in [Launches -> {"idle", "downloading", "downloaded", "verified", "renamed", "unpacking", "running"}]
  /\ target \in [Launches -> {"tmp", "archive", "lost"}] /\ todo \in [Launches -> SUBSET Members]
  /\ tmp \in {"none", "part", "whole"} /\ archive \in {"none", "part", "whole"}
  /\ bundle \subseteq Members /\ hurt \in BOOLEAN /\ company \in BOOLEAN

LauncherInit ==
  /\ launch = [l \in Launches |-> "idle"]
  /\ target = [l \in Launches |-> "lost"] /\ todo = [l \in Launches |-> {}]
  /\ tmp = "none" /\ archive = "none" /\ bundle = {} /\ hurt = FALSE /\ company = FALSE

\* resolveBinaryPath looks at the binary and at the sum of the archive, not at the rest.
Usable == "binary" \in bundle /\ archive = "whole"

\* launchDesktop spawns what is usable.
Runs(l) ==
  /\ launch[l] = "idle" /\ Usable
  /\ launch' = [launch EXCEPT ![l] = "running"]
  /\ UNCHANGED <<target, todo, tmp, archive, bundle, hurt, company>>

\* The stream opens, and empties, the temporary file.
Downloads(l) ==
  /\ launch[l] = "idle" /\ ~Usable
  /\ launch' = [launch EXCEPT ![l] = "downloading"]
  /\ target' = [target EXCEPT ![l] = "tmp"]
  /\ tmp' = "part"
  /\ company' = (company \/ Working # {})
  /\ UNCHANGED <<todo, archive, bundle, hurt>>

\* A stream can end early without an error, or while another is writing its file.
DownloadEnds(l) ==
  /\ launch[l] = "downloading"
  /\ launch' = [launch EXCEPT ![l] = "downloaded"]
  /\ tmp' \in IF target[l] = "tmp" THEN {"part", "whole"} ELSE {tmp}
  /\ archive' \in IF target[l] = "archive" THEN {"part", "whole"} ELSE {archive}
  /\ target' = [target EXCEPT ![l] = "lost"]
  /\ UNCHANGED <<todo, bundle, hurt, company>>

\* Mutant: the archive is not verified.
Unverified == tmp # "none"
\* matchesChecksum of the temporary file.  The sum is always there: the release writes it into
\* the package.  (Without one the file would have to be executable, which a download is not.)
Matches == tmp = "whole"

Verify(l) ==
  /\ launch[l] = "downloaded"
  /\ IF Matches THEN launch' = [launch EXCEPT ![l] = "verified"] /\ UNCHANGED <<target, tmp>>
     ELSE /\ launch' = [launch EXCEPT ![l] = "idle"]
          /\ tmp' = "none"
          /\ target' = [o \in Launches |-> IF target[o] = "tmp" THEN "lost" ELSE target[o]]
  /\ UNCHANGED <<todo, archive, bundle, hurt, company>>

\* The rename fails if another launch took the file away; a stream that still writes to
\* it goes on under the new name.
RenameArchive(l) ==
  /\ launch[l] = "verified"
  /\ IF tmp = "none" THEN launch' = [launch EXCEPT ![l] = "idle"] /\ UNCHANGED <<target, todo, tmp, archive>>
     ELSE /\ launch' = [launch EXCEPT ![l] = "renamed"]
          /\ archive' = tmp /\ tmp' = "none"
          /\ target' = [o \in Launches |-> IF target[o] = "tmp" THEN "archive" ELSE "lost"]
          /\ todo' = [todo EXCEPT ![l] = bundle]
  /\ UNCHANGED <<bundle, hurt, company>>

\* rm -r of what was unpacked, file by file; then tar, member by member.
Remove(l) ==
  /\ launch[l] = "renamed"
  /\ \/ \E m \in todo[l] : bundle' = bundle \ {m} /\ todo' = [todo EXCEPT ![l] = @ \ {m}] /\ UNCHANGED launch
     \/ /\ todo[l] = {} /\ todo' = [todo EXCEPT ![l] = Members]
        /\ launch' = [launch EXCEPT ![l] = "unpacking"]
        /\ UNCHANGED bundle
  /\ UNCHANGED <<target, tmp, archive, hurt, company>>

Unpack(l) ==
  /\ launch[l] = "unpacking" /\ archive = "whole"
  /\ \E m \in todo[l] : bundle' = bundle \cup {m} /\ todo' = [todo EXCEPT ![l] = @ \ {m}]
  /\ UNCHANGED <<launch, target, tmp, archive, hurt, company>>

\* tar has ended well, and the binary is looked for.
Unpacked(l) ==
  /\ launch[l] = "unpacking" /\ todo[l] = {}
  /\ launch' = [launch EXCEPT ![l] = IF "binary" \in bundle THEN "running" ELSE "idle"]
  /\ IF Working = {l} /\ bundle = Members /\ archive = "whole" THEN hurt' = FALSE /\ company' = FALSE ELSE UNCHANGED <<hurt, company>>
  /\ UNCHANGED <<target, todo, tmp, archive, bundle>>

\* A launch is killed, its download or tar fails; or the app that was started ends.
LaunchEnds(l) ==
  /\ launch[l] # "idle"
  /\ launch' = [launch EXCEPT ![l] = "idle"]
  /\ target' = [target EXCEPT ![l] = "lost"]
  /\ todo' = [todo EXCEPT ![l] = {}]
  /\ hurt' = (hurt \/ launch[l] \in {"renamed", "unpacking"})
  /\ UNCHANGED <<tmp, archive, bundle, company>>

LauncherNext ==
  \E l \in Launches :
    \/ Runs(l) \/ Downloads(l) \/ DownloadEnds(l) \/ Verify(l) \/ RenameArchive(l)
    \/ Remove(l) \/ Unpack(l) \/ Unpacked(l) \/ LaunchEnds(l)

----------------------------------------------------------------------------
(* What is renamed to the archive is whole, and between launches the bundle is  *)
(* whole or absent, and whole while the app runs from it: a failed download    *)
(* never harms it, nor does a launch killed before it deletes anything.  One   *)
(* killed later, or two at once, leave a bundle whose binary is accepted with a*)
(* part of the rest, until a launch has unpacked it again, alone.              *)
BundleIsWhole ==
  ~company =>
    /\ archive # "part"
    /\ Working = {} /\ ~hurt =>
         /\ bundle \in {{}, Members}
         /\ (\E l \in Launches : launch[l] = "running") => bundle = Members
=============================================================================
