------------------------------- MODULE Assets -------------------------------
(***************************************************************************)
(* The web assets a server extracts from the app's archive, once for all   *)
(* servers of a build: ensureExtractedAssets of assets.mjs.  Each extracts *)
(* to a directory of its own, deletes the shared one, moves its own there  *)
(* and marks it complete; a server that finds the mark takes what is there.*)
(* Servers do not know of each other, and can be killed between two steps. *)
(***************************************************************************)
EXTENDS FiniteSets

CONSTANT Servers

VARIABLES stage,    \* where each server stands
          found,    \* what of the shared directory its rm has still to delete
          shown,    \* the directory's content; "mark" is .extract-complete.json
          made,     \* the directory exists
          together, \* two servers extracted at once
          dropped   \* one ended in its rm while another was at work, or over a mark

assetVars == <<stage, found, shown, made, together, dropped>>

Mark == "mark"
Assembled == {"index", "worker"}
Extracting == {s \in Servers : stage[s] \notin {"off", "serving"}}

AssetTypeOK ==
  /\ stage \in [Servers -> {"off", "extracting", "clearing", "moving", "marking", "serving"}]
  /\ found \in [Servers -> SUBSET (Assembled \cup {Mark})]
  /\ shown \subseteq Assembled \cup {Mark} /\ made \in BOOLEAN /\ (shown # {} => made)
  /\ together \in BOOLEAN /\ dropped \in BOOLEAN

AssetInit ==
  /\ stage = [s \in Servers |-> "off"] /\ found = [s \in Servers |-> {}]
  /\ shown = {} /\ made = FALSE /\ together = FALSE /\ dropped = FALSE

Moves(s, to) == stage' = [stage EXCEPT ![s] = to]

\* Mutant: the directory is there, so it was extracted.
CompleteWhenMade == made
\* alreadyExtracted
Complete == Mark \in shown

\* A complete directory is served if it has its index; the worker is not looked for.
Looks(s) ==
  /\ stage[s] = "off"
  /\ IF Complete THEN "index" \in shown /\ Moves(s, "serving") /\ UNCHANGED together
     ELSE /\ Moves(s, "extracting")
          /\ together' = (together \/ Extracting # {})
  /\ UNCHANGED <<found, shown, made, dropped>>

Extracted(s) ==
  /\ stage[s] = "extracting"
  /\ Moves(s, "clearing")
  /\ found' = [found EXCEPT ![s] = shown]
  /\ UNCHANGED <<shown, made, together, dropped>>

\* rm -r, file by file; what appeared meanwhile is looked for once more.
Clears(s) ==
  /\ stage[s] = "clearing"
  /\ \/ \E f \in found[s] :
          /\ shown' = shown \ {f} /\ found' = [found EXCEPT ![s] = @ \ {f}]
          /\ UNCHANGED <<stage, made>>
     \/ /\ found[s] = {} /\ shown # {}
        /\ found' = [found EXCEPT ![s] = shown]
        /\ UNCHANGED <<stage, shown, made>>
     \/ /\ found[s] = {} /\ shown = {}
        /\ made' = FALSE /\ Moves(s, "moving")
        /\ UNCHANGED <<shown, found>>
  /\ UNCHANGED <<together, dropped>>

\* The rename replaces an empty directory, and fails over another one (ServerStops).
MovesIn(s) ==
  /\ stage[s] = "moving" /\ shown = {}
  /\ shown' = Assembled /\ made' = TRUE
  /\ Moves(s, "marking")
  /\ UNCHANGED <<found, together, dropped>>

MarksComplete(s) ==
  /\ stage[s] = "marking" /\ made
  /\ shown' = shown \cup {Mark}
  /\ Moves(s, "serving")
  /\ IF Extracting = {s} /\ Assembled \subseteq shown
     THEN together' = FALSE /\ dropped' = FALSE ELSE UNCHANGED <<together, dropped>>
  /\ UNCHANGED <<found, made>>

\* An error of any step ends the server's main; a server is killed, or just ends.
ServerStops(s) ==
  /\ stage[s] # "off"
  /\ Moves(s, "off")
  /\ found' = [found EXCEPT ![s] = {}]
  /\ dropped' = (dropped \/ (stage[s] = "clearing" /\ (Mark \in shown \/ Extracting # {s})))
  /\ UNCHANGED <<shown, made, together>>

AssetNext ==
  \E s \in Servers :
    Looks(s) \/ Extracted(s) \/ Clears(s) \/ MovesIn(s) \/ MarksComplete(s) \/ ServerStops(s)

----------------------------------------------------------------------------
(* A directory that is marked complete is whole, wherever servers were killed  *)
(* before, and stays so under the servers that run from it, unless two of them *)
(* extracted at once: then one may delete under the other.  That heals, unless *)
(* one ends in its rm: the mark can stay with a part of the rest, for good.    *)
AssetsAreWhole ==
  /\ ~together =>
       /\ Mark \in shown => Assembled \subseteq shown
       /\ (\E s \in Servers : stage[s] = "serving") => Assembled \cup {Mark} \subseteq shown
  /\ Extracting = {} /\ ~dropped /\ Mark \in shown => Assembled \subseteq shown
=============================================================================
