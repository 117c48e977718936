----------------------------- MODULE AssetStore -----------------------------
(***************************************************************************)
(* The files in which the extension host collects the context of a tab:    *)
(* assets.rs.  Chrome's requests come one by one; each step of one of them *)
(* on the file system may fail, and the host may end or be killed between  *)
(* two requests and be started again over the same directory.              *)
(***************************************************************************)
EXTENDS Naturals, FiniteSetsExt

CONSTANTS TabAssets, \* the names random_hex may draw
          Chunks,    \* sizes of decoded chunks
          MaxActive, MaxAssetBytes, MaxTotalBytes \* the limits of assets.rs

ASSUME AssetStoreAssumption ==
  /\ Chunks \subseteq Nat /\ MaxActive \in Nat \ {0}
  /\ MaxAssetBytes \in Nat /\ MaxTotalBytes \in Nat

VARIABLES hosting, \* the host lives
          active,  \* the keys of `active'
          open,    \* those whose file is Some
          bytes,   \* their byte counts
          total,   \* total_bytes
          disk,    \* the files in the directory
          size,    \* their sizes
          ragged,  \* files with a part of a chunk that was refused
          left,    \* files that no host will delete any more
          told     \* size of a file when its finish was first answered (history)

storeVars == <<hosting, active, open, bytes, total, disk, size, ragged, left, told>>

Untold == MaxAssetBytes + MaxTotalBytes + 1

StoreTypeOK ==
  /\ hosting \in BOOLEAN /\ active \in SUBSET disk /\ open \in SUBSET active
  /\ disk \in SUBSET TabAssets /\ ragged \in SUBSET disk /\ left \in SUBSET disk
  /\ bytes \in [TabAssets -> 0..MaxAssetBytes] /\ total \in 0..MaxTotalBytes
  /\ size \in [TabAssets -> Nat] /\ told \in [TabAssets -> Nat]

StoreInit ==
  /\ hosting = TRUE /\ active = {} /\ open = {} /\ disk = {} /\ ragged = {} /\ left = {} /\ total = 0
  /\ bytes = [a \in TabAssets |-> 0] /\ size = [a \in TabAssets |-> 0]
  /\ told = [a \in TabAssets |-> Untold]

\* A name that is taken is drawn again (create_new)
Create(a) ==
  /\ hosting /\ Cardinality(active) < MaxActive /\ a \notin disk
  /\ disk' = disk \cup {a} /\ active' = active \cup {a} /\ open' = open \cup {a}
  /\ UNCHANGED <<hosting, bytes, total, size, ragged, left, told>>

Fits(a, n) == bytes[a] + n <= MaxAssetBytes /\ total + n <= MaxTotalBytes

Appends(a, n) == hosting /\ a \in active /\ Fits(a, n) /\ a \in open

AppendChunk(a, n) ==
  /\ Appends(a, n)
  /\ size' = [size EXCEPT ![a] = @ + n]
  /\ bytes' = [bytes EXCEPT ![a] = @ + n] /\ total' = total + n
  /\ UNCHANGED <<hosting, active, open, disk, ragged, left, told>>

\* write_all gives up, after a part of the chunk: the counts stay
AppendFails(a, n) ==
  /\ Appends(a, n) /\ n > 0 /\ a \notin ragged
  /\ \E k \in 0..(n - 1) : size' = [size EXCEPT ![a] = @ + k]
  /\ ragged' = ragged \cup {a}
  /\ UNCHANGED <<hosting, active, open, bytes, total, disk, left, told>>

Tells(a) == told' = [told EXCEPT ![a] = IF @ = Untold THEN size[a] ELSE @]

\* The file is taken before it is flushed: a finish after a failed one succeeds
Finish(a) ==
  /\ hosting /\ a \in active /\ open' = open \ {a}
  /\ Tells(a) \/ (a \in open /\ UNCHANGED told)
  /\ UNCHANGED <<hosting, active, bytes, total, disk, size, ragged, left>>

\* The files in gone are deleted, those in kept stay with nobody to delete them; the
\* assets of both are forgotten.
Forget(gone, kept) ==
  LET lost == gone \cup kept IN
  /\ active' = active \ lost /\ open' = open \ lost
  /\ disk' = disk \ gone /\ ragged' = ragged \ gone /\ left' = left \cup kept
  /\ bytes' = [a \in TabAssets |-> IF a \in lost THEN 0 ELSE bytes[a]]
  /\ size' = [a \in TabAssets |-> IF a \in gone THEN 0 ELSE size[a]]
  /\ told' = [a \in TabAssets |-> IF a \in gone THEN Untold ELSE told[a]]

\* Mutant: the total keeps the bytes of an asset whose file could not be deleted.
RemoveKeepsTotal(a) ==
  /\ hosting /\ a \in active
  /\ \/ Forget({a}, {}) /\ total' = IF total > bytes[a] THEN total - bytes[a] ELSE 0
     \/ Forget({}, {a}) /\ UNCHANGED total
  /\ UNCHANGED hosting

\* abort and remove: the asset is forgotten before its file is deleted, which may fail
RemoveAsset(a) ==
  /\ hosting /\ a \in active
  /\ Forget({a}, {}) \/ Forget({}, {a})
  /\ total' = IF total > bytes[a] THEN total - bytes[a] ELSE 0
  /\ UNCHANGED hosting

\* Drop: Chrome closes the host's input; a file that cannot be deleted is only logged
HostEnds ==
  /\ hosting /\ hosting' = FALSE /\ total' = 0
  /\ \E failed \in SUBSET active : Forget(active \ failed, failed)

\* A signal ends the host without Drop
HostKilled == hosting /\ hosting' = FALSE /\ total' = 0 /\ Forget({}, active)

\* prepare_root keeps what it finds; the system may clean the directory between two hosts
HostStarts ==
  /\ ~hosting /\ hosting' = TRUE
  /\ UNCHANGED <<active, open, bytes, total, disk, size, ragged, left, told>>

TmpCleaned ==
  /\ ~hosting /\ disk # {}
  /\ disk' = {} /\ ragged' = {} /\ left' = {}
  /\ size' = [a \in TabAssets |-> 0] /\ told' = [a \in TabAssets |-> Untold]
  /\ UNCHANGED <<hosting, active, open, bytes, total>>

StoreNext ==
  \/ HostEnds \/ HostKilled \/ HostStarts \/ TmpCleaned
  \/ \E a \in TabAssets : Create(a) \/ Finish(a) \/ RemoveAsset(a)
  \/ \E a \in TabAssets, n \in Chunks : AppendChunk(a, n) \/ AppendFails(a, n)

-----------------------------------------------------------------------------
SumOf(f, S) == MapThenSumSet(LAMBDA a : f[a], S)
Accounted == total = SumOf(bytes, active)

Theirs ==
  /\ disk = active \cup left
  /\ \A a \in active \ ragged : size[a] = bytes[a]

Frozen == \A a \in disk : told[a] # Untold => size[a] = told[a]

(* After any sequence of requests, failures, kills and restarts: the total is  *)
(* that of the assets there are, so that no room leaks away; a file has an     *)
(* asset that will delete it, or one whose deletion failed or whose host was   *)
(* killed; a file is as long as its count says, unless an append to it failed; *)
(* and from the moment Chrome is told that it is finished it does not change.  *)
StoreSound == Accounted /\ Theirs /\ Frozen
=============================================================================
