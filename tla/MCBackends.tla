----------------------------- MODULE MCBackends -----------------------------
(* Instances for TLC of the modules that share no state: a behaviour exercises *)
(* one of them, chosen at the start.                                           *)
EXTENDS Session, IpcClient, GlobalState, RepoCommands, Launcher, Assets, Release, AssetStore

VARIABLE part
allVars == <<sessionVars, ipcVars, globalVars, repoVars, launcherVars, assetVars, releaseVars,
             storeVars, part>>

MCInit ==
  /\ SessionInit /\ IpcInit /\ GlobalInit /\ RepoInit /\ LauncherInit /\ AssetInit /\ ReleaseInit
  /\ StoreInit
  /\ part \in {"session", "ipc", "global", "repo", "launcher", "assets", "release", "store"}

SessionOnly ==
  /\ part = "session"
  /\ UNCHANGED <<ipcVars, globalVars, repoVars, launcherVars, assetVars, releaseVars, storeVars, part>>
IpcOnly ==
  /\ part = "ipc"
  /\ UNCHANGED <<sessionVars, globalVars, repoVars, launcherVars, assetVars, releaseVars, storeVars, part>>

MCNext ==
  \/ SessionOnly /\ SessionNext
  \/ IpcOnly /\ IpcNext
  \/ /\ part = "store" /\ StoreNext
     /\ UNCHANGED <<sessionVars, ipcVars, globalVars, repoVars, launcherVars, assetVars, releaseVars, part>>
  \/ /\ UNCHANGED <<sessionVars, ipcVars, storeVars, part>>
     /\ \/ part = "global" /\ GlobalNext /\ UNCHANGED <<repoVars, launcherVars, assetVars, releaseVars>>
        \/ part = "repo" /\ RepoNext /\ UNCHANGED <<globalVars, launcherVars, assetVars, releaseVars>>
        \/ part = "launcher" /\ LauncherNext /\ UNCHANGED <<globalVars, repoVars, assetVars, releaseVars>>
        \/ part = "assets" /\ AssetNext /\ UNCHANGED <<globalVars, repoVars, launcherVars, releaseVars>>
        \/ part = "release" /\ ReleaseNext /\ UNCHANGED <<globalVars, repoVars, launcherVars, assetVars>>

\* The page's handlers and timers run and an upgrade is answered; connects, closes and
\* the timers of requests happen.  Nobody is obliged to send or to answer.
Fairness ==
  /\ WF_allVars(SessionOnly /\ (Upgrade \/ UpgradeFails))
  /\ WF_allVars(SessionOnly /\ PageNotices)
  /\ WF_allVars(SessionOnly /\ Reconnect)
  /\ WF_allVars(IpcOnly /\ (Connected \/ ConnectFails))
  /\ WF_allVars(IpcOnly /\ link = "closing" /\ SocketCloses)
  /\ WF_allVars(IpcOnly /\ Reconnects)
  /\ \A r \in Requests \cup {Hello} : WF_allVars(IpcOnly /\ Timeout(r))

MCSpec == MCInit /\ [][MCNext]_allVars /\ Fairness

TypeOK ==
  /\ SessionTypeOK /\ IpcTypeOK /\ GlobalTypeOK
  /\ RepoTypeOK /\ LauncherTypeOK /\ AssetTypeOK /\ ReleaseTypeOK /\ StoreTypeOK

(* What the launcher and the web server keep unpacked is whole when it is      *)
(* used, and the host's store of tab contexts knows its files.                 *)
FilesAreSound == BundleIsWhole /\ AssetsAreWhole /\ StoreSound

(* Neither gives up: the page reconnects, the client connects again and every   *)
(* request of it ends.                                                          *)
NeverStuck == PageReconnects /\ (part = "ipc" => IpcProgress)
=============================================================================
