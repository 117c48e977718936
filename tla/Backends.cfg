\* One page, three connections, three envelopes; two IPC requests over three connections;
\* two writes of the global state; two calls of handlers, two launches, two servers, two workflow runs;
\* two active tab contexts of three names, of which the counts admit one and a half.
SPECIFICATION MCSpec
CONSTANTS
  Windows = {w1}
  MaxEnvelopes = 3
  MaxConns = 3
  MaxValue = 2
  Requests = {q1, q2}
  MaxOpens = 3
  Values = {v1}
  Home = home
  Roots = {home, root1}
  Writers = {1, 2}
  Calls = {c1, c2}
  Main = main
  Branches = {main, b1}
  Launches = {l1, l2}
  Servers = {s1, s2}
  Workflows = {run1, run2}
  TabAssets = {a1, a2, a3}
  Chunks = {1, 2}
  MaxActive = 2
  MaxAssetBytes = 2
  MaxTotalBytes = 3
CHECK_DEADLOCK FALSE
INVARIANTS TypeOK EnvelopesInOrder ViewIsCurrent IpcSound DiskFollowsMemory AnswersAreTrue FilesAreSound ReleaseHolds
PROPERTY NeverStuck
