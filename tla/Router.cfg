\* Two sockets, two processes for one terminal id, two worker requests, two fetches.
SPECIFICATION MCSpec
CONSTANTS
  Windows = {w1, w2}
  Tids = {t1}
  Shells = {p1, p2, p3}
  Asks = {r1, r2}
  Fids = {f1, f2}
CHECK_DEADLOCK FALSE
INVARIANTS RouterTypeOK TerminalOwnsItsShell NothingForTheGone AnsweredRight
PROPERTY AllAnswered
