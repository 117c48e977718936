\* Two windows, three processes one after the other, the second initialized with id 2, which the app server may use too.
SPECIFICATION FairSpec
CONSTANTS
  Window = {w1, w2}
  WindowId = {2}
  ServerId = {2}
  MaxProc = 3
CHECK_DEADLOCK FALSE
INVARIANTS TypeOK OwnResponse NeverForgotten OneProcess
PROPERTY ImplementsCalls
