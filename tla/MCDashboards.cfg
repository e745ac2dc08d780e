SPECIFICATION Spec
CONSTANTS
    Watchers = {w1, w2}
    Commands = {c1}
    BIViews <- Views2
    Reads <- Reads2
    MaxAge = 1
    LockTime = 1
    MaxData = 1
    MaxFaults = 1
INVARIANTS PassIsFresh GuardedAlone
PROPERTIES DataShown
