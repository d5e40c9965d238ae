SPECIFICATION FairSpec
CONSTANTS
    Workers = {w1, w2}
    Callers = {c1}
    Tasks = {t1, t2}
    Timers = {1}
    Elapses = {2}
    MaxTime = 3
    Forever = 9
INVARIANTS TypeOK NoLostWakeup TasksInOrder NoDrift
PROPERTIES PostedIsTaken DueIsRun EndReturns
