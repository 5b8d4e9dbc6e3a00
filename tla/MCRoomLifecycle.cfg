SPECIFICATION FairSpec
CONSTANTS
    Rooms = {r1}
    Users = {u1}
    Nobody = Nobody
    Interval = 1
    MaxTime = 1
INVARIANTS LifecycleInv JoinersReported
PROPERTIES StopsOnlyOverLatecomers TasksEnd StoppedIsDropped ExpiredIsStopped ProgramHears
CHECK_DEADLOCK FALSE
