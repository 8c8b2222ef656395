CONSTANTS
  Worker <- Three
  Poll = {p1, p2}
  RingCap = 2
  PageLimit = 1
  MaxClears = 1
  Workload <- MCWorkload
  MaxFiles = 2
  MaxVariant = 3
  Host = Host
  Mixed = Mixed
  Free = Free
SPECIFICATION Spec
INVARIANTS TypeOK HostFileStands DoneIsWhole NoHalfFileKept SavedMeansAll NotTwice StartedIsRunning PageOnlyBehind
PROPERTIES FinalStatusStays LogIsHonest PageCatchesUp CancelledEnds
