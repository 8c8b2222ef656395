\* One exchange between the two devices; fair scheduling.
SPECIFICATION FairSpec
CONSTANTS
  alice = alice
  bob = bob
  x1 = x1
  x2 = x2
  Device = {alice, bob}
  Exch = {x1}
  From <- SingleFrom
  To <- SingleTo
  PairTTL = 1
  MaxAttempts = 2
  Lockout = 1
  MaxRefused = 2
  Faults = TRUE
  NoExch = NoExch
  Unasked = Unasked
INVARIANT TypeOK
PROPERTIES
  TaskEnds
  PendingDrains
  DialogCloses
