\* One exchange between the two devices, with no mishap.
SPECIFICATION Spec
CONSTANTS
  alice = alice
  bob = bob
  x1 = x1
  x2 = x2
  Device = {alice, bob}
  Exch = {x1}
  From <- SingleFrom
  To <- SingleTo
  PairTTL = 1
  MaxAttempts = 2
  Lockout = 1
  MaxRefused = 0
  Faults = FALSE
  NoExch = NoExch
  Unasked = Unasked
CONSTRAINT NoMishap
INVARIANT LiveFollowsFile
