\* Alice's device starts two exchanges with Bob's.
SPECIFICATION Spec
CONSTANTS
  alice = alice
  bob = bob
  x1 = x1
  x2 = x2
  Device = {alice, bob}
  Exch = {x1, x2}
  From <- OneWayFrom
  To <- OneWayTo
  PairTTL = 2
  MaxAttempts = 2
  Lockout = 1
  MaxRefused = 0
  Faults = TRUE
  NoExch = NoExch
  Unasked = Unasked
SYMMETRY Interchangeable
INVARIANTS
  PromptAfterReveal
  PeersAreAccepted
  MirroredTokens
PROPERTY PromiseKept
