\* Alice's device starts two exchanges with Bob's, with no mishap.
SPECIFICATION Spec
CONSTANTS
  alice = alice
  bob = bob
  x1 = x1
  x2 = x2
  Device = {alice, bob}
  Exch = {x1, x2}
  From <- OneWayFrom
  To <- OneWayTo
  PairTTL = 1
  MaxAttempts = 2
  Lockout = 1
  MaxRefused = 0
  Faults = FALSE
  NoExch = NoExch
  Unasked = Unasked
CONSTRAINT NoMishap
INVARIANT OneLivePrompt
