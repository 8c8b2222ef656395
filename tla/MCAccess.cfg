\* Two requests at a time, everything else may happen.
\* A stopped server may stay stopped.
CHECK_DEADLOCK FALSE
SPECIFICATION Spec
CONSTANTS
  addr = addr
  r1 = r1
  r2 = r2
  i1 = i1
  Share = {music}
  AnyShare = AnyShare
  Addr = {addr}
  Request = {r1, r2}
  Ip <- SameAddress
  Asks <- Visitors
  Sid = {i1}
  Start <- OnAndOff
  MaxChanges = 1
  MaxRuns = 2
  MaxAttempts = 2
  PlayCap = 1
  NoSid = NoSid
  Unminted = Unminted
  Gone = Gone
CONSTRAINT OneThingAtATime
INVARIANTS
  TypeOK
  ConfigTakesEffect
  NoneStaleKept
  GuessesBounded
  
