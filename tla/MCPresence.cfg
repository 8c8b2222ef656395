\* Two ticks of being online, three until the sweep; the table holds two devices.
CONSTANTS
  f = f
  s1 = s1
  s2 = s2
  s3 = s3
  Device = {f, s1, s2, s3}
  Friend = {f}
  Network <- Networks
  Steady = {s2, s3}
  Shy = {f}
  Typed = {s1}
  OfflineAfter = 1
  EvictAfter = 2
  Cap = 2
  MaxAdded = 1
  Absent = Absent
  Nobody = Nobody
SYMMETRY Strangers
SPECIFICATION Spec
INVARIANTS
  TypeOK
  OnlineWasAlive
  GoodbyeHides
  TableBounded
  NoStandstill
PROPERTY MakesRoom
