\* One share, one pairing, failing saves and restarts.
SPECIFICATION Spec
CONSTANTS
  Share = {music}
  Peer = {peer}
  MaxIds = 3
  MaxTokens = 2
  Faults = TRUE
  NoShare = NoShare
  Missing = Missing
  Torn = Torn
INVARIANTS
  TypeOK
  LiveIsFile
PROPERTIES
  OnlyCopiesRevive
  RegisterKept
  IdsComeFromFile
