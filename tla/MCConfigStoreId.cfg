\* One share, one pairing, nothing fails or overlaps.
SPECIFICATION Spec
CONSTANTS
  Share = {music}
  Peer = {peer}
  MaxIds = 3
  MaxTokens = 2
  Faults = FALSE
  NoShare = NoShare
  Missing = Missing
  Torn = Torn
CONSTRAINT OneWriterAtATime
INVARIANT PeersKnowUs
