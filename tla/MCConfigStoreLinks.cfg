\* Commands only: no pairing, nothing fails.
SPECIFICATION Spec
CONSTANTS
  Share = {music}
  Peer = {}
  MaxIds = 3
  MaxTokens = 2
  Faults = FALSE
  NoShare = NoShare
  Missing = Missing
  Torn = Torn
INVARIANT OldLinkStaysDead
