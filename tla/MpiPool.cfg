SPECIFICATION FairSpec
CONSTANTS
  Ranks = {"a", "b"}
  Peer <- MCPeer
  Connectors <- MCConnectors
  Size <- MCSize
  Rounds = 3
  EagerChoices <- MCEager
INVARIANT TypeOK
INVARIANT ReadsItsVector
PROPERTY OneMessagePerRound
PROPERTY AllRoundsEnd
CHECK_DEADLOCK FALSE
