SPECIFICATION FairSpec
CONSTANTS
  Conns = {c1, c2}
  MaxPieces = 3
  MaxCommands = 3
INVARIANTS
  CounterFollowsTransfer
  VerdictOnOwnVo
  CalmClientLives
PROPERTY
  EveryVoGetsItsVerdict
CHECK_DEADLOCK FALSE
