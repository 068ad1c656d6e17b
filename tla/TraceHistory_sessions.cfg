SPECIFICATION Spec
CONSTANTS
  s1 = s1  s2 = s2  users = users  logs = logs
  quoted = quoted  other = other  different = different  plain = plain
  Texts <- OneText
  Contents <- TwoContents
  Squeeze <- DropQuotes
  Sessions <- TwoSessions
  Tables <- TwoTables
  HistoryNamed <- LogsOnly
  PgNamed <- NoTables
  MaxStatements = 3
  MaxInserts = 2
  MaxStarts = 2
SYMMETRY SessionsAlike
INVARIANTS ChainLinear TxIdIsChainLength NoPhantomTrace TracedUnlessCut
CHECK_DEADLOCK FALSE
