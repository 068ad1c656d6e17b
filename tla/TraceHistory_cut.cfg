SPECIFICATION Spec
CONSTANTS
  s1 = s1  s2 = s2  users = users  logs = logs
  quoted = quoted  other = other  different = different  plain = plain
  Texts <- TwoTexts
  Contents <- TwoContents
  Squeeze <- DropNothing
  Sessions <- OneSession
  Tables <- OneTable
  HistoryNamed <- NoTables
  PgNamed <- NoTables
  MaxStatements = 2
  MaxInserts = 2
  MaxStarts = 2
INVARIANTS EveryRowTraced
CHECK_DEADLOCK FALSE
