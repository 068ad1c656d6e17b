SPECIFICATION Spec
CONSTANTS
  one = one
  two = two
  empty = empty
  columns = columns
  None = None
  Portals = {p1, p2}
  Queries = {one, two, empty, columns}
  Size <- Rows
  Projects <- SomeColumns
  MaxOpens = 3
INVARIANTS
  TypeOK
  SerialScansReturnTheirRows
  SerialScansSendTheirVo
  StaticsBelongToTheScan
CHECK_DEADLOCK FALSE
