\* One process that writes a row and reads the log.
SPECIFICATION AuditSpec
CONSTANTS
  Writers = {w1}
  MaxRows = 1
  MaxOpens = 1
  LastInstant = 0
  MaxSetBacks = 0
INVARIANT IntactIsValid
CHECK_DEADLOCK FALSE
