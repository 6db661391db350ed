\* Every graph over three tasks, every set of stored results, widths from -1 to 2;
\* the loops for every dependency map and every status map over three tasks.
SPECIFICATION MCSpec
CONSTANTS
  NumTasks = 3
  Graphs <- AllGraphs
  Widths <- SomeWidths
INVARIANTS
  OrderKept
  ReturnsHonestly
  LoopsAgree
PROPERTIES
  ImplementsContract
  Terminates
CHECK_DEADLOCK FALSE
