SPECIFICATION ReaderSpec
CONSTANTS
  Values = {"v"}
  Texts = {}
  Intervals = {0}
  MaxLines = 4
  MaxSent = 0
INVARIANTS NamedAsSpecified
CHECK_DEADLOCK FALSE
