SPECIFICATION MCSpec
CONSTANTS
  MaxRetries = 2
  Width = 4
  MaxEvents = 3
  MaxConns = 3
  Unnamed = {2}
  Retries = {"absent", "none", "some"}
  Loops = {"library", "StartSSE", "GetLceSSE", "GetSSEByUri", "GetInventoryByUri"}
  Values = {"v"}
  Texts <- MCTexts
  Intervals = {0, 1, 5}
  MaxLines = 5
  MaxSent = 2
INVARIANTS MCTypeOK NoLeak AtMostOneRequestAfterClose EndedLoopReleases ReadsWhatWasWritten
PROPERTIES InOrderSource GivesUp
CHECK_DEADLOCK FALSE
