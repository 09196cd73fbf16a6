CONSTANTS
  plain = plain
  encoded = encoded
  waf = waf
  None = None
  Options = {plain, encoded}
  Wafs = {waf}
  Payloads <- MCPayloads
  Methods = 2
  Requested = 4
  Budget = 3
  CacheSize = 2
  Lines = {"u1", "u2", "u3", "bad"}
  Valid = {"u1", "u2", "u3"}
  Texts <- MCTexts
  MaxUrls = 2
  MaxItems = 1
  MaxBatches = 2
  MaxSends = 3
  NoJob = NoJob
SPECIFICATION ClientsSpec
INVARIANT PagesAreSlices
INVARIANT OnePlanInOrder
INVARIANT AuditIsComplete
PROPERTY ClientsFinish
PROPERTY DialogsHold
\* The clicks that the bounds leave run out.
CHECK_DEADLOCK FALSE
