CONSTANTS
  f1 = f1
  f2 = f2
  None = None
  Forms = {f1, f2}
  Alike <- MCAlike
  Replies <- MCReplies
  Stored <- MCStored
  Choices <- MCChoices
  Targets = {"t1", "t2"}
  Opened = "t1"
  Types = {"cf"}
  Settings <- MCSettings
  Items <- MCItems
  MaxPages = 1
  MaxScans = 2
  MaxOthers = 1
  Sessions <- MCSessions
  Nothing = Nothing
  Published <- MCPublished
  Vendors = {"cloudflare", "gcp"}
  Formats = {"native", "gcloud"}
  MaxAsks = 2
SPECIFICATION EngineSpec
INVARIANT BenignAnswerAgrees
INVARIANT ClearedOnlyAsOrigin
INVARIANT AddedOnlyIfDifferent
INVARIANT FileBlocksStay
INVARIANT PatchesHold
INVARIANT ScansAreApart
INVARIANT PageIsConsistent
\* A report is made once, and the asks of the page run out.
CHECK_DEADLOCK FALSE
