CONSTANTS
  Agents = 4
  IpHeaders = 3
  Lanes = 2
  MaxRedirects = 2
  apex = apex
  www = www
  shop = shop
  other = other
  inner = inner
  Hosts = {apex, www, shop, other, inner}
  Target = www
  Allowed = {apex, www, shop, other}
  Below <- MCBelow
  Signatures <- MCSignatures
  Answers <- MCAnswers
  Injected = {"server", "cf-ray"}
  Payloads = 2
  DetectionRedirects = 3
  Rules = 3
  Bounds <- MCBounds
  Stages <- MCStages
  None = None
SPECIFICATION ProbingSpec
INVARIANT WithinBudget
INVARIANT AtMostLanes
INVARIANT EveryIdentityTried
INVARIANT DetectionHolds
INVARIANT AuditIsGrounded
PROPERTY NoProbeAfterHit
PROPERTY AttackSettles
\* An attack, a detection and an audit end.
CHECK_DEADLOCK FALSE
