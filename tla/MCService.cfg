CONSTANTS
  s1 = s1
  s2 = s2
  s3 = s3
  s4 = s4
  s5 = s5
  Subs = {s1, s2, s3, s4, s5}
  Lost = {s1}
  Keys <- MCKeys
  Cap = 3
  RunDeadline = 59
  Worst = 25
  ListMax = 1
  Times = {1, 25}
  Requests = {"r1", "r2", "r3"}
  MaxAttempts = 2
  Window = 2
  Floor = 2
  MaxTime = 4
  Absent = Absent
  Legacy = Legacy
  Wafs = {"cf"}
  PlanOf <- MCPlans
  Items = {1, 2, 3}
  None = None
SPECIFICATION ServiceSpec
INVARIANT NeverCutOff
INVARIANT ServiceHolds
PROPERTY LeftoversLead
PROPERTY NoStarvation
\* The clock of the rate limiter ends.
CHECK_DEADLOCK FALSE
