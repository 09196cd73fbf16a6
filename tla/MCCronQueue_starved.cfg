CONSTANTS
  s1 = s1
  s2 = s2
  s3 = s3
  s4 = s4
  s5 = s5
  Subs = {s1, s2, s3}
  Lost = {s1, s2}
  Keys <- MCKeys
  Cap = 2
  RunDeadline = 84
  Worst = 25
  ListMax = 1
  Times = {1, 25}
SPECIFICATION FairSpec
PROPERTY NoStarvation
