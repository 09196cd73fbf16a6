CONSTANTS
  i1 = i1
  i2 = i2
  t1 = t1
  t2 = t2
  t3 = t3
  m1 = m1
  m2 = m2
  m3 = m3
  r1 = r1
  r2 = r2
  None = None
  Identities = {i1}
  External = {i1}
  VTokens = {t1, t2, t3}
  MTokens = {m1, m2, m3}
  Reqs = {r1}
SYMMETRY TokenSymmetry
SPECIFICATION SerialKillSpec
INVARIANT OneActivePerIdentity
INVARIANT LinkWorksUntilStored
\* The tokens run out: a behaviour may end.
CHECK_DEADLOCK FALSE
