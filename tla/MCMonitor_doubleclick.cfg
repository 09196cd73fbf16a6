CONSTANTS
  i1 = i1
  i2 = i2
  t1 = t1
  t2 = t2
  t3 = t3
  m1 = m1
  m2 = m2
  m3 = m3
  r1 = r1
  r2 = r2
  None = None
  Identities = {i1}
  External = {}
  VTokens = {t1}
  MTokens = {m1, m2}
  Reqs = {r1, r2}
SYMMETRY TokenSymmetry
SPECIFICATION Spec
INVARIANT OneActivePerIdentity
\* The tokens run out: a behaviour may end.
CHECK_DEADLOCK FALSE
