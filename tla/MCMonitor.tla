----------------------------- MODULE MCMonitor -----------------------------
EXTENDS Monitor, TLC

CONSTANTS i1, i2, t1, t2, t3, m1, m2, m3, r1, r2

\* Tokens are interchangeable; so are the invocation slots.
TokenSymmetry ==
  Permutations(VTokens) \cup Permutations(MTokens) \cup Permutations(Reqs)
=============================================================================
