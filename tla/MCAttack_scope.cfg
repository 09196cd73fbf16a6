CONSTANTS
  Agents = 4
  IpHeaders = 3
  Lanes = 2
  MaxRedirects = 2
  apex = apex
  www = www
  shop = shop
  other = other
  inner = inner
  Hosts = {apex, www, shop, other, inner}
  Target = www
  Allowed = {apex, www, shop, other}
  Below <- MCBelow
SPECIFICATION Spec
CHECK_DEADLOCK FALSE
INVARIANT StaysInScope
