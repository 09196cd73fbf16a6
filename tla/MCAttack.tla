------------------------------ MODULE MCAttack ------------------------------
EXTENDS Attack

CONSTANTS apex, www, shop, other, inner

\* www, shop and inner are subdomains of apex, and inner is no allowed target;
\* other is unrelated to them.
MCBelow == {<<www, apex>>, <<shop, apex>>, <<inner, apex>>}
=============================================================================
