------------------------------- MODULE Attack -------------------------------
(***************************************************************************)
(* One attack of a scan page (core/src/check.ts): the request itself, sent *)
(* by sendRequest with its redirects, and, when the WAF denied it, the     *)
(* same request again under trusted User-Agents (probeUserAgentBypass) and *)
(* then with trusted IP headers (probeIpHeaderBypass).                     *)
(*                                                                         *)
(* A request is in one hop at a time.  What the target answers is free: a  *)
(* redirect to any host, or a final answer, of which only what             *)
(* evaluateWAFVerdict and the status make of it matters here:              *)
(*   denied   blocked with a 403 or 406, the statuses that are replayed    *)
(*   refused  blocked in another way: 429, a challenge, a refused target   *)
(*   through  not blocked                                                  *)
(*   error    no answer: timeout, network error                            *)
(* A redirect that is not followed is an answer too: "refused" if its      *)
(* target is not allowed, whatever its 3xx status makes of it otherwise.   *)
(***************************************************************************)
EXTENDS Integers, FiniteSets

CONSTANTS Agents,        \* legitUserAgents.length
          IpHeaders,     \* trustedIpHeaders.length
          Lanes,         \* UA_PROBE_CONCURRENCY
          MaxRedirects,  \* MAX_REDIRECTS
          Hosts,
          Target,        \* the host of the scanned URL
          Allowed,       \* hosts isValidTargetUrl accepts
          Below          \* pairs <<h, g>> where h is a subdomain of g

ASSUME AttackAssumption ==
  /\ Agents \in Nat /\ IpHeaders \in Nat
  /\ Lanes \in Nat \ {0} /\ MaxRedirects \in Nat
  /\ Target \in Hosts /\ Allowed \subseteq Hosts /\ Below \subseteq Hosts \X Hosts

Kinds    == {"ua", "ip"}
Verdicts == {"denied", "refused", "through", "error"}

\* Requests: the attack, and its probes with the i-th identity.
Attack   == <<"attack", 0>>
Probe(k, i) == <<k, i>>

VARIABLES follow,   \* followRedirect
          size,     \* size[k]: identities of kind k to replay it with
          stage,    \* "idle", "attack", "first" (probe alone), "pool", "done"
          kind,     \* kind of the probes in progress
          next,     \* next identity of that kind
          host,     \* host[q]: where the request q in flight is
          hops,     \* hops[q]: redirects it has followed
          tested,   \* probes sent, of both kinds
          hits,     \* probes that got through
          fetches   \* subrequests made

probing == <<stage, kind, next, tested, hits>>
vars    == <<follow, size, probing, host, hops, fetches>>

Open == DOMAIN host

Init ==
  /\ follow \in BOOLEAN
  \* A Header payload leaves out the identities that it sets itself.
  /\ size \in [ua : {0, Agents}, ip : 0 .. IpHeaders]
  /\ stage = "idle" /\ kind = "ua" /\ next = 0
  /\ host = << >> /\ hops = << >>
  /\ tested = {} /\ hits = {} /\ fetches = 0

-----------------------------------------------------------------------------
(* sendRequest.                                                            *)

\* Requests Q are sent, and those in D are no longer in flight.
Exchange(Q, D) ==
  /\ host' = [q \in (Open \ D) \cup Q |-> IF q \in Q THEN Target ELSE host[q]]
  /\ hops' = [q \in (Open \ D) \cup Q |-> IF q \in Q THEN 0 ELSE hops[q]]
  /\ fetches' = fetches + Cardinality(Q)

\* isInScopeRedirect: the same host, or one is a subdomain of the other.
InScope(from, to) == from = to \/ <<from, to>> \in Below \/ <<to, from>> \in Below

\* Mutant: one redirect too many.
MayFollowOneMore(q) == follow /\ hops[q] <= MaxRedirects

\* followRedirect && redirectCount < maxRedirects
MayFollow(q) == follow /\ hops[q] < MaxRedirects

\* The next hop is an allowed target within the scope of this one.
Accepts(q, h) == h \in Allowed /\ InScope(host[q], h)

\* A redirect is followed.
Redirect(q, h) ==
  /\ q \in Open /\ MayFollow(q) /\ Accepts(q, h)
  /\ host' = [host EXCEPT ![q] = h]
  /\ hops' = [hops EXCEPT ![q] = @ + 1]
  /\ fetches' = fetches + 1
  /\ UNCHANGED <<follow, size, probing>>

-----------------------------------------------------------------------------
(* The probes.                                                             *)

Bypassed(k) == \E q \in hits : q[1] = k

\* probe(list[0])
First(k) == {Probe(k, 0)}

\* Kind k is probed next, or, if its list is empty, what follows it.
BeginKind(k, D) ==
  /\ stage' = "first" /\ kind' = k /\ next' = 1
  /\ tested' = tested \cup First(k)
  /\ Exchange(First(k), D)
  /\ UNCHANGED hits

Finish(D) ==
  /\ stage' = "done"
  /\ Exchange({}, D)
  /\ UNCHANGED <<kind, next, tested, hits>>

\* Mutant: the identities of the second kind are tried only if the first kind
\* did not get through.
AfterAgentsUnlessBypassed == size.ip > 0 /\ hits = {}

\* trustedIpHeaders.length, after the User-Agents
AfterAgents == size.ip > 0

\* The attack is answered.
AttackAnswered(v) ==
  /\ stage = "attack" /\ Attack \in Open
  /\ IF v = "denied" /\ size.ua > 0 THEN BeginKind("ua", {Attack})
     ELSE IF v = "denied" /\ size.ip > 0 THEN BeginKind("ip", {Attack})
     ELSE Finish({Attack})
  /\ UNCHANGED <<follow, size>>

Send ==
  /\ stage = "idle"
  /\ stage' = "attack"
  /\ Exchange({Attack}, {})
  /\ UNCHANGED <<follow, size, kind, next, tested, hits>>

\* Mutant: an identity that gets through does not stop the others.
GoOnAlways(k) == TRUE

\* !info.bypassed
GoOn(k) == ~Bypassed(k)

\* Mutant: the rest of the list is sent at once.
PoolStartAll(k) == {Probe(k, i) : i \in 1 .. size[k] - 1}

\* Array.from({ length: poolSize }, runProbes): each lane takes one identity.
PoolStart(k) == {Probe(k, i) : i \in 1 .. (size[k] - 1)} \cap
                {Probe(k, i) : i \in 1 .. Lanes}

\* The first probe is answered: the pool starts, if nothing got through.
FirstAnswered(q, v) ==
  /\ stage = "first" /\ q \in Open
  /\ hits' = IF v = "through" THEN hits \cup {q} ELSE hits
  /\ LET sent == IF v # "through" THEN PoolStart(kind) ELSE {}
     IN /\ stage' = "pool"
        /\ next' = next + Cardinality(sent)
        /\ tested' = tested \cup sent
        /\ Exchange(sent, {q})
  /\ UNCHANGED <<follow, size, kind>>

\* A lane has its answer and takes the next identity, unless one got through.
PoolAnswered(q, v) ==
  /\ stage = "pool" /\ q \in Open
  /\ hits' = IF v = "through" THEN hits \cup {q} ELSE hits
  /\ UNCHANGED <<follow, size, stage, kind>>
  /\ IF GoOn(kind)' /\ next < size[kind]
       THEN /\ Exchange({Probe(kind, next)}, {q})
            /\ tested' = tested \cup {Probe(kind, next)}
            /\ next' = next + 1
       ELSE Exchange({}, {q}) /\ UNCHANGED <<tested, next>>

\* Mutant: Promise.race of the lanes.
LanesReturnedAny == TRUE

\* Mutant: Promise.any of the lanes, which waits for one that got through.
LanesReturnedOnHit == Open = {} /\ Bypassed(kind)

\* Promise.all of the lanes
LanesReturned == Open = {}

PoolDone ==
  /\ stage = "pool" /\ LanesReturned
  /\ IF kind = "ua" /\ AfterAgents THEN BeginKind("ip", {}) ELSE Finish({})
  /\ UNCHANGED <<follow, size>>

-----------------------------------------------------------------------------
(* The specification.                                                      *)

Answered ==
  \E v \in Verdicts :
    \/ AttackAnswered(v)
    \/ \E q \in Open : FirstAnswered(q, v) \/ PoolAnswered(q, v)

Redirected == \E q \in Open, h \in Hosts : Redirect(q, h)

Next == Send \/ Answered \/ Redirected \/ PoolDone

Spec == Init /\ [][Next]_vars

\* Every fetch is answered or aborted: the timeout of 10 s covers all the hops
\* of a request and its body.
FairSpec == Spec /\ WF_vars(Next)

-----------------------------------------------------------------------------
(* Properties.                                                             *)

Probes == {Probe(k, i) : k \in Kinds, i \in 0 .. Agents + IpHeaders}

TypeOK ==
  /\ follow \in BOOLEAN /\ size \in [ua : {0, Agents}, ip : 0 .. IpHeaders]
  /\ stage \in {"idle", "attack", "first", "pool", "done"} /\ kind \in Kinds
  /\ next \in Nat /\ fetches \in Nat
  /\ Open \subseteq tested \cup {Attack} /\ DOMAIN hops = Open
  /\ \A q \in Open : host[q] \in Hosts /\ hops[q] \in Nat
  /\ tested \subseteq Probes /\ hits \subseteq tested \ Open
  /\ stage = "done" => Open = {}

\* A whole attack, redirects and probes included, makes no more subrequests than
\* maxWorkerPageSize allots to an item: a page within its limit stays within the
\* 10 000 of an invocation (check.ts:147-163).
WithinBudget ==
  fetches <= (1 + size.ua + size.ip) * (IF follow THEN MaxRedirects + 1 ELSE 1)

\* No more than UA_PROBE_CONCURRENCY requests of an attack are open at once, in
\* any order of answers (check.ts:122-125).
AtMostLanes == Cardinality(Open) <= Lanes

\* An identity is tried only as long as none of its kind got through.
NoProbeAfterHit ==
  [][\A q \in tested' \ tested : \A hit \in hits' : hit[1] # q[1]]_vars

\* When a denied attack is done, each kind of identity got through or was tried
\* in full: a bypass with a User-Agent does not hide one with a header.
EveryIdentityTried ==
  stage = "done" /\ tested # {} =>
    \A k \in Kinds : Bypassed(k) \/ \A i \in 0 .. size[k] - 1 : Probe(k, i) \in tested

\* An attack comes to its end whatever the target answers, redirect loops and
\* lost answers included.
Settles == <>(stage = "done")

\* The request whose answer is reported stays within the scope of the scanned
\* target (utils/security.ts:247-254).
StaysInScope == \A q \in Open : InScope(Target, host[q])
=============================================================================
