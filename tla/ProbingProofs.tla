---------------------------- MODULE ProbingProofs ----------------------------
(***************************************************************************)
(* Proofs about what a scan asks of its target, the parts of MCProbing:    *)
(* one attack with its redirects and its bypass probes (Attack), for any   *)
(* identities, lanes and redirects, any hosts and any answers in any       *)
(* order; the reverse engineering audit, for any number of rules and lanes *)
(* and any growing list of paddings; and the detection, for any signatures *)
(* and answers.                                                            *)
(*                                                                         *)
(* Inv adds to the type invariant of an attack which requests are in       *)
(* flight in each stage and which identities have been tried; Tried and    *)
(* Budget add that none is sent twice, and what those in flight may still  *)
(* fetch.                                                                  *)
(***************************************************************************)
EXTENDS MCProbing, Induction, FiniteSetTheorems, SequenceTheorems, TLAPS

-----------------------------------------------------------------------------
(* One attack.                                                             *)

\* The first n identities of kind k.
Ids(k, n) == {Probe(k, i) : i \in 0 .. n - 1}

\* Kind k got through or was tried in full.
Covered(k) == Bypassed(k) \/ Ids(k, size[k]) \subseteq tested

\* Before the probes.
Unprobed ==
  /\ stage \in {"idle", "attack"} => tested = {}
  /\ stage = "idle" => Open = {}
  /\ stage = "attack" => Open = {Attack}

\* While a kind is probed, the identities before next are those tried, and
\* nothing else is in flight.
Probing ==
  /\ stage \in {"first", "pool"} =>
       /\ size[kind] > 0 /\ next <= size[kind] /\ next > 0
       /\ Ids(kind, next) \subseteq tested
       /\ Open \subseteq Ids(kind, next)
  /\ stage = "first" => Open = {Probe(kind, 0)} /\ next = 1 /\ ~Bypassed(kind)
  /\ stage = "pool" =>
       /\ IsFiniteSet(Open) /\ Cardinality(Open) <= Lanes
       /\ Open = {} => Covered(kind)

\* The order of the kinds.
Order ==
  /\ kind = "ua" => \A q \in tested : q[1] # "ip"
  /\ kind = "ip" => Covered("ua")
  /\ stage = "done" /\ tested # {} => Covered("ua") /\ Covered("ip")

Inv == TypeOK /\ Unprobed /\ Probing /\ Order

-----------------------------------------------------------------------------
(* The parts of a step.                                                    *)

\* A list of either kind has a length within that of the lists configured.
LEMMA Sizes ==
  ASSUME TypeOK
  PROVE  \A k \in Kinds : size[k] \in Nat /\ size[k] <= Agents + IpHeaders
<1>1. size.ua \in {0, Agents} /\ size.ip \in 0 .. IpHeaders
  BY DEF TypeOK
<1> QED BY <1>1, AttackAssumption DEF Kinds

\* What is in flight after an exchange.
LEMMA Exchanged ==
  ASSUME TypeOK, NEW Q, NEW D, IsFiniteSet(Q), Exchange(Q, D)
  PROVE  /\ Open' = (Open \ D) \cup Q
         /\ DOMAIN hops' = Open'
         /\ \A q \in Open' : host'[q] \in Hosts /\ hops'[q] \in Nat
         /\ fetches' \in Nat
<1>1. Cardinality(Q) \in Nat
  BY FS_CardinalityType
<1> QED BY <1>1, AttackAssumption DEF TypeOK, Exchange, Open

\* The pool takes the next identities, as many as it has lanes, and at least
\* one if there is one.
LEMMA PoolStarts ==
  ASSUME TypeOK, kind \in Kinds, size[kind] > 0
  PROVE  LET sent == PoolStart(kind)
         IN /\ IsFiniteSet(sent) /\ Cardinality(sent) \in Nat
            /\ Cardinality(sent) <= Lanes
            /\ 1 + Cardinality(sent) <= size[kind]
            /\ Ids(kind, 1 + Cardinality(sent)) = {Probe(kind, 0)} \cup sent
            /\ sent = {} => size[kind] = 1
<1> DEFINE m    == IF size[kind] - 1 < Lanes THEN size[kind] - 1 ELSE Lanes
           sent == PoolStart(kind)
           f    == [i \in 1 .. m |-> Probe(kind, i)]
<1>1. size[kind] \in Nat /\ m \in Nat /\ m <= Lanes /\ m <= size[kind] - 1
  BY Sizes, AttackAssumption
<1>2. sent = {Probe(kind, i) : i \in 1 .. m}
  BY <1>1, AttackAssumption DEF PoolStart, Probe
<1> HIDE DEF m
<1>3. f \in Bijection(1 .. m, sent)
  BY <1>2 DEF Probe, Bijection, Injection, Surjection, IsInjective
<1>4. IsFiniteSet(1 .. m) /\ Cardinality(1 .. m) = m
  BY <1>1, FS_Interval
<1>5. IsFiniteSet(sent) /\ Cardinality(sent) = m
  BY <1>3, <1>4, FS_Bijection DEF ExistsBijection
<1>6. Ids(kind, 1 + m) = {Probe(kind, 0)} \cup sent
  BY <1>1, <1>2 DEF Ids
<1>7. sent = {} => size[kind] = 1
  <2> SUFFICES ASSUME sent = {} PROVE m = 0
    BY <1>1, AttackAssumption DEF m
  <2> QED BY <1>1, <1>5, FS_EmptySet
<1> QED BY <1>1, <1>5, <1>6, <1>7

\* What has been covered stays covered.
LEMMA CoveredStays ==
  ASSUME NEW k, Covered(k), size' = size, tested \subseteq tested', hits \subseteq hits'
  PROVE  Covered(k)'
BY DEF Covered, Bypassed, Ids

\* A kind is begun when nothing else is in flight.
LEMMA Begins ==
  ASSUME Inv, NEW k \in Kinds, NEW D, BeginKind(k, D), UNCHANGED <<follow, size>>,
         size[k] > 0, Open \ D = {}, ~Bypassed(k),
         k = "ua" => \A q \in tested : q[1] # "ip",
         k = "ip" => Covered("ua")
  PROVE  Inv'
<1>1. /\ Open' = {Probe(k, 0)} /\ DOMAIN hops' = Open' /\ fetches' \in Nat
      /\ \A q \in Open' : host'[q] \in Hosts /\ hops'[q] \in Nat
  <2>1. IsFiniteSet(First(k))
    BY FS_Singleton DEF First
  <2> QED BY <2>1, Exchanged DEF Inv, BeginKind, First
<1>2. stage' = "first" /\ kind' = k /\ next' = 1 /\ hits' = hits
      /\ tested' = tested \cup {Probe(k, 0)}
  BY DEF BeginKind, First
<1>3. Probe(k, 0) \in Probes
  BY AttackAssumption DEF Probes
<1>4. TypeOK'
  <2>1. hits \subseteq tested' \ Open'
    BY <1>1, <1>2 DEF Inv, TypeOK, Bypassed, Probe
  <2> QED BY <1>1, <1>2, <1>3, <2>1 DEF Inv, TypeOK
<1>5. Unprobed'
  BY <1>2 DEF Unprobed
<1>6. Probing'
  <2>1. Ids(k, 1) = {Probe(k, 0)}
    BY DEF Ids
  <2>2. size[k] \in Nat
    BY Sizes DEF Inv
  <2> QED BY <1>1, <1>2, <2>1, <2>2 DEF Probing, Bypassed
<1>7. Order'
  <2>1. k = "ip" => Covered("ua")'
    BY <1>2, CoveredStays
  <2> QED BY <1>2, <2>1 DEF Order, Probe, Kinds
<1> QED BY <1>4, <1>5, <1>6, <1>7 DEF Inv

\* An attack is done when nothing is in flight.
LEMMA Finishes ==
  ASSUME Inv, NEW D, Finish(D), UNCHANGED <<follow, size>>, Open \ D = {},
         tested # {} => Covered("ua") /\ Covered("ip")
  PROVE  Inv'
<1>1. Open' = {} /\ DOMAIN hops' = Open' /\ fetches' \in Nat
  BY FS_EmptySet, Exchanged DEF Inv, Finish
<1>2. stage' = "done" /\ UNCHANGED <<kind, next, tested, hits, size, follow>>
  BY DEF Finish
<1>3. TypeOK'
  BY <1>1, <1>2 DEF Inv, TypeOK
<1>4. Covered("ua")' = Covered("ua") /\ Covered("ip")' = Covered("ip")
  BY <1>2 DEF Covered, Bypassed
<1>5. Unprobed' /\ Probing'
  BY <1>2 DEF Unprobed, Probing
<1>6. Order'
  BY <1>2, <1>4 DEF Inv, Order
<1> QED BY <1>3, <1>5, <1>6 DEF Inv

-----------------------------------------------------------------------------
(* The actions.                                                            *)

LEMMA InitInv == Init => Inv
<1> SUFFICES ASSUME Init PROVE Inv
  OBVIOUS
<1>1. Open = {} /\ DOMAIN hops = {}
  BY DEF Init, Open
<1> QED BY <1>1 DEF Init, Inv, TypeOK, Unprobed, Probing, Order, Kinds

LEMMA SendInv ==
  ASSUME Inv, Send
  PROVE  Inv'
<1>1. /\ Open' = {Attack} /\ DOMAIN hops' = Open' /\ fetches' \in Nat
      /\ \A q \in Open' : host'[q] \in Hosts /\ hops'[q] \in Nat
  <2>1. IsFiniteSet({Attack})
    BY FS_Singleton
  <2> QED BY <2>1, Exchanged DEF Inv, Send, Unprobed
<1>2. stage' = "attack" /\ tested = {} /\ hits = {}
      /\ UNCHANGED <<kind, next, tested, hits, size, follow>>
  BY DEF Send, Inv, Unprobed, TypeOK
<1>3. TypeOK'
  BY <1>1, <1>2 DEF Inv, TypeOK
<1>4. Covered("ua")' = Covered("ua")
  BY <1>2 DEF Covered, Bypassed
<1> QED BY <1>1, <1>2, <1>3, <1>4 DEF Inv, Unprobed, Probing, Order

LEMMA AttackAnsweredInv ==
  ASSUME Inv, NEW v \in Verdicts, AttackAnswered(v)
  PROVE  Inv'
<1>1. /\ Open \ {Attack} = {} /\ tested = {} /\ hits = {}
      /\ UNCHANGED <<follow, size>>
  BY DEF AttackAnswered, Inv, Unprobed, TypeOK
<1>2. ~Bypassed("ua") /\ ~Bypassed("ip")
  BY <1>1 DEF Bypassed
<1>3. CASE v = "denied" /\ size.ua > 0
  <2>1. BeginKind("ua", {Attack})
    BY <1>3 DEF AttackAnswered
  <2> QED BY <1>1, <1>2, <1>3, <2>1, Begins DEF Kinds
<1>4. CASE v = "denied" /\ ~(size.ua > 0) /\ size.ip > 0
  <2>1. BeginKind("ip", {Attack})
    BY <1>4 DEF AttackAnswered
  <2>2. size["ua"] \in Nat
    BY Sizes DEF Inv, Kinds
  <2>3. Covered("ua")
    BY <1>4, <2>2 DEF Covered, Ids
  <2> QED BY <1>1, <1>2, <1>4, <2>1, <2>3, Begins DEF Kinds
<1>5. CASE ~(v = "denied" /\ size.ua > 0) /\ ~(v = "denied" /\ size.ip > 0)
  <2>1. Finish({Attack})
    BY <1>5 DEF AttackAnswered
  <2> QED BY <1>1, <2>1, Finishes
<1> QED BY <1>3, <1>4, <1>5

LEMMA RedirectInv ==
  ASSUME Inv, NEW q \in Open, NEW h \in Hosts, Redirect(q, h)
  PROVE  Inv'
<1>1. Open' = Open /\ DOMAIN hops' = Open /\ UNCHANGED <<follow, size, probing>>
  BY DEF Redirect, Open, Inv, TypeOK
<1>2. TypeOK'
  BY <1>1 DEF Redirect, Inv, TypeOK, probing, Open
<1>3. Covered("ua")' = Covered("ua") /\ Covered("ip")' = Covered("ip")
      /\ Covered(kind)' = Covered(kind) /\ Bypassed(kind)' = Bypassed(kind)
  BY <1>1 DEF Covered, Bypassed, probing
<1> QED BY <1>1, <1>2, <1>3 DEF Inv, Unprobed, Probing, Order, probing

\* What an answer of a probe makes of hits.
LEMMA HitsGrow ==
  ASSUME Inv, NEW q \in Open, NEW v \in Verdicts, stage \in {"first", "pool"},
         hits' = IF v = "through" THEN hits \cup {q} ELSE hits
  PROVE  /\ hits \subseteq hits' /\ hits' \subseteq tested
         /\ q \in hits' \/ hits' = hits
         /\ q[1] = kind /\ q \in tested /\ q # Attack
BY DEF Inv, TypeOK, Probing, Ids, Probe, Attack, Kinds

LEMMA FirstAnsweredInv ==
  ASSUME Inv, NEW q \in Open, NEW v \in Verdicts, FirstAnswered(q, v)
  PROVE  Inv'
<1> DEFINE sent == IF v # "through" THEN PoolStart(kind) ELSE {}
<1>1. /\ stage = "first" /\ Open = {Probe(kind, 0)} /\ q = Probe(kind, 0) /\ next = 1
      /\ ~Bypassed(kind) /\ size[kind] > 0 /\ Ids(kind, 1) \subseteq tested
  BY DEF FirstAnswered, Inv, Probing
<1>2. /\ stage' = "pool" /\ kind' = kind /\ next' = 1 + Cardinality(sent)
      /\ tested' = tested \cup sent /\ Exchange(sent, {q})
      /\ hits' = IF v = "through" THEN hits \cup {q} ELSE hits
      /\ UNCHANGED <<follow, size>>
  BY <1>1 DEF FirstAnswered
<1>3. kind \in Kinds /\ size[kind] \in Nat /\ size[kind] <= Agents + IpHeaders
  BY Sizes DEF Inv, TypeOK
<1>4. /\ IsFiniteSet(sent) /\ Cardinality(sent) \in Nat /\ Cardinality(sent) <= Lanes
      /\ 1 + Cardinality(sent) <= size[kind]
      /\ Ids(kind, 1 + Cardinality(sent)) = {Probe(kind, 0)} \cup sent
  <2>1. CASE v # "through"
    BY <1>1, <1>3, <2>1, PoolStarts DEF Inv
  <2>2. CASE v = "through"
    <3>1. Ids(kind, 1) = {Probe(kind, 0)}
      BY DEF Ids
    <3>2. sent = {} /\ IsFiniteSet({}) /\ Cardinality({}) = 0
      BY <2>2, FS_EmptySet
    <3> HIDE DEF sent
    <3>3. Ids(kind, 1 + Cardinality(sent)) = Ids(kind, 1)
      BY <3>2
    <3> QED BY <1>1, <1>3, <3>1, <3>2, <3>3, AttackAssumption
  <2> QED BY <2>1, <2>2
<1>5. sent = {} => v = "through" \/ size[kind] = 1
  BY <1>1, <1>3, PoolStarts DEF Inv
<1>6. Probe(kind, 0) \notin sent
  BY DEF PoolStart, Probe
<1> HIDE DEF sent
<1>7. /\ Open' = sent /\ DOMAIN hops' = Open' /\ fetches' \in Nat
      /\ \A p \in Open' : host'[p] \in Hosts /\ hops'[p] \in Nat
  BY <1>1, <1>2, <1>4, Exchanged DEF Inv
<1>8. hits \subseteq hits' /\ hits' \subseteq tested /\ q[1] = kind /\ hits' \subseteq hits \cup {q}
  BY <1>1, <1>2, HitsGrow
<1>9. sent \subseteq Probes
  <2>1. sent \subseteq Ids(kind, 1 + Cardinality(sent))
    BY <1>4
  <2> QED BY <2>1, <1>3, <1>4, AttackAssumption DEF Ids, Probes
<1>10. \A p \in sent : p[1] = kind
  BY <1>4 DEF Ids, Probe
<1>11. TypeOK'
  <2>1. hits' \subseteq tested' \ Open'
    BY <1>1, <1>2, <1>6, <1>7, <1>8, <1>10 DEF Bypassed
  <2> QED BY <1>2, <1>4, <1>7, <1>9, <2>1 DEF Inv, TypeOK
<1>12. Unprobed'
  BY <1>2 DEF Unprobed
<1>13. Probing'
  <2>1. Ids(kind, next') \subseteq tested' /\ Open' \subseteq Ids(kind, next')
    <3>1. Probe(kind, 0) \in tested
      BY <1>1 DEF Ids
    <3> QED BY <1>2, <1>4, <1>7, <3>1
  <2>2. Open' = {} => Covered(kind)'
    <3>1. CASE v = "through"
      BY <1>2, <1>8, <3>1 DEF Covered, Bypassed
    <3>2. CASE size[kind] = 1
      BY <1>1, <1>2, <3>2 DEF Covered, Ids
    <3> QED BY <1>5, <1>7, <3>1, <3>2
  <2>3. Ids(kind, next)' = Ids(kind, next')
    BY <1>2 DEF Ids
  <2> QED BY <1>1, <1>2, <1>3, <1>4, <1>7, <2>1, <2>2, <2>3 DEF Probing, Ids
<1>14. Order'
  <2>1. kind = "ip" => Covered("ua")'
    BY <1>2, <1>8, CoveredStays DEF Inv, Order
  <2> QED BY <1>2, <1>10, <2>1 DEF Inv, Order
<1> QED BY <1>11, <1>12, <1>13, <1>14 DEF Inv

LEMMA PoolAnsweredInv ==
  ASSUME Inv, NEW q \in Open, NEW v \in Verdicts, PoolAnswered(q, v)
  PROVE  Inv'
<1>1. /\ stage = "pool" /\ size[kind] > 0 /\ next <= size[kind] /\ next > 0
      /\ Ids(kind, next) \subseteq tested /\ Open \subseteq Ids(kind, next)
      /\ IsFiniteSet(Open) /\ Cardinality(Open) <= Lanes
  BY DEF PoolAnswered, Inv, Probing
<1>2. /\ UNCHANGED <<follow, size, stage, kind>>
      /\ hits' = IF v = "through" THEN hits \cup {q} ELSE hits
  BY DEF PoolAnswered
<1>3. kind \in Kinds /\ size[kind] \in Nat /\ size[kind] <= Agents + IpHeaders /\ next \in Nat
  BY Sizes DEF Inv, TypeOK
<1>4. /\ hits \subseteq hits' /\ hits' \subseteq tested /\ hits' \subseteq hits \cup {q}
      /\ q[1] = kind
  BY <1>1, <1>2, HitsGrow
<1>5. /\ IsFiniteSet(Open \ {q}) /\ Cardinality(Open \ {q}) = Cardinality(Open) - 1
      /\ Cardinality(Open) \in Nat
  BY <1>1, FS_RemoveElement, FS_CardinalityType
<1>6. Unprobed'
  BY <1>1, <1>2 DEF Unprobed
<1>7. CASE GoOn(kind)' /\ next < size[kind]
  <2> DEFINE p == Probe(kind, next)
  <2>1. /\ Exchange({p}, {q}) /\ tested' = tested \cup {p} /\ next' = next + 1
    BY <1>7 DEF PoolAnswered
  <2>2. IsFiniteSet({p})
    BY FS_Singleton
  <2>3. /\ Open' = (Open \ {q}) \cup {p} /\ DOMAIN hops' = Open' /\ fetches' \in Nat
        /\ \A x \in Open' : host'[x] \in Hosts /\ hops'[x] \in Nat
    BY <2>1, <2>2, Exchanged DEF Inv
  <2>4. p \in Probes /\ p[1] = kind
    BY <1>3, <1>7, AttackAssumption DEF Probes, Probe
  <2>5. p \notin hits'
    BY <1>2, <1>7, <2>4 DEF GoOn, Bypassed
  <2>6. q \notin Open' \/ q = p
    BY <2>3
  <2>7. TypeOK'
    <3>1. hits' \subseteq tested' \ Open'
      BY <1>4, <2>1, <2>3, <2>5, <2>6 DEF Inv, TypeOK
    <3>2. Open' \subseteq tested' \cup {Attack} /\ tested' \subseteq Probes /\ next' \in Nat
      BY <1>3, <2>1, <2>3, <2>4 DEF Inv, TypeOK
    <3> QED BY <1>1, <1>2, <2>3, <3>1, <3>2 DEF Inv, TypeOK
  <2>8. Probing'
    <3>1. Ids(kind, next + 1) = Ids(kind, next) \cup {p}
      BY <1>3 DEF Ids
    <3>2. IsFiniteSet(Open') /\ Cardinality(Open') <= Lanes
      <4>1. Cardinality((Open \ {q}) \cup {p}) <= Cardinality(Open)
        BY <1>5, FS_AddElement
      <4>2. IsFiniteSet((Open \ {q}) \cup {p}) /\ Cardinality((Open \ {q}) \cup {p}) \in Nat
        BY <1>5, FS_AddElement, FS_CardinalityType
      <4> QED BY <1>1, <1>5, <2>3, <4>1, <4>2, AttackAssumption
    <3>3. Ids(kind, next)' = Ids(kind, next + 1) /\ Open' # {}
      BY <1>2, <2>1, <2>3 DEF Ids
    <3>4. Ids(kind, next + 1) \subseteq tested' /\ Open' \subseteq Ids(kind, next + 1)
      BY <1>1, <2>1, <2>3, <3>1
    <3> QED BY <1>1, <1>2, <1>3, <1>7, <2>1, <3>2, <3>3, <3>4 DEF Probing
  <2>9. Order'
    <3>1. kind = "ip" => Covered("ua")'
      BY <1>2, <1>4, <2>1, CoveredStays DEF Inv, Order
    <3> QED BY <1>1, <1>2, <2>1, <2>4, <3>1 DEF Inv, Order
  <2> QED BY <1>6, <2>7, <2>8, <2>9 DEF Inv
<1>8. CASE ~(GoOn(kind)' /\ next < size[kind])
  <2>1. Exchange({}, {q}) /\ UNCHANGED <<tested, next>>
    BY <1>8 DEF PoolAnswered
  <2>2. /\ Open' = Open \ {q} /\ DOMAIN hops' = Open' /\ fetches' \in Nat
        /\ \A x \in Open' : host'[x] \in Hosts /\ hops'[x] \in Nat
    BY <2>1, FS_EmptySet, Exchanged DEF Inv
  <2>3. TypeOK'
    BY <1>2, <1>4, <2>1, <2>2 DEF Inv, TypeOK
  <2>4. Covered(kind)'
    <3>1. CASE ~GoOn(kind)'
      BY <1>2, <3>1 DEF GoOn, Covered
    <3>2. CASE ~(next < size[kind])
      <4>1. next = size[kind]
        BY <1>1, <1>3, <3>2
      <4> QED BY <1>1, <1>2, <2>1, <4>1 DEF Covered, Ids
    <3> QED BY <1>8, <3>1, <3>2
  <2>5. Probing'
    <3>1. Ids(kind, next)' = Ids(kind, next)
      BY <1>2, <2>1 DEF Ids
    <3>2. Cardinality(Open') <= Lanes
      BY <1>1, <1>5, <2>2, AttackAssumption
    <3> QED BY <1>1, <1>2, <1>5, <2>1, <2>2, <2>4, <3>1, <3>2 DEF Probing
  <2>6. Order'
    <3>1. kind = "ip" => Covered("ua")'
      BY <1>2, <1>4, <2>1, CoveredStays DEF Inv, Order
    <3> QED BY <1>1, <1>2, <2>1, <3>1 DEF Inv, Order
  <2> QED BY <1>6, <2>3, <2>5, <2>6 DEF Inv
<1> QED BY <1>7, <1>8

LEMMA PoolDoneInv ==
  ASSUME Inv, PoolDone
  PROVE  Inv'
<1>1. /\ stage = "pool" /\ Open = {} /\ Covered(kind) /\ kind \in Kinds
      /\ UNCHANGED <<follow, size>>
  BY DEF PoolDone, LanesReturned, Inv, Probing, TypeOK
<1>2. CASE kind = "ua" /\ AfterAgents
  <2>1. BeginKind("ip", {}) /\ size["ip"] > 0
    BY <1>2 DEF PoolDone, AfterAgents
  <2>2. ~Bypassed("ip")
    BY <1>2 DEF Bypassed, Inv, Order, TypeOK
  <2> QED BY <1>1, <1>2, <2>1, <2>2, Begins DEF Kinds
<1>3. CASE ~(kind = "ua" /\ AfterAgents)
  <2>1. Finish({})
    BY <1>3 DEF PoolDone
  <2>2. Covered("ua")
    BY <1>1 DEF Inv, Order, Kinds
  <2>3. Covered("ip")
    <3>1. CASE kind = "ip"
      BY <1>1, <3>1
    <3>2. CASE kind = "ua"
      <4>1. size["ip"] \in Nat /\ ~(size["ip"] > 0)
        BY <1>3, <3>2, Sizes DEF AfterAgents, Inv, Kinds
      <4> QED BY <4>1 DEF Covered, Ids
    <3> QED BY <1>1, <3>1, <3>2 DEF Kinds
  <2> QED BY <1>1, <2>1, <2>2, <2>3, Finishes
<1> QED BY <1>2, <1>3

-----------------------------------------------------------------------------
(* The budget of subrequests: each request sent is allotted one fetch per  *)
(* hop it may make, and an open one has not used those it may still make.  *)

\* The redirects a request may follow, the requests sent so far and the hops
\* those in flight may still make.
Hops   == IF follow THEN MaxRedirects ELSE 0
Sent   == tested \cup (IF stage = "idle" THEN {} ELSE {Attack})
Unused == {s \in Open \X (1 .. Hops) : s[2] > hops[s[1]]}

\* No identity is sent twice: those of the kind in progress are the first ones
\* of its list.
Tried ==
  /\ tested \subseteq Ids("ua", size["ua"]) \cup Ids("ip", size["ip"])
  /\ stage \in {"first", "pool"} => \A q \in tested : q[1] = kind => q \in Ids(kind, next)

Budget ==
  /\ IsFiniteSet(Sent)
  /\ \A q \in Open : hops[q] <= Hops
  /\ fetches + Cardinality(Unused) <= Cardinality(Sent) * (Hops + 1)

\* Ids of a longer list hold those of a shorter one.
LEMMA IdsGrow ==
  ASSUME NEW k, NEW m \in Nat, NEW n \in Nat, m <= n
  PROVE  Ids(k, m) \subseteq Ids(k, n)
BY DEF Ids

\* A list has as many identities as its length.
LEMMA IdsCount ==
  ASSUME NEW k, NEW n \in Nat
  PROVE  IsFiniteSet(Ids(k, n)) /\ Cardinality(Ids(k, n)) = n
<1> DEFINE f == [i \in 0 .. n - 1 |-> Probe(k, i)]
<1>1. f \in Bijection(0 .. n - 1, Ids(k, n))
  BY DEF Ids, Probe, Bijection, Injection, Surjection, IsInjective
<1>2. IsFiniteSet(0 .. n - 1) /\ Cardinality(0 .. n - 1) = n
  BY FS_Interval
<1> QED BY <1>1, <1>2, FS_Bijection DEF ExistsBijection

\* What is in flight was sent.
LEMMA OpenSent == Inv => Open \subseteq Sent
BY DEF Inv, TypeOK, Unprobed, Sent

LEMMA HopsType == Inv => Hops \in Nat
BY AttackAssumption DEF Hops

\* The hops left are finitely many.
LEMMA UnusedFinite ==
  ASSUME Inv, Budget
  PROVE  IsFiniteSet(Unused) /\ Cardinality(Unused) \in Nat
<1>1. IsFiniteSet(Open)
  BY OpenSent, FS_Subset DEF Budget
<1>2. IsFiniteSet(Open \X (1 .. Hops))
  <2>1. IsFiniteSet(1 .. Hops)
    BY HopsType, FS_Interval
  <2> QED BY <1>1, <2>1, FS_Product
<1> QED BY <1>2, FS_Subset, FS_CardinalityType DEF Unused

\* Requests that were not sent before are sent, each with all its hops.
LEMMA BudgetExchanged ==
  ASSUME Inv, Budget, NEW Q, NEW D, IsFiniteSet(Q), Exchange(Q, D), Q \cap Sent = {},
         Sent' = Sent \cup Q, follow' = follow
  PROVE  Budget'
<1> DEFINE R == Q \X (1 .. Hops)
<1>1. Hops' = Hops /\ Hops \in Nat
  BY HopsType DEF Hops
<1>2. /\ Open' = (Open \ D) \cup Q /\ Open \cap Q = {}
      /\ \A q \in Q : hops'[q] = 0
      /\ \A q \in Open' \ Q : hops'[q] = hops[q]
      /\ fetches' = fetches + Cardinality(Q)
  BY OpenSent DEF Exchange, Open
<1>3. IsFiniteSet(1 .. Hops) /\ Cardinality(1 .. Hops) = Hops
  BY <1>1, FS_Interval
<1>4. IsFiniteSet(R) /\ Cardinality(R) = Cardinality(Q) * Hops
  BY <1>3, FS_Product
<1>5. Unused' \subseteq Unused \cup R
  BY <1>1, <1>2 DEF Unused
<1>6. Unused \cap R = {}
  BY <1>2 DEF Unused
<1>7. IsFiniteSet(Unused) /\ Cardinality(Unused) \in Nat
  BY UnusedFinite
<1> HIDE DEF R
<1>8. Cardinality(Unused') <= Cardinality(Unused) + Cardinality(Q) * Hops
  <2>1. IsFiniteSet(Unused \cup R) /\ Cardinality(Unused \cup R) = Cardinality(Unused) + Cardinality(R)
    <3>1. Cardinality(Unused \cap R) = 0
      BY <1>6, FS_EmptySet
    <3>2. Cardinality(R) \in Nat
      BY <1>4, FS_CardinalityType
    <3>3. Cardinality(Unused \cup R)
            = Cardinality(Unused) + Cardinality(R) - Cardinality(Unused \cap R)
      BY <1>4, <1>7, FS_Union
    <3>4. IsFiniteSet(Unused \cup R)
      BY <1>4, <1>7, FS_Union
    <3> QED BY <1>7, <3>1, <3>2, <3>3, <3>4
  <2> QED BY <1>4, <1>5, <2>1, FS_Subset
<1>9. IsFiniteSet(Sent') /\ Cardinality(Sent') = Cardinality(Sent) + Cardinality(Q)
  <2>1. IsFiniteSet(Sent) /\ Cardinality(Sent) \in Nat /\ Cardinality(Q) \in Nat
    BY FS_CardinalityType DEF Budget
  <2>2. Cardinality(Sent \cap Q) = 0
    <3>1. Sent \cap Q = {}
      OBVIOUS
    <3> QED BY <3>1, FS_EmptySet
  <2>3. /\ IsFiniteSet(Sent \cup Q)
        /\ Cardinality(Sent \cup Q) = Cardinality(Sent) + Cardinality(Q) - Cardinality(Sent \cap Q)
    BY <2>1, FS_Union
  <2> QED BY <2>1, <2>2, <2>3
<1>10. Cardinality(Q) \in Nat /\ Cardinality(Sent) \in Nat /\ fetches \in Nat
       /\ Cardinality(Unused') \in Nat
  <2>1. IsFiniteSet(Unused')
    BY <1>4, <1>5, <1>7, FS_Union, FS_Subset
  <2> QED BY <2>1, FS_CardinalityType DEF Budget, Inv, TypeOK
<1>11. fetches' + Cardinality(Unused') <= Cardinality(Sent') * (Hops' + 1)
  <2>1. \A a, b, h \in Nat : (a + b) * (h + 1) = a * (h + 1) + b * h + b
    OBVIOUS
  <2>2. Cardinality(Sent') * (Hops' + 1)
          = Cardinality(Sent) * (Hops + 1) + Cardinality(Q) * Hops + Cardinality(Q)
    BY <1>1, <1>9, <1>10, <2>1
  <2>3. Cardinality(Q) * Hops \in Nat /\ Cardinality(Sent) * (Hops + 1) \in Nat
    BY <1>1, <1>10
  <2>4. fetches + Cardinality(Unused) <= Cardinality(Sent) * (Hops + 1)
    BY DEF Budget
  <2> DEFINE x == Cardinality(Sent) * (Hops + 1)
             y == Cardinality(Q) * Hops
  <2> HIDE DEF x, y
  <2>5. /\ fetches' = fetches + Cardinality(Q) /\ fetches + Cardinality(Unused) <= x
        /\ Cardinality(Unused') <= Cardinality(Unused) + y
        /\ Cardinality(Sent') * (Hops' + 1) = x + y + Cardinality(Q)
        /\ x \in Nat /\ y \in Nat
    BY <1>2, <1>8, <2>2, <2>3, <2>4 DEF x, y
  <2> QED BY <1>7, <1>10, <2>5
<1>12. \A q \in Open' : hops'[q] <= Hops'
  BY <1>1, <1>2 DEF Budget
<1> QED BY <1>9, <1>11, <1>12 DEF Budget

\* A redirect takes one of the hops that were left.
LEMMA BudgetRedirected ==
  ASSUME Inv, Budget, NEW q \in Open, NEW h \in Hosts, Redirect(q, h)
  PROVE  Budget'
<1> DEFINE s == <<q, hops[q] + 1>>
<1>1. Hops' = Hops /\ Hops \in Nat /\ Sent' = Sent /\ Open' = Open
  BY HopsType DEF Redirect, Hops, Sent, probing, Open
<1>2. /\ hops[q] \in Nat /\ hops[q] < Hops /\ fetches' = fetches + 1
      /\ \A p \in Open : hops[p] \in Nat /\ hops'[p] = IF p = q THEN hops[q] + 1 ELSE hops[p]
  BY DEF Redirect, MayFollow, Hops, Inv, TypeOK, Open
<1>3. s \in Unused
  BY <1>1, <1>2 DEF Unused
<1>4. Unused' = Unused \ {s}
  BY <1>1, <1>2 DEF Unused
<1>5. IsFiniteSet(Unused) /\ Cardinality(Unused) \in Nat
  BY UnusedFinite
<1> HIDE DEF s
<1>6. Cardinality(Unused') = Cardinality(Unused) - 1
  BY <1>3, <1>4, <1>5, FS_RemoveElement
<1>7. fetches \in Nat
  BY DEF Inv, TypeOK
<1>8. fetches' + Cardinality(Unused') = fetches + Cardinality(Unused)
  BY <1>2, <1>5, <1>6, <1>7
<1>9. \A p \in Open' : hops'[p] <= Hops'
  BY <1>1, <1>2 DEF Budget
<1> QED BY <1>1, <1>8, <1>9 DEF Budget

\* A kind is begun: its first identity was not sent before.
LEMMA BeginsSpend ==
  ASSUME Inv, Tried, Budget, NEW k \in Kinds, NEW D, BeginKind(k, D),
         UNCHANGED <<follow, size>>, stage # "idle", size[k] > 0,
         \A q \in tested : q[1] # k
  PROVE  Tried' /\ Budget'
<1>1. /\ Exchange(First(k), D) /\ First(k) = {Probe(k, 0)}
      /\ stage' = "first" /\ kind' = k /\ next' = 1 /\ tested' = tested \cup {Probe(k, 0)}
  BY DEF BeginKind, First
<1>2. Probe(k, 0) \notin Sent
  BY DEF Sent, Probe, Attack, Kinds
<1>3. Sent' = Sent \cup First(k)
  BY <1>1 DEF Sent
<1>4. Budget'
  <2>1. IsFiniteSet(First(k)) /\ First(k) \cap Sent = {}
    BY <1>1, <1>2, FS_Singleton
  <2> QED BY <1>1, <1>3, <2>1, BudgetExchanged
<1>5. Probe(k, 0) \in Ids(k, size[k]) /\ Ids(k, 1) = {Probe(k, 0)}
  BY Sizes DEF Inv, Ids
<1>6. Tried'
  <2>1. tested' \subseteq Ids("ua", size["ua"]) \cup Ids("ip", size["ip"])
    BY <1>1, <1>5 DEF Tried, Kinds
  <2>2. \A q \in tested' : q[1] = k => q \in Ids(k, 1)
    BY <1>1, <1>5
  <2> QED BY <1>1, <2>1, <2>2 DEF Tried, Ids
<1> QED BY <1>4, <1>6

\* Nothing is sent at the end.
LEMMA FinishesSpend ==
  ASSUME Inv, Tried, Budget, NEW D, Finish(D), UNCHANGED <<follow, size>>, stage # "idle"
  PROVE  Tried' /\ Budget'
<1>1. Exchange({}, D) /\ stage' = "done" /\ UNCHANGED <<kind, next, tested, hits>>
  BY DEF Finish
<1>2. Sent' = Sent \cup {}
  BY <1>1 DEF Sent
<1>3. IsFiniteSet({})
  BY FS_EmptySet
<1>4. Budget'
  BY <1>1, <1>2, <1>3, BudgetExchanged
<1>5. Tried'
  BY <1>1 DEF Tried, Ids
<1> QED BY <1>4, <1>5

LEMMA AnsweredSpend ==
  ASSUME Inv, Tried, Budget, Answered
  PROVE  Tried' /\ Budget'
<1> PICK v \in Verdicts :
      \/ AttackAnswered(v)
      \/ \E q \in Open : FirstAnswered(q, v) \/ PoolAnswered(q, v)
  BY DEF Answered
<1>1. CASE AttackAnswered(v)
  <2>1. stage = "attack" /\ tested = {} /\ UNCHANGED <<follow, size>>
    BY <1>1 DEF AttackAnswered, Inv, Unprobed
  <2>2. \/ BeginKind("ua", {Attack}) /\ size["ua"] > 0
        \/ BeginKind("ip", {Attack}) /\ size["ip"] > 0
        \/ Finish({Attack})
    BY <1>1 DEF AttackAnswered
  <2> QED BY <2>1, <2>2, BeginsSpend, FinishesSpend DEF Kinds
<1>2. ASSUME NEW q \in Open, FirstAnswered(q, v) PROVE Tried' /\ Budget'
  <2> DEFINE sent == IF v # "through" THEN PoolStart(kind) ELSE {}
  <2>1. /\ stage = "first" /\ next = 1 /\ stage' = "pool" /\ kind' = kind
        /\ next' = 1 + Cardinality(sent) /\ tested' = tested \cup sent /\ Exchange(sent, {q})
        /\ UNCHANGED <<follow, size>>
    BY <1>2 DEF FirstAnswered, Inv, Probing
  <2>2. kind \in Kinds /\ size[kind] \in Nat /\ size[kind] > 0
    BY <2>1, Sizes DEF Inv, TypeOK, Probing
  <2>3. IsFiniteSet(PoolStart(kind)) /\ Cardinality(PoolStart(kind)) \in Nat
        /\ 1 + Cardinality(PoolStart(kind)) <= size[kind]
        /\ Ids(kind, 1 + Cardinality(PoolStart(kind))) = {Probe(kind, 0)} \cup PoolStart(kind)
    BY <2>2, PoolStarts DEF Inv
  <2>4. IsFiniteSet({}) /\ Cardinality({}) = 0 /\ Ids(kind, 1 + 0) = {Probe(kind, 0)}
    BY FS_EmptySet DEF Ids
  <2>5. IsFiniteSet(sent) /\ Cardinality(sent) \in Nat /\ 1 + Cardinality(sent) <= size[kind]
    BY <2>2, <2>3, <2>4
  <2>6. Ids(kind, 1 + Cardinality(sent)) = {Probe(kind, 0)} \cup sent
    <3>1. CASE v # "through"
      BY <2>3, <3>1
    <3>2. CASE v = "through"
      <4>1. sent = {} /\ Cardinality(sent) = 0
        BY <2>4, <3>2
      <4> QED BY <2>4, <4>1
    <3> QED BY <3>1, <3>2
  <2>7. sent \cap {Probe(kind, 0), Attack} = {} /\ \A p \in sent : p[1] = kind
    BY <2>2 DEF PoolStart, Probe, Attack, Kinds
  <2>8. \A p \in tested : p[1] = kind => p = Probe(kind, 0)
    BY <2>1 DEF Tried, Ids
  <2> HIDE DEF sent
  <2>9. sent \cap Sent = {}
    BY <2>1, <2>7, <2>8 DEF Sent
  <2>10. Sent' = Sent \cup sent
    BY <2>1 DEF Sent
  <2>11. Budget'
    BY <2>1, <2>5, <2>9, <2>10, BudgetExchanged
  <2>12. sent \subseteq Ids(kind, size[kind])
    BY <2>2, <2>5, <2>6, IdsGrow
  <2>13. \A p \in tested' : p[1] = kind => p \in Ids(kind, next')
    BY <2>1, <2>6, <2>8
  <2>14. tested' \subseteq Ids("ua", size["ua"]) \cup Ids("ip", size["ip"])
    BY <2>1, <2>2, <2>12 DEF Tried, Kinds
  <2> QED BY <2>1, <2>11, <2>13, <2>14 DEF Tried, Ids
<1>3. ASSUME NEW q \in Open, PoolAnswered(q, v) PROVE Tried' /\ Budget'
  <2>1. stage = "pool" /\ UNCHANGED <<follow, size, stage, kind>> /\ kind \in Kinds
        /\ size[kind] \in Nat /\ next \in Nat
    BY <1>3, Sizes DEF PoolAnswered, Inv, TypeOK
  <2>2. CASE GoOn(kind)' /\ next < size[kind]
    <3> DEFINE p == Probe(kind, next)
    <3>1. Exchange({p}, {q}) /\ tested' = tested \cup {p} /\ next' = next + 1
      BY <1>3, <2>2 DEF PoolAnswered
    <3>2. p \notin Ids(kind, next) /\ p[1] = kind /\ p # Attack
      BY <2>1 DEF Ids, Probe, Attack, Kinds
    <3>3. p \in Ids(kind, size[kind]) /\ Ids(kind, next + 1) = Ids(kind, next) \cup {p}
      BY <2>1, <2>2 DEF Ids
    <3>4. {p} \cap Sent = {}
      BY <2>1, <3>2 DEF Sent, Tried
    <3>5. Sent' = Sent \cup {p}
      BY <2>1, <3>1 DEF Sent
    <3>6. Budget'
      BY <2>1, <3>1, <3>4, <3>5, FS_Singleton, BudgetExchanged
    <3>7. tested' \subseteq Ids("ua", size["ua"]) \cup Ids("ip", size["ip"])
      BY <2>1, <3>1, <3>3 DEF Tried, Kinds
    <3>8. \A x \in tested' : x[1] = kind => x \in Ids(kind, next + 1)
      BY <2>1, <3>1, <3>3 DEF Tried
    <3> QED BY <2>1, <3>1, <3>6, <3>7, <3>8 DEF Tried, Ids
  <2>3. CASE ~(GoOn(kind)' /\ next < size[kind])
    <3>1. Exchange({}, {q}) /\ UNCHANGED <<tested, next>>
      BY <1>3, <2>3 DEF PoolAnswered
    <3>2. Sent' = Sent \cup {} /\ IsFiniteSet({})
      BY <2>1, <3>1, FS_EmptySet DEF Sent
    <3>3. Budget'
      BY <2>1, <3>1, <3>2, BudgetExchanged
    <3> QED BY <2>1, <3>1, <3>3 DEF Tried, Ids
  <2> QED BY <2>2, <2>3
<1> QED BY <1>1, <1>2, <1>3

LEMMA SpendInductive == Inv /\ Tried /\ Budget /\ [Next]_vars => (Tried /\ Budget)'
<1> SUFFICES ASSUME Inv, Tried, Budget, [Next]_vars PROVE Tried' /\ Budget'
  OBVIOUS
<1>1. CASE Send
  <2>1. /\ stage = "idle" /\ stage' = "attack" /\ tested = {} /\ tested' = {}
        /\ Exchange({Attack}, {}) /\ follow' = follow
    BY <1>1 DEF Send, Inv, Unprobed
  <2>2. Sent = {} /\ Sent' = {Attack} /\ IsFiniteSet({Attack})
    BY <2>1, FS_Singleton DEF Sent
  <2>3. Budget'
    BY <2>1, <2>2, BudgetExchanged
  <2> QED BY <2>1, <2>3 DEF Tried
<1>2. CASE Answered
  BY <1>2, AnsweredSpend
<1>3. CASE Redirected
  <2>1. PICK q \in Open, h \in Hosts : Redirect(q, h)
    BY <1>3 DEF Redirected
  <2>2. UNCHANGED <<size, probing>>
    BY <2>1 DEF Redirect
  <2> QED BY <2>1, <2>2, BudgetRedirected DEF Tried, Ids, probing
<1>4. CASE PoolDone
  <2>1. stage = "pool" /\ UNCHANGED <<follow, size>>
    BY <1>4 DEF PoolDone
  <2>2. CASE kind = "ua" /\ AfterAgents
    <3>1. BeginKind("ip", {}) /\ size["ip"] > 0
      BY <1>4, <2>2 DEF PoolDone, AfterAgents
    <3> QED BY <2>1, <2>2, <3>1, BeginsSpend DEF Inv, Order, Kinds
  <2>3. CASE ~(kind = "ua" /\ AfterAgents)
    BY <1>4, <2>1, <2>3, FinishesSpend DEF PoolDone
  <2> QED BY <2>2, <2>3
<1>5. CASE UNCHANGED vars
  BY <1>5 DEF vars, probing, Tried, Budget, Ids, Sent, Unused, Hops, Open
<1> QED BY <1>1, <1>2, <1>3, <1>4, <1>5 DEF Next

-----------------------------------------------------------------------------
(* The theorems.                                                           *)

LEMMA Inductive == Inv /\ [Next]_vars => Inv'
<1> SUFFICES ASSUME Inv, [Next]_vars PROVE Inv'
  OBVIOUS
<1>1. CASE Send
  BY <1>1, SendInv
<1>2. CASE Answered
  <2> PICK v \in Verdicts :
        \/ AttackAnswered(v)
        \/ \E q \in Open : FirstAnswered(q, v) \/ PoolAnswered(q, v)
    BY <1>2 DEF Answered
  <2> QED BY AttackAnsweredInv, FirstAnsweredInv, PoolAnsweredInv
<1>3. CASE Redirected
  BY <1>3, RedirectInv DEF Redirected
<1>4. CASE PoolDone
  BY <1>4, PoolDoneInv
<1>5. CASE UNCHANGED vars
  <2>1. Open' = Open /\ Covered("ua")' = Covered("ua") /\ Covered("ip")' = Covered("ip")
        /\ Covered(kind)' = Covered(kind) /\ Bypassed(kind)' = Bypassed(kind)
    BY <1>5 DEF vars, probing, Open, Covered, Bypassed
  <2> QED BY <1>5, <2>1
          DEF vars, probing, Inv, TypeOK, Unprobed, Probing, Order
<1> QED BY <1>1, <1>2, <1>3, <1>4, <1>5 DEF Next

\* Inv holds throughout.
THEOREM InvariantHolds == Spec => []Inv
BY InitInv, Inductive, PTL DEF Spec

\* Every variable keeps its type.
THEOREM TypeCorrect == Spec => []TypeOK
<1>1. Inv => TypeOK
  BY DEF Inv
<1> QED BY <1>1, InvariantHolds, PTL

\* The requests of one attack that are open at once never outnumber the lanes,
\* however the answers and the redirects interleave.
THEOREM LanesRespected == Spec => []AtMostLanes
<1>1. Inv => AtMostLanes
  <2> SUFFICES ASSUME Inv PROVE Cardinality(Open) <= Lanes
    BY DEF AtMostLanes
  <2>1. CASE stage \in {"idle", "done"}
    <3>1. Open = {}
      BY <2>1 DEF Inv, Unprobed, TypeOK
    <3> QED BY <3>1, FS_EmptySet, AttackAssumption
  <2>2. CASE stage \in {"attack", "first"}
    <3>1. PICK q : Open = {q}
      BY <2>2 DEF Inv, Unprobed, Probing
    <3>2. Cardinality(Open) = 1
      BY <3>1, FS_Singleton
    <3> QED BY <3>2, AttackAssumption
  <2>3. CASE stage = "pool"
    BY <2>3 DEF Inv, Probing
  <2> QED BY <2>1, <2>2, <2>3 DEF Inv, TypeOK
<1> QED BY <1>1, InvariantHolds, PTL

\* When a denied attack is done, each kind of identity got through or was tried
\* to the end of its list.
THEOREM IdentitiesTried == Spec => []EveryIdentityTried
<1>1. Inv => EveryIdentityTried
  BY DEF Inv, Order, Covered, Ids, EveryIdentityTried, Kinds
<1> QED BY <1>1, InvariantHolds, PTL

\* No identity of a kind is tried once another of its kind got through.
THEOREM StopsAtHit == Spec => NoProbeAfterHit
<1>1. Inv /\ [Next]_vars =>
        [\A q \in tested' \ tested : \A hit \in hits' : hit[1] # q[1]]_vars
  <2> SUFFICES ASSUME Inv, Next, NEW q \in tested' \ tested, NEW hit \in hits'
               PROVE  hit[1] # q[1]
    OBVIOUS
  <2>1. CASE Send
    BY <2>1 DEF Send
  <2>2. CASE Answered
    <3> PICK v \in Verdicts :
          \/ AttackAnswered(v)
          \/ \E p \in Open : FirstAnswered(p, v) \/ PoolAnswered(p, v)
      BY <2>2 DEF Answered
    <3>1. CASE AttackAnswered(v)
      <4>1. hits = {}
        BY <3>1 DEF AttackAnswered, Inv, Unprobed, TypeOK
      <4>2. hits' = hits
        BY <3>1 DEF AttackAnswered, BeginKind, Finish
      <4> QED BY <4>1, <4>2
    <3>2. ASSUME NEW p \in Open, FirstAnswered(p, v) PROVE hit[1] # q[1]
      <4>1. v # "through"
        BY <3>2 DEF FirstAnswered
      <4>2. hits' = hits /\ q \in PoolStart(kind) /\ ~Bypassed(kind)
        BY <3>2, <4>1 DEF FirstAnswered, Inv, Probing
      <4>3. q[1] = kind
        BY <4>2 DEF PoolStart, Probe
      <4> QED BY <4>2, <4>3 DEF Bypassed
    <3>3. ASSUME NEW p \in Open, PoolAnswered(p, v) PROVE hit[1] # q[1]
      <4>1. GoOn(kind)' /\ q = Probe(kind, next) /\ kind' = kind
        BY <3>3 DEF PoolAnswered
      <4> QED BY <4>1 DEF GoOn, Bypassed, Probe
    <3> QED BY <3>1, <3>2, <3>3
  <2>3. CASE Redirected
    BY <2>3 DEF Redirected, Redirect, probing
  <2>4. CASE PoolDone
    <3>1. kind = "ua" /\ q = Probe("ip", 0) /\ hits' = hits
      BY <2>4 DEF PoolDone, BeginKind, Finish, First
    <3>2. \A x \in tested : x[1] # "ip"
      BY <3>1 DEF Inv, Order
    <3> QED BY <3>1, <3>2 DEF Inv, TypeOK, Probe
  <2> QED BY <2>1, <2>2, <2>3, <2>4 DEF Next
<1> QED BY <1>1, InvariantHolds, PTL DEF Spec, NoProbeAfterHit

\* An attack with its redirects and its probes makes no more subrequests than its
\* item was allotted when the page was cut.
THEOREM BudgetKept == Spec => []WithinBudget
<1>1. Init => Tried /\ Budget
  <2> SUFFICES ASSUME Init PROVE Tried /\ Budget
    OBVIOUS
  <2>1. Open = {} /\ Sent = {} /\ Unused = {} /\ fetches = 0
    BY DEF Init, Open, Sent, Unused
  <2>2. IsFiniteSet({}) /\ Cardinality({}) = 0
    BY FS_EmptySet
  <2>3. Hops \in Nat
    BY InitInv, HopsType
  <2> QED BY <2>1, <2>2, <2>3 DEF Init, Tried, Budget
<1>2. Inv /\ Tried /\ Budget => WithinBudget
  <2> SUFFICES ASSUME Inv, Tried, Budget
               PROVE  fetches <= (1 + size.ua + size.ip) * (IF follow THEN MaxRedirects + 1 ELSE 1)
    BY DEF WithinBudget
  <2>1. size["ua"] \in Nat /\ size["ip"] \in Nat
    BY Sizes DEF Inv, Kinds
  <2> DEFINE U == Ids("ua", size["ua"])
             P == Ids("ip", size["ip"])
  <2>2. /\ IsFiniteSet(U) /\ Cardinality(U) = size["ua"]
        /\ IsFiniteSet(P) /\ Cardinality(P) = size["ip"]
        /\ IsFiniteSet({Attack}) /\ Cardinality({Attack}) = 1
    BY <2>1, IdsCount, FS_Singleton
  <2> HIDE DEF U, P
  <2>3. /\ IsFiniteSet(U \cup P) /\ Cardinality(U \cup P) <= size["ua"] + size["ip"]
        /\ Cardinality(U \cup P) \in Nat
    <3>1. IsFiniteSet(U \cap P) /\ IsFiniteSet(U \cup P)
      BY <2>2, FS_Subset, FS_Union
    <3>2. Cardinality(U \cap P) \in Nat /\ Cardinality(U \cup P) \in Nat
      BY <3>1, FS_CardinalityType
    <3>3. Cardinality(U \cup P) = Cardinality(U) + Cardinality(P) - Cardinality(U \cap P)
      BY <2>2, FS_Union
    <3> QED BY <2>1, <2>2, <3>1, <3>2, <3>3
  <2>4. /\ IsFiniteSet((U \cup P) \cup {Attack})
        /\ Cardinality((U \cup P) \cup {Attack}) <= 1 + Cardinality(U \cup P)
    <3>1. IsFiniteSet((U \cup P) \cup {Attack})
      BY <2>3, FS_AddElement
    <3>2. Cardinality((U \cup P) \cup {Attack})
            = IF Attack \in U \cup P THEN Cardinality(U \cup P) ELSE Cardinality(U \cup P) + 1
      BY <2>3, FS_AddElement
    <3> QED BY <2>3, <3>1, <3>2
  <2>5. Sent \subseteq (U \cup P) \cup {Attack}
    BY DEF Sent, Tried, U, P
  <2>6. Cardinality(Sent) \in Nat /\ Cardinality(Sent) <= 1 + size["ua"] + size["ip"]
    <3>1. Cardinality(Sent) <= Cardinality((U \cup P) \cup {Attack})
      BY <2>4, <2>5, FS_Subset
    <3>2. Cardinality((U \cup P) \cup {Attack}) \in Nat /\ Cardinality(Sent) \in Nat
      BY <2>4, FS_CardinalityType DEF Budget
    <3> QED BY <2>1, <2>3, <2>4, <3>1, <3>2
  <2>7. \A a, b, h \in Nat : a <= b => a * (h + 1) <= b * (h + 1)
    <3> SUFFICES ASSUME NEW a \in Nat, NEW b \in Nat, NEW h \in Nat, a <= b
                 PROVE  a * (h + 1) <= b * (h + 1)
      OBVIOUS
    <3>1. PICK c \in Nat : b = a + c
      <4>1. b - a \in Nat /\ b = a + (b - a)
        OBVIOUS
      <4> QED BY <4>1
    <3>2. b * (h + 1) = a * (h + 1) + c * (h + 1)
      BY <3>1
    <3>3. c * (h + 1) \in Nat /\ a * (h + 1) \in Nat
      OBVIOUS
    <3> QED BY <3>2, <3>3
  <2>8. Hops \in Nat /\ (IF follow THEN MaxRedirects + 1 ELSE 1) = Hops + 1
    BY HopsType DEF Hops
  <2>9. Cardinality(Sent) * (Hops + 1) <= (1 + size["ua"] + size["ip"]) * (Hops + 1)
    BY <2>1, <2>6, <2>7, <2>8
  <2>10. Cardinality(Unused) \in Nat /\ fetches \in Nat
    BY UnusedFinite DEF Inv, TypeOK
  <2>11. /\ Cardinality(Sent) * (Hops + 1) \in Nat
         /\ (1 + size["ua"] + size["ip"]) * (Hops + 1) \in Nat
    BY <2>1, <2>6, <2>8
  <2>12. fetches + Cardinality(Unused) <= Cardinality(Sent) * (Hops + 1)
    BY DEF Budget
  <2> DEFINE x == Cardinality(Sent) * (Hops + 1)
             y == (1 + size["ua"] + size["ip"]) * (Hops + 1)
  <2> HIDE DEF x, y
  <2>13. fetches <= y
    BY <2>9, <2>10, <2>11, <2>12 DEF x, y
  <2> QED BY <2>8, <2>13 DEF y
<1> QED BY <1>1, <1>2, InitInv, Inductive, SpendInductive, PTL DEF Spec

-----------------------------------------------------------------------------
(* The audit and the detection.                                            *)

\* The instances count with a Cardinality of their own, which is the same.
LEMMA OneCardinality ==
  \A S : Reverse!Cardinality(S) = Cardinality(S) /\ Detection!Cardinality(S) = Cardinality(S)
BY DEF Cardinality, Reverse!Cardinality, Detection!Cardinality

-----------------------------------------------------------------------------
(* The audit: the rules, the ramp-up and the phases.                       *)

\* Every rule claimed so far has its status or is in the hands of a lane.
RulesInv ==
  /\ index \in 1 .. Rules + 1
  /\ lane \in [1 .. Lanes -> (1 .. Rules) \cup {None}]
  /\ items \in [1 .. Rules -> {"active", "disabled", "unknown", None}]
  /\ \A r \in 1 .. index - 1 : items[r] # None \/ \E w \in 1 .. Lanes : lane[w] = r

\* The phases follow each other: the ramp-up runs when all else is over.
PhaseInv ==
  /\ auditPhase \in {"idle", "rules", "limits", "done", "thrown"}
  /\ auditPhase \in {"limits", "done"} => index > Rules /\ \A w \in 1 .. Lanes : lane[w] = None
  /\ auditPhase \in {"idle", "rules"} => rate.at = "idle" /\ body.at = "idle" /\ score.at = "idle"
  /\ rate = [at |-> rate.at, stage |-> rate.stage, completed |-> rate.completed,
             threshold |-> rate.threshold]
  /\ rate.at \in {"idle", "sent", "done"}
  /\ rate.at = "sent" => auditPhase = "limits" /\ body.at = "done" /\ score.at = "done"
  /\ summary # None => summary.total = Rules

-----------------------------------------------------------------------------
(* The audit: the search for the body limit.                               *)

Outcomes == {"blocked", "passed", "inconclusive"}
Asking   == [size : Nat, outcome : Outcomes, limited : BOOLEAN]

\* A padding of some size got that answer.
Among(asked, amount, outcome) ==
  \E k \in DOMAIN asked : asked[k].size = amount /\ asked[k].outcome = outcome
NoneLimited(asked) == \A k \in DOMAIN asked : ~asked[k].limited

\* The search narrows an interval: what it begins with was blocked, what it ends
\* with passed.
Narrow(b) ==
  /\ b.at = "grid" => /\ \E k \in DOMAIN Bounds : b.size = Bounds[k]
                      /\ Among(b.asked, b.low, "blocked") /\ b.low < b.size
  /\ b.at = "search" => /\ Among(b.asked, b.low, "blocked") /\ Among(b.asked, b.high, "passed")
                        /\ b.low < b.size /\ b.size < b.high
  /\ b.at # "done" => b.limit = 0
  /\ b.at \in {"base", "grid", "search"} => NoneLimited(b.asked)
  /\ b.limit # 0 => /\ Among(b.asked, b.limit, "passed") /\ Among(b.asked, b.limit - 1, "blocked")
                    /\ NoneLimited(b.asked)

Searches == [at : {"idle", "base", "grid", "search", "done"}, size : Nat, low : Nat, high : Nat,
             asked : Seq(Asking), limit : Nat]

BodyInv ==
  /\ body \in Searches
  /\ body.at \in {"idle", "base"} => body.size = 0 /\ body.low = 0 /\ body.asked = << >>
  /\ Narrow(body)

-----------------------------------------------------------------------------
(* The audit: the analysis of scores.                                      *)

Passes(seen) == \A k \in DOMAIN seen : seen[k] = "passed"

\* The analysis goes on only after passes, and concludes from a block.
ScoreInv ==
  /\ score = [at |-> score.at, seen |-> score.seen, mode |-> score.mode,
              threshold |-> score.threshold]
  /\ score.seen \in Seq(Outcomes)
  /\ score.at \in {"idle", "signals", "composite5", "critical", "composite10", "done"}
  /\ score.at \in {"composite5", "critical", "composite10"} =>
       /\ Passes(score.seen)
       /\ Len(score.seen) = CASE score.at = "composite5" -> 2 [] score.at = "critical" -> 3
                              [] OTHER -> 4
  /\ score.at # "done" => score.mode # "anomaly_scoring"
  /\ score.mode = "anomaly_scoring" =>
       /\ Len(score.seen) > 0 /\ score.seen[Len(score.seen)] = "blocked"
       /\ \A k \in 1 .. Len(score.seen) - 1 : score.seen[k] = "passed"
       /\ score.threshold = 10 => Len(score.seen) = 5

AuditInv == RulesInv /\ PhaseInv /\ BodyInv /\ ScoreInv

LEMMA AuditStart == Reverse!Init => AuditInv
<1> SUFFICES ASSUME Reverse!Init PROVE AuditInv
  OBVIOUS
<1> USE AttackAssumption, AuditAssumption
<1>1. RulesInv
  BY DEF Reverse!Init, RulesInv
<1>2. PhaseInv
  BY DEF Reverse!Init, PhaseInv
<1>3. BodyInv
  <2>1. << >> \in Seq(Asking)
    BY EmptySeq
  <2>2. body \in Searches
    BY <2>1 DEF Reverse!Init, Searches
  <2> QED BY <2>2 DEF Reverse!Init, BodyInv, Narrow
<1>4. ScoreInv
  <2>1. << >> \in Seq(Outcomes)
    BY EmptySeq
  <2> QED BY <2>1 DEF Reverse!Init, ScoreInv
<1> QED BY <1>1, <1>2, <1>3, <1>4 DEF AuditInv

\* A claimed rule stays with its lane until it has a status.
LEMMA RulesKept ==
  ASSUME AuditInv,
         \/ \E w \in 1 .. Lanes : Reverse!Claim(w)
         \/ \E w \in 1 .. Lanes, a \in Reverse!Probed : Reverse!RuleAnswered(w, a)
  PROVE  AuditInv'
<1> USE AttackAssumption, AuditAssumption
<1>1. /\ auditPhase = "rules"
      /\ UNCHANGED <<auditPhase, skip, body, score, rate, summary>>
  BY DEF Reverse!Claim, Reverse!RuleAnswered
<1>2. PhaseInv' /\ BodyInv' /\ ScoreInv'
  BY <1>1 DEF AuditInv, PhaseInv, BodyInv, ScoreInv
<1>3. ASSUME NEW w \in 1 .. Lanes, Reverse!Claim(w) PROVE RulesInv'
  <2>1. /\ lane[w] = None /\ index <= Rules /\ items' = items
        /\ lane' = [lane EXCEPT ![w] = index] /\ index' = index + 1
    BY <1>3 DEF Reverse!Claim
  <2>2. index \in 1 .. Rules /\ lane \in [1 .. Lanes -> (1 .. Rules) \cup {None}]
    BY <2>1 DEF AuditInv, RulesInv
  <2>3. ASSUME NEW r \in 1 .. index' - 1
        PROVE  items'[r] # None \/ \E v \in 1 .. Lanes : lane'[v] = r
    <3>1. CASE r = index
      BY <2>1, <2>2, <3>1
    <3>2. CASE r # index
      <4>1. r \in 1 .. index - 1
        BY <2>1, <2>2, <3>2
      <4>2. items[r] # None \/ \E v \in 1 .. Lanes : lane[v] = r
        BY <4>1 DEF AuditInv, RulesInv
      <4>3. ASSUME NEW v \in 1 .. Lanes, lane[v] = r PROVE lane'[v] = r
        <5>1. r # None
          BY <4>1, <2>2
        <5> QED BY <2>1, <2>2, <4>3, <5>1
      <4> QED BY <2>1, <4>2, <4>3
    <3> QED BY <3>1, <3>2
  <2> QED BY <2>1, <2>2, <2>3 DEF AuditInv, RulesInv
<1>4. ASSUME NEW w \in 1 .. Lanes, NEW a \in Reverse!Probed, Reverse!RuleAnswered(w, a)
      PROVE  RulesInv'
  <2> DEFINE s == Reverse!StatusOf(a)
  <2>1. /\ lane[w] # None /\ items' = [items EXCEPT ![lane[w]] = s]
        /\ lane' = [lane EXCEPT ![w] = None] /\ index' = index
    BY <1>4 DEF Reverse!RuleAnswered
  <2>2. s \in {"active", "disabled", "unknown"}
    BY DEF Reverse!StatusOf
  <2> HIDE DEF s
  <2>3. /\ lane \in [1 .. Lanes -> (1 .. Rules) \cup {None}] /\ lane[w] \in 1 .. Rules
        /\ items \in [1 .. Rules -> {"active", "disabled", "unknown", None}]
        /\ index \in 1 .. Rules + 1
    BY <2>1 DEF AuditInv, RulesInv
  <2>4. ASSUME NEW r \in 1 .. index - 1
        PROVE  items'[r] # None \/ \E v \in 1 .. Lanes : lane'[v] = r
    <3>1. r \in 1 .. Rules
      BY <2>3
    <3>2. items[r] # None \/ \E v \in 1 .. Lanes : lane[v] = r
      BY DEF AuditInv, RulesInv
    <3>3. CASE r = lane[w]
      BY <2>1, <2>2, <2>3, <3>1, <3>3
    <3>4. CASE r # lane[w]
      <4>1. items'[r] = items[r]
        BY <2>1, <2>3, <3>1, <3>4
      <4>2. ASSUME NEW v \in 1 .. Lanes, lane[v] = r PROVE lane'[v] = r
        BY <2>1, <2>3, <3>4, <4>2
      <4> QED BY <3>2, <4>1, <4>2
    <3> QED BY <3>3, <3>4
  <2> QED BY <2>1, <2>2, <2>3, <2>4 DEF RulesInv
<1> QED BY <1>2, <1>3, <1>4 DEF AuditInv

\* The phases change when their work is done.
LEMMA PhasesKept ==
  ASSUME AuditInv,
         \/ \E s \in SUBSET Reverse!Analyses : Reverse!Begin(s)
         \/ Reverse!Refuse \/ Reverse!RulesDone \/ Reverse!RateBegin
         \/ \E limited \in BOOLEAN : Reverse!StageAnswered(limited)
         \/ Reverse!Report
  PROVE  AuditInv'
<1> USE DEF AuditInv
<1>1. RulesInv'
  BY DEF RulesInv, Reverse!Begin, Reverse!Refuse, Reverse!RulesDone, Reverse!RateBegin,
         Reverse!StageAnswered, Reverse!Report
<1>2. CASE \/ \E s \in SUBSET Reverse!Analyses : Reverse!Begin(s)
           \/ Reverse!Refuse
  <2>1. /\ auditPhase = "idle" /\ auditPhase' \in {"rules", "thrown"}
        /\ UNCHANGED <<index, lane, body, score, rate, summary>>
    BY <1>2 DEF Reverse!Begin, Reverse!Refuse
  <2>2. PhaseInv'
    BY <2>1 DEF PhaseInv
  <2> QED BY <1>1, <2>1, <2>2 DEF BodyInv, ScoreInv
<1>3. CASE Reverse!RulesDone
  <2>1. /\ auditPhase = "rules" /\ auditPhase' = "limits"
        /\ index > Rules /\ \A w \in 1 .. Lanes : lane[w] = None
        /\ body' = [body EXCEPT !.at = "done"] \/ body' = [body EXCEPT !.at = "base"]
        /\ \/ score' = [score EXCEPT !.at = "done", !.mode = "unknown"]
           \/ score' = [score EXCEPT !.at = "signals"]
        /\ UNCHANGED <<index, lane, items, rate, summary>>
    BY <1>3 DEF Reverse!RulesDone
  <2>2. PhaseInv'
    BY <2>1 DEF PhaseInv
  <2>3. body.at = "idle" /\ score.at = "idle"
    BY <2>1 DEF PhaseInv
  <2>4. BodyInv'
    <3>1. body \in Searches /\ body.limit = 0 /\ body.size = 0 /\ body.low = 0 /\ body.asked = << >>
      BY <2>3 DEF BodyInv, Narrow
    <3>2. /\ body' \in Searches /\ body'.at \in {"base", "done"} /\ body'.limit = 0
          /\ body'.size = 0 /\ body'.low = 0 /\ body'.asked = << >>
      BY <2>1, <3>1 DEF Searches
    <3>3. NoneLimited(<< >>)
      BY DEF NoneLimited
    <3> QED BY <3>2, <3>3 DEF BodyInv, Narrow
  <2>5. ScoreInv'
    BY <2>1, <2>3 DEF ScoreInv
  <2> QED BY <1>1, <2>2, <2>4, <2>5
<1>4. CASE Reverse!RateBegin \/ \E limited \in BOOLEAN : Reverse!StageAnswered(limited)
  <2>1. /\ rate.at \in {"idle", "sent"} /\ rate'.at \in {"sent", "done"}
        /\ rate' = [at |-> rate'.at, stage |-> rate'.stage, completed |-> rate'.completed,
                    threshold |-> rate'.threshold]
        /\ rate.at = "idle" => body.at = "done" /\ score.at = "done" /\ auditPhase = "limits"
        /\ UNCHANGED <<auditPhase, index, lane, items, body, score, summary>>
    BY <1>4 DEF Reverse!RateBegin, Reverse!StageAnswered, PhaseInv
  <2>2. PhaseInv'
    BY <2>1 DEF PhaseInv
  <2> QED BY <1>1, <2>1, <2>2 DEF BodyInv, ScoreInv
<1>5. CASE Reverse!Report
  <2>1. /\ auditPhase = "limits" /\ auditPhase' = "done" /\ rate.at = "done"
        /\ summary'.total = Reverse!Cardinality({r \in 1 .. Rules : items[r] # None})
        /\ UNCHANGED <<index, lane, items, body, score, rate>>
    BY <1>5 DEF Reverse!Report
  <2>2. \A r \in 1 .. Rules : items[r] # None
    <3>1. index = Rules + 1 /\ \A w \in 1 .. Lanes : lane[w] = None
      BY <2>1, AuditAssumption DEF PhaseInv, RulesInv
    <3>2. ASSUME NEW r \in 1 .. Rules, NEW w \in 1 .. Lanes PROVE lane[w] # r
      BY <3>1, AuditAssumption
    <3> QED BY <3>1, <3>2, AuditAssumption DEF RulesInv
  <2>3. summary'.total = Rules
    <3>1. {r \in 1 .. Rules : items[r] # None} = 1 .. Rules
      BY <2>2
    <3>2. Cardinality(1 .. Rules) = Rules
      BY FS_Interval, AuditAssumption
    <3> QED BY <2>1, <3>1, <3>2, OneCardinality
  <2>4. PhaseInv'
    BY <2>1, <2>3 DEF PhaseInv
  <2> QED BY <1>1, <2>1, <2>4 DEF BodyInv, ScoreInv
<1> QED BY <1>2, <1>3, <1>4, <1>5

\* What was asked stays asked.
LEMMA AskedMore ==
  ASSUME NEW asked \in Seq(Asking), NEW q \in Asking
  PROVE  /\ Append(asked, q) \in Seq(Asking)
         /\ Among(Append(asked, q), q.size, q.outcome)
         /\ \A n, o : Among(asked, n, o) => Among(Append(asked, q), n, o)
         /\ NoneLimited(asked) /\ ~q.limited => NoneLimited(Append(asked, q))
<1> DEFINE l == Len(asked)
           t == Append(asked, q)
<1>1. /\ l \in Nat /\ DOMAIN asked = 1 .. l
      /\ t \in Seq(Asking) /\ Len(t) = l + 1 /\ DOMAIN t = 1 .. l + 1
      /\ t[l + 1] = q /\ \A i \in 1 .. l : t[i] = asked[i]
  <2>1. t \in Seq(Asking) /\ Len(t) = l + 1
    BY AppendProperties
  <2>2. DOMAIN t = 1 .. Len(t)
    BY <2>1, LenProperties
  <2> QED BY <2>1, <2>2, AppendProperties, LenProperties
<1> HIDE DEF t
<1>2. l + 1 \in DOMAIN t /\ \A k \in DOMAIN asked : k \in DOMAIN t /\ t[k] = asked[k]
  BY <1>1
<1>3. \A k \in DOMAIN t : t[k] = q \/ k \in DOMAIN asked
  BY <1>1
<1>4. Among(t, q.size, q.outcome)
  BY <1>1, <1>2 DEF Among
<1>5. \A n, o : Among(asked, n, o) => Among(t, n, o)
  BY <1>2 DEF Among
<1>6. NoneLimited(asked) /\ ~q.limited => NoneLimited(t)
  BY <1>2, <1>3 DEF NoneLimited
<1> QED BY <1>1, <1>4, <1>5, <1>6 DEF t

LEMMA NextBound ==
  ASSUME NEW amount \in Nat, amount = 0 \/ \E k \in DOMAIN Bounds : amount = Bounds[k],
         Reverse!BoundAfter(amount) # None
  PROVE  /\ Reverse!BoundAfter(amount) \in Nat /\ amount < Reverse!BoundAfter(amount)
         /\ \E k \in DOMAIN Bounds : Reverse!BoundAfter(amount) = Bounds[k]
<1>1. DOMAIN Bounds = 1 .. Len(Bounds) /\ Len(Bounds) \in Nat \ {0}
  BY AuditAssumption, LenProperties, EmptySeq
<1>2. \A k \in DOMAIN Bounds : Bounds[k] \in Nat \ {0}
  BY <1>1, AuditAssumption, ElementOfSeq
<1>3. CASE amount = 0
  BY <1>1, <1>2, <1>3 DEF Reverse!BoundAfter
<1>4. CASE amount # 0
  <2>1. PICK k \in DOMAIN Bounds : amount = Bounds[k]
    BY <1>4
  <2> DEFINE c == CHOOSE j \in DOMAIN Bounds : Bounds[j] = amount
  <2>2. c \in DOMAIN Bounds /\ Bounds[c] = amount
    BY <2>1
  <2>3. Reverse!BoundAfter(amount) = IF c < Len(Bounds) THEN Bounds[c + 1] ELSE None
    BY <1>4 DEF Reverse!BoundAfter
  <2> HIDE DEF c
  <2>4. c + 1 \in DOMAIN Bounds /\ c < c + 1 /\ Reverse!BoundAfter(amount) = Bounds[c + 1]
    BY <1>1, <2>2, <2>3
  <2>5. Bounds[c] < Bounds[c + 1]
    BY <2>2, <2>4, AuditAssumption
  <2> QED BY <1>2, <2>2, <2>4, <2>5
<1> QED BY <1>3, <1>4

\* Halving keeps the interval, and ends where it is 1 KB.
LEMMA HalveNarrows ==
  ASSUME NEW b \in Searches, b.low < b.high, b.limit = 0, NoneLimited(b.asked),
         Among(b.asked, b.low, "blocked"), Among(b.asked, b.high, "passed")
  PROVE  /\ Reverse!Halve(b) \in Searches /\ Narrow(Reverse!Halve(b))
         /\ Reverse!Halve(b).at \in {"search", "done"}
<1>1. b.low \in Nat /\ b.high \in Nat
  BY DEF Searches
<1>2. CASE b.high - b.low > 1
  <2> DEFINE m == (b.low + b.high) \div 2
             c == [b EXCEPT !.at = "search", !.size = m]
  <2>1. m \in Nat /\ b.low < m /\ m < b.high
    BY <1>1, <1>2
  <2> HIDE DEF m
  <2>2. /\ c \in Searches /\ c.at = "search" /\ c.size = m /\ c.low = b.low /\ c.high = b.high
        /\ c.asked = b.asked /\ c.limit = b.limit
    BY <2>1 DEF Searches
  <2>3. Reverse!Halve(b) = c
    BY <1>2 DEF Reverse!Halve, m
  <2> HIDE DEF c
  <2> QED BY <2>1, <2>2, <2>3 DEF Narrow
<1>3. CASE ~(b.high - b.low > 1)
  <2> DEFINE c == [b EXCEPT !.at = "done", !.limit = b.high]
  <2>1. b.high - 1 = b.low
    BY <1>1, <1>3
  <2>2. /\ c \in Searches /\ c.at = "done" /\ c.limit = b.high /\ c.asked = b.asked
    BY <1>1 DEF Searches
  <2>3. Reverse!Halve(b) = c
    BY <1>3 DEF Reverse!Halve
  <2> HIDE DEF c
  <2> QED BY <2>1, <2>2, <2>3 DEF Narrow
<1> QED BY <1>2, <1>3

LEMMA ClassifyIs ==
  ASSUME NEW a \in Reverse!Probed
  PROVE  /\ Reverse!Classify(a) \in Outcomes
         /\ a.status = "429" => Reverse!Classify(a) = "inconclusive"
BY DEF Reverse!Probed, Reverse!Classify, Outcomes

\* An answer in the search for the body limit.
LEMMA BodyKept ==
  ASSUME AuditInv, NEW a \in Reverse!Probed, Reverse!BodyAnswered(a)
  PROVE  AuditInv'
<1> DEFINE outcome == Reverse!Classify(a)
           q == [size |-> body.size, outcome |-> outcome, limited |-> a.status = "429"]
           b == [body EXCEPT !.asked = Append(@, q)]
           lowered == [b EXCEPT !.low = body.size]
           raised  == [b EXCEPT !.high = body.size]
<1>1. /\ auditPhase = "limits" /\ body.at \in {"base", "grid", "search"}
      /\ UNCHANGED <<auditPhase, skip, index, lane, items, score, rate, summary>>
  BY DEF Reverse!BodyAnswered
<1>2. body \in Searches /\ Narrow(body) /\ body.size \in Nat /\ body.limit = 0 /\ NoneLimited(body.asked)
  BY <1>1 DEF AuditInv, BodyInv, Narrow, Searches
<1>3. /\ q \in Asking /\ q.size = body.size /\ q.outcome = outcome /\ outcome \in Outcomes
      /\ outcome # "inconclusive" => ~q.limited
  BY <1>2, ClassifyIs DEF Asking
<1> HIDE DEF q, outcome
<1>4. /\ b \in Searches /\ b.at = body.at /\ b.size = body.size /\ b.low = body.low
      /\ b.high = body.high /\ b.limit = 0 /\ b.asked = Append(body.asked, q)
  <2>1. body.asked \in Seq(Asking)
    BY <1>2 DEF Searches
  <2>2. Append(body.asked, q) \in Seq(Asking)
    BY <1>3, <2>1, AskedMore
  <2> QED BY <1>2, <2>2 DEF Searches
<1>5. /\ Among(b.asked, body.size, outcome)
      /\ \A n, o : Among(body.asked, n, o) => Among(b.asked, n, o)
      /\ outcome # "inconclusive" => NoneLimited(b.asked)
  <2>1. body.asked \in Seq(Asking)
    BY <1>2 DEF Searches
  <2> QED BY <1>2, <1>3, <1>4, <2>1, AskedMore
<1>6. body' =
        IF outcome = "inconclusive" THEN Reverse!NoLimit(b)
        ELSE CASE body.at = "base" ->
                    IF outcome = "passed" THEN Reverse!NoLimit(b)
                    ELSE [b EXCEPT !.at = "grid", !.size = Reverse!BoundAfter(0)]
               [] body.at = "grid" ->
                    IF outcome = "passed" THEN Reverse!Halve(raised)
                    ELSE IF Reverse!BoundAfter(body.size) = None
                      THEN Reverse!NoLimit(b)
                    ELSE [b EXCEPT !.low = body.size, !.size = Reverse!BoundAfter(body.size)]
               [] OTHER -> Reverse!Halve(IF outcome = "passed" THEN raised ELSE lowered)
  BY DEF Reverse!BodyAnswered, outcome, q
<1> HIDE DEF b
<1>7. /\ lowered \in Searches /\ lowered.low = body.size /\ lowered.high = body.high
      /\ lowered.asked = b.asked /\ lowered.limit = 0
      /\ raised \in Searches /\ raised.high = body.size /\ raised.low = body.low
      /\ raised.asked = b.asked /\ raised.limit = 0
  BY <1>2, <1>4 DEF Searches
<1> HIDE DEF lowered, raised
<1>8. CASE body' = Reverse!NoLimit(b)
  <2>1. /\ body' \in Searches /\ body'.at = "done" /\ body'.limit = 0
    BY <1>4, <1>8 DEF Reverse!NoLimit, Searches
  <2>2. BodyInv'
    BY <2>1 DEF BodyInv, Narrow
  <2>3. PhaseInv'
    BY <1>1, <2>1 DEF AuditInv, PhaseInv
  <2> QED BY <1>1, <2>2, <2>3 DEF AuditInv, RulesInv, ScoreInv
<1>9. CASE body' # Reverse!NoLimit(b)
  <2>1. outcome \in {"passed", "blocked"}
    BY <1>3, <1>6, <1>9 DEF Outcomes
  <2>2. NoneLimited(b.asked)
    BY <1>5, <2>1
  <2>3. PhaseInv'
    BY <1>1 DEF AuditInv, PhaseInv
  <2>4. CASE body.at = "base"
    <3>1. outcome = "blocked" /\ body' = [b EXCEPT !.at = "grid", !.size = Reverse!BoundAfter(0)]
      BY <1>6, <1>9, <2>1, <2>4
    <3>2. body.size = 0 /\ body.low = 0
      BY <2>4 DEF AuditInv, BodyInv
    <3>3. Bounds[1] \in Nat \ {0} /\ 1 \in DOMAIN Bounds /\ Reverse!BoundAfter(0) = Bounds[1]
      BY AuditAssumption, LenProperties, EmptySeq, ElementOfSeq DEF Reverse!BoundAfter
    <3>4. /\ body' \in Searches /\ body'.at = "grid" /\ body'.size = Bounds[1] /\ body'.low = 0
          /\ body'.asked = b.asked /\ body'.limit = 0
      BY <1>4, <3>1, <3>2, <3>3 DEF Searches
    <3>5. BodyInv'
      BY <1>5, <2>2, <3>1, <3>2, <3>3, <3>4 DEF BodyInv, Narrow
    <3> QED BY <1>1, <2>3, <3>5 DEF AuditInv, RulesInv, ScoreInv
  <2>5. CASE body.at = "grid" /\ outcome = "blocked"
    <3>1. /\ Reverse!BoundAfter(body.size) # None
          /\ body' = [b EXCEPT !.low = body.size, !.size = Reverse!BoundAfter(body.size)]
      BY <1>6, <1>9, <2>5
    <3>2. \E k \in DOMAIN Bounds : body.size = Bounds[k]
      BY <1>2, <2>5 DEF Narrow
    <3>3. /\ Reverse!BoundAfter(body.size) \in Nat /\ body.size < Reverse!BoundAfter(body.size)
          /\ \E k \in DOMAIN Bounds : Reverse!BoundAfter(body.size) = Bounds[k]
      BY <1>2, <3>1, <3>2, NextBound
    <3>4. /\ body' \in Searches /\ body'.at = "grid" /\ body'.limit = 0
          /\ body'.size = Reverse!BoundAfter(body.size) /\ body'.low = body.size
          /\ body'.asked = b.asked
      BY <1>2, <1>4, <2>5, <3>1, <3>3 DEF Searches
    <3>5. BodyInv'
      BY <1>5, <2>2, <2>5, <3>3, <3>4 DEF BodyInv, Narrow
    <3> QED BY <1>1, <2>3, <3>5 DEF AuditInv, RulesInv, ScoreInv
  <2>6. CASE \/ body.at = "grid" /\ outcome = "passed"
             \/ body.at = "search"
    <3>1. PICK c \in {lowered, raised} :
             /\ body' = Reverse!Halve(c)
             /\ \/ c = raised /\ outcome = "passed"
                \/ c = lowered /\ outcome = "blocked" /\ body.at = "search"
      <4>1. CASE outcome = "passed"
        <5>1. body' = Reverse!Halve(raised)
          BY <1>6, <2>6, <4>1
        <5> QED BY <4>1, <5>1
      <4>2. CASE outcome = "blocked"
        <5>1. body.at = "search" /\ body' = Reverse!Halve(lowered)
          BY <1>6, <2>6, <4>2
        <5> QED BY <4>2, <5>1
      <4> QED BY <2>1, <4>1, <4>2
    <3>2. /\ c \in Searches /\ c.low < c.high /\ c.limit = 0 /\ NoneLimited(c.asked)
          /\ Among(c.asked, c.low, "blocked") /\ Among(c.asked, c.high, "passed")
      BY <1>2, <1>5, <1>7, <2>2, <2>6, <3>1 DEF Narrow
    <3>3. body' \in Searches /\ Narrow(body') /\ body'.at \in {"search", "done"}
      BY <3>1, <3>2, HalveNarrows
    <3>4. BodyInv'
      BY <3>3 DEF BodyInv, Narrow
    <3> QED BY <1>1, <2>3, <3>4 DEF AuditInv, RulesInv, ScoreInv
  <2> QED BY <1>1, <2>1, <2>4, <2>5, <2>6
<1> QED BY <1>8, <1>9

\* An answer in the analysis of scores.
LEMMA ScoreKept ==
  ASSUME AuditInv,
         \/ \E a1, a2 \in Reverse!Probed : Reverse!SignalsAnswered(a1, a2)
         \/ \E a \in Reverse!Probed : Reverse!ScoreAnswered(a)
  PROVE  AuditInv'
<1>1. /\ auditPhase = "limits"
      /\ UNCHANGED <<auditPhase, skip, index, lane, items, body, rate, summary>>
      /\ score.at # "done"
  BY DEF Reverse!SignalsAnswered, Reverse!ScoreAnswered
<1>2. RulesInv' /\ PhaseInv' /\ BodyInv'
  BY <1>1 DEF AuditInv, RulesInv, PhaseInv, BodyInv
<1>3. /\ score = [at |-> score.at, seen |-> score.seen, mode |-> score.mode,
                  threshold |-> score.threshold]
      /\ score.seen \in Seq(Outcomes) /\ score.mode # "anomaly_scoring"
      /\ None # "anomaly_scoring"
  BY <1>1, AuditAssumption DEF AuditInv, ScoreInv
<1>4. ASSUME NEW a1 \in Reverse!Probed, NEW a2 \in Reverse!Probed, Reverse!SignalsAnswered(a1, a2)
      PROVE  ScoreInv'
  <2> DEFINE c1 == Reverse!Classify(a1)
             c2 == Reverse!Classify(a2)
             s  == [score EXCEPT !.seen = <<c1, c2>>]
  <2>1. c1 \in Outcomes /\ c2 \in Outcomes
    BY ClassifyIs
  <2>2. score' = IF "blocked" \in {c1, c2} THEN Reverse!Concludes(s, "traditional_regex", None)
                 ELSE IF "inconclusive" \in {c1, c2} THEN Reverse!Concludes(s, "unknown", None)
                 ELSE [s EXCEPT !.at = "composite5"]
    BY <1>4 DEF Reverse!SignalsAnswered
  <2> HIDE DEF c1, c2
  <2>3. <<c1, c2>> \in Seq(Outcomes) /\ Len(<<c1, c2>>) = 2 /\ DOMAIN <<c1, c2>> = {1, 2}
    BY <2>1
  <2>4. /\ score'.seen = <<c1, c2>> /\ score'.at \in {"done", "composite5"}
        /\ score'.mode # "anomaly_scoring"
        /\ score'.at = "composite5" => c1 = "passed" /\ c2 = "passed"
        /\ score' = [at |-> score'.at, seen |-> score'.seen, mode |-> score'.mode,
                     threshold |-> score'.threshold]
    BY <1>3, <2>1, <2>2 DEF Reverse!Concludes, Outcomes
  <2>5. c1 = "passed" /\ c2 = "passed" => Passes(<<c1, c2>>)
    BY <2>3 DEF Passes
  <2> QED BY <2>3, <2>4, <2>5 DEF ScoreInv
<1>5. ASSUME NEW a \in Reverse!Probed, Reverse!ScoreAnswered(a)
      PROVE  ScoreInv'
  <2> DEFINE outcome == Reverse!Classify(a)
             t == Append(score.seen, outcome)
             s == [score EXCEPT !.seen = t]
             l == Len(score.seen)
  <2>1. outcome \in Outcomes
    BY ClassifyIs
  <2>2. /\ score.at \in {"composite5", "critical", "composite10"}
        /\ score' = CASE outcome = "inconclusive" -> Reverse!Concludes(s, "unknown", None)
             [] outcome = "blocked" ->
                  Reverse!Concludes(s, "anomaly_scoring", IF score.at = "composite10" THEN 10 ELSE 5)
             [] OTHER -> [s EXCEPT !.at = Reverse!AfterPass(score.at),
                                   !.mode = IF score.at = "composite10" THEN "unknown" ELSE None]
    BY <1>5 DEF Reverse!ScoreAnswered
  <2> HIDE DEF outcome
  <2>3. /\ l = CASE score.at = "composite5" -> 2 [] score.at = "critical" -> 3 [] OTHER -> 4
        /\ l \in Nat /\ \A k \in 1 .. l : score.seen[k] = "passed"
    <3>1. DOMAIN score.seen = 1 .. l /\ l \in Nat
      BY <1>3, LenProperties
    <3> QED BY <2>2, <3>1 DEF AuditInv, ScoreInv, Passes
  <2>4. /\ t \in Seq(Outcomes) /\ Len(t) = l + 1 /\ t[l + 1] = outcome
        /\ \A k \in 1 .. l : t[k] = "passed"
        /\ DOMAIN t = 1 .. l + 1
    <3>1. t \in Seq(Outcomes) /\ Len(t) = l + 1 /\ t[l + 1] = outcome
          /\ \A k \in 1 .. l : t[k] = score.seen[k]
      BY <1>3, <2>1, AppendProperties
    <3>2. DOMAIN t = 1 .. Len(t)
      BY <3>1, LenProperties
    <3> QED BY <2>3, <3>1, <3>2
  <2> HIDE DEF t, l
  <2>5. /\ score'.seen = t /\ score' = [at |-> score'.at, seen |-> score'.seen, mode |-> score'.mode,
                                        threshold |-> score'.threshold]
    BY <1>3, <2>1, <2>2 DEF Reverse!Concludes, Outcomes
  <2>6. CASE outcome = "inconclusive"
    <3>1. score'.at = "done" /\ score'.mode # "anomaly_scoring"
      BY <1>3, <2>2, <2>6 DEF Reverse!Concludes
    <3> QED BY <2>4, <2>5, <3>1 DEF ScoreInv
  <2>7. CASE outcome = "blocked"
    <3>1. /\ score'.at = "done" /\ score'.mode = "anomaly_scoring"
          /\ score'.threshold = IF score.at = "composite10" THEN 10 ELSE 5
      BY <1>3, <2>2, <2>7 DEF Reverse!Concludes
    <3>2. score'.threshold = 10 => Len(t) = 5
      BY <2>2, <2>3, <2>4, <3>1
    <3>3. Len(t) > 0 /\ Len(t) - 1 = l /\ t[Len(t)] = "blocked"
      BY <2>3, <2>4, <2>7
    <3> QED BY <2>4, <2>5, <3>1, <3>2, <3>3 DEF ScoreInv
  <2>8. CASE outcome = "passed"
    <3>1. /\ score'.at = Reverse!AfterPass(score.at) /\ score'.mode # "anomaly_scoring"
      BY <1>3, <2>2, <2>8
    <3>2. Passes(t)
      <4>1. \A k \in 1 .. l + 1 : k = l + 1 \/ k \in 1 .. l
        BY <2>3
      <4> QED BY <2>4, <2>8, <4>1 DEF Passes
    <3>3. /\ score'.at \in {"critical", "composite10", "done"}
          /\ score'.at # "done" =>
               Len(t) = CASE score'.at = "composite5" -> 2 [] score'.at = "critical" -> 3 [] OTHER -> 4
      BY <2>2, <2>3, <2>4, <3>1 DEF Reverse!AfterPass
    <3> QED BY <2>4, <2>5, <3>1, <3>2, <3>3 DEF ScoreInv
  <2> QED BY <2>1, <2>6, <2>7, <2>8 DEF Outcomes
<1> QED BY <1>2, <1>4, <1>5 DEF AuditInv

LEMMA AuditStep ==
  ASSUME AuditInv, [Reverse!Next]_reVars PROVE AuditInv'
<1>1. CASE UNCHANGED reVars
  BY <1>1 DEF reVars, AuditInv, RulesInv, PhaseInv, BodyInv, ScoreInv
<1>2. CASE Reverse!Next
  BY <1>2, RulesKept, PhasesKept, BodyKept, ScoreKept DEF Reverse!Next
<1> QED BY <1>1, <1>2

\* What an audit reports was measured (reverse-engineering/index.ts:28-141): a
\* body limit between a padding that was blocked and one that passed, a mode of
\* scoring after probes that passed, every rule, and the ramp-up alone.
THEOREM Grounded == ProbingSpec => []AuditIsGrounded
<1>1. ProbingInit => AuditInv
  BY AuditStart DEF ProbingInit
<1>2. AuditInv /\ [ProbingNext]_allVars => AuditInv'
  BY AuditStep DEF ProbingNext, allVars, reVars
<1>3. AuditInv => AuditIsGrounded
  <2> SUFFICES ASSUME AuditInv PROVE Reverse!AuditIsGrounded
    BY DEF AuditIsGrounded
  <2>1. Reverse!LimitIsMeasured
    <3>1. Narrow(body)
      BY DEF AuditInv, BodyInv
    <3> QED BY <3>1 DEF Reverse!LimitIsMeasured, Reverse!Asked, Narrow, Among, NoneLimited
  <2>2. Reverse!ScoreRestsOnPasses
    BY DEF AuditInv, ScoreInv, Reverse!ScoreRestsOnPasses
  <2>3. Reverse!RateProbeAlone
    BY DEF AuditInv, PhaseInv, Reverse!RateProbeAlone
  <2>4. Reverse!AllRulesReported
    BY DEF AuditInv, PhaseInv, Reverse!AllRulesReported
  <2> QED BY <2>1, <2>2, <2>3, <2>4 DEF Reverse!AuditIsGrounded
<1> QED BY <1>1, <1>2, <1>3, PTL DEF ProbingSpec
-----------------------------------------------------------------------------
(* The detection: one response.                                            *)

\* The target leads to the host h within the redirects that a probe follows.
Reached(h) == \E n \in 0 .. DetectionRedirects : Detection!LeadsTo(h, n)

\* A result from a host that the target leads to, which in a Worker names Cloudflare
\* only for something that the runtime did not add.
Sound(r) ==
  /\ r.confidence \in Nat /\ r.captcha \in BOOLEAN /\ Reached(r.host)
  /\ worker /\ r.waf = "Cloudflare" => r.evidence \ Injected # {}

\* The target leads to itself, and one hop further than where it leads to.
LEMMA TargetIsReached == Detection!LeadsTo(Target, 0) /\ Reached(Target)
<1> DEFINE c == [k \in 0 .. 0 |-> Target]
<1>1. /\ c \in [0 .. 0 -> Hosts] /\ c[0] = Target
      /\ \A k \in 1 .. 0 : c[k] \in Allowed /\ Detection!InScope(c[k - 1], c[k])
  BY AttackAssumption
<1> HIDE DEF c
<1>2. Detection!LeadsTo(Target, 0)
  BY <1>1 DEF Detection!LeadsTo
<1> QED BY <1>2, DetectionAssumption DEF Reached

LEMMA OneHopFurther ==
  ASSUME NEW g, NEW h \in Allowed, NEW n \in Nat, Detection!LeadsTo(g, n),
         Detection!InScope(g, h)
  PROVE  Detection!LeadsTo(h, n + 1)
<1>1. PICK c \in [0 .. n -> Hosts] :
        /\ c[0] = Target /\ c[n] = g
        /\ \A k \in 1 .. n : c[k] \in Allowed /\ Detection!InScope(c[k - 1], c[k])
  BY DEF Detection!LeadsTo
<1> DEFINE d == [k \in 0 .. n + 1 |-> IF k = n + 1 THEN h ELSE c[k]]
<1>2. /\ d \in [0 .. n + 1 -> Hosts] /\ d[0] = Target /\ d[n + 1] = h
      /\ \A k \in 0 .. n : d[k] = c[k]
  BY <1>1, AttackAssumption
<1>3. ASSUME NEW k \in 1 .. n + 1
      PROVE  d[k] \in Allowed /\ Detection!InScope(d[k - 1], d[k])
  <2> HIDE DEF d
  <2>1. CASE k = n + 1
    <3>1. d[k - 1] = g /\ d[k] = h
      BY <1>1, <1>2, <2>1
    <3> QED BY <3>1
  <2>2. CASE k # n + 1
    <3>1. k \in 1 .. n /\ d[k - 1] = c[k - 1] /\ d[k] = c[k]
      BY <1>2, <2>2
    <3> QED BY <1>1, <3>1
  <2> QED BY <2>1, <2>2
<1> HIDE DEF d
<1> QED BY <1>2, <1>3 DEF Detection!LeadsTo

LEMMA FiniteParts ==
  ASSUME NEW S, NEW T, IsFiniteSet(S)
  PROVE  /\ Detection!Cardinality(S \cap T) \in Nat
         /\ Detection!Cardinality(S \cap T) > 0 => S \cap T # {}
<1>1. IsFiniteSet(S \cap T)
  BY FS_Intersection
<1>2. Cardinality(S \cap T) \in Nat /\ (S \cap T = {} => Cardinality(S \cap T) = 0)
  BY <1>1, FS_CardinalityType, FS_EmptySet
<1> QED BY <1>2, OneCardinality

\* More than 40 takes a feature that the site itself sent.
LEMMA ConfidenceIs ==
  ASSUME NEW k \in DOMAIN Signatures, NEW a \in Answers, worker \in BOOLEAN
  PROVE  LET s == Signatures[k] IN
         /\ Detection!Confidence(s, a, worker) \in Nat
         /\ Detection!Confidence(s, a, worker) > 40 /\ worker /\ s.name = "Cloudflare" =>
              Detection!Evidence(s, a, worker) \ Injected # {}
<1> DEFINE s == Signatures[k]
           seen == Detection!Visible(s, a, worker)
           h == Detection!Cardinality(s.headers \cap seen)
           c == Detection!Cardinality((s.cookies \cup s.bodies) \cap a.features)
<1>1. /\ IsFiniteSet(s.headers) /\ IsFiniteSet(s.cookies \cup s.bodies)
      /\ (s.cookies \cup s.bodies) \cap Injected = {}
  BY DetectionAssumption
<1>2. /\ h \in Nat /\ (h > 0 => s.headers \cap seen # {})
      /\ c \in Nat /\ (c > 0 => (s.cookies \cup s.bodies) \cap a.features # {})
  <2> HIDE DEF seen
  <2> QED BY <1>1, FiniteParts
<1>3. Detection!Confidence(s, a, worker) =
        IF s.definitive \cap seen # {} THEN 100
        ELSE 30 * h + 25 * c + (IF a.status \in s.codes THEN 20 ELSE 0) + (IF a.slow THEN 5 ELSE 0)
  BY DEF Detection!Confidence, Detection!Definitive
<1> DEFINE code == IF a.status \in s.codes THEN 20 ELSE 0
           slow == IF a.slow THEN 5 ELSE 0
<1>4. code \in 0 .. 20 /\ slow \in 0 .. 5
  OBVIOUS
<1>5. /\ Detection!Confidence(s, a, worker) \in Nat
      /\ Detection!Confidence(s, a, worker) > 40 => s.definitive \cap seen # {} \/ h > 0 \/ c > 0
  <2>1. Detection!Confidence(s, a, worker) = IF s.definitive \cap seen # {} THEN 100
                                             ELSE 30 * h + 25 * c + code + slow
    BY <1>3
  <2> HIDE DEF seen, h, c, s, code, slow
  <2> QED BY <1>2, <1>4, <2>1
<1>6. ASSUME worker, s.name = "Cloudflare",
             s.definitive \cap seen # {} \/ s.headers \cap seen # {}
               \/ (s.cookies \cup s.bodies) \cap a.features # {}
      PROVE  Detection!Evidence(s, a, worker) \ Injected # {}
  <2>1. seen = a.features \ Injected
    BY <1>6 DEF Detection!Visible
  <2>2. Detection!Evidence(s, a, worker) =
          (s.definitive \cup s.headers \cup s.cookies \cup s.bodies) \cap seen
    BY DEF Detection!Evidence
  <2> HIDE DEF seen, s
  <2> QED BY <1>1, <1>6, <2>1, <2>2
<1> HIDE DEF seen, h, c
<1> QED BY <1>2, <1>5, <1>6

LEMMA DetectionIsSound ==
  ASSUME NEW a \in Answers, worker \in BOOLEAN, NEW h, Reached(h)
  PROVE  Sound(Detection!DetectFrom(a, worker, h))
<1> DEFINE conf == [k \in DOMAIN Signatures |-> Detection!Confidence(Signatures[k], a, worker)]
           best == {k \in DOMAIN Signatures :
                      /\ conf[k] > 0
                      /\ \A j \in DOMAIN Signatures : j < k => conf[j] < conf[k]
                      /\ \A j \in DOMAIN Signatures : conf[j] <= conf[k]}
           none == [waf |-> "Unknown", confidence |-> 0, evidence |-> {}]
           first == CHOOSE k \in best : TRUE
           top  == IF best = {} THEN none
                   ELSE [waf |-> Signatures[first].name, confidence |-> conf[first],
                         evidence |-> Detection!Evidence(Signatures[first], a, worker)]
           d == Detection!DetectFrom(a, worker, h)
<1>1. d = [detected |-> top.confidence > 40,
           waf |-> IF top.confidence > 40 THEN top.waf ELSE "Unknown",
           confidence |-> top.confidence, evidence |-> top.evidence,
           captcha |-> a.captcha, host |-> h]
  BY DEF Detection!DetectFrom
<1>2. a.captcha \in BOOLEAN
  BY DetectionAssumption DEF Detection!Answer
<1>3. best # {} => first \in DOMAIN Signatures
  <2>1. best \subseteq DOMAIN Signatures
    OBVIOUS
  <2> HIDE DEF best
  <2> QED BY <2>1
<1> HIDE DEF best, first
<1>4. /\ top.confidence \in Nat
      /\ top.confidence > 40 /\ worker /\ top.waf = "Cloudflare" => top.evidence \ Injected # {}
  <2>1. CASE best = {}
    BY <2>1
  <2>2. CASE best # {}
    <3>1. /\ conf[first] = Detection!Confidence(Signatures[first], a, worker)
          /\ top.waf = Signatures[first].name /\ top.confidence = conf[first]
          /\ top.evidence = Detection!Evidence(Signatures[first], a, worker)
      BY <1>3, <2>2
    <3> HIDE DEF conf, top
    <3> QED BY <1>3, <2>2, <3>1, ConfidenceIs
  <2> QED BY <2>1, <2>2
<1> HIDE DEF top
<1>5. /\ d.confidence = top.confidence /\ d.evidence = top.evidence /\ d.host = h
      /\ d.captcha = a.captcha
      /\ d.waf = IF top.confidence > 40 THEN top.waf ELSE "Unknown"
  BY <1>1
<1> HIDE DEF d
<1>6. Sound(d)
  BY <1>2, <1>4, <1>5 DEF Sound
<1> QED BY <1>6 DEF d

-----------------------------------------------------------------------------
(* The detection: the best of the results.                                 *)

\* The probes up to n with a result, and what VerdictStands says of the one at p.
Shown(g, n) == {p \in 0 .. n : g[p] # None}
Stands(g, p, n) ==
  /\ p \in Shown(g, n)
  /\ \A q \in Shown(g, n) :
       /\ q > p => g[q].confidence <= g[p].confidence /\ (g[q].captcha => g[p].captcha)
       /\ g[q].confidence > g[p].confidence =>
            \E r \in Shown(g, n) : q < r /\ r <= p /\ g[r].captcha
       /\ g[q].captcha /\ ~g[p].captcha =>
            \/ g[p].confidence > g[q].confidence
            \/ \E r \in Shown(g, n) : q < r /\ r <= p /\ g[r].captcha

\* b is the one of them that stands.
IsBest(g, b, n) ==
  IF Shown(g, n) = {} THEN b = None ELSE \E p : Stands(g, p, n) /\ b = g[p]

Comparable(g, n) ==
  \A p \in 0 .. n : g[p] # None => g[p].confidence \in Nat /\ g[p].captcha \in BOOLEAN

\* How reduce goes on from the best so far.
Better(g, f, p) ==
  IF p = 0 THEN g[p]
  ELSE IF g[p] # None /\ (f[p - 1] = None \/ Detection!Wins(g[p], f[p - 1])) THEN g[p] ELSE f[p - 1]

LEMMA BestExists ==
  ASSUME NEW n \in Nat, NEW g
  PROVE  \E f : f = [p \in 0 .. n |-> Better(g, f, p)]
<1> DEFINE S == {m \in 0 .. n : \E f : f = [p \in 0 .. m |-> Better(g, f, p)]}
<1>1. 0 \in S
  <2> DEFINE f == [p \in 0 .. 0 |-> g[p]]
  <2>1. \A p \in 0 .. 0 : Better(g, f, p) = g[p]
    BY DEF Better
  <2>2. f = [p \in 0 .. 0 |-> Better(g, f, p)]
    BY <2>1
  <2> HIDE DEF f
  <2> QED BY <2>2
<1>2. ASSUME NEW m \in 0 .. n - 1, m \in S PROVE m + 1 \in S
  <2>1. PICK f : f = [p \in 0 .. m |-> Better(g, f, p)]
    BY <1>2
  <2> DEFINE h == [p \in 0 .. m + 1 |-> IF p = m + 1 THEN Better(g, f, p) ELSE f[p]]
  <2>2. ASSUME NEW p \in 0 .. m + 1 PROVE h[p] = Better(g, h, p)
    <3>1. p # 0 => p - 1 \in 0 .. m + 1 /\ p - 1 # m + 1
      OBVIOUS
    <3>2. p # 0 => h[p - 1] = f[p - 1]
      BY <3>1
    <3>3. p # m + 1 => p \in 0 .. m
      OBVIOUS
    <3>4. h[p] = IF p = m + 1 THEN Better(g, f, p) ELSE f[p]
      OBVIOUS
    <3> HIDE DEF h
    <3>5. Better(g, h, p) = Better(g, f, p)
      BY <3>2 DEF Better
    <3>6. p # m + 1 => f[p] = Better(g, f, p)
      BY <2>1, <3>3
    <3> QED BY <3>4, <3>5, <3>6
  <2>3. h = [p \in 0 .. m + 1 |-> Better(g, h, p)]
    <3>1. h = [p \in 0 .. m + 1 |-> h[p]]
      OBVIOUS
    <3> HIDE DEF h
    <3> QED BY <2>2, <3>1
  <2> HIDE DEF h
  <2>4. m + 1 \in 0 .. n
    OBVIOUS
  <2> QED BY <2>3, <2>4
<1> HIDE DEF S
<1>3. 0 .. n \subseteq S
  BY <1>1, <1>2, Induction
<1> QED BY <1>3 DEF S

\* A result that wins, or the first one, becomes the best; else the best stays.
LEMMA StandsGrows ==
  ASSUME NEW n \in Nat, NEW m \in 0 .. n - 1, NEW g, Comparable(g, n),
         NEW f, f[m + 1] = Better(g, f, m + 1),
         IsBest(g, f[m], m)
  PROVE  IsBest(g, f[m + 1], m + 1)
<1>1. /\ m \in Nat /\ m + 1 \in 0 .. n /\ (m + 1) - 1 = m /\ m + 1 # 0
  OBVIOUS
<1>2. f[m + 1] = IF g[m + 1] # None /\ (f[m] = None \/ Detection!Wins(g[m + 1], f[m]))
                   THEN g[m + 1] ELSE f[m]
  BY <1>1 DEF Better
<1>3. /\ \A q \in Shown(g, m + 1) : q = m + 1 \/ q \in Shown(g, m)
      /\ \A q \in Shown(g, m) : q \in Shown(g, m + 1) /\ q <= m /\ q \in Nat
      /\ g[m + 1] # None => m + 1 \in Shown(g, m + 1)
      /\ g[m + 1] = None => Shown(g, m + 1) = Shown(g, m)
  BY DEF Shown
<1>4. /\ \A q \in Shown(g, m + 1) : g[q].confidence \in Nat /\ g[q].captcha \in BOOLEAN
      /\ \A q \in Shown(g, m + 1) : g[q] # None
  BY <1>1 DEF Shown, Comparable
<1>5. CASE g[m + 1] = None
  <2>1. f[m + 1] = f[m] /\ Shown(g, m + 1) = Shown(g, m)
    BY <1>2, <1>3, <1>5
  <2>2. \A p : Stands(g, p, m + 1) <=> Stands(g, p, m)
    BY <2>1 DEF Stands
  <2> QED BY <2>1, <2>2 DEF IsBest
<1>6. CASE g[m + 1] # None /\ Shown(g, m) = {}
  <2>1. f[m + 1] = g[m + 1] /\ Shown(g, m + 1) = {m + 1}
    <3>1. f[m] = None
      BY <1>6 DEF IsBest
    <3> QED BY <1>2, <1>3, <1>6, <3>1
  <2>2. Stands(g, m + 1, m + 1)
    BY <1>1, <1>4, <2>1 DEF Stands
  <2> QED BY <2>1, <2>2 DEF IsBest
<1>7. CASE g[m + 1] # None /\ Shown(g, m) # {}
  <2>1. PICK p : Stands(g, p, m) /\ f[m] = g[p]
    BY <1>7 DEF IsBest
  <2>2. p \in Shown(g, m) /\ p \in Shown(g, m + 1) /\ f[m] # None
    BY <1>3, <1>4, <2>1 DEF Stands
  <2>3. \A q \in Shown(g, m) :
          /\ q > p => g[q].confidence <= g[p].confidence /\ (g[q].captcha => g[p].captcha)
          /\ g[q].confidence > g[p].confidence =>
               \E r \in Shown(g, m) : q < r /\ r <= p /\ g[r].captcha
          /\ g[q].captcha /\ ~g[p].captcha =>
               \/ g[p].confidence > g[q].confidence
               \/ \E r \in Shown(g, m) : q < r /\ r <= p /\ g[r].captcha
    BY <2>1 DEF Stands
  <2>4. CASE Detection!Wins(g[m + 1], g[p])
    <3>1. f[m + 1] = g[m + 1]
      BY <1>2, <1>7, <2>1, <2>4
    <3>2. g[m + 1].confidence > g[p].confidence \/ (g[m + 1].captcha /\ ~g[p].captcha)
      BY <2>4 DEF Detection!Wins
    <3>3. ASSUME NEW q \in Shown(g, m), g[q].confidence > g[m + 1].confidence
          PROVE  \E r \in Shown(g, m + 1) : q < r /\ r <= m + 1 /\ g[r].captcha
      <4>1. CASE g[m + 1].captcha
        BY <1>3, <1>7, <4>1
      <4>2. CASE ~g[m + 1].captcha
        <5>1. g[q].confidence > g[p].confidence
          BY <1>3, <1>4, <1>7, <2>2, <3>2, <3>3, <4>2
        <5>2. PICK r \in Shown(g, m) : q < r /\ r <= p /\ g[r].captcha
          BY <2>3, <5>1
        <5>3. r <= m + 1 /\ r \in Shown(g, m + 1)
          BY <1>1, <1>3
        <5> QED BY <5>2, <5>3
      <4> QED BY <4>1, <4>2
    <3>4. ASSUME NEW q \in Shown(g, m), g[q].captcha, ~g[m + 1].captcha
          PROVE  \/ g[m + 1].confidence > g[q].confidence
                 \/ \E r \in Shown(g, m + 1) : q < r /\ r <= m + 1 /\ g[r].captcha
      <4>1. g[m + 1].confidence > g[p].confidence
        BY <3>2, <3>4
      <4>2. /\ g[m + 1].confidence \in Nat /\ g[p].confidence \in Nat /\ g[q].confidence \in Nat
            /\ p \in Nat /\ q \in Nat /\ p <= m + 1 /\ p \in Shown(g, m + 1)
        BY <1>1, <1>3, <1>4, <1>7, <2>2
      <4>3. CASE g[p].captcha
        <5>1. CASE q < p
          BY <4>2, <4>3, <5>1
        <5>2. CASE q = p
          BY <4>1, <5>2
        <5>3. CASE q > p
          <6>1. g[q].confidence <= g[p].confidence
            BY <2>3, <5>3
          <6> QED BY <4>1, <4>2, <6>1
        <5> QED BY <4>2, <5>1, <5>2, <5>3
      <4>4. CASE ~g[p].captcha
        <5>1. \/ g[p].confidence > g[q].confidence
              \/ \E r \in Shown(g, m) : q < r /\ r <= p /\ g[r].captcha
          BY <2>3, <3>4, <4>4
        <5>2. CASE g[p].confidence > g[q].confidence
          BY <4>1, <4>2, <5>2
        <5>3. ASSUME NEW r \in Shown(g, m), q < r, r <= p, g[r].captcha
              PROVE  r \in Shown(g, m + 1) /\ r <= m + 1
          BY <1>1, <1>3
        <5> QED BY <5>1, <5>2, <5>3
      <4> QED BY <4>3, <4>4
    <3>5. Stands(g, m + 1, m + 1)
      <4>1. \A q \in Shown(g, m) : ~(q > m + 1)
        BY <1>1, <1>3
      <4>2. ~(m + 1 > m + 1) /\ ~(g[m + 1].confidence > g[m + 1].confidence)
        BY <1>1, <1>3, <1>4, <1>7
      <4> QED BY <1>3, <1>7, <3>3, <3>4, <4>1, <4>2 DEF Stands
    <3> QED BY <1>3, <1>7, <3>1, <3>5 DEF IsBest
  <2>5. CASE ~Detection!Wins(g[m + 1], g[p])
    <3>1. f[m + 1] = g[p]
      BY <1>2, <2>1, <2>2, <2>5
    <3>2. ~(g[m + 1].confidence > g[p].confidence) /\ (g[m + 1].captcha => g[p].captcha)
      BY <2>5 DEF Detection!Wins
    <3>3. g[m + 1].confidence <= g[p].confidence
      BY <1>3, <1>4, <1>7, <2>2, <3>2
    <3>4. \A q \in Shown(g, m) :
            /\ q > p => g[q].confidence <= g[p].confidence /\ (g[q].captcha => g[p].captcha)
            /\ g[q].confidence > g[p].confidence =>
                 \E r \in Shown(g, m + 1) : q < r /\ r <= p /\ g[r].captcha
            /\ g[q].captcha /\ ~g[p].captcha =>
                 \/ g[p].confidence > g[q].confidence
                 \/ \E r \in Shown(g, m + 1) : q < r /\ r <= p /\ g[r].captcha
      BY <1>3, <2>3
    <3>5. Stands(g, p, m + 1)
      BY <1>3, <2>2, <3>2, <3>3, <3>4 DEF Stands
    <3> QED BY <2>2, <3>1, <3>5 DEF IsBest
  <2> QED BY <2>4, <2>5
<1> QED BY <1>5, <1>6, <1>7

LEMMA BestStands ==
  ASSUME NEW n \in Nat, NEW g, Comparable(g, n), NEW f, f = [p \in 0 .. n |-> Better(g, f, p)]
  PROVE  IsBest(g, f[n], n)
<1> DEFINE S == {m \in 0 .. n : IsBest(g, f[m], m)}
<1>1. \A p \in 0 .. n : f[p] = Better(g, f, p)
  OBVIOUS
<1>2. 0 \in S
  <2>1. f[0] = g[0]
    BY <1>1 DEF Better
  <2>2. CASE g[0] = None
    <3>1. Shown(g, 0) = {}
      BY <2>2 DEF Shown
    <3> QED BY <2>1, <2>2, <3>1 DEF IsBest
  <2>3. CASE g[0] # None
    <3>1. Shown(g, 0) = {0} /\ g[0].confidence \in Nat
      BY <2>3 DEF Shown, Comparable
    <3>2. Stands(g, 0, 0)
      BY <3>1 DEF Stands
    <3> QED BY <2>1, <3>1, <3>2 DEF IsBest
  <2> QED BY <2>2, <2>3
<1>3. ASSUME NEW m \in 0 .. n - 1, m \in S PROVE m + 1 \in S
  <2>1. IsBest(g, f[m], m)
    BY <1>3
  <2>2. m + 1 \in 0 .. n /\ f[m + 1] = Better(g, f, m + 1)
    BY <1>1
  <2>3. IsBest(g, f[m + 1], m + 1)
    BY <2>1, <2>2, StandsGrows
  <2> QED BY <2>2, <2>3
<1> HIDE DEF S
<1>4. 0 .. n \subseteq S
  BY <1>2, <1>3, Induction
<1> QED BY <1>4 DEF S

\* What reduce returns.
LEMMA BestIs ==
  ASSUME Comparable(got, Payloads + 1), Detection!Results # {}
  PROVE  \E p : Stands(got, p, Payloads + 1) /\ Detection!Best = got[p]
<1> DEFINE n == Payloads + 1
           f0 == CHOOSE f : f = [p \in 0 .. n |-> Better(got, f, p)]
<1>1. n \in Nat /\ Detection!Probes = 0 .. n /\ Detection!Baseline = 0 /\ Detection!Cdn = n
  BY DetectionAssumption DEF Detection!Probes, Detection!Baseline, Detection!Cdn
<1>2. Detection!Best = f0[n]
  BY <1>1 DEF Detection!Best, Better
<1>3. Detection!Results = Shown(got, n)
  BY <1>1 DEF Detection!Results, Shown
<1>4. f0 = [p \in 0 .. n |-> Better(got, f0, p)]
  BY <1>1, BestExists
<1> HIDE DEF f0
<1>5. IsBest(got, f0[n], n)
  BY <1>1, <1>4, BestStands
<1> QED BY <1>2, <1>3, <1>5 DEF IsBest

-----------------------------------------------------------------------------
(* The detection: its steps.                                               *)

DetInv ==
  /\ phase \in {"idle", "baseline", "attack", "done", "reported", "thrown"}
  /\ worker \in BOOLEAN
  /\ at = [p \in Detection!Probes |-> at[p]]
  /\ followed = [p \in Detection!Probes |-> followed[p]]
  /\ \A p \in Detection!Probes :
       followed[p] \in 0 .. DetectionRedirects /\ Detection!LeadsTo(at[p], followed[p])
  /\ got = [p \in Detection!Probes |-> got[p]]
  /\ \A p \in Detection!Probes : got[p] = None \/ Sound(got[p])
  /\ pending \subseteq Detection!Probes
  /\ phase = "baseline" => pending \subseteq {Detection!Baseline}
  /\ phase \notin {"baseline", "attack"} => pending = {}
  /\ worker => Detection!Cdn \notin pending
  /\ phase \in {"idle", "baseline"} =>
       \A p \in Detection!Probes : p # Detection!Baseline => got[p] = None
  /\ phase = "idle" => verdict = None /\ \A p \in Detection!Probes : got[p] = None
  /\ Detection!WorkerSeesTarget
  /\ Detection!VerdictStands

LEMMA DetStart == Detection!Init => DetInv
<1> SUFFICES ASSUME Detection!Init PROVE DetInv
  OBVIOUS
<1>1. \A p \in Detection!Probes : got[p] = None
  BY DEF Detection!Init
<1>2. \A p \in Detection!Probes :
        followed[p] \in 0 .. DetectionRedirects /\ Detection!LeadsTo(at[p], followed[p])
  BY TargetIsReached, DetectionAssumption DEF Detection!Init
<1> QED BY <1>1, <1>2
     DEF Detection!Init, DetInv, Detection!WorkerSeesTarget, Detection!VerdictStands

\* A probe that returns says something sound or nothing.
LEMMA ReturnsKeep ==
  ASSUME DetInv, NEW p \in pending, NEW r, r = None \/ Sound(r), Detection!Returns(p, r),
         UNCHANGED <<phase, worker, verdict>>
  PROVE  DetInv'
<1>1. /\ phase \in {"baseline", "attack"} /\ p \in Detection!Probes
      /\ phase = "baseline" => p = Detection!Baseline
      /\ got' = [got EXCEPT ![p] = r] /\ pending' = pending \ {p}
  BY DEF DetInv, Detection!Returns
<1>2. /\ \A q \in Detection!Probes : got'[q] = IF q = p THEN r ELSE got[q]
      /\ got' = [q \in Detection!Probes |-> got'[q]]
  BY <1>1 DEF DetInv
<1>3. \A q \in Detection!Probes : got'[q] = None \/ Sound(got'[q])
  BY <1>2 DEF DetInv
<1>4. /\ at' = [q \in Detection!Probes |-> at'[q]]
      /\ followed' = [q \in Detection!Probes |-> followed'[q]]
      /\ \A q \in Detection!Probes :
           followed'[q] \in 0 .. DetectionRedirects /\ Detection!LeadsTo(at'[q], followed'[q])
  <2>1. /\ at' = [at EXCEPT ![p] = Target] /\ followed' = [followed EXCEPT ![p] = 0]
    BY DEF Detection!Returns
  <2>2. /\ at' = [q \in Detection!Probes |-> IF q = p THEN Target ELSE at[q]]
        /\ followed' = [q \in Detection!Probes |-> IF q = p THEN 0 ELSE followed[q]]
    BY <2>1 DEF DetInv
  <2>3. /\ 0 \in 0 .. DetectionRedirects /\ Detection!LeadsTo(Target, 0)
        /\ \A q \in Detection!Probes :
             followed[q] \in 0 .. DetectionRedirects /\ Detection!LeadsTo(at[q], followed[q])
    BY TargetIsReached, DetectionAssumption DEF DetInv
  <2> QED BY <2>2, <2>3
<1>5. (\A q \in Detection!Probes : got[q] = None \/ Sound(got[q]))'
  BY <1>3 DEF Sound
<1>6. Detection!WorkerSeesTarget'
  BY DEF DetInv, Detection!WorkerSeesTarget
<1>7. Detection!VerdictStands'
  BY <1>1 DEF Detection!VerdictStands
<1> QED BY <1>1, <1>2, <1>4, <1>5, <1>6, <1>7 DEF DetInv

LEMMA AnsweredKept ==
  ASSUME DetInv, NEW p \in Detection!Probes, NEW a \in Answers, Detection!ProbeAnswered(p, a)
  PROVE  DetInv'
<1> DEFINE d == Detection!DetectFrom(a, worker, at[p])
<1>1. /\ worker \in BOOLEAN /\ p \in pending /\ UNCHANGED <<phase, worker, verdict>>
      /\ followed[p] \in 0 .. DetectionRedirects /\ Detection!LeadsTo(at[p], followed[p])
  BY DEF DetInv, Detection!ProbeAnswered
<1>2. Sound(d)
  BY <1>1, DetectionIsSound DEF Reached
<1> HIDE DEF d
<1>3. \/ Detection!Returns(p, d) \/ Detection!Returns(p, None)
      \/ /\ Detection!Follows(p, a) /\ UNCHANGED <<got, pending>>
         /\ followed' = [followed EXCEPT ![p] = @ + 1] /\ at' = [at EXCEPT ![p] = a.location]
  BY DEF Detection!ProbeAnswered, d
<1>4. CASE Detection!Returns(p, d) \/ Detection!Returns(p, None)
  BY <1>1, <1>2, <1>4, ReturnsKeep
<1>5. ASSUME Detection!Follows(p, a), UNCHANGED <<got, pending>>,
             followed' = [followed EXCEPT ![p] = @ + 1], at' = [at EXCEPT ![p] = a.location]
      PROVE  DetInv'
  <2>1. /\ followed[p] + 1 \in 0 .. DetectionRedirects
        /\ a.location \in Allowed /\ Detection!InScope(at[p], a.location)
    BY <1>1, <1>5, DetectionAssumption DEF Detection!Follows
  <2>2. Detection!LeadsTo(a.location, followed[p] + 1)
    BY <1>1, <2>1, OneHopFurther
  <2>3. /\ at' = [q \in Detection!Probes |-> at'[q]]
        /\ followed' = [q \in Detection!Probes |-> followed'[q]]
        /\ \A q \in Detection!Probes :
             followed'[q] \in 0 .. DetectionRedirects /\ Detection!LeadsTo(at'[q], followed'[q])
    BY <1>5, <2>1, <2>2 DEF DetInv
  <2> QED BY <1>1, <1>5, <2>3
       DEF DetInv, Sound, Detection!WorkerSeesTarget, Detection!VerdictStands, Detection!Results
<1> QED BY <1>3, <1>4, <1>5

\* What the edge says below /cdn-cgi is not asked in a Worker.
LEMMA CdnKept ==
  ASSUME DetInv, NEW a \in Answers, Detection!CdnAnswered(a)
  PROVE  DetInv'
<1> DEFINE edge == [detected |-> TRUE, waf |-> "Cloudflare", confidence |-> 95,
                    evidence |-> a.features \cap Injected, captcha |-> FALSE, host |-> Target]
<1>1. /\ Detection!Cdn \in pending /\ UNCHANGED <<phase, worker, verdict>>
      /\ Detection!Returns(Detection!Cdn, edge) \/ Detection!Returns(Detection!Cdn, None)
  BY DEF Detection!CdnAnswered
<1>2. ~worker
  BY <1>1 DEF DetInv
<1>3. Sound(edge)
  BY <1>2, TargetIsReached DEF Sound
<1> HIDE DEF edge
<1> QED BY <1>1, <1>3, ReturnsKeep

LEMMA ComparableResults ==
  ASSUME DetInv PROVE Comparable(got, Payloads + 1)
BY DEF DetInv, Comparable, Sound, Detection!Probes, Detection!Baseline, Detection!Cdn

\* The verdict is the result that stands.
LEMMA VerdictKept ==
  ASSUME DetInv, Detection!Settled \/ Detection!Return
  PROVE  DetInv'
<1>1. /\ phase' = "done" /\ pending = {} /\ UNCHANGED <<worker, at, followed, pending, got>>
      /\ worker \in BOOLEAN /\ Payloads + 1 \in Nat
  BY DetectionAssumption DEF DetInv, Detection!Settled, Detection!Return
<1>2. Detection!Results = Shown(got, Payloads + 1)
  BY DEF Detection!Results, Shown, Detection!Probes, Detection!Baseline, Detection!Cdn
<1>3. \/ Detection!Results = {} /\ verdict' = Detection!Undetected
      \/ \E p : Stands(got, p, Payloads + 1) /\ verdict' = got[p]
  <2>1. CASE Detection!Settled
    <3>1. /\ got[0] # None /\ verdict' = got[0] /\ 0 \in Detection!Probes
          /\ \A p \in Detection!Probes : p # 0 => got[p] = None
      BY <1>1, <2>1 DEF DetInv, Detection!Settled, Detection!Probes, Detection!Baseline, Detection!Cdn
    <3>2. Shown(got, Payloads + 1) = {0}
      BY <1>2, <3>1 DEF Detection!Results
    <3>3. got[0].confidence \in Nat
      BY <3>1, <1>1, ComparableResults DEF Comparable
    <3>4. Stands(got, 0, Payloads + 1)
      BY <3>2, <3>3 DEF Stands
    <3> QED BY <3>1, <3>4
  <2>2. CASE Detection!Return
    <3>1. verdict' = IF Detection!Results = {} THEN Detection!Undetected ELSE Detection!Best
      BY <2>2 DEF Detection!Return
    <3> QED BY <3>1, ComparableResults, BestIs
  <2> QED BY <2>1, <2>2
<1>4. Detection!WorkerSeesTarget'
  <2>1. CASE verdict' = Detection!Undetected
    BY <2>1 DEF Detection!WorkerSeesTarget, Detection!Undetected
  <2>2. ASSUME NEW p, Stands(got, p, Payloads + 1), verdict' = got[p]
        PROVE  Detection!WorkerSeesTarget'
    <3>1. p \in Detection!Probes /\ got[p] # None
      BY <1>2, <2>2 DEF Stands, Detection!Results
    <3>2. Sound(got[p])
      BY <3>1 DEF DetInv
    <3> QED BY <1>1, <2>2, <3>2 DEF Sound, Detection!WorkerSeesTarget
  <2> QED BY <1>3, <2>1, <2>2
<1>5. Detection!VerdictStands'
  <2>1. Detection!Results' = Detection!Results
    BY <1>1 DEF Detection!Results
  <2>2. ASSUME NEW p, Stands(got, p, Payloads + 1), verdict' = got[p]
        PROVE  Detection!VerdictStands'
    BY <1>1, <1>2, <2>1, <2>2 DEF Stands, Detection!VerdictStands
  <2>3. CASE Detection!Results = {}
    BY <2>1, <2>3 DEF Detection!VerdictStands
  <2> QED BY <1>3, <2>2, <2>3
<1>6. (\A p \in Detection!Probes : got[p] = None \/ Sound(got[p]))'
  BY <1>1 DEF DetInv, Sound
<1> QED BY <1>1, <1>4, <1>5, <1>6 DEF DetInv

\* The other steps leave every result and the verdict as they are.
LEMMA OthersKept ==
  ASSUME DetInv,
         \/ \E w \in BOOLEAN : Detection!Begin(w)
         \/ Detection!Refuse \/ Detection!Attack
         \/ \E t \in {"200", "405"}, o \in {{}, {"headerBypass"}}, failed \in BOOLEAN :
              Detection!Opportunities(t, o, failed)
  PROVE  DetInv'
<1>1. UNCHANGED <<at, followed, got, verdict>> /\ phase' # "done"
  BY DEF Detection!Begin, Detection!Refuse, Detection!Attack, Detection!Opportunities
<1>2. Detection!VerdictStands'
  BY <1>1 DEF Detection!VerdictStands
<1>3. Payloads \in Nat
  BY DetectionAssumption
<1>4. ASSUME NEW w \in BOOLEAN, Detection!Begin(w) PROVE DetInv'
  <2>1. \A p \in Detection!Probes : got[p] = None
    BY <1>4 DEF DetInv, Detection!Begin
  <2> QED BY <1>1, <1>2, <1>3, <1>4, <2>1
       DEF Detection!Begin, DetInv, Detection!WorkerSeesTarget, Detection!Probes,
           Detection!Baseline, Detection!Cdn
<1>5. CASE Detection!Refuse \/ Detection!Attack
  <2>1. UNCHANGED worker
    BY <1>5 DEF Detection!Refuse, Detection!Attack
  <2>2. (\A p \in Detection!Probes : got[p] = None \/ Sound(got[p]))'
    BY <1>1, <2>1 DEF DetInv, Sound
  <2>3. Detection!WorkerSeesTarget'
    BY <1>1, <2>1 DEF DetInv, Detection!WorkerSeesTarget
  <2> QED BY <1>1, <1>2, <1>3, <1>5, <2>1, <2>2, <2>3
       DEF Detection!Refuse, Detection!Attack, DetInv, Detection!Attacks, Detection!Probes,
           Detection!Baseline, Detection!Cdn
<1>6. ASSUME NEW t \in {"200", "405"}, NEW o \in {{}, {"headerBypass"}}, NEW failed \in BOOLEAN,
             Detection!Opportunities(t, o, failed)
      PROVE  DetInv'
  <2>1. /\ phase = "done" /\ phase' = "reported" /\ UNCHANGED <<worker, pending>>
    BY <1>6 DEF Detection!Opportunities
  <2>2. (\A p \in Detection!Probes : got[p] = None \/ Sound(got[p]))'
    BY <1>1, <2>1 DEF DetInv, Sound
  <2>3. Detection!WorkerSeesTarget'
    BY <1>1, <2>1 DEF DetInv, Detection!WorkerSeesTarget
  <2> QED BY <1>1, <1>2, <2>1, <2>2, <2>3 DEF DetInv
<1> QED BY <1>4, <1>5, <1>6

LEMMA DetStep ==
  ASSUME DetInv, [Detection!Next]_wafVars PROVE DetInv'
<1>1. CASE UNCHANGED wafVars
  BY <1>1 DEF wafVars, DetInv, Sound, Detection!WorkerSeesTarget, Detection!VerdictStands,
              Detection!Results
<1>2. ASSUME NEW p \in Detection!Probes, Detection!ProbeFails(p) PROVE DetInv'
  BY <1>2, ReturnsKeep DEF Detection!ProbeFails
<1>3. CASE Detection!Next
  BY <1>2, <1>3, AnsweredKept, CdnKept, VerdictKept, OthersKept DEF Detection!Next
<1> QED BY <1>1, <1>3

\* A detection returns the result that stands among all its probes returned, in
\* whatever order they did; each comes from a host that the target leads to over at
\* most DetectionRedirects hops, each a parent or a child of the one before; and in a
\* Worker it names Cloudflare only for what the site sent (waf-detection.ts:242-341).
THEOREM Detected == ProbingSpec => []DetectionHolds
<1>1. ProbingInit => DetInv
  BY DetStart DEF ProbingInit
<1>2. DetInv /\ [ProbingNext]_allVars => DetInv'
  BY DetStep DEF ProbingNext, allVars, wafVars
<1>3. DetInv => DetectionHolds
  <2>1. DetInv => Detection!ChainedAnswersOnly
    BY DEF DetInv, Sound, Reached, Detection!ChainedAnswersOnly
  <2> QED BY <2>1 DEF DetInv, DetectionHolds, Detection!DetectionHolds
<1> QED BY <1>1, <1>2, <1>3, PTL DEF ProbingSpec
=============================================================================
