----------------------------- MODULE PagingProofs -----------------------------
(***************************************************************************)
(* Proofs about the clients that follow the pages of a scan: Paging, for   *)
(* any list of payloads, any number of methods and variations, any page    *)
(* size and budget, any cache and any options; and Dialogs, for any lines, *)
(* any number of batches and loops alive at once, and any submissions.     *)
(*                                                                         *)
(* The plan, the offsets and the totals are recursive.  What they compute  *)
(* is proved by the lemma Induction of the module of that name, about the  *)
(* set of the steps for which it is so.                                    *)
(***************************************************************************)
EXTENDS MCClients, Induction, SequenceTheorems, TLAPS

\* The lesser of two numbers.
Lesser(a, b) == IF a < b THEN a ELSE b

\* The numbers of the payloads, and whatever is an item of one of them.
Numbers == 1 .. Len(Payloads)
AnItem  == {ItemsOf(k, o, w)[j] : k \in Numbers, o \in Options, w \in Types, j \in Nat}

-----------------------------------------------------------------------------
(* Recursive definitions.                                                  *)

\* What the first k sequences of s make, one after another.
Joins(g, s, n, V) ==
  /\ g \in [0 .. n -> Seq(V)] /\ g[0] = << >>
  /\ \A k \in 1 .. n : g[k] = g[k - 1] \o s[k]

LEMMA JoinExists ==
  ASSUME NEW V, NEW n \in Nat, NEW s \in [1 .. n -> Seq(V)]
  PROVE  \E g : Joins(g, s, n, V)
<1> DEFINE S == {m \in 0 .. n : \E g : Joins(g, s, m, V)}
<1>1. 0 \in S
  <2>1. Joins([k \in 0 .. 0 |-> << >>], s, 0, V)
    BY EmptySeq DEF Joins
  <2> QED BY <2>1
<1>2. ASSUME NEW m \in 0 .. n - 1, m \in S PROVE m + 1 \in S
  <2>1. PICK g : Joins(g, s, m, V)
    BY <1>2
  <2> DEFINE h == [k \in 0 .. m + 1 |-> IF k = m + 1 THEN g[m] \o s[m + 1] ELSE g[k]]
  <2>2. g[m] \in Seq(V) /\ s[m + 1] \in Seq(V)
    BY <2>1 DEF Joins
  <2>3. g[m] \o s[m + 1] \in Seq(V)
    BY <2>2, ConcatProperties
  <2>4. h \in [0 .. m + 1 -> Seq(V)] /\ h[0] = << >>
    BY <2>1, <2>3 DEF Joins
  <2>5. ASSUME NEW k \in 1 .. m + 1 PROVE h[k] = h[k - 1] \o s[k]
    <3>1. k \in 0 .. m + 1 /\ k - 1 \in 0 .. m + 1 /\ k - 1 # m + 1
      OBVIOUS
    <3>2. h[k - 1] = g[k - 1] /\ h[k] = IF k = m + 1 THEN g[m] \o s[m + 1] ELSE g[k]
      BY <3>1
    <3> HIDE DEF h
    <3>3. CASE k = m + 1
      <4>1. k - 1 = m
        BY <3>3
      <4> QED BY <3>2, <3>3, <4>1
    <3>4. CASE k # m + 1
      <4>1. k \in 1 .. m
        BY <3>4
      <4> QED BY <2>1, <3>2, <3>4, <4>1 DEF Joins
    <3> QED BY <3>3, <3>4
  <2>6. Joins(h, s, m + 1, V)
    <3> HIDE DEF h
    <3> QED BY <2>4, <2>5 DEF Joins
  <2> QED BY <2>6
<1>3. n \in S
  <2> HIDE DEF S
  <2>1. 0 .. n \subseteq S
    BY <1>1, <1>2, Induction
  <2> QED BY <2>1
<1> QED BY <1>3

\* FlattenSeq joins all of them.
LEMMA FlattenIs ==
  ASSUME NEW V, NEW n \in Nat, NEW s \in [1 .. n -> Seq(V)], NEW g, Joins(g, s, n, V)
  PROVE  FlattenSeq(s) = g[n]
<1> DEFINE Rec(f) == f = [i \in 1 .. n |-> IF i = 1 THEN s[i] ELSE f[i - 1] \o s[i]]
           f0     == CHOOSE f : Rec(f)
<1>1. Len(s) = n
  OBVIOUS
<1>2. CASE n = 0
  BY <1>1, <1>2 DEF FlattenSeq, Joins
<1>3. CASE n # 0
  <2>1. FlattenSeq(s) = f0[n]
    BY <1>1, <1>3 DEF FlattenSeq
  <2>2. Rec([i \in 1 .. n |-> g[i]])
    <3>1. ASSUME NEW i \in 1 .. n
          PROVE  g[i] = IF i = 1 THEN s[i] ELSE [j \in 1 .. n |-> g[j]][i - 1] \o s[i]
      <4>1. g[i] = g[i - 1] \o s[i] /\ s[i] \in Seq(V)
        BY DEF Joins
      <4>2. CASE i = 1
        <5>1. i - 1 = 0 /\ g[0] = << >>
          BY <4>2 DEF Joins
        <5> QED BY <4>1, <4>2, <5>1, ConcatEmptySeq
      <4>3. CASE i # 1
        <5>1. i - 1 \in 1 .. n
          BY <4>3
        <5> QED BY <4>1, <4>3, <5>1
      <4> QED BY <4>2, <4>3
    <3> QED BY <3>1
  <2>3. Rec(f0)
    <3> HIDE DEF Rec
    <3> QED BY <2>2
  <2> HIDE DEF f0
  <2>4. \A i \in 1 .. n : f0[i] = IF i = 1 THEN s[i] ELSE f0[i - 1] \o s[i]
    BY <2>3
  <2> DEFINE S == {m \in 0 .. n : m = 0 \/ f0[m] = g[m]}
  <2>5. ASSUME NEW m \in 0 .. n - 1, m \in S PROVE m + 1 \in S
    <3>1. g[m + 1] = g[m] \o s[m + 1] /\ s[m + 1] \in Seq(V) /\ g[0] = << >>
      <4>1. m + 1 \in 1 .. n /\ (m + 1) - 1 = m
        OBVIOUS
      <4> QED BY <4>1 DEF Joins
    <3>2. CASE m = 0
      <4>1. f0[1] = s[1]
        BY <1>3, <2>4
      <4>2. g[1] = << >> \o s[1] /\ s[1] \in Seq(V)
        <5>1. m + 1 = 1
          BY <3>2
        <5> QED BY <3>1, <3>2, <5>1
      <4>3. f0[1] = g[1]
        BY <4>1, <4>2, ConcatEmptySeq
      <4> QED BY <1>3, <3>2, <4>3
    <3>3. CASE m # 0
      <4>1. m + 1 \in 1 .. n /\ m + 1 # 1 /\ (m + 1) - 1 = m
        BY <3>3
      <4>2. f0[m + 1] = f0[m] \o s[m + 1]
        BY <2>4, <4>1
      <4>3. f0[m] = g[m]
        BY <2>5, <3>3
      <4>4. f0[m + 1] = g[m + 1]
        BY <3>1, <4>2, <4>3
      <4>5. m + 1 \in 0 .. n
        OBVIOUS
      <4> QED BY <4>4, <4>5
    <3> QED BY <3>2, <3>3
  <2>6. 0 \in S
    OBVIOUS
  <2>7. n \in S
    <3> HIDE DEF S
    <3>1. 0 .. n \subseteq S
      BY <2>5, <2>6, Induction
    <3> QED BY <3>1
  <2> QED BY <1>3, <2>1, <2>7
<1> QED BY <1>2, <1>3

-----------------------------------------------------------------------------
(* Slices.                                                                 *)

\* The slice of s from a that is no longer than Limit.
Slice(s, a) == SubSeq(s, a + 1, Lesser(a + Limit, Len(s)))

LEMMA LimitType == Limit \in Nat \ {0}
BY PagingAssumption DEF Limit

LEMMA SliceIs ==
  ASSUME NEW V, NEW s \in Seq(V), NEW a \in Nat
  PROVE  /\ Slice(s, a) \in Seq(V)
         /\ Len(Slice(s, a)) = IF a < Len(s) THEN Lesser(a + Limit, Len(s)) - a ELSE 0
         /\ \A i \in 1 .. Len(Slice(s, a)) : Slice(s, a)[i] = s[a + i]
<1> DEFINE b == Lesser(a + Limit, Len(s))
<1>1. Len(s) \in Nat /\ b \in Nat /\ b <= Len(s) /\ (a < Len(s) => a < b)
  BY LimitType, LenProperties DEF Lesser
<1>2. \A i \in a + 1 .. b : s[i] \in V
  <2> HIDE DEF b
  <2>1. \A i \in 1 .. Len(s) : s[i] \in V
    BY ElementOfSeq
  <2> QED BY <1>1, <2>1
<1> HIDE DEF b
<1>3. /\ SubSeq(s, a + 1, b) \in Seq(V)
      /\ Len(SubSeq(s, a + 1, b)) = IF a + 1 <= b THEN b - (a + 1) + 1 ELSE 0
      /\ \A i \in 1 .. b - (a + 1) + 1 : SubSeq(s, a + 1, b)[i] = s[(a + 1) + i - 1]
  BY <1>1, <1>2, SubSeqProperties
<1>4. Slice(s, a) = SubSeq(s, a + 1, b)
  BY DEF Slice, b
<1>5. Len(SubSeq(s, a + 1, b)) = IF a < Len(s) THEN b - a ELSE 0
  BY <1>1, <1>3
<1>6. ASSUME NEW i \in 1 .. Len(SubSeq(s, a + 1, b)) PROVE SubSeq(s, a + 1, b)[i] = s[a + i]
  <2>1. i \in 1 .. b - (a + 1) + 1 /\ (a + 1) + i - 1 = a + i
    BY <1>1, <1>3
  <2> QED BY <1>3, <2>1
<1> QED BY <1>3, <1>4, <1>5, <1>6 DEF b

\* What a page gets of the items of one payload.
LEMMA ClipIs ==
  ASSUME NEW V, NEW s \in Seq(V), NEW off \in Nat, NEW a \in Nat
  PROVE  LET lo == IF a > off THEN a - off ELSE 0
             hi == IF a + Limit - off < Len(s) THEN a + Limit - off ELSE Len(s)
         IN /\ Clip(s, off, a) \in Seq(V)
            /\ Len(Clip(s, off, a)) = IF lo < hi THEN hi - lo ELSE 0
            /\ \A i \in 1 .. Len(Clip(s, off, a)) : Clip(s, off, a)[i] = s[lo + i]
<1> DEFINE lo == IF a > off THEN a - off ELSE 0
           hi == IF a + Limit - off < Len(s) THEN a + Limit - off ELSE Len(s)
<1>1. Len(s) \in Nat /\ lo \in Nat /\ hi \in Int /\ hi <= Len(s)
  BY LimitType, LenProperties
<1>2. Clip(s, off, a) = SubSeq(s, lo + 1, hi)
  <2>1. (IF a > off THEN a - off + 1 ELSE 1) = lo + 1
    OBVIOUS
  <2> QED BY <2>1 DEF Clip
<1> HIDE DEF lo, hi
<1>3. \A i \in lo + 1 .. hi : s[i] \in V
  <2>1. \A i \in 1 .. Len(s) : s[i] \in V
    BY ElementOfSeq
  <2> QED BY <1>1, <2>1
<1>4. /\ SubSeq(s, lo + 1, hi) \in Seq(V)
      /\ Len(SubSeq(s, lo + 1, hi)) = IF lo + 1 <= hi THEN hi - (lo + 1) + 1 ELSE 0
      /\ \A i \in 1 .. hi - (lo + 1) + 1 : SubSeq(s, lo + 1, hi)[i] = s[(lo + 1) + i - 1]
  BY <1>1, <1>3, SubSeqProperties
<1>5. Len(SubSeq(s, lo + 1, hi)) = IF lo < hi THEN hi - lo ELSE 0
  BY <1>1, <1>4
<1>6. ASSUME NEW i \in 1 .. Len(SubSeq(s, lo + 1, hi)) PROVE SubSeq(s, lo + 1, hi)[i] = s[lo + i]
  <2>1. i \in 1 .. hi - (lo + 1) + 1 /\ (lo + 1) + i - 1 = lo + i
    BY <1>1, <1>4
  <2> QED BY <1>4, <2>1
<1> QED BY <1>2, <1>4, <1>5, <1>6 DEF lo, hi

\* A slice of two sequences is that of the first, and what the second has of it.
LEMMA SliceOfJoin ==
  ASSUME NEW V, NEW p \in Seq(V), NEW q \in Seq(V), NEW a \in Nat
  PROVE  Slice(p \o q, a) = Slice(p, a) \o Clip(q, Len(p), a)
<1> DEFINE x  == Slice(p, a)
           y  == Clip(q, Len(p), a)
           z  == Slice(p \o q, a)
           m  == Len(p)
           n  == Len(q)
           lo == IF a > m THEN a - m ELSE 0
           hi == IF a + Limit - m < n THEN a + Limit - m ELSE n
<1>1. /\ m \in Nat /\ n \in Nat /\ Limit \in Nat \ {0}
      /\ p \o q \in Seq(V) /\ Len(p \o q) = m + n
      /\ \A i \in 1 .. m + n : (p \o q)[i] = IF i <= m THEN p[i] ELSE q[i - m]
  BY LimitType, LenProperties, ConcatProperties
<1>2. /\ x \in Seq(V) /\ Len(x) = IF a < m THEN Lesser(a + Limit, m) - a ELSE 0
      /\ \A i \in 1 .. Len(x) : x[i] = p[a + i]
  BY SliceIs
<1>3. /\ z \in Seq(V) /\ Len(z) = IF a < m + n THEN Lesser(a + Limit, m + n) - a ELSE 0
      /\ \A i \in 1 .. Len(z) : z[i] = (p \o q)[a + i]
  <2>1. \A s \in Seq(V) : /\ Slice(s, a) \in Seq(V)
                          /\ Len(Slice(s, a)) = IF a < Len(s) THEN Lesser(a + Limit, Len(s)) - a ELSE 0
                          /\ \A i \in 1 .. Len(Slice(s, a)) : Slice(s, a)[i] = s[a + i]
    BY SliceIs
  <2>2. /\ z \in Seq(V)
        /\ Len(z) = IF a < Len(p \o q) THEN Lesser(a + Limit, Len(p \o q)) - a ELSE 0
        /\ \A i \in 1 .. Len(z) : z[i] = (p \o q)[a + i]
    <3>1. p \o q \in Seq(V)
      BY <1>1
    <3> QED BY <2>1, <3>1, Zenon
  <2> HIDE DEF z, m, n
  <2> QED BY <1>1, <2>2
<1>4. /\ y \in Seq(V) /\ Len(y) = IF lo < hi THEN hi - lo ELSE 0
      /\ \A i \in 1 .. Len(y) : y[i] = q[lo + i]
  BY <1>1, ClipIs
<1> HIDE DEF x, y, z, m, n
<1>5. /\ x \o y \in Seq(V) /\ Len(x \o y) = Len(x) + Len(y)
      /\ \A i \in 1 .. Len(x) + Len(y) : (x \o y)[i] = IF i <= Len(x) THEN x[i] ELSE y[i - Len(x)]
  BY <1>2, <1>4, ConcatProperties
<1>6. /\ Len(x) \in Nat /\ Len(y) \in Nat /\ Len(z) \in Nat
      /\ Len(z) = Len(x) + Len(y)
      /\ Len(z) > 0 => a + Len(z) <= m + n
      /\ Len(x) > 0 => a + Len(x) <= m
      /\ Len(y) > 0 => a + Len(x) = lo + m
  <2>1. /\ Len(x) = IF a < m THEN IF a + Limit < m THEN Limit ELSE m - a ELSE 0
        /\ Len(y) = IF lo < hi THEN hi - lo ELSE 0
        /\ Len(z) = IF a < m + n THEN IF a + Limit < m + n THEN Limit ELSE m + n - a ELSE 0
    BY <1>1, <1>2, <1>3, <1>4 DEF Lesser
  <2> QED BY <1>1, <2>1
<1>7. ASSUME NEW i \in 1 .. Len(z) PROVE z[i] = (x \o y)[i]
  <2>1. a + i \in 1 .. m + n /\ z[i] = IF a + i <= m THEN p[a + i] ELSE q[a + i - m]
    <3> HIDE DEF lo, hi
    <3>1. a + i \in 1 .. m + n
      BY <1>1, <1>6
    <3>2. z[i] = (p \o q)[a + i]
      BY <1>3
    <3> QED BY <1>1, <3>1, <3>2
  <2>2. CASE i <= Len(x)
    <3>1. i \in 1 .. Len(x) /\ a + i <= m
      BY <1>1, <1>6, <2>2
    <3> QED BY <1>2, <1>5, <1>6, <2>1, <2>2, <3>1
  <2>3. CASE i > Len(x)
    <3>1. i - Len(x) \in 1 .. Len(y) /\ lo + (i - Len(x)) = a + i - m /\ a + i > m
      <4>1. lo \in Nat
        BY <1>1
      <4> HIDE DEF lo, hi
      <4>2. Len(y) > 0 /\ i - Len(x) \in 1 .. Len(y)
        BY <1>6, <2>3
      <4>3. a + Len(x) = lo + m /\ i \in Nat /\ Len(x) \in Nat /\ i > Len(x)
        BY <1>6, <2>3, <4>2
      <4>4. ASSUME NEW l \in Nat, a + l = lo + m, i > l PROVE lo + (i - l) = a + i - m /\ a + i > m
        BY <1>1, <4>1, <4>3, <4>4
      <4> QED BY <4>2, <4>3, <4>4
    <3>2. (x \o y)[i] = y[i - Len(x)]
      BY <1>5, <1>6, <2>3
    <3> HIDE DEF lo
    <3>3. y[i - Len(x)] = q[lo + (i - Len(x))]
      BY <1>4, <3>1
    <3>4. ~(a + i <= m)
      BY <1>1, <3>1
    <3> QED BY <2>1, <3>1, <3>2, <3>3, <3>4
  <2> QED BY <1>6, <2>2, <2>3
<1>8. z = x \o y
  BY <1>3, <1>5, <1>6, <1>7, SeqEqual
<1> QED BY <1>8 DEF x, y, z

-----------------------------------------------------------------------------
(* The plan.                                                               *)

\* The items of all payloads.
Items(o, w) == [k \in Numbers |-> ItemsOf(k, o, w)]

LEMMA ItemsAre ==
  ASSUME NEW o \in Options, NEW w \in Types
  PROVE  /\ Items(o, w) \in [1 .. Len(Payloads) -> Seq(AnItem)]
         /\ \A k \in Numbers : /\ Items(o, w)[k] = ItemsOf(k, o, w)
                               /\ ItemsOf(k, o, w) \in Seq(AnItem)
                               /\ Counted(o, w)[k] * MethodsOf(k) \in Nat
                               /\ Len(ItemsOf(k, o, w)) = Counted(o, w)[k] * MethodsOf(k)
<1>1. ASSUME NEW k \in Numbers
      PROVE  /\ Counted(o, w)[k] * MethodsOf(k) \in Nat
             /\ ItemsOf(k, o, w) \in Seq(AnItem)
             /\ Len(ItemsOf(k, o, w)) = Counted(o, w)[k] * MethodsOf(k)
  <2> DEFINE v == VariationsOf(k, o, w)
             n == v * MethodsOf(k)
  <2>1. Payloads[k] \in [kind : {"ParamCheck", "FileCheck", "Header"},
                         count : [Options -> [Types -> Nat \ {0}]]]
    BY PagingAssumption, ElementOfSeq DEF Numbers
  <2>2. v \in Nat \ {0} /\ MethodsOf(k) \in Nat \ {0}
    BY <2>1, PagingAssumption DEF VariationsOf, MethodsOf
  <2>3. Counted(o, w)[k] = v
    <3>1. k \in DOMAIN Payloads
      BY PagingAssumption, LenProperties DEF Numbers
    <3> QED BY <3>1 DEF Counted
  <2>4. n \in Nat
    BY <2>2
  <2>5. \A j \in 1 .. n : ItemsOf(k, o, w)[j] \in AnItem
    <3>1. ASSUME NEW j \in 1 .. n PROVE ItemsOf(k, o, w)[j] \in AnItem
      <4>1. j \in Nat
        BY <2>4
      <4> QED BY <4>1 DEF AnItem
    <3> QED BY <3>1
  <2>6. ItemsOf(k, o, w) = [j \in 1 .. n |-> ItemsOf(k, o, w)[j]]
    BY DEF ItemsOf
  <2> HIDE DEF n
  <2>7. ItemsOf(k, o, w) \in Seq(AnItem) /\ Len(ItemsOf(k, o, w)) = n
    BY <2>4, <2>5, <2>6
  <2> QED BY <2>3, <2>4, <2>7 DEF n
<1>2. \A k \in Numbers : Items(o, w)[k] = ItemsOf(k, o, w)
  BY DEF Items
<1>3. Items(o, w) \in [1 .. Len(Payloads) -> Seq(AnItem)]
  BY <1>1 DEF Items, Numbers
<1> QED BY <1>1, <1>2, <1>3

\* The beginnings of the plan, payload by payload.
Beginnings(g, o, w) ==
  /\ Joins(g, Items(o, w), Len(Payloads), AnItem)
  /\ Plan(o, w) = g[Len(Payloads)]
  /\ \A k \in Numbers : /\ k - 1 \in 0 .. Len(Payloads)
                        /\ g[k - 1] \in Seq(AnItem) /\ Len(g[k - 1]) \in Nat
                        /\ g[k] = g[k - 1] \o ItemsOf(k, o, w)
                        /\ Len(g[k]) = Len(g[k - 1]) + Counted(o, w)[k] * MethodsOf(k)
  /\ Len(Payloads) \in Nat

LEMMA PlanIs ==
  ASSUME NEW o \in Options, NEW w \in Types
  PROVE  /\ Plan(o, w) \in Seq(AnItem)
         /\ \E g : Beginnings(g, o, w)
<1> DEFINE n == Len(Payloads)
<1>1. n \in Nat /\ DOMAIN Payloads = Numbers
  BY PagingAssumption, LenProperties DEF Numbers
<1>2. Plan(o, w) = FlattenSeq(Items(o, w))
  BY <1>1 DEF Plan, Items
<1>3. PICK g : Joins(g, Items(o, w), n, AnItem)
  BY <1>1, ItemsAre, JoinExists
<1>4. Plan(o, w) = g[n]
  <2>1. Items(o, w) \in [1 .. n -> Seq(AnItem)]
    BY ItemsAre
  <2> HIDE DEF n
  <2>2. FlattenSeq(Items(o, w)) = g[n]
    BY <1>1, <1>3, <2>1, FlattenIs
  <2> QED BY <1>2, <2>2
<1>5. ASSUME NEW k \in Numbers
      PROVE  /\ k - 1 \in 0 .. n
             /\ g[k - 1] \in Seq(AnItem) /\ Len(g[k - 1]) \in Nat
             /\ g[k] = g[k - 1] \o ItemsOf(k, o, w)
             /\ Len(g[k]) = Len(g[k - 1]) + Counted(o, w)[k] * MethodsOf(k)
  <2>1. k \in 1 .. n /\ k - 1 \in 0 .. n
    BY <1>1 DEF Numbers
  <2>2. g[k - 1] \in Seq(AnItem)
    BY <1>3, <2>1 DEF Joins
  <2>3. g[k] = g[k - 1] \o ItemsOf(k, o, w)
    BY <1>3, <2>1, ItemsAre DEF Joins
  <2>4. Len(g[k - 1] \o ItemsOf(k, o, w)) = Len(g[k - 1]) + Len(ItemsOf(k, o, w))
    BY <2>2, ItemsAre, ConcatProperties
  <2>5. Len(ItemsOf(k, o, w)) = Counted(o, w)[k] * MethodsOf(k)
    BY ItemsAre
  <2>6. Len(g[k - 1]) \in Nat
    BY <2>2, LenProperties
  <2> QED BY <2>1, <2>2, <2>3, <2>4, <2>5, <2>6
<1>6. g[n] \in Seq(AnItem)
  BY <1>1, <1>3 DEF Joins
<1> QED BY <1>1, <1>3, <1>4, <1>5, <1>6 DEF Beginnings

\* The offset before a payload is the length of the plan up to it, whether
\* payloads were skipped by their counts or expanded.
LEMMA OffsetsAre ==
  ASSUME NEW o \in Options, NEW w \in Types, NEW a \in Nat, NEW g, Beginnings(g, o, w)
  PROVE  \A k \in 0 .. Len(Payloads) : Offsets(o, w, Counted(o, w), a)[k] = Len(g[k])
<1> DEFINE n      == Len(Payloads)
           c      == Counted(o, w)
           piece(k, f) == IF Skipped(k, f[k - 1], c, a) THEN c[k] * MethodsOf(k)
                                                      ELSE Len(ItemsOf(k, o, w))
           Rec(f) == f = [k \in 0 .. n |-> IF k = 0 THEN 0 ELSE f[k - 1] + piece(k, f)]
           f0     == CHOOSE f : Rec(f)
           h      == [k \in 0 .. n |-> Len(g[k])]
<1>1. \A f : \A k \in Numbers : piece(k, f) = c[k] * MethodsOf(k)
  BY ItemsAre
<1>2. Offsets(o, w, c, a) = f0
  BY DEF Offsets
<1> HIDE DEF piece, c
<1>3. Rec(h)
  <2>1. ASSUME NEW k \in 0 .. n
        PROVE  Len(g[k]) = IF k = 0 THEN 0 ELSE h[k - 1] + piece(k, h)
    <3>1. CASE k = 0
      BY <3>1, EmptySeq DEF Beginnings, Joins
    <3>2. CASE k # 0
      <4>1. k \in Numbers /\ k - 1 \in 0 .. n
        BY <3>2 DEF Beginnings, Numbers
      <4>2. h[k - 1] = Len(g[k - 1])
        BY <4>1
      <4>3. Len(g[k]) = Len(g[k - 1]) + c[k] * MethodsOf(k)
        BY <4>1 DEF Beginnings, c
      <4> HIDE DEF h
      <4> QED BY <1>1, <3>2, <4>1, <4>2, <4>3
    <3> QED BY <3>1, <3>2
  <2>2. h = [k \in 0 .. n |-> IF k = 0 THEN 0 ELSE h[k - 1] + piece(k, h)]
    BY <2>1
  <2> QED BY <2>2
<1>4. Rec(f0)
  <2> HIDE DEF Rec
  <2> QED BY <1>3
<1> HIDE DEF f0
<1>5. \A k \in 0 .. n : f0[k] = IF k = 0 THEN 0 ELSE f0[k - 1] + piece(k, f0)
  BY <1>4
<1> DEFINE S == {k \in 0 .. n : f0[k] = h[k]}
<1>6. n \in Nat
  BY DEF Beginnings
<1>7. 0 \in S
  <2>1. f0[0] = 0 /\ h[0] = Len(g[0]) /\ g[0] = << >>
    BY <1>5, <1>6 DEF Beginnings, Joins
  <2> QED BY <1>6, <2>1, EmptySeq
<1>8. ASSUME NEW k \in 0 .. n - 1, k \in S PROVE k + 1 \in S
  <2>1. k + 1 \in Numbers /\ k + 1 \in 0 .. n /\ k + 1 # 0 /\ (k + 1) - 1 = k /\ k \in 0 .. n
    BY <1>6 DEF Numbers
  <2>2. f0[k + 1] = f0[k] + c[k + 1] * MethodsOf(k + 1)
    BY <1>1, <1>5, <2>1
  <2>3. Len(g[k + 1]) = Len(g[k]) + c[k + 1] * MethodsOf(k + 1)
    <3> HIDE DEF n
    <3>1. \A j \in Numbers : Len(g[j]) = Len(g[j - 1]) + c[j] * MethodsOf(j)
      BY DEF Beginnings, c
    <3> QED BY <2>1, <3>1
  <2>4. f0[k] = Len(g[k])
    BY <1>8, <2>1
  <2> QED BY <2>1, <2>2, <2>3, <2>4
<1>9. 0 .. n \subseteq S
  <2> HIDE DEF S
  <2> QED BY <1>6, <1>7, <1>8, Induction
<1>10. \A k \in 0 .. n : f0[k] = Len(g[k])
  BY <1>9
<1> QED BY <1>2, <1>10 DEF c

\* The total is the length of the plan.
LEMMA TotalIs ==
  ASSUME NEW o \in Options, NEW w \in Types, NEW g, Beginnings(g, o, w)
  PROVE  Total(Counted(o, w)) = Len(g[Len(Payloads)])
<1> DEFINE n      == Len(Payloads)
           c      == Counted(o, w)
           Rec(f) == f = [k \in 0 .. n |-> IF k = 0 THEN 0 ELSE f[k - 1] + c[k] * MethodsOf(k)]
           f0     == CHOOSE f : Rec(f)
           h      == [k \in 0 .. n |-> Len(g[k])]
<1>1. n \in Nat
  BY DEF Beginnings
<1>2. Total(c) = f0[n]
  BY DEF Total
<1> HIDE DEF c
<1>3. Rec(h)
  <2>1. ASSUME NEW k \in 0 .. n
        PROVE  Len(g[k]) = IF k = 0 THEN 0 ELSE h[k - 1] + c[k] * MethodsOf(k)
    <3>1. CASE k = 0
      BY <3>1, EmptySeq DEF Beginnings, Joins
    <3>2. CASE k # 0
      <4>1. k \in Numbers /\ k - 1 \in 0 .. n
        BY <3>2 DEF Beginnings, Numbers
      <4>2. h[k - 1] = Len(g[k - 1])
        BY <4>1
      <4>3. Len(g[k]) = Len(g[k - 1]) + c[k] * MethodsOf(k)
        BY <4>1 DEF Beginnings, c
      <4> HIDE DEF h
      <4> QED BY <3>2, <4>1, <4>2, <4>3
    <3> QED BY <3>1, <3>2
  <2> QED BY <2>1
<1>4. Rec(f0)
  <2> HIDE DEF Rec
  <2> QED BY <1>3
<1> HIDE DEF f0
<1>5. \A k \in 0 .. n : f0[k] = IF k = 0 THEN 0 ELSE f0[k - 1] + c[k] * MethodsOf(k)
  BY <1>4
<1> DEFINE S == {k \in 0 .. n : f0[k] = h[k]}
<1>6. 0 \in S
  <2>1. f0[0] = 0 /\ h[0] = Len(g[0]) /\ g[0] = << >>
    BY <1>1, <1>5 DEF Beginnings, Joins
  <2> QED BY <1>1, <2>1, EmptySeq
<1>7. ASSUME NEW k \in 0 .. n - 1, k \in S PROVE k + 1 \in S
  <2>1. k + 1 \in Numbers /\ k + 1 \in 0 .. n /\ k + 1 # 0 /\ (k + 1) - 1 = k /\ k \in 0 .. n
    BY <1>1 DEF Numbers
  <2>2. f0[k + 1] = f0[k] + c[k + 1] * MethodsOf(k + 1)
    BY <1>5, <2>1
  <2>3. Len(g[k + 1]) = Len(g[k]) + c[k + 1] * MethodsOf(k + 1)
    <3> HIDE DEF n
    <3>1. \A j \in Numbers : Len(g[j]) = Len(g[j - 1]) + c[j] * MethodsOf(j)
      BY DEF Beginnings, c
    <3> QED BY <2>1, <3>1
  <2>4. f0[k] = Len(g[k])
    BY <1>7, <2>1
  <2> QED BY <2>1, <2>2, <2>3, <2>4
<1>8. 0 .. n \subseteq S
  <2> HIDE DEF S
  <2> QED BY <1>1, <1>6, <1>7, Induction
<1>9. f0[n] = Len(g[n])
  BY <1>1, <1>8
<1> QED BY <1>2, <1>9 DEF c

\* What a page gets of each payload makes the slice of the plan.
LEMMA TasksAre ==
  ASSUME NEW o \in Options, NEW w \in Types, NEW a \in Nat
  PROVE  Tasks(o, w, Counted(o, w), a) = Slice(Plan(o, w), a)
<1> DEFINE n      == Len(Payloads)
           c      == Counted(o, w)
           passed == Offsets(o, w, c, a)
           t      == [k \in DOMAIN Payloads |->
                        IF Skipped(k, passed[k - 1], c, a)
                          THEN << >> ELSE Clip(ItemsOf(k, o, w), passed[k - 1], a)]
<1>1. PICK g : Beginnings(g, o, w)
  BY PlanIs
<1> DEFINE h == [k \in 0 .. n |-> Slice(g[k], a)]
<1>2. n \in Nat /\ DOMAIN Payloads = 1 .. n /\ Numbers = 1 .. n
  BY PagingAssumption, LenProperties DEF Numbers
<1>3. \A k \in 0 .. n : passed[k] = Len(g[k])
  BY <1>1, OffsetsAre
<1>4. ASSUME NEW k \in 1 .. n
      PROVE  t[k] = Clip(ItemsOf(k, o, w), Len(g[k - 1]), a)
  <2>1. k \in Numbers /\ passed[k - 1] = Len(g[k - 1]) /\ Len(g[k - 1]) \in Nat
    BY <1>1, <1>2, <1>3 DEF Beginnings
  <2> HIDE DEF passed, n
  <2>2. t[k] = IF Skipped(k, Len(g[k - 1]), c, a)
                 THEN << >> ELSE Clip(ItemsOf(k, o, w), Len(g[k - 1]), a)
    BY <1>2, <2>1
  <2>3. ASSUME Skipped(k, Len(g[k - 1]), c, a)
        PROVE  Clip(ItemsOf(k, o, w), Len(g[k - 1]), a) = << >>
    <3> DEFINE s   == ItemsOf(k, o, w)
               off == Len(g[k - 1])
    <3>1. s \in Seq(AnItem) /\ Len(s) \in Nat /\ Len(s) = c[k] * MethodsOf(k)
      BY <2>1, ItemsAre, LenProperties
    <3>2. off + Len(s) <= a
      BY <2>3, <3>1 DEF Skipped, BeforePage
    <3> HIDE DEF s
    <3>3. /\ Clip(s, off, a) \in Seq(AnItem)
          /\ Len(Clip(s, off, a)) =
               IF (IF a > off THEN a - off ELSE 0)
                    < (IF a + Limit - off < Len(s) THEN a + Limit - off ELSE Len(s))
                 THEN (IF a + Limit - off < Len(s) THEN a + Limit - off ELSE Len(s))
                        - (IF a > off THEN a - off ELSE 0)
                 ELSE 0
      BY <2>1, <3>1, ClipIs
    <3>4. off \in Nat /\ Limit \in Nat /\ Len(s) \in Nat
      BY <2>1, <3>1, LimitType
    <3> HIDE DEF off
    <3>5. Len(Clip(s, off, a)) = 0
      BY <3>2, <3>3, <3>4
    <3>6. Clip(s, off, a) = << >>
      BY <3>3, <3>5, EmptySeq
    <3> QED BY <3>6 DEF s, off
  <2> QED BY <2>2, <2>3
<1>5. Tasks(o, w, c, a) = FlattenSeq(t)
  BY DEF Tasks
<1>6. ASSUME NEW k \in 0 .. n PROVE h[k] \in Seq(AnItem)
  <2>1. g[k] \in Seq(AnItem)
    BY <1>1 DEF Beginnings, Joins
  <2> QED BY <2>1, SliceIs
<1> HIDE DEF t, passed, c
<1>7. ASSUME NEW k \in 1 .. n PROVE h[k] = h[k - 1] \o t[k] /\ t[k] \in Seq(AnItem)
  <2>1. /\ k \in Numbers /\ k - 1 \in 0 .. n /\ k \in 0 .. n
        /\ g[k - 1] \in Seq(AnItem) /\ g[k] = g[k - 1] \o ItemsOf(k, o, w)
    BY <1>1, <1>2 DEF Beginnings
  <2>2. ItemsOf(k, o, w) \in Seq(AnItem)
    BY <2>1, ItemsAre
  <2>3. h[k] = Slice(g[k], a) /\ h[k - 1] = Slice(g[k - 1], a)
    BY <2>1
  <2> HIDE DEF h
  <2>4. Slice(g[k - 1] \o ItemsOf(k, o, w), a) =
          Slice(g[k - 1], a) \o Clip(ItemsOf(k, o, w), Len(g[k - 1]), a)
    BY <2>1, <2>2, SliceOfJoin
  <2>5. Clip(ItemsOf(k, o, w), Len(g[k - 1]), a) \in Seq(AnItem)
    <3>1. Len(g[k - 1]) \in Nat
      BY <2>1, LenProperties
    <3> QED BY <2>2, <3>1, ClipIs
  <2> QED BY <1>4, <2>1, <2>3, <2>4, <2>5
<1>8. h[0] = << >>
  <2>1. g[0] = << >>
    BY <1>1 DEF Beginnings, Joins
  <2>2. << >> \in Seq(AnItem) /\ Len(<< >>) = 0
    BY EmptySeq
  <2>3. Slice(<< >>, a) \in Seq(AnItem) /\ Len(Slice(<< >>, a)) = 0
    <3> DEFINE e == << >>
    <3>1. e \in Seq(AnItem) /\ Len(e) = 0
      BY <2>2
    <3> HIDE DEF e
    <3>2. /\ Slice(e, a) \in Seq(AnItem)
          /\ Len(Slice(e, a)) = IF a < Len(e) THEN Lesser(a + Limit, Len(e)) - a ELSE 0
      BY <3>1, SliceIs
    <3>3. Len(Slice(e, a)) = 0
      BY <3>1, <3>2
    <3> QED BY <3>2, <3>3 DEF e
  <2>4. Slice(<< >>, a) = << >>
    BY <2>3, EmptySeq
  <2> QED BY <1>2, <2>1, <2>4
<1>9. Joins(h, t, n, AnItem)
  <2>1. h \in [0 .. n -> Seq(AnItem)]
    BY <1>6
  <2> HIDE DEF h
  <2> QED BY <1>7, <1>8, <2>1 DEF Joins
<1>10. t \in [1 .. n -> Seq(AnItem)]
  <2>1. t = [k \in 1 .. n |-> t[k]]
    BY <1>2 DEF t
  <2> QED BY <1>7, <2>1
<1>11. FlattenSeq(t) = h[n]
  <2> HIDE DEF h, n
  <2> QED BY <1>2, <1>9, <1>10, FlattenIs
<1>12. h[n] = Slice(Plan(o, w), a)
  BY <1>1, <1>2 DEF Beginnings
<1> QED BY <1>5, <1>11, <1>12 DEF c

\* The answer for a page, when the counts are those of its plan.
LEMMA EnvelopeIs ==
  ASSUME NEW o \in Options, NEW w \in Types, NEW p \in Nat, Counts(o, w) = Counted(o, w)
  PROVE  LET plan == Plan(o, w)
         IN /\ Start(p) \in Nat /\ plan \in Seq(AnItem) /\ Len(plan) \in Nat
            /\ Envelope(p, o, w) =
                 [type |-> w, page |-> p, items |-> Slice(plan, Start(p)), total |-> Len(plan),
                  hasMore |-> Start(p) + Limit < Len(plan)]
<1> DEFINE a == Start(p)
           c == Counted(o, w)
           n == Len(Payloads)
<1>1. a \in Nat /\ Limit \in Nat
  BY LimitType DEF Start
<1>2. PICK g : Beginnings(g, o, w)
  BY PlanIs
<1>3. Plan(o, w) = g[n] /\ n \in Nat
  BY <1>2 DEF Beginnings
<1>4. Plan(o, w) \in Seq(AnItem) /\ Len(Plan(o, w)) \in Nat
  BY PlanIs, LenProperties
<1>5. Tasks(o, w, c, a) = Slice(Plan(o, w), a)
  BY <1>1, TasksAre
<1>6. Total(c) = Len(Plan(o, w))
  BY <1>2, <1>3, TotalIs
<1>7. Offsets(o, w, c, a)[n] = Len(Plan(o, w))
  <2>1. n \in 0 .. n
    BY <1>3
  <2> HIDE DEF n
  <2>2. \A k \in 0 .. Len(Payloads) : Offsets(o, w, c, a)[k] = Len(g[k])
    BY <1>1, <1>2, OffsetsAre
  <2> QED BY <1>3, <2>1, <2>2 DEF n
<1>8. Envelope(p, o, w) =
        [type |-> w, page |-> p, items |-> Tasks(o, w, c, a), total |-> Total(c),
         hasMore |-> HasMore(a + Limit, Total(c), Offsets(o, w, c, a)[n])]
  BY DEF Envelope
<1>9. HasMore(a + Limit, Len(Plan(o, w)), Len(Plan(o, w))) = (a + Limit < Len(Plan(o, w)))
  BY <1>1, <1>4 DEF HasMore
<1> QED BY <1>1, <1>4, <1>5, <1>6, <1>7, <1>8, <1>9

-----------------------------------------------------------------------------
(* The invariant.                                                          *)

\* What the pages before page have brought, if all were planned for w.
Gathered(o, w, p) == SubSeq(Plan(o, w), 1, Lesser(Start(p), Len(Plan(o, w))))

\* The cache holds counts of plans under the plans' own keys.
CacheInv ==
  cache \in Seq({[key |-> PlanKey(o, w), counts |-> Counted(o, w)] : o \in Options, w \in Types})

\* The latest answer is a slice of the plan for its type.
AnswerInv ==
  answer # NoAnswer =>
    \E p \in Nat, w \in Types :
      answer = [type |-> w, page |-> p, items |-> Slice(Plan(opt, w), Start(p)),
                total |-> Len(Plan(opt, w)),
                hasMore |-> Start(p) + Limit < Len(Plan(opt, w))]

\* A client that knows its type has the pages so far of one plan; one that does
\* not know it yet has none, if it is an audit.
GatherInv ==
  phase # "idle" =>
    /\ ~Redetects =>
         results = IF phase = "complete" THEN Plan(opt, known) ELSE Gathered(opt, known, page)
    /\ client = "audit" /\ Redetects => phase # "complete" /\ page = 0 /\ results = << >>

PagingTypes ==
  /\ client \in {"ui", "audit"}
  /\ phase \in {"idle", "page", "complete", "partial", "cancelled"}
  /\ opt \in Options /\ known \in Types /\ auto \in BOOLEAN
  /\ page \in Nat

PagingInv == PagingTypes /\ CacheInv /\ AnswerInv /\ GatherInv

LEMMA CountsAre ==
  ASSUME CacheInv, NEW o \in Options, NEW w \in Types
  PROVE  Counts(o, w) = Counted(o, w)
<1>1. ASSUME NEW e \in Cached(o, w) PROVE e.counts = Counted(o, w)
  <2>1. e \in ToSet(cache) /\ e.key = PlanKey(o, w)
    BY <1>1 DEF Cached
  <2>2. PICK i \in DOMAIN cache : e = cache[i]
    BY <2>1 DEF ToSet
  <2>3. e \in {[key |-> PlanKey(x, y), counts |-> Counted(x, y)] : x \in Options, y \in Types}
    BY <2>2, ElementOfSeq, LenProperties DEF CacheInv
  <2>4. PICK x \in Options, y \in Types : e = [key |-> PlanKey(x, y), counts |-> Counted(x, y)]
    BY <2>3
  <2>5. x = o /\ y = w
    BY <2>1, <2>4 DEF PlanKey
  <2> QED BY <2>4, <2>5
<1>2. CASE Cached(o, w) = {}
  BY <1>2 DEF Counts
<1>3. CASE Cached(o, w) # {}
  <2> DEFINE e == CHOOSE x \in Cached(o, w) : TRUE
  <2>1. e \in Cached(o, w)
    BY <1>3
  <2> HIDE DEF e
  <2>2. e.counts = Counted(o, w)
    BY <1>1, <2>1
  <2> QED BY <1>3, <2>2 DEF Counts, e
<1> QED BY <1>2, <1>3

LEMMA RememberKeeps ==
  ASSUME CacheInv, NEW o \in Options, NEW w \in Types, Remember(o, w)
  PROVE  CacheInv'
<1> DEFINE E == {[key |-> PlanKey(x, y), counts |-> Counted(x, y)] : x \in Options, y \in Types}
           e == [key |-> PlanKey(o, w), counts |-> Counted(o, w)]
<1>1. e \in E
  OBVIOUS
<1>2. cache \in Seq(E)
  BY DEF CacheInv
<1>3. CASE Cached(o, w) # {}
  BY <1>2, <1>3 DEF Remember, CacheInv
<1>4. CASE Cached(o, w) = {}
  <2>1. cache' = Append(Evict(cache), e)
    BY <1>4 DEF Remember
  <2> HIDE DEF E, e
  <2>2. Evict(cache) \in Seq(E)
    <3>1. CASE cache = << >>
      <4>1. ~(Len(cache) >= CacheSize)
        BY <3>1, EmptySeq, PagingAssumption
      <4> QED BY <1>2, <4>1 DEF Evict
    <3>2. CASE cache # << >>
      <4>1. Tail(cache) \in Seq(E)
        BY <1>2, <3>2, HeadTailProperties
      <4> QED BY <1>2, <4>1 DEF Evict
    <3> QED BY <3>1, <3>2
  <2>3. cache' \in Seq(E)
    BY <1>1, <2>1, <2>2, AppendProperties
  <2> QED BY <2>3 DEF CacheInv, E
<1> QED BY <1>3, <1>4

\* The next slice goes on where the last one ended.
LEMMA SliceGoesOn ==
  ASSUME NEW V, NEW s \in Seq(V), NEW a \in Nat
  PROVE  SubSeq(s, 1, Lesser(a, Len(s))) \o Slice(s, a) = SubSeq(s, 1, Lesser(a + Limit, Len(s)))
<1> DEFINE b == Lesser(a, Len(s))
           c == Lesser(a + Limit, Len(s))
<1>1. Len(s) \in Nat /\ Limit \in Nat \ {0}
  BY LimitType, LenProperties
<1>2. b \in 0 .. Len(s) /\ c \in b .. Len(s) /\ (a < Len(s) => b = a) /\ (a >= Len(s) => c = b)
  BY <1>1 DEF Lesser
<1>3. Slice(s, a) = SubSeq(s, a + 1, c)
  BY DEF Slice
<1> HIDE DEF b, c
<1>4. CASE a < Len(s)
  <2>1. 1 \in 1 .. Len(s) + 1 /\ b \in 1 - 1 .. Len(s) /\ c \in b .. Len(s)
    BY <1>1, <1>2
  <2>2. SubSeq(s, 1, b) \o SubSeq(s, b + 1, c) = SubSeq(s, 1, c)
    BY <2>1, ConcatAdjacentSubSeq
  <2> QED BY <1>2, <1>3, <1>4, <2>2 DEF b, c
<1>5. CASE a >= Len(s)
  <2>1. c \in Int /\ a + 1 \in Int /\ c < a + 1 /\ b = c
    BY <1>1, <1>2, <1>5
  <2>2. SubSeq(s, a + 1, c) = << >>
    BY <2>1, SubSeqEmpty
  <2>3. SubSeq(s, 1, b) \in Seq(V)
    <3>1. \A i \in 1 .. b : s[i] \in V
      <4>1. \A i \in 1 .. Len(s) : s[i] \in V
        BY ElementOfSeq
      <4> QED BY <1>1, <1>2, <4>1
    <3>2. 1 \in Int /\ b \in Int
      BY <1>1, <1>2
    <3> QED BY <3>1, <3>2, SubSeqProperties
  <2>4. SubSeq(s, 1, b) \o << >> = SubSeq(s, 1, b)
    BY <2>3, ConcatEmptySeq
  <2> QED BY <1>3, <2>1, <2>2, <2>4 DEF b, c
<1>6. a < Len(s) \/ a >= Len(s)
  BY <1>1
<1> QED BY <1>4, <1>5, <1>6

\* With each page the client has one more page of the plan; after the last one,
\* all of it.
LEMMA GatheredGrows ==
  ASSUME NEW o \in Options, NEW w \in Types, NEW p \in Nat
  PROVE  LET plan == Plan(o, w)
             page1 == Slice(plan, Start(p))
         IN /\ Gathered(o, w, 0) = << >>
            /\ Gathered(o, w, p) \o page1 = Gathered(o, w, p + 1)
            /\ ~(Start(p) + Limit < Len(plan)) => Gathered(o, w, p + 1) = plan
            /\ page1 = << >> => Gathered(o, w, p) \o page1 = plan
<1> DEFINE plan == Plan(o, w)
           l    == Len(plan)
           a    == Start(p)
<1>1. plan \in Seq(AnItem) /\ l \in Nat /\ Limit \in Nat \ {0} /\ a \in Nat
  BY PlanIs, LenProperties, LimitType DEF Start
<1>2. Start(p + 1) = a + Limit /\ Start(0) = 0
  BY LimitType DEF Start
<1>3. SubSeq(plan, 1, l) = plan
  BY <1>1, SubSeqFull
<1>4. Gathered(o, w, 0) = << >>
  <2>1. Lesser(0, l) = 0
    BY <1>1 DEF Lesser
  <2>2. SubSeq(plan, 1, 0) = << >>
    BY SubSeqEmpty
  <2> HIDE DEF plan
  <2> QED BY <1>2, <2>1, <2>2 DEF Gathered, plan
<1>5. Gathered(o, w, p) \o Slice(plan, a) = Gathered(o, w, p + 1)
  BY <1>1, <1>2, SliceGoesOn DEF Gathered
<1>6. ASSUME ~(a + Limit < l) PROVE Gathered(o, w, p + 1) = plan
  <2>1. Lesser(a + Limit, l) = l
    BY <1>1, <1>6 DEF Lesser
  <2> QED BY <1>2, <1>3, <2>1 DEF Gathered
<1>7. ASSUME Slice(plan, a) = << >> PROVE Gathered(o, w, p + 1) = plan
  <2> HIDE DEF plan, a
  <2>1. Len(Slice(plan, a)) = IF a < l THEN Lesser(a + Limit, l) - a ELSE 0
    BY <1>1, SliceIs
  <2>2. Len(Slice(plan, a)) = 0
    BY <1>7, EmptySeq
  <2> HIDE DEF l
  <2>3. ~(a + Limit < l)
    BY <1>1, <2>1, <2>2 DEF Lesser
  <2> QED BY <1>6, <2>3 DEF l
<1> QED BY <1>4, <1>5, <1>6, <1>7

-----------------------------------------------------------------------------
(* The steps.                                                              *)

\* A scan begins with nothing gathered.
LEMMA BeginKeeps ==
  ASSUME PagingInv, NEW who \in {"ui", "audit"}, NEW o \in Options, NEW w \in Types,
         NEW detect \in BOOLEAN, Begin(who, o, w, detect)
  PROVE  PagingInv'
<1>1. /\ client' = who /\ opt' = o /\ known' = w /\ auto' = detect
      /\ phase' = "page" /\ page' = 0 /\ results' = << >> /\ answer' = NoAnswer
      /\ cache' = cache
  BY DEF Begin
<1>2. PagingTypes'
  BY <1>1 DEF PagingTypes
<1>3. CacheInv'
  BY <1>1 DEF PagingInv, CacheInv
<1>4. AnswerInv'
  BY <1>1 DEF AnswerInv
<1>5. GatherInv'
  <2>1. Gathered(o, w, 0) = << >>
    BY GatheredGrows
  <2>2. phase' # "complete"
    BY <1>1
  <2> QED BY <1>1, <2>1, <2>2 DEF GatherInv
<1> QED BY <1>2, <1>3, <1>4, <1>5 DEF PagingInv

\* What a served page does: it is a slice of the plan for a type that the
\* client sent, or that detection found.
LEMMA ServeIs ==
  ASSUME PagingInv, NEW w \in Types, Serve(w)
  PROVE  /\ phase = "page" /\ w \in PlannedFor
         /\ CacheInv'
         /\ answer' = [type |-> w, page |-> page, items |-> Slice(Plan(opt, w), Start(page)),
                       total |-> Len(Plan(opt, w)),
                       hasMore |-> Start(page) + Limit < Len(Plan(opt, w))]
<1>1. opt \in Options /\ page \in Nat /\ CacheInv
  BY DEF PagingInv, PagingTypes
<1>2. CacheInv'
  BY <1>1, RememberKeeps DEF Serve
<1>3. Counts(opt, w) = Counted(opt, w)
  BY <1>1, CountsAre
<1>4. answer' = Envelope(page, opt, w)
  BY DEF Serve
<1>5. Envelope(page, opt, w) =
        [type |-> w, page |-> page, items |-> Slice(Plan(opt, w), Start(page)),
         total |-> Len(Plan(opt, w)), hasMore |-> Start(page) + Limit < Len(Plan(opt, w))]
  BY <1>1, <1>3, EnvelopeIs
<1> QED BY <1>2, <1>4, <1>5 DEF Serve

LEMMA ServedAnswer ==
  ASSUME PagingInv, NEW w \in Types, Serve(w), opt' = opt
  PROVE  AnswerInv'
<1>1. page \in Nat
  BY DEF PagingInv, PagingTypes
<1>2. answer' = [type |-> w, page |-> page, items |-> Slice(Plan(opt, w), Start(page)),
                 total |-> Len(Plan(opt, w)), hasMore |-> Start(page) + Limit < Len(Plan(opt, w))]
  BY ServeIs
<1>3. \E p \in Nat, v \in Types :
        answer' = [type |-> v, page |-> p, items |-> Slice(Plan(opt, v), Start(p)),
                   total |-> Len(Plan(opt, v)), hasMore |-> Start(p) + Limit < Len(Plan(opt, v))]
  BY <1>1, <1>2
<1> QED BY <1>3 DEF AnswerInv

LEMMA UiPageKeeps ==
  ASSUME PagingInv, NEW w \in Types, UiPage(w)
  PROVE  PagingInv'
<1> DEFINE items == Slice(Plan(opt, w), Start(page))
<1>1. /\ client = "ui" /\ Serve(w)
      /\ results' = results \o answer'.items
      /\ client' = client /\ opt' = opt /\ known' = known /\ auto' = auto
      /\ answer'.items = << >> => phase' = "complete" /\ page' = page
      /\ answer'.items # << >> => phase' = phase /\ page' = page + 1
  BY DEF UiPage
<1>2. /\ phase = "page" /\ w \in PlannedFor /\ CacheInv' /\ answer'.items = items
  BY <1>1, ServeIs
<1>3. AnswerInv'
  BY <1>1, ServedAnswer
<1> HIDE DEF items
<1>4. PagingTypes'
  <2>1. phase' \in {phase, "complete"} /\ page' \in {page, page + 1}
    BY <1>1
  <2>2. page' \in Nat
    BY <2>1 DEF PagingInv, PagingTypes
  <2> QED BY <1>1, <2>1, <2>2 DEF PagingInv, PagingTypes
<1>5. GatherInv'
  <2>1. SUFFICES ASSUME ~Redetects
        PROVE  results' = IF phase' = "complete" THEN Plan(opt, known) ELSE Gathered(opt, known, page')
    <3>1. client' # "audit" /\ Redetects' = Redetects
      BY <1>1 DEF Redetects
    <3> QED BY <1>1, <2>1, <3>1 DEF GatherInv
  <2>2. w = known
    BY <1>2, <2>1 DEF PlannedFor, Redetects
  <2>3. results = Gathered(opt, known, page)
    BY <1>2, <2>1 DEF PagingInv, GatherInv
  <2>4. opt \in Options /\ page \in Nat
    BY DEF PagingInv, PagingTypes
  <2>5. /\ results \o items = Gathered(opt, known, page + 1)
        /\ items = << >> => results \o items = Plan(opt, known)
    BY <2>2, <2>3, <2>4, GatheredGrows DEF items
  <2>6. results' = results \o items
    BY <1>1, <1>2
  <2>7. CASE items = << >>
    BY <1>1, <1>2, <2>5, <2>6, <2>7
  <2>8. CASE items # << >>
    <3>1. phase' # "complete" /\ page' = page + 1
      BY <1>1, <1>2, <2>8
    <3> QED BY <2>5, <2>6, <3>1
  <2> QED BY <2>7, <2>8
<1> QED BY <1>2, <1>3, <1>4, <1>5 DEF PagingInv

\* The first page of an audit settles the type, and so the plan.
LEMMA AuditPageKeeps ==
  ASSUME PagingInv, NEW w \in Types, AuditPage(w)
  PROVE  PagingInv'
<1> DEFINE items == Slice(Plan(opt, w), Start(page))
           more  == Start(page) + Limit < Len(Plan(opt, w))
<1>1. /\ client = "audit" /\ Serve(w)
      /\ results' = results \o answer'.items
      /\ client' = client /\ opt' = opt /\ known' = w /\ auto' = FALSE
      /\ answer'.hasMore => phase' = phase /\ page' = page + 1
      /\ ~answer'.hasMore => phase' = "complete" /\ page' = page
  BY DEF AuditPage, AuditSendsBack
<1>2. /\ phase = "page" /\ w \in PlannedFor /\ CacheInv' /\ answer'.items = items
      /\ answer'.hasMore = more
  BY <1>1, ServeIs
<1>3. AnswerInv'
  BY <1>1, ServedAnswer
<1> HIDE DEF items, more
<1>4. PagingTypes'
  <2>1. phase' \in {phase, "complete"} /\ page' \in {page, page + 1}
    BY <1>1, <1>2
  <2>2. page' \in Nat
    BY <2>1 DEF PagingInv, PagingTypes
  <2> QED BY <1>1, <2>1, <2>2 DEF PagingInv, PagingTypes
<1>5. GatherInv'
  <2>1. opt \in Options /\ page \in Nat
    BY DEF PagingInv, PagingTypes
  <2>2. results = Gathered(opt, w, page)
    <3>1. CASE Redetects
      <4>1. page = 0 /\ results = << >>
        BY <1>1, <1>2, <3>1 DEF PagingInv, GatherInv
      <4> QED BY <2>1, <4>1, GatheredGrows
    <3>2. CASE ~Redetects
      <4>1. w = known
        BY <1>2, <3>2 DEF PlannedFor, Redetects
      <4> QED BY <1>2, <3>2, <4>1 DEF PagingInv, GatherInv
    <3> QED BY <3>1, <3>2
  <2>3. /\ results \o items = Gathered(opt, w, page + 1)
        /\ ~more => Gathered(opt, w, page + 1) = Plan(opt, w)
    BY <2>1, <2>2, GatheredGrows DEF items, more
  <2>4. results' = results \o items
    BY <1>1, <1>2
  <2>5. results' = IF phase' = "complete" THEN Plan(opt, w) ELSE Gathered(opt, w, page')
    <3>1. CASE more
      <4>1. phase' # "complete" /\ page' = page + 1
        BY <1>1, <1>2, <3>1
      <4> QED BY <2>3, <2>4, <4>1
    <3>2. CASE ~more
      BY <1>1, <1>2, <2>3, <2>4, <3>2
    <3> QED BY <3>1, <3>2
  <2>6. ~Redetects'
    BY <1>1 DEF Redetects
  <2> QED BY <1>1, <2>5, <2>6 DEF GatherInv
<1> QED BY <1>2, <1>3, <1>4, <1>5 DEF PagingInv

\* A client that ends keeps what it has.
LEMMA EndedKeeps ==
  ASSUME PagingInv, Ended
  PROVE  PagingInv'
<1>1. /\ phase = "page" /\ phase' \in {"partial", "cancelled"}
      /\ UNCHANGED <<cache, client, opt, known, auto, page, results, answer>>
  BY DEF Ended, UiPageFails, UiCancel, AuditStops
<1>2. PagingTypes'
  BY <1>1 DEF PagingInv, PagingTypes
<1>3. CacheInv' /\ AnswerInv'
  BY <1>1 DEF PagingInv, CacheInv, AnswerInv
<1>4. GatherInv'
  BY <1>1 DEF PagingInv, GatherInv, Redetects
<1> QED BY <1>2, <1>3, <1>4 DEF PagingInv

\* What other scans and a new isolate do to the cache does not reach the session.
LEMMA SessionKept ==
  ASSUME PagingInv, UNCHANGED session, CacheInv'
  PROVE  PagingInv'
BY DEF PagingInv, PagingTypes, AnswerInv, GatherInv, Redetects, session

LEMMA PagingInitial == Init => PagingInv
<1> SUFFICES ASSUME Init PROVE PagingInv
  OBVIOUS
<1>1. PagingTypes
  BY DEF Init, PagingTypes, Types
<1>2. CacheInv
  BY EmptySeq DEF Init, CacheInv
<1>3. AnswerInv /\ GatherInv
  BY DEF Init, AnswerInv, GatherInv
<1> QED BY <1>1, <1>2, <1>3 DEF PagingInv

LEMMA PagingStep == PagingInv /\ [Next]_vars => PagingInv'
<1> SUFFICES ASSUME PagingInv, [Next]_vars PROVE PagingInv'
  OBVIOUS
<1>1. ASSUME NEW o \in Options, AuditBegin(o) PROVE PagingInv'
  <2>1. Begin("audit", o, None, TRUE) /\ None \in Types
    BY <1>1 DEF AuditBegin, Types
  <2> QED BY <2>1, BeginKeeps
<1>2. ASSUME NEW o \in Options, NEW w \in Types, NEW detect \in BOOLEAN, UiBegin(o, w, detect)
      PROVE  PagingInv'
  <2>1. Begin("ui", o, w, detect)
    BY <1>2 DEF UiBegin
  <2> QED BY <2>1, BeginKeeps
<1>3. CASE Paged
  BY <1>3, UiPageKeeps, AuditPageKeeps DEF Paged
<1>4. CASE Ended
  BY <1>4, EndedKeeps
<1>5. ASSUME NEW o \in Options, NEW w \in Types, OtherScan(o, w) PROVE PagingInv'
  <2>1. CacheInv'
    BY <1>5, RememberKeeps DEF OtherScan, PagingInv
  <2> QED BY <1>5, <2>1, SessionKept DEF OtherScan
<1>6. CASE NewIsolate
  <2>1. CacheInv'
    BY <1>6, EmptySeq DEF NewIsolate, CacheInv
  <2> QED BY <1>6, <2>1, SessionKept DEF NewIsolate
<1>7. CASE UNCHANGED vars
  BY <1>7, SessionKept DEF vars, PagingInv, CacheInv
<1> QED BY <1>1, <1>2, <1>3, <1>4, <1>5, <1>6, <1>7 DEF Next

LEMMA PagingAlways == FairSpec => []PagingInv
BY PagingInitial, PagingStep, PTL DEF FairSpec

-----------------------------------------------------------------------------
(* The theorems.                                                           *)

\* Whatever the cache holds and whoever filled it, the answer for a page is
\* that slice of the plan for its type, with the plan's size and the right
\* hasMore: skipping payloads by their cached counts (pageTasks, check.ts)
\* yields what expanding them all would.
THEOREM Slices == FairSpec => []PagesAreSlices
<1>1. PagingInv => PagesAreSlices
  <2> SUFFICES ASSUME PagingInv, answer # NoAnswer
      PROVE  LET plan == Plan(opt, answer.type)
                 end  == (answer.page + 1) * Limit
             IN /\ answer.items = SubSeq(plan, answer.page * Limit + 1,
                                         IF end < Len(plan) THEN end ELSE Len(plan))
                /\ answer.total = Len(plan)
                /\ answer.hasMore <=> end < Len(plan)
    BY DEF PagesAreSlices
  <2>1. PICK p \in Nat, w \in Types :
          answer = [type |-> w, page |-> p, items |-> Slice(Plan(opt, w), Start(p)),
                    total |-> Len(Plan(opt, w)),
                    hasMore |-> Start(p) + Limit < Len(Plan(opt, w))]
    BY DEF PagingInv, AnswerInv
  <2>2. /\ answer.type = w /\ answer.page = p /\ answer.total = Len(Plan(opt, w))
        /\ answer.items = Slice(Plan(opt, w), Start(p))
        /\ answer.hasMore = (Start(p) + Limit < Len(Plan(opt, w)))
    BY <2>1
  <2>3. Start(p) = p * Limit /\ Start(p) + Limit = (p + 1) * Limit
    BY LimitType DEF Start
  <2> QED BY <2>2, <2>3 DEF Slice, Lesser
<1> QED BY <1>1, PagingAlways, PTL

\* A client that does not ask for detection again has, at every moment, the
\* beginning of one plan, and the whole of it when the pages end: no item is
\* lost or repeated at a page boundary (README.md:422).
THEOREM InOrder == FairSpec => []OnePlanInOrder
<1>1. PagingInv => OnePlanInOrder
  <2> SUFFICES ASSUME PagingInv, phase # "idle", ~Redetects
      PROVE  /\ IsPrefix(results, Plan(opt, known))
             /\ phase = "complete" => results = Plan(opt, known)
    BY DEF OnePlanInOrder
  <2> DEFINE plan == Plan(opt, known)
             l    == Len(plan)
  <2>1. opt \in Options /\ known \in Types /\ page \in Nat
    BY DEF PagingInv, PagingTypes
  <2>2. plan \in Seq(AnItem) /\ l \in Nat /\ SubSeq(plan, 1, l) = plan
    BY <2>1, PlanIs, LenProperties, SubSeqFull
  <2>3. results = IF phase = "complete" THEN plan ELSE Gathered(opt, known, page)
    BY DEF PagingInv, GatherInv
  <2>4. PICK b \in 0 .. l : results = SubSeq(plan, 1, b)
    <3>1. Start(page) \in Nat
      BY <2>1, LimitType DEF Start
    <3>2. Lesser(Start(page), l) \in 0 .. l /\ l \in 0 .. l
      BY <2>2, <3>1 DEF Lesser
    <3> QED BY <2>2, <2>3, <3>2 DEF Gathered
  <2> HIDE DEF plan
  <2>5. \A i \in 1 .. b : plan[i] \in AnItem
    <3>1. \A i \in 1 .. l : plan[i] \in AnItem
      BY <2>2, ElementOfSeq
    <3> HIDE DEF l
    <3> QED BY <2>2, <3>1
  <2>6. 1 \in Int /\ b \in Int /\ b <= l
    BY <2>2
  <2>7. results \in Seq(AnItem) /\ Len(results) = b
    <3>1. /\ SubSeq(plan, 1, b) \in Seq(AnItem)
          /\ Len(SubSeq(plan, 1, b)) = IF 1 <= b THEN b - 1 + 1 ELSE 0
      BY <2>5, <2>6, SubSeqProperties
    <3>2. Len(SubSeq(plan, 1, b)) = b
      BY <2>2, <3>1
    <3> QED BY <2>4, <3>1, <3>2
  <2>8. SubSeq(results, 1, Len(results)) = SubSeq(plan, 1, Len(results))
    <3>1. SubSeq(results, 1, Len(results)) = results
      BY <2>7, SubSeqFull
    <3> QED BY <2>4, <2>7, <3>1
  <2>9. IsPrefix(results, plan)
    BY <2>6, <2>7, <2>8 DEF IsPrefix
  <2> QED BY <2>3, <2>9 DEF plan
<1> QED BY <1>1, PagingAlways, PTL

\* An audit that ends by itself has covered one plan, although its client knew
\* no type at first: detectedWAF goes back with the second request (api.ts).
THEOREM AuditCovers == FairSpec => []AuditIsComplete
<1>1. PagingInv => AuditIsComplete
  <2> SUFFICES ASSUME PagingInv, client = "audit", phase = "complete"
      PROVE  \E w \in Types : results = Plan(opt, w)
    BY DEF AuditIsComplete
  <2>1. phase # "idle" /\ ~Redetects
    BY DEF PagingInv, GatherInv
  <2>2. results = Plan(opt, known)
    BY <2>1 DEF PagingInv, GatherInv
  <2> QED BY <2>2 DEF PagingInv, PagingTypes
<1> QED BY <1>1, PagingAlways, PTL

-----------------------------------------------------------------------------
(* The dialogs.                                                            *)

\* A loop is at one of its URLs, pauses before the next one only, and asks for
\* one detection.
LoopOK(l) ==
  /\ l.phase \in {"request", "pause"} => l.i \in 1 .. Len(l.urls)
  /\ l.phase = "pause" => l.i < Len(l.urls)
  /\ l.page > 0 /\ l.ask => l.known
  /\ l.probes <= 1

\* The results of a batch are of its URLs in order, but for those of other loops.
Holds(j) ==
  /\ j.completed = Len(j.results)
  /\ \A n \in 1 .. Len(j.results) :
       IF j.results[n].loop = j.id
       THEN Dialog!Own(j, n) <= Len(j.urls) /\ j.results[n].url = j.urls[Dialog!Own(j, n)]
       ELSE j.results[n].loop \in j.inherited
  /\ j.inherited = {} /\ j.status = "completed" => Dialog!Own(j, Len(j.results)) = Len(j.urls)

\* The loop of a batch that runs is at the URL after those with a result.
InStep(j, l) ==
  /\ l.phase \in {"request", "pause"} /\ l.urls = j.urls
  /\ Dialog!Own(j, Len(j.results)) = IF l.phase = "request" THEN l.i - 1 ELSE l.i

JobOK ==
  /\ \A b \in 1 .. MaxBatches : Dialog!Alive(b) =>
       job # NoJob /\ (b = job.id \/ b \in job.inherited)
  /\ job # NoJob => Holds(job) /\ loop[job.id].phase # "off"
  /\ Dialog!Running => InStep(job, loop[job.id])
  /\ dialog.stop => Dialog!Running

ShownOK ==
  dialog.shown # NoJob =>
    /\ loop[dialog.shown.job].phase # "off"
    /\ job # NoJob /\ dialog.shown.job = job.id =>
         /\ job.status = "completed"
         /\ dialog.shown.successful = Dialog!Count(job.results, TRUE)
         /\ dialog.shown.failed = Dialog!Count(job.results, FALSE)

FormOK ==
  /\ Cardinality(sends) + (IF form.button /\ form.openings > 0 THEN 1 ELSE 0) <= form.openings
  /\ sends = {} /\ form.openings > 0 => form.button

\* What the dialogs' steps preserve.
BatchInv ==
  /\ job \in Dialog!Jobs \cup {NoJob}
  /\ loop \in [1 .. MaxBatches -> Dialog!Loops]
  /\ dialog \in [start : BOOLEAN, stop : BOOLEAN, export : BOOLEAN, percent : Int,
                 shown : Dialog!Figures \cup {NoJob}]
  /\ \A b \in 1 .. MaxBatches : LoopOK(loop[b])
  /\ JobOK /\ ShownOK

FormInv ==
  /\ form \in [button : BOOLEAN, email : BOOLEAN, openings : Nat, sent : Nat,
               alert : {"none", "missing", "dispatched", "external", "failed", "unreachable"}]
  /\ sends \subseteq 1 .. MaxSends
  /\ FormOK

-----------------------------------------------------------------------------
(* The results of a batch.                                                 *)

\* One more number makes one more of a set of them, or none.
LEMMA OneMore ==
  ASSUME NEW n \in Nat, NEW S, NEW T,
         S \subseteq 1 .. n, T = S \/ T = S \cup {n + 1}
  PROVE  /\ IsFiniteSet(S) /\ IsFiniteSet(T) /\ Cardinality(S) \in Nat
         /\ Cardinality(T) = IF T = S THEN Cardinality(S) ELSE Cardinality(S) + 1
<1>1. IsFiniteSet(1 .. n)
  BY FS_Interval
<1>2. IsFiniteSet(S)
  BY <1>1, FS_Subset
<1>3. n + 1 \notin S
  OBVIOUS
<1> QED BY <1>2, <1>3, FS_AddElement, FS_CardinalityType

\* A result more in a batch.
Longer(j, k, e) ==
  /\ j \in Dialog!Jobs /\ e \in Dialog!Entries
  /\ k = [j EXCEPT !.results = Append(@, e), !.completed = @ + 1]

LEMMA LongerIs ==
  ASSUME NEW j, NEW k, NEW e, Longer(j, k, e)
  PROVE  /\ k \in Dialog!Jobs
         /\ k.id = j.id /\ k.urls = j.urls /\ k.status = j.status /\ k.inherited = j.inherited
         /\ k.completed = j.completed + 1
         /\ Len(j.results) \in Nat /\ Len(k.results) = Len(j.results) + 1
         /\ k.results[Len(j.results) + 1] = e
         /\ \A n \in 1 .. Len(j.results) : k.results[n] = j.results[n]
<1>1. j \in Dialog!Jobs /\ e \in Dialog!Entries
  BY DEF Longer
<1>2. j.results \in Seq(Dialog!Entries) /\ j.completed \in Nat
  BY <1>1 DEF Dialog!Jobs
<1> DEFINE r == Append(j.results, e)
<1>3. /\ r \in Seq(Dialog!Entries) /\ Len(r) = Len(j.results) + 1 /\ Len(j.results) \in Nat
      /\ r[Len(j.results) + 1] = e
      /\ \A n \in 1 .. Len(j.results) : r[n] = j.results[n]
  BY <1>1, <1>2, AppendProperties, LenProperties
<1> HIDE DEF r
<1>4. k = [j EXCEPT !.results = r, !.completed = j.completed + 1]
  BY DEF Longer, r
<1>5. /\ k.id = j.id /\ k.urls = j.urls /\ k.status = j.status /\ k.inherited = j.inherited
      /\ k.completed = j.completed + 1 /\ k.results = r
  BY <1>1, <1>4 DEF Dialog!Jobs
<1>6. k \in Dialog!Jobs
  <2>1. k = [id |-> j.id, urls |-> j.urls, results |-> r, completed |-> j.completed + 1,
             status |-> j.status, inherited |-> j.inherited]
    BY <1>1, <1>4 DEF Dialog!Jobs
  <2>2. /\ j.id \in 1 .. MaxBatches /\ j.urls \in Seq(Lines)
        /\ j.status \in {"running", "stopped", "completed"}
        /\ j.inherited \in SUBSET (1 .. MaxBatches)
    BY <1>1 DEF Dialog!Jobs
  <2>3. j.completed + 1 \in Nat
    BY <1>2
  <2> QED BY <1>3, <2>1, <2>2, <2>3 DEF Dialog!Jobs
<1> QED BY <1>3, <1>5, <1>6

\* How many results are of the batch's own loop.
LEMMA OwnNat ==
  ASSUME NEW j, NEW n \in Nat
  PROVE  Dialog!Own(j, n) \in Nat
<1>1. {m \in 1 .. n : j.results[m].loop = j.id} \subseteq 1 .. n
  OBVIOUS
<1> QED BY <1>1, OneMore DEF Dialog!Own, Cardinality, Dialog!Cardinality

LEMMA OwnOfNone ==
  ASSUME NEW j
  PROVE  Dialog!Own(j, 0) = 0
<1>1. {m \in 1 .. 0 : j.results[m].loop = j.id} = {}
  OBVIOUS
<1> QED BY <1>1, FS_EmptySet DEF Dialog!Own, Cardinality, Dialog!Cardinality

LEMMA OwnLonger ==
  ASSUME NEW j, NEW k, NEW e, Longer(j, k, e)
  PROVE  /\ \A n \in 0 .. Len(j.results) : Dialog!Own(k, n) = Dialog!Own(j, n)
         /\ Dialog!Own(k, Len(j.results) + 1)
              = Dialog!Own(j, Len(j.results)) + (IF e.loop = j.id THEN 1 ELSE 0)
<1>1. /\ k.id = j.id /\ Len(j.results) \in Nat
      /\ k.results[Len(j.results) + 1] = e
      /\ \A n \in 1 .. Len(j.results) : k.results[n] = j.results[n]
  BY LongerIs
<1>2. ASSUME NEW n \in 0 .. Len(j.results) PROVE Dialog!Own(k, n) = Dialog!Own(j, n)
  <2>1. \A m \in 1 .. n : k.results[m] = j.results[m]
    BY <1>1
  <2>2. {m \in 1 .. n : k.results[m].loop = k.id} = {m \in 1 .. n : j.results[m].loop = j.id}
    BY <1>1, <2>1
  <2> QED BY <2>2 DEF Dialog!Own, Cardinality, Dialog!Cardinality
<1>3. Dialog!Own(k, Len(j.results) + 1)
        = Dialog!Own(j, Len(j.results)) + (IF e.loop = j.id THEN 1 ELSE 0)
  <2> DEFINE l == Len(j.results)
             S == {m \in 1 .. l : j.results[m].loop = j.id}
             T == {m \in 1 .. l + 1 : k.results[m].loop = k.id}
  <2> HIDE DEF l
  <2>1. l \in Nat /\ k.results[l + 1] = e /\ \A n \in 1 .. l : k.results[n] = j.results[n]
    BY <1>1 DEF l
  <2>2. S \subseteq 1 .. l
    OBVIOUS
  <2>3. IF e.loop = j.id THEN T = S \cup {l + 1} ELSE T = S
    <3>1. 1 .. l + 1 = (1 .. l) \cup {l + 1}
      BY <2>1
    <3> QED BY <1>1, <2>1, <3>1
  <2>4. l + 1 \notin S
    BY <2>1
  <2> HIDE DEF S, T
  <2>5. Cardinality(T) = Cardinality(S) + (IF e.loop = j.id THEN 1 ELSE 0)
    <3>1. T = S <=> e.loop # j.id
      BY <2>3, <2>4
    <3>2. /\ Cardinality(S) \in Nat
          /\ Cardinality(T) = IF T = S THEN Cardinality(S) ELSE Cardinality(S) + 1
      BY <2>1, <2>2, <2>3, OneMore
    <3> QED BY <3>1, <3>2
  <2> QED BY <2>5 DEF S, T, Dialog!Own, Cardinality, Dialog!Cardinality, l
<1> QED BY <1>2, <1>3

\* The results are successes or are none.
LEMMA CountsAddUp ==
  ASSUME NEW r \in Seq(Dialog!Entries)
  PROVE  /\ Dialog!Count(r, TRUE) \in Nat /\ Dialog!Count(r, FALSE) \in Nat
         /\ Dialog!Count(r, TRUE) + Dialog!Count(r, FALSE) = Len(r)
<1> DEFINE S == {n \in DOMAIN r : r[n].ok = TRUE}
           T == {n \in DOMAIN r : r[n].ok = FALSE}
<1>1. Len(r) \in Nat /\ DOMAIN r = 1 .. Len(r) /\ \A n \in 1 .. Len(r) : r[n] \in Dialog!Entries
  BY LenProperties, ElementOfSeq
<1>2. \A n \in 1 .. Len(r) : r[n].ok \in BOOLEAN
  BY <1>1 DEF Dialog!Entries
<1>3. IsFiniteSet(1 .. Len(r)) /\ Cardinality(1 .. Len(r)) = Len(r)
  <2>1. /\ IsFiniteSet(1 .. Len(r))
        /\ Cardinality(1 .. Len(r)) = IF 1 > Len(r) THEN 0 ELSE Len(r) - 1 + 1
    BY <1>1, FS_Interval, SMTT(30)
  <2> QED BY <1>1, <2>1
<1>4. S \subseteq 1 .. Len(r) /\ T \subseteq 1 .. Len(r) /\ S \cap T = {} /\ S \cup T = 1 .. Len(r)
  BY <1>1, <1>2
<1> HIDE DEF S, T
<1>5. IsFiniteSet(S) /\ IsFiniteSet(T)
  BY <1>3, <1>4, FS_Subset
<1>6. Cardinality(S \cup T) = Cardinality(S) + Cardinality(T) - Cardinality({})
  BY <1>4, <1>5, FS_Union
<1>7. Cardinality({}) = 0 /\ Cardinality(S) \in Nat /\ Cardinality(T) \in Nat
  BY <1>5, FS_EmptySet, FS_CardinalityType
<1>8. Cardinality(S \cup T) = Len(r)
  BY <1>3, <1>4
<1>9. Cardinality(S) + Cardinality(T) = Len(r)
  BY <1>6, <1>7, <1>8
<1> QED BY <1>7, <1>9 DEF S, T, Dialog!Count, Cardinality, Dialog!Cardinality

\* A batch that runs still holds what it should with a result of its own next
\* URL, or of another loop.
LEMMA HoldsLonger ==
  ASSUME NEW j, NEW k, NEW e, Longer(j, k, e), Holds(j), j.status = "running",
         IF e.loop = j.id
         THEN /\ Dialog!Own(j, Len(j.results)) < Len(j.urls)
              /\ e.url = j.urls[Dialog!Own(j, Len(j.results)) + 1]
         ELSE e.loop \in j.inherited
  PROVE  /\ Holds(k)
         /\ Dialog!Own(k, Len(k.results))
              = Dialog!Own(j, Len(j.results)) + (IF e.loop = j.id THEN 1 ELSE 0)
<1> DEFINE l == Len(j.results)
<1>1. /\ k.id = j.id /\ k.urls = j.urls /\ k.status = j.status /\ k.inherited = j.inherited
      /\ k.completed = j.completed + 1
      /\ l \in Nat /\ Len(k.results) = l + 1
      /\ k.results[l + 1] = e
      /\ \A n \in 1 .. l : k.results[n] = j.results[n]
  BY LongerIs
<1>2. /\ \A n \in 0 .. l : Dialog!Own(k, n) = Dialog!Own(j, n)
      /\ Dialog!Own(k, l + 1) = Dialog!Own(j, l) + (IF e.loop = j.id THEN 1 ELSE 0)
  BY OwnLonger
<1>3. Dialog!Own(j, l) \in Nat
  BY <1>1, OwnNat
<1>4. j.urls \in Seq(Lines)
  BY DEF Longer, Dialog!Jobs
<1>5. Len(j.urls) \in Nat
  BY <1>4, LenProperties
<1>6. /\ j.completed = l
      /\ \A n \in 1 .. l :
           IF j.results[n].loop = j.id
           THEN Dialog!Own(j, n) <= Len(j.urls) /\ j.results[n].url = j.urls[Dialog!Own(j, n)]
           ELSE j.results[n].loop \in j.inherited
  BY DEF Holds
<1>7. IF e.loop = j.id
      THEN Dialog!Own(j, l) < Len(j.urls) /\ e.url = j.urls[Dialog!Own(j, l) + 1]
      ELSE e.loop \in j.inherited
  OBVIOUS
<1> HIDE DEF l
<1>8. ASSUME NEW n \in 1 .. l + 1
      PROVE  IF k.results[n].loop = k.id
             THEN Dialog!Own(k, n) <= Len(k.urls) /\ k.results[n].url = k.urls[Dialog!Own(k, n)]
             ELSE k.results[n].loop \in k.inherited
  <2>1. CASE n = l + 1
    <3>1. CASE e.loop = j.id
      <4>1. Dialog!Own(k, n) = Dialog!Own(j, l) + 1
        BY <1>2, <2>1, <3>1
      <4>2. Dialog!Own(j, l) + 1 <= Len(j.urls)
        BY <1>3, <1>5, <1>7, <3>1
      <4> QED BY <1>1, <1>7, <2>1, <3>1, <4>1, <4>2
    <3>2. CASE e.loop # j.id
      BY <1>1, <1>7, <2>1, <3>2
    <3> QED BY <3>1, <3>2
  <2>2. CASE n # l + 1
    <3>1. n \in 1 .. l /\ n \in 0 .. l
      BY <1>1, <2>2
    <3> QED BY <1>1, <1>2, <1>6, <3>1
  <2> QED BY <2>1, <2>2
<1>9. k.completed = Len(k.results) /\ k.status # "completed"
  BY <1>1, <1>6
<1> QED BY <1>1, <1>2, <1>8, <1>9 DEF Holds, l

-----------------------------------------------------------------------------
(* The steps of the batch dialog.                                          *)

\* The job after the loop b has added what it has of its URL, if it did.
Recorded(b, k) ==
  /\ k \in Dialog!Jobs /\ k.id = job.id /\ k.urls = job.urls /\ k.status = job.status
  /\ k.inherited = job.inherited
  /\ Holds(k)
  /\ ~Dialog!Running => k = job
  /\ Dialog!Running /\ b # job.id => InStep(k, loop[job.id])
  /\ Dialog!Running /\ b = job.id =>
       Dialog!Own(k, Len(k.results)) = loop[b].i /\ k.urls = loop[b].urls

LEMMA JobIs ==
  ASSUME BatchInv, job # NoJob
  PROVE  job \in Dialog!Jobs /\ job.id \in 1 .. MaxBatches /\ Holds(job)
BY DEF BatchInv, JobOK, Dialog!Jobs

LEMMA EntryIs ==
  ASSUME NEW b \in 1 .. MaxBatches, NEW l \in Dialog!Loops, l.i \in 1 .. Len(l.urls),
         NEW ok \in BOOLEAN
  PROVE  /\ Dialog!Entry(b, l, ok) \in Dialog!Entries
         /\ Dialog!Entry(b, l, ok).url = l.urls[l.i] /\ Dialog!Entry(b, l, ok).loop = b
<1> DEFINE rate == IF ok /\ l.got > 0 THEN Dialog!Round(l.hits, l.got) ELSE 0
           tests == IF ok THEN l.got ELSE 0
<1>1. l.got \in Nat /\ l.hits \in Nat /\ l.urls \in Seq(Lines)
  BY DEF Dialog!Loops
<1>2. rate \in Int
  BY <1>1 DEF Dialog!Round
<1>3. tests \in Nat
  BY <1>1
<1>4. l.urls[l.i] \in Lines
  BY <1>1, ElementOfSeq
<1>5. Dialog!Entry(b, l, ok) =
        [url |-> l.urls[l.i], loop |-> b, ok |-> ok, tests |-> tests, rate |-> rate]
  BY DEF Dialog!Entry
<1> HIDE DEF rate, tests
<1> QED BY <1>2, <1>3, <1>4, <1>5 DEF Dialog!Entries

LEMMA RecordIs ==
  ASSUME BatchInv, NEW b \in 1 .. MaxBatches, loop[b].phase = "request",
         NEW l \in Dialog!Loops, l.urls = loop[b].urls, l.i = loop[b].i, NEW ok \in BOOLEAN
  PROVE  Recorded(b, Dialog!Record(b, l, ok))
<1>1. job # NoJob /\ (b = job.id \/ b \in job.inherited)
  BY DEF BatchInv, JobOK, Dialog!Alive
<1>2. job \in Dialog!Jobs /\ job.id \in 1 .. MaxBatches /\ Holds(job)
  BY <1>1, JobIs
<1>3. CASE ~Dialog!Running
  BY <1>2, <1>3 DEF Dialog!Record, Recorded
<1>4. CASE Dialog!Running
  <2> DEFINE k == Dialog!Record(b, l, ok)
             e == Dialog!Entry(b, l, ok)
  <2>1. InStep(job, loop[job.id])
    BY <1>4 DEF BatchInv, JobOK
  <2>2. l.i \in 1 .. Len(l.urls)
    BY DEF BatchInv, LoopOK
  <2>3. e \in Dialog!Entries /\ e.url = l.urls[l.i] /\ e.loop = b
    BY <2>2, EntryIs
  <2>4. k = [job EXCEPT !.results = Append(@, e), !.completed = @ + 1]
    BY <1>4 DEF Dialog!Record
  <2> HIDE DEF e, k
  <2>5. Longer(job, k, e)
    BY <1>2, <2>3, <2>4 DEF Longer
  <2>6. k \in Dialog!Jobs /\ k.id = job.id /\ k.urls = job.urls /\ k.status = job.status
        /\ k.inherited = job.inherited
    BY <2>5, LongerIs
  <2>7. job.status = "running"
    BY <1>4 DEF Dialog!Running
  <2>8. Len(job.results) \in Nat /\ Len(job.urls) \in Nat
    BY <1>2, LenProperties DEF Dialog!Jobs
  <2>9. Dialog!Own(job, Len(job.results)) \in Nat
    BY <2>8, OwnNat
  <2>10. CASE b = job.id
    <3>1. Dialog!Own(job, Len(job.results)) = l.i - 1 /\ l.urls = job.urls
      BY <2>1, <2>10 DEF InStep
    <3>2. /\ Dialog!Own(job, Len(job.results)) < Len(job.urls)
          /\ Dialog!Own(job, Len(job.results)) + 1 = l.i
      BY <2>2, <2>8, <3>1
    <3>3. e.url = job.urls[Dialog!Own(job, Len(job.results)) + 1] /\ e.loop = job.id
      BY <2>3, <2>10, <3>1, <3>2
    <3>4. Holds(k) /\ Dialog!Own(k, Len(k.results)) = Dialog!Own(job, Len(job.results)) + 1
      BY <1>2, <2>5, <2>7, <3>2, <3>3, HoldsLonger
    <3> QED BY <1>4, <2>6, <2>10, <3>1, <3>2, <3>4 DEF Recorded, k
  <2>11. CASE b # job.id
    <3>1. e.loop \in job.inherited /\ e.loop # job.id
      BY <1>1, <2>3, <2>11
    <3>2. Holds(k) /\ Dialog!Own(k, Len(k.results)) = Dialog!Own(job, Len(job.results)) + 0
      BY <1>2, <2>5, <2>7, <3>1, HoldsLonger
    <3>3. Dialog!Own(k, Len(k.results)) = Dialog!Own(job, Len(job.results))
      BY <2>9, <3>2
    <3>4. InStep(k, loop[job.id])
      BY <2>1, <2>6, <3>3 DEF InStep
    <3> QED BY <1>4, <2>6, <2>11, <3>2, <3>4 DEF Recorded, k
  <2> QED BY <2>10, <2>11
<1> QED BY <1>3, <1>4

\* One loop moves on.
LEMMA OneLoop ==
  ASSUME BatchInv, NEW b \in 1 .. MaxBatches, NEW l \in Dialog!Loops, LoopOK(l),
         loop' = [loop EXCEPT ![b] = l]
  PROVE  /\ loop' \in [1 .. MaxBatches -> Dialog!Loops] /\ loop'[b] = l
         /\ \A c \in 1 .. MaxBatches : LoopOK(loop'[c])
         /\ \A c \in 1 .. MaxBatches : c # b => loop'[c] = loop[c]
<1>1. loop \in [1 .. MaxBatches -> Dialog!Loops] /\ \A c \in 1 .. MaxBatches : LoopOK(loop[c])
  BY DEF BatchInv
<1>2. loop' \in [1 .. MaxBatches -> Dialog!Loops] /\ loop'[b] = l
  BY <1>1
<1>3. \A c \in 1 .. MaxBatches : c # b => loop'[c] = loop[c]
  BY <1>1
<1>4. ASSUME NEW c \in 1 .. MaxBatches PROVE LoopOK(loop'[c])
  <2>1. CASE c = b
    BY <1>2, <2>1
  <2>2. CASE c # b
    <3>1. loop'[c] = loop[c]
      BY <1>3, <2>2
    <3> QED BY <1>1, <3>1
  <2> QED BY <2>1, <2>2
<1> QED BY <1>2, <1>3, <1>4

\* The loops at rest.
LEMMA Rests ==
  ASSUME NEW l \in Dialog!Loops
  PROVE  LET p == [Dialog!Idle EXCEPT !.phase = "pause", !.urls = l.urls,
                                      !.detect = l.detect, !.i = l.i]
             e == [Dialog!Idle EXCEPT !.phase = "ended"]
         IN /\ p \in Dialog!Loops /\ p.phase = "pause" /\ p.urls = l.urls /\ p.i = l.i
            /\ l.i \in 1 .. Len(l.urls) /\ l.i < Len(l.urls) => LoopOK(p)
            /\ e \in Dialog!Loops /\ e.phase = "ended" /\ LoopOK(e)
<1>1. /\ l.urls \in Seq(Lines) /\ l.i \in Nat /\ l.detect \in BOOLEAN
  BY DEF Dialog!Loops
<1> DEFINE p == [Dialog!Idle EXCEPT !.phase = "pause", !.urls = l.urls,
                                    !.detect = l.detect, !.i = l.i]
           e == [Dialog!Idle EXCEPT !.phase = "ended"]
<1>2. Dialog!Idle \in Dialog!Loops /\ Dialog!Idle.page = 0 /\ Dialog!Idle.probes = 0
  <2>1. << >> \in Seq(Lines)
    BY EmptySeq
  <2> QED BY <2>1 DEF Dialog!Idle, Dialog!Loops
<1> HIDE DEF Dialog!Idle
<1>3. p \in Dialog!Loops /\ e \in Dialog!Loops
  BY <1>1, <1>2 DEF Dialog!Loops
<1>4. /\ p.phase = "pause" /\ p.urls = l.urls /\ p.i = l.i /\ p.page = 0 /\ p.probes = 0
      /\ e.phase = "ended" /\ e.page = 0 /\ e.probes = 0
  BY <1>2 DEF Dialog!Loops
<1> HIDE DEF p, e
<1>5. l.i \in 1 .. Len(l.urls) /\ l.i < Len(l.urls) => LoopOK(p)
  BY <1>4 DEF LoopOK
<1>6. LoopOK(e)
  BY <1>4 DEF LoopOK
<1> QED BY <1>3, <1>4, <1>5, <1>6 DEF p, e

\* The same batch, when no loop has begun.
LEMMA SameBatch ==
  ASSUME BatchInv, job # NoJob, NoJob \notin Dialog!Jobs,
         job' \in Dialog!Jobs, job'.id = job.id, job'.inherited = job.inherited,
         \A c \in 1 .. MaxBatches : Dialog!Alive(c)' => Dialog!Alive(c),
         \A c \in 1 .. MaxBatches : loop[c].phase # "off" => loop'[c].phase # "off"
  PROVE  /\ \A c \in 1 .. MaxBatches : Dialog!Alive(c)' =>
              job' # NoJob /\ (c = job'.id \/ c \in job'.inherited)
         /\ job' # NoJob /\ loop'[job'.id].phase # "off"
<1>1. job.id \in 1 .. MaxBatches /\ loop[job.id].phase # "off"
  BY JobIs DEF BatchInv, JobOK
<1>2. \A c \in 1 .. MaxBatches : Dialog!Alive(c) => c = job.id \/ c \in job.inherited
  BY DEF BatchInv, JobOK
<1> QED BY <1>1, <1>2

\* A batch that is over keeps its results.
OverKept == Dialog!Over /\ job'.id = job.id => job'.results = job.results

\* The dialog keeps the figures it shows.
LEMMA SameFigures ==
  ASSUME BatchInv, dialog.shown # NoJob, dialog'.shown = dialog.shown,
         job' # NoJob /\ job'.id = dialog.shown.job => job' = job,
         \A c \in 1 .. MaxBatches : loop[c].phase # "off" => loop'[c].phase # "off"
  PROVE  ShownOK'
<1>1. dialog.shown.job \in 1 .. MaxBatches
  BY DEF BatchInv, Dialog!Figures
<1>2. /\ loop[dialog.shown.job].phase # "off"
      /\ job # NoJob /\ dialog.shown.job = job.id =>
           /\ job.status = "completed"
           /\ dialog.shown.successful = Dialog!Count(job.results, TRUE)
           /\ dialog.shown.failed = Dialog!Count(job.results, FALSE)
  BY DEF BatchInv, ShownOK
<1> QED BY <1>1, <1>2 DEF ShownOK

LEMMA UrlIsDone ==
  ASSUME BatchInv, NoJob \notin Dialog!Jobs, NEW b \in 1 .. MaxBatches, loop[b].phase = "request",
         NEW k, Recorded(b, k), Dialog!NextUrl(b, k)
  PROVE  BatchInv' /\ OverKept
<1> DEFINE l == loop[b]
           p == [Dialog!Idle EXCEPT !.phase = "pause", !.urls = l.urls,
                                    !.detect = l.detect, !.i = l.i]
           e == [Dialog!Idle EXCEPT !.phase = "ended"]
           moved == IF l.i < Len(l.urls) /\ k.status = "running" THEN p ELSE e
<1>1. l \in Dialog!Loops /\ l.i \in 1 .. Len(l.urls) /\ Dialog!Alive(b)
  BY DEF BatchInv, LoopOK, Dialog!Alive
<1>2. /\ p \in Dialog!Loops /\ p.phase = "pause" /\ p.urls = l.urls /\ p.i = l.i
      /\ l.i < Len(l.urls) => LoopOK(p)
      /\ e \in Dialog!Loops /\ e.phase = "ended" /\ LoopOK(e)
  BY <1>1, Rests
<1>3. /\ job # NoJob /\ (b = job.id \/ b \in job.inherited)
      /\ job \in Dialog!Jobs /\ job.id \in 1 .. MaxBatches
  BY <1>1, JobIs DEF BatchInv, JobOK
<1>4. /\ k \in Dialog!Jobs /\ k.id = job.id /\ k.urls = job.urls /\ k.status = job.status
      /\ k.inherited = job.inherited /\ Holds(k)
      /\ ~Dialog!Running => k = job
      /\ Dialog!Running /\ b # job.id => InStep(k, loop[job.id])
      /\ Dialog!Running /\ b = job.id => Dialog!Own(k, Len(k.results)) = l.i /\ k.urls = l.urls
  BY DEF Recorded
<1>5. /\ loop' = [loop EXCEPT ![b] = moved]
      /\ \/ /\ l.i < Len(l.urls) /\ k.status = "running" /\ job' = k /\ UNCHANGED dialog
         \/ /\ ~(l.i < Len(l.urls)) /\ k.status = "running" /\ Dialog!Finalize(k)
         \/ /\ k.status # "running" /\ job' = k /\ UNCHANGED dialog
  BY DEF Dialog!NextUrl
<1>6. k.status = "running" <=> Dialog!Running
  BY <1>3, <1>4 DEF Dialog!Running
<1>7. moved \in Dialog!Loops /\ LoopOK(moved) /\ moved.phase \in {"pause", "ended"}
  BY <1>2
<1> HIDE DEF moved
<1>8. /\ loop' \in [1 .. MaxBatches -> Dialog!Loops] /\ loop'[b] = moved
      /\ \A c \in 1 .. MaxBatches : LoopOK(loop'[c])
      /\ \A c \in 1 .. MaxBatches : c # b => loop'[c] = loop[c]
  BY <1>5, <1>7, OneLoop
<1> HIDE DEF l, p, e
<1>9. \A c \in 1 .. MaxBatches : Dialog!Alive(c)' => Dialog!Alive(c)
  <2> SUFFICES ASSUME NEW c \in 1 .. MaxBatches, c # b, Dialog!Alive(c)' PROVE Dialog!Alive(c)
    BY <1>1
  <2> QED BY <1>8 DEF Dialog!Alive
<1>10. \A c \in 1 .. MaxBatches : loop[c].phase # "off" => loop'[c].phase # "off"
  <2> TAKE c \in 1 .. MaxBatches
  <2>1. CASE c = b
    BY <1>7, <1>8, <2>1
  <2>2. CASE c # b
    BY <1>8, <2>2
  <2> QED BY <2>1, <2>2
<1>11. job' = k \/ job' = [k EXCEPT !.status = "completed"]
  BY <1>5 DEF Dialog!Finalize
<1>12. /\ job' \in Dialog!Jobs /\ job'.id = job.id /\ job'.inherited = job.inherited
       /\ job'.results = k.results /\ job'.urls = k.urls
  BY <1>4, <1>11 DEF Dialog!Jobs
<1>13. /\ \A c \in 1 .. MaxBatches : Dialog!Alive(c)' =>
            job' # NoJob /\ (c = job'.id \/ c \in job'.inherited)
       /\ job' # NoJob /\ loop'[job'.id].phase # "off"
  BY <1>3, <1>9, <1>10, <1>12, SameBatch
<1>14. /\ dialog \in [start : BOOLEAN, stop : BOOLEAN, export : BOOLEAN, percent : Int,
                      shown : Dialog!Figures \cup {NoJob}]
       /\ dialog.stop => Dialog!Running
  BY DEF BatchInv, JobOK
<1>15. OverKept
  <2>1. Dialog!Over => k = job
    BY <1>4 DEF Dialog!Over, Dialog!Running
  <2> QED BY <1>12, <2>1 DEF OverKept
<1>16. CASE l.i < Len(l.urls) /\ k.status = "running" /\ job' = k /\ UNCHANGED dialog
  <2>1. loop'[b] = p
    BY <1>8, <1>16 DEF moved
  <2>2. Dialog!Running'
    BY <1>13, <1>16 DEF Dialog!Running
  <2>3. InStep(job', loop'[job'.id])
    <3>1. CASE b = job.id
      BY <1>2, <1>4, <1>6, <1>16, <2>1, <3>1 DEF InStep
    <3>2. CASE b # job.id
      BY <1>3, <1>4, <1>6, <1>8, <1>16, <3>2
    <3> QED BY <3>1, <3>2
  <2>4. JobOK'
    BY <1>4, <1>13, <1>16, <2>2, <2>3 DEF JobOK
  <2>5. ShownOK'
    <3>1. dialog.shown # NoJob => dialog.shown.job # job.id
      BY <1>3, <1>6, <1>16 DEF BatchInv, ShownOK, Dialog!Running
    <3>2. CASE dialog.shown # NoJob
      BY <1>10, <1>12, <1>16, <3>1, <3>2, SameFigures
    <3>3. CASE dialog.shown = NoJob
      BY <1>16, <3>3 DEF ShownOK
    <3> QED BY <3>2, <3>3
  <2> QED BY <1>8, <1>12, <1>14, <1>15, <1>16, <2>4, <2>5 DEF BatchInv
<1>17. CASE ~(l.i < Len(l.urls)) /\ k.status = "running" /\ Dialog!Finalize(k)
  <2>1. job' = [k EXCEPT !.status = "completed"]
    BY <1>17 DEF Dialog!Finalize
  <2>2. job'.status = "completed" /\ job'.completed = k.completed
    BY <1>4, <2>1 DEF Dialog!Jobs
  <2>3. \A n : Dialog!Own(job', n) = Dialog!Own(k, n)
    BY <1>4, <1>12 DEF Dialog!Own, Cardinality, Dialog!Cardinality
  <2>4. job'.inherited = {} => Dialog!Own(job', Len(job'.results)) = Len(job'.urls)
    <3> SUFFICES ASSUME job'.inherited = {} PROVE Dialog!Own(k, Len(k.results)) = Len(k.urls)
      BY <1>12, <2>3
    <3>1. b = job.id
      BY <1>3, <1>12
    <3>2. Dialog!Own(k, Len(k.results)) = l.i /\ k.urls = l.urls
      BY <1>4, <1>6, <1>17, <3>1
    <3>3. Len(l.urls) \in Nat
      BY <1>1, LenProperties DEF Dialog!Loops
    <3> QED BY <1>1, <1>17, <3>2, <3>3
  <2>5. Holds(job')
    <3>1. /\ k.completed = Len(k.results)
          /\ \A n \in 1 .. Len(k.results) :
               IF k.results[n].loop = k.id
               THEN Dialog!Own(k, n) <= Len(k.urls) /\ k.results[n].url = k.urls[Dialog!Own(k, n)]
               ELSE k.results[n].loop \in k.inherited
      BY <1>4 DEF Holds
    <3> QED BY <1>4, <1>12, <2>2, <2>3, <2>4, <3>1 DEF Holds
  <2> DEFINE figures == [job |-> k.id, total |-> Len(k.urls),
                         successful |-> Dialog!Count(k.results, TRUE),
                         failed |-> Dialog!Count(k.results, FALSE)]
  <2>6. dialog' = [dialog EXCEPT !.start = TRUE, !.stop = FALSE, !.export = TRUE, !.percent = 100,
                                 !.shown = figures]
    BY <1>17 DEF Dialog!Finalize
  <2>7. figures \in Dialog!Figures
    <3>1. k.results \in Seq(Dialog!Entries) /\ k.urls \in Seq(Lines) /\ k.id \in 1 .. MaxBatches
      BY <1>4 DEF Dialog!Jobs
    <3>2. /\ Len(k.urls) \in Nat /\ Dialog!Count(k.results, TRUE) \in Nat
          /\ Dialog!Count(k.results, FALSE) \in Nat
      BY <3>1, LenProperties, CountsAddUp
    <3> QED BY <3>1, <3>2 DEF Dialog!Figures
  <2>8. /\ figures.job = k.id /\ figures.successful = Dialog!Count(k.results, TRUE)
        /\ figures.failed = Dialog!Count(k.results, FALSE)
    OBVIOUS
  <2> HIDE DEF figures
  <2>9. /\ dialog' \in [start : BOOLEAN, stop : BOOLEAN, export : BOOLEAN, percent : Int,
                        shown : Dialog!Figures \cup {NoJob}]
        /\ dialog'.stop = FALSE /\ dialog'.shown = figures
    <3>1. figures \in Dialog!Figures \cup {NoJob}
      BY <2>7
    <3> HIDE DEF Dialog!Figures
    <3>2. dialog' = [start |-> TRUE, stop |-> FALSE, export |-> TRUE, percent |-> 100,
                     shown |-> figures]
      BY <1>14, <2>6
    <3> QED BY <3>1, <3>2
  <2>10. ~Dialog!Running'
    BY <2>2 DEF Dialog!Running
  <2>11. JobOK'
    BY <1>13, <2>5, <2>9, <2>10 DEF JobOK
  <2>12. ShownOK'
    BY <1>4, <1>12, <1>13, <2>2, <2>8, <2>9 DEF ShownOK
  <2> QED BY <1>8, <1>12, <1>15, <2>9, <2>11, <2>12 DEF BatchInv
<1>18. CASE k.status # "running" /\ job' = k /\ UNCHANGED dialog
  <2>1. job' = job /\ ~Dialog!Running
    BY <1>4, <1>6, <1>18
  <2>2. ~Dialog!Running'
    BY <2>1 DEF Dialog!Running
  <2>3. JobOK'
    BY <1>4, <1>13, <1>14, <1>18, <2>1, <2>2 DEF JobOK
  <2>4. ShownOK'
    <3>1. CASE dialog.shown # NoJob
      BY <1>10, <1>18, <2>1, <3>1, SameFigures
    <3>2. CASE dialog.shown = NoJob
      BY <1>18, <3>2 DEF ShownOK
    <3> QED BY <3>1, <3>2
  <2> QED BY <1>8, <1>12, <1>14, <1>15, <1>18, <2>3, <2>4 DEF BatchInv
<1> QED BY <1>5, <1>16, <1>17, <1>18

LEMMA ModalShown ==
  ASSUME BatchInv, Dialog!ShowBatchModal
  PROVE  BatchInv' /\ OverKept
<1>1. /\ dialog \in [start : BOOLEAN, stop : BOOLEAN, export : BOOLEAN, percent : Int,
                     shown : Dialog!Figures \cup {NoJob}]
      /\ job' = job /\ loop' = loop
      /\ dialog' = [dialog EXCEPT !.start = TRUE, !.stop = FALSE, !.export = FALSE,
                                  !.shown = NoJob]
  BY DEF BatchInv, Dialog!ShowBatchModal
<1> HIDE DEF Dialog!Figures
<1>2. dialog' = [start |-> TRUE, stop |-> FALSE, export |-> FALSE, percent |-> dialog.percent,
                 shown |-> NoJob]
  BY <1>1
<1>3. /\ dialog' \in [start : BOOLEAN, stop : BOOLEAN, export : BOOLEAN, percent : Int,
                      shown : Dialog!Figures \cup {NoJob}]
      /\ dialog'.stop = FALSE /\ dialog'.shown = NoJob
  BY <1>1, <1>2
<1>4. JobOK'
  BY <1>1, <1>3 DEF BatchInv, JobOK, Dialog!Running, Dialog!Alive
<1>5. ShownOK'
  BY <1>3 DEF ShownOK
<1> QED BY <1>1, <1>3, <1>4, <1>5 DEF BatchInv, OverKept

LEMMA BatchStops ==
  ASSUME BatchInv, NoJob \notin Dialog!Jobs, Dialog!StopBatch
  PROVE  BatchInv' /\ OverKept
<1>1. /\ dialog \in [start : BOOLEAN, stop : BOOLEAN, export : BOOLEAN, percent : Int,
                     shown : Dialog!Figures \cup {NoJob}]
      /\ job # NoJob /\ dialog.stop /\ loop' = loop
      /\ job' = [job EXCEPT !.status = "stopped"]
      /\ dialog' = [dialog EXCEPT !.start = TRUE, !.stop = FALSE]
  BY DEF BatchInv, Dialog!StopBatch
<1>2. job.status = "running"
  BY <1>1 DEF BatchInv, JobOK, Dialog!Running
<1>3. job \in Dialog!Jobs /\ Holds(job)
  BY <1>1, JobIs
<1>4. /\ job' \in Dialog!Jobs /\ job'.id = job.id /\ job'.inherited = job.inherited
      /\ job'.results = job.results /\ job'.urls = job.urls /\ job'.status = "stopped"
      /\ job'.completed = job.completed
  BY <1>1, <1>3 DEF Dialog!Jobs
<1>5. \A n : Dialog!Own(job', n) = Dialog!Own(job, n)
  BY <1>4 DEF Dialog!Own, Cardinality, Dialog!Cardinality
<1>6. Holds(job')
  BY <1>3, <1>4, <1>5 DEF Holds
<1>7. /\ \A c \in 1 .. MaxBatches : Dialog!Alive(c)' =>
           job' # NoJob /\ (c = job'.id \/ c \in job'.inherited)
      /\ job' # NoJob /\ loop'[job'.id].phase # "off"
  <2>1. \A c \in 1 .. MaxBatches : Dialog!Alive(c)' => Dialog!Alive(c)
    BY <1>1 DEF Dialog!Alive
  <2>2. \A c \in 1 .. MaxBatches : loop[c].phase # "off" => loop'[c].phase # "off"
    BY <1>1
  <2> QED BY <1>1, <1>4, <2>1, <2>2, SameBatch
<1> HIDE DEF Dialog!Figures
<1>8. dialog' = [start |-> TRUE, stop |-> FALSE, export |-> dialog.export,
                 percent |-> dialog.percent, shown |-> dialog.shown]
  BY <1>1
<1>9. /\ dialog' \in [start : BOOLEAN, stop : BOOLEAN, export : BOOLEAN, percent : Int,
                      shown : Dialog!Figures \cup {NoJob}]
      /\ dialog'.stop = FALSE /\ dialog'.shown = dialog.shown
  BY <1>1, <1>8
<1>10. ~Dialog!Running'
  BY <1>4 DEF Dialog!Running
<1>11. JobOK'
  BY <1>6, <1>7, <1>9, <1>10 DEF JobOK
<1>12. ShownOK'
  <2>1. CASE dialog.shown # NoJob
    <3>1. dialog.shown.job # job.id
      BY <1>1, <1>2, <2>1 DEF BatchInv, ShownOK
    <3> QED BY <1>1, <1>4, <1>9, <2>1, <3>1, SameFigures
  <2>2. CASE dialog.shown = NoJob
    BY <1>9, <2>2 DEF ShownOK
  <2> QED BY <2>1, <2>2
<1> QED BY <1>1, <1>4, <1>9, <1>11, <1>12 DEF BatchInv, OverKept

\* A request for the next URL, or for the next page of one.
LEMMA UrlIsRequested ==
  ASSUME NEW l \in Dialog!Loops, NEW i \in 1 .. Len(l.urls)
  PROVE  /\ Dialog!Request(l, i) \in Dialog!Loops /\ LoopOK(Dialog!Request(l, i))
         /\ Dialog!Request(l, i).phase = "request" /\ Dialog!Request(l, i).i = i
         /\ Dialog!Request(l, i).urls = l.urls
<1>1. i \in Nat
  <2>1. Len(l.urls) \in Nat
    BY LenProperties DEF Dialog!Loops
  <2> QED BY <2>1
<1> DEFINE r == Dialog!Request(l, i)
<1>2. /\ r.phase = "request" /\ r.i = i /\ r.urls = l.urls /\ r.page = 0 /\ r.got = 0
      /\ r.hits = 0 /\ r.detect = l.detect /\ r.ask = l.detect /\ r.known = FALSE
      /\ r.probes = IF l.detect THEN 1 ELSE 0
  BY <1>1 DEF Dialog!Request, Dialog!Loops
<1>3. r \in Dialog!Loops
  BY <1>1 DEF Dialog!Request, Dialog!Loops
<1> HIDE DEF r
<1>4. LoopOK(r)
  BY <1>2 DEF LoopOK
<1> QED BY <1>2, <1>3, <1>4 DEF r

LEMMA PageIsRequested ==
  ASSUME NEW l \in Dialog!Loops, LoopOK(l), l.phase = "request",
         NEW hit \in BOOLEAN, NEW found \in BOOLEAN
  PROVE  LET r == Dialog!NextPage(l, hit, found)
         IN r \in Dialog!Loops /\ LoopOK(r) /\ r.phase = l.phase /\ r.i = l.i /\ r.urls = l.urls
<1> DEFINE first == l.page = 0 /\ l.ask
           ask   == IF first /\ ~found THEN FALSE ELSE l.ask
           knows == l.known \/ (first /\ found)
           hits  == l.hits + (IF hit THEN 1 ELSE 0)
           probes == l.probes + (IF ask /\ ~knows THEN 1 ELSE 0)
           r     == Dialog!NextPage(l, hit, found)
<1>1. /\ l.page \in Nat /\ l.got \in Nat /\ l.hits \in Nat /\ l.probes \in Nat
      /\ l.ask \in BOOLEAN /\ l.known \in BOOLEAN
  BY DEF Dialog!Loops
<1>2. r = [l EXCEPT !.page = l.page + 1, !.got = l.got + 1, !.hits = hits, !.ask = ask,
                    !.known = knows, !.probes = probes]
  BY DEF Dialog!NextPage
<1>3. ask \in BOOLEAN /\ knows \in BOOLEAN /\ hits \in Nat /\ probes \in Nat
  <2>1. ask \in BOOLEAN
    BY <1>1
  <2>2. knows \in BOOLEAN
    OBVIOUS
  <2>3. hits \in Nat
    BY <1>1
  <2> HIDE DEF ask, knows
  <2>4. probes \in Nat
    BY <1>1
  <2> QED BY <2>1, <2>2, <2>3, <2>4
<1>4. (ask => knows) /\ probes <= 1
  BY <1>1 DEF LoopOK
<1> HIDE DEF first, ask, knows, hits, probes, r
<1>5. r \in Dialog!Loops
  <2>1. l.page + 1 \in Nat /\ l.got + 1 \in Nat
    BY <1>1
  <2>2. r = [phase |-> l.phase, urls |-> l.urls, i |-> l.i, page |-> l.page + 1,
             got |-> l.got + 1, hits |-> hits, detect |-> l.detect, ask |-> ask,
             known |-> knows, probes |-> probes]
    BY <1>2 DEF Dialog!Loops
  <2>3. /\ l.phase \in {"off", "request", "pause", "ended"} /\ l.urls \in Seq(Lines)
        /\ l.i \in Nat /\ l.detect \in BOOLEAN
    BY DEF Dialog!Loops
  <2> QED BY <1>3, <2>1, <2>2, <2>3 DEF Dialog!Loops
<1>6. /\ r.phase = l.phase /\ r.i = l.i /\ r.urls = l.urls /\ r.ask = ask /\ r.known = knows
      /\ r.probes = probes
  BY <1>2 DEF Dialog!Loops
<1>7. LoopOK(r)
  BY <1>4, <1>6 DEF LoopOK
<1> QED BY <1>5, <1>6, <1>7 DEF r

\* Where the dialog and the job stay as they are and one loop moves.
LEMMA LoopMoves ==
  ASSUME BatchInv, NoJob \notin Dialog!Jobs, NEW b \in 1 .. MaxBatches, Dialog!Alive(b),
         NEW l \in Dialog!Loops, LoopOK(l), l.phase # "off",
         loop' = [loop EXCEPT ![b] = l], UNCHANGED job,
         dialog' \in [start : BOOLEAN, stop : BOOLEAN, export : BOOLEAN, percent : Int,
                      shown : Dialog!Figures \cup {NoJob}],
         dialog'.stop = dialog.stop, dialog'.shown = dialog.shown,
         Dialog!Running /\ b = job.id => InStep(job, l)
  PROVE  BatchInv' /\ OverKept
<1>1. /\ loop' \in [1 .. MaxBatches -> Dialog!Loops] /\ loop'[b] = l
      /\ \A c \in 1 .. MaxBatches : LoopOK(loop'[c])
      /\ \A c \in 1 .. MaxBatches : c # b => loop'[c] = loop[c]
  BY OneLoop
<1>2. job # NoJob /\ job' = job
  BY DEF BatchInv, JobOK
<1>3. job \in Dialog!Jobs /\ Holds(job) /\ job.id \in 1 .. MaxBatches
  BY <1>2, JobIs
<1>4. \A c \in 1 .. MaxBatches : Dialog!Alive(c)' => Dialog!Alive(c)
  BY <1>1 DEF Dialog!Alive
<1>5. \A c \in 1 .. MaxBatches : loop[c].phase # "off" => loop'[c].phase # "off"
  BY <1>1
<1>6. /\ \A c \in 1 .. MaxBatches : Dialog!Alive(c)' =>
           job' # NoJob /\ (c = job'.id \/ c \in job'.inherited)
      /\ job' # NoJob /\ loop'[job'.id].phase # "off"
  BY <1>2, <1>3, <1>4, <1>5, SameBatch
<1>7. /\ Dialog!Running' <=> Dialog!Running
      /\ dialog.stop => Dialog!Running
      /\ Dialog!Running => InStep(job, loop[job.id])
  BY <1>2 DEF Dialog!Running, BatchInv, JobOK
<1>8. Dialog!Running => InStep(job, loop'[job.id])
  BY <1>1, <1>3, <1>7
<1>9. JobOK'
  BY <1>2, <1>3, <1>6, <1>7, <1>8 DEF JobOK
<1>10. ShownOK'
  <2>1. CASE dialog.shown # NoJob
    BY <1>2, <1>5, <2>1, SameFigures
  <2>2. CASE dialog.shown = NoJob
    BY <2>2 DEF ShownOK
  <2> QED BY <2>1, <2>2
<1> QED BY <1>1, <1>2, <1>3, <1>9, <1>10 DEF BatchInv, OverKept

LEMMA DialogIs ==
  ASSUME BatchInv
  PROVE  /\ dialog \in [start : BOOLEAN, stop : BOOLEAN, export : BOOLEAN, percent : Int,
                        shown : Dialog!Figures \cup {NoJob}]
         /\ \A b \in 1 .. MaxBatches : loop[b] \in Dialog!Loops /\ LoopOK(loop[b])
         /\ Dialog!Running => InStep(job, loop[job.id])
BY DEF BatchInv, JobOK

LEMMA LoopWakes ==
  ASSUME BatchInv, NoJob \notin Dialog!Jobs, NEW b \in 1 .. MaxBatches, Dialog!Wake(b)
  PROVE  BatchInv' /\ OverKept
<1>1. loop[b].phase = "pause" /\ Dialog!Alive(b) /\ job' = job
  BY DEF Dialog!Wake, Dialog!Alive
<1>2. loop[b] \in Dialog!Loops /\ LoopOK(loop[b])
  BY DialogIs
<1>3. CASE Dialog!Running
  <2> DEFINE l == Dialog!Request(loop[b], loop[b].i + 1)
             percent == Dialog!Round(loop[b].i, Len(loop[b].urls))
  <2>1. loop' = [loop EXCEPT ![b] = l] /\ dialog' = [dialog EXCEPT !.percent = percent]
    BY <1>2, <1>3, DialogIs DEF Dialog!Wake, BatchInv
  <2>2. loop[b].i \in 1 .. Len(loop[b].urls) /\ loop[b].i < Len(loop[b].urls)
    BY <1>1, <1>2 DEF LoopOK
  <2>3. Len(loop[b].urls) \in Nat
    BY <1>2, LenProperties DEF Dialog!Loops
  <2>4. loop[b].i + 1 \in 1 .. Len(loop[b].urls)
    BY <2>2, <2>3
  <2>5. /\ l \in Dialog!Loops /\ LoopOK(l)
        /\ l.phase = "request" /\ l.i = loop[b].i + 1 /\ l.urls = loop[b].urls
    BY <1>2, <2>4, UrlIsRequested
  <2>6. percent \in Int
    BY <2>2, <2>3 DEF Dialog!Round
  <2> HIDE DEF l, percent, Dialog!Figures
  <2>7. dialog' = [start |-> dialog.start, stop |-> dialog.stop, export |-> dialog.export,
                   percent |-> percent, shown |-> dialog.shown]
    BY <2>1, DialogIs
  <2>8. /\ dialog' \in [start : BOOLEAN, stop : BOOLEAN, export : BOOLEAN, percent : Int,
                        shown : Dialog!Figures \cup {NoJob}]
        /\ dialog'.stop = dialog.stop /\ dialog'.shown = dialog.shown
    BY <2>6, <2>7, DialogIs
  <2>9. b = job.id => InStep(job, l)
    <3> SUFFICES ASSUME b = job.id PROVE InStep(job, l)
      OBVIOUS
    <3>1. /\ loop[b].urls = job.urls
          /\ Dialog!Own(job, Len(job.results)) = loop[b].i
      BY <1>1, <1>3, DialogIs DEF InStep
    <3>2. l.i - 1 = loop[b].i
      BY <2>2, <2>5
    <3> QED BY <2>5, <3>1, <3>2 DEF InStep
  <2> QED BY <1>1, <1>2, <2>1, <2>5, <2>8, <2>9, LoopMoves
<1>4. CASE ~Dialog!Running
  <2> DEFINE e == [Dialog!Idle EXCEPT !.phase = "ended"]
  <2>1. loop' = [loop EXCEPT ![b] = e] /\ dialog' = dialog
    BY <1>4 DEF Dialog!Wake
  <2>2. e \in Dialog!Loops /\ e.phase = "ended" /\ LoopOK(e)
    BY <1>2, Rests
  <2> HIDE DEF e
  <2> QED BY <1>1, <1>4, <2>1, <2>2, DialogIs, LoopMoves
<1> QED BY <1>3, <1>4

LEMMA PageIsAnswered ==
  ASSUME BatchInv, NoJob \notin Dialog!Jobs, NEW b \in 1 .. MaxBatches,
         NEW hit \in BOOLEAN, NEW found \in BOOLEAN, Dialog!PageAnswered(b, hit, found)
  PROVE  BatchInv' /\ OverKept
<1> DEFINE l == Dialog!NextPage(loop[b], hit, found)
<1>1. /\ loop[b].phase = "request"
      /\ IF l.got > MaxItems
         THEN Dialog!NextUrl(b, Dialog!Record(b, l, TRUE))
         ELSE loop' = [loop EXCEPT ![b] = l] /\ UNCHANGED <<job, dialog>>
  BY DEF Dialog!PageAnswered
<1>2. loop[b] \in Dialog!Loops /\ LoopOK(loop[b])
  BY DialogIs
<1>3. /\ l \in Dialog!Loops /\ LoopOK(l) /\ l.phase = loop[b].phase /\ l.i = loop[b].i
      /\ l.urls = loop[b].urls
  BY <1>1, <1>2, PageIsRequested
<1> HIDE DEF l
<1>4. CASE l.got > MaxItems
  <2>1. Recorded(b, Dialog!Record(b, l, TRUE))
    BY <1>1, <1>3, RecordIs
  <2> QED BY <1>1, <1>4, <2>1, UrlIsDone
<1>5. CASE ~(l.got > MaxItems)
  <2>1. Dialog!Running /\ b = job.id => InStep(job, l)
    BY <1>1, <1>3, DialogIs DEF InStep
  <2>2. Dialog!Alive(b)
    BY <1>1 DEF Dialog!Alive
  <2> QED BY <1>1, <1>3, <1>5, <2>1, <2>2, DialogIs, LoopMoves
<1> QED BY <1>4, <1>5

LEMMA BatchStarts ==
  ASSUME BatchInv, NoJob \notin Dialog!Jobs, NEW b \in 1 .. MaxBatches,
         NEW text \in Seq(Lines), NEW detect \in BOOLEAN, Dialog!StartBatch(b, text, detect)
  PROVE  BatchInv' /\ OverKept
<1> DEFINE urls == Dialog!ValidUrls(text)
           fresh == [Dialog!Idle EXCEPT !.urls = urls, !.detect = detect]
           l == Dialog!Request(fresh, 1)
           inherited == {c \in 1 .. MaxBatches : Dialog!Alive(c)}
<1>1. /\ loop[b].phase = "off" /\ Len(urls) \in 1 .. MaxUrls
      /\ job' = [id |-> b, urls |-> urls, results |-> << >>, completed |-> 0,
                 status |-> "running", inherited |-> inherited]
      /\ loop' = [loop EXCEPT ![b] = l]
      /\ dialog' = [dialog EXCEPT !.start = FALSE, !.stop = TRUE, !.percent = 0]
  BY DEF Dialog!StartBatch
<1>2. urls \in Seq(Lines)
  BY KeepIs DEF Dialog!ValidUrls, Keep, Dialog!Keep
<1> HIDE DEF urls
<1>3. Len(urls) \in Nat /\ 1 \in 1 .. Len(urls)
  BY <1>1, <1>2, LenProperties
<1>4. fresh \in Dialog!Loops /\ fresh.urls = urls
  <2>1. Dialog!Idle \in Dialog!Loops
    <3>1. << >> \in Seq(Lines)
      BY EmptySeq
    <3> QED BY <3>1 DEF Dialog!Idle, Dialog!Loops
  <2> HIDE DEF Dialog!Idle
  <2> QED BY <1>2, <2>1 DEF Dialog!Loops
<1> HIDE DEF fresh
<1>5. l \in Dialog!Loops /\ LoopOK(l) /\ l.phase = "request" /\ l.i = 1 /\ l.urls = urls
  BY <1>3, <1>4, UrlIsRequested
<1> HIDE DEF l
<1>6. /\ loop' \in [1 .. MaxBatches -> Dialog!Loops] /\ loop'[b] = l
      /\ \A c \in 1 .. MaxBatches : LoopOK(loop'[c])
      /\ \A c \in 1 .. MaxBatches : c # b => loop'[c] = loop[c]
  BY <1>1, <1>5, OneLoop
<1>7. /\ inherited \in SUBSET (1 .. MaxBatches)
      /\ \A c \in 1 .. MaxBatches : Dialog!Alive(c) => c \in inherited
  OBVIOUS
<1> HIDE DEF inherited
<1>8. job' \in Dialog!Jobs /\ job'.id = b /\ job'.urls = urls /\ job'.results = << >>
      /\ job'.completed = 0 /\ job'.status = "running" /\ job'.inherited = inherited
  <2>1. << >> \in Seq(Dialog!Entries)
    BY EmptySeq
  <2> QED BY <1>1, <1>2, <1>7, <2>1 DEF Dialog!Jobs
<1>9. job' # NoJob
  BY <1>8
<1>10. \A c \in 1 .. MaxBatches : Dialog!Alive(c)' => c = b \/ Dialog!Alive(c)
  BY <1>6 DEF Dialog!Alive
<1>11. \A c \in 1 .. MaxBatches : loop[c].phase # "off" => loop'[c].phase # "off" /\ c # b
  BY <1>1, <1>6
<1> HIDE DEF Dialog!Figures
<1>12. dialog' = [start |-> FALSE, stop |-> TRUE, export |-> dialog.export, percent |-> 0,
                  shown |-> dialog.shown]
  BY <1>1, DialogIs
<1>13. /\ dialog' \in [start : BOOLEAN, stop : BOOLEAN, export : BOOLEAN, percent : Int,
                       shown : Dialog!Figures \cup {NoJob}]
       /\ dialog'.shown = dialog.shown
  BY <1>12, DialogIs
<1>14. Len(job'.results) = 0 /\ Dialog!Own(job', 0) = 0
  BY <1>8, EmptySeq, OwnOfNone
<1>15. Holds(job')
  BY <1>8, <1>14 DEF Holds
<1>16. Dialog!Running' /\ InStep(job', loop'[job'.id])
  BY <1>5, <1>6, <1>8, <1>9, <1>14 DEF Dialog!Running, InStep
<1>17. JobOK'
  BY <1>5, <1>6, <1>7, <1>8, <1>9, <1>10, <1>15, <1>16 DEF JobOK
<1>18. ShownOK'
  <2>1. CASE dialog.shown # NoJob
    <3>1. loop[dialog.shown.job].phase # "off" /\ dialog.shown.job \in 1 .. MaxBatches
      BY <2>1, DialogIs DEF BatchInv, ShownOK, Dialog!Figures
    <3> QED BY <1>8, <1>11, <1>13, <2>1, <3>1, SameFigures
  <2>2. CASE dialog.shown = NoJob
    BY <1>13, <2>2 DEF ShownOK
  <2> QED BY <2>1, <2>2
<1>19. OverKept
  <2>1. job # NoJob => loop[job.id].phase # "off"
    BY DEF BatchInv, JobOK
  <2> QED BY <1>1, <1>8, <2>1 DEF OverKept, Dialog!Over
<1> QED BY <1>6, <1>8, <1>13, <1>17, <1>18, <1>19 DEF BatchInv

LEMMA BatchKeeps ==
  ASSUME Dialog!Inputs, BatchInv, Dialog!BatchNext \/ UNCHANGED Dialog!batchVars
  PROVE  BatchInv' /\ OverKept
<1>1. NoJob \notin Dialog!Jobs /\ Texts \subseteq [text : Seq(Lines), detect : BOOLEAN]
  BY DEF Dialog!Inputs
<1>2. CASE UNCHANGED Dialog!batchVars
  BY <1>2 DEF Dialog!batchVars, BatchInv, JobOK, ShownOK, Dialog!Running, Dialog!Alive, OverKept
<1>3. CASE Dialog!ShowBatchModal
  BY <1>3, ModalShown
<1>4. ASSUME NEW b \in 1 .. MaxBatches, NEW in \in Texts, Dialog!StartBatch(b, in.text, in.detect)
      PROVE  BatchInv' /\ OverKept
  <2>1. in.text \in Seq(Lines) /\ in.detect \in BOOLEAN
    BY <1>1
  <2> QED BY <1>1, <1>4, <2>1, BatchStarts
<1>5. CASE Dialog!StopBatch
  BY <1>1, <1>5, BatchStops
<1>6. ASSUME NEW b \in 1 .. MaxBatches, Dialog!Wake(b) PROVE BatchInv' /\ OverKept
  BY <1>1, <1>6, LoopWakes
<1>7. ASSUME NEW b \in 1 .. MaxBatches, NEW hit \in BOOLEAN, NEW found \in BOOLEAN,
             Dialog!PageAnswered(b, hit, found)
      PROVE  BatchInv' /\ OverKept
  BY <1>1, <1>7, PageIsAnswered
<1>8. ASSUME NEW b \in 1 .. MaxBatches, NEW ok \in BOOLEAN, Dialog!UrlEnds(b, ok)
      PROVE  BatchInv' /\ OverKept
  <2>1. loop[b].phase = "request" /\ Dialog!NextUrl(b, Dialog!Record(b, loop[b], ok))
    BY <1>8 DEF Dialog!UrlEnds
  <2>2. Recorded(b, Dialog!Record(b, loop[b], ok))
    BY <2>1, DialogIs, RecordIs
  <2> QED BY <1>1, <2>1, <2>2, UrlIsDone
<1>10. ASSUME NEW b \in 1 .. MaxBatches, Dialog!Told(b) PROVE BatchInv' /\ OverKept
  BY <1>7, <1>8, <1>10 DEF Dialog!Told
<1>11. ASSUME Dialog!BatchNext PROVE BatchInv' /\ OverKept
  BY <1>3, <1>4, <1>5, <1>6, <1>10, <1>11 DEF Dialog!BatchNext
<1> QED BY <1>2, <1>11

-----------------------------------------------------------------------------
(* The monitoring form.                                                    *)

\* The form's fields, and how many requests it may have out.
Forms == [button : BOOLEAN, email : BOOLEAN, openings : Nat, sent : Nat,
          alert : {"none", "missing", "dispatched", "external", "failed", "unreachable"}]

LEMMA SendsAreFinite ==
  ASSUME MaxSends \in Nat, FormInv
  PROVE  IsFiniteSet(sends) /\ Cardinality(sends) \in Nat
<1>1. IsFiniteSet(1 .. MaxSends)
  BY FS_Interval
<1>2. IsFiniteSet(sends)
  BY <1>1, FS_Subset DEF FormInv
<1> QED BY <1>2, FS_CardinalityType

LEMMA FormKeeps ==
  ASSUME Dialog!Inputs, FormInv, Dialog!FormNext \/ UNCHANGED Dialog!formVars
  PROVE  FormInv'
<1>1. MaxSends \in Nat
  BY DEF Dialog!Inputs
<1>2. IsFiniteSet(sends) /\ Cardinality(sends) \in Nat
  BY <1>1, SendsAreFinite
<1>3. /\ form \in Forms /\ sends \subseteq 1 .. MaxSends
      /\ Cardinality(sends) + (IF form.button /\ form.openings > 0 THEN 1 ELSE 0) <= form.openings
      /\ sends = {} /\ form.openings > 0 => form.button
  BY DEF FormInv, FormOK, Forms
<1>4. form.openings \in Nat /\ form.sent \in Nat /\ form.button \in BOOLEAN
  BY <1>3 DEF Forms
<1>5. Cardinality(sends) <= form.openings
  BY <1>2, <1>3, <1>4
<1>6. CASE UNCHANGED Dialog!formVars
  BY <1>6 DEF Dialog!formVars, FormInv, FormOK
<1>7. CASE Dialog!ShowScheduleModal
  <2>1. /\ form' = [form EXCEPT !.button = TRUE, !.alert = "none", !.openings = @ + 1]
        /\ sends' = sends
    BY <1>7 DEF Dialog!ShowScheduleModal
  <2>2. form' \in Forms /\ form'.button = TRUE /\ form'.openings = form.openings + 1
    <3>1. form' = [button |-> TRUE, email |-> form.email, openings |-> form.openings + 1,
                   sent |-> form.sent, alert |-> "none"]
      BY <1>3, <2>1 DEF Forms
    <3>2. form.email \in BOOLEAN /\ form.openings + 1 \in Nat
      BY <1>3 DEF Forms
    <3> QED BY <1>4, <3>1, <3>2 DEF Forms
  <2>3. FormOK'
    BY <1>2, <1>4, <1>5, <2>1, <2>2 DEF FormOK
  <2> QED BY <1>3, <2>1, <2>2, <2>3 DEF FormInv, Forms
<1>8. CASE Dialog!EnterEmail
  <2>1. form' = [form EXCEPT !.email = TRUE] /\ sends' = sends
    BY <1>8 DEF Dialog!EnterEmail
  <2>2. form' \in Forms /\ form'.button = form.button /\ form'.openings = form.openings
    BY <1>3, <2>1 DEF Forms
  <2>3. FormOK'
    BY <1>3, <2>1, <2>2 DEF FormOK
  <2> QED BY <1>3, <2>1, <2>2, <2>3 DEF FormInv, Forms
<1>9. CASE Dialog!Submit
  <2>1. form.openings > 0 /\ form.button
    BY <1>9 DEF Dialog!Submit
  <2>2. CASE form.email
    <3>1. /\ form.sent < MaxSends
          /\ form' = [form EXCEPT !.button = FALSE, !.alert = "none", !.sent = @ + 1]
          /\ sends' = sends \cup {form.sent + 1}
      BY <1>9, <2>2 DEF Dialog!Submit
    <3>2. form' \in Forms /\ form'.button = FALSE /\ form'.openings = form.openings
      <4>1. form' = [button |-> FALSE, email |-> form.email, openings |-> form.openings,
                     sent |-> form.sent + 1, alert |-> "none"]
        BY <1>3, <3>1 DEF Forms
      <4>2. form.email \in BOOLEAN /\ form.sent + 1 \in Nat
        BY <1>3 DEF Forms
      <4> QED BY <1>4, <4>1, <4>2 DEF Forms
    <3>3. Cardinality(sends) + 1 <= form.openings
      BY <1>3, <2>1
    <3>4. IsFiniteSet(sends') /\ Cardinality(sends') <= Cardinality(sends) + 1
      <4>1. /\ IsFiniteSet(sends')
            /\ \/ Cardinality(sends') = Cardinality(sends)
               \/ Cardinality(sends') = Cardinality(sends) + 1
        BY <1>2, <3>1, FS_AddElement
      <4> QED BY <1>2, <4>1
    <3>5. Cardinality(sends') \in Nat
      BY <3>4, FS_CardinalityType
    <3>6. sends' # {} /\ sends' \subseteq 1 .. MaxSends
      BY <1>1, <1>3, <1>4, <3>1
    <3>7. FormOK'
      <4>1. Cardinality(sends') <= form.openings
        BY <1>2, <1>4, <3>3, <3>4, <3>5
      <4>2. /\ Cardinality(sends')
                 + (IF form'.button /\ form'.openings > 0 THEN 1 ELSE 0) <= form'.openings
            /\ sends' = {} /\ form'.openings > 0 => form'.button
        <5>1. ~form'.button /\ form'.openings = form.openings
          BY <3>2
        <5>2. (IF form'.button /\ form'.openings > 0 THEN 1 ELSE 0) = 0
          BY <5>1
        <5>3. Cardinality(sends') + 0 <= form'.openings
          BY <1>4, <3>5, <4>1, <5>1
        <5> QED BY <3>6, <5>2, <5>3
      <4> QED BY <4>2 DEF FormOK
    <3> QED BY <3>2, <3>6, <3>7 DEF FormInv, Forms
  <2>3. CASE ~form.email
    <3>1. form' = [form EXCEPT !.alert = "missing"] /\ sends' = sends
      BY <1>9, <2>3 DEF Dialog!Submit
    <3>2. form' \in Forms /\ form'.button = form.button /\ form'.openings = form.openings
      BY <1>3, <3>1 DEF Forms
    <3>3. FormOK'
      BY <1>3, <3>1, <3>2 DEF FormOK
    <3> QED BY <1>3, <3>1, <3>2, <3>3 DEF FormInv, Forms
  <2> QED BY <2>2, <2>3
<1>10. ASSUME NEW s \in sends,
              NEW what \in {"dispatched", "external", "failed", "unreachable"},
              Dialog!Answered(s, what)
       PROVE  FormInv'
  <2>1. /\ sends' = sends \ {s}
        /\ form' = [form EXCEPT !.button = TRUE, !.alert = what,
                      !.email = IF what \in {"dispatched", "external"} THEN FALSE ELSE @]
    BY <1>10 DEF Dialog!Answered
  <2>2. form' \in Forms /\ form'.button = TRUE /\ form'.openings = form.openings
    BY <1>3, <2>1 DEF Forms
  <2>3. IsFiniteSet(sends') /\ Cardinality(sends') = Cardinality(sends) - 1
    BY <1>2, <2>1, FS_RemoveElement
  <2>4. FormOK'
    BY <1>2, <1>4, <1>5, <2>2, <2>3 DEF FormOK
  <2> QED BY <1>3, <2>1, <2>2, <2>4 DEF FormInv, Forms
<1>12. ASSUME Dialog!FormNext PROVE FormInv'
  BY <1>7, <1>8, <1>9, <1>10, <1>12 DEF Dialog!FormNext
<1> QED BY <1>6, <1>12

-----------------------------------------------------------------------------

LEMMA DialogsBegin ==
  ASSUME Dialog!Inputs, Dialog!Init
  PROVE  BatchInv /\ FormInv
<1>1. job = NoJob /\ MaxBatches \in Nat
  BY DEF Dialog!Inputs, Dialog!Init
<1>2. Dialog!Idle \in Dialog!Loops /\ Dialog!Idle.phase = "off" /\ LoopOK(Dialog!Idle)
  <2>1. << >> \in Seq(Lines)
    BY EmptySeq
  <2> QED BY <2>1 DEF Dialog!Idle, Dialog!Loops, LoopOK
<1>3. /\ loop \in [1 .. MaxBatches -> Dialog!Loops]
      /\ \A b \in 1 .. MaxBatches : LoopOK(loop[b]) /\ loop[b].phase = "off"
  BY <1>2 DEF Dialog!Init
<1>4. /\ dialog \in [start : BOOLEAN, stop : BOOLEAN, export : BOOLEAN, percent : Int,
                     shown : Dialog!Figures \cup {NoJob}]
      /\ dialog.stop = FALSE /\ dialog.shown = NoJob
  BY DEF Dialog!Init
<1>5. BatchInv
  BY <1>1, <1>3, <1>4 DEF BatchInv, JobOK, ShownOK, Dialog!Running, Dialog!Alive
<1>6. Cardinality(sends) = 0 /\ sends = {}
  BY FS_EmptySet DEF Dialog!Init
<1>7. FormInv
  BY <1>6 DEF Dialog!Init, FormInv, FormOK
<1> QED BY <1>5, <1>7

\* What the steps preserve is what the dialogs promise.
LEMMA DialogsPromise ==
  ASSUME Dialog!Inputs, BatchInv, FormInv
  PROVE  /\ Dialog!TypeOK /\ Dialog!BatchHoldsItsUrls /\ Dialog!FiguresAddUp
         /\ Dialog!OneDetectionPerUrl /\ Dialog!OneSendPerOpening
<1>1. Dialog!TypeOK
  BY DEF BatchInv, FormInv, Dialog!TypeOK
<1>2. Dialog!BatchHoldsItsUrls
  <2> SUFFICES ASSUME job # NoJob
               PROVE  Holds(job) /\ DOMAIN job.results = 1 .. Len(job.results)
                      /\ (Dialog!Running => Dialog!Alive(job.id))
    BY DEF Dialog!BatchHoldsItsUrls, Holds
  <2>1. Holds(job) /\ job.results \in Seq(Dialog!Entries)
    BY JobIs DEF Dialog!Jobs
  <2>2. Dialog!Running => Dialog!Alive(job.id)
    BY DEF BatchInv, JobOK, InStep, Dialog!Alive
  <2> QED BY <2>1, <2>2, LenProperties
<1>3. Dialog!FiguresAddUp
  <2> SUFFICES ASSUME dialog.shown # NoJob, job # NoJob, dialog.shown.job = job.id
               PROVE  /\ job.status = "completed"
                      /\ dialog.shown.successful + dialog.shown.failed = Len(job.results)
                      /\ dialog.shown.successful = Dialog!ExportBatch.successful
    BY DEF Dialog!FiguresAddUp
  <2>1. /\ job.status = "completed"
        /\ dialog.shown.successful = Dialog!Count(job.results, TRUE)
        /\ dialog.shown.failed = Dialog!Count(job.results, FALSE)
    BY DEF BatchInv, ShownOK
  <2>2. job.results \in Seq(Dialog!Entries)
    BY JobIs DEF Dialog!Jobs
  <2> QED BY <2>1, <2>2, CountsAddUp DEF Dialog!ExportBatch
<1>4. Dialog!OneDetectionPerUrl
  BY DEF BatchInv, LoopOK, Dialog!OneDetectionPerUrl
<1>5. Dialog!OneSendPerOpening
  <2>1. Cardinality(sends) \in Nat /\ form.openings \in Nat
    BY SendsAreFinite DEF Dialog!Inputs, FormInv
  <2> QED BY <2>1 DEF FormInv, FormOK, Dialog!OneSendPerOpening, Cardinality, Dialog!Cardinality
<1> QED BY <1>1, <1>2, <1>3, <1>4, <1>5

-----------------------------------------------------------------------------
(* Every client.                                                           *)

\* Those that follow the pages of one scan do so whatever the dialogs do.
LEMMA ClientsFollow == ClientsSpec => FairSpec
<1>1. ClientsInit => Init
  BY DEF ClientsInit
<1>2. [ClientsNext]_allVars => [Next]_vars
  BY DEF ClientsNext, allVars
<1> QED BY <1>1, <1>2, PTL DEF ClientsSpec, FairSpec

\* What the dialogs' steps preserve.
DialogInv == BatchInv /\ FormInv

LEMMA DialogStep ==
  DialogInv /\ [ClientsNext]_allVars => DialogInv' /\ [OverKept]_(Dialog!batchVars)
<1> SUFFICES ASSUME DialogInv, [ClientsNext]_allVars
             PROVE  DialogInv' /\ OverKept
  OBVIOUS
<1>1. Dialog!Inputs
  BY DialogAssumption
<1>2. /\ Dialog!BatchNext \/ UNCHANGED Dialog!batchVars
      /\ Dialog!FormNext \/ UNCHANGED Dialog!formVars
  BY DEF ClientsNext, allVars, batchVars, formVars, Dialog!batchVars, Dialog!formVars
<1> QED BY <1>1, <1>2, BatchKeeps, FormKeeps DEF DialogInv

\* However the batches are started, stopped and overtaken and their requests end,
\* a batch holds the results of its own URLs in order, the dialog's figures are
\* those of the batch it names, a URL is probed once, a batch that is over gains
\* nothing, and the form sends once between two openings (main.js:2688-3367).
THEOREM DialogsAreSound == ClientsSpec => DialogsHold
<1>1. ClientsInit => DialogInv
  BY DialogAssumption, DialogsBegin DEF ClientsInit, DialogInv
<1>2. DialogInv => /\ Dialog!BatchHoldsItsUrls /\ Dialog!FiguresAddUp
                   /\ Dialog!OneDetectionPerUrl /\ Dialog!OneSendPerOpening
  BY DialogAssumption, DialogsPromise DEF DialogInv
<1>3. OverKept => (Dialog!Over /\ job'.id = job.id => job'.results = job.results)
  BY DEF OverKept
<1> QED BY <1>1, <1>2, <1>3, DialogStep, PTL DEF ClientsSpec, DialogsHold, Dialog!OverIsOver

\* And whoever follows one scan gets what Slices, InOrder and AuditCovers say.
THEOREM FollowersAreSound ==
  ClientsSpec => [](PagesAreSlices /\ OnePlanInOrder /\ AuditIsComplete)
BY ClientsFollow, Slices, InOrder, AuditCovers, PTL
=============================================================================
