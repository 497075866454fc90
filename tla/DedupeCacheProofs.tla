--------------------------- MODULE DedupeCacheProofs --------------------------
(***************************************************************************)
(* Theorems about DedupeCache, for any keys, time to live and size.        *)
(***************************************************************************)
EXTENDS DedupeCache, FiniteSetTheorems, SequenceTheorems, WellFoundedInduction, TLAPS

Entries == [key : Keys, at : Nat]
Stamps == {Never} \cup Nat

\* The entries of a list in the order of the last question: each has the time at which
\* its key was accepted, each key is there once, and whatever is behind an entry was
\* asked about after it.  (The times themselves need not be sorted.)
InOrder(es, as, ac, si, t) ==
    /\ es \in Seq(Entries)
    /\ \A n \in 1 .. Len(es) : /\ es[n].at = ac[es[n].key]
                            /\ es[n].at <= as[es[n].key] /\ as[es[n].key] <= t
    /\ \A m, n \in 1 .. Len(es) : m < n =>
          /\ es[m].key # es[n].key /\ as[es[m].key] <= as[es[n].key]
          /\ es[n].key \in si[es[m].key]

\* A key that is not held was never entered, or has gone for one of the two causes.
Gone(k) == asked[k] = Never \/ now - accepted[k] > Ttl \/ Cardinality(since[k]) >= MaxSize

CacheInv ==
    /\ now \in 0 .. MaxTime /\ answer \in BOOLEAN
    /\ asked \in [Keys -> Stamps] /\ accepted \in [Keys -> Stamps]
    /\ since \in [Keys -> SUBSET Keys] /\ \A k \in Keys : IsFiniteSet(since[k])
    /\ \A k \in Keys : asked[k] <= now
    /\ InOrder(entries, asked, accepted, since, now) /\ Len(entries) <= MaxSize
    /\ \A k \in Keys \ Held(entries) : Gone(k)

-------------------------------------------------------------------------------
(* Lists of entries.                                                       *)

LEMMA ListFacts ==
    ASSUME NEW es \in Seq(Entries)
    PROVE  /\ Len(es) \in Nat
           /\ \A n \in 1 .. Len(es) : es[n] \in Entries /\ es[n].key \in Keys /\ es[n].at \in Nat
<1>1. Len(es) \in Nat /\ \A n \in 1 .. Len(es) : es[n] \in Entries
  OBVIOUS
<1>2. \A n \in 1 .. Len(es) : es[n].key \in Keys /\ es[n].at \in Nat
  BY <1>1 DEF Entries
<1>. QED
  BY <1>1, <1>2

LEMMA HeldKeys ==
    ASSUME NEW es \in Seq(Entries)
    PROVE  Held(es) = {es[n].key : n \in 1 .. Len(es)} /\ Held(es) \subseteq Keys
<1>1. Held(es) = {es[n].key : n \in 1 .. Len(es)}
  BY DEF Held
<1>. QED
  BY <1>1, ListFacts

LEMMA HeldAt ==
    ASSUME NEW es \in Seq(Entries)
    PROVE  \A k : k \in Held(es) <=> \E n \in 1 .. Len(es) : es[n].key = k
  BY HeldKeys, Zenon

\* A list without repetition holds as many keys as it has entries.
LEMMA HeldCount ==
    ASSUME NEW es \in Seq(Entries), \A m, n \in 1 .. Len(es) : m < n => es[m].key # es[n].key
    PROVE  IsFiniteSet(Held(es)) /\ Cardinality(Held(es)) = Len(es)
<1> DEFINE f == [n \in 1 .. Len(es) |-> es[n].key]
<1>1. Len(es) \in Nat
  BY ListFacts
<1>2. f \in [1 .. Len(es) -> Held(es)] /\ \A k \in Held(es) : \E n \in 1 .. Len(es) : f[n] = k
  BY <1>1, HeldKeys
<1>3. \A m, n \in 1 .. Len(es) : f[m] = f[n] => m = n
  BY <1>1
<1>4. f \in Bijection(1 .. Len(es), Held(es))
  BY <1>2, <1>3, Zenon DEF Bijection, Injection, Surjection, IsInjective
<1>5. ExistsBijection(1 .. Len(es), Held(es))
  BY <1>4 DEF ExistsBijection
<1>. QED
  BY <1>1, <1>5, FS_NatBijection, FS_CountingElements

\* What is left of a list when entries are taken out is in order.
LEMMA PartInOrder ==
    ASSUME NEW as, NEW ac, NEW si, NEW t, NEW es, InOrder(es, as, ac, si, t),
           NEW fs \in Seq(Entries), NEW f,
           \A n \in 1 .. Len(fs) : f[n] \in 1 .. Len(es) /\ fs[n] = es[f[n]],
           \A m, n \in 1 .. Len(fs) : m < n => f[m] < f[n]
    PROVE  InOrder(fs, as, ac, si, t)
<1>0. /\ \A n \in 1 .. Len(es) : /\ es[n].at = ac[es[n].key]
                                 /\ es[n].at <= as[es[n].key] /\ as[es[n].key] <= t
      /\ \A m, n \in 1 .. Len(es) : m < n =>
            /\ es[m].key # es[n].key /\ as[es[m].key] <= as[es[n].key]
            /\ es[n].key \in si[es[m].key]
  BY Zenon DEF InOrder
<1>1. ASSUME NEW n \in 1 .. Len(fs)
      PROVE  fs[n].at = ac[fs[n].key] /\ fs[n].at <= as[fs[n].key] /\ as[fs[n].key] <= t
  <2>1. PICK x \in 1 .. Len(es) : x = f[n] /\ fs[n] = es[x]
    OBVIOUS
  <2>. QED
    BY <1>0, <2>1, Zenon
<1>2. ASSUME NEW m \in 1 .. Len(fs), NEW n \in 1 .. Len(fs), m < n
      PROVE  /\ fs[m].key # fs[n].key /\ as[fs[m].key] <= as[fs[n].key]
             /\ fs[n].key \in si[fs[m].key]
  <2>1. PICK x \in 1 .. Len(es) : x = f[m] /\ fs[m] = es[x]
    OBVIOUS
  <2>2. PICK y \in 1 .. Len(es) : y = f[n] /\ fs[n] = es[y]
    OBVIOUS
  <2>3. x < y
    BY <1>2, <2>1, <2>2, Zenon
  <2>4. /\ es[x].key # es[y].key /\ as[es[x].key] <= as[es[y].key]
        /\ es[y].key \in si[es[x].key]
    BY <1>0, <2>3, Zenon
  <2>. QED
    BY <2>1, <2>2, <2>4, Zenon
<1>. QED
  BY <1>1, <1>2, Zenon DEF InOrder

\* fs is what is left of es without its first e entries.
IsRest(fs, es, e) ==
    /\ fs \in Seq(Entries) /\ e \in 0 .. Len(es) /\ Len(fs) = Len(es) - e
    /\ \A n \in 1 .. Len(fs) : fs[n] = es[e + n]

LEMMA SubSeqIsRest ==
    ASSUME NEW es \in Seq(Entries), NEW e \in 0 .. Len(es)
    PROVE  IsRest(SubSeq(es, e + 1, Len(es)), es, e)
<1>1. Len(es) \in Nat /\ \A i \in e + 1 .. Len(es) : es[i] \in Entries
  OBVIOUS
<1>2. /\ SubSeq(es, e + 1, Len(es)) \in Seq(Entries)
      /\ Len(SubSeq(es, e + 1, Len(es))) =
            (IF e + 1 <= Len(es) THEN Len(es) - (e + 1) + 1 ELSE 0)
      /\ \A i \in 1 .. Len(es) - (e + 1) + 1 : SubSeq(es, e + 1, Len(es))[i] = es[e + 1 + i - 1]
  BY <1>1, SubSeqProperties
<1>3. PICK fs : fs = SubSeq(es, e + 1, Len(es))
  OBVIOUS
<1>4. Len(fs) = Len(es) - e
  BY <1>1, <1>2, <1>3
<1>5. ASSUME NEW n \in 1 .. Len(fs) PROVE fs[n] = es[e + n]
  <2>1. n \in 1 .. Len(es) - (e + 1) + 1 /\ e + 1 + n - 1 = e + n
    BY <1>1, <1>4
  <2>. QED
    BY <1>2, <1>3, <2>1
<1>. QED
  BY <1>2, <1>3, <1>4, <1>5 DEF IsRest

LEMMA TailIsRest ==
    ASSUME NEW es \in Seq(Entries), es # <<>>
    PROVE  IsRest(Tail(es), es, 1)
<1>1. Len(es) \in Nat \ {0}
  OBVIOUS
<1>2. Tail(es) \in Seq(Entries) /\ Len(Tail(es)) = Len(es) - 1
      /\ \A i \in 1 .. Len(Tail(es)) : Tail(es)[i] = es[i + 1]
  BY HeadTailProperties
<1>. QED
  BY <1>1, <1>2 DEF IsRest

LEMMA RestFacts ==
    ASSUME NEW es \in Seq(Entries), NEW fs, NEW e, IsRest(fs, es, e)
    PROVE  /\ \A n \in 1 .. Len(fs) : e + n \in 1 .. Len(es) /\ fs[n] = es[e + n]
           /\ \A n \in 1 .. Len(es) : n > e => es[n].key \in Held(fs)
           /\ Held(fs) \subseteq Held(es)
<1>0. /\ Len(es) \in Nat /\ e \in 0 .. Len(es) /\ Len(fs) = Len(es) - e /\ Len(fs) \in Nat
      /\ fs \in Seq(Entries) /\ \A n \in 1 .. Len(fs) : fs[n] = es[e + n]
  BY ListFacts DEF IsRest
<1>1. \A n \in 1 .. Len(fs) : e + n \in 1 .. Len(es)
  BY <1>0
<1>2. \A n \in 1 .. Len(es) : n > e => n - e \in 1 .. Len(fs) /\ e + (n - e) = n
  BY <1>0
<1>3. ASSUME NEW n \in 1 .. Len(es), n > e PROVE es[n].key \in Held(fs)
  <2>1. PICK m \in 1 .. Len(fs) : m = n - e /\ e + m = n
    BY <1>2, <1>3
  <2>2. fs[m] = es[n]
    BY <1>0, <2>1
  <2>. QED
    BY <1>0, <2>2, HeldKeys, Zenon
<1>4. Held(fs) \subseteq Held(es)
  BY <1>0, <1>1, HeldKeys
<1>. QED
  BY <1>0, <1>1, <1>3, <1>4

LEMMA RestInOrder ==
    ASSUME NEW as, NEW ac, NEW si, NEW t, NEW es, InOrder(es, as, ac, si, t),
           NEW fs, NEW e, IsRest(fs, es, e)
    PROVE  InOrder(fs, as, ac, si, t)
<1>1. /\ fs \in Seq(Entries) /\ es \in Seq(Entries) /\ Len(fs) \in Nat /\ e \in Int
      /\ \A n \in 1 .. Len(fs) : e + n \in 1 .. Len(es) /\ fs[n] = es[e + n]
  BY RestFacts, ListFacts DEF InOrder, IsRest
<1>2. PICK f : f = [n \in 1 .. Len(fs) |-> e + n]
  OBVIOUS
<1>3. \A n \in 1 .. Len(fs) : f[n] \in 1 .. Len(es) /\ fs[n] = es[f[n]]
  BY <1>1, <1>2
<1>4. \A m, n \in 1 .. Len(fs) : m < n => f[m] < f[n]
  BY <1>1, <1>2
<1>. QED
  BY <1>1, <1>3, <1>4, PartInOrder

\* The first place of a list that is not expired exists, so an eviction ends there.
LEMMA EvictStops ==
    ASSUME NEW es \in Seq(Entries), NEW cutoff \in Int
    PROVE  \E e \in 0 .. Len(es) :
              /\ Evict(es, cutoff) = SubSeq(es, e + 1, Len(es))
              /\ \A m \in 1 .. e : es[m].at < cutoff
              /\ e < Len(es) => es[e + 1].at >= cutoff
<1> DEFINE S == {n \in 0 .. Len(es) : \A m \in 1 .. n : es[m].at < cutoff}
           T == {Len(es) - n : n \in S}
<1>0. Len(es) \in Nat /\ \A n \in 1 .. Len(es) : es[n].at \in Nat
  BY ListFacts
<1>1. 0 \in S
  BY <1>0
<1>2. T \subseteq Nat /\ T # {}
  BY <1>0, <1>1
<1>3. PICK d \in T : \A y \in T : ~ (<<y, d>> \in OpToRel(<, Nat))
  BY <1>2, WFMin, NatLessThanWellFounded, Zenon
<1>4. \A y \in T : ~ (y < d)
  BY <1>2, <1>3, Zenon DEF OpToRel
<1>5. PICK e \in S : \A n \in S : e >= n
  <2>1. PICK e \in S : d = Len(es) - e
    OBVIOUS
  <2>2. ASSUME NEW n \in S PROVE e >= n
    <3>1. Len(es) - n \in T /\ n \in Int /\ e \in Int
      OBVIOUS
    <3>2. ~ (Len(es) - n < Len(es) - e)
      BY <1>4, <2>1, <3>1
    <3>. QED
      BY <1>0, <3>1, <3>2
  <2>. QED
    BY <2>2
<1>6. Max(S) \in S /\ \A n \in S : Max(S) >= n
  BY <1>5, Zenon DEF Max
<1>7. PICK x \in S : x = Max(S)
  BY <1>6
<1>8. x < Len(es) => es[x + 1].at >= cutoff
  <2> SUFFICES ASSUME x < Len(es), es[x + 1].at < cutoff PROVE FALSE
    BY <1>0
  <2>1. x + 1 \in S
    BY <1>0
  <2>. QED
    BY <1>6, <1>7, <2>1
<1>. QED
  BY <1>7, <1>8 DEF Evict

\* What an eviction leaves: the rest of the list, from the first fresh entry on.
LEMMA Evicted ==
    ASSUME NEW as, NEW ac, NEW si, NEW t, NEW es, InOrder(es, as, ac, si, t),
           NEW cutoff \in Int, NEW live, live = Evict(es, cutoff)
    PROVE  /\ InOrder(live, as, ac, si, t) /\ Len(live) <= Len(es)
           /\ Held(live) \subseteq Held(es)
           /\ \A n \in 1 .. Len(es) : es[n].key \in Held(live) \/ es[n].at < cutoff
           /\ Len(live) > 0 => live[1].at >= cutoff
<1>0. es \in Seq(Entries) /\ Len(es) \in Nat
  BY ListFacts DEF InOrder
<1>1. PICK e \in 0 .. Len(es) : /\ live = SubSeq(es, e + 1, Len(es))
                                /\ \A m \in 1 .. e : es[m].at < cutoff
                                /\ e < Len(es) => es[e + 1].at >= cutoff
  BY <1>0, EvictStops
<1>2. IsRest(live, es, e)
  BY <1>0, <1>1, SubSeqIsRest
<1>3. /\ \A n \in 1 .. Len(live) : e + n \in 1 .. Len(es) /\ live[n] = es[e + n]
      /\ \A n \in 1 .. Len(es) : n > e => es[n].key \in Held(live)
      /\ Held(live) \subseteq Held(es)
  BY <1>0, <1>2, RestFacts
<1>4. InOrder(live, as, ac, si, t)
  BY <1>2, RestInOrder
<1>5. \A n \in 1 .. Len(es) : n > e \/ n \in 1 .. e
  BY <1>0
<1>6. \A n \in 1 .. Len(es) : es[n].key \in Held(live) \/ es[n].at < cutoff
  BY <1>1, <1>3, <1>5
<1>7. Len(live) = Len(es) - e /\ e \in Nat
  BY <1>0, <1>2 DEF IsRest
<1>8. Len(live) > 0 => e < Len(es) /\ 1 \in 1 .. Len(live)
  BY <1>0, <1>7
<1>9. Len(live) <= Len(es) /\ (Len(live) > 0 => live[1].at >= cutoff)
  BY <1>0, <1>1, <1>3, <1>7, <1>8
<1>. QED
  BY <1>3, <1>4, <1>6, <1>9, Zenon

\* Taking out the entry of a key leaves the others in order.
LEMMA Removed ==
    ASSUME NEW as, NEW ac, NEW si, NEW t, NEW es, InOrder(es, as, ac, si, t),
           NEW p \in 1 .. Len(es), NEW fs, fs = RemoveAt(es, p)
    PROVE  /\ InOrder(fs, as, ac, si, t) /\ Len(fs) = Len(es) - 1
           /\ Held(fs) = Held(es) \ {es[p].key}
<1>0. es \in Seq(Entries) /\ Len(es) \in Nat /\ \A n \in 1 .. Len(es) : es[n] \in Entries
  BY ListFacts DEF InOrder
<1>1. PICK u : u = SubSeq(es, 1, p - 1)
  OBVIOUS
<1>2. PICK v : v = SubSeq(es, p + 1, Len(es))
  OBVIOUS
<1>3. u \in Seq(Entries) /\ Len(u) = p - 1 /\ \A i \in 1 .. p - 1 : u[i] = es[i]
  <2>1. \A i \in 1 .. p - 1 : es[i] \in Entries
    BY <1>0
  <2>2. /\ u \in Seq(Entries) /\ Len(u) = (IF 1 <= p - 1 THEN p - 1 - 1 + 1 ELSE 0)
        /\ \A i \in 1 .. p - 1 - 1 + 1 : u[i] = es[1 + i - 1]
    BY <1>1, <2>1, SubSeqProperties
  <2>3. \A i \in 1 .. p - 1 : i \in 1 .. p - 1 - 1 + 1 /\ 1 + i - 1 = i
    BY <1>0
  <2>4. Len(u) = p - 1
    BY <1>0, <2>2
  <2>. QED
    BY <2>2, <2>3, <2>4
<1>4. IsRest(v, es, p)
  BY <1>0, <1>2, SubSeqIsRest
<1>5. v \in Seq(Entries) /\ Len(v) = Len(es) - p /\ \A i \in 1 .. Len(v) : v[i] = es[p + i]
  BY <1>4 DEF IsRest
<1>6. /\ fs \in Seq(Entries) /\ Len(fs) = Len(u) + Len(v)
      /\ \A i \in 1 .. Len(u) + Len(v) : fs[i] = IF i <= Len(u) THEN u[i] ELSE v[i - Len(u)]
  <2>1. fs = u \o v
    BY <1>1, <1>2 DEF RemoveAt
  <2>2. /\ u \o v \in Seq(Entries) /\ Len(u \o v) = Len(u) + Len(v)
        /\ \A i \in 1 .. Len(u) + Len(v) :
              (u \o v)[i] = IF i <= Len(u) THEN u[i] ELSE v[i - Len(u)]
    <3>1. u \in Seq(Entries) /\ v \in Seq(Entries)
      BY <1>3, <1>5
    <3>. QED
      BY <3>1, ConcatProperties
  <2>. QED
    BY <2>1, <2>2, Zenon
<1>7. Len(fs) = Len(es) - 1
  BY <1>0, <1>3, <1>5, <1>6
<1>8. PICK f : f = [n \in 1 .. Len(fs) |-> IF n < p THEN n ELSE n + 1]
  OBVIOUS
<1>9. ASSUME NEW n \in 1 .. Len(fs) PROVE f[n] \in (1 .. Len(es)) \ {p} /\ fs[n] = es[f[n]]
  <2>1. CASE n < p
    <3>1. f[n] = n /\ n \in 1 .. p - 1 /\ n <= Len(u) /\ n \in 1 .. Len(u) + Len(v)
      BY <1>0, <1>3, <1>5, <1>7, <1>8, <2>1
    <3>2. fs[n] = es[n]
      BY <1>3, <1>6, <3>1
    <3>. QED
      BY <1>0, <1>7, <2>1, <3>1, <3>2
  <2>2. CASE ~ (n < p)
    <3>1. /\ f[n] = n + 1 /\ n - Len(u) \in 1 .. Len(v) /\ ~ (n <= Len(u))
          /\ n \in 1 .. Len(u) + Len(v) /\ p + (n - Len(u)) = n + 1
      BY <1>0, <1>3, <1>5, <1>7, <1>8, <2>2
    <3>2. fs[n] = es[n + 1]
      BY <1>5, <1>6, <3>1
    <3>. QED
      BY <1>0, <1>7, <2>2, <3>1, <3>2
  <2>. QED
    BY <2>1, <2>2
<1>10. \A m, n \in 1 .. Len(fs) : m < n => f[m] < f[n]
  BY <1>0, <1>7, <1>8
<1>11. InOrder(fs, as, ac, si, t)
  <2>1. \A n \in 1 .. Len(fs) : f[n] \in 1 .. Len(es) /\ fs[n] = es[f[n]]
    BY <1>9, Zenon
  <2>2. fs \in Seq(Entries)
    BY <1>6
  <2>. HIDE <1>8
  <2>. QED
    BY <1>10, <2>1, <2>2, PartInOrder
<1>12. ASSUME NEW m \in 1 .. Len(es), NEW n \in 1 .. Len(es), m # n
       PROVE  es[m].key # es[n].key
  <2>1. \A x, y \in 1 .. Len(es) : x < y => es[x].key # es[y].key
    BY Zenon DEF InOrder
  <2>2. m < n \/ n < m
    BY <1>0, <1>12
  <2>. QED
    BY <2>1, <2>2, Zenon
<1>13. ASSUME NEW k \in Held(fs) PROVE k \in Held(es) \ {es[p].key}
  <2>1. PICK n \in 1 .. Len(fs) : fs[n].key = k
    BY <1>6, HeldAt, Zenon
  <2>2. f[n] \in 1 .. Len(es) /\ f[n] # p /\ fs[n] = es[f[n]]
    BY <1>9, Zenon
  <2>3. k # es[p].key
    BY <1>12, <2>1, <2>2, Zenon
  <2>. QED
    BY <1>0, <2>1, <2>2, <2>3, HeldAt, Zenon
<1>14. ASSUME NEW n \in 1 .. Len(es), n # p PROVE es[n].key \in Held(fs)
  <2>1. PICK m \in 1 .. Len(fs) : m = IF n < p THEN n ELSE n - 1
    BY <1>0, <1>7, <1>14
  <2>2. f[m] = n
    BY <1>0, <1>8, <1>14, <2>1
  <2>. QED
    BY <1>6, <1>9, <2>2, HeldAt, Zenon
<1>15. ASSUME NEW k \in Held(es), k # es[p].key PROVE k \in Held(fs)
  <2>1. PICK n \in 1 .. Len(es) : es[n].key = k
    BY <1>0, HeldAt, Zenon
  <2>. QED
    BY <1>14, <1>15, <2>1, Zenon
<1>16. Held(fs) = Held(es) \ {es[p].key}
  BY <1>13, <1>15, Zenon
<1>. QED
  BY <1>7, <1>11, <1>16

\* A list with one more entry.
LEMMA Appended ==
    ASSUME NEW es \in Seq(Entries), NEW r \in Entries
    PROVE  /\ Append(es, r) \in Seq(Entries) /\ Len(Append(es, r)) = Len(es) + 1
           /\ \A n \in 1 .. Len(es) : Append(es, r)[n] = es[n]
           /\ Append(es, r)[Len(es) + 1] = r
           /\ Held(Append(es, r)) = Held(es) \cup {r.key}
<1>0. PICK fs : fs = Append(es, r)
  OBVIOUS
<1>1. /\ fs \in Seq(Entries) /\ Len(fs) = Len(es) + 1 /\ Len(es) \in Nat
      /\ \A n \in 1 .. Len(es) : fs[n] = es[n]
      /\ fs[Len(es) + 1] = r
  BY <1>0, AppendProperties, ListFacts
<1>2. \A n \in 1 .. Len(fs) : n \in 1 .. Len(es) \/ n = Len(es) + 1
  BY <1>1
<1>3. \A n \in 1 .. Len(es) : n \in 1 .. Len(fs)
  BY <1>1
<1>4. Len(es) + 1 \in 1 .. Len(fs)
  BY <1>1
<1>5. ASSUME NEW k \in Held(fs) PROVE k \in Held(es) \cup {r.key}
  <2>1. PICK n \in 1 .. Len(fs) : fs[n].key = k
    BY <1>1, HeldAt, Zenon
  <2>. QED
    BY <1>1, <1>2, <2>1, HeldAt, Zenon
<1>6. ASSUME NEW k \in Held(es) \cup {r.key} PROVE k \in Held(fs)
  <2>1. CASE k \in Held(es)
    <3>1. PICK n \in 1 .. Len(es) : es[n].key = k
      BY <2>1, HeldAt, Zenon
    <3>. QED
      BY <1>1, <1>3, <3>1, HeldAt, Zenon
  <2>2. CASE k = r.key
    BY <1>1, <1>4, <2>2, HeldAt, Zenon
  <2>. QED
    BY <1>6, <2>1, <2>2, Zenon
<1>7. Held(fs) = Held(es) \cup {r.key}
  BY <1>5, <1>6, Zenon
<1>. QED
  BY <1>0, <1>1, <1>7, Zenon

-------------------------------------------------------------------------------
(* A question.                                                             *)

\* The key asked about goes behind all others.
LEMMA AskedIsLast ==
    ASSUME CacheInv, NEW k \in Keys, NEW rest, InOrder(rest, asked, accepted, since, now),
           k \notin Held(rest), NEW a \in Nat, a <= now,
           asked' = [asked EXCEPT ![k] = now],
           since' = [j \in Keys |-> IF j = k THEN {} ELSE since[j] \cup {k}],
           accepted'[k] = a, \A j \in Keys \ {k} : accepted'[j] = accepted[j],
           NEW fs, fs = Append(rest, [key |-> k, at |-> a])
    PROVE  InOrder(fs, asked', accepted', since', now)
<1>1. /\ rest \in Seq(Entries) /\ [key |-> k, at |-> a] \in Entries
      /\ now \in Nat /\ asked \in [Keys -> Stamps] /\ since \in [Keys -> SUBSET Keys]
  BY DEF InOrder, Entries, CacheInv
<1>2. /\ fs \in Seq(Entries) /\ Len(fs) = Len(rest) + 1 /\ Len(rest) \in Nat
      /\ \A n \in 1 .. Len(rest) : fs[n] = rest[n]
      /\ fs[Len(rest) + 1] = [key |-> k, at |-> a]
  <2>1. PICK r \in Entries : r = [key |-> k, at |-> a]
    BY <1>1
  <2>2. rest \in Seq(Entries) /\ Len(rest) \in Nat /\ fs = Append(rest, r)
    BY <1>1, <2>1, ListFacts
  <2>3. /\ Append(rest, r) \in Seq(Entries) /\ Len(Append(rest, r)) = Len(rest) + 1
        /\ \A n \in 1 .. Len(rest) : Append(rest, r)[n] = rest[n]
        /\ Append(rest, r)[Len(rest) + 1] = r
    BY <2>2, Appended
  <2>. QED
    BY <2>1, <2>2, <2>3, Zenon
<1>3. \A n \in 1 .. Len(rest) : rest[n].key \in Keys \ {k}
  BY <1>1, ListFacts, HeldKeys
<1>4. /\ asked'[k] = now /\ \A j \in Keys \ {k} : asked'[j] = asked[j]
      /\ \A j \in Keys \ {k} : since'[j] = since[j] \cup {k}
  BY <1>1
<1>5. /\ \A n \in 1 .. Len(rest) : /\ rest[n].at = accepted[rest[n].key]
                                   /\ rest[n].at <= asked[rest[n].key]
                                   /\ asked[rest[n].key] <= now
      /\ \A m, n \in 1 .. Len(rest) : m < n =>
            /\ rest[m].key # rest[n].key /\ asked[rest[m].key] <= asked[rest[n].key]
            /\ rest[n].key \in since[rest[m].key]
  BY Zenon DEF InOrder
<1>6. \A n \in 1 .. Len(fs) : n \in 1 .. Len(rest) \/ n = Len(rest) + 1
  BY <1>2
<1>7. ASSUME NEW n \in 1 .. Len(fs)
      PROVE  fs[n].at = accepted'[fs[n].key] /\ fs[n].at <= asked'[fs[n].key]
             /\ asked'[fs[n].key] <= now
  <2>1. CASE n \in 1 .. Len(rest)
    BY <1>2, <1>3, <1>4, <1>5, <2>1
  <2>2. CASE n = Len(rest) + 1
    BY <1>1, <1>2, <1>4, <2>2
  <2>. QED
    BY <1>6, <2>1, <2>2
<1>8. ASSUME NEW m \in 1 .. Len(fs), NEW n \in 1 .. Len(fs), m < n
      PROVE  /\ fs[m].key # fs[n].key /\ asked'[fs[m].key] <= asked'[fs[n].key]
             /\ fs[n].key \in since'[fs[m].key]
  <2>1. m \in 1 .. Len(rest)
    BY <1>2, <1>8
  <2>2. CASE n \in 1 .. Len(rest)
    <3>1. /\ rest[m].key # rest[n].key /\ asked[rest[m].key] <= asked[rest[n].key]
          /\ rest[n].key \in since[rest[m].key]
      BY <1>5, <1>8, <2>1, <2>2, Zenon
    <3>. QED
      BY <1>2, <1>3, <1>4, <2>1, <2>2, <3>1
  <2>3. CASE n = Len(rest) + 1
    <3>1. asked[rest[m].key] <= now /\ rest[m].key \in Keys \ {k}
      BY <1>3, <1>5, <2>1, Zenon
    <3>2. fs[n].key = k /\ fs[m] = rest[m]
      BY <1>2, <2>1, <2>3
    <3>. QED
      BY <1>4, <3>1, <3>2
  <2>. QED
    BY <1>6, <2>2, <2>3
<1>. QED
  BY <1>2, <1>7, <1>8 DEF InOrder

\* A question about k when the evicted list is `live`.
LEMMA NextAsk ==
    ASSUME CacheInv, NEW k \in Keys, Ask(k)
    PROVE  /\ CacheInv'
           /\ answer' => asked[k] # Never /\ now - asked[k] <= Ttl
           /\ ~answer' => Gone(k)
<1>0. /\ now \in Nat /\ Ttl \in Nat /\ MaxSize \in Nat \ {0} /\ now - Ttl \in Int
      /\ asked \in [Keys -> Stamps] /\ accepted \in [Keys -> Stamps]
      /\ since \in [Keys -> SUBSET Keys] /\ \A j \in Keys : IsFiniteSet(since[j])
      /\ InOrder(entries, asked, accepted, since, now)
      /\ entries \in Seq(Entries) /\ Len(entries) \in Nat
  <2>1. /\ asked \in [Keys -> Stamps] /\ accepted \in [Keys -> Stamps]
        /\ since \in [Keys -> SUBSET Keys] /\ \A j \in Keys : IsFiniteSet(since[j])
        /\ InOrder(entries, asked, accepted, since, now) /\ now \in 0 .. MaxTime
    BY Zenon DEF CacheInv
  <2>2. now \in Nat /\ Ttl \in Nat /\ MaxSize \in Nat \ {0} /\ now - Ttl \in Int
    BY <2>1, ParameterAssumption
  <2>3. entries \in Seq(Entries)
    BY <2>1, Zenon DEF InOrder
  <2>4. Len(entries) \in Nat
    BY <2>3
  <2>. QED
    BY <2>1, <2>2, <2>3, <2>4, Zenon
<1>1. PICK cutoff \in Int : cutoff = now - Ttl
  BY <1>0
<1>. DEFINE live == Evict(entries, cutoff)
<1>. HIDE DEF live
<1>2. /\ InOrder(live, asked, accepted, since, now) /\ Len(live) <= Len(entries)
      /\ Held(live) \subseteq Held(entries)
      /\ \A n \in 1 .. Len(entries) : entries[n].key \in Held(live) \/ entries[n].at < now - Ttl
      /\ Len(live) > 0 => live[1].at >= now - Ttl
  <2>1. live = Evict(entries, cutoff)
    BY DEF live
  <2>2. InOrder(entries, asked, accepted, since, now)
    BY <1>0
  <2>3. /\ InOrder(live, asked, accepted, since, now) /\ Len(live) <= Len(entries)
        /\ Held(live) \subseteq Held(entries)
        /\ \A n \in 1 .. Len(entries) : entries[n].key \in Held(live) \/ entries[n].at < cutoff
        /\ Len(live) > 0 => live[1].at >= cutoff
    BY <2>1, <2>2, Evicted
  <2>. QED
    BY <1>1, <2>3
<1>3. live \in Seq(Entries) /\ Len(live) \in Nat /\ Len(live) <= MaxSize
  BY <1>0, <1>2, ListFacts DEF InOrder, CacheInv
<1>4. /\ answer' = (k \in Held(live)) /\ answer' \in BOOLEAN /\ now' = now
      /\ asked' = [asked EXCEPT ![k] = now]
      /\ since' = [j \in Keys |-> IF j = k THEN {} ELSE since[j] \cup {k}]
      /\ \/ answer' /\ entries' = MoveToEnd(live, k) /\ accepted' = accepted
         \/ /\ ~answer' /\ entries' = Trim(Append(live, [key |-> k, at |-> now]))
            /\ accepted' = [accepted EXCEPT ![k] = now]
  BY <1>1 DEF Ask, live
<1>5. /\ asked' \in [Keys -> Stamps] /\ since' \in [Keys -> SUBSET Keys]
      /\ \A j \in Keys \ {k} : asked'[j] = asked[j] /\ since'[j] = since[j] \cup {k}
      /\ asked'[k] = now /\ since'[k] = {}
  BY <1>0, <1>4 DEF Stamps
<1>6. \A j \in Keys : asked'[j] <= now
  BY <1>0, <1>5 DEF CacheInv
<1>7. ASSUME NEW j \in Keys \ {k}
      PROVE  IsFiniteSet(since'[j]) /\ Cardinality(since'[j]) >= Cardinality(since[j])
             /\ Cardinality(since[j]) \in Nat
  <2>1. IsFiniteSet(since[j]) /\ since'[j] = since[j] \cup {k}
    BY <1>0, <1>5
  <2>2. /\ IsFiniteSet(since'[j])
        /\ Cardinality(since'[j]) = IF k \in since[j] THEN Cardinality(since[j])
                                    ELSE Cardinality(since[j]) + 1
    BY <2>1, FS_AddElement, Zenon
  <2>3. Cardinality(since[j]) \in Nat
    BY <2>1, FS_CardinalityType
  <2>. QED
    BY <2>2, <2>3
<1>8. \A j \in Keys : IsFiniteSet(since'[j])
  BY <1>5, <1>7, FS_EmptySet
\* A key that the eviction took was accepted more than Ttl ago.
<1>9. ASSUME NEW j \in Keys, j \notin Held(live) PROVE Gone(j)
  <2>1. CASE j \notin Held(entries)
    BY <2>1 DEF CacheInv
  <2>2. CASE j \in Held(entries)
    <3>1. PICK n \in 1 .. Len(entries) : entries[n].key = j
      BY <1>0, <2>2, HeldAt, Zenon
    <3>2. entries[n].at < now - Ttl /\ entries[n].at = accepted[j]
      BY <1>0, <1>2, <1>9, <3>1 DEF InOrder
    <3>3. now - accepted[j] > Ttl
      <4>1. accepted[j] \in Int
        BY <1>0 DEF Stamps, Never
      <4>. QED
        BY <1>0, <3>2, <4>1
    <3>. QED
      BY <3>3 DEF Gone
  <2>. QED
    BY <2>1, <2>2
\* And stays gone, as long as nobody asks about it.
<1>10. ASSUME NEW j \in Keys \ {k}, j \notin Held(live), accepted'[j] = accepted[j]
       PROVE  Gone(j)'
  <2>1. Gone(j)
    BY <1>9, <1>10
  <2>2. Cardinality(since[j]) >= MaxSize => Cardinality(since'[j]) >= MaxSize
    <3>1. Cardinality(since'[j]) \in Nat
      BY <1>7, <1>10, FS_CardinalityType
    <3>. QED
      BY <1>0, <1>7, <1>10, <3>1
  <2>. QED
    BY <1>4, <1>5, <1>10, <2>1, <2>2 DEF Gone
<1>11. CASE answer'
  <2>1. k \in Held(live) /\ entries' = MoveToEnd(live, k) /\ accepted' = accepted
    BY <1>4, <1>11
  <2>2. \E n \in DOMAIN live : live[n].key = k
    BY <2>1 DEF Held
  <2>3. PICK p \in DOMAIN live : p = PlaceOf(live, k) /\ live[p].key = k
    BY <2>2, Zenon DEF PlaceOf
  <2>4. p \in 1 .. Len(live) /\ live[p] \in Entries /\ live[p].at \in Nat
    BY <1>3, <2>3, ListFacts
  <2>5. /\ live[p].at = accepted[k] /\ live[p].at <= asked[k] /\ asked[k] <= now
        /\ asked[live[1].key] <= asked[k] /\ live[1].at <= asked[live[1].key]
    <3>1. 1 \in 1 .. Len(live) /\ (p = 1 \/ 1 < p)
      BY <1>3, <2>4
    <3>2. asked[k] \in Int /\ accepted[k] \in Int
      BY <1>0 DEF Stamps, Never
    <3>3. live[p].at = accepted[k] /\ live[p].at <= asked[k] /\ asked[k] <= now
      BY <1>2, <2>3, <2>4 DEF InOrder
    <3>4. live[1].at <= asked[live[1].key]
      BY <1>2, <3>1 DEF InOrder
    <3>5. 1 < p => asked[live[1].key] <= asked[live[p].key]
      BY <1>2, <2>4, <3>1 DEF InOrder
    <3>6. p = 1 => asked[live[1].key] <= asked[k]
      BY <2>3, <3>2
    <3>. QED
      BY <2>3, <3>1, <3>3, <3>4, <3>5, <3>6
  <2>6. asked[k] # Never /\ now - asked[k] <= Ttl
    <3>1. /\ live[1].at >= now - Ttl /\ live[1].at \in Nat /\ live[1].key \in Keys
          /\ live[p].at \in Nat
      <4>1. 1 \in 1 .. Len(live) /\ Len(live) > 0
        BY <1>3, <2>4
      <4>. QED
        BY <1>2, <1>3, <2>4, <4>1, ListFacts
    <3>2. asked[live[1].key] \in Int /\ asked[k] \in Int
      BY <1>0, <3>1 DEF Stamps, Never
    <3>. QED
      BY <1>0, <2>5, <3>1, <3>2 DEF Never
  <2>7. PICK rest : rest = RemoveAt(live, p)
    OBVIOUS
  <2>8. InOrder(rest, asked, accepted, since, now) /\ Len(rest) = Len(live) - 1
        /\ Held(rest) = Held(live) \ {k}
    BY <1>2, <2>3, <2>4, <2>7, Removed
  <2>9. live[p] = [key |-> k, at |-> live[p].at]
    BY <2>3, <2>4 DEF Entries
  <2>10. entries' = Append(rest, [key |-> k, at |-> live[p].at])
    BY <2>1, <2>3, <2>7, <2>9 DEF MoveToEnd
  <2>11. k \notin Held(rest) /\ live[p].at <= now /\ accepted'[k] = live[p].at
    <3>1. asked[k] \in Int
      BY <1>0 DEF Stamps, Never
    <3>. QED
      BY <1>0, <2>1, <2>4, <2>5, <2>8, <3>1
  <2>12. InOrder(entries', asked', accepted', since', now)
    BY <1>4, <2>1, <2>4, <2>8, <2>10, <2>11, AskedIsLast
  <2>13. Len(entries') = Len(rest) + 1 /\ Held(entries') = Held(live)
    <3>1. PICK r \in Entries : r = live[p]
      BY <2>4
    <3>2. PICK es : es = entries'
      OBVIOUS
    <3>3. rest \in Seq(Entries) /\ es = Append(rest, r)
      BY <2>8, <2>9, <2>10, <3>1, <3>2, Zenon DEF InOrder
    <3>4. Len(es) = Len(rest) + 1 /\ Held(es) = Held(rest) \cup {r.key}
      <4>1. rest \in Seq(Entries)
        BY <3>3
      <4>2. Len(Append(rest, r)) = Len(rest) + 1 /\ Held(Append(rest, r)) = Held(rest) \cup {r.key}
        BY <4>1, Appended
      <4>. QED
        BY <3>3, <4>2, Zenon
    <3>. QED
      BY <2>1, <2>3, <2>8, <3>1, <3>2, <3>4
  <2>14. Len(entries') <= MaxSize
    BY <1>0, <1>3, <2>8, <2>13
  <2>15. \A j \in Keys \ Held(entries') : Gone(j)'
    BY <1>10, <2>1, <2>13
  <2>. QED
    BY <1>0, <1>4, <1>5, <1>6, <1>8, <1>11, <2>1, <2>6, <2>12, <2>14, <2>15 DEF CacheInv
<1>12. CASE ~answer'
  <2>1. /\ k \notin Held(live) /\ entries' = Trim(Append(live, [key |-> k, at |-> now]))
        /\ accepted' = [accepted EXCEPT ![k] = now]
    BY <1>4, <1>12
  <2>2. /\ accepted' \in [Keys -> Stamps] /\ accepted'[k] = now
        /\ \A j \in Keys \ {k} : accepted'[j] = accepted[j]
    BY <1>0, <2>1 DEF Stamps
  <2>3. PICK full : full = Append(live, [key |-> k, at |-> now])
    OBVIOUS
  <2>4. InOrder(full, asked', accepted', since', now)
    <3>1. now <= now
      BY <1>0
    <3>. QED
      BY <1>0, <1>2, <1>4, <2>1, <2>2, <2>3, <3>1, AskedIsLast, Zenon
  <2>5. /\ full \in Seq(Entries) /\ Len(full) = Len(live) + 1 /\ Held(full) = Held(live) \cup {k}
        /\ full[Len(live) + 1].key = k
    <3>1. [key |-> k, at |-> now] \in Entries
      BY <1>0 DEF Entries
    <3>2. PICK r \in Entries : r = [key |-> k, at |-> now]
      BY <3>1
    <3>3. live \in Seq(Entries) /\ full = Append(live, r)
      BY <1>3, <2>3, <3>2
    <3>4. /\ full \in Seq(Entries) /\ Len(full) = Len(live) + 1
          /\ full[Len(live) + 1] = r /\ Held(full) = Held(live) \cup {r.key}
      <4>1. live \in Seq(Entries)
        BY <1>3
      <4>2. /\ Append(live, r) \in Seq(Entries) /\ Len(Append(live, r)) = Len(live) + 1
            /\ Append(live, r)[Len(live) + 1] = r
            /\ Held(Append(live, r)) = Held(live) \cup {r.key}
        BY <4>1, Appended
      <4>. QED
        BY <3>3, <4>2, Zenon
    <3>5. r.key = k
      BY <3>2
    <3>. QED
      BY <3>4, <3>5
  <2>6. Gone(k)
    BY <1>9, <2>1
  <2>7. CASE Len(full) <= MaxSize
    <3>1. entries' = full
      BY <1>0, <1>3, <2>1, <2>3, <2>5, <2>7 DEF Trim
    <3>2. \A j \in Keys \ Held(entries') : Gone(j)'
      BY <1>10, <2>2, <2>5, <3>1
    <3>. QED
      BY <1>0, <1>4, <1>5, <1>6, <1>8, <1>12, <2>2, <2>4, <2>6, <2>7, <3>1, <3>2 DEF CacheInv
  <2>8. CASE ~ (Len(full) <= MaxSize)
    <3>1. Len(full) = MaxSize + 1 /\ full # <<>> /\ entries' = Tail(full)
      BY <1>0, <1>3, <2>1, <2>3, <2>5, <2>8 DEF Trim
    <3>2. IsRest(entries', full, 1)
      BY <2>5, <3>1, TailIsRest
    <3>3. InOrder(entries', asked', accepted', since', now)
      BY <2>4, <3>2, RestInOrder
    <3>4. /\ Len(entries') = MaxSize /\ entries' \in Seq(Entries)
          /\ \A n \in 1 .. Len(entries') : 1 + n \in 1 .. Len(full) /\ entries'[n] = full[1 + n]
          /\ \A n \in 1 .. Len(full) : n > 1 => full[n].key \in Held(entries')
      <4>1. Len(entries') = MaxSize /\ entries' \in Seq(Entries)
        BY <1>0, <3>1, <3>2 DEF IsRest
      <4>2. PICK es : es = entries'
        OBVIOUS
      <4>3. full \in Seq(Entries) /\ IsRest(es, full, 1)
        BY <2>5, <3>2, <4>2
      <4>4. /\ \A n \in 1 .. Len(es) : 1 + n \in 1 .. Len(full) /\ es[n] = full[1 + n]
            /\ \A n \in 1 .. Len(full) : n > 1 => full[n].key \in Held(es)
        BY <4>3, RestFacts
      <4>. QED
        BY <4>1, <4>2, <4>4, Zenon
    \* What the oldest key makes room for was all asked about after it.
    <3>5. ASSUME NEW j \in Keys \ Held(entries'), j \in Held(full) PROVE Gone(j)'
      <4>1. PICK n \in 1 .. Len(full) : full[n].key = j
        BY <2>5, <3>5, HeldAt, Zenon
      <4>2. n = 1
        BY <2>5, <3>4, <3>5, <4>1
      <4>3. Held(entries') \subseteq since'[j]
        <5> SUFFICES ASSUME NEW i \in Held(entries') PROVE i \in since'[j]
          OBVIOUS
        <5>1. PICK m \in 1 .. Len(entries') : entries'[m].key = i
          BY <3>4, HeldAt, Zenon
        <5>2. 1 + m \in 1 .. Len(full) /\ 1 < 1 + m /\ full[1 + m].key = i
          BY <3>4, <5>1
        <5>. QED
          BY <2>4, <4>1, <4>2, <5>2 DEF InOrder
      <4>4. IsFiniteSet(Held(entries')) /\ Cardinality(Held(entries')) = MaxSize
        <5>1. \A m, q \in 1 .. Len(entries') : m < q => entries'[m].key # entries'[q].key
          BY <3>3 DEF InOrder
        <5>. QED
          BY <3>4, <5>1, HeldCount
      <4>5. Cardinality(since'[j]) >= MaxSize
        <5>1. IsFiniteSet(since'[j]) /\ Cardinality(since'[j]) \in Nat
          BY <1>8, <3>5, FS_CardinalityType
        <5>. QED
          BY <1>0, <4>3, <4>4, <5>1, FS_Subset
      <4>. QED
        BY <4>5 DEF Gone
    <3>6. k \in Held(entries')
      <4>1. Len(live) + 1 \in 1 .. Len(full) /\ Len(live) + 1 > 1
        BY <1>0, <1>3, <2>5, <3>1
      <4>. QED
        BY <2>5, <3>4, <4>1
    <3>7. \A j \in Keys \ Held(entries') : Gone(j)'
      <4> SUFFICES ASSUME NEW j \in Keys \ Held(entries') PROVE Gone(j)'
        OBVIOUS
      <4>1. CASE j \in Held(full)
        BY <3>5, <4>1
      <4>2. CASE j \notin Held(full)
        BY <1>10, <2>2, <2>5, <3>6, <4>2
      <4>. QED
        BY <4>1, <4>2
    <3>8. Len(entries') <= MaxSize
      BY <1>0, <3>4
    <3>. QED
      BY <1>0, <1>4, <1>5, <1>6, <1>8, <1>12, <2>2, <2>6, <3>3, <3>7, <3>8 DEF CacheInv
  <2>. QED
    BY <2>7, <2>8
<1>. QED
  BY <1>4, <1>11, <1>12

-------------------------------------------------------------------------------
(* The theorems.                                                           *)

LEMMA CacheInvTypeOK == CacheInv => TypeOK
<1> SUFFICES ASSUME CacheInv PROVE TypeOK
  OBVIOUS
<1>1. entries \in Seq(Entries) /\ \A m, n \in 1 .. Len(entries) :
        m < n => entries[m].key # entries[n].key
  BY DEF CacheInv, InOrder
<1>2. Cardinality(Held(entries)) = Len(entries)
  BY <1>1, HeldCount
<1>. QED
  BY <1>1, <1>2 DEF CacheInv, TypeOK, Entries, Stamps

LEMMA InitCacheInv == Init => CacheInv
<1> SUFFICES ASSUME Init PROVE CacheInv
  OBVIOUS
<1>1. /\ now = 0 /\ entries = <<>> /\ answer = FALSE /\ MaxTime \in Nat /\ MaxSize \in Nat
      /\ asked = [k \in Keys |-> Never] /\ accepted = [k \in Keys |-> Never]
      /\ since = [k \in Keys |-> {}]
  BY ParameterAssumption DEF Init
<1>2. InOrder(entries, asked, accepted, since, now) /\ Len(entries) <= MaxSize
  <2>1. entries \in Seq(Entries) /\ Len(entries) = 0
    BY <1>1
  <2>2. \A n \in 1 .. Len(entries) : FALSE
    BY <2>1
  <2>3. InOrder(entries, asked, accepted, since, now)
    BY <2>1, <2>2, Zenon DEF InOrder
  <2>. QED
    BY <1>1, <2>1, <2>3
<1>3. \A k \in Keys : Gone(k) /\ asked[k] <= now /\ IsFiniteSet(since[k])
  BY <1>1, FS_EmptySet DEF Gone, Never
<1>4. asked \in [Keys -> Stamps] /\ accepted \in [Keys -> Stamps] /\ since \in [Keys -> SUBSET Keys]
  BY <1>1 DEF Stamps
<1>5. now \in 0 .. MaxTime
  BY <1>1
<1>6. answer \in BOOLEAN
  BY <1>1, Zenon
<1>. QED
  BY <1>2, <1>3, <1>4, <1>5, <1>6, Zenon DEF CacheInv

\* Time passes: an expired key stays expired.
LEMMA NextTick == ASSUME CacheInv, Tick PROVE CacheInv'
<1>1. /\ now < MaxTime /\ now' = now + 1 /\ UNCHANGED <<entries, answer, asked, accepted, since>>
      /\ now \in Nat /\ MaxTime \in Nat /\ Ttl \in Nat
  BY ParameterAssumption DEF CacheInv, Tick
<1>2. asked \in [Keys -> Stamps] /\ accepted \in [Keys -> Stamps] /\ since \in [Keys -> SUBSET Keys]
  BY DEF CacheInv
<1>3. \A k \in Keys : asked'[k] <= now'
  BY <1>1, <1>2 DEF CacheInv, Stamps, Never
<1>4. ASSUME NEW k \in Keys, Gone(k) PROVE Gone(k)'
  BY <1>1, <1>2, <1>4 DEF Gone, Stamps, Never
<1>5. InOrder(entries', asked', accepted', since', now')
  <2>1. InOrder(entries, asked, accepted, since, now)
    BY DEF CacheInv
  <2>2. entries \in Seq(Entries) /\ Len(entries) \in Nat
        /\ \A n \in 1 .. Len(entries) : entries[n].key \in Keys /\ entries[n].at \in Nat
    BY <2>1, ListFacts DEF InOrder
  <2>3. ASSUME NEW n \in 1 .. Len(entries)
        PROVE  /\ entries[n].at = accepted[entries[n].key]
               /\ entries[n].at <= asked[entries[n].key] /\ asked[entries[n].key] <= now'
    <3>1. /\ entries[n].at = accepted[entries[n].key]
          /\ entries[n].at <= asked[entries[n].key] /\ asked[entries[n].key] <= now
      BY <2>1, Zenon DEF InOrder
    <3>2. asked[entries[n].key] \in Int
      BY <1>2, <2>2 DEF Stamps, Never
    <3>. QED
      BY <1>1, <3>1, <3>2
  <2>4. \A m, n \in 1 .. Len(entries) : m < n =>
          /\ entries[m].key # entries[n].key /\ asked[entries[m].key] <= asked[entries[n].key]
          /\ entries[n].key \in since[entries[m].key]
    BY <2>1, Zenon DEF InOrder
  <2>5. InOrder(entries, asked, accepted, since, now')
    BY <2>2, <2>3, <2>4, Zenon DEF InOrder
  <2>. QED
    BY <1>1, <2>5, Zenon
<1>. QED
  BY <1>1, <1>3, <1>4, <1>5 DEF CacheInv

LEMMA NextCacheInv == CacheInv /\ [Next]_vars => CacheInv'
<1> SUFFICES ASSUME CacheInv, [Next]_vars PROVE CacheInv'
  OBVIOUS
<1>1. CASE Tick
  BY <1>1, NextTick
<1>2. ASSUME NEW k \in Keys, Ask(k) PROVE CacheInv'
  BY <1>2, NextAsk
<1>3. CASE UNCHANGED vars
  BY <1>3 DEF vars, CacheInv, InOrder, Gone, Held
<1>. QED
  BY <1>1, <1>2, <1>3 DEF Next

LEMMA AlwaysCacheInv == Spec => []CacheInv
<1>. QED
  BY InitCacheInv, NextCacheInv, PTL DEF Spec

\* The cache never holds a key twice or more than MaxSize entries, whatever is asked
\* and however the clock moves (OrderedDict and the trim in seen_recently).
THEOREM CacheTypeCorrect == Spec => []TypeOK
<1>. QED
  BY AlwaysCacheInv, CacheInvTypeOK, PTL

\* seen_recently answers yes only for a key that was asked about within the last Ttl:
\* the entry at the front is not older than Ttl and was asked about before the one found.
THEOREM DuplicatesAreRecent == Spec => DuplicateMeansAskedWithinTtl
<1>1. CacheInv /\ [Next]_vars =>
        [\A k \in Keys : Ask(k) /\ answer' => asked[k] # Never /\ now - asked[k] <= Ttl]_vars
  BY NextAsk
<1>. QED
  BY <1>1, AlwaysCacheInv, PTL DEF Spec, DuplicateMeansAskedWithinTtl

\* seen_recently answers no about a key it was asked about before only when that key was
\* entered more than Ttl ago, or MaxSize other keys were asked about after it.
THEOREM ForgetsForCause == Spec => ForgottenForCause
<1>1. CacheInv /\ [Next]_vars =>
        [\A k \in Keys : Ask(k) /\ ~answer' =>
            \/ asked[k] = Never
            \/ now - accepted[k] > Ttl
            \/ Cardinality(since[k]) >= MaxSize]_vars
  BY NextAsk DEF Gone
<1>. QED
  BY <1>1, AlwaysCacheInv, PTL DEF Spec, ForgottenForCause
===============================================================================
