--------------------------- MODULE IpRangesProofs ---------------------------
(***************************************************************************)
(* What each piece of list surgery of the IPAM does to the set of free     *)
(* addresses, for every address and every well-formed free list.           *)
(***************************************************************************)
EXTENDS IpRanges, TLAPS, SequenceTheorems, WellFoundedInduction, FiniteSetTheorems

-----------------------------------------------------------------------------
(* Lists.                                                                  *)

\* A non-empty set of indices has a smallest element, and Min finds it.
LEMMA MinOfIndices ==
    ASSUME NEW n \in Nat, NEW S \in SUBSET (1 .. n), S # {}
    PROVE  Min(S) \in S /\ \A y \in S : Min(S) <= y
<1>. DEFINE Below(x) == {y \in S : y < x}
            F == {Below(x) : x \in S}
<1>1. IsFiniteSet(S)
  <2>1. IsFiniteSet(1 .. n)
    BY FS_Interval
  <2>. QED
    BY <2>1, FS_Subset
<1>2. F \subseteq FiniteSubsetsOf(S) /\ F # {}
  <2>1. \A x \in S : IsFiniteSet(Below(x))
    BY <1>1, FS_Subset
  <2>. QED
    BY <2>1 DEF FiniteSubsetsOf
<1>3. PICK B \in F : \A C \in F : <<C, B>> \notin StrictSubsetOrdering(S)
  <2>. HIDE DEF F
  <2>. QED
    BY <1>1, <1>2, FS_StrictSubsetOrderingWellFounded, WFMin
<1>4. PICK x \in S : B = Below(x)
  BY <1>3
<1>5. \A y \in S : x <= y
  <2>. SUFFICES ASSUME NEW y \in S, y < x PROVE FALSE
    OBVIOUS
  <2>1. \A z \in Below(y) : z \in S /\ z < x
    OBVIOUS
  <2>2. y \in Below(x) /\ y \notin Below(y)
    OBVIOUS
  <2>3. <<Below(y), Below(x)>> \in StrictSubsetOrdering(S)
    BY <2>1, <2>2 DEF StrictSubsetOrdering
  <2>. QED
    BY <1>3, <1>4, <2>3
<1>. QED
  BY <1>5 DEF Min

\* The first index that meets a condition, and the loop that ran to its end.
LEMMA FirstIndexOf ==
    ASSUME NEW n \in Nat, NEW I \in SUBSET (1 .. n)
    PROVE  /\ I = {} => FirstIndex(I) = 0
           /\ I # {} => /\ FirstIndex(I) \in I
                        /\ FirstIndex(I) # 0
                        /\ \A j \in I : FirstIndex(I) <= j
<1>1. CASE I = {}
  BY <1>1 DEF FirstIndex
<1>2. CASE I # {}
  <2>1. Min(I) \in I /\ \A j \in I : Min(I) <= j
    BY <1>2, MinOfIndices
  <2>2. FirstIndex(I) = Min(I)
    BY <1>2 DEF FirstIndex
  <2>3. FirstIndex(I) # 0
    <3>1. Min(I) \in 1 .. n
      BY <2>1
    <3>. QED
      BY <2>2, <3>1
  <2>. QED
    BY <1>2, <2>1, <2>2, <2>3
<1>. QED
  BY <1>1, <1>2

LEMMA RemoveAtIndex ==
    ASSUME NEW S, NEW s \in Seq(S), NEW i \in 1 .. Len(s)
    PROVE  /\ RemoveAt(s, i) \in Seq(S)
           /\ Len(RemoveAt(s, i)) = Len(s) - 1
           /\ \A k \in 1 .. Len(s) - 1 :
                 RemoveAt(s, i)[k] = IF k < i THEN s[k] ELSE s[k + 1]
<1>. DEFINE l == SubSeq(s, 1, i - 1)
            r == SubSeq(s, i + 1, Len(s))
<1>1. /\ l \in Seq(S)
      /\ Len(l) = i - 1
      /\ \A k \in 1 .. i - 1 : l[k] = s[k]
  BY SubSeqProperties
<1>2. /\ r \in Seq(S)
      /\ Len(r) = Len(s) - i
      /\ \A k \in 1 .. Len(s) - i : r[k] = s[i + k]
  BY SubSeqProperties
<1>3. RemoveAt(s, i) = l \o r
  BY DEF RemoveAt
<1>. HIDE DEF l, r
<1>4. /\ l \o r \in Seq(S)
      /\ Len(l \o r) = Len(l) + Len(r)
      /\ \A k \in 1 .. Len(l) + Len(r) :
            (l \o r)[k] = IF k <= Len(l) THEN l[k] ELSE r[k - Len(l)]
  BY <1>1, <1>2, ConcatProperties
<1>. QED
  BY <1>1, <1>2, <1>3, <1>4

LEMMA InsertAtIndex ==
    ASSUME NEW S, NEW s \in Seq(S), NEW i \in 1 .. Len(s) + 1, NEW e \in S
    PROVE  /\ InsertAt(s, i, e) \in Seq(S)
           /\ Len(InsertAt(s, i, e)) = Len(s) + 1
           /\ \A k \in 1 .. Len(s) + 1 :
                 InsertAt(s, i, e)[k] = IF k < i THEN s[k]
                                        ELSE IF k = i THEN e ELSE s[k - 1]
<1>. DEFINE l == SubSeq(s, 1, i - 1)
            r == SubSeq(s, i, Len(s))
            m == l \o <<e>>
<1>1. /\ l \in Seq(S)
      /\ Len(l) = i - 1
      /\ \A k \in 1 .. i - 1 : l[k] = s[k]
  BY SubSeqProperties
<1>2. /\ r \in Seq(S)
      /\ Len(r) = Len(s) + 1 - i
      /\ \A k \in 1 .. Len(s) + 1 - i : r[k] = s[i + k - 1]
  BY SubSeqProperties
<1>3. <<e>> \in Seq(S) /\ Len(<<e>>) = 1 /\ <<e>>[1] = e
  OBVIOUS
<1>4. InsertAt(s, i, e) = m \o r
  BY DEF InsertAt
<1>. HIDE DEF l, r
<1>5. /\ m \in Seq(S)
      /\ Len(m) = i
      /\ \A k \in 1 .. i : m[k] = IF k < i THEN s[k] ELSE e
  BY <1>1, <1>3, ConcatProperties
<1>. HIDE DEF m
<1>6. /\ m \o r \in Seq(S)
      /\ Len(m \o r) = Len(m) + Len(r)
      /\ \A k \in 1 .. Len(m) + Len(r) :
            (m \o r)[k] = IF k <= Len(m) THEN m[k] ELSE r[k - Len(m)]
  BY <1>2, <1>5, ConcatProperties
<1>. QED
  BY <1>2, <1>4, <1>5, <1>6

-----------------------------------------------------------------------------
(* Free lists.                                                             *)

LEMMA FreeAddressesOf ==
    ASSUME NEW pool \in Seq(IpRange), NEW a
    PROVE  a \in FreeAddresses(pool) <=>
               a \in Int /\ \E i \in 1 .. Len(pool) : Within(a, pool[i])
<1>1. \A i \in 1 .. Len(pool) : pool[i][1] \in Int /\ pool[i][2] \in Int
  BY DEF IpRange
<1>2. DOMAIN pool = 1 .. Len(pool)
  OBVIOUS
<1>. QED
  BY <1>1, <1>2 DEF FreeAddresses, Within

\* The facts about the ends of the ranges that the cases below use.
LEMMA RangeEnds ==
    ASSUME NEW pool \in Seq(IpRange)
    PROVE  /\ DOMAIN pool = 1 .. Len(pool)
           /\ Len(pool) \in Nat
           /\ \A j \in 1 .. Len(pool) : pool[j][1] \in Int /\ pool[j][2] \in Int
BY DEF IpRange

\* An address of some range other than the i-th.
InOther(pool, i, x) == \E k \in 1 .. Len(pool) : k # i /\ Within(x, pool[k])

\* Dropping a range takes its addresses, and only those, out.
LEMMA RemoveRange ==
    ASSUME NEW pool, WellFormed(pool), NEW i \in 1 .. Len(pool)
    PROVE  /\ WellFormed(RemoveAt(pool, i))
           /\ \A x \in Int : x \in FreeAddresses(RemoveAt(pool, i)) <=>
                 InOther(pool, i, x)
<1>. DEFINE q == RemoveAt(pool, i)
<1>1. /\ pool \in Seq(IpRange)
      /\ Len(pool) \in Nat
      /\ \A j \in 1 .. Len(pool) : pool[j][1] \in Int /\ pool[j][2] \in Int
      /\ \A j \in 1 .. Len(pool) : pool[j][1] <= pool[j][2]
      /\ \A j, k \in 1 .. Len(pool) : j < k => pool[j][2] + 1 < pool[k][1]
  BY RangeEnds DEF WellFormed
<1>2. /\ q \in Seq(IpRange)
      /\ Len(q) = Len(pool) - 1
      /\ \A k \in 1 .. Len(pool) - 1 : q[k] = IF k < i THEN pool[k] ELSE pool[k + 1]
  BY <1>1, RemoveAtIndex
<1>. HIDE DEF q
<1>3. ASSUME NEW j \in 1 .. Len(q) PROVE q[j][1] <= q[j][2]
  <2>1. CASE j < i
    BY <1>1, <1>2, <2>1
  <2>2. CASE ~(j < i)
    BY <1>1, <1>2, <2>2
  <2>. QED
    BY <2>1, <2>2
<1>4. ASSUME NEW j \in 1 .. Len(q), NEW k \in 1 .. Len(q), j < k
      PROVE  q[j][2] + 1 < q[k][1]
  <2>. DEFINE jj == IF j < i THEN j ELSE j + 1
              kk == IF k < i THEN k ELSE k + 1
  <2>1. jj \in 1 .. Len(pool) /\ kk \in 1 .. Len(pool) /\ jj < kk
    BY <1>1, <1>2, <1>4
  <2>2. q[j] = pool[jj] /\ q[k] = pool[kk]
    BY <1>2
  <2>. HIDE DEF jj, kk
  <2>. QED
    BY <1>1, <2>1, <2>2
<1>5. WellFormed(q)
  BY <1>2, <1>3, <1>4 DEF WellFormed
<1>6. ASSUME NEW x \in Int
      PROVE  x \in FreeAddresses(q) <=>
                 InOther(pool, i, x)
  <2>1. ASSUME NEW k \in 1 .. Len(q), Within(x, q[k])
        PROVE  \E m \in 1 .. Len(pool) : m # i /\ Within(x, pool[m])
    <3>1. CASE k < i
      BY <1>1, <1>2, <2>1, <3>1
    <3>2. CASE ~(k < i)
      <4>1. q[k] = pool[k + 1] /\ k + 1 \in 1 .. Len(pool) /\ k + 1 # i
        BY <1>1, <1>2, <3>2
      <4>. QED
        BY <2>1, <4>1
    <3>. QED
      BY <3>1, <3>2
  <2>2. ASSUME NEW m \in 1 .. Len(pool), m # i, Within(x, pool[m])
        PROVE  \E k \in 1 .. Len(q) : Within(x, q[k])
    <3>1. CASE m < i
      BY <1>1, <1>2, <2>2, <3>1
    <3>2. CASE ~(m < i)
      <4>1. q[m - 1] = pool[m] /\ m - 1 \in 1 .. Len(q)
        BY <1>1, <1>2, <2>2, <3>2
      <4>. QED
        BY <2>2, <4>1
    <3>. QED
      BY <3>1, <3>2
  <2>. QED
    BY <1>2, <2>1, <2>2, FreeAddressesOf DEF InOther
<1>. QED
  BY <1>5, <1>6 DEF q

\* Replacing a range by one that fits between its neighbours.
LEMMA ReplaceRange ==
    ASSUME NEW pool, WellFormed(pool), NEW i \in 1 .. Len(pool),
           NEW s \in Int, NEW e \in Int, s <= e,
           \A k \in 1 .. Len(pool) : k < i => pool[k][2] + 1 < s,
           \A k \in 1 .. Len(pool) : i < k => e + 1 < pool[k][1]
    PROVE  /\ WellFormed(ReplaceAt(pool, i, <<s, e>>))
           /\ Len(ReplaceAt(pool, i, <<s, e>>)) = Len(pool)
           /\ \A k \in 1 .. Len(pool) :
                 ReplaceAt(pool, i, <<s, e>>)[k] = IF k = i THEN <<s, e>> ELSE pool[k]
           /\ \A x \in Int : x \in FreeAddresses(ReplaceAt(pool, i, <<s, e>>)) <=>
                 \/ s <= x /\ x <= e
                 \/ InOther(pool, i, x)
<1>. DEFINE q == ReplaceAt(pool, i, <<s, e>>)
<1>1. /\ pool \in Seq(IpRange)
      /\ Len(pool) \in Nat
      /\ \A j \in 1 .. Len(pool) : pool[j][1] \in Int /\ pool[j][2] \in Int
      /\ \A j \in 1 .. Len(pool) : pool[j][1] <= pool[j][2]
      /\ \A j, k \in 1 .. Len(pool) : j < k => pool[j][2] + 1 < pool[k][1]
  BY RangeEnds DEF WellFormed
<1>2. /\ q \in Seq(IpRange)
      /\ Len(q) = Len(pool)
      /\ \A k \in 1 .. Len(pool) : q[k] = IF k = i THEN <<s, e>> ELSE pool[k]
  <2>1. <<s, e>> \in IpRange
    BY DEF IpRange
  <2>. QED
    BY <1>1, <2>1, ExceptSeq DEF ReplaceAt
<1>. HIDE DEF q
<1>3. q[i][1] = s /\ q[i][2] = e
  BY <1>2
<1>4. \A j \in 1 .. Len(q) : j # i => q[j] = pool[j]
  BY <1>2
<1>5. ASSUME NEW j \in 1 .. Len(q) PROVE q[j][1] <= q[j][2]
  BY <1>1, <1>2, <1>3, <1>4
<1>6. ASSUME NEW j \in 1 .. Len(q), NEW k \in 1 .. Len(q), j < k
      PROVE  q[j][2] + 1 < q[k][1]
  <2>1. CASE j = i
    BY <1>2, <1>3, <1>4, <1>6, <2>1
  <2>2. CASE k = i
    BY <1>2, <1>3, <1>4, <1>6, <2>2
  <2>3. CASE j # i /\ k # i
    BY <1>1, <1>2, <1>4, <1>6, <2>3
  <2>. QED
    BY <2>1, <2>2, <2>3
<1>7. WellFormed(q)
  BY <1>2, <1>5, <1>6 DEF WellFormed
<1>8. ASSUME NEW x \in Int
      PROVE  x \in FreeAddresses(q) <=>
                 \/ s <= x /\ x <= e
                 \/ InOther(pool, i, x)
  <2>1. Within(x, q[i]) <=> s <= x /\ x <= e
    BY <1>3 DEF Within
  <2>2. x \in FreeAddresses(q) <=> \E k \in 1 .. Len(q) : Within(x, q[k])
    BY <1>2, FreeAddressesOf
  <2>. QED
    BY <1>2, <1>4, <2>1, <2>2 DEF InOther
<1>. QED
  BY <1>2, <1>7, <1>8 DEF q

\* Inserting a range that fits between the ranges before and after it.
LEMMA InsertRange ==
    ASSUME NEW pool, WellFormed(pool), NEW i \in 1 .. Len(pool) + 1,
           NEW s \in Int, NEW e \in Int, s <= e,
           \A k \in 1 .. Len(pool) : k < i => pool[k][2] + 1 < s,
           \A k \in 1 .. Len(pool) : i <= k => e + 1 < pool[k][1]
    PROVE  /\ WellFormed(InsertAt(pool, i, <<s, e>>))
           /\ \A x \in Int : x \in FreeAddresses(InsertAt(pool, i, <<s, e>>)) <=>
                 (s <= x /\ x <= e) \/ x \in FreeAddresses(pool)
<1>. DEFINE q == InsertAt(pool, i, <<s, e>>)
<1>1. /\ pool \in Seq(IpRange)
      /\ Len(pool) \in Nat
      /\ \A j \in 1 .. Len(pool) : pool[j][1] \in Int /\ pool[j][2] \in Int
      /\ \A j \in 1 .. Len(pool) : pool[j][1] <= pool[j][2]
      /\ \A j, k \in 1 .. Len(pool) : j < k => pool[j][2] + 1 < pool[k][1]
  BY RangeEnds DEF WellFormed
<1>2. /\ q \in Seq(IpRange)
      /\ Len(q) = Len(pool) + 1
      /\ \A k \in 1 .. Len(pool) + 1 :
            q[k] = IF k < i THEN pool[k] ELSE IF k = i THEN <<s, e>> ELSE pool[k - 1]
  <2>. DEFINE r == <<s, e>>
  <2>1. r \in IpRange
    BY DEF IpRange
  <2>2. r = <<s, e>>
    OBVIOUS
  <2>. HIDE DEF r
  <2>3. /\ InsertAt(pool, i, r) \in Seq(IpRange)
        /\ Len(InsertAt(pool, i, r)) = Len(pool) + 1
        /\ \A k \in 1 .. Len(pool) + 1 :
              InsertAt(pool, i, r)[k] =
                  IF k < i THEN pool[k] ELSE IF k = i THEN r ELSE pool[k - 1]
    BY <1>1, <2>1, InsertAtIndex
  <2>. QED
    BY <2>2, <2>3
<1>. HIDE DEF q
<1>3. i \in 1 .. Len(q) /\ q[i][1] = s /\ q[i][2] = e
  BY <1>1, <1>2
<1>4. /\ \A j \in 1 .. Len(q) : j < i => j \in 1 .. Len(pool) /\ q[j] = pool[j]
      /\ \A j \in 1 .. Len(q) : i < j => /\ j - 1 \in 1 .. Len(pool)
                                       /\ i <= j - 1
                                       /\ q[j] = pool[j - 1]
  BY <1>1, <1>2
<1>5. ASSUME NEW j \in 1 .. Len(q) PROVE q[j][1] <= q[j][2]
  <2>1. CASE j < i
    BY <1>1, <1>4, <2>1
  <2>2. CASE j = i
    BY <1>3, <2>2
  <2>3. CASE i < j
    BY <1>1, <1>4, <2>3
  <2>. QED
    BY <2>1, <2>2, <2>3
<1>6. ASSUME NEW j \in 1 .. Len(q), NEW k \in 1 .. Len(q), j < k
      PROVE  q[j][2] + 1 < q[k][1]
  <2>1. CASE k < i
    BY <1>1, <1>4, <1>6, <2>1
  <2>2. CASE k = i
    BY <1>3, <1>4, <1>6, <2>2
  <2>3. CASE j = i
    BY <1>3, <1>4, <1>6, <2>3
  <2>4. CASE j < i /\ i < k
    <3>1. q[j] = pool[j] /\ q[k] = pool[k - 1] /\ j < k - 1
      BY <1>4, <2>4
    <3>. QED
      BY <1>1, <1>4, <2>4, <3>1
  <2>5. CASE i < j
    <3>1. i < k /\ j - 1 < k - 1
      BY <1>1, <1>2, <1>6, <2>5
    <3>2. j - 1 \in 1 .. Len(pool) /\ k - 1 \in 1 .. Len(pool)
      BY <1>4, <2>5, <3>1
    <3>3. q[j] = pool[j - 1] /\ q[k] = pool[k - 1]
      BY <1>4, <2>5, <3>1
    <3>. QED
      BY <1>1, <3>1, <3>2, <3>3
  <2>. QED
    BY <1>6, <2>1, <2>2, <2>3, <2>4, <2>5
<1>7. WellFormed(q)
  BY <1>2, <1>5, <1>6 DEF WellFormed
<1>8. ASSUME NEW x \in Int
      PROVE  x \in FreeAddresses(q) <=>
                 (s <= x /\ x <= e) \/ x \in FreeAddresses(pool)
  <2>1. Within(x, q[i]) <=> s <= x /\ x <= e
    BY <1>3 DEF Within
  <2>2. ASSUME NEW k \in 1 .. Len(q), Within(x, q[k]), k # i
        PROVE  \E m \in 1 .. Len(pool) : Within(x, pool[m])
    <3>1. CASE k < i
      BY <1>4, <2>2, <3>1
    <3>2. CASE i < k
      BY <1>4, <2>2, <3>2
    <3>. QED
      BY <2>2, <3>1, <3>2
  <2>3. ASSUME NEW m \in 1 .. Len(pool), Within(x, pool[m])
        PROVE  \E k \in 1 .. Len(q) : Within(x, q[k])
    <3>1. CASE m < i
      BY <1>1, <1>2, <2>3, <3>1
    <3>2. CASE ~(m < i)
      <4>1. q[m + 1] = pool[m] /\ m + 1 \in 1 .. Len(q)
        BY <1>1, <1>2, <3>2
      <4>. QED
        BY <2>3, <4>1
    <3>. QED
      BY <3>1, <3>2
  <2>4. x \in FreeAddresses(q) <=> \E k \in 1 .. Len(q) : Within(x, q[k])
    BY <1>2, FreeAddressesOf
  <2>5. x \in FreeAddresses(pool) <=> \E k \in 1 .. Len(pool) : Within(x, pool[k])
    BY <1>1, FreeAddressesOf
  <2>. QED
    BY <1>3, <2>1, <2>2, <2>3, <2>4, <2>5
<1>. QED
  BY <1>7, <1>8 DEF q

\* Replacing a range by one inside it keeps the list well formed.
LEMMA ShrinkRange ==
    ASSUME NEW pool, WellFormed(pool), NEW i \in 1 .. Len(pool),
           NEW s \in Int, NEW e \in Int, s <= e,
           pool[i][1] <= s, e <= pool[i][2]
    PROVE  /\ \A k \in 1 .. Len(pool) : k < i => pool[k][2] + 1 < s
           /\ \A k \in 1 .. Len(pool) : i < k => e + 1 < pool[k][1]
<1>1. /\ pool \in Seq(IpRange)
      /\ Len(pool) \in Nat
      /\ \A j \in 1 .. Len(pool) : pool[j][1] \in Int /\ pool[j][2] \in Int
      /\ \A j, k \in 1 .. Len(pool) : j < k => pool[j][2] + 1 < pool[k][1]
  BY RangeEnds DEF WellFormed
<1>2. ASSUME NEW k \in 1 .. Len(pool), k < i PROVE pool[k][2] + 1 < s
  <2>1. pool[k][2] + 1 < pool[i][1]
    BY <1>1, <1>2
  <2>. QED
    BY <1>1, <2>1
<1>3. ASSUME NEW k \in 1 .. Len(pool), i < k PROVE e + 1 < pool[k][1]
  <2>1. pool[i][2] + 1 < pool[k][1]
    BY <1>1, <1>3
  <2>. QED
    BY <1>1, <2>1
<1>. QED
  BY <1>2, <1>3

(***************************************************************************)
(* Narrowing a range to a part of it.                                      *)
(***************************************************************************)
LEMMA NarrowRange ==
    ASSUME NEW pool, WellFormed(pool), NEW i \in 1 .. Len(pool),
           NEW s \in Int, NEW e \in Int, s <= e,
           pool[i][1] <= s, e <= pool[i][2]
    PROVE  /\ WellFormed(ReplaceAt(pool, i, <<s, e>>))
           /\ Len(ReplaceAt(pool, i, <<s, e>>)) = Len(pool)
           /\ \A k \in 1 .. Len(pool) :
                 ReplaceAt(pool, i, <<s, e>>)[k] = IF k = i THEN <<s, e>> ELSE pool[k]
           /\ \A x \in Int : x \in FreeAddresses(ReplaceAt(pool, i, <<s, e>>)) <=>
                 \/ s <= x /\ x <= e
                 \/ InOther(pool, i, x)
<1>1. /\ \A k \in 1 .. Len(pool) : k < i => pool[k][2] + 1 < s
      /\ \A k \in 1 .. Len(pool) : i < k => e + 1 < pool[k][1]
  BY ShrinkRange
<1>. QED
  BY <1>1, ReplaceRange

\* An address lies in at most one range of a well-formed list.
LEMMA OneRange ==
    ASSUME NEW pool, WellFormed(pool), NEW a \in Int,
           NEW i \in 1 .. Len(pool), NEW k \in 1 .. Len(pool),
           Within(a, pool[i]), Within(a, pool[k])
    PROVE  i = k
<1>1. /\ pool \in Seq(IpRange)
      /\ \A j \in 1 .. Len(pool) : pool[j][1] \in Int /\ pool[j][2] \in Int
      /\ \A j, m \in 1 .. Len(pool) : j < m => pool[j][2] + 1 < pool[m][1]
  BY RangeEnds DEF WellFormed
<1>2. CASE i < k
  BY <1>1, <1>2 DEF Within
<1>3. CASE k < i
  BY <1>1, <1>3 DEF Within
<1>. QED
  BY <1>2, <1>3

(***************************************************************************)
(* Taking an address out of the range that holds it takes that address,    *)
(* and no other, from the free ones (Ipam.occupy_ip).                      *)
(***************************************************************************)
LEMMA OccupyAtCorrect ==
    ASSUME NEW pool, WellFormed(pool), NEW i \in 1 .. Len(pool),
           NEW a \in Int, Within(a, pool[i])
    PROVE  /\ WellFormed(OccupyAt(pool, i, a))
           /\ \A x \in Int : x \in FreeAddresses(OccupyAt(pool, i, a)) <=>
                 x \in FreeAddresses(pool) /\ x # a
<1>0. PICK s \in Int, e \in Int : s = pool[i][1] /\ e = pool[i][2]
  BY RangeEnds DEF WellFormed
<1>1. /\ pool \in Seq(IpRange)
      /\ Len(pool) \in Nat
      /\ s <= a /\ a <= e
      /\ s = pool[i][1] /\ e = pool[i][2]
      /\ pool[i][1] <= s /\ s <= e /\ e <= pool[i][2]
  BY <1>0 DEF WellFormed, Within
<1>2. \A x \in Int : x \in FreeAddresses(pool) <=> (s <= x /\ x <= e) \/ InOther(pool, i, x)
  BY <1>1, FreeAddressesOf DEF Within, InOther
<1>3. ~InOther(pool, i, a)
  BY OneRange DEF InOther
<1>4. CASE s = e
  <2>1. OccupyAt(pool, i, a) = RemoveAt(pool, i)
    BY <1>0, <1>4 DEF OccupyAt
  <2>2. /\ WellFormed(RemoveAt(pool, i))
        /\ \A x \in Int : x \in FreeAddresses(RemoveAt(pool, i)) <=> InOther(pool, i, x)
    BY RemoveRange
  <2>3. \A x \in Int : (s <= x /\ x <= e) <=> x = a
    BY <1>1, <1>4
  <2>. QED
    BY <1>2, <1>3, <2>1, <2>2, <2>3
<1>5. CASE s # e /\ a = s
  <2>1. OccupyAt(pool, i, a) = ReplaceAt(pool, i, <<s + 1, e>>)
    BY <1>0, <1>5 DEF OccupyAt
  <2>2. s + 1 \in Int /\ s + 1 <= e
    BY <1>1, <1>5
  <2>. DEFINE low == s + 1
  <2>4. low \in Int /\ low <= e /\ pool[i][1] <= low
    BY <1>1, <2>2
  <2>. HIDE DEF low
  <2>5. /\ WellFormed(ReplaceAt(pool, i, <<low, e>>))
        /\ \A x \in Int : x \in FreeAddresses(ReplaceAt(pool, i, <<low, e>>)) <=>
              (low <= x /\ x <= e) \/ InOther(pool, i, x)
    BY <1>1, <2>4, NarrowRange
  <2>6. \A x \in Int : (low <= x /\ x <= e) <=> (s <= x /\ x <= e) /\ x # a
    BY <1>1, <1>5 DEF low
  <2>7. OccupyAt(pool, i, a) = ReplaceAt(pool, i, <<low, e>>)
    BY <2>1 DEF low
  <2>. QED
    BY <1>2, <1>3, <2>5, <2>6, <2>7
<1>6. CASE s # e /\ a # s /\ a = e
  <2>. DEFINE high == e - 1
  <2>1. OccupyAt(pool, i, a) = ReplaceAt(pool, i, <<s, high>>)
    BY <1>0, <1>6 DEF OccupyAt
  <2>2. high \in Int /\ s <= high /\ high <= e
    BY <1>1, <1>6
  <2>3. high <= pool[i][2]
    BY <1>1, <2>2
  <2>4. \A x \in Int : (s <= x /\ x <= high) <=> (s <= x /\ x <= e) /\ x # a
    BY <1>1, <1>6
  <2>. HIDE DEF high
  <2>5. /\ WellFormed(ReplaceAt(pool, i, <<s, high>>))
        /\ \A x \in Int : x \in FreeAddresses(ReplaceAt(pool, i, <<s, high>>)) <=>
              (s <= x /\ x <= high) \/ InOther(pool, i, x)
    BY <1>1, <2>2, <2>3, NarrowRange
  <2>. QED
    BY <1>2, <1>3, <2>1, <2>4, <2>5
<1>7. CASE s # e /\ a # s /\ a # e
  <2>. DEFINE high == a - 1
              low == a + 1
  <2>1. OccupyAt(pool, i, a) = InsertAt(ReplaceAt(pool, i, <<s, high>>), i + 1, <<low, e>>)
    BY <1>0, <1>7 DEF OccupyAt
  <2>2. /\ high \in Int /\ low \in Int
        /\ s <= high /\ high <= e /\ s <= low /\ low <= e
        /\ high + 1 < low
    BY <1>1, <1>7
  <2>3. \A x \in Int : (s <= x /\ x <= high) \/ (low <= x /\ x <= e)
                          <=> (s <= x /\ x <= e) /\ x # a
    BY <1>1, <1>7
  <2>. HIDE DEF high, low
  <2>4. high \in Int /\ s <= high /\ pool[i][1] <= s /\ high <= pool[i][2]
    BY <1>1, <2>2
  <2>5. \A k \in 1 .. Len(pool) : i < k => e + 1 < pool[k][1]
    BY <1>1, ShrinkRange
  <2>0. /\ WellFormed(ReplaceAt(pool, i, <<s, high>>))
        /\ Len(ReplaceAt(pool, i, <<s, high>>)) = Len(pool)
        /\ \A k \in 1 .. Len(pool) :
              ReplaceAt(pool, i, <<s, high>>)[k] = IF k = i THEN <<s, high>> ELSE pool[k]
        /\ \A x \in Int : x \in FreeAddresses(ReplaceAt(pool, i, <<s, high>>)) <=>
              (s <= x /\ x <= high) \/ InOther(pool, i, x)
    BY <2>4, NarrowRange
  <2>. DEFINE p == ReplaceAt(pool, i, <<s, high>>)
  <2>6. /\ WellFormed(p)
        /\ Len(p) = Len(pool)
        /\ \A k \in 1 .. Len(pool) : p[k] = IF k = i THEN <<s, high>> ELSE pool[k]
        /\ \A x \in Int : x \in FreeAddresses(p) <=>
              (s <= x /\ x <= high) \/ InOther(pool, i, x)
    BY <2>0
  <2>. HIDE DEF p
  <2>7. p[i][1] = s /\ p[i][2] = high
    BY <2>6
  <2>8. /\ p \in Seq(IpRange)
        /\ \A k \in 1 .. Len(p) : p[k][1] \in Int /\ p[k][2] \in Int
        /\ \A j, k \in 1 .. Len(p) : j < k => p[j][2] + 1 < p[k][1]
    BY <2>6, RangeEnds DEF WellFormed
  <2>. DEFINE n == i + 1
  <2>9. n \in 1 .. Len(p) + 1
    BY <1>1, <2>6
  <2>10. ASSUME NEW k \in 1 .. Len(p), k < n PROVE p[k][2] + 1 < low
    <3>1. CASE k = i
      BY <1>1, <2>2, <2>7, <3>1
    <3>2. CASE k < i
      <4>1. p[k][2] + 1 < s
        BY <2>6, <2>7, <2>8, <3>2
      <4>. QED
        BY <1>1, <2>2, <2>8, <4>1
    <3>. QED
      BY <1>1, <2>6, <2>10, <3>1, <3>2
  <2>11. ASSUME NEW k \in 1 .. Len(p), n <= k PROVE e + 1 < p[k][1]
    <3>1. i < k /\ p[k] = pool[k]
      BY <1>1, <2>6, <2>11
    <3>. QED
      BY <2>5, <2>6, <3>1
  <2>. HIDE DEF n
  <2>12. /\ WellFormed(InsertAt(p, n, <<low, e>>))
         /\ \A x \in Int : x \in FreeAddresses(InsertAt(p, n, <<low, e>>)) <=>
               (low <= x /\ x <= e) \/ x \in FreeAddresses(p)
    BY <1>1, <2>2, <2>6, <2>9, <2>10, <2>11, InsertRange
  <2>13. OccupyAt(pool, i, a) = InsertAt(p, n, <<low, e>>)
    BY <2>1 DEF n, p
  <2>. QED
    BY <1>2, <1>3, <2>3, <2>6, <2>12, <2>13
<1>. QED
  BY <1>4, <1>5, <1>6, <1>7

(***************************************************************************)
(* Ipam.occupy_ip, for every address and every well-formed free list: the  *)
(* address is no longer free, every other address is as it was, and the    *)
(* list stays well formed.                                                 *)
(***************************************************************************)
THEOREM OccupyIpCorrect ==
    ASSUME NEW pool, WellFormed(pool), NEW a \in Int
    PROVE  /\ WellFormed(OccupyIp(pool, a))
           /\ FreeAddresses(OccupyIp(pool, a)) = FreeAddresses(pool) \ {a}
<1>. DEFINE I == {j \in DOMAIN pool : Within(a, pool[j])}
            i == FirstIndex(I)
<1>1. /\ pool \in Seq(IpRange)
      /\ Len(pool) \in Nat
      /\ DOMAIN pool = 1 .. Len(pool)
  BY RangeEnds DEF WellFormed
<1>2. I \in SUBSET (1 .. Len(pool))
  BY <1>1
<1>3. CASE I = {}
  <2>1. OccupyIp(pool, a) = pool
    BY <1>1, <1>2, <1>3, FirstIndexOf DEF OccupyIp
  <2>2. a \notin FreeAddresses(pool)
    BY <1>1, <1>3, FreeAddressesOf
  <2>. QED
    BY <2>1, <2>2
<1>4. CASE I # {}
  <2>1. i \in I /\ i # 0
    <3>. HIDE DEF I
    <3>. QED
      BY <1>1, <1>2, <1>4, FirstIndexOf
  <2>2. i \in 1 .. Len(pool) /\ Within(a, pool[i])
    BY <1>1, <2>1
  <2>3. OccupyIp(pool, a) = OccupyAt(pool, i, a)
    BY <2>1 DEF OccupyIp
  <2>. HIDE DEF i
  <2>4. /\ WellFormed(OccupyAt(pool, i, a))
        /\ \A x \in Int : x \in FreeAddresses(OccupyAt(pool, i, a)) <=>
              x \in FreeAddresses(pool) /\ x # a
    BY <2>2, OccupyAtCorrect
  <2>5. FreeAddresses(pool) \subseteq Int
    BY <1>1, FreeAddressesOf
  <2>6. FreeAddresses(OccupyAt(pool, i, a)) \subseteq Int
    BY <2>4, FreeAddressesOf DEF WellFormed
  <2>. QED
    BY <2>3, <2>4, <2>5, <2>6
<1>. QED
  BY <1>3, <1>4

(***************************************************************************)
(* Ipam.allocate_ip without a target hands out the smallest free address   *)
(* and takes exactly that one.                                             *)
(***************************************************************************)
THEOREM TakeFirstCorrect ==
    ASSUME NEW pool, WellFormed(pool), pool # << >>
    PROVE  /\ FirstFree(pool) \in FreeAddresses(pool)
           /\ WellFormed(TakeFirst(pool))
           /\ FreeAddresses(TakeFirst(pool)) = FreeAddresses(pool) \ {FirstFree(pool)}
<1>. DEFINE a == FirstFree(pool)
<1>1. /\ pool \in Seq(IpRange)
      /\ Len(pool) \in Nat
      /\ 1 \in 1 .. Len(pool)
      /\ pool[1][1] \in Int /\ pool[1][2] \in Int
      /\ pool[1][1] <= pool[1][2]
  BY RangeEnds, EmptySeq DEF WellFormed
<1>2. a \in Int /\ Within(a, pool[1])
  BY <1>1 DEF FirstFree, Within
<1>3. TakeFirst(pool) = OccupyAt(pool, 1, a)
  BY DEF TakeFirst, OccupyAt, FirstFree
<1>. HIDE DEF a
<1>4. /\ WellFormed(OccupyAt(pool, 1, a))
      /\ \A x \in Int : x \in FreeAddresses(OccupyAt(pool, 1, a)) <=>
            x \in FreeAddresses(pool) /\ x # a
  BY <1>1, <1>2, OccupyAtCorrect
<1>5. FreeAddresses(pool) \subseteq Int /\ a \in FreeAddresses(pool)
  BY <1>1, <1>2, FreeAddressesOf
<1>6. FreeAddresses(OccupyAt(pool, 1, a)) \subseteq Int
  BY <1>4, FreeAddressesOf DEF WellFormed
<1>7. FreeAddresses(TakeFirst(pool)) = FreeAddresses(pool) \ {a}
  BY <1>3, <1>4, <1>5, <1>6
<1>. QED
  BY <1>3, <1>4, <1>5, <1>7 DEF a

\* Replacing a range and then dropping its successor, in either order.
LEMMA ReplaceRemove ==
    ASSUME NEW S, NEW s \in Seq(S), NEW i \in 1 .. Len(s), i + 1 \in 1 .. Len(s), NEW r \in S
    PROVE  RemoveAt(ReplaceAt(s, i, r), i + 1) = ReplaceAt(RemoveAt(s, i + 1), i, r)
<1>. DEFINE p == ReplaceAt(s, i, r)
            q == RemoveAt(s, i + 1)
            u == RemoveAt(p, i + 1)
            v == ReplaceAt(q, i, r)
<1>1. p \in Seq(S) /\ Len(p) = Len(s)
      /\ \A k \in 1 .. Len(s) : p[k] = IF k = i THEN r ELSE s[k]
  BY ExceptSeq DEF ReplaceAt
<1>2. q \in Seq(S) /\ Len(q) = Len(s) - 1
      /\ \A k \in 1 .. Len(s) - 1 : q[k] = IF k < i + 1 THEN s[k] ELSE s[k + 1]
  BY RemoveAtIndex
<1>. HIDE DEF p, q
<1>3. u \in Seq(S) /\ Len(u) = Len(s) - 1
      /\ \A k \in 1 .. Len(s) - 1 : u[k] = IF k < i + 1 THEN p[k] ELSE p[k + 1]
  BY <1>1, RemoveAtIndex
<1>4. v \in Seq(S) /\ Len(v) = Len(s) - 1
      /\ \A k \in 1 .. Len(s) - 1 : v[k] = IF k = i THEN r ELSE q[k]
  <2>1. i \in 1 .. Len(q)
    BY <1>2
  <2>. QED
    BY <1>2, <2>1, ExceptSeq DEF ReplaceAt
<1>. HIDE DEF u, v
<1>5. ASSUME NEW k \in 1 .. Len(s) - 1 PROVE u[k] = v[k]
  <2>1. CASE k < i
    BY <1>1, <1>2, <1>3, <1>4, <2>1
  <2>2. CASE k = i
    BY <1>1, <1>2, <1>3, <1>4, <2>2
  <2>3. CASE i < k
    <3>1. u[k] = p[k + 1] /\ k + 1 \in 1 .. Len(s) /\ k + 1 # i
      BY <1>3, <2>3
    <3>2. v[k] = q[k] /\ q[k] = s[k + 1]
      BY <1>2, <1>4, <2>3
    <3>. QED
      BY <1>1, <3>1, <3>2
  <2>. QED
    BY <2>1, <2>2, <2>3
<1>6. u = v
  BY <1>3, <1>4, <1>5, SeqEqual
<1>. QED
  BY <1>6 DEF u, v, p, q

\* What the ranges before the one the loop stops at say of a free-to-be address.
LEMMA BeforeStop ==
    ASSUME NEW pool, WellFormed(pool), NEW a \in Int, a \notin FreeAddresses(pool),
           NEW k \in 1 .. Len(pool), ~StopsAt(a, pool[k])
    PROVE  pool[k][2] + 1 < a
<1>1. /\ pool \in Seq(IpRange)
      /\ pool[k][1] \in Int /\ pool[k][2] \in Int
      /\ pool[k][1] <= pool[k][2]
  BY RangeEnds DEF WellFormed
<1>2. ~Within(a, pool[k])
  BY <1>1, FreeAddressesOf
<1>. QED
  BY <1>1, <1>2 DEF StopsAt, Within

(***************************************************************************)
(* Where Ipam.deallocate_ip stops, an address that is not free goes back   *)
(* in and nothing else changes.                                            *)
(***************************************************************************)
LEMMA DeallocateAtCorrect ==
    ASSUME NEW pool, WellFormed(pool), NEW a \in Int, a \notin FreeAddresses(pool),
           NEW i \in 1 .. Len(pool), StopsAt(a, pool[i]),
           \A k \in 1 .. Len(pool) : k < i => ~StopsAt(a, pool[k])
    PROVE  /\ WellFormed(DeallocateAt(pool, i, a))
           /\ \A x \in Int : x \in FreeAddresses(DeallocateAt(pool, i, a)) <=>
                 x \in FreeAddresses(pool) \/ x = a
<1>0. PICK s \in Int, e \in Int : s = pool[i][1] /\ e = pool[i][2]
  BY RangeEnds DEF WellFormed
<1>1. /\ pool \in Seq(IpRange)
      /\ Len(pool) \in Nat
      /\ s = pool[i][1] /\ e = pool[i][2] /\ s <= e
      /\ \A j \in 1 .. Len(pool) : pool[j][1] \in Int /\ pool[j][2] \in Int
      /\ \A j \in 1 .. Len(pool) : pool[j][1] <= pool[j][2]
      /\ \A j, k \in 1 .. Len(pool) : j < k => pool[j][2] + 1 < pool[k][1]
  BY <1>0, RangeEnds DEF WellFormed
<1>11. s <= e
  BY <1>1
<1>12. \A j \in 1 .. Len(pool) : pool[j][1] \in Int
  BY <1>1
<1>2. \A x \in Int : x \in FreeAddresses(pool) <=> (s <= x /\ x <= e) \/ InOther(pool, i, x)
  BY <1>1, FreeAddressesOf DEF Within, InOther
<1>3. a < s \/ a = e + 1
  <2>1. ~(s <= a /\ a <= e)
    BY <1>2
  <2>. QED
    BY <1>1, <2>1 DEF StopsAt
<1>4. \A k \in 1 .. Len(pool) : k < i => pool[k][2] + 1 < a
  BY BeforeStop
<1>5. \A k \in 1 .. Len(pool) : i < k => e + 1 < pool[k][1]
  BY <1>1
<1>6. \A k \in 1 .. Len(pool) : k < i => pool[k][2] + 1 < s
  BY <1>1
<1>7. CASE a < s - 1
  <2>1. DeallocateAt(pool, i, a) = InsertAt(pool, i, <<a, a>>)
    BY <1>0, <1>7 DEF DeallocateAt
  <2>2. ASSUME NEW k \in 1 .. Len(pool), i <= k PROVE a + 1 < pool[k][1]
    <3>1. CASE i = k
      BY <1>0, <1>7, <3>1
    <3>2. CASE i < k
      <4>1. e + 1 < pool[k][1] /\ pool[k][1] \in Int
        BY <1>5, <1>12, <3>2
      <4>. QED
        BY <1>7, <1>11, <4>1
    <3>. QED
      BY <2>2, <3>1, <3>2
  <2>3. i \in 1 .. Len(pool) + 1
    BY <1>1
  <2>4. /\ WellFormed(InsertAt(pool, i, <<a, a>>))
        /\ \A x \in Int : x \in FreeAddresses(InsertAt(pool, i, <<a, a>>)) <=>
              (a <= x /\ x <= a) \/ x \in FreeAddresses(pool)
    BY <1>4, <2>2, <2>3, InsertRange
  <2>5. \A x \in Int : (a <= x /\ x <= a) <=> x = a
    OBVIOUS
  <2>. QED
    BY <2>1, <2>4, <2>5
<1>8. CASE a = s - 1
  <2>1. DeallocateAt(pool, i, a) = ReplaceAt(pool, i, <<a, e>>)
    BY <1>0, <1>8 DEF DeallocateAt
  <2>2. a <= e
    BY <1>8, <1>11
  <2>3. /\ WellFormed(ReplaceAt(pool, i, <<a, e>>))
        /\ \A x \in Int : x \in FreeAddresses(ReplaceAt(pool, i, <<a, e>>)) <=>
              (a <= x /\ x <= e) \/ InOther(pool, i, x)
    BY <1>4, <1>5, <2>2, ReplaceRange
  <2>4. \A x \in Int : (a <= x /\ x <= e) <=> (s <= x /\ x <= e) \/ x = a
    BY <1>8, <1>11
  <2>. QED
    BY <1>2, <2>1, <2>3, <2>4
<1>9. CASE a = e + 1 /\ ~(i < Len(pool) /\ pool[i + 1][1] - 1 = a)
  <2>1. ~(a < s - 1) /\ a # s - 1
    BY <1>9, <1>11
  <2>2. DeallocateAt(pool, i, a) = ReplaceAt(pool, i, <<s, a>>)
    BY <1>0, <1>9, <2>1 DEF DeallocateAt
  <2>3. ASSUME NEW k \in 1 .. Len(pool), i < k PROVE a + 1 < pool[k][1]
    <3>1. i + 1 \in 1 .. Len(pool) /\ i < Len(pool) /\ i < i + 1
      BY <1>1, <2>3
    <3>2. a + 1 < pool[i + 1][1]
      <4>1. pool[i + 1][1] \in Int /\ e + 1 < pool[i + 1][1]
        BY <1>1, <1>5, <3>1
      <4>. QED
        BY <1>9, <3>1, <4>1
    <3>3. CASE k = i + 1
      BY <3>2, <3>3
    <3>4. CASE i + 1 < k
      <4>. DEFINE n == i + 1
      <4>1. n \in 1 .. Len(pool) /\ n < k /\ a + 1 < pool[n][1]
        BY <3>1, <3>2, <3>4
      <4>. HIDE DEF n
      <4>2. /\ pool[n][1] \in Int /\ pool[n][2] \in Int /\ pool[k][1] \in Int
            /\ pool[n][1] <= pool[n][2] /\ pool[n][2] + 1 < pool[k][1]
        BY <1>1, <4>1
      <4>. QED
        BY <4>1, <4>2
    <3>. QED
      BY <1>1, <2>3, <3>3, <3>4
  <2>4. s <= a
    BY <1>9, <1>11
  <2>5. /\ WellFormed(ReplaceAt(pool, i, <<s, a>>))
        /\ \A x \in Int : x \in FreeAddresses(ReplaceAt(pool, i, <<s, a>>)) <=>
              (s <= x /\ x <= a) \/ InOther(pool, i, x)
    BY <1>6, <2>3, <2>4, ReplaceRange
  <2>6. \A x \in Int : (s <= x /\ x <= a) <=> (s <= x /\ x <= e) \/ x = a
    BY <1>9, <1>11
  <2>. QED
    BY <1>2, <2>2, <2>5, <2>6
<1>10. CASE a = e + 1 /\ i < Len(pool) /\ pool[i + 1][1] - 1 = a
  <2>. DEFINE n == i + 1
  <2>1. n \in 1 .. Len(pool) /\ i < n /\ n # i
    BY <1>1, <1>10
  <2>2. PICK f \in Int : f = pool[n][2]
    BY <1>1, <2>1
  <2>3. ~(a < s - 1) /\ a # s - 1
    BY <1>10, <1>11
  <2>4. DeallocateAt(pool, i, a) = RemoveAt(ReplaceAt(pool, i, <<s, f>>), n)
    BY <1>0, <1>10, <2>2, <2>3 DEF DeallocateAt
  <2>5. pool[n][1] = a + 1 /\ a + 1 <= f
    <3>1. pool[n][1] \in Int /\ pool[n][1] <= pool[n][2]
      BY <1>1, <2>1
    <3>2. pool[n][1] - 1 = a
      BY <1>10
    <3>. HIDE DEF n
    <3>. QED
      BY <2>2, <3>1, <3>2
  <2>. DEFINE q == RemoveAt(pool, n)
  <2>6. DeallocateAt(pool, i, a) = ReplaceAt(q, i, <<s, f>>)
    <3>. DEFINE r == <<s, f>>
    <3>1. r \in IpRange
      BY DEF IpRange
    <3>. HIDE DEF r
    <3>2. RemoveAt(ReplaceAt(pool, i, r), n) = ReplaceAt(q, i, r)
      BY <1>1, <2>1, <3>1, ReplaceRemove
    <3>. QED
      BY <2>4, <3>2 DEF r
  <2>. HIDE DEF n
  <2>7. /\ WellFormed(q)
        /\ \A x \in Int : x \in FreeAddresses(q) <=> InOther(pool, n, x)
    BY <2>1, RemoveRange
  <2>8. /\ Len(q) = Len(pool) - 1
        /\ \A k \in 1 .. Len(pool) - 1 : q[k] = IF k < n THEN pool[k] ELSE pool[k + 1]
    BY <1>1, <2>1, RemoveAtIndex
  <2>9. /\ q \in Seq(IpRange)
        /\ i \in 1 .. Len(q)
        /\ q[i] = pool[i]
    BY <1>1, <2>1, <2>7, <2>8 DEF WellFormed, n
  <2>. HIDE DEF q
  <2>10. ASSUME NEW k \in 1 .. Len(q), k < i PROVE q[k][2] + 1 < s
    BY <1>6, <2>1, <2>8, <2>10
  <2>11. ASSUME NEW k \in 1 .. Len(q), i < k PROVE f + 1 < q[k][1]
    <3>1. q[k] = pool[k + 1] /\ k + 1 \in 1 .. Len(pool) /\ n < k + 1
      BY <1>1, <2>8, <2>11 DEF n
    <3>. QED
      BY <1>1, <2>1, <2>2, <3>1
  <2>12. s <= f
    BY <1>10, <1>11, <2>5
  <2>13. /\ WellFormed(ReplaceAt(q, i, <<s, f>>))
         /\ \A x \in Int : x \in FreeAddresses(ReplaceAt(q, i, <<s, f>>)) <=>
               (s <= x /\ x <= f) \/ InOther(q, i, x)
    BY <2>7, <2>9, <2>10, <2>11, <2>12, ReplaceRange
  <2>14. ASSUME NEW x \in Int
         PROVE  x \in FreeAddresses(pool) <=>
                    \/ s <= x /\ x <= e
                    \/ a + 1 <= x /\ x <= f
                    \/ InOther(q, i, x)
    <3>1. x \in FreeAddresses(pool) <=>
              Within(x, pool[n]) \/ x \in FreeAddresses(q)
      BY <1>1, <2>1, <2>7, FreeAddressesOf DEF InOther
    <3>2. x \in FreeAddresses(q) <=> (s <= x /\ x <= e) \/ InOther(q, i, x)
      BY <1>1, <2>9, FreeAddressesOf DEF InOther, Within
    <3>3. Within(x, pool[n]) <=> a + 1 <= x /\ x <= f
      BY <2>2, <2>5 DEF Within
    <3>. QED
      BY <3>1, <3>2, <3>3
  <2>15. \A x \in Int : (s <= x /\ x <= f) <=>
             (s <= x /\ x <= e) \/ (a + 1 <= x /\ x <= f) \/ x = a
    <3>1. s <= e /\ a = e + 1 /\ a + 1 <= f
      BY <1>1, <1>10, <2>5
    <3>. QED
      BY <3>1
  <2>. QED
    BY <2>6, <2>13, <2>14, <2>15
<1>. QED
  BY <1>3, <1>7, <1>8, <1>9, <1>10

(***************************************************************************)
(* Ipam.deallocate_ip, for every address that is not free and every well-  *)
(* formed free list: the address is free again, every other address is as  *)
(* it was, and the list stays well formed (ranges that come to touch are   *)
(* merged).                                                                *)
(***************************************************************************)
THEOREM DeallocateIpCorrect ==
    ASSUME NEW pool, WellFormed(pool), NEW a \in Int, a \notin FreeAddresses(pool)
    PROVE  /\ WellFormed(DeallocateIp(pool, a))
           /\ FreeAddresses(DeallocateIp(pool, a)) = FreeAddresses(pool) \union {a}
<1>. DEFINE I == {j \in DOMAIN pool : StopsAt(a, pool[j])}
            i == FirstIndex(I)
            p == DeallocateIp(pool, a)
<1>1. /\ pool \in Seq(IpRange)
      /\ Len(pool) \in Nat
      /\ DOMAIN pool = 1 .. Len(pool)
  BY RangeEnds DEF WellFormed
<1>2. I \in SUBSET (1 .. Len(pool))
  BY <1>1
<1>3. /\ WellFormed(p)
      /\ \A x \in Int : x \in FreeAddresses(p) <=> x \in FreeAddresses(pool) \/ x = a
  <2>1. CASE I = {}
    <3>1. p = Append(pool, <<a, a>>)
      BY <1>1, <1>2, <2>1, FirstIndexOf DEF DeallocateIp
    <3>2. p = InsertAt(pool, Len(pool) + 1, <<a, a>>)
      <4>. DEFINE r == <<a, a>>
      <4>1. r \in IpRange
        BY DEF IpRange
      <4>. HIDE DEF r
      <4>2. InsertAt(pool, Len(pool) + 1, r) = Append(pool, r)
        <5>. DEFINE u == InsertAt(pool, Len(pool) + 1, r)
        <5>1. /\ u \in Seq(IpRange)
              /\ Len(u) = Len(pool) + 1
              /\ \A k \in 1 .. Len(pool) + 1 : u[k] = IF k < Len(pool) + 1 THEN pool[k] ELSE r
          BY <1>1, <4>1, InsertAtIndex
        <5>. HIDE DEF u
        <5>2. u = Append(pool, r)
          BY <1>1, <4>1, <5>1
        <5>. QED
          BY <5>2 DEF u
      <4>. QED
        BY <3>1, <4>2 DEF r
    <3>3. \A k \in 1 .. Len(pool) : pool[k][2] + 1 < a
      BY <1>1, <2>1, BeforeStop
    <3>. DEFINE n == Len(pool) + 1
    <3>4. n \in 1 .. Len(pool) + 1 /\ \A k \in 1 .. Len(pool) : ~(n <= k)
      BY <1>1
    <3>5. p = InsertAt(pool, n, <<a, a>>)
      BY <3>2
    <3>. HIDE DEF n, p
    <3>6. /\ WellFormed(InsertAt(pool, n, <<a, a>>))
          /\ \A x \in Int : x \in FreeAddresses(InsertAt(pool, n, <<a, a>>)) <=>
                (a <= x /\ x <= a) \/ x \in FreeAddresses(pool)
      BY <3>3, <3>4, InsertRange
    <3>7. \A x \in Int : (a <= x /\ x <= a) <=> x = a
      OBVIOUS
    <3>. QED
      BY <3>5, <3>6, <3>7
  <2>2. CASE I # {}
    <3>1. i \in I /\ i # 0 /\ \A j \in I : i <= j
      <4>. HIDE DEF I
      <4>. QED
        BY <1>1, <1>2, <2>2, FirstIndexOf
    <3>2. i \in 1 .. Len(pool) /\ StopsAt(a, pool[i])
      BY <1>1, <3>1
    <3>3. ASSUME NEW k \in 1 .. Len(pool), k < i PROVE ~StopsAt(a, pool[k])
      <4>1. i \in Int /\ ~(i <= k)
        <5>1. i \in Int
          BY <3>2
        <5>. HIDE DEF i
        <5>. QED
          BY <3>3, <5>1
      <4>2. k \notin I
        BY <3>1, <4>1
      <4>. QED
        BY <1>1, <4>2
    <3>4. p = DeallocateAt(pool, i, a)
      BY <3>1 DEF DeallocateIp
    <3>. HIDE DEF i, p
    <3>. QED
      BY <3>2, <3>3, <3>4, DeallocateAtCorrect
  <2>. QED
    BY <2>1, <2>2
<1>. HIDE DEF p
<1>4. FreeAddresses(pool) \subseteq Int
  BY <1>1, FreeAddressesOf
<1>5. FreeAddresses(p) \subseteq Int
  BY <1>3, FreeAddressesOf DEF WellFormed
<1>6. FreeAddresses(p) = FreeAddresses(pool) \union {a}
  BY <1>3, <1>4, <1>5
<1>. QED
  BY <1>3, <1>6 DEF p

\* The list a pool starts from.
LEMMA SingleRange ==
    ASSUME NEW s \in Int, NEW e \in Int, s <= e
    PROVE  /\ WellFormed(<< <<s, e>> >>)
           /\ FreeAddresses(<< <<s, e>> >>) = s .. e
<1>. DEFINE r == <<s, e>>
            q == <<r>>
<1>1. r \in IpRange /\ r[1] = s /\ r[2] = e
  BY DEF IpRange
<1>. HIDE DEF r
<1>2. q \in Seq(IpRange) /\ Len(q) = 1 /\ q[1] = r /\ DOMAIN q = {1}
  BY <1>1
<1>. HIDE DEF q
<1>3. WellFormed(q)
  <2>1. \A j \in 1 .. Len(q) : j = 1
    BY <1>2
  <2>2. q[1][1] <= q[1][2]
    BY <1>1, <1>2
  <2>3. \A j, k \in 1 .. Len(q) : ~(j < k)
    BY <1>2
  <2>. QED
    BY <1>2, <2>1, <2>2, <2>3 DEF WellFormed
<1>4. FreeAddresses(q) = r[1] .. r[2]
  BY <1>2 DEF FreeAddresses
<1>. QED
  BY <1>1, <1>3, <1>4 DEF q, r

-----------------------------------------------------------------------------
(* Types alone.  A double release can leave overlapping ranges, and the    *)
(* surgery still yields a list of ranges.                                  *)

LEMMA RemoveAtType ==
    ASSUME NEW pool \in Seq(IpRange), NEW i \in 1 .. Len(pool)
    PROVE  RemoveAt(pool, i) \in Seq(IpRange)
BY RemoveAtIndex

LEMMA ReplaceAtType ==
    ASSUME NEW pool \in Seq(IpRange), NEW i \in 1 .. Len(pool), NEW s \in Int, NEW e \in Int
    PROVE  /\ ReplaceAt(pool, i, <<s, e>>) \in Seq(IpRange)
           /\ Len(ReplaceAt(pool, i, <<s, e>>)) = Len(pool)
<1>1. <<s, e>> \in IpRange
  BY DEF IpRange
<1>. QED
  BY <1>1, ExceptSeq DEF ReplaceAt

LEMMA InsertAtType ==
    ASSUME NEW pool \in Seq(IpRange), NEW i \in 1 .. Len(pool) + 1, NEW s \in Int, NEW e \in Int
    PROVE  InsertAt(pool, i, <<s, e>>) \in Seq(IpRange)
<1>. DEFINE r == <<s, e>>
<1>1. r \in IpRange
  BY DEF IpRange
<1>. HIDE DEF r
<1>2. InsertAt(pool, i, r) \in Seq(IpRange)
  BY <1>1, InsertAtIndex
<1>. QED
  BY <1>2 DEF r

LEMMA OccupyAtType ==
    ASSUME NEW pool \in Seq(IpRange), NEW i \in 1 .. Len(pool), NEW a \in Int
    PROVE  OccupyAt(pool, i, a) \in Seq(IpRange)
<1>1. PICK s \in Int, e \in Int : s = pool[i][1] /\ e = pool[i][2]
  BY RangeEnds
<1>2. RemoveAt(pool, i) \in Seq(IpRange)
  BY RemoveAtType
<1>3. \A x, y \in Int : /\ ReplaceAt(pool, i, <<x, y>>) \in Seq(IpRange)
                        /\ Len(ReplaceAt(pool, i, <<x, y>>)) = Len(pool)
  BY ReplaceAtType
<1>4. InsertAt(ReplaceAt(pool, i, <<s, a - 1>>), i + 1, <<a + 1, e>>) \in Seq(IpRange)
  <2>. DEFINE p == ReplaceAt(pool, i, <<s, a - 1>>)
              low == a + 1
              n == i + 1
  <2>1. p \in Seq(IpRange) /\ Len(p) = Len(pool)
    BY <1>3
  <2>2. low \in Int
    OBVIOUS
  <2>. HIDE DEF p, low
  <2>3. n \in 1 .. Len(p) + 1
    BY <2>1
  <2>. HIDE DEF n
  <2>4. InsertAt(p, n, <<low, e>>) \in Seq(IpRange)
    BY <2>1, <2>2, <2>3, InsertAtType
  <2>. QED
    BY <2>4 DEF p, low, n
<1>5. s + 1 \in Int /\ e - 1 \in Int
  OBVIOUS
<1>. QED
  BY <1>1, <1>2, <1>3, <1>4, <1>5 DEF OccupyAt

LEMMA OccupyIpType ==
    ASSUME NEW pool \in Seq(IpRange), NEW a \in Int
    PROVE  OccupyIp(pool, a) \in Seq(IpRange)
<1>. DEFINE I == {j \in DOMAIN pool : Within(a, pool[j])}
<1>1. I \in SUBSET (1 .. Len(pool)) /\ Len(pool) \in Nat
  OBVIOUS
<1>. HIDE DEF I
<1>2. FirstIndex(I) = 0 \/ FirstIndex(I) \in 1 .. Len(pool)
  BY <1>1, FirstIndexOf
<1>3. CASE FirstIndex(I) = 0
  BY <1>3 DEF OccupyIp, I
<1>4. CASE FirstIndex(I) # 0
  <2>1. OccupyAt(pool, FirstIndex(I), a) \in Seq(IpRange)
    BY <1>2, <1>4, OccupyAtType
  <2>. QED
    BY <1>4, <2>1 DEF OccupyIp, I
<1>. QED
  BY <1>3, <1>4

LEMMA TakeFirstType ==
    ASSUME NEW pool \in Seq(IpRange), pool # << >>
    PROVE  TakeFirst(pool) \in Seq(IpRange) /\ FirstFree(pool) \in Int
<1>1. 1 \in 1 .. Len(pool)
  BY EmptySeq
<1>2. PICK s \in Int, e \in Int : s = pool[1][1] /\ e = pool[1][2]
  BY <1>1, RangeEnds
<1>3. RemoveAt(pool, 1) \in Seq(IpRange)
  BY <1>1, RemoveAtType
<1>4. s + 1 \in Int
  OBVIOUS
<1>5. ReplaceAt(pool, 1, <<s + 1, e>>) \in Seq(IpRange)
  BY <1>1, <1>4, ReplaceAtType
<1>. QED
  BY <1>2, <1>3, <1>5 DEF TakeFirst, FirstFree

LEMMA DeallocateAtType ==
    ASSUME NEW pool \in Seq(IpRange), NEW i \in 1 .. Len(pool), NEW a \in Int
    PROVE  DeallocateAt(pool, i, a) \in Seq(IpRange)
<1>1. PICK s \in Int, e \in Int : s = pool[i][1] /\ e = pool[i][2]
  BY RangeEnds
<1>2. i \in 1 .. Len(pool) + 1
  OBVIOUS
<1>3. InsertAt(pool, i, <<a, a>>) \in Seq(IpRange)
  BY <1>2, InsertAtType
<1>4. \A x, y \in Int : /\ ReplaceAt(pool, i, <<x, y>>) \in Seq(IpRange)
                        /\ Len(ReplaceAt(pool, i, <<x, y>>)) = Len(pool)
  BY ReplaceAtType
<1>5. ASSUME i < Len(pool)
      PROVE  RemoveAt(ReplaceAt(pool, i, <<s, pool[i + 1][2]>>), i + 1) \in Seq(IpRange)
  <2>. DEFINE n == i + 1
  <2>1. n \in 1 .. Len(pool)
    BY <1>5
  <2>2. PICK f \in Int : f = pool[n][2]
    BY <2>1, RangeEnds
  <2>. DEFINE p == ReplaceAt(pool, i, <<s, f>>)
  <2>3. p \in Seq(IpRange) /\ Len(p) = Len(pool)
    BY <1>4
  <2>. HIDE DEF p, n
  <2>4. RemoveAt(p, n) \in Seq(IpRange)
    BY <2>1, <2>3, RemoveAtType
  <2>. QED
    BY <2>2, <2>4 DEF p, n
<1>. QED
  BY <1>1, <1>3, <1>4, <1>5 DEF DeallocateAt

LEMMA DeallocateIpType ==
    ASSUME NEW pool \in Seq(IpRange), NEW a \in Int
    PROVE  DeallocateIp(pool, a) \in Seq(IpRange)
<1>. DEFINE I == {j \in DOMAIN pool : StopsAt(a, pool[j])}
<1>1. I \in SUBSET (1 .. Len(pool)) /\ Len(pool) \in Nat
  OBVIOUS
<1>. HIDE DEF I
<1>2. FirstIndex(I) = 0 \/ FirstIndex(I) \in 1 .. Len(pool)
  BY <1>1, FirstIndexOf
<1>3. CASE FirstIndex(I) = 0
  <2>1. Append(pool, <<a, a>>) \in Seq(IpRange)
    BY DEF IpRange
  <2>. QED
    BY <1>3, <2>1 DEF DeallocateIp, I
<1>4. CASE FirstIndex(I) # 0
  <2>1. DeallocateAt(pool, FirstIndex(I), a) \in Seq(IpRange)
    BY <1>2, <1>4, DeallocateAtType
  <2>. QED
    BY <1>4, <2>1 DEF DeallocateIp, I
<1>. QED
  BY <1>3, <1>4
=============================================================================
