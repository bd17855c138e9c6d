--------------------------- MODULE SessionsProofs ---------------------------
(***************************************************************************)
(* What a list and a search read page by page, proved for any sessions,    *)
(* agents, page sizes, moments and writes.                                 *)
(***************************************************************************)
EXTENDS Sessions, FiniteSetTheorems, SequenceTheorems, WellFoundedInduction, NaturalsInduction,
        TLAPS

-----------------------------------------------------------------------------
(* The order of a page                                                     *)

AllKeys == Nat \X Sessions

RowType == \A s \in Sessions : row[s].updated \in Nat

Ahead(k, before) == before = None \/ Below(k, before)

Descends(keys) == \A i, j \in DOMAIN keys : i < j => Below(keys[j], keys[i])

Items(keys) == {keys[i] : i \in DOMAIN keys}

LEMMA KeyType == ASSUME RowType, NEW s \in Sessions PROVE Key(s) \in AllKeys /\ Key(s)[2] = s
  BY DEF RowType, Key, AllKeys

\* Keys are in a strict order, and those of two sessions differ.
LEMMA BelowOrders ==
  /\ \A k \in AllKeys : ~Below(k, k)
  /\ \A k, l \in AllKeys : k = l \/ Below(k, l) \/ Below(l, k)
  /\ \A k, l, m \in AllKeys : Below(k, l) /\ Below(l, m) => Below(k, m)
<1>1. Sessions \subseteq Nat
  BY SessionsAssumption
<1>2. \A k \in AllKeys : k[1] \in Nat /\ k[2] \in Nat /\ k = <<k[1], k[2]>>
  <2>1. \A k \in AllKeys : \E a \in Nat, b \in Sessions : k = <<a, b>>
    BY DEF AllKeys
  <2> QED
    BY <1>1, <2>1
<1>3. \A a, b, c, d \in Nat :
        \/ <<a, b>> = <<c, d>>
        \/ a < c \/ (a = c /\ b < d) \/ c < a \/ (c = a /\ d < b)
  OBVIOUS
<1>4. \A k, l \in AllKeys : k = l \/ Below(k, l) \/ Below(l, k)
  BY <1>2, <1>3 DEF Below
<1> QED
  BY <1>2, <1>4 DEF Below

-----------------------------------------------------------------------------
(* A page                                                                  *)

Owned(before) == {s \in Visible : Past(s, before)}

Above(s, owned) == {x \in owned : Below(Key(s), Key(x))}

\* The sessions of a set are ranked from 0, one at each rank.
LEMMA Ranks ==
  ASSUME RowType, NEW owned \in SUBSET Sessions
  PROVE  /\ IsFiniteSet(owned) /\ Cardinality(owned) \in Nat
         /\ \A s \in owned : Cardinality(Above(s, owned)) \in 0..Cardinality(owned) - 1
         /\ \A s, x \in owned : Below(Key(s), Key(x)) =>
              Cardinality(Above(x, owned)) < Cardinality(Above(s, owned))
         /\ \A i \in 0..Cardinality(owned) - 1 : \E s \in owned : Cardinality(Above(s, owned)) = i
<1>1. IsFiniteSet(owned)
  BY FS_Subset, SessionsAssumption
<1>2. Cardinality(owned) \in Nat
  BY <1>1, FS_CardinalityType
<1>3. \A s \in owned : Key(s) \in AllKeys /\ Key(s)[2] = s
  BY KeyType
<1>4. \A s \in owned : /\ Above(s, owned) \in SUBSET owned /\ s \notin Above(s, owned)
                       /\ IsFiniteSet(Above(s, owned))
                       /\ Cardinality(Above(s, owned)) \in Nat
  <2>1. SUFFICES ASSUME NEW s \in owned
                 PROVE  /\ Above(s, owned) \in SUBSET owned /\ s \notin Above(s, owned)
                        /\ IsFiniteSet(Above(s, owned))
                        /\ Cardinality(Above(s, owned)) \in Nat
    OBVIOUS
  <2>2. Above(s, owned) \in SUBSET owned /\ s \notin Above(s, owned)
    BY <1>3, BelowOrders DEF Above
  <2>3. IsFiniteSet(Above(s, owned))
    BY <1>1, <2>2, FS_Subset
  <2> QED
    BY <2>2, <2>3, FS_CardinalityType
<1>5. \A s \in owned : Cardinality(Above(s, owned)) \in 0..Cardinality(owned) - 1
  <2>1. SUFFICES ASSUME NEW s \in owned
                 PROVE  Cardinality(Above(s, owned)) \in 0..Cardinality(owned) - 1
    OBVIOUS
  <2>2. Cardinality(Above(s, owned)) <= Cardinality(owned)
    BY <1>1, <1>4, FS_Subset
  <2>3. Cardinality(Above(s, owned)) # Cardinality(owned)
    BY <1>1, <1>4, FS_Subset
  <2> QED
    BY <1>2, <1>4, <2>2, <2>3
<1>6. \A s, x \in owned : Below(Key(s), Key(x)) =>
        Cardinality(Above(x, owned)) < Cardinality(Above(s, owned))
  <2>1. SUFFICES ASSUME NEW s \in owned, NEW x \in owned, Below(Key(s), Key(x))
                 PROVE  Cardinality(Above(x, owned)) < Cardinality(Above(s, owned))
    OBVIOUS
  <2>2. /\ Above(x, owned) \in SUBSET Above(s, owned)
        /\ x \in Above(s, owned) /\ x \notin Above(x, owned)
    BY <1>3, <1>4, <2>1, BelowOrders DEF Above
  <2>3. /\ Cardinality(Above(x, owned)) <= Cardinality(Above(s, owned))
        /\ Cardinality(Above(x, owned)) # Cardinality(Above(s, owned))
    BY <1>4, <2>2, FS_Subset
  <2> QED
    BY <1>4, <2>3
<1> DEFINE rank == [s \in owned |-> Cardinality(Above(s, owned))]
           n == Cardinality(owned)
<1>7. rank \in Injection(owned, 0..n - 1)
  <2>1. rank \in [owned -> 0..n - 1]
    BY <1>5
  <2>2. \A s, x \in owned : s # x => rank[s] # rank[x]
    <3>1. SUFFICES ASSUME NEW s \in owned, NEW x \in owned, s # x
                   PROVE  Cardinality(Above(s, owned)) # Cardinality(Above(x, owned))
      OBVIOUS
    <3>2. Below(Key(s), Key(x)) \/ Below(Key(x), Key(s))
      BY <1>3, <3>1, BelowOrders
    <3> QED
      BY <1>4, <1>6, <3>2
  <2> QED
    BY <2>1, <2>2 DEF Injection, IsInjective
<1>8. IsFiniteSet(0..n - 1) /\ Cardinality(0..n - 1) = n
  BY <1>2, FS_Interval
<1>9. rank \in Surjection(owned, 0..n - 1)
  BY <1>7, <1>8, FS_Injection
<1>10. \A i \in 0..n - 1 : \E s \in owned : rank[s] = i
  BY <1>9 DEF Surjection
<1> QED
  BY <1>1, <1>2, <1>5, <1>6, <1>10

\* A page is the first of those past its cursor, in order: what it leaves out comes after it, and
\* a page that is not full leaves nothing out.
LEMMA PageIsFirst ==
  ASSUME RowType, NEW limit \in Nat, NEW before, NEW page, page = SessionsOf(limit, before)
  PROVE  /\ page \in Seq(AllKeys) /\ Len(page) <= limit
         /\ Descends(page)
         /\ \A i \in DOMAIN page : /\ page[i][2] \in Visible /\ page[i] = Key(page[i][2])
                                   /\ Ahead(page[i], before)
         /\ \A s \in Visible : Ahead(Key(s), before) =>
              \/ Key(s) \in Items(page)
              \/ Len(page) = limit /\ \A i \in DOMAIN page : Below(Key(s), page[i])
<1> DEFINE owned == Owned(before)
           n == Cardinality(owned)
           top == Least(limit, n)
           At(i) == CHOOSE s \in owned : Cardinality(Above(s, owned)) = i - 1
<1>1. owned \in SUBSET Sessions /\ owned \subseteq Visible
  BY DEF Owned, Visible
<1>2. /\ n \in Nat
      /\ \A s \in owned : Cardinality(Above(s, owned)) \in 0..n - 1
      /\ \A s, x \in owned : Below(Key(s), Key(x)) =>
           Cardinality(Above(x, owned)) < Cardinality(Above(s, owned))
      /\ \A i \in 0..n - 1 : \E s \in owned : Cardinality(Above(s, owned)) = i
  BY <1>1, Ranks
<1>3. page = [i \in 1..top |-> Key(At(i))]
  BY DEF SessionsOf, Owned, Above
<1>4. \A s \in Visible : Past(s, before) <=> Ahead(Key(s), before)
  BY DEF Past, Ahead
<1>5. top \in Nat /\ top <= limit /\ top <= n /\ (top = limit \/ top = n)
  BY <1>2 DEF Least
<1>6. \A i \in 1..top : At(i) \in owned /\ Cardinality(Above(At(i), owned)) = i - 1
  <2>1. SUFFICES ASSUME NEW i \in 1..top
                 PROVE  At(i) \in owned /\ Cardinality(Above(At(i), owned)) = i - 1
    OBVIOUS
  <2>2. i - 1 \in 0..n - 1
    BY <1>2, <1>5
  <2> QED
    BY <1>2, <2>2
<1> HIDE DEF At, top
<1>7. \A s \in owned : s \in Visible /\ Key(s) \in AllKeys /\ Key(s)[2] = s /\ Ahead(Key(s), before)
  BY <1>1, <1>4, KeyType DEF Owned
<1> HIDE DEF owned
<1>8. \A i \in 1..top : /\ page[i] = Key(At(i)) /\ page[i] \in AllKeys /\ page[i][2] = At(i)
                        /\ Ahead(page[i], before) /\ At(i) \in Visible
  BY <1>3, <1>6, <1>7
<1>9. page \in Seq(AllKeys) /\ Len(page) = top /\ DOMAIN page = 1..top
  BY <1>3, <1>5, <1>8
<1>10. Descends(page)
  <2>1. SUFFICES ASSUME NEW i \in 1..top, NEW j \in 1..top, i < j
                 PROVE  Below(Key(At(j)), Key(At(i)))
    BY <1>8, <1>9 DEF Descends
  <2>2. /\ At(i) \in owned /\ At(j) \in owned
        /\ Cardinality(Above(At(i), owned)) = i - 1
        /\ Cardinality(Above(At(j), owned)) = j - 1
    BY <1>6
  <2>3. i - 1 < j - 1
    BY <2>1
  <2>4. Key(At(i)) \in AllKeys /\ Key(At(j)) \in AllKeys /\ At(i) # At(j)
    BY <1>7, <2>2, <2>3
  <2>5. Key(At(i)) # Key(At(j))
    BY <1>7, <2>2, <2>4
  <2>6. CASE Below(Key(At(i)), Key(At(j)))
    <3>1. j - 1 < i - 1
      BY <1>2, <2>2, <2>6
    <3> QED
      BY <2>3, <3>1
  <2> QED
    BY <2>4, <2>5, <2>6, BelowOrders
<1>11. \A s \in owned : \/ Key(s) \in Items(page)
                        \/ Len(page) = limit /\ \A i \in DOMAIN page : Below(Key(s), page[i])
  <2>1. SUFFICES ASSUME NEW s \in owned
                 PROVE  \/ Key(s) \in Items(page)
                        \/ Len(page) = limit /\ \A i \in DOMAIN page : Below(Key(s), page[i])
    OBVIOUS
  <2> DEFINE r == Cardinality(Above(s, owned))
  <2>2. r \in 0..n - 1
    BY <1>2
  <2> HIDE DEF r
  <2>3. CASE r + 1 \in 1..top
    <3>1. At(r + 1) \in owned /\ Cardinality(Above(At(r + 1), owned)) = r
      BY <1>6, <2>2, <2>3
    <3>2. ~Below(Key(s), Key(At(r + 1))) /\ ~Below(Key(At(r + 1)), Key(s))
      BY <1>2, <2>2, <3>1 DEF r
    <3>3. Key(s) = Key(At(r + 1))
      BY <1>7, <3>1, <3>2, BelowOrders
    <3>4. page[r + 1] = Key(s) /\ r + 1 \in DOMAIN page
      BY <1>8, <1>9, <2>3, <3>3
    <3> QED
      BY <3>4 DEF Items
  <2>4. CASE r + 1 \notin 1..top
    <3>1. r >= top /\ top = limit
      BY <1>2, <1>5, <2>2, <2>4
    <3>2. ASSUME NEW i \in 1..top PROVE Below(Key(s), Key(At(i)))
      <4>1. At(i) \in owned /\ Cardinality(Above(At(i), owned)) = i - 1 /\ i - 1 < r
        BY <1>5, <1>6, <2>2, <3>1
      <4>2. ~Below(Key(At(i)), Key(s)) /\ At(i) # s
        BY <1>2, <2>2, <4>1 DEF r
      <4>3. Key(At(i)) # Key(s)
        BY <1>7, <4>1, <4>2
      <4> QED
        BY <1>7, <4>1, <4>2, <4>3, BelowOrders
    <3> QED
      BY <1>8, <1>9, <3>1, <3>2
  <2> QED
    BY <2>3, <2>4
<1>12. \A s \in Visible : Ahead(Key(s), before) => s \in owned
  BY <1>4 DEF owned, Owned
<1> QED
  BY <1>5, <1>8, <1>9, <1>10, <1>11, <1>12

-----------------------------------------------------------------------------
(* The wanted of a page                                                    *)

LessThan == {p \in Nat \X Nat : p[1] < p[2]}

LEMMA LeastNumber ==
  ASSUME NEW numbers \in SUBSET Nat, numbers # {}
  PROVE  \E n \in numbers : \A m \in numbers : n <= m
<1>1. IsWellFoundedOn(LessThan, Nat)
  BY NatLessThanWellFounded DEF OpToRel, LessThan
<1>2. PICK n \in numbers : \A m \in numbers : <<m, n>> \notin LessThan
  BY <1>1, WFMin
<1>3. ASSUME NEW m \in numbers PROVE n <= m
  <2>1. <<m, n>> \notin LessThan /\ <<m, n>> \in Nat \X Nat
    BY <1>2
  <2>2. ~(<<m, n>>[1] < <<m, n>>[2])
    BY ONLY <2>1 DEF LessThan
  <2> QED
    BY <2>2
<1> QED
  BY <1>3

\* The wanted of the first i keys, for each i up to n.
KeptNext(f, i, keys, wanted) ==
  IF i = 0 THEN <<>>
  ELSE IF keys[i][2] \in wanted THEN Append(f[i - 1], keys[i]) ELSE f[i - 1]

KeptUpTo(f, n, keys, wanted) == f = [i \in 0..n |-> KeptNext(f, i, keys, wanted)]

LEMMA KeptExists ==
  ASSUME NEW keys \in Seq(AllKeys), NEW wanted
  PROVE  \E f : KeptUpTo(f, Len(keys), keys, wanted)
<1> DEFINE short == {n \in Nat : ~\E f : KeptUpTo(f, n, keys, wanted)}
<1>1. CASE short = {}
  <2>1. Len(keys) \in Nat
    OBVIOUS
  <2> QED
    BY <1>1, <2>1
<1>2. CASE short # {}
  <2>1. PICK n \in short : \A m \in short : n <= m
    BY <1>2, LeastNumber
  <2>2. CASE n = 0
    <3>1. KeptUpTo([i \in 0..0 |-> <<>>], 0, keys, wanted)
      BY DEF KeptUpTo, KeptNext
    <3> QED
      BY <2>2, <3>1
  <2>3. CASE n # 0
    <3>1. n \in Nat /\ n - 1 \in Nat /\ n - 1 \notin short
      BY <2>1, <2>3
    <3>2. PICK f : KeptUpTo(f, n - 1, keys, wanted)
      BY <3>1
    <3> DEFINE h == [i \in 0..n |-> KeptNext(f, i, keys, wanted)]
    <3>3. \A i \in 0..n - 1 : f[i] = KeptNext(f, i, keys, wanted)
      BY <3>1, <3>2 DEF KeptUpTo
    <3>4. \A i \in 0..n - 1 : h[i] = KeptNext(f, i, keys, wanted)
      BY <3>1
    <3> HIDE DEF h
    <3>5. \A i \in 0..n : i # 0 => h[i - 1] = f[i - 1]
      <4>1. \A i \in 0..n : i # 0 => i - 1 \in 0..n - 1
        BY <3>1
      <4> QED
        BY <3>3, <3>4, <4>1
    <3>6. \A i \in 0..n : KeptNext(f, i, keys, wanted) = KeptNext(h, i, keys, wanted)
      BY <3>5 DEF KeptNext
    <3>7. h = [i \in 0..n |-> KeptNext(h, i, keys, wanted)]
      BY <3>6 DEF h
    <3>8. KeptUpTo(h, n, keys, wanted)
      BY <3>7 DEF KeptUpTo
    <3> QED
      BY <2>1, <3>8
  <2> QED
    BY <2>2, <2>3
<1> QED
  BY <1>1, <1>2

\* A key below all of a sequence is put at its end.
LEMMA AppendInOrder ==
  ASSUME NEW keys \in Seq(AllKeys), Descends(keys), NEW k \in AllKeys,
         \A j \in DOMAIN keys : Below(k, keys[j])
  PROVE  /\ Append(keys, k) \in Seq(AllKeys) /\ Descends(Append(keys, k))
         /\ Items(Append(keys, k)) = Items(keys) \cup {k}
<1> DEFINE more == Append(keys, k)
           n == Len(keys)
<1>1. /\ n \in Nat /\ DOMAIN keys = 1..n /\ DOMAIN more = 1..n + 1
      /\ more \in Seq(AllKeys) /\ more[n + 1] = k /\ \A i \in 1..n : more[i] = keys[i]
  OBVIOUS
<1> HIDE DEF more
<1>2. \A i \in 1..n + 1 : i \in 1..n \/ i = n + 1
  BY <1>1
<1>3. Descends(more)
  <2>1. SUFFICES ASSUME NEW i \in 1..n + 1, NEW j \in 1..n + 1, i < j
                 PROVE  Below(more[j], more[i])
    BY <1>1 DEF Descends
  <2>2. i \in 1..n
    BY <1>1, <2>1
  <2>3. CASE j = n + 1
    BY <1>1, <2>2, <2>3
  <2>4. CASE j \in 1..n
    BY <1>1, <2>1, <2>2, <2>4 DEF Descends
  <2> QED
    BY <1>2, <2>3, <2>4
<1>4. Items(more) = Items(keys) \cup {k}
  <2>1. \A i \in 1..n : i \in 1..n + 1
    BY <1>1
  <2>2. n + 1 \in 1..n + 1
    BY <1>1
  <2> QED
    BY <1>1, <1>2, <2>1, <2>2 DEF Items
<1> QED
  BY <1>1, <1>3, <1>4 DEF more

\* What is kept is the wanted, in their order.
LEMMA KeptInOrder ==
  ASSUME NEW keys \in Seq(AllKeys), Descends(keys), NEW wanted
  PROVE  /\ Kept(keys, wanted) \in Seq(AllKeys)
         /\ Descends(Kept(keys, wanted))
         /\ Items(Kept(keys, wanted)) = {k \in Items(keys) : k[2] \in wanted}
<1> DEFINE f == CHOOSE f : KeptUpTo(f, Len(keys), keys, wanted)
           n == Len(keys)
           Right(i) == /\ f[i] \in Seq(AllKeys) /\ Descends(f[i])
                       /\ Items(f[i]) = {keys[j] : j \in {j \in 1..i : keys[j][2] \in wanted}}
           wrong == {i \in 0..n : ~Right(i)}
<1>1. Kept(keys, wanted) = f[n]
  BY DEF Kept, KeptUpTo, KeptNext
<1>2. KeptUpTo(f, n, keys, wanted)
  BY KeptExists
<1> HIDE DEF f
<1>3. /\ n \in Nat /\ DOMAIN keys = 1..n
      /\ f[0] = <<>>
      /\ \A i \in 1..n : f[i] = IF keys[i][2] \in wanted THEN Append(f[i - 1], keys[i])
                                ELSE f[i - 1]
  <2>1. n \in Nat /\ DOMAIN keys = 1..n
    OBVIOUS
  <2>2. \A i \in 0..n : f[i] = KeptNext(f, i, keys, wanted)
    BY <1>2 DEF KeptUpTo
  <2> QED
    BY <2>1, <2>2 DEF KeptNext
<1>7. wrong \in SUBSET Nat /\ \A i \in 0..n : i \notin wrong => Right(i)
  BY <1>3
<1>8. \A i \in wrong : i \in 0..n /\ ~Right(i)
  OBVIOUS
<1> HIDE DEF wrong
<1>4. ASSUME wrong # {} PROVE FALSE
  <2>1. PICK i \in wrong : \A j \in wrong : i <= j
    BY <1>4, <1>7, LeastNumber
  <2>2. CASE i = 0
    <3>1. f[i] = <<>> /\ \A j \in 1..i : FALSE
      BY <1>3, <2>2
    <3>2. Descends(f[i]) /\ Items(f[i]) = {}
      BY <3>1 DEF Descends, Items
    <3>3. Right(i)
      BY <3>1, <3>2
    <3> QED
      BY <1>8, <3>3
  <2>3. CASE i # 0
    <3>5. i \in 1..n /\ i - 1 \in 0..n /\ i - 1 < i
      BY <1>3, <1>8, <2>1, <2>3
    <3>6. i - 1 \notin wrong
      BY <1>7, <2>1, <3>5
    <3>1. i \in 1..n /\ i - 1 \in 0..n /\ Right(i - 1)
      BY <1>7, <3>5, <3>6
    <3>2. keys[i] \in AllKeys
      BY <1>3, <3>1
    <3>3. CASE keys[i][2] \in wanted
      <4> DEFINE g == f[i - 1]
      <4>1. f[i] = Append(g, keys[i]) /\ g \in Seq(AllKeys) /\ Descends(g)
        BY <1>3, <3>1, <3>3
      <4>2. Items(g) = {keys[j] : j \in {j \in 1..i - 1 : keys[j][2] \in wanted}}
        BY <3>1
      <4>3. \A j \in DOMAIN g : Below(keys[i], g[j])
        <5>1. SUFFICES ASSUME NEW j \in DOMAIN g PROVE Below(keys[i], g[j])
          OBVIOUS
        <5>2. g[j] \in Items(g)
          BY DEF Items
        <5>3. PICK m \in 1..i - 1 : g[j] = keys[m]
          BY <4>2, <5>2
        <5>4. m \in 1..n /\ m < i
          BY <1>3, <3>1
        <5> QED
          BY <1>3, <3>1, <5>3, <5>4 DEF Descends
      <4> HIDE DEF g
      <4>4. f[i] \in Seq(AllKeys) /\ Descends(f[i]) /\ Items(f[i]) = Items(g) \cup {keys[i]}
        BY <3>2, <4>1, <4>3, AppendInOrder
      <4>5. Items(f[i]) = {keys[j] : j \in {j \in 1..i : keys[j][2] \in wanted}}
        <5>1. \A j \in 1..i : j \in 1..i - 1 \/ j = i
          BY <3>1
        <5>2. i \in 1..i /\ \A j \in 1..i - 1 : j \in 1..i
          BY <3>1
        <5> QED
          BY <3>3, <4>2, <4>4, <5>1, <5>2
      <4> QED
        BY <1>8, <2>1, <4>4, <4>5
    <3>4. CASE keys[i][2] \notin wanted
      <4>1. f[i] = f[i - 1]
        BY <1>3, <3>1, <3>4
      <4>2. {j \in 1..i : keys[j][2] \in wanted} = {j \in 1..i - 1 : keys[j][2] \in wanted}
        <5>1. \A j \in 1..i : j \in 1..i - 1 \/ j = i
          BY <3>1
        <5>2. \A j \in 1..i - 1 : j \in 1..i
          BY <3>1
        <5> QED
          BY <3>4, <5>1, <5>2
      <4> QED
        BY <1>8, <2>1, <3>1, <4>1, <4>2
    <3> QED
      BY <3>3, <3>4
  <2> QED
    BY <2>2, <2>3
<1>5. Right(n)
  <2>1. n \in 0..n /\ n \notin wrong
    BY <1>3, <1>4
  <2> QED
    BY <1>7, <2>1
<1>6. {keys[j] : j \in {j \in 1..n : keys[j][2] \in wanted}} = {k \in Items(keys) : k[2] \in wanted}
  BY <1>3 DEF Items
<1> QED
  BY <1>1, <1>5, <1>6

\* The first n of a sequence: what is left out comes after them.
LEMMA FirstInOrder ==
  ASSUME NEW keys \in Seq(AllKeys), Descends(keys), NEW n \in Nat
  PROVE  /\ FirstOf(keys, n) \in Seq(AllKeys) /\ Descends(FirstOf(keys, n))
         /\ Len(FirstOf(keys, n)) <= n /\ Items(FirstOf(keys, n)) \subseteq Items(keys)
         /\ \A k \in Items(keys) :
              \/ k \in Items(FirstOf(keys, n))
              \/ Len(FirstOf(keys, n)) = n
                   /\ \A i \in DOMAIN FirstOf(keys, n) : Below(k, FirstOf(keys, n)[i])
<1> DEFINE m == Least(n, Len(keys))
           first == FirstOf(keys, n)
<1>1. m \in Nat /\ m <= n /\ m <= Len(keys) /\ (m = n \/ m = Len(keys)) /\ Len(keys) \in Nat
  BY DEF Least
<1>2. first = SubSeq(keys, 1, m) /\ DOMAIN keys = 1..Len(keys)
  BY DEF FirstOf
<1> HIDE DEF m, first
<1>3. /\ first \in Seq(AllKeys) /\ Len(first) = m /\ DOMAIN first = 1..m
      /\ \A i \in 1..m : first[i] = keys[i]
  <2>1. ASSUME NEW i \in 1..m PROVE keys[i] \in AllKeys
    <3>1. i \in 1..Len(keys)
      BY <1>1
    <3> QED
      BY <3>1, ElementOfSeq
  <2>2. /\ first \in Seq(AllKeys) /\ Len(first) = IF 1 <= m THEN m - 1 + 1 ELSE 0
        /\ \A i \in 1..m - 1 + 1 : first[i] = keys[1 + i - 1]
    <3>1. 1 \in Int /\ m \in Int /\ \A i \in 1..m : keys[i] \in AllKeys
      BY <1>1, <2>1
    <3>2. /\ SubSeq(keys, 1, m) \in Seq(AllKeys)
          /\ Len(SubSeq(keys, 1, m)) = IF 1 <= m THEN m - 1 + 1 ELSE 0
          /\ \A i \in 1..m - 1 + 1 : SubSeq(keys, 1, m)[i] = keys[1 + i - 1]
      BY ONLY <3>1, SubSeqProperties
    <3> QED
      BY <1>2, <3>2
  <2>3. Len(first) = m
    BY <1>1, <2>2
  <2>4. \A i \in 1..m : i \in 1..m - 1 + 1 /\ 1 + i - 1 = i
    BY <1>1
  <2> QED
    BY <2>2, <2>3, <2>4
<1>4. \A i \in 1..m : i \in 1..Len(keys)
  BY <1>1
<1>5. Descends(first)
  BY <1>2, <1>3, <1>4 DEF Descends
<1>6. Items(first) \subseteq Items(keys)
  BY <1>2, <1>3, <1>4 DEF Items
<1>7. ASSUME NEW k \in Items(keys), k \notin Items(first)
      PROVE  m = n /\ \A i \in 1..m : Below(k, first[i])
  <2>1. PICK j \in 1..Len(keys) : k = keys[j]
    BY <1>2 DEF Items
  <2>2. j \notin 1..m
    BY <1>3, <1>7, <2>1 DEF Items
  <2>3. j > m /\ m # Len(keys)
    BY <1>1, <2>1, <2>2
  <2>4. \A i \in 1..m : i < j
    BY <1>1, <2>3
  <2> QED
    BY <1>1, <1>2, <1>3, <1>4, <2>1, <2>3, <2>4 DEF Descends
<1> QED
  BY <1>1, <1>3, <1>5, <1>6, <1>7 DEF first

\* One sequence after another whose keys are all above.
LEMMA JoinInOrder ==
  ASSUME NEW keys \in Seq(AllKeys), Descends(keys), NEW more \in Seq(AllKeys), Descends(more),
         \A k \in Items(keys), l \in Items(more) : Below(l, k)
  PROVE  /\ keys \o more \in Seq(AllKeys) /\ Descends(keys \o more)
         /\ Items(keys \o more) = Items(keys) \cup Items(more)
         /\ Len(keys \o more) = Len(keys) + Len(more)
<1> DEFINE both == keys \o more
           m == Len(keys)
           n == Len(more)
<1>1. /\ m \in Nat /\ n \in Nat /\ DOMAIN keys = 1..m /\ DOMAIN more = 1..n
      /\ both \in Seq(AllKeys) /\ Len(both) = m + n /\ DOMAIN both = 1..m + n
      /\ \A i \in 1..m + n : both[i] = IF i <= m THEN keys[i] ELSE more[i - m]
  OBVIOUS
<1> HIDE DEF both, m, n
<1>2. \A i \in 1..m + n : \/ i \in 1..m /\ both[i] = keys[i]
                          \/ i > m /\ i - m \in 1..n /\ both[i] = more[i - m]
  BY <1>1
<1>3. Descends(both)
  <2>1. SUFFICES ASSUME NEW i \in 1..m + n, NEW j \in 1..m + n, i < j
                 PROVE  Below(both[j], both[i])
    BY <1>1 DEF Descends
  <2>2. CASE i \in 1..m /\ j \in 1..m
    <3>1. both[i] = keys[i] /\ both[j] = keys[j]
      BY <1>1, <2>2
    <3>2. Below(keys[j], keys[i])
      BY <1>1, <2>1, <2>2 DEF Descends
    <3> QED
      BY <3>1, <3>2
  <2>3. CASE i \in 1..m /\ j > m
    <3>1. both[i] \in Items(keys) /\ both[j] \in Items(more)
      <4>1. both[i] = keys[i] /\ j - m \in 1..n /\ both[j] = more[j - m]
        BY <1>1, <1>2, <2>3
      <4> QED
        BY <1>1, <2>3, <4>1 DEF Items
    <3> QED
      BY <3>1
  <2>4. CASE i > m /\ j > m
    <3>1. /\ i - m \in 1..n /\ both[i] = more[i - m]
          /\ j - m \in 1..n /\ both[j] = more[j - m] /\ i - m < j - m
      BY <1>1, <1>2, <2>1, <2>4
    <3> QED
      BY <1>1, <3>1 DEF Descends
  <2> QED
    BY <1>1, <1>2, <2>1, <2>2, <2>3, <2>4
<1>4. Items(both) = Items(keys) \cup Items(more)
  <2>1. \A i \in 1..m : i \in 1..m + n /\ both[i] = keys[i]
    BY <1>1
  <2>2. \A i \in 1..n : m + i \in 1..m + n /\ both[m + i] = more[i]
    <3>1. \A i \in 1..n : m + i \in 1..m + n /\ ~(m + i <= m) /\ (m + i) - m = i
      BY <1>1
    <3> QED
      BY <1>1, <3>1
  <2>3. Items(keys) \subseteq Items(both)
    BY <1>1, <2>1 DEF Items
  <2>4. Items(more) \subseteq Items(both)
    <3>1. SUFFICES ASSUME NEW i \in 1..n PROVE more[i] \in Items(both)
      BY <1>1 DEF Items
    <3>2. m + i \in DOMAIN both /\ both[m + i] = more[i]
      BY <1>1, <2>2
    <3> QED
      BY <3>2 DEF Items
  <2>5. Items(both) \subseteq Items(keys) \cup Items(more)
    BY <1>1, <1>2 DEF Items
  <2> QED
    BY <2>3, <2>4, <2>5
<1> QED
  BY <1>1, <1>3, <1>4 DEF both, m, n

LEMMA HeadInOrder ==
  ASSUME NEW keys \in Seq(AllKeys), Descends(keys), keys # <<>>
  PROVE  /\ Head(keys) \in Items(keys) /\ Head(keys) \in AllKeys
         /\ Tail(keys) \in Seq(AllKeys) /\ Descends(Tail(keys))
         /\ Items(Tail(keys)) = Items(keys) \ {Head(keys)}
         /\ \A k \in Items(Tail(keys)) : Below(k, Head(keys))
<1> DEFINE n == Len(keys)
           rest == Tail(keys)
<1>1. /\ n \in Nat \ {0} /\ DOMAIN keys = 1..n /\ Head(keys) = keys[1]
      /\ rest \in Seq(AllKeys) /\ DOMAIN rest = 1..n - 1
      /\ \A i \in 1..n - 1 : rest[i] = keys[i + 1]
  <2>1. n \in Nat /\ DOMAIN keys = 1..n /\ n # 0
    OBVIOUS
  <2>2. Head(keys) = keys[1] /\ rest \in Seq(AllKeys) /\ Len(rest) = n - 1
    OBVIOUS
  <2>3. DOMAIN rest = 1..n - 1
    BY <2>2
  <2>4. \A i \in 1..n - 1 : rest[i] = keys[i + 1]
    OBVIOUS
  <2> QED
    BY <2>1, <2>2, <2>3, <2>4
<1> HIDE DEF n, rest
<1>2. 1 \in 1..n /\ \A i \in 1..n - 1 : i + 1 \in 1..n /\ 1 < i + 1
  BY <1>1
<1>3. \A i \in 1..n : i = 1 \/ (i - 1 \in 1..n - 1 /\ keys[i] = rest[i - 1])
  BY <1>1
<1>4. Descends(rest)
  <2>1. SUFFICES ASSUME NEW i \in 1..n - 1, NEW j \in 1..n - 1, i < j
                 PROVE  Below(keys[j + 1], keys[i + 1])
    BY <1>1 DEF Descends
  <2>2. i + 1 \in DOMAIN keys /\ j + 1 \in DOMAIN keys /\ i + 1 < j + 1
    BY <1>1, <1>2, <2>1
  <2> QED
    BY <2>2 DEF Descends
<1>5. \A i \in 1..n - 1 : Below(rest[i], keys[1])
  BY <1>1, <1>2 DEF Descends
<1>6. keys[1] \in AllKeys /\ \A i \in 1..n - 1 : rest[i] # keys[1]
  <2>1. keys[1] \in AllKeys
    BY <1>1, <1>2
  <2> QED
    BY <1>5, <2>1, BelowOrders
<1>7. Items(rest) = Items(keys) \ {keys[1]}
  <2>1. ASSUME NEW i \in 1..n - 1 PROVE rest[i] \in Items(keys) \ {keys[1]}
    BY <1>1, <1>2, <1>6 DEF Items
  <2>2. ASSUME NEW i \in 1..n, keys[i] # keys[1] PROVE keys[i] \in Items(rest)
    BY <1>1, <1>3, <2>2 DEF Items
  <2> QED
    BY <1>1, <2>1, <2>2 DEF Items
<1> QED
  BY <1>1, <1>2, <1>4, <1>5, <1>6, <1>7 DEF Items, rest

LEMMA LastInOrder ==
  ASSUME NEW keys \in Seq(AllKeys), Descends(keys), keys # <<>>
  PROVE  /\ keys[Len(keys)] \in Items(keys) /\ keys[Len(keys)] \in AllKeys
         /\ \A k \in Items(keys) : k = keys[Len(keys)] \/ Below(keys[Len(keys)], k)
         /\ \A k \in Items(keys) : ~Below(k, keys[Len(keys)])
<1> DEFINE n == Len(keys)
<1>1. /\ n \in Nat \ {0} /\ DOMAIN keys = 1..n /\ n \in 1..n
      /\ \A i \in 1..n : keys[i] \in AllKeys /\ (i = n \/ i < n)
  <2>1. n \in Nat /\ DOMAIN keys = 1..n /\ n # 0
    OBVIOUS
  <2>2. \A m \in Nat \ {0} : m \in 1..m /\ \A i \in 1..m : i = m \/ i < m
    OBVIOUS
  <2>3. \A i \in 1..n : keys[i] \in AllKeys
    BY ElementOfSeq
  <2> QED
    BY <2>1, <2>2, <2>3
<1> HIDE DEF n
<1>2. \A k \in Items(keys) : k \in AllKeys /\ (k = keys[n] \/ Below(keys[n], k))
  BY <1>1 DEF Descends, Items
<1>3. \A k \in Items(keys) : ~Below(k, keys[n])
  BY <1>1, <1>2, BelowOrders
<1> QED
  BY <1>1, <1>2, <1>3 DEF Items, n
-----------------------------------------------------------------------------
(* What is in hand, while the sessions move                                *)

KeysTo(c) == (0..c) \X Sessions

Rows(c) == [Sessions -> [state : {"none", "visible", "hidden"}, updated : 0..c]]

KeyIn(r, s) == <<r[s].updated, s>>

\* Of the keys in hand: where their sessions are now. One that was not written is where it was
\* read, one that did not go back is not below it, and only one that went back is there twice.
Went(K, r, tch, bck, c) ==
  \A k \in K :
    /\ k \in KeysTo(c)
    /\ r[k[2]].state # "none"
    /\ r[k[2]].state = "visible" /\ k[2] \notin bck => ~Below(KeyIn(r, k[2]), k)
    /\ r[k[2]].state = "visible" /\ k[2] \notin tch => KeyIn(r, k[2]) = k
    /\ \A l \in K : k[2] = l[2] /\ k # l => k[2] \in bck

\* The next page begins below all that is in hand.
Behind(K, before) == \A k \in K : before # None /\ ~Below(k, before)

\* Those of the sessions that did not move are in hand, or still to come.
Left(K, before, r, tch, all) ==
  \A s \in all \ tch : r[s].state = "visible" => Ahead(KeyIn(r, s), before) \/ KeyIn(r, s) \in K

LEMMA RowsType ==
  ASSUME NEW c \in Nat, NEW r \in Rows(c)
  PROVE  /\ KeysTo(c) \subseteq AllKeys
         /\ \A s \in Sessions : /\ r[s].updated \in 0..c /\ r[s].updated \in Nat
                                /\ KeyIn(r, s) \in KeysTo(c) /\ KeyIn(r, s)[2] = s
         /\ \A k \in KeysTo(c) : k[2] \in Sessions /\ k = <<k[1], k[2]>> /\ k[1] \in 0..c
<1>1. \A k \in KeysTo(c) : \E a \in 0..c, b \in Sessions : k = <<a, b>>
  BY DEF KeysTo
<1>2. \A s \in Sessions : r[s].updated \in 0..c
  BY DEF Rows
<1>3. \A i \in 0..c : i \in Nat
  OBVIOUS
<1> QED
  BY <1>1, <1>2, <1>3 DEF KeysTo, AllKeys, KeyIn

\* A page joins what is in hand.
LEMMA PageJoins ==
  ASSUME NEW c \in Nat, NEW r \in Rows(c), NEW tch, NEW bck, NEW K, Went(K, r, tch, bck, c),
         NEW before \in {None} \cup KeysTo(c), Behind(K, before), NEW P,
         \A p \in P : /\ p[2] \in Sessions /\ r[p[2]].state = "visible"
                      /\ p = KeyIn(r, p[2]) /\ Ahead(p, before)
  PROVE  /\ Went(K \cup P, r, tch, bck, c)
         /\ \A k \in K, p \in P : Below(p, k)
<1>1. \A p \in P : p \in KeysTo(c) /\ p \in AllKeys
  BY RowsType
<1>2. \A k \in K : k \in KeysTo(c) /\ k \in AllKeys
  BY RowsType DEF Went
<1>3. ASSUME NEW k \in K, NEW p \in P PROVE Below(p, k)
  <2>1. before # None /\ ~Below(k, before) /\ Below(p, before)
    BY DEF Behind, Ahead
  <2>2. before \in AllKeys
    BY <2>1, RowsType
  <2>3. k = before \/ Below(before, k)
    BY <1>2, <2>1, <2>2, BelowOrders
  <2> QED
    BY <1>1, <1>2, <2>1, <2>2, <2>3, BelowOrders
<1>4. \A k \in K, p \in P : k[2] = p[2] => k[2] \in bck
  BY <1>3 DEF Went
<1>5. \A p \in P : ~Below(p, p)
  BY <1>1, BelowOrders
<1>6. \A p \in P : /\ p \in KeysTo(c) /\ r[p[2]].state # "none"
                   /\ ~Below(KeyIn(r, p[2]), p) /\ KeyIn(r, p[2]) = p
  BY <1>1, <1>5
<1>7. \A p, q \in P : p[2] = q[2] => p = q
  BY <1>6
<1>8. Went(K \cup P, r, tch, bck, c)
  BY <1>4, <1>6, <1>7 DEF Went
<1> QED
  BY <1>3, <1>8

\* The next page begins at a key in hand that no other is below.
LEMMA NextIsBehind ==
  ASSUME NEW K, NEW k, k # None, \A l \in K : ~Below(l, k)
  PROVE  Behind(K, k)
BY DEF Behind

LEMMA FewerWent ==
  ASSUME NEW c, NEW r, NEW tch, NEW bck, NEW K, NEW L \in SUBSET K, Went(K, r, tch, bck, c)
  PROVE  Went(L, r, tch, bck, c)
BY DEF Went

\* What a write writes, and what it makes of the sessions that went back.
Writable(s, w, r, tch, bck, c) ==
  /\ c \in Nat /\ r \in Rows(c) /\ bck \subseteq tch
  /\ s \in Sessions /\ w \in [state : {"visible", "hidden"}, updated : 0..c]
  /\ r[s].state \in {"none", "visible"}

Written(r, s, w) == [r EXCEPT ![s] = w]

BackAfter(bck, r, s, w) ==
  IF w.state = "visible" /\ w.updated < r[s].updated THEN bck \cup {s} ELSE bck

\* Whatever was in hand, and still to come, at the first rows, is so at the second.
WriteFaithful(q, wroteBack, s, r, tch, bck, c) ==
  /\ q \in Rows(c)
  /\ wroteBack \subseteq tch \cup {s}
  /\ \A x \in Sessions \ {s} : q[x] = r[x]
  /\ \A K : Went(K, r, tch, bck, c) => Went(K, q, tch \cup {s}, wroteBack, c)
  /\ \A K, before, all : all \subseteq Sessions /\ Left(K, before, r, tch, all) =>
       Left(K, before, q, tch \cup {s}, all)

\* A write, during a reading.
LEMMA WriteKeeps ==
  ASSUME NEW s, NEW w, NEW r, NEW tch, NEW bck, NEW c, Writable(s, w, r, tch, bck, c)
  PROVE  WriteFaithful(Written(r, s, w), BackAfter(bck, r, s, w), s, r, tch, bck, c)
<1> DEFINE q == Written(r, s, w)
           wroteBack == BackAfter(bck, r, s, w)
<1>0. /\ c \in Nat /\ r \in Rows(c) /\ bck \subseteq tch
      /\ s \in Sessions /\ w \in [state : {"visible", "hidden"}, updated : 0..c]
      /\ r[s].state \in {"none", "visible"}
      /\ wroteBack = IF w.state = "visible" /\ w.updated < r[s].updated
                     THEN bck \cup {s} ELSE bck
  BY DEF Writable, BackAfter
<1>1. /\ q \in Rows(c) /\ q[s] = w /\ \A x \in Sessions : x # s => q[x] = r[x]
  BY <1>0 DEF Rows, Written
<1> HIDE DEF q, wroteBack
<1>2. ASSUME NEW K, Went(K, r, tch, bck, c) PROVE Went(K, q, tch \cup {s}, wroteBack, c)
  <2>1. \A k \in K : k \in KeysTo(c) /\ k[2] \in Sessions /\ k = <<k[1], k[2]>> /\ k[1] \in Nat
    <3>1. \A k \in K : k \in KeysTo(c)
      BY <1>2 DEF Went
    <3> QED
      BY <1>0, <3>1, RowsType DEF KeysTo
  <2>2. bck \subseteq wroteBack
    BY <1>0
  <2>3. ASSUME NEW k \in K, k[2] # s
        PROVE  /\ q[k[2]].state # "none"
               /\ q[k[2]].state = "visible" /\ k[2] \notin wroteBack => ~Below(KeyIn(q, k[2]), k)
               /\ q[k[2]].state = "visible" /\ k[2] \notin tch \cup {s} => KeyIn(q, k[2]) = k
    <3>1. q[k[2]] = r[k[2]] /\ KeyIn(q, k[2]) = KeyIn(r, k[2])
      BY <1>1, <2>1, <2>3 DEF KeyIn
    <3> QED
      BY <1>2, <2>2, <3>1 DEF Went
  <2>4. ASSUME NEW k \in K, k[2] = s
        PROVE  /\ q[s].state # "none"
               /\ q[s].state = "visible" /\ s \notin wroteBack => ~Below(KeyIn(q, s), k)
    <3>1. r[s].state = "visible" /\ q[s].state # "none"
      BY <1>0, <1>1, <1>2, <2>4 DEF Went
    <3>2. ASSUME q[s].state = "visible", s \notin wroteBack PROVE ~Below(KeyIn(q, s), k)
      <4>1. ~(w.updated < r[s].updated) /\ s \notin bck
        BY <1>0, <1>1, <3>2
      <4>2. ~Below(KeyIn(r, s), k)
        BY <1>2, <2>4, <3>1, <4>1 DEF Went
      <4>3. r[s].updated \in Nat /\ w.updated \in Nat /\ k[1] \in Nat
        BY <1>0, <2>1, RowsType
      <4> QED
        BY <1>1, <2>4, <4>1, <4>2, <4>3 DEF Below, KeyIn
    <3> QED
      BY <3>1, <3>2
  <2>5. \A k, l \in K : k[2] = l[2] /\ k # l => k[2] \in wroteBack
    BY <1>2, <2>2 DEF Went
  <2> QED
    BY <2>1, <2>3, <2>4, <2>5 DEF Went
<1>3. ASSUME NEW K, NEW before, NEW all, all \subseteq Sessions, Left(K, before, r, tch, all)
      PROVE  Left(K, before, q, tch \cup {s}, all)
  BY <1>1, <1>3 DEF Left, KeyIn
<1> QED
  <2>1. wroteBack \subseteq tch \cup {s}
    BY <1>0
  <2>2. WriteFaithful(q, wroteBack, s, r, tch, bck, c)
    BY <1>1, <1>2, <1>3, <2>1 DEF WriteFaithful
  <2> QED
    BY <2>2 DEF q, wroteBack

\* A moment passes.
LEMMA TickKeeps ==
  ASSUME NEW c \in Nat
  PROVE  /\ KeysTo(c) \subseteq KeysTo(c + 1)
         /\ Rows(c) \subseteq Rows(c + 1)
         /\ \A K, r, tch, bck : Went(K, r, tch, bck, c) => Went(K, r, tch, bck, c + 1)
<1>1. \A i \in 0..c : i \in 0..c + 1
  OBVIOUS
<1>2. KeysTo(c) \subseteq KeysTo(c + 1)
  BY <1>1 DEF KeysTo
<1>3. Rows(c) \subseteq Rows(c + 1)
  BY <1>1 DEF Rows
<1> QED
  BY <1>2, <1>3 DEF Went
-----------------------------------------------------------------------------
(* The interface's list                                                    *)

ListRecord(c) ==
  [pc : {"none", "asking", "over", "failed"}, limit : Nat,
   cursor : {None} \cup {EncodeCursor(k) : k \in KeysTo(c)}, shown : Seq(AllKeys)]

Listed(l, r, tch, bck, c) ==
  /\ l \in ListRecord(c)
  /\ Descends(l.shown)
  /\ Went(Items(l.shown), r, tch, bck, c)
  /\ l.pc = "asking" =>
       /\ Behind(Items(l.shown), DecodeCursor(l.cursor))
       /\ Left(Items(l.shown), DecodeCursor(l.cursor), r, tch, Sessions)
  /\ l.pc = "over" =>
       \A s \in Sessions \ tch : r[s].state = "visible" => KeyIn(r, s) \in Items(l.shown)

\* A cursor is the last of a page, and comes back as it was.
LEMMA CursorRound ==
  ASSUME NEW c \in 0..MaxClock
  PROVE  /\ \A k \in KeysTo(c) : /\ DecodeCursor(EncodeCursor(k)) = k
                                 /\ EncodeCursor(k) # None /\ k # None
         /\ \A u \in {None} \cup {EncodeCursor(k) : k \in KeysTo(c)} :
              DecodeCursor(u) \in {None} \cup KeysTo(c)
<1>1. ASSUME NEW k \in KeysTo(c)
      PROVE  DecodeCursor(EncodeCursor(k)) = k /\ EncodeCursor(k) # None /\ k # None
  <2>1. PICK a \in 0..c, b \in Sessions : k = <<a, b>>
    BY DEF KeysTo
  <2>2. a \in 0..MaxClock /\ k[1] = a /\ k[2] = b
    BY <2>1, SessionsAssumption
  <2>3. None # <<a, b>> /\ None # [opaque |-> TRUE, moment |-> a, id |-> b]
    BY <2>2, SessionsAssumption
  <2>4. EncodeCursor(k) = [opaque |-> TRUE, moment |-> a, id |-> b]
    BY <2>2 DEF EncodeCursor
  <2> QED
    BY <2>1, <2>3, <2>4 DEF DecodeCursor
<1> QED
  BY <1>1 DEF DecodeCursor

LEMMA NoListIsListed ==
  ASSUME NEW r, NEW tch, NEW bck, NEW c
  PROVE  /\ Listed(NoList, r, tch, bck, c)
         /\ \A limit \in Nat : Listed([NoList EXCEPT !.pc = "asking", !.limit = limit],
                                      r, tch, bck, c)
<1>1. <<>> \in Seq(AllKeys) /\ Items(<<>>) = {} /\ Descends(<<>>)
  BY DEF Items, Descends
<1>2. DecodeCursor(None) = None
  BY DEF DecodeCursor
<1> QED
  BY <1>1, <1>2 DEF Listed, NoList, ListRecord, Went, Behind, Left, Ahead

LEMMA ListedWhileWriting ==
  ASSUME NEW s, NEW w, NEW r, NEW tch, NEW bck, NEW c, Writable(s, w, r, tch, bck, c),
         NEW l, Listed(l, r, tch, bck, c)
  PROVE  Listed(l, Written(r, s, w), tch \cup {s}, BackAfter(bck, r, s, w), c)
<1> DEFINE q == Written(r, s, w)
           wroteBack == BackAfter(bck, r, s, w)
<1>0. WriteFaithful(q, wroteBack, s, r, tch, bck, c)
  BY WriteKeeps
<1> HIDE DEF q, wroteBack
<1>1. /\ \A K : Went(K, r, tch, bck, c) => Went(K, q, tch \cup {s}, wroteBack, c)
      /\ \A K, before, all : all \subseteq Sessions /\ Left(K, before, r, tch, all) =>
           Left(K, before, q, tch \cup {s}, all)
      /\ \A x \in Sessions \ {s} : q[x] = r[x]
  BY <1>0 DEF WriteFaithful
<1>2. l.pc = "over" => \A x \in Sessions \ (tch \cup {s}) :
        q[x].state = "visible" => KeyIn(q, x) \in Items(l.shown)
  BY <1>1 DEF Listed, KeyIn
<1>3. Listed(l, q, tch \cup {s}, wroteBack, c)
  BY <1>1, <1>2 DEF Listed
<1> QED
  BY <1>3 DEF q, wroteBack

LEMMA ListedAtTick ==
  ASSUME NEW c \in Nat, NEW r, NEW tch, NEW bck, NEW l, Listed(l, r, tch, bck, c)
  PROVE  Listed(l, r, tch, bck, c + 1)
<1>1. ListRecord(c) \subseteq ListRecord(c + 1)
  BY TickKeeps DEF ListRecord
<1> QED
  BY <1>1, TickKeeps DEF Listed

\* One GET.
LEMMA ListedAfterPage ==
  ASSUME clock \in 0..MaxClock, row \in Rows(clock), Listed(list, row, touched, back, clock),
         ListSessions
  PROVE  Listed(list', row, touched, back, clock)
<1> DEFINE before == DecodeCursor(list.cursor)
           page == SessionsOf(list.limit, before)
           K == Items(list.shown)
           P == Items(page)
           more == list.shown \o page
<1>1. /\ clock \in Nat /\ list \in ListRecord(clock) /\ list.pc = "asking"
      /\ Descends(list.shown) /\ list.shown \in Seq(AllKeys) /\ list.limit \in Nat
      /\ Went(K, row, touched, back, clock) /\ Behind(K, before)
      /\ Left(K, before, row, touched, Sessions)
  BY SessionsAssumption DEF ListSessions, Listed, ListRecord
<1>2. before \in {None} \cup KeysTo(clock)
  BY <1>1, CursorRound DEF ListRecord
<1>3. RowType
  BY <1>1, RowsType DEF RowType
<1>4. /\ page \in Seq(AllKeys) /\ Len(page) <= list.limit /\ Descends(page)
      /\ \A i \in DOMAIN page : /\ page[i][2] \in Visible /\ page[i] = Key(page[i][2])
                                /\ Ahead(page[i], before)
      /\ \A s \in Visible : Ahead(Key(s), before) =>
           \/ Key(s) \in P
           \/ Len(page) = list.limit /\ \A i \in DOMAIN page : Below(Key(s), page[i])
  BY <1>1, <1>3, PageIsFirst
<1>5. list' = IF list.limit = 0 \/ ~Summed(page) THEN [list EXCEPT !.pc = "failed"]
              ELSE [list EXCEPT !.shown = more, !.cursor = NextCursor(page, list.limit),
                                !.pc = IF NextCursor(page, list.limit) = None THEN "over"
                                       ELSE "asking"]
  BY DEF ListSessions
<1> HIDE DEF page, before
<1>6. \A p \in P : /\ p[2] \in Sessions /\ row[p[2]].state = "visible"
                   /\ p = KeyIn(row, p[2]) /\ Ahead(p, before)
  BY <1>4 DEF Items, Visible, Key, KeyIn
<1>7. Went(K \cup P, row, touched, back, clock) /\ \A k \in K, p \in P : Below(p, k)
  BY <1>1, <1>2, <1>6, PageJoins
<1>8. more \in Seq(AllKeys) /\ Descends(more) /\ Items(more) = K \cup P
  BY <1>1, <1>4, <1>7, JoinInOrder
<1>9. CASE list.limit = 0 \/ ~Summed(page)
  <2>1. list' = [list EXCEPT !.pc = "failed"]
    BY <1>5, <1>9
  <2>2. list' \in ListRecord(clock) /\ list'.pc = "failed" /\ list'.shown = list.shown
    BY <1>1, <2>1 DEF ListRecord
  <2> QED
    BY <1>1, <2>2 DEF Listed
<1>10. CASE ~(list.limit = 0 \/ ~Summed(page)) /\ Len(page) = list.limit
  <2> DEFINE end == page[Len(page)]
  <2>1. page # <<>>
    BY <1>1, <1>10
  <2>2. /\ end \in P /\ end \in AllKeys
        /\ \A k \in P : ~Below(k, end) /\ (k = end \/ Below(end, k))
    BY <1>4, <2>1, LastInOrder
  <2>3. end \in KeysTo(clock)
    BY <1>7, <2>2 DEF Went
  <2> HIDE DEF end
  <2>4. NextCursor(page, list.limit) = EncodeCursor(end)
    BY <1>10 DEF NextCursor, end
  <2>5. DecodeCursor(EncodeCursor(end)) = end /\ EncodeCursor(end) # None /\ end # None
    BY <2>3, CursorRound
  <2>6. /\ list' \in ListRecord(clock) /\ list'.shown = more
        /\ list'.pc = "asking" /\ DecodeCursor(list'.cursor) = end
    <3>1. list' = [list EXCEPT !.shown = more, !.cursor = EncodeCursor(end), !.pc = "asking"]
      BY <1>5, <1>10, <2>4, <2>5
    <3>2. EncodeCursor(end) \in {None} \cup {EncodeCursor(k) : k \in KeysTo(clock)}
      BY <2>3
    <3> HIDE DEF more
    <3> QED
      BY <1>1, <1>8, <2>5, <3>1, <3>2 DEF ListRecord
  <2>7. Behind(K \cup P, end)
    <3>1. \A k \in K : ~Below(k, end)
      <4>1. \A k \in K : Below(end, k) /\ k \in AllKeys
        BY <1>1, <1>7, <2>2, RowsType DEF Went
      <4> QED
        BY <2>2, <4>1, BelowOrders
    <3> QED
      BY <2>2, <2>5, <3>1 DEF Behind
  <2>8. Left(K \cup P, end, row, touched, Sessions)
    <3>1. SUFFICES ASSUME NEW s \in Sessions \ touched, row[s].state = "visible"
                   PROVE  Ahead(KeyIn(row, s), end) \/ KeyIn(row, s) \in K \cup P
      BY DEF Left
    <3>2. s \in Visible /\ KeyIn(row, s) = Key(s)
      BY <3>1 DEF Visible, Key, KeyIn
    <3>3. Ahead(Key(s), before) \/ Key(s) \in K
      BY <1>1, <3>1, <3>2 DEF Left
    <3>4. Key(s) \in P \/ (\A i \in DOMAIN page : Below(Key(s), page[i])) \/ Key(s) \in K
      BY <1>4, <3>2, <3>3
    <3>5. (\A i \in DOMAIN page : Below(Key(s), page[i])) => Below(Key(s), end)
      BY <2>2 DEF Items
    <3> QED
      BY <3>2, <3>4, <3>5 DEF Ahead
  <2> QED
    BY <1>7, <1>8, <2>6, <2>7, <2>8 DEF Listed
<1>11. CASE ~(list.limit = 0 \/ ~Summed(page)) /\ Len(page) # list.limit
  <2>1. NextCursor(page, list.limit) = None
    BY <1>11 DEF NextCursor
  <2>2. list' \in ListRecord(clock) /\ list'.shown = more /\ list'.pc = "over"
    <3>1. list' = [list EXCEPT !.shown = more, !.cursor = None, !.pc = "over"]
      BY <1>5, <1>11, <2>1
    <3> HIDE DEF more
    <3> QED
      BY <1>1, <1>8, <3>1 DEF ListRecord
  <2>3. \A s \in Sessions \ touched : row[s].state = "visible" => KeyIn(row, s) \in K \cup P
    <3>1. SUFFICES ASSUME NEW s \in Sessions \ touched, row[s].state = "visible"
                   PROVE  KeyIn(row, s) \in K \cup P
      OBVIOUS
    <3>2. s \in Visible /\ KeyIn(row, s) = Key(s)
      BY <3>1 DEF Visible, Key, KeyIn
    <3>3. Ahead(Key(s), before) \/ Key(s) \in K
      BY <1>1, <3>1, <3>2 DEF Left
    <3> QED
      BY <1>4, <1>11, <3>2, <3>3
  <2> QED
    BY <1>7, <1>8, <2>2, <2>3 DEF Listed
<1> QED
  BY <1>9, <1>10, <1>11
-----------------------------------------------------------------------------
(* The search tool                                                         *)

SearchRecord(c) ==
  [pc : {"none", "asking", "getting", "messages", "over", "failed"}, limit : Nat, size : Nat,
   before : {None} \cup KeysTo(c), page : Seq(AllKeys), after : {None} \cup KeysTo(c),
   read : Nat, todo : Seq(AllKeys), found : Seq(AllKeys)]

InHand(x) == Items(x.found) \cup Items(x.todo) \cup Items(x.page)

Candidates == {s \in Sessions \ {Mine} : AgentOf[s] = Agent /\ Matches(s)}

SearchShape(x, r, tch, bck, c) ==
  /\ x \in SearchRecord(c)
  /\ Descends(x.found) /\ Descends(x.todo) /\ Descends(x.page)
  /\ Went(InHand(x), r, tch, bck, c)
  /\ \A k \in InHand(x) : AgentOf[k[2]] = Agent
  /\ \A k \in Items(x.found) \cup Items(x.todo) : k[2] # Mine
  /\ \A k \in Items(x.found), l \in Items(x.todo) \cup Items(x.page) : Below(l, k)
  /\ x.read <= MaxSessions /\ Len(x.found) <= x.limit

\* Before a page is asked for.
Asking(x, r, tch) ==
  /\ x.todo = <<>> /\ x.size # 0 /\ x.read + x.size <= MaxSessions
  /\ Len(x.page) < x.size /\ Len(x.found) < x.limit
  /\ Behind(InHand(x), x.before)
  /\ Left(InHand(x), x.before, r, tch, Candidates)

\* Between two of the sessions of a page, or after the last.
Midway(x, r, tch) ==
  /\ x.page = <<>> /\ x.after # None /\ Len(x.found) < x.limit
  /\ Behind(InHand(x), x.after)
  /\ Left(InHand(x), x.after, r, tch, Candidates)

Newest(x, r, tch) ==
  \A s \in Candidates \ tch : r[s].state = "visible" =>
    \/ KeyIn(r, s) \in Items(x.found)
    \/ Len(x.found) = x.limit /\ Below(KeyIn(r, s), x.found[Len(x.found)])
    \/ x.read = MaxSessions /\ Below(KeyIn(r, s), x.after)

Searched(x, r, tch, bck, c) ==
  /\ SearchShape(x, r, tch, bck, c)
  /\ x.pc = "asking" => Asking(x, r, tch)
  /\ x.pc \in {"getting", "messages"} => Midway(x, r, tch) /\ x.todo # <<>>
  /\ x.pc = "over" => Newest(x, r, tch)

LEMMA NoSearchIsSearched ==
  ASSUME NEW r, NEW tch, NEW bck, NEW c
  PROVE  /\ Searched(NoSearch, r, tch, bck, c)
         /\ Searched([NoSearch EXCEPT !.pc = "failed"], r, tch, bck, c)
         /\ \A limit \in 1..MaxResults :
              Searched([NoSearch EXCEPT !.pc = "asking", !.limit = limit,
                                        !.size = Least(PageSize, MaxSessions)], r, tch, bck, c)
<1> DEFINE Begun(pc, limit, size) ==
             [pc |-> pc, limit |-> limit, size |-> size, before |-> None, page |-> <<>>,
              after |-> None, read |-> 0, todo |-> <<>>, found |-> <<>>]
<1>1. /\ <<>> \in Seq(AllKeys) /\ Items(<<>>) = {} /\ Descends(<<>>) /\ Len(<<>>) = 0
      /\ MaxSessions \in Nat \ {0} /\ PageSize \in Nat \ {0} /\ MaxResults \in Nat \ {0}
  BY SessionsAssumption DEF Items, Descends
<1>2. ASSUME NEW pc \in {"none", "failed", "asking"}, NEW limit \in Nat, NEW size \in Nat
      PROVE  SearchShape(Begun(pc, limit, size), r, tch, bck, c)
  <2>1. Begun(pc, limit, size) \in SearchRecord(c)
    BY <1>1 DEF SearchRecord
  <2>2. InHand(Begun(pc, limit, size)) = {}
    BY <1>1 DEF InHand
  <2> QED
    BY <1>1, <2>1, <2>2 DEF SearchShape, Went
<1>3. Searched(NoSearch, r, tch, bck, c)
  <2>1. NoSearch = Begun("none", 0, 0)
    BY DEF NoSearch
  <2>2. SearchShape(NoSearch, r, tch, bck, c)
    BY <1>2, <2>1
  <2> QED
    BY <2>2 DEF Searched, NoSearch
<1>4. Searched([NoSearch EXCEPT !.pc = "failed"], r, tch, bck, c)
  <2>1. [NoSearch EXCEPT !.pc = "failed"] = Begun("failed", 0, 0)
    BY DEF NoSearch
  <2>2. SearchShape([NoSearch EXCEPT !.pc = "failed"], r, tch, bck, c)
    BY <1>2, <2>1
  <2>3. [NoSearch EXCEPT !.pc = "failed"].pc = "failed"
    BY <2>1
  <2> QED
    BY <2>2, <2>3 DEF Searched
<1>5. ASSUME NEW limit \in 1..MaxResults
      PROVE  Searched([NoSearch EXCEPT !.pc = "asking", !.limit = limit,
                                       !.size = Least(PageSize, MaxSessions)], r, tch, bck, c)
  <2> DEFINE size == Least(PageSize, MaxSessions)
             x == [NoSearch EXCEPT !.pc = "asking", !.limit = limit, !.size = size]
  <2>1. size \in Nat /\ size # 0 /\ size <= MaxSessions /\ limit \in Nat /\ limit # 0
    BY <1>1 DEF Least
  <2> HIDE DEF size
  <2>2. x = Begun("asking", limit, size)
    <3>1. /\ [NoSearch EXCEPT !.pc = "asking"] = Begun("asking", 0, 0)
          /\ [Begun("asking", 0, 0) EXCEPT !.limit = limit] = Begun("asking", limit, 0)
      BY DEF NoSearch
    <3>2. [Begun("asking", limit, 0) EXCEPT !.size = size] = Begun("asking", limit, size)
      OBVIOUS
    <3> QED
      BY <3>1, <3>2
  <2>3. SearchShape(x, r, tch, bck, c)
    BY <1>2, <2>1, <2>2
  <2>4. /\ x.pc = "asking" /\ x.todo = <<>> /\ x.size = size /\ x.read = 0 /\ x.page = <<>>
        /\ x.found = <<>> /\ x.limit = limit /\ x.before = None
    BY <2>2
  <2> HIDE DEF x
  <2>5. InHand(x) = {}
    BY <1>1, <2>4 DEF InHand
  <2>6. Asking(x, r, tch)
    BY <1>1, <2>1, <2>4, <2>5 DEF Asking, Behind, Left, Ahead
  <2> QED
    BY <2>3, <2>4, <2>6 DEF Searched, x, size
<1> QED
  BY <1>3, <1>4, <1>5

LEMMA SearchedWhileWriting ==
  ASSUME NEW s, NEW w, NEW r, NEW tch, NEW bck, NEW c, Writable(s, w, r, tch, bck, c),
         NEW x, Searched(x, r, tch, bck, c)
  PROVE  Searched(x, Written(r, s, w), tch \cup {s}, BackAfter(bck, r, s, w), c)
<1> DEFINE q == Written(r, s, w)
           wroteBack == BackAfter(bck, r, s, w)
<1>0. WriteFaithful(q, wroteBack, s, r, tch, bck, c)
  BY WriteKeeps
<1> HIDE DEF q, wroteBack
<1>1. /\ \A K : Went(K, r, tch, bck, c) => Went(K, q, tch \cup {s}, wroteBack, c)
      /\ \A K, before, all : all \subseteq Sessions /\ Left(K, before, r, tch, all) =>
           Left(K, before, q, tch \cup {s}, all)
      /\ \A y \in Sessions \ {s} : q[y] = r[y]
  BY <1>0 DEF WriteFaithful
<1>2. Candidates \subseteq Sessions
  BY DEF Candidates
<1>3. SearchShape(x, q, tch \cup {s}, wroteBack, c)
  BY <1>1 DEF Searched, SearchShape
<1>4. x.pc = "asking" => Asking(x, q, tch \cup {s})
  BY <1>1, <1>2 DEF Searched, Asking
<1>5. x.pc \in {"getting", "messages"} => Midway(x, q, tch \cup {s}) /\ x.todo # <<>>
  BY <1>1, <1>2 DEF Searched, Midway
<1>6. x.pc = "over" => Newest(x, q, tch \cup {s})
  <2>1. \A y \in Candidates \ (tch \cup {s}) :
          y \in Candidates \ tch /\ q[y] = r[y] /\ KeyIn(q, y) = KeyIn(r, y)
    BY <1>1, <1>2 DEF KeyIn
  <2> QED
    BY <2>1 DEF Searched, Newest
<1>7. Searched(x, q, tch \cup {s}, wroteBack, c)
  BY <1>3, <1>4, <1>5, <1>6 DEF Searched
<1> QED
  BY <1>7 DEF q, wroteBack

LEMMA SearchedAtTick ==
  ASSUME NEW c \in Nat, NEW r, NEW tch, NEW bck, NEW x, Searched(x, r, tch, bck, c)
  PROVE  Searched(x, r, tch, bck, c + 1)
<1>1. SearchRecord(c) \subseteq SearchRecord(c + 1)
  BY TickKeeps DEF SearchRecord
<1>2. SearchShape(x, r, tch, bck, c + 1)
  BY <1>1, TickKeeps DEF Searched, SearchShape
<1> QED
  BY <1>2 DEF Searched
\* The next session, the next page or the end.
LEMMA OnwardSearched ==
  ASSUME NEW x, NEW r, NEW tch, NEW bck, NEW c,
         SearchShape(x, r, tch, bck, c), Midway(x, r, tch)
  PROVE  Searched(Onward(x), r, tch, bck, c) /\ Onward(x).pc # "none"
<1> DEFINE y == Onward(x)
<1>1. /\ x \in SearchRecord(c) /\ x.read \in Nat /\ x.read <= MaxSessions /\ x.page = <<>>
      /\ x.after \in {None} \cup KeysTo(c) /\ <<>> \in Seq(AllKeys)
      /\ MaxSessions \in Nat /\ PageSize \in Nat \ {0}
  BY SessionsAssumption DEF SearchShape, Midway, SearchRecord
<1>2. ASSUME NEW z \in SearchRecord(c), z.found = x.found, z.todo = x.todo, z.page = x.page,
             z.read = x.read, z.limit = x.limit, z.after = x.after
      PROVE  SearchShape(z, r, tch, bck, c) /\ InHand(z) = InHand(x)
  BY <1>2 DEF SearchShape, InHand
<1>3. CASE x.todo # <<>>
  <2>1. y = [x EXCEPT !.pc = "getting"]
    BY <1>3 DEF Onward
  <2>2. /\ y \in SearchRecord(c) /\ y.pc = "getting" /\ y.found = x.found /\ y.todo = x.todo
        /\ y.page = x.page /\ y.read = x.read /\ y.limit = x.limit /\ y.after = x.after
    BY <1>1, <2>1 DEF SearchRecord
  <2> HIDE DEF y
  <2>3. SearchShape(y, r, tch, bck, c) /\ InHand(y) = InHand(x)
    BY <1>2, <2>2
  <2>4. Midway(y, r, tch)
    BY <2>2, <2>3 DEF Midway
  <2> QED
    BY <1>3, <2>2, <2>3, <2>4 DEF Searched, y
<1>4. CASE x.todo = <<>> /\ x.read < MaxSessions
  <2> DEFINE size == Least(PageSize, MaxSessions - x.read)
  <2>1. size \in Nat /\ size # 0 /\ x.read + size <= MaxSessions
    BY <1>1, <1>4 DEF Least
  <2>2. y = [x EXCEPT !.pc = "asking", !.before = x.after, !.page = <<>>, !.size = size]
    BY <1>4 DEF Onward
  <2> HIDE DEF size
  <2>3. /\ y \in SearchRecord(c) /\ y.pc = "asking" /\ y.found = x.found /\ y.todo = x.todo
        /\ y.page = x.page /\ y.read = x.read /\ y.limit = x.limit /\ y.after = x.after
        /\ y.before = x.after /\ y.size = size
    BY <1>1, <2>1, <2>2 DEF SearchRecord
  <2> HIDE DEF y
  <2>4. SearchShape(y, r, tch, bck, c) /\ InHand(y) = InHand(x)
    BY <1>2, <2>3
  <2>5. Len(<<>>) = 0 /\ 0 < size
    BY <2>1
  <2>6. Asking(y, r, tch)
    BY <1>1, <1>4, <2>1, <2>3, <2>4, <2>5 DEF Asking, Midway
  <2> QED
    BY <2>3, <2>4, <2>6 DEF Searched, y
<1>5. CASE x.todo = <<>> /\ ~(x.read < MaxSessions)
  <2>1. y = [x EXCEPT !.pc = "over"] /\ x.read = MaxSessions
    BY <1>1, <1>5 DEF Onward
  <2>2. /\ y \in SearchRecord(c) /\ y.pc = "over" /\ y.found = x.found /\ y.todo = x.todo
        /\ y.page = x.page /\ y.read = x.read /\ y.limit = x.limit /\ y.after = x.after
    BY <1>1, <2>1 DEF SearchRecord
  <2> HIDE DEF y
  <2>3. SearchShape(y, r, tch, bck, c) /\ InHand(y) = InHand(x)
    BY <1>2, <2>2
  <2>4. InHand(x) = Items(x.found)
    BY <1>1, <1>5 DEF InHand, Items
  <2>5. Newest(y, r, tch)
    BY <2>1, <2>2, <2>4 DEF Newest, Midway, Left, Ahead
  <2> QED
    BY <2>2, <2>3, <2>5 DEF Searched, y
<1> QED
  BY <1>3, <1>4, <1>5

\* The words of a session, read.
LEMMA SearchedAfterMessages ==
  ASSUME clock \in 0..MaxClock, row \in Rows(clock),
         Searched(search, row, touched, back, clock), ReadMessages
  PROVE  Searched(search', row, touched, back, clock) /\ search'.pc # "none"
<1> DEFINE head == Head(search.todo)
           found == IF Matches(Due) THEN Append(search.found, head) ELSE search.found
           x == [search EXCEPT !.found = found, !.todo = Tail(search.todo)]
<1>1. /\ search \in SearchRecord(clock) /\ search.pc = "messages" /\ search.todo # <<>>
      /\ SearchShape(search, row, touched, back, clock) /\ Midway(search, row, touched)
      /\ search.found \in Seq(AllKeys) /\ search.todo \in Seq(AllKeys)
      /\ Descends(search.found) /\ Descends(search.todo) /\ search.page = <<>>
  BY DEF ReadMessages, Searched, SearchShape, SearchRecord, Midway
<1>2. search' = IF Due \notin Visible THEN [search EXCEPT !.pc = "failed"]
                ELSE IF Len(found) = search.limit THEN [x EXCEPT !.pc = "over"]
                ELSE Onward(x)
  BY DEF ReadMessages
<1>3. /\ head \in Items(search.todo) /\ head \in AllKeys /\ Tail(search.todo) \in Seq(AllKeys)
      /\ Descends(Tail(search.todo))
      /\ Items(Tail(search.todo)) = Items(search.todo) \ {head}
      /\ \A k \in Items(Tail(search.todo)) : Below(k, head)
      /\ Due = head[2]
  BY <1>1, HeadInOrder DEF Due
<1> HIDE DEF head
<1>4. CASE Due \notin Visible
  <2>1. search' = [search EXCEPT !.pc = "failed"]
    BY <1>2, <1>4
  <2>2. /\ search' \in SearchRecord(clock) /\ search'.pc = "failed"
        /\ search'.found = search.found /\ search'.todo = search.todo
        /\ search'.page = search.page /\ search'.read = search.read
        /\ search'.limit = search.limit
    BY <1>1, <2>1 DEF SearchRecord
  <2>3. SearchShape(search', row, touched, back, clock)
    BY <1>1, <2>2 DEF SearchShape, InHand
  <2> QED
    BY <2>2, <2>3 DEF Searched
<1>5. /\ found \in Seq(AllKeys) /\ Descends(found) /\ Items(search.found) \subseteq Items(found)
      /\ Items(found) \subseteq Items(search.found) \cup {head}
      /\ Matches(Due) => head \in Items(found)
      /\ Len(found) <= search.limit
      /\ \A k \in Items(found), l \in Items(Tail(search.todo)) : Below(l, k)
  <2>1. \A k \in Items(search.found) : Below(head, k)
    BY <1>1, <1>3 DEF SearchShape
  <2>2. \A k \in Items(search.found), l \in Items(Tail(search.todo)) : Below(l, k)
    BY <1>1, <1>3 DEF SearchShape
  <2>3. CASE Matches(Due)
    <3>1. found = Append(search.found, head)
      BY <2>3
    <3>2. \A j \in DOMAIN search.found : Below(head, search.found[j])
      BY <2>1 DEF Items
    <3>3. /\ found \in Seq(AllKeys) /\ Descends(found)
          /\ Items(found) = Items(search.found) \cup {head}
      BY <1>1, <1>3, <3>1, <3>2, AppendInOrder
    <3>4. Len(found) = Len(search.found) + 1
      BY <1>1, <1>3, <3>1
    <3>5. Len(found) <= search.limit
      <4>1. Len(search.found) < search.limit /\ Len(search.found) \in Nat /\ search.limit \in Nat
        BY <1>1 DEF Midway, SearchRecord
      <4> QED
        BY <3>4, <4>1
    <3> HIDE DEF found
    <3> QED
      BY <1>3, <2>2, <3>3, <3>5
  <2>4. CASE ~Matches(Due)
    <3>1. found = search.found
      BY <2>4
    <3> QED
      BY <1>1, <2>2, <2>4, <3>1 DEF SearchShape
  <2> QED
    BY <2>3, <2>4
<1>6. found # search.found => found = Append(search.found, head)
  OBVIOUS
<1>7. ~Matches(Due) => found = search.found
  OBVIOUS
<1> HIDE DEF found
<1>8. /\ x \in SearchRecord(clock) /\ x.found = found /\ x.todo = Tail(search.todo)
      /\ x.page = <<>> /\ x.read = search.read /\ x.limit = search.limit
      /\ x.after = search.after
  BY <1>1, <1>3, <1>5 DEF SearchRecord
<1> HIDE DEF x
<1>9. Items(<<>>) = {}
  BY DEF Items
<1>10. /\ InHand(x) \subseteq InHand(search)
       /\ Items(search.found) \subseteq InHand(x)
       /\ Items(search.todo) \ {head} \subseteq InHand(x)
       /\ Matches(Due) => head \in InHand(x)
  BY <1>1, <1>3, <1>5, <1>8, <1>9 DEF InHand
<1>11. SearchShape(x, row, touched, back, clock)
  <2>1. Went(InHand(x), row, touched, back, clock)
    BY <1>1, <1>10, FewerWent DEF SearchShape
  <2>2. \A k \in Items(x.found) \cup Items(x.todo) : k[2] # Mine
    BY <1>1, <1>3, <1>5, <1>8 DEF SearchShape
  <2>3. \A k \in InHand(x) : AgentOf[k[2]] = Agent
    BY <1>1, <1>10 DEF SearchShape
  <2>4. \A k \in Items(x.found), l \in Items(x.todo) \cup Items(x.page) : Below(l, k)
    BY <1>5, <1>8, <1>9
  <2>5. Descends(x.found) /\ Descends(x.todo) /\ Descends(x.page)
    BY <1>3, <1>5, <1>8 DEF Descends
  <2>6. x.read <= MaxSessions /\ Len(x.found) <= x.limit
    BY <1>1, <1>5, <1>8 DEF SearchShape
  <2> QED
    BY <1>8, <2>1, <2>2, <2>3, <2>4, <2>5, <2>6 DEF SearchShape
<1>12. \A s \in Candidates \ touched : row[s].state = "visible" =>
         Below(KeyIn(row, s), search.after) \/ KeyIn(row, s) \in InHand(x)
  <2>1. SUFFICES ASSUME NEW s \in Candidates \ touched, row[s].state = "visible"
                 PROVE  Below(KeyIn(row, s), search.after) \/ KeyIn(row, s) \in InHand(x)
    OBVIOUS
  <2>2. Below(KeyIn(row, s), search.after) \/ KeyIn(row, s) \in InHand(search)
    BY <1>1, <2>1 DEF Midway, Left, Ahead
  <2>3. KeyIn(row, s) = head => Matches(Due)
    BY <1>3 DEF KeyIn, Candidates
  <2>4. InHand(search) = Items(search.found) \cup Items(search.todo)
    BY <1>1, <1>9 DEF InHand
  <2> QED
    BY <1>10, <2>2, <2>3, <2>4
<1>13. CASE Due \in Visible /\ Len(found) = search.limit
  <2>1. search' = [x EXCEPT !.pc = "over"]
    BY <1>2, <1>13
  <2>2. /\ search' \in SearchRecord(clock) /\ search'.pc = "over" /\ search'.found = x.found
        /\ search'.todo = x.todo /\ search'.page = x.page /\ search'.read = x.read
        /\ search'.limit = x.limit /\ search'.after = x.after
    BY <1>8, <2>1 DEF SearchRecord
  <2>3. SearchShape(search', row, touched, back, clock)
    BY <1>11, <2>2 DEF SearchShape, InHand
  <2>4. Matches(Due) /\ found = Append(search.found, head)
    <3>1. Len(search.found) < search.limit /\ Len(search.found) \in Nat /\ search.limit \in Nat
      BY <1>1 DEF Midway, SearchRecord
    <3>2. found # search.found
      BY <1>13, <3>1
    <3> QED
      BY <1>6, <1>7, <3>2
  <2>5. found[Len(found)] = head
    BY <1>1, <1>3, <2>4
  <2>6. \A s \in Candidates \ touched : row[s].state = "visible" =>
          KeyIn(row, s) \in Items(found) \/ Below(KeyIn(row, s), head)
    <3>1. SUFFICES ASSUME NEW s \in Candidates \ touched, row[s].state = "visible"
                   PROVE  KeyIn(row, s) \in Items(found) \/ Below(KeyIn(row, s), head)
      OBVIOUS
    <3>2. CASE KeyIn(row, s) \in InHand(x)
      BY <1>3, <1>8, <1>9, <3>2 DEF InHand
    <3>3. CASE Below(KeyIn(row, s), search.after)
      <4>1. /\ head \in InHand(search) /\ ~Below(head, search.after)
            /\ search.after # None
        BY <1>1, <1>3 DEF InHand, Midway, Behind
      <4>2. /\ search.after \in KeysTo(clock) /\ clock \in Nat
        BY <1>1, <4>1, SessionsAssumption DEF SearchRecord
      <4>3. search.after \in AllKeys
        BY <4>2 DEF KeysTo, AllKeys
      <4>4. KeyIn(row, s) \in AllKeys
        BY <4>2, RowsType DEF Candidates
      <4>5. head = search.after \/ Below(search.after, head)
        BY <1>3, <4>1, <4>3, BelowOrders
      <4> QED
        BY <1>3, <3>3, <4>3, <4>4, <4>5, BelowOrders
    <3> QED
      BY <1>12, <3>1, <3>2, <3>3
  <2>7. Newest(search', row, touched)
    BY <1>8, <1>13, <2>2, <2>5, <2>6 DEF Newest
  <2> QED
    BY <2>2, <2>3, <2>7 DEF Searched
<1>14. CASE Due \in Visible /\ Len(found) # search.limit
  <2>1. search' = Onward(x)
    BY <1>2, <1>14
  <2>2. Len(x.found) < x.limit
    <3>1. Len(found) \in Nat /\ search.limit \in Nat
      BY <1>1, <1>5 DEF SearchRecord
    <3> QED
      BY <1>5, <1>8, <1>14, <3>1
  <2>3. Behind(InHand(x), x.after) /\ x.after # None
    BY <1>1, <1>8, <1>10 DEF Midway, Behind
  <2>4. Left(InHand(x), x.after, row, touched, Candidates)
    BY <1>8, <1>12 DEF Left, Ahead
  <2>5. Midway(x, row, touched)
    BY <1>8, <2>2, <2>3, <2>4 DEF Midway
  <2> QED
    BY <1>11, <2>1, <2>5, OnwardSearched
<1> QED
  BY <1>4, <1>13, <1>14
\* What the broker asks with is what the server reads.
LEMMA ParamsRound ==
  ASSUME NEW c \in 0..MaxClock, NEW before \in {None} \cup KeysTo(c)
  PROVE  FromParams(Params(before)) = before
<1>1. CASE before = None
  BY <1>1 DEF Params, FromParams
<1>2. CASE before # None
  <2>1. PICK a \in 0..c, b \in Sessions : before = <<a, b>>
    BY <1>2 DEF KeysTo
  <2> DEFINE params == [before_updated_at |-> a, before_id |-> b]
  <2>2. Params(before) = params
    BY <1>2, <2>1 DEF Params
  <2>3. "before_id" \in DOMAIN params /\ "before_id" \notin DOMAIN <<>>
    OBVIOUS
  <2>4. params # <<>>
    BY <2>3
  <2> QED
    BY <2>1, <2>2, <2>4 DEF FromParams
<1> QED
  BY <1>1, <1>2

\* One call of the bound read's loop.
LEMMA SearchedAfterPage ==
  ASSUME clock \in 0..MaxClock, row \in Rows(clock),
         Searched(search, row, touched, back, clock), AskBroker
  PROVE  Searched(search', row, touched, back, clock) /\ search'.pc # "none"
<1> DEFINE page == SessionsOf(search.size, search.before)
           theirs == OfAgent(page)
           room == search.size - Len(search.page)
           first == FirstOf(theirs, room)
           own == search.page \o first
           K == Items(search.found) \cup Items(search.page)
           P == Items(page)
           F == Items(first)
           y == [search EXCEPT !.after = own[Len(own)], !.read = @ + Len(own),
                               !.todo = Kept(own, Sessions \ {Mine}), !.page = <<>>]
<1>1. /\ search \in SearchRecord(clock) /\ search.pc = "asking" /\ clock \in Nat
      /\ SearchShape(search, row, touched, back, clock) /\ Asking(search, row, touched)
      /\ search.page \in Seq(AllKeys) /\ search.found \in Seq(AllKeys)
      /\ Descends(search.page) /\ Descends(search.found)
      /\ search.before \in {None} \cup KeysTo(clock)
      /\ search.read \in Nat /\ search.size \in Nat /\ search.limit \in Nat
      /\ search.todo = <<>> /\ search.read + search.size <= MaxSessions
      /\ MaxSessions \in Nat
      /\ Len(search.page) < search.size /\ Len(search.page) \in Nat
  BY SessionsAssumption DEF AskBroker, Searched, SearchShape, SearchRecord, Asking
<1>2. /\ InHand(search) = K
      /\ Went(K, row, touched, back, clock) /\ Behind(K, search.before)
      /\ Left(K, search.before, row, touched, Candidates)
      /\ \A k \in Items(search.found), l \in Items(search.page) : Below(l, k)
      /\ \A k \in K : AgentOf[k[2]] = Agent
      /\ \A k \in Items(search.found) : k[2] # Mine
  <2>1. Items(search.todo) = {}
    BY <1>1 DEF Items
  <2>2. InHand(search) = K
    BY <2>1 DEF InHand
  <2> QED
    BY <1>1, <2>2 DEF SearchShape, Asking
<1>3. BrokerSessionsOf(search.size, search.before) = page
  BY <1>1, ParamsRound DEF BrokerSessionsOf
<1>4. search' = IF Len(own) < search.size /\ ~IsLast(page, search.size)
                THEN [search EXCEPT !.page = own, !.before = AskPast(page)]
                ELSE IF own = <<>> THEN [search EXCEPT !.pc = "over"] ELSE Onward(y)
  BY <1>3 DEF AskBroker
<1>5. /\ page \in Seq(AllKeys) /\ Len(page) <= search.size /\ Descends(page)
      /\ \A i \in DOMAIN page : /\ page[i][2] \in Visible /\ page[i] = Key(page[i][2])
                                /\ Ahead(page[i], search.before)
      /\ \A s \in Visible : Ahead(Key(s), search.before) =>
           \/ Key(s) \in P
           \/ Len(page) = search.size /\ \A i \in DOMAIN page : Below(Key(s), page[i])
  <2>1. RowType
    BY <1>1, RowsType DEF RowType
  <2> QED
    BY <1>1, <2>1, PageIsFirst
<1> HIDE DEF page
<1>6. \A p \in P : /\ p[2] \in Sessions /\ row[p[2]].state = "visible"
                   /\ p = KeyIn(row, p[2]) /\ Ahead(p, search.before)
  BY <1>5 DEF Items, Visible, Key, KeyIn
<1>7. Went(K \cup P, row, touched, back, clock) /\ \A k \in K, p \in P : Below(p, k)
  <2> DEFINE before == search.before
  <2>1. /\ clock \in Nat /\ row \in Rows(clock) /\ Went(K, row, touched, back, clock)
        /\ before \in {None} \cup KeysTo(clock) /\ Behind(K, before)
        /\ \A p \in P : /\ p[2] \in Sessions /\ row[p[2]].state = "visible"
                        /\ p = KeyIn(row, p[2]) /\ Ahead(p, before)
    BY <1>1, <1>2, <1>6
  <2> HIDE DEF K, P, before
  <2> QED
    BY ONLY <2>1, PageJoins
<1>8. /\ theirs \in Seq(AllKeys) /\ Descends(theirs)
      /\ Items(theirs) = {k \in P : k[2] \in {s \in Sessions : AgentOf[s] = Agent}}
  BY <1>5, KeptInOrder DEF OfAgent
<1> HIDE DEF theirs
<1>9. /\ first \in Seq(AllKeys) /\ Descends(first) /\ Len(first) <= room
      /\ F \subseteq Items(theirs)
      /\ \A k \in Items(theirs) :
           k \in F \/ (Len(first) = room /\ \A i \in DOMAIN first : Below(k, first[i]))
      /\ room \in Nat /\ room # 0
  <2>1. room \in Nat /\ room # 0
    BY <1>1
  <2> QED
    BY <1>8, <2>1, FirstInOrder
<1>10. F \subseteq P /\ Len(first) \in Nat /\ (Len(first) # 0 => F # {})
  <2>1. DOMAIN first = 1..Len(first) /\ Len(first) \in Nat
    BY <1>9
  <2>2. Len(first) # 0 => 1 \in DOMAIN first
    BY <2>1
  <2>3. Len(first) # 0 => first[1] \in F
    BY <2>2 DEF Items
  <2>4. F \subseteq P
    <3> HIDE DEF F, P
    <3> QED
      BY <1>8, <1>9
  <2> QED
    BY <2>1, <2>3, <2>4
<1> HIDE DEF first
<1>11. /\ own \in Seq(AllKeys) /\ Descends(own) /\ Items(own) = Items(search.page) \cup F
       /\ Len(own) = Len(search.page) + Len(first)
  <2>1. \A k \in Items(search.page), l \in F : Below(l, k)
    BY <1>7, <1>10
  <2> QED
    BY <1>1, <1>9, <2>1, JoinInOrder
<1> HIDE DEF own
<1>12. \A k \in Items(search.found), l \in Items(own) : Below(l, k)
  BY <1>2, <1>7, <1>10, <1>11
<1>13. \A k \in Items(own) : AgentOf[k[2]] = Agent /\ k[2] \in Sessions
  <2>1. \A k \in F : AgentOf[k[2]] = Agent
    BY <1>8, <1>9
  <2>2. \A k \in Items(own) : k \in K \cup P
    BY <1>10, <1>11
  <2>3. \A k \in K \cup P : k \in KeysTo(clock)
    BY <1>7 DEF Went
  <2> QED
    BY <1>1, <1>2, <1>11, <2>1, <2>2, <2>3, RowsType
<1>14. Went(Items(search.found) \cup Items(own), row, touched, back, clock)
  <2>1. Items(search.found) \cup Items(own) \subseteq K \cup P
    BY <1>10, <1>11
  <2> QED
    BY <1>7, <2>1, FewerWent
\* What is still to come is below the page, or below what was kept of it.
<1>15. \A s \in Candidates \ touched : row[s].state = "visible" =>
         \/ KeyIn(row, s) \in Items(search.found) \cup Items(own)
         \/ Len(first) = room /\ \A k \in F : Below(KeyIn(row, s), k)
         \/ Len(page) = search.size /\ \A k \in P : Below(KeyIn(row, s), k)
  <2>1. SUFFICES ASSUME NEW s \in Candidates \ touched, row[s].state = "visible"
                 PROVE  \/ KeyIn(row, s) \in Items(search.found) \cup Items(own)
                        \/ Len(first) = room /\ \A k \in F : Below(KeyIn(row, s), k)
                        \/ Len(page) = search.size /\ \A k \in P : Below(KeyIn(row, s), k)
    OBVIOUS
  <2>2. s \in Visible /\ KeyIn(row, s) = Key(s) /\ s \in Sessions /\ AgentOf[s] = Agent
    BY <2>1 DEF Visible, Key, KeyIn, Candidates
  <2>3. Ahead(Key(s), search.before) \/ Key(s) \in K
    BY <1>2, <2>1, <2>2 DEF Left
  <2>4. CASE Key(s) \in K
    BY <1>11, <2>2, <2>4
  <2>5. CASE Key(s) \in P
    <3>1. Key(s) \in Items(theirs)
      BY <1>8, <2>2, <2>5 DEF Key
    <3>2. Key(s) \in F \/ (Len(first) = room /\ \A i \in DOMAIN first : Below(Key(s), first[i]))
      BY <1>9, <3>1
    <3> QED
      BY <1>11, <2>2, <3>2 DEF Items
  <2>6. CASE Len(page) = search.size /\ \A i \in DOMAIN page : Below(Key(s), page[i])
    BY <2>2, <2>6 DEF Items
  <2> QED
    BY <1>5, <2>2, <2>3, <2>4, <2>5, <2>6
<1>16. CASE Len(own) < search.size /\ ~IsLast(page, search.size)
  <2> DEFINE end == page[Len(page)]
             x == [search EXCEPT !.page = own, !.before = AskPast(page)]
  <2>1. Len(page) = search.size /\ page # <<>>
    <3>1. Len(page) \in Nat
      BY <1>5
    <3>2. Len(page) = search.size /\ search.size # 0
      BY <1>1, <1>5, <1>16, <3>1 DEF IsLast, Asking
    <3> QED
      BY <3>2
  <2>2. end \in P /\ end \in AllKeys /\ \A k \in P : ~Below(k, end)
    BY <1>5, <2>1, LastInOrder
  <2>3. end \in KeysTo(clock) /\ end # None
    <3>1. end \in KeysTo(clock)
      BY <1>7, <2>2 DEF Went
    <3> QED
      BY <3>1, CursorRound
  <2>4. x = [search EXCEPT !.page = own, !.before = end]
    BY DEF AskPast
  <2> HIDE DEF end
  <2>5. /\ x \in SearchRecord(clock) /\ x.pc = "asking" /\ x.page = own /\ x.before = end
        /\ x.found = search.found /\ x.todo = <<>> /\ x.size = search.size
        /\ x.read = search.read /\ x.limit = search.limit
    BY <1>1, <1>11, <2>3, <2>4 DEF SearchRecord
  <2> HIDE DEF x
  <2>6. InHand(x) = Items(search.found) \cup Items(own)
    <3>1. Items(<<>>) = {}
      BY DEF Items
    <3> QED
      BY <2>5, <3>1 DEF InHand
  <2>7. SearchShape(x, row, touched, back, clock)
    <3>1. \A k \in InHand(x) : AgentOf[k[2]] = Agent
      BY <1>2, <1>13, <2>6
    <3>2. Items(<<>>) = {} /\ Descends(<<>>)
      BY DEF Items, Descends
    <3>3. \A k \in Items(x.found) \cup Items(x.todo) : k[2] # Mine
      BY <1>2, <2>5, <3>2
    <3>4. \A k \in Items(x.found), l \in Items(x.todo) \cup Items(x.page) : Below(l, k)
      BY <1>12, <2>5, <3>2
    <3>5. x.read <= MaxSessions /\ Len(x.found) <= x.limit
      BY <1>1, <2>5 DEF SearchShape
    <3>6. Descends(x.found) /\ Descends(x.todo) /\ Descends(x.page)
      BY <1>1, <1>11, <2>5, <3>2
    <3> QED
      BY <1>14, <2>5, <2>6, <3>1, <3>3, <3>4, <3>5, <3>6 DEF SearchShape
  <2>8. Behind(InHand(x), end)
    <3>1. \A k \in K : ~Below(k, end)
      <4>1. \A k \in K : Below(end, k) /\ k \in AllKeys
        BY <1>1, <1>7, <2>2, RowsType DEF Went
      <4> QED
        BY <2>2, <4>1, BelowOrders
    <3>2. InHand(x) \subseteq K \cup P
      BY <1>10, <1>11, <2>6
    <3> QED
      BY <2>2, <2>3, <3>1, <3>2 DEF Behind
  <2>9. Left(InHand(x), end, row, touched, Candidates)
    <3>1. Len(first) # room
      BY <1>1, <1>9, <1>10, <1>11, <1>16
    <3> QED
      BY <1>15, <2>2, <2>6, <3>1 DEF Left, Ahead
  <2>10. Asking(x, row, touched)
    BY <1>1, <1>16, <2>5, <2>8, <2>9 DEF Asking
  <2> QED
    BY <1>4, <1>16, <2>5, <2>7, <2>10 DEF Searched, x
<1>17. CASE ~(Len(own) < search.size /\ ~IsLast(page, search.size)) /\ own = <<>>
  <2>1. search' = [search EXCEPT !.pc = "over"]
    BY <1>4, <1>17
  <2>2. /\ search' \in SearchRecord(clock) /\ search'.pc = "over"
        /\ search'.found = search.found /\ search'.todo = search.todo
        /\ search'.page = search.page /\ search'.read = search.read
        /\ search'.limit = search.limit
    BY <1>1, <2>1 DEF SearchRecord
  <2>3. SearchShape(search', row, touched, back, clock)
    BY <1>1, <2>2 DEF SearchShape, InHand
  <2>4. /\ Len(page) # search.size /\ Len(first) # room /\ Items(own) = {}
    <3>1. Len(own) = 0 /\ Items(own) = {}
      BY <1>17 DEF Items
    <3>2. Len(first) # room
      BY <1>1, <1>9, <1>10, <1>11, <3>1
    <3>3. IsLast(page, search.size)
      BY <1>1, <1>17, <3>1
    <3> QED
      BY <1>1, <1>5, <3>1, <3>2, <3>3 DEF IsLast
  <2>5. Newest(search', row, touched)
    BY <1>15, <2>2, <2>4 DEF Newest
  <2> QED
    BY <2>2, <2>3, <2>5 DEF Searched
<1>18. CASE ~(Len(own) < search.size /\ ~IsLast(page, search.size)) /\ own # <<>>
  <2> DEFINE end == own[Len(own)]
             todo == Kept(own, Sessions \ {Mine})
  <2>1. /\ end \in Items(own) /\ end \in AllKeys
        /\ \A k \in Items(own) : (k = end \/ Below(end, k)) /\ ~Below(k, end)
    BY <1>11, <1>18, LastInOrder
  <2>2. /\ todo \in Seq(AllKeys) /\ Descends(todo)
        /\ Items(todo) = {k \in Items(own) : k[2] \in Sessions \ {Mine}}
    BY <1>11, KeptInOrder
  <2>3. end \in KeysTo(clock) /\ end # None
    <3>1. end \in KeysTo(clock)
      BY <1>14, <2>1 DEF Went
    <3> QED
      BY <3>1, CursorRound
  <2>4. Len(own) \in Nat /\ Len(own) <= search.size
    BY <1>1, <1>9, <1>10, <1>11
  <2> HIDE DEF end, todo
  <2>5. y = [search EXCEPT !.after = end, !.read = search.read + Len(own), !.todo = todo,
                           !.page = <<>>]
    BY DEF end, todo
  <2> HIDE DEF y
  <2>6. /\ y \in SearchRecord(clock) /\ y.page = <<>> /\ y.after = end /\ y.todo = todo
        /\ y.found = search.found /\ y.read = search.read + Len(own)
        /\ y.limit = search.limit
    <3>1. <<>> \in Seq(AllKeys) /\ search.read + Len(own) \in Nat
      BY <1>1, <2>4
    <3> QED
      BY <1>1, <2>2, <2>3, <2>5, <3>1 DEF SearchRecord
  <2>7. InHand(y) = Items(search.found) \cup Items(todo) /\ Items(<<>>) = {} /\ Descends(<<>>)
    BY <2>6 DEF InHand, Items, Descends
  <2>8. SearchShape(y, row, touched, back, clock)
    <3>1. Went(InHand(y), row, touched, back, clock)
      <4>1. InHand(y) \subseteq Items(search.found) \cup Items(own)
        BY <2>2, <2>7
      <4> QED
        BY <1>14, <4>1, FewerWent
    <3>2. \A k \in InHand(y) : AgentOf[k[2]] = Agent
      BY <1>2, <1>13, <2>2, <2>7
    <3>3. \A k \in Items(y.found) \cup Items(y.todo) : k[2] # Mine
      BY <1>2, <2>2, <2>6
    <3>4. \A k \in Items(y.found), l \in Items(y.todo) \cup Items(y.page) : Below(l, k)
      BY <1>12, <2>2, <2>6, <2>7
    <3>5. y.read <= MaxSessions
      BY <1>1, <2>4, <2>6
    <3>6. Len(y.found) <= y.limit
      BY <1>1, <2>6 DEF SearchShape
    <3>7. Descends(y.found) /\ Descends(y.todo) /\ Descends(y.page)
      BY <1>1, <2>2, <2>6, <2>7
    <3> QED
      BY <2>6, <3>1, <3>2, <3>3, <3>4, <3>5, <3>6, <3>7 DEF SearchShape
  <2>9. Behind(InHand(y), end)
    <3>1. \A k \in Items(search.found) : Below(end, k) /\ k \in AllKeys
      <4>1. \A k \in Items(search.found) : k \in KeysTo(clock)
        BY <1>2 DEF Went
      <4> QED
        BY <1>1, <1>12, <2>1, <4>1, RowsType
    <3>2. \A k \in Items(search.found) : ~Below(k, end)
      BY <2>1, <3>1, BelowOrders
    <3> QED
      BY <2>1, <2>2, <2>3, <2>7, <3>2 DEF Behind
  <2>10. F # {} => end \in F
    <3>1. SUFFICES ASSUME NEW k \in F, end \in Items(search.page), end \notin F PROVE FALSE
      BY <1>11, <2>1
    <3>2. Below(k, end)
      BY <1>7, <1>10, <3>1
    <3> QED
      BY <1>11, <2>1, <3>2
  <2>11. Len(first) = room \/ Len(page) # search.size
    BY <1>1, <1>5, <1>9, <1>10, <1>11, <1>18 DEF IsLast
  <2>12. Len(first) = room => end \in F
    BY <1>9, <1>10, <2>10
  <2>13. Left(InHand(y), end, row, touched, Candidates)
    <3>1. SUFFICES ASSUME NEW s \in Candidates \ touched, row[s].state = "visible"
                   PROVE  Below(KeyIn(row, s), end) \/ KeyIn(row, s) \in InHand(y)
      BY DEF Left, Ahead
    <3>2. CASE KeyIn(row, s) \in Items(search.found) \cup Items(own)
      <4>1. KeyIn(row, s)[2] = s /\ s \in Sessions \ {Mine}
        BY <3>1 DEF KeyIn, Candidates
      <4> QED
        BY <2>2, <2>7, <3>2, <4>1
    <3>3. CASE Len(first) = room /\ \A k \in F : Below(KeyIn(row, s), k)
      BY <2>12, <3>3
    <3>4. CASE Len(page) = search.size /\ \A k \in P : Below(KeyIn(row, s), k)
      BY <1>10, <2>11, <2>12, <3>4
    <3> QED
      BY <1>15, <3>1, <3>2, <3>3, <3>4
  <2>14. Midway(y, row, touched)
    BY <1>1, <2>3, <2>6, <2>9, <2>13 DEF Midway, Asking
  <2>15. Searched(Onward(y), row, touched, back, clock) /\ Onward(y).pc # "none"
    BY <2>8, <2>14, OnwardSearched
  <2> QED
    BY <1>4, <1>18, <2>15 DEF y
<1> QED
  BY <1>16, <1>17, <1>18
-----------------------------------------------------------------------------
(* The invariant                                                           *)

ReadShape ==
  /\ clock \in 0..MaxClock
  /\ row \in Rows(clock)
  /\ touched \subseteq Sessions /\ back \subseteq touched
  /\ list.pc = "none" \/ search.pc = "none"
  /\ list.pc = "none" => list = NoList
  /\ search.pc = "none" => search = NoSearch
  /\ ~Reading => touched = {} /\ back = {}

ReadInv ==
  /\ ReadShape
  /\ Listed(list, row, touched, back, clock)
  /\ Searched(search, row, touched, back, clock)

LEMMA ReadInit == Init => ReadInv
<1> SUFFICES ASSUME Init PROVE ReadInv
  OBVIOUS
<1>1. /\ clock = 0
      /\ \E left \in SUBSET Sessions :
           row = [s \in Sessions |-> [state |-> IF s \in left THEN "visible" ELSE "none",
                                      updated |-> 0]]
      /\ list = NoList /\ search = NoSearch /\ touched = {} /\ back = {}
  BY DEF Init
<1>2. 0 \in 0..MaxClock /\ 0 \in 0..0
  BY SessionsAssumption
<1>3. row \in Rows(clock)
  BY <1>1, <1>2 DEF Rows
<1>4. ReadShape
  BY <1>1, <1>2, <1>3 DEF ReadShape, NoList, NoSearch
<1> QED
  BY <1>1, <1>4, NoListIsListed, NoSearchIsSearched DEF ReadInv

LEMMA ReadAfterWrite ==
  ASSUME ReadInv, NEW s \in Sessions,
         NEW w \in [state : {"visible", "hidden"}, updated : 0..clock],
         row[s].state \in {"none", "visible"}, Wrote(s, w)
  PROVE  ReadInv'
<1>1. /\ clock \in 0..MaxClock /\ clock \in Nat /\ row \in Rows(clock)
      /\ touched \subseteq Sessions /\ back \subseteq touched
      /\ Listed(list, row, touched, back, clock) /\ Searched(search, row, touched, back, clock)
  BY SessionsAssumption DEF ReadInv, ReadShape
<1>2. clock' = clock /\ list' = list /\ search' = search /\ row' = Written(row, s, w)
  BY DEF Wrote, Written
<1>3. Writable(s, w, row, touched, back, clock)
  BY <1>1 DEF Writable
<1>4. WriteFaithful(row', BackAfter(back, row, s, w), s, row, touched, back, clock)
  BY <1>2, <1>3, WriteKeeps
<1>5. row' \in Rows(clock')
  BY <1>2, <1>4 DEF WriteFaithful
<1>6. CASE Reading
  <2>1. touched' = touched \cup {s} /\ back' = BackAfter(back, row, s, w)
    BY <1>6 DEF Wrote, BackAfter
  <2>2. back' \subseteq touched'
    BY <1>4, <2>1 DEF WriteFaithful
  <2>3. ReadShape'
    BY <1>1, <1>2, <1>5, <1>6, <2>1, <2>2 DEF ReadInv, ReadShape, Reading
  <2>4. /\ Listed(list, row', touched', back', clock)
        /\ Searched(search, row', touched', back', clock)
    BY <1>1, <1>2, <1>3, <2>1, ListedWhileWriting, SearchedWhileWriting
  <2> QED
    BY <1>2, <2>3, <2>4 DEF ReadInv
<1>7. CASE ~Reading
  <2>1. /\ list = NoList /\ search = NoSearch /\ back = {}
        /\ touched' = {} /\ back' = {}
    BY <1>7 DEF ReadInv, ReadShape, Reading, Wrote
  <2>2. ReadShape'
    BY <1>1, <1>2, <1>5, <1>7, <2>1 DEF ReadShape, Reading
  <2> QED
    BY <1>2, <2>1, <2>2, NoListIsListed, NoSearchIsSearched DEF ReadInv
<1> QED
  BY <1>6, <1>7

LEMMA ReadNext == ReadInv /\ [Next]_vars => ReadInv'
<1> SUFFICES ASSUME ReadInv, [Next]_vars PROVE ReadInv'
  OBVIOUS
<1>1. /\ clock \in 0..MaxClock /\ clock \in Nat /\ row \in Rows(clock) /\ ReadShape
      /\ touched \subseteq Sessions /\ back \subseteq touched
      /\ Listed(list, row, touched, back, clock) /\ Searched(search, row, touched, back, clock)
      /\ MaxClock \in Nat /\ Limits \subseteq Nat
  BY SessionsAssumption DEF ReadInv, ReadShape
<1>2. \A s \in Sessions : /\ row[s].state \in {"none", "visible", "hidden"}
                          /\ row[s].updated \in 0..clock
                          /\ row[s] \in [state : {"none", "visible", "hidden"}, updated : 0..clock]
  BY <1>1 DEF Rows
<1>3. Moments \subseteq 0..clock /\ 0 \in 0..clock
  BY <1>1 DEF Moments
<1>4. ASSUME NEW s \in Sessions, StartSession(s) PROVE ReadInv'
  <2>1. PICK m \in Moments : Wrote(s, [state |-> "visible", updated |-> m])
    BY <1>4 DEF StartSession
  <2>2. [state |-> "visible", updated |-> m] \in [state : {"visible", "hidden"}, updated : 0..clock]
    BY <1>3
  <2> QED
    BY <1>4, <2>1, <2>2, ReadAfterWrite DEF StartSession
<1>5. ASSUME NEW s \in Sessions, RenameSession(s) \/ FinishTurn(s) PROVE ReadInv'
  <2>1. PICK m \in Moments : Wrote(s, [row[s] EXCEPT !.updated = m])
    BY <1>5 DEF RenameSession, FinishTurn
  <2>2. row[s].state = "visible"
    BY <1>5 DEF RenameSession, FinishTurn, Visible
  <2>3. [row[s] EXCEPT !.updated = m] \in [state : {"visible", "hidden"}, updated : 0..clock]
    BY <1>2, <1>3, <2>2
  <2> QED
    BY <2>1, <2>2, <2>3, ReadAfterWrite
<1>6. ASSUME NEW s \in Sessions, HideSession(s) PROVE ReadInv'
  <2>1. Wrote(s, [state |-> "hidden", updated |-> 0]) /\ row[s].state = "visible"
    BY <1>6 DEF HideSession, Visible
  <2>2. [state |-> "hidden", updated |-> 0] \in [state : {"visible", "hidden"}, updated : 0..clock]
    BY <1>3
  <2> QED
    BY <2>1, <2>2, ReadAfterWrite
<1>7. ASSUME Tick PROVE ReadInv'
  <2>1. /\ clock' = clock + 1 /\ clock' \in 0..MaxClock /\ row' = row /\ list' = list
        /\ search' = search /\ touched' = touched /\ back' = back
    BY <1>1, <1>7 DEF Tick, readVars
  <2>2. row' \in Rows(clock')
    BY <1>1, <2>1, TickKeeps
  <2>3. ReadShape'
    BY <1>1, <2>1, <2>2 DEF ReadShape, Reading
  <2> QED
    BY <1>1, <2>1, <2>3, ListedAtTick, SearchedAtTick DEF ReadInv
<1>8. ASSUME UNCHANGED <<clock, row, touched, back>>, ReadShape',
             Listed(list', row, touched, back, clock), Searched(search', row, touched, back, clock)
      PROVE  ReadInv'
  BY <1>8 DEF ReadInv
<1>9. ASSUME UNCHANGED <<clock, row, touched, back>>, Reading,
             list'.pc # "none" <=> list.pc # "none", search'.pc # "none" <=> search.pc # "none",
             list.pc = "none" => list' = list, search.pc = "none" => search' = search
      PROVE  ReadShape'
  BY <1>1, <1>9 DEF ReadShape, Reading
<1>10. ASSUME NEW limit \in Limits, OpenList(limit) PROVE ReadInv'
  <2>1. /\ list' = [NoList EXCEPT !.pc = "asking", !.limit = limit] /\ search' = search
        /\ UNCHANGED <<clock, row, touched, back>> /\ ~Reading
    BY <1>10 DEF OpenList, storeVars, readVars
  <2>2. list'.pc = "asking"
    BY <2>1 DEF NoList
  <2>3. ReadShape'
    BY <1>1, <2>1, <2>2 DEF ReadShape, Reading
  <2> QED
    BY <1>1, <1>8, <2>1, <2>3, NoListIsListed
<1>11. ASSUME ListSessions PROVE ReadInv'
  <2>1. UNCHANGED <<clock, row, touched, back>> /\ search' = search /\ list.pc = "asking"
    BY <1>11 DEF ListSessions, storeVars, readVars
  <2>2. Listed(list', row, touched, back, clock)
    BY <1>1, <1>11, ListedAfterPage
  <2>3. list'.pc # "none"
    BY <1>1, <1>11 DEF ListSessions, Listed, ListRecord
  <2>4. ReadShape'
    BY <1>9, <2>1, <2>3 DEF Reading
  <2> QED
    BY <1>1, <1>8, <2>1, <2>2, <2>4
<1>12. ASSUME SendBrokenCursor PROVE ReadInv'
  <2>1. /\ UNCHANGED <<clock, row, touched, back>> /\ search' = search /\ list.pc = "asking"
        /\ list' = [list EXCEPT !.pc = "failed"]
    BY <1>12 DEF SendBrokenCursor, storeVars, readVars
  <2>2. list' \in ListRecord(clock) /\ list'.pc = "failed" /\ list'.shown = list.shown
    BY <1>1, <2>1 DEF Listed, ListRecord
  <2>3. Listed(list', row, touched, back, clock)
    BY <1>1, <2>2 DEF Listed
  <2>4. ReadShape'
    BY <1>9, <2>1, <2>2 DEF Reading
  <2> QED
    BY <1>1, <1>8, <2>1, <2>3, <2>4
<1>13. ASSUME CloseList PROVE ReadInv'
  <2>1. /\ clock' = clock /\ row' = row /\ search' = search /\ list' = NoList
        /\ touched' = {} /\ back' = {} /\ list.pc # "none"
    BY <1>13 DEF CloseList, storeVars
  <2>2. search = NoSearch
    BY <1>1, <2>1 DEF ReadShape
  <2>3. ReadShape'
    BY <1>1, <2>1, <2>2 DEF ReadShape, NoList, NoSearch
  <2> QED
    BY <2>1, <2>2, <2>3, NoListIsListed, NoSearchIsSearched DEF ReadInv
<1>14. ASSUME NEW arguments \in Arguments, CallSearch(arguments) PROVE ReadInv'
  <2>1. /\ UNCHANGED <<clock, row, touched, back>> /\ list' = list /\ ~Reading
        /\ search' = IF Refused(arguments) THEN [NoSearch EXCEPT !.pc = "failed"]
                     ELSE [NoSearch EXCEPT !.pc = "asking", !.limit = Asked(arguments),
                                           !.size = Least(PageSize, MaxSessions)]
    BY <1>14 DEF CallSearch, storeVars, readVars
  <2>2. ~Refused(arguments) => Asked(arguments) \in 1..MaxResults
    BY DEF Refused
  <2>3. Searched(search', row, touched, back, clock)
    BY <2>1, <2>2, NoSearchIsSearched
  <2>4. search'.pc # "none"
    BY <2>1 DEF NoSearch
  <2>5. ReadShape'
    BY <1>1, <2>1, <2>4 DEF ReadShape, Reading
  <2> QED
    BY <1>1, <1>8, <2>1, <2>3, <2>5
<1>15. ASSUME AskBroker \/ ReadMessages PROVE ReadInv'
  <2>1. UNCHANGED <<clock, row, touched, back>> /\ list' = list /\ search.pc # "none"
    BY <1>15 DEF AskBroker, ReadMessages, storeVars, readVars
  <2>2. Searched(search', row, touched, back, clock) /\ search'.pc # "none"
    BY <1>1, <1>15, SearchedAfterPage, SearchedAfterMessages
  <2>4. ReadShape'
    BY <1>9, <2>1, <2>2 DEF Reading
  <2> QED
    BY <1>1, <1>8, <2>1, <2>2, <2>4
<1>16. ASSUME GetSession PROVE ReadInv'
  <2>1. /\ UNCHANGED <<clock, row, touched, back>> /\ list' = list /\ search.pc = "getting"
        /\ search' = [search EXCEPT !.pc = IF Due \in Visible THEN "messages" ELSE "failed"]
    BY <1>16 DEF GetSession, storeVars, readVars
  <2>2. /\ search' \in SearchRecord(clock) /\ search'.pc \in {"messages", "failed"}
        /\ search'.found = search.found /\ search'.todo = search.todo
        /\ search'.page = search.page /\ search'.read = search.read
        /\ search'.limit = search.limit /\ search'.after = search.after
    BY <1>1, <2>1 DEF Searched, SearchShape, SearchRecord
  <2>3. SearchShape(search', row, touched, back, clock) /\ InHand(search') = InHand(search)
    BY <1>1, <2>2 DEF Searched, SearchShape, InHand
  <2>4. Midway(search', row, touched) /\ search'.todo # <<>>
    BY <1>1, <2>1, <2>2, <2>3 DEF Searched, Midway
  <2>5. Searched(search', row, touched, back, clock)
    BY <2>2, <2>3, <2>4 DEF Searched
  <2>6. ReadShape'
    BY <1>9, <2>1, <2>2 DEF Reading
  <2> QED
    BY <1>1, <1>8, <2>1, <2>5, <2>6
<1>17. ASSUME Answer PROVE ReadInv'
  <2>1. /\ clock' = clock /\ row' = row /\ list' = list /\ search' = NoSearch
        /\ touched' = {} /\ back' = {} /\ search.pc # "none"
    BY <1>17 DEF Answer, storeVars
  <2>2. list = NoList
    BY <1>1, <2>1 DEF ReadShape
  <2>3. ReadShape'
    BY <1>1, <2>1, <2>2 DEF ReadShape, NoList, NoSearch
  <2> QED
    BY <2>1, <2>2, <2>3, NoListIsListed, NoSearchIsSearched DEF ReadInv
<1>18. ASSUME UNCHANGED vars PROVE ReadInv'
  <2>1. UNCHANGED <<clock, row, list, search, touched, back>>
    BY <1>18 DEF vars, storeVars, readVars
  <2> QED
    BY <1>1, <2>1 DEF ReadInv, ReadShape, Reading
<1> QED
  BY <1>4, <1>5, <1>6, <1>7, <1>10, <1>11, <1>12, <1>13, <1>14, <1>15, <1>16, <1>17, <1>18
  DEF Next, Writes, Listing, Searching, SearchStep
-----------------------------------------------------------------------------
(* What the readers promise                                                *)

\* In a sequence that descends, a session is as often as there are keys of it.
LEMMA TimesInOrder ==
  ASSUME NEW keys \in Seq(AllKeys), Descends(keys), NEW s,
         \A k, l \in Items(keys) : k[2] = s /\ l[2] = s => k = l
  PROVE  /\ Times(keys, s) \in {0, 1}
         /\ Times(keys, s) = 1 <=> \E k \in Items(keys) : k[2] = s
<1> DEFINE places == {i \in DOMAIN keys : keys[i][2] = s}
<1>1. DOMAIN keys = 1..Len(keys) /\ Len(keys) \in Nat
  OBVIOUS
<1>2. \A i \in DOMAIN keys : keys[i] \in Items(keys) /\ keys[i] \in AllKeys
  BY <1>1, ElementOfSeq DEF Items
<1>3. \A i, j \in places : i = j
  <2>1. SUFFICES ASSUME NEW i \in places, NEW j \in places, i # j PROVE FALSE
    OBVIOUS
  <2>2. keys[i] = keys[j]
    BY <1>2
  <2>3. i < j \/ j < i
    BY <1>1, <2>1
  <2>4. Below(keys[i], keys[i])
    BY <2>2, <2>3 DEF Descends
  <2> QED
    BY <1>2, <2>4, BelowOrders
<1>4. places # {} <=> \E k \in Items(keys) : k[2] = s
  BY DEF Items
<1>5. CASE places = {}
  <2>1. Times(keys, s) = 0
    BY <1>5, FS_EmptySet DEF Times
  <2> QED
    BY <1>4, <1>5, <2>1
<1>6. CASE places # {}
  <2>1. PICK i : places = {i}
    BY <1>3, <1>6
  <2> HIDE DEF places
  <2>2. Cardinality(places) = 1
    BY <2>1, FS_Singleton
  <2>3. Times(keys, s) = 1
    BY <2>2 DEF Times, places
  <2> QED
    BY <1>4, <1>6, <2>3
<1> QED
  BY <1>5, <1>6

LEMMA TimesInHand ==
  ASSUME NEW keys \in Seq(AllKeys), Descends(keys), NEW K, Items(keys) \subseteq K,
         NEW r, NEW tch, NEW bck, NEW c, Went(K, r, tch, bck, c), NEW s, s \notin bck
  PROVE  /\ Times(keys, s) \in {0, 1}
         /\ Times(keys, s) = 1 <=> \E k \in Items(keys) : k[2] = s
<1>1. \A k, l \in Items(keys) : k[2] = s /\ l[2] = s => k = l
  BY DEF Went
<1> QED
  BY <1>1, TimesInOrder

LEMMA SeqOfItems ==
  ASSUME NEW keys \in Seq(AllKeys), NEW T, Items(keys) \subseteq T
  PROVE  keys \in Seq(T)
<1>1. Len(keys) \in Nat /\ DOMAIN keys = 1..Len(keys) /\ keys = [i \in 1..Len(keys) |-> keys[i]]
  OBVIOUS
<1>2. \A i \in 1..Len(keys) : keys[i] \in T
  BY <1>1 DEF Items
<1> QED
  BY <1>1, <1>2

LEMMA ReadIsTyped == ReadInv => SessionsTypeOK
<1> SUFFICES ASSUME ReadInv PROVE SessionsTypeOK
  OBVIOUS
<1>1. /\ row \in Rows(clock) /\ touched \subseteq Sessions /\ back \subseteq touched
      /\ list \in ListRecord(clock) /\ Went(Items(list.shown), row, touched, back, clock)
      /\ search \in SearchRecord(clock) /\ Went(InHand(search), row, touched, back, clock)
      /\ SearchShape(search, row, touched, back, clock)
      /\ list.shown \in Seq(AllKeys) /\ search.page \in Seq(AllKeys)
      /\ search.todo \in Seq(AllKeys) /\ search.found \in Seq(AllKeys)
      /\ Descends(search.found)
  BY DEF ReadInv, ReadShape, Listed, Searched, SearchShape, ListRecord, SearchRecord
<1>2. Keys = KeysTo(clock)
  BY DEF Keys, KeysTo
<1>3. list.shown \in Seq(Keys)
  <2>1. Items(list.shown) \subseteq Keys
    BY <1>1, <1>2 DEF Went
  <2> QED
    BY <1>1, <2>1, SeqOfItems
<1>4. \A keys \in {search.page, search.todo, search.found} :
        keys \in Seq(Keys) /\ \A i \in DOMAIN keys : AgentOf[keys[i][2]] = Agent
  <2>1. SUFFICES ASSUME NEW keys \in {search.page, search.todo, search.found}
                 PROVE  keys \in Seq(Keys) /\ \A i \in DOMAIN keys : AgentOf[keys[i][2]] = Agent
    OBVIOUS
  <2>2. Items(keys) \subseteq InHand(search)
    BY <2>1 DEF InHand
  <2>3. Items(keys) \subseteq Keys
    BY <1>1, <1>2, <2>2 DEF Went
  <2>4. keys \in Seq(Keys)
    BY <1>1, <2>1, <2>3, SeqOfItems
  <2>5. \A k \in Items(keys) : AgentOf[k[2]] = Agent
    BY <1>1, <2>2 DEF SearchShape
  <2> QED
    BY <2>4, <2>5 DEF Items
<1>5. Times(search.found, Mine) = 0
  <2>1. \A k \in Items(search.found) : k[2] # Mine
    BY <1>1 DEF SearchShape
  <2>2. \A k, l \in Items(search.found) : k[2] = Mine /\ l[2] = Mine => k = l
    BY <2>1
  <2>3. /\ Times(search.found, Mine) \in {0, 1}
        /\ Times(search.found, Mine) = 1 <=> \E k \in Items(search.found) : k[2] = Mine
    BY <1>1, <2>2, TimesInOrder
  <2> QED
    BY <2>1, <2>3
<1>6. list.pc \in {"none", "asking", "over", "failed"}
  BY <1>1 DEF ListRecord
<1>7. search.pc \in {"none", "asking", "getting", "messages", "over", "failed"}
  BY <1>1 DEF SearchRecord
<1>8. search.read <= MaxSessions /\ Len(search.found) <= search.limit
  BY <1>1 DEF SearchShape
<1>9. \A s \in Sessions : /\ row[s].state \in {"none", "visible", "hidden"}
                          /\ row[s].updated \in 0..clock
  BY <1>1 DEF Rows
<1> QED
  BY <1>1, <1>3, <1>4, <1>5, <1>6, <1>7, <1>8, <1>9 DEF SessionsTypeOK

LEMMA ReadOnce == ReadInv => NoneTwice
<1> SUFFICES ASSUME ReadInv, NEW s \in Sessions \ back
             PROVE  Times(list.shown, s) <= 1 /\ Times(search.found, s) <= 1
  BY DEF NoneTwice
<1>1. /\ list.shown \in Seq(AllKeys) /\ Descends(list.shown)
      /\ Went(Items(list.shown), row, touched, back, clock)
      /\ search.found \in Seq(AllKeys) /\ Descends(search.found)
      /\ Went(InHand(search), row, touched, back, clock)
      /\ Items(search.found) \subseteq InHand(search)
  BY DEF ReadInv, Listed, Searched, SearchShape, ListRecord, SearchRecord, InHand
<1>2. Times(list.shown, s) \in {0, 1}
  BY <1>1, TimesInHand
<1>3. Times(search.found, s) \in {0, 1}
  BY <1>1, TimesInHand
<1> QED
  BY <1>2, <1>3

LEMMA ReadIsWhole == ReadInv => ListsWhole
<1> SUFFICES ASSUME ReadInv, list.pc = "over", NEW s \in Visible \ touched
             PROVE  Times(list.shown, s) = 1
  BY DEF ListsWhole
<1>1. /\ list.shown \in Seq(AllKeys) /\ Descends(list.shown)
      /\ Went(Items(list.shown), row, touched, back, clock)
      /\ back \subseteq touched
  BY DEF ReadInv, ReadShape, Listed, ListRecord
<1>2. KeyIn(row, s) \in Items(list.shown) /\ KeyIn(row, s)[2] = s
  BY DEF ReadInv, Listed, Visible, KeyIn
<1>3. s \notin back
  BY <1>1
<1> QED
  BY <1>1, <1>2, <1>3, TimesInHand

LEMMA ReadFinds == ReadInv => FindsTheNewest
<1> SUFFICES ASSUME ReadInv, search.pc = "over", NEW s \in Visible \ (touched \cup {Mine}),
                    AgentOf[s] = Agent, Where[s] \cap {"user", "assistant", "title"} # {}
             PROVE  \/ Times(search.found, s) = 1
                    \/ Len(search.found) = search.limit
                         /\ Below(Key(s), search.found[Len(search.found)])
                    \/ search.read = MaxSessions /\ Below(Key(s), search.after)
  BY DEF FindsTheNewest
<1>1. /\ search.found \in Seq(AllKeys) /\ Descends(search.found)
      /\ Went(InHand(search), row, touched, back, clock)
      /\ Items(search.found) \subseteq InHand(search)
      /\ back \subseteq touched /\ Newest(search, row, touched)
  BY DEF ReadInv, ReadShape, Searched, SearchShape, SearchRecord, InHand
<1>2. s \in Candidates \ touched /\ row[s].state = "visible" /\ Key(s) = KeyIn(row, s)
  BY DEF Candidates, Visible, Matches, Key, KeyIn
<1>3. \/ KeyIn(row, s) \in Items(search.found)
      \/ Len(search.found) = search.limit
           /\ Below(KeyIn(row, s), search.found[Len(search.found)])
      \/ search.read = MaxSessions /\ Below(KeyIn(row, s), search.after)
  BY <1>1, <1>2 DEF Newest
<1>4. ASSUME KeyIn(row, s) \in Items(search.found) PROVE Times(search.found, s) = 1
  <2>1. KeyIn(row, s)[2] = s /\ s \notin back
    BY <1>1 DEF KeyIn
  <2> QED
    BY <1>1, <1>4, <2>1, TimesInHand
<1> QED
  BY <1>2, <1>3, <1>4

LEMMA ReadAlways == SessionsSpec => []ReadInv
  BY ReadInit, ReadNext, PTL DEF SessionsSpec

\* What the readers have in hand is theirs and of moments past, and no session comes twice unless
\* it went back, at every moment of every reading.
THEOREM SessionsInvAlways == SessionsSpec => []SessionsInv
<1>1. ReadInv => SessionsInv
  BY ReadIsTyped, ReadOnce DEF SessionsInv
<1> QED
  BY <1>1, ReadAlways, PTL

\* A list read to its end has shown, exactly once, each session that was there from its beginning
\* as it was, whatever the limit of its pages and wherever the other sessions moved.
THEOREM ListsWholeAlways == SessionsSpec => []ListsWhole
  BY ReadIsWhole, ReadAlways, PTL

\* A search that answers has missed no session with the words that was there from its beginning
\* as it was, but older ones than the last it found or read, whatever the sessions of other agents
\* between them.
THEOREM FindsTheNewestAlways == SessionsSpec => []FindsTheNewest
  BY ReadFinds, ReadAlways, PTL
=============================================================================
