---------------------------- MODULE DisplayProofs ----------------------------
(***************************************************************************)
(* What clients are shown: the pages of a search and the cache behind them *)
(* (SearchPages), the progress of a download (DownloadProgress) and the    *)
(* parts of the browse page (BrowsePage), for any queries, limits, output  *)
(* and number of clients.  The components share nothing but lemmas.        *)
(***************************************************************************)
EXTENDS SearchPages, DownloadProgress, BrowsePage, TLAPS,
        WellFoundedInduction, NaturalsInduction, FiniteSetTheorems, SequenceTheorems

\* A set of numbers that is not empty has a smallest one.
LEMMA NatMin ==
  ASSUME NEW T, T \subseteq Nat, T # {}
  PROVE  \E m \in T : \A n \in T : m <= n
<1>1. PICK m \in T : \A n \in T : ~(<<n, m>> \in OpToRel(<, Nat))
  BY NatLessThanWellFounded, WFMin
<1>2. \A n \in T : n < m => <<n, m>> \in OpToRel(<, Nat)
  BY DEF OpToRel
<1>3. m \in Nat /\ \A n \in T : n \in Nat /\ ~(n < m)
  BY <1>1, <1>2, Zenon
<1> QED BY <1>3

\* Induction over a set of numbers.
LEMMA Inductive ==
  ASSUME NEW P, P \subseteq Nat, 0 \in P, \A n \in P : n + 1 \in P
  PROVE  P = Nat
<1> SUFFICES ASSUME P # Nat PROVE FALSE
  OBVIOUS
<1>1. PICK m \in Nat \ P : \A n \in Nat \ P : m <= n
  BY NatMin
<1>2. m # 0 /\ m - 1 \in Nat
  BY <1>1
<1>3. m - 1 \in P
  BY <1>1, <1>2
<1> QED BY <1>1, <1>2, <1>3

\* A value is computed from the one before, L times.
Computed(A, base, L, g) ==
  \E f \in [0..L -> A] : f[0] = base /\ \A n \in 1..L : f[n] = g[n][f[n - 1]]

\* There are such values, whatever is computed from one for the next.
LEMMA FoldExists ==
  ASSUME NEW A, NEW base \in A, NEW L \in Nat, NEW g \in [1..L -> [A -> A]]
  PROVE  Computed(A, base, L, g)
<1> DEFINE Folds(m) == \E f \in [0..m -> A] : f[0] = base /\ \A n \in 1..m : f[n] = g[n][f[n - 1]]
           P == {m \in Nat : m <= L => Folds(m)}
<1>1. Folds(0)
  <2> DEFINE h == [n \in 0..0 |-> base]
  <2>1. h \in [0..0 -> A] /\ h[0] = base
    OBVIOUS
  <2>2. \A n \in 1..0 : FALSE
    OBVIOUS
  <2> HIDE DEF h
  <2> QED BY <2>1, <2>2
<1>2. ASSUME NEW m \in Nat, m + 1 <= L, Folds(m) PROVE Folds(m + 1)
  <2>1. PICK f \in [0..m -> A] : f[0] = base /\ \A n \in 1..m : f[n] = g[n][f[n - 1]]
    BY <1>2
  <2> DEFINE next == g[m + 1][f[m]]
             h == [n \in 0..(m + 1) |-> IF n = m + 1 THEN next ELSE f[n]]
  <2>2. next \in A
    <3>1. m + 1 \in 1..L /\ m \in 0..m
      BY <1>2
    <3> QED BY <2>1, <3>1
  <2>3. h \in [0..(m + 1) -> A] /\ h[0] = base
    <3> HIDE DEF next
    <3> QED BY <1>2, <2>1, <2>2
  <2>4. \A n \in 1..(m + 1) : h[n] = g[n][h[n - 1]]
    <3> SUFFICES ASSUME NEW n \in 1..(m + 1) PROVE h[n] = g[n][h[n - 1]]
      OBVIOUS
    <3>1. CASE n = m + 1
      <4>1. n \in 0..(m + 1) /\ n - 1 \in 0..(m + 1) /\ n - 1 = m /\ n - 1 # m + 1
        BY <1>2, <3>1
      <4>2. h[n] = next /\ h[n - 1] = f[m]
        <5> HIDE DEF next
        <5> QED BY <3>1, <4>1
      <4> QED BY <3>1, <4>2
    <3>2. CASE n # m + 1
      <4>1. n \in 1..m /\ h[n] = f[n] /\ h[n - 1] = f[n - 1]
        BY <1>2, <3>2
      <4> QED BY <2>1, <4>1
    <3> QED BY <3>1, <3>2
  <2> HIDE DEF h
  <2> QED BY <2>3, <2>4
<1> HIDE DEF Folds
<1>3. \A m \in Nat : m + 1 <= L => m <= L
  OBVIOUS
<1>4. P = Nat
  <2>1. P \subseteq Nat /\ 0 \in P
    BY <1>1
  <2>2. \A m \in P : m + 1 \in P
    BY <1>2, <1>3
  <2> HIDE DEF P
  <2> QED BY <2>1, <2>2, Inductive
<1>5. L \in P /\ L <= L
  BY <1>4
<1>6. Folds(L)
  BY <1>5
<1> QED BY <1>6 DEF Folds, Computed

-----------------------------------------------------------------------------
\* The keys a request can have, and the page of each.
PageKeys == [query : Queries, limit : 1..MaxLimit, offset : 0..MaxOffset]
AnyPage == {PageOf(key) : key \in PageKeys}

\* A page has the results after its offset, as many as there are up to its limit.
LEMMA PageIs ==
  ASSUME NEW key \in PageKeys
  PROVE  /\ PageOf(key).key = key /\ PageOf(key).total = TotalOf[key.query]
         /\ TotalOf[key.query] \in Nat /\ key.offset \in Nat /\ key.limit \in Nat \ {0}
         /\ PageOf(key).items = (key.offset + 1)..Lesser(key.offset + key.limit, TotalOf[key.query])
         /\ key.offset <= TotalOf[key.query] =>
              Cardinality(PageOf(key).items) = Lesser(key.limit, TotalOf[key.query] - key.offset)
         /\ Cardinality(PageOf(key).items) \in Nat
<1>1. /\ TotalOf[key.query] \in Nat /\ key.offset \in Nat /\ key.limit \in Nat \ {0}
  BY PagesAssumption DEF PageKeys
<1>2. /\ PageOf(key).key = key /\ PageOf(key).total = TotalOf[key.query]
      /\ PageOf(key).items = (key.offset + 1)..Lesser(key.offset + key.limit, TotalOf[key.query])
  BY DEF PageOf
<1> DEFINE low == key.offset + 1
           high == Lesser(key.offset + key.limit, TotalOf[key.query])
<1>3. low \in Int /\ high \in Int
  BY <1>1 DEF Lesser
<1>4. Cardinality(low..high) = IF low > high THEN 0 ELSE high - low + 1
  BY <1>3, FS_Interval
<1>5. Cardinality(low..high) \in Nat
  BY <1>3, <1>4
<1>6. key.offset <= TotalOf[key.query] =>
        (IF low > high THEN 0 ELSE high - low + 1)
          = Lesser(key.limit, TotalOf[key.query] - key.offset)
  BY <1>1 DEF Lesser
<1> HIDE DEF low, high
<1>7. PageOf(key).items = low..high
  BY <1>2 DEF low, high
<1> QED BY <1>1, <1>2, <1>4, <1>5, <1>6, <1>7

\* A page is the one of its key, and takes room.
LEMMA AnyPageIs ==
  \A page \in AnyPage : /\ page.key \in PageKeys /\ page = PageOf(page.key)
                        /\ SizeOf(page) \in Nat \ {0}
<1>1. ASSUME NEW key \in PageKeys
      PROVE  PageOf(key).key = key /\ SizeOf(PageOf(key)) \in Nat \ {0}
  BY PageIs DEF SizeOf
<1> QED BY <1>1 DEF AnyPage

\* The sum over the first pages, one by one.
LEMMA SumsAre ==
  ASSUME NEW s \in Seq(AnyPage)
  PROVE  /\ SizesUpTo(s) \in [0..Len(s) -> Nat]
         /\ SizesUpTo(s)[0] = 0
         /\ \A n \in 1..Len(s) : SizesUpTo(s)[n] = SizesUpTo(s)[n - 1] + SizeOf(s[n])
<1> DEFINE g == [n \in 1..Len(s) |-> [m \in Nat |-> m + SizeOf(s[n])]]
           Sum(f) == f = [n \in 0..Len(s) |-> IF n = 0 THEN 0 ELSE f[n - 1] + SizeOf(s[n])]
           sum == CHOOSE f : Sum(f)
<1>1. Len(s) \in Nat /\ \A n \in 1..Len(s) : SizeOf(s[n]) \in Nat
  BY AnyPageIs
<1>2. PICK f \in [0..Len(s) -> Nat] :
             f[0] = 0 /\ \A n \in 1..Len(s) : f[n] = f[n - 1] + SizeOf(s[n])
  <2>1. g \in [1..Len(s) -> [Nat -> Nat]]
    BY <1>1
  <2>2. \A n \in 1..Len(s), m \in Nat : g[n][m] = m + SizeOf(s[n])
    OBVIOUS
  <2> HIDE DEF g, Sum, sum
  <2>3. Computed(Nat, 0, Len(s), g)
    <3>1. 0 \in Nat
      OBVIOUS
    <3> QED BY <1>1, <2>1, <3>1, FoldExists, Zenon
  <2>4. PICK f \in [0..Len(s) -> Nat] : f[0] = 0 /\ \A n \in 1..Len(s) : f[n] = g[n][f[n - 1]]
    BY <2>3 DEF Computed
  <2>5. \A n \in 1..Len(s) : f[n - 1] \in Nat
    <3>1. \A n \in 1..Len(s) : n - 1 \in 0..Len(s)
      BY <1>1
    <3> QED BY <3>1
  <2>6. \A n \in 1..Len(s) : f[n] = f[n - 1] + SizeOf(s[n])
    BY <2>2, <2>4, <2>5
  <2> QED BY <2>4, <2>6
<1> HIDE DEF g
<1>3. \A n \in 0..Len(s) : f[n] = IF n = 0 THEN 0 ELSE f[n - 1] + SizeOf(s[n])
  BY <1>1, <1>2
<1>4. Sum(f)
  BY <1>3
<1>5. Sum(sum)
  BY <1>4
<1>6. SizesUpTo(s) = sum
  BY DEF SizesUpTo
<1> HIDE DEF sum
<1>7. /\ sum = [n \in 0..Len(s) |-> sum[n]] /\ sum[0] = 0
      /\ \A n \in 1..Len(s) : sum[n] = sum[n - 1] + SizeOf(s[n])
  <2>1. \A n \in 0..Len(s) : sum[n] = IF n = 0 THEN 0 ELSE sum[n - 1] + SizeOf(s[n])
    BY <1>5
  <2>2. sum = [n \in 0..Len(s) |-> sum[n]]
    BY <1>5
  <2>3. 0 \in 0..Len(s) /\ \A n \in 1..Len(s) : n \in 0..Len(s) /\ n # 0
    BY <1>1
  <2> QED BY <2>1, <2>2, <2>3
<1> HIDE DEF Sum
<1>8. \A n \in 0..Len(s) : sum[n] \in Nat
  <2> DEFINE P == {n \in Nat : n <= Len(s) => sum[n] \in Nat}
  <2>1. P \subseteq Nat /\ 0 \in P
    BY <1>7
  <2>2. ASSUME NEW n \in P PROVE n + 1 \in P
    <3>1. n + 1 <= Len(s) => /\ sum[n] \in Nat /\ sum[n + 1] = sum[n] + SizeOf(s[n + 1])
                             /\ SizeOf(s[n + 1]) \in Nat
      <4>1. n \in Nat /\ (n + 1 <= Len(s) => n <= Len(s) /\ n + 1 \in 1..Len(s))
        BY <1>1
      <4>2. n <= Len(s) => sum[n] \in Nat
        BY <2>2
      <4>3. n + 1 <= Len(s) => /\ SizeOf(s[n + 1]) \in Nat
                               /\ sum[n + 1] = sum[(n + 1) - 1] + SizeOf(s[n + 1])
        BY <1>1, <1>7, <4>1
      <4> QED BY <4>1, <4>2, <4>3
    <3> QED BY <2>2, <3>1
  <2> HIDE DEF P
  <2>3. P = Nat
    BY <2>1, <2>2, Inductive
  <2> QED BY <1>1, <2>3 DEF P
<1> QED BY <1>6, <1>7, <1>8

\* Where a sequence has the elements of another, sums grow alike.
LEMMA SegmentSum ==
  ASSUME NEW s \in Seq(AnyPage), NEW t \in Seq(AnyPage), NEW a \in Nat, NEW k \in Nat,
         a + k <= Len(s), k <= Len(t), \A i \in 1..k : s[a + i] = t[i]
  PROVE  SizesUpTo(s)[a + k] = SizesUpTo(s)[a] + SizesUpTo(t)[k]
<1> DEFINE P == {n \in Nat : n <= k => SizesUpTo(s)[a + n] = SizesUpTo(s)[a] + SizesUpTo(t)[n]}
<1>1. /\ Len(s) \in Nat /\ Len(t) \in Nat
      /\ \A n \in 1..Len(s) : s[n] \in AnyPage
  OBVIOUS
<1>2. /\ \A n \in 0..Len(s) : SizesUpTo(s)[n] \in Nat
      /\ \A n \in 0..Len(t) : SizesUpTo(t)[n] \in Nat
      /\ SizesUpTo(t)[0] = 0
      /\ \A n \in 1..Len(s) : SizesUpTo(s)[n] = SizesUpTo(s)[n - 1] + SizeOf(s[n])
      /\ \A n \in 1..Len(t) : SizesUpTo(t)[n] = SizesUpTo(t)[n - 1] + SizeOf(t[n])
      /\ \A n \in 1..Len(s) : SizeOf(s[n]) \in Nat
  BY <1>1, SumsAre, AnyPageIs
<1>3. 0 \in P
  <2>1. a + 0 = a /\ SizesUpTo(s)[a] \in Nat
    BY <1>1, <1>2
  <2>2. SizesUpTo(s)[a + 0] = SizesUpTo(s)[a] + SizesUpTo(t)[0]
    BY <1>2, <2>1
  <2> QED BY <2>2
<1>4. ASSUME NEW n \in P PROVE n + 1 \in P
  <2> SUFFICES ASSUME n \in Nat, n + 1 <= k
               PROVE  SizesUpTo(s)[a + (n + 1)] = SizesUpTo(s)[a] + SizesUpTo(t)[n + 1]
    BY <1>4
  <2>1. SizesUpTo(s)[a + n] = SizesUpTo(s)[a] + SizesUpTo(t)[n]
    BY <1>4
  <2>2. /\ a + (n + 1) \in 1..Len(s) /\ n + 1 \in 1..Len(t) /\ n + 1 \in 1..k
        /\ (a + (n + 1)) - 1 = a + n /\ (n + 1) - 1 = n
        /\ a + n \in 0..Len(s) /\ n \in 0..Len(t) /\ a \in 0..Len(s)
    BY <1>1
  <2>3. /\ SizesUpTo(s)[a + (n + 1)] = SizesUpTo(s)[a + n] + SizeOf(s[a + (n + 1)])
        /\ SizesUpTo(t)[n + 1] = SizesUpTo(t)[n] + SizeOf(t[n + 1])
        /\ s[a + (n + 1)] = t[n + 1] /\ SizeOf(s[a + (n + 1)]) \in Nat
    BY <1>2, <2>2
  <2>4. /\ SizesUpTo(s)[a + n] \in Nat /\ SizesUpTo(s)[a] \in Nat
        /\ SizesUpTo(t)[n] \in Nat
    BY <1>2, <2>2
  <2> QED BY <2>1, <2>3, <2>4
<1>5. P \subseteq Nat
  OBVIOUS
<1> HIDE DEF P
<1>6. P = Nat
  BY <1>3, <1>4, <1>5, Inductive
<1>7. k \in P /\ k <= k
  BY <1>6
<1> QED BY <1>7 DEF P

\* The sizes of a concatenation, of a part, and of one page.
LEMMA SizesOfConcat ==
  ASSUME NEW s \in Seq(AnyPage), NEW t \in Seq(AnyPage)
  PROVE  SizesOf(s \o t) = SizesOf(s) + SizesOf(t)
<1> DEFINE w == s \o t
<1>1. /\ w \in Seq(AnyPage) /\ Len(s) \in Nat /\ Len(t) \in Nat
      /\ Len(w) = Len(s) + Len(t)
      /\ \A i \in 1..Len(s) : w[0 + i] = s[i]
      /\ \A i \in 1..Len(t) : w[Len(s) + i] = t[i]
  OBVIOUS
<1> HIDE DEF w
<1>2. SizesUpTo(w)[0 + Len(s)] = SizesUpTo(w)[0] + SizesUpTo(s)[Len(s)]
  <2>1. 0 \in Nat /\ 0 + Len(s) <= Len(w) /\ Len(s) <= Len(s)
    BY <1>1
  <2> QED BY <1>1, <2>1, SegmentSum, Zenon
<1>3. SizesUpTo(w)[Len(s) + Len(t)] = SizesUpTo(w)[Len(s)] + SizesUpTo(t)[Len(t)]
  <2>1. Len(s) + Len(t) <= Len(w) /\ Len(t) <= Len(t)
    BY <1>1
  <2> QED BY <1>1, <2>1, SegmentSum, Zenon
<1>4. SizesUpTo(w)[0] = 0 /\ SizesUpTo(s)[Len(s)] \in Nat /\ SizesUpTo(t)[Len(t)] \in Nat
  <2>1. Len(s) \in 0..Len(s) /\ Len(t) \in 0..Len(t)
    BY <1>1
  <2>2. /\ SizesUpTo(w)[0] = 0 /\ SizesUpTo(s) \in [0..Len(s) -> Nat]
        /\ SizesUpTo(t) \in [0..Len(t) -> Nat]
    BY <1>1, SumsAre
  <2> QED BY <2>1, <2>2
<1>5. 0 + Len(s) = Len(s)
  BY <1>1
<1>6. SizesUpTo(w)[Len(w)] = SizesUpTo(s)[Len(s)] + SizesUpTo(t)[Len(t)]
  BY <1>1, <1>2, <1>3, <1>4, <1>5
<1> QED BY <1>6 DEF SizesOf, w

\* The sizes of the first pages, and of the others.
LEMMA SizesOfPart ==
  ASSUME NEW s \in Seq(AnyPage), NEW n \in 0..Len(s)
  PROVE  /\ SubSeq(s, 1, n) \in Seq(AnyPage) /\ SubSeq(s, n + 1, Len(s)) \in Seq(AnyPage)
         /\ SizesOf(SubSeq(s, 1, n)) = SizesUpTo(s)[n]
         /\ SizesOf(SubSeq(s, n + 1, Len(s))) = SizesOf(s) - SizesUpTo(s)[n]
         /\ SizesUpTo(s)[n] \in Nat /\ SizesOf(s) \in Nat
<1> DEFINE first == SubSeq(s, 1, n)
           rest == SubSeq(s, n + 1, Len(s))
<1>1. /\ Len(s) \in Nat /\ n \in Nat /\ n <= Len(s)
      /\ first \in Seq(AnyPage) /\ Len(first) = n
      /\ \A i \in 1..n : s[0 + i] = first[i]
  OBVIOUS
<1>2. /\ rest \in Seq(AnyPage) /\ Len(rest) = Len(s) - n
      /\ \A i \in 1..Len(rest) : s[n + i] = rest[i]
  BY <1>1
<1> HIDE DEF first, rest
<1>3. /\ SizesUpTo(s)[0] = 0 /\ SizesUpTo(s)[n] \in Nat /\ SizesUpTo(s)[Len(s)] \in Nat
      /\ SizesUpTo(first)[n] \in Nat /\ SizesUpTo(rest)[Len(rest)] \in Nat
  <2>1. n \in 0..Len(s) /\ n \in 0..Len(first) /\ Len(rest) \in 0..Len(rest) /\ Len(s) \in 0..Len(s)
    BY <1>1, <1>2
  <2>2. /\ SizesUpTo(s) \in [0..Len(s) -> Nat] /\ SizesUpTo(s)[0] = 0
        /\ SizesUpTo(first) \in [0..Len(first) -> Nat]
        /\ SizesUpTo(rest) \in [0..Len(rest) -> Nat]
    BY <1>1, <1>2, SumsAre
  <2> QED BY <2>1, <2>2
<1>4. SizesUpTo(s)[0 + n] = SizesUpTo(s)[0] + SizesUpTo(first)[n]
  <2>1. 0 \in Nat /\ 0 + n <= Len(s) /\ n <= Len(first)
    BY <1>1
  <2> QED BY <1>1, <2>1, SegmentSum, Zenon
<1>5. SizesUpTo(s)[n + Len(rest)] = SizesUpTo(s)[n] + SizesUpTo(rest)[Len(rest)]
  <2>1. n + Len(rest) <= Len(s) /\ Len(rest) <= Len(rest) /\ Len(rest) \in Nat
    BY <1>1, <1>2
  <2> QED BY <1>1, <1>2, <2>1, SegmentSum, Zenon
<1>6. 0 + n = n /\ n + Len(rest) = Len(s)
  BY <1>1, <1>2
<1>7. SizesOf(first) = SizesUpTo(s)[n] /\ SizesOf(rest) = SizesOf(s) - SizesUpTo(s)[n]
  BY <1>1, <1>3, <1>4, <1>5, <1>6 DEF SizesOf
<1>8. SizesOf(s) \in Nat
  BY <1>3 DEF SizesOf
<1> QED BY <1>1, <1>2, <1>3, <1>7, <1>8 DEF first, rest

\* The size of one page.
LEMMA SizesOfOne ==
  ASSUME NEW page \in AnyPage
  PROVE  <<page>> \in Seq(AnyPage) /\ SizesOf(<<page>>) = SizeOf(page)
<1> DEFINE w == <<page>>
<1>1. w \in Seq(AnyPage) /\ Len(w) = 1 /\ w[1] = page
  OBVIOUS
<1> HIDE DEF w
<1>2. /\ SizesUpTo(w)[0] = 0
      /\ \A n \in 1..Len(w) : SizesUpTo(w)[n] = SizesUpTo(w)[n - 1] + SizeOf(w[n])
  BY <1>1, SumsAre
<1>3. 1 \in 1..Len(w) /\ 1 - 1 = 0
  BY <1>1
<1>4. SizesUpTo(w)[1] = SizesUpTo(w)[1 - 1] + SizeOf(w[1])
  BY <1>2, <1>3
<1>5. SizeOf(page) \in Nat
  BY AnyPageIs
<1>6. SizesUpTo(w)[Len(w)] = SizeOf(page)
  BY <1>1, <1>2, <1>3, <1>4, <1>5
<1> QED BY <1>1, <1>6 DEF SizesOf, w

\* No page is larger than all together.
LEMMA OneOfMany ==
  ASSUME NEW s \in Seq(AnyPage), NEW i \in 1..Len(s)
  PROVE  /\ SizesUpTo(s)[i] = SizesUpTo(s)[i - 1] + SizeOf(s[i])
         /\ SizesUpTo(s)[i] \in Nat /\ SizesUpTo(s)[i - 1] \in Nat /\ SizeOf(s[i]) \in Nat
         /\ SizeOf(s[i]) <= SizesOf(s) /\ SizesUpTo(s)[i] <= SizesOf(s)
<1>1. i \in 0..Len(s) /\ i - 1 \in 0..Len(s) /\ Len(s) \in Nat /\ s[i] \in AnyPage
  OBVIOUS
<1>2. /\ SizesUpTo(s) \in [0..Len(s) -> Nat]
      /\ \A n \in 1..Len(s) : SizesUpTo(s)[n] = SizesUpTo(s)[n - 1] + SizeOf(s[n])
  BY SumsAre
<1>3. /\ SizesUpTo(s)[i] = SizesUpTo(s)[i - 1] + SizeOf(s[i])
      /\ SizesUpTo(s)[i] \in Nat /\ SizesUpTo(s)[i - 1] \in Nat
  BY <1>1, <1>2
<1>4. SizesOf(SubSeq(s, i + 1, Len(s))) = SizesOf(s) - SizesUpTo(s)[i]
  BY <1>1, SizesOfPart
<1>5. SizesOf(SubSeq(s, i + 1, Len(s))) \in Nat /\ SizesOf(s) \in Nat
  <2>1. \A t \in Seq(AnyPage) : SizesOf(t) \in Nat
    <3> SUFFICES ASSUME NEW t \in Seq(AnyPage) PROVE SizesOf(t) \in Nat
      OBVIOUS
    <3>1. Len(t) \in 0..Len(t)
      OBVIOUS
    <3> QED BY <3>1, SizesOfPart
  <2>2. SubSeq(s, i + 1, Len(s)) \in Seq(AnyPage)
    BY <1>1, SizesOfPart
  <2> QED BY <2>1, <2>2
<1>6. SizeOf(s[i]) \in Nat
  BY <1>1, AnyPageIs
<1> QED BY <1>3, <1>4, <1>5, <1>6

-----------------------------------------------------------------------------
\* One page per key.
Distinct(s) == \A i, j \in 1..Len(s) : s[i].key = s[j].key => i = j

\* The elements of a concatenation.
LEMMA ConcatIs ==
  ASSUME NEW s \in Seq(AnyPage), NEW t \in Seq(AnyPage), NEW j \in 1..(Len(s) + Len(t))
  PROVE  (s \o t)[j] = IF j <= Len(s) THEN s[j] ELSE t[j - Len(s)]
OBVIOUS

\* The elements of the rest of a sequence.
LEMMA RestIs ==
  ASSUME NEW s \in Seq(AnyPage), NEW n \in 0..Len(s)
  PROVE  /\ Len(SubSeq(s, n + 1, Len(s))) = Len(s) - n
         /\ \A i \in 1..(Len(s) - n) : SubSeq(s, n + 1, Len(s))[i] = s[n + i]
<1>1. Len(s) \in Nat /\ n \in Nat /\ n <= Len(s)
  OBVIOUS
<1>2. Len(SubSeq(s, n + 1, Len(s))) = Len(s) - n
  BY <1>1
<1>3. \A i \in 1..(Len(s) - n) : SubSeq(s, n + 1, Len(s))[i] = s[n + i]
  BY <1>1
<1> QED BY <1>2, <1>3

\* Where the entry of a key is, or the place after the last, and what is left
\* without it.
Sits(s, key, pos) ==
  /\ pos \in 1..(Len(s) + 1)
  /\ Others(s, key) \in Seq(AnyPage)
  /\ Len(Others(s, key)) = IF pos <= Len(s) THEN Len(s) - 1 ELSE Len(s)
  /\ \A j \in 1..Len(Others(s, key)) : Others(s, key)[j] = IF j < pos THEN s[j] ELSE s[j + 1]
  /\ pos <= Len(s) => key \in KeysOf(s) /\ pos = Position(s, key) /\ s[pos].key = key
  /\ pos > Len(s) => key \notin KeysOf(s)
  /\ \A i \in 1..Len(s) : i # pos => s[i].key # key

\* Without the entry of a key, the list is smaller by that entry.
LEMMA OthersAre ==
  ASSUME NEW s \in Seq(AnyPage), Distinct(s), NEW key
  PROVE  /\ \E pos \in 1..(Len(s) + 1) : Sits(s, key, pos)
         /\ SizesOf(Others(s, key)) =
              IF key \in KeysOf(s) THEN SizesOf(s) - SizeOf(s[Position(s, key)]) ELSE SizesOf(s)
<1>1. Len(s) \in Nat /\ DOMAIN s = 1..Len(s) /\ \A i \in 1..Len(s) : s[i] \in AnyPage
  OBVIOUS
<1>2. CASE key \in KeysOf(s)
  <2> DEFINE pos == Position(s, key)
             first == SubSeq(s, 1, pos - 1)
             rest == SubSeq(s, pos + 1, Len(s))
  <2>1. pos \in 1..Len(s) /\ s[pos].key = key
    BY <1>1, <1>2 DEF KeysOf, Position
  <2> HIDE DEF pos
  <2>2. Others(s, key) = first \o rest
    BY <1>2 DEF Others, RemoveAt, pos
  <2>3. /\ first \in Seq(AnyPage) /\ Len(first) = pos - 1
        /\ \A i \in 1..(pos - 1) : first[i] = s[i]
    BY <1>1, <2>1
  <2>4. /\ rest \in Seq(AnyPage) /\ Len(rest) = Len(s) - pos
        /\ \A i \in 1..(Len(s) - pos) : rest[i] = s[pos + i]
    <3>1. pos \in 0..Len(s)
      BY <1>1, <2>1
    <3>2. rest \in Seq(AnyPage)
      BY <3>1, SizesOfPart, Zenon
    <3>3. Len(rest) = Len(s) - pos /\ \A i \in 1..(Len(s) - pos) : rest[i] = s[pos + i]
      BY <3>1, RestIs, Zenon
    <3> QED BY <3>2, <3>3
  <2>5. /\ SizesOf(first) = SizesUpTo(s)[pos - 1]
        /\ SizesOf(rest) = SizesOf(s) - SizesUpTo(s)[pos]
        /\ SizesOf(s) \in Nat
    <3>1. pos - 1 \in 0..Len(s) /\ pos \in 0..Len(s)
      BY <1>1, <2>1
    <3> HIDE DEF first, rest
    <3>2. SizesOf(SubSeq(s, 1, pos - 1)) = SizesUpTo(s)[pos - 1]
      BY <3>1, SizesOfPart
    <3>3. SizesOf(SubSeq(s, pos + 1, Len(s))) = SizesOf(s) - SizesUpTo(s)[pos] /\ SizesOf(s) \in Nat
      BY <3>1, SizesOfPart
    <3> QED BY <3>2, <3>3 DEF first, rest
  <2> HIDE DEF first, rest
  <2>6. /\ first \o rest \in Seq(AnyPage) /\ Len(first \o rest) = Len(s) - 1
        /\ \A j \in 1..(Len(s) - 1) : (first \o rest)[j] = IF j < pos THEN s[j] ELSE s[j + 1]
    <3>1. Len(first \o rest) = Len(s) - 1 /\ first \o rest \in Seq(AnyPage)
      <4>1. /\ first \o rest \in Seq(AnyPage)
            /\ Len(first \o rest) = Len(first) + Len(rest)
        BY <2>3, <2>4, ConcatProperties, Zenon
      <4>2. Len(first) = pos - 1 /\ Len(rest) = Len(s) - pos
        BY <2>3, <2>4
      <4>3. (pos - 1) + (Len(s) - pos) = Len(s) - 1
        BY <1>1, <2>1
      <4> QED BY <4>1, <4>2, <4>3
    <3>2. ASSUME NEW j \in 1..(Len(s) - 1)
          PROVE  (first \o rest)[j] = IF j < pos THEN s[j] ELSE s[j + 1]
      <4>1. (first \o rest)[j] = IF j <= Len(first) THEN first[j] ELSE rest[j - Len(first)]
        <5>1. j \in 1..(Len(first) + Len(rest))
          <6>1. Len(first) = pos - 1 /\ Len(rest) = Len(s) - pos
            BY <2>3, <2>4
          <6>2. (pos - 1) + (Len(s) - pos) = Len(s) - 1
            BY <1>1, <2>1
          <6> QED BY <6>1, <6>2
        <5> QED BY <2>3, <2>4, <5>1, ConcatIs, Zenon
      <4>2. CASE j < pos
        BY <1>1, <2>1, <2>3, <4>1, <4>2
      <4>3. CASE ~(j < pos)
        <5>1. /\ j - (pos - 1) \in 1..(Len(s) - pos) /\ pos + (j - (pos - 1)) = j + 1
              /\ ~(j <= pos - 1)
          BY <1>1, <2>1, <4>3
        <5> QED BY <2>3, <2>4, <4>1, <4>3, <5>1
      <4> QED BY <4>2, <4>3
    <3> QED BY <3>1, <3>2
  <2>7. SizesOf(first \o rest) = SizesOf(first) + SizesOf(rest)
    BY <2>3, <2>4, SizesOfConcat
  <2>8. /\ SizesUpTo(s)[pos] = SizesUpTo(s)[pos - 1] + SizeOf(s[pos])
        /\ SizesUpTo(s)[pos] \in Nat /\ SizesUpTo(s)[pos - 1] \in Nat /\ SizeOf(s[pos]) \in Nat
    BY <2>1, OneOfMany
  <2>9. SizesOf(Others(s, key)) = SizesOf(s) - SizeOf(s[pos])
    BY <2>2, <2>5, <2>7, <2>8
  <2>10. \A i \in 1..Len(s) : i # pos => s[i].key # key
    BY <2>1 DEF Distinct
  <2>11. Sits(s, key, pos)
    BY <1>1, <1>2, <2>1, <2>2, <2>6, <2>10 DEF Sits, pos
  <2>12. pos \in 1..(Len(s) + 1)
    BY <1>1, <2>1
  <2> QED BY <1>2, <2>9, <2>11, <2>12 DEF pos
<1>3. CASE key \notin KeysOf(s)
  <2>1. Others(s, key) = s
    BY <1>3 DEF Others
  <2>2. \A i \in 1..Len(s) : s[i].key # key
    BY <1>1, <1>3 DEF KeysOf
  <2>3. Len(s) + 1 \in 1..(Len(s) + 1) /\ ~(Len(s) + 1 <= Len(s))
    BY <1>1
  <2>4. Sits(s, key, Len(s) + 1)
    BY <1>1, <1>3, <2>1, <2>2, <2>3 DEF Sits
  <2> QED BY <1>3, <2>1, <2>3, <2>4
<1> QED BY <1>2, <1>3

\* The cache: whole pages of different keys, within both limits, counted exactly,
\* and the order of its list is that of the uses.
CacheInv ==
  /\ order \in Seq(AnyPage) /\ Distinct(order)
  /\ Len(order) <= MaxEntries
  /\ bytes = SizesOf(order) /\ bytes <= MaxBytes
  /\ \A i, j \in 1..Len(order) : i < j => <<order[j].key, order[i].key>> \in recent

\* The entries but for one key are different still, and in the order of their uses.
LEMMA OthersOrdered ==
  ASSUME CacheInv, NEW key
  PROVE  LET o == Others(order, key)
         IN  /\ o \in Seq(AnyPage) /\ Distinct(o)
             /\ \A i \in 1..Len(o) : o[i].key # key
             /\ \A i, j \in 1..Len(o) : i < j => <<o[j].key, o[i].key>> \in recent
             /\ Len(o) <= Len(order) /\ (key \in KeysOf(order) => Len(o) = Len(order) - 1)
<1> DEFINE o == Others(order, key)
<1>1. order \in Seq(AnyPage) /\ Distinct(order) /\ Len(order) \in Nat
  BY DEF CacheInv
<1>2. PICK pos \in 1..(Len(order) + 1) : Sits(order, key, pos)
  BY <1>1, OthersAre
<1> DEFINE From(j) == IF j < pos THEN j ELSE j + 1
<1>3. /\ o \in Seq(AnyPage) /\ Len(o) <= Len(order)
      /\ (key \in KeysOf(order) => Len(o) = Len(order) - 1)
  BY <1>1, <1>2 DEF Sits
<1>4. \A j \in 1..Len(o) : From(j) \in 1..Len(order) /\ From(j) # pos /\ o[j] = order[From(j)]
  BY <1>1, <1>2 DEF Sits
<1>5. \A i, j \in 1..Len(o) : (From(i) = From(j) => i = j) /\ (i < j => From(i) < From(j))
  BY <1>2, <1>3
<1>6. \A i \in 1..Len(order) : i # pos => order[i].key # key
  BY <1>2 DEF Sits
<1> HIDE DEF o, From
<1>7. Distinct(o)
  BY <1>1, <1>4, <1>5 DEF Distinct
<1>8. \A i \in 1..Len(o) : o[i].key # key
  BY <1>4, <1>6
<1>9. \A i, j \in 1..Len(o) : i < j => <<o[j].key, o[i].key>> \in recent
  BY <1>4, <1>5 DEF CacheInv
<1> QED BY <1>3, <1>7, <1>8, <1>9 DEF o

\* A page goes to the front: it is now the last used.
LEMMA ToTheFront ==
  ASSUME NEW page \in AnyPage, NEW rest \in Seq(AnyPage), Distinct(rest),
         \A i \in 1..Len(rest) : rest[i].key # page.key,
         \A i, j \in 1..Len(rest) : i < j => <<rest[j].key, rest[i].key>> \in recent,
         order' = <<page>> \o rest, Used(page.key)
  PROVE  /\ order' \in Seq(AnyPage) /\ Distinct(order') /\ Len(order') = 1 + Len(rest)
         /\ order'[1] = page /\ \A i \in 1..Len(rest) : order'[i + 1] = rest[i]
         /\ SizesOf(order') = SizeOf(page) + SizesOf(rest)
         /\ \A i, j \in 1..Len(order') : i < j => <<order'[j].key, order'[i].key>> \in recent'
<1>1. Len(rest) \in Nat /\ <<page>> \in Seq(AnyPage) /\ SizesOf(<<page>>) = SizeOf(page)
  BY SizesOfOne
<1>2. /\ order' \in Seq(AnyPage) /\ Len(order') = 1 + Len(rest)
      /\ DOMAIN order' = 1..(1 + Len(rest)) /\ order'[1] = page
      /\ \A i \in 1..Len(rest) : order'[i + 1] = rest[i]
  BY <1>1
<1>3. SizesOf(order') = SizeOf(page) + SizesOf(rest)
  BY <1>1, SizesOfConcat
<1>4. \A i \in 1..Len(order') : i = 1 \/ (i - 1 \in 1..Len(rest) /\ order'[i] = rest[i - 1])
  <2> SUFFICES ASSUME NEW i \in 1..Len(order'), i # 1
               PROVE  i - 1 \in 1..Len(rest) /\ order'[i] = rest[i - 1]
    OBVIOUS
  <2>1. i - 1 \in 1..Len(rest) /\ (i - 1) + 1 = i
    BY <1>1, <1>2
  <2> QED BY <1>2, <2>1
<1>5. Distinct(order')
  BY <1>2, <1>4 DEF Distinct
<1>6. \A i \in 1..Len(order') : order'[i].key \in KeysOf(order')
  BY <1>2 DEF KeysOf
<1>7. ASSUME NEW i \in 1..Len(order'), NEW j \in 1..Len(order'), i < j
      PROVE  <<order'[j].key, order'[i].key>> \in recent'
  <2>1. j - 1 \in 1..Len(rest) /\ order'[j] = rest[j - 1] /\ order'[j].key # page.key
    BY <1>2, <1>4, <1>7
  <2>2. order'[i].key = page.key \/ <<order'[j].key, order'[i].key>> \in recent
    <3>1. CASE i = 1
      BY <1>2, <3>1
    <3>2. CASE i # 1
      <4>1. i - 1 \in 1..Len(rest) /\ order'[i] = rest[i - 1] /\ i - 1 < j - 1
        BY <1>4, <1>7, <3>2
      <4> QED BY <2>1, <4>1
    <3> QED BY <3>1, <3>2
  <2>3. <<order'[j].key, order'[i].key>> \in KeysOf(order') \X KeysOf(order')
    BY <1>6
  <2> QED BY <2>1, <2>2, <2>3 DEF Used
<1> QED BY <1>2, <1>3, <1>5, <1>7

\* No other entry is lost with the one that is taken off.
LEMMA OthersKeep ==
  ASSUME NEW s \in Seq(AnyPage), NEW key, NEW pos, Sits(s, key, pos), NEW i \in 1..Len(s), i # pos
  PROVE  LET j == IF i < pos THEN i ELSE i - 1
         IN  j \in 1..Len(Others(s, key)) /\ Others(s, key)[j] = s[i]
<1> DEFINE o == Others(s, key)
           j == IF i < pos THEN i ELSE i - 1
<1>1. /\ Len(s) \in Nat /\ pos \in 1..(Len(s) + 1)
      /\ Len(o) = IF pos <= Len(s) THEN Len(s) - 1 ELSE Len(s)
      /\ \A k \in 1..Len(o) : o[k] = IF k < pos THEN s[k] ELSE s[k + 1]
  BY DEF Sits
<1> HIDE DEF o
<1>2. j \in 1..Len(o)
  BY <1>1
<1>3. o[j] = s[i]
  <2>1. CASE i < pos
    BY <1>1, <1>2, <2>1
  <2>2. CASE ~(i < pos)
    <3>1. j = i - 1 /\ ~(i - 1 < pos) /\ (i - 1) + 1 = i
      BY <1>1, <2>2
    <3> HIDE DEF j
    <3> QED BY <1>1, <1>2, <3>1
  <2> QED BY <2>1, <2>2
<1> QED BY <1>2, <1>3 DEF o

\* A hit leaves the cache as it should be, and every page in it.
LEMMA HitKeeps ==
  ASSUME CacheInv, NEW key, key \in KeysOf(order), MoveToFront(key), Used(key), bytes' = bytes
  PROVE  CacheInv' /\ KeysOf(order) \subseteq KeysOf(order')
<1> DEFINE o == Others(order, key)
           page == order[Position(order, key)]
<1>1. /\ order \in Seq(AnyPage) /\ Distinct(order) /\ Len(order) \in Nat
      /\ DOMAIN order = 1..Len(order) /\ Len(order) <= MaxEntries
      /\ bytes = SizesOf(order) /\ bytes <= MaxBytes
  BY DEF CacheInv
<1>2. Position(order, key) \in 1..Len(order) /\ page.key = key /\ page \in AnyPage
  BY <1>1 DEF KeysOf, Position
<1>3. SizesOf(o) = SizesOf(order) - SizeOf(page)
  BY <1>1, OthersAre
<1>4. /\ o \in Seq(AnyPage) /\ Distinct(o)
      /\ \A i \in 1..Len(o) : o[i].key # key
      /\ \A i, j \in 1..Len(o) : i < j => <<o[j].key, o[i].key>> \in recent
      /\ Len(o) = Len(order) - 1
  BY OthersOrdered
<1>5. order' = <<page>> \o o
  BY DEF MoveToFront
<1>6. SizeOf(page) \in Nat /\ SizesOf(order) \in Nat
  <2>1. Len(order) \in 0..Len(order)
    BY <1>1
  <2> QED BY <1>1, <1>2, <2>1, OneOfMany, SizesOfPart
<1>7. PICK pos \in 1..(Len(order) + 1) : Sits(order, key, pos)
  BY <1>1, OthersAre
<1> HIDE DEF o, page
<1>8. /\ order' \in Seq(AnyPage) /\ Distinct(order') /\ Len(order') = 1 + Len(o)
      /\ order'[1] = page /\ \A i \in 1..Len(o) : order'[i + 1] = o[i]
      /\ SizesOf(order') = SizeOf(page) + SizesOf(o)
      /\ \A i, j \in 1..Len(order') : i < j => <<order'[j].key, order'[i].key>> \in recent'
  BY <1>2, <1>4, <1>5, ToTheFront
<1>9. SizesOf(order') = SizesOf(order)
  BY <1>3, <1>6, <1>8
<1>10. CacheInv'
  <2>1. Len(order') <= MaxEntries
    BY <1>1, <1>4, <1>8
  <2> QED BY <1>1, <1>8, <1>9, <2>1 DEF CacheInv
<1>11. ASSUME NEW i \in 1..Len(order) PROVE order[i].key \in KeysOf(order')
  <2>1. /\ \A m \in 1..Len(order') : order'[m].key \in KeysOf(order')
        /\ Len(order') \in Nat
    BY <1>8 DEF KeysOf
  <2>2. CASE i = pos
    <3>1. order[i].key = page.key
      BY <1>2, <1>7, <2>2 DEF Sits
    <3>2. 1 \in 1..Len(order')
      BY <1>1, <1>4, <1>8
    <3> QED BY <1>8, <2>1, <3>1, <3>2
  <2>3. CASE i # pos
    <3>1. PICK j \in 1..Len(o) : o[j] = order[i]
      BY <1>1, <1>7, <2>3, OthersKeep DEF o
    <3>2. j + 1 \in 1..Len(order') /\ order'[j + 1] = order[i]
      BY <1>1, <1>4, <1>8, <3>1
    <3> QED BY <2>1, <3>2
  <2> QED BY <2>2, <2>3
<1>12. KeysOf(order) = {order[i].key : i \in 1..Len(order)}
  BY <1>1 DEF KeysOf
<1> QED BY <1>10, <1>11, <1>12

\* What put makes of the cache when the page is not too large.
LEMMA PutIs ==
  ASSUME CacheInv, NEW page \in AnyPage, Put(page), SizeOf(page) <= MaxBytes
  PROVE  LET o == Others(order, page.key)
         IN  \E kept \in 0..Len(o) :
               /\ order' = <<page>> \o SubSeq(o, 1, kept)
               /\ bytes' = SizesUpTo(o)[kept] + SizeOf(page)
               /\ kept = 0 \/ (kept < MaxEntries /\ SizesUpTo(o)[kept] + SizeOf(page) <= MaxBytes)
               /\ \A n \in 0..Len(o) :
                    n > kept => n >= MaxEntries \/ SizesUpTo(o)[n] + SizeOf(page) > MaxBytes
<1> DEFINE o == Others(order, page.key)
           cache == Without(page.key)
           enough == {n \in 0..Len(cache.pages) : Room(cache.pages, cache.bytes, page, n)}
<1>1. /\ order \in Seq(AnyPage) /\ Distinct(order) /\ bytes = SizesOf(order)
      /\ SizeOf(page) \in Nat /\ MaxBytes \in Nat /\ MaxEntries \in Nat
  BY AnyPageIs, PagesAssumption DEF CacheInv
<1>2. cache.pages = o /\ cache.bytes = SizesOf(o)
  <2>1. SizesOf(o) = IF page.key \in KeysOf(order)
                     THEN SizesOf(order) - SizeOf(order[Position(order, page.key)])
                     ELSE SizesOf(order)
    BY <1>1, OthersAre
  <2> HIDE DEF o
  <2> QED BY <1>1, <2>1 DEF Without, o
<1>3. o \in Seq(AnyPage) /\ Len(o) \in Nat
  BY OthersOrdered
<1>4. ~(SizeOf(page) > MaxBytes)
  BY <1>1
<1> HIDE DEF o, cache
<1>5. PICK kept \in enough \cup {0} :
             /\ \A n \in enough : n <= kept
             /\ order' = <<page>> \o SubSeq(cache.pages, 1, kept)
             /\ bytes' = cache.bytes - SizesOf(SubSeq(cache.pages, kept + 1, Len(cache.pages)))
                         + SizeOf(page)
  BY <1>4 DEF Put, cache
<1>6. \A n \in 0..Len(o) : /\ SizesOf(o) - SizesOf(SubSeq(o, n + 1, Len(o))) = SizesUpTo(o)[n]
                           /\ SizesUpTo(o)[n] \in Nat
  <2> SUFFICES ASSUME NEW n \in 0..Len(o)
               PROVE  /\ SizesOf(o) - SizesOf(SubSeq(o, n + 1, Len(o))) = SizesUpTo(o)[n]
                      /\ SizesUpTo(o)[n] \in Nat
    OBVIOUS
  <2>1. /\ SizesOf(SubSeq(o, n + 1, Len(o))) = SizesOf(o) - SizesUpTo(o)[n]
        /\ SizesUpTo(o)[n] \in Nat /\ SizesOf(o) \in Nat
    BY <1>3, SizesOfPart
  <2> QED BY <2>1
<1>7. \A n : n \in enough <=> /\ n \in 0..Len(o) /\ n < MaxEntries
                              /\ SizesUpTo(o)[n] + SizeOf(page) <= MaxBytes
  BY <1>2, <1>6 DEF Room
<1> HIDE DEF enough
<1>8. kept \in 0..Len(o)
  BY <1>3, <1>5, <1>7
<1>9. order' = <<page>> \o SubSeq(o, 1, kept) /\ bytes' = SizesUpTo(o)[kept] + SizeOf(page)
  BY <1>2, <1>5, <1>6, <1>8
<1>10. kept = 0 \/ (kept < MaxEntries /\ SizesUpTo(o)[kept] + SizeOf(page) <= MaxBytes)
  BY <1>5, <1>7
<1>11. \A n \in 0..Len(o) :
         n > kept => n >= MaxEntries \/ SizesUpTo(o)[n] + SizeOf(page) > MaxBytes
  <2> SUFFICES ASSUME NEW n \in 0..Len(o), n > kept, ~(n >= MaxEntries)
               PROVE  SizesUpTo(o)[n] + SizeOf(page) > MaxBytes
    OBVIOUS
  <2>1. n \notin enough
    BY <1>5, <1>8
  <2>2. n < MaxEntries
    BY <1>1, <1>3
  <2>3. ~(SizesUpTo(o)[n] + SizeOf(page) <= MaxBytes)
    BY <1>7, <2>1, <2>2
  <2>4. SizesUpTo(o)[n] \in Nat
    BY <1>6
  <2> QED BY <1>1, <2>3, <2>4
<1> QED BY <1>8, <1>9, <1>10, <1>11 DEF o

\* A page too large to be kept is not in the cache.
LEMMA TooLargeIsAbsent ==
  ASSUME CacheInv, NEW page \in AnyPage, ~(SizeOf(page) <= MaxBytes)
  PROVE  page.key \notin KeysOf(order)
<1> SUFFICES ASSUME NEW i \in DOMAIN order, order[i].key = page.key PROVE FALSE
  BY DEF KeysOf
<1>1. /\ order \in Seq(AnyPage) /\ bytes = SizesOf(order) /\ bytes <= MaxBytes
      /\ i \in 1..Len(order) /\ order[i] \in AnyPage
  BY DEF CacheInv
<1>2. order[i] = page
  BY <1>1, AnyPageIs
<1>3. SizeOf(page) <= SizesOf(order) /\ SizeOf(page) \in Nat
  BY <1>1, <1>2, OneOfMany
<1>4. SizesOf(order) \in Nat
  <2>1. Len(order) \in 0..Len(order)
    BY <1>1
  <2> QED BY <1>1, <2>1, SizesOfPart
<1> QED BY <1>1, <1>3, <1>4, PagesAssumption

\* Put leaves the cache as it should be.
LEMMA PutKeeps ==
  ASSUME CacheInv, NEW page \in AnyPage, Put(page), Used(page.key)
  PROVE  CacheInv'
<1>1. CASE SizeOf(page) <= MaxBytes
  <2> DEFINE o == Others(order, page.key)
  <2>1. /\ o \in Seq(AnyPage) /\ Distinct(o) /\ Len(o) \in Nat
        /\ \A i \in 1..Len(o) : o[i].key # page.key
        /\ \A i, j \in 1..Len(o) : i < j => <<o[j].key, o[i].key>> \in recent
    BY OthersOrdered
  <2>2. PICK kept \in 0..Len(o) :
          /\ order' = <<page>> \o SubSeq(o, 1, kept)
          /\ bytes' = SizesUpTo(o)[kept] + SizeOf(page)
          /\ kept = 0 \/ (kept < MaxEntries /\ SizesUpTo(o)[kept] + SizeOf(page) <= MaxBytes)
    BY <1>1, PutIs
  <2> HIDE DEF o
  <2> DEFINE rest == SubSeq(o, 1, kept)
  <2>3. /\ rest \in Seq(AnyPage) /\ SizesOf(rest) = SizesUpTo(o)[kept]
    BY <2>1, SizesOfPart
  <2>4. Len(rest) = kept /\ \A i \in 1..kept : rest[i] = o[i] /\ i \in 1..Len(o)
    BY <2>1
  <2>5. SizesUpTo(o)[0] = 0 /\ SizeOf(page) \in Nat
    BY <2>1, SumsAre, AnyPageIs
  <2>6. order' = <<page>> \o rest
    BY <2>2
  <2> HIDE DEF rest
  <2>7. /\ Distinct(rest)
        /\ \A i \in 1..Len(rest) : rest[i].key # page.key
        /\ \A i, j \in 1..Len(rest) : i < j => <<rest[j].key, rest[i].key>> \in recent
    BY <2>1, <2>4 DEF Distinct
  <2>8. /\ order' \in Seq(AnyPage) /\ Distinct(order') /\ Len(order') = 1 + Len(rest)
        /\ SizesOf(order') = SizeOf(page) + SizesOf(rest)
        /\ \A i, j \in 1..Len(order') : i < j => <<order'[j].key, order'[i].key>> \in recent'
    BY <2>3, <2>6, <2>7, ToTheFront
  <2>9. Len(order') <= MaxEntries
    BY <2>2, <2>4, <2>8, PagesAssumption
  <2>10. SizesUpTo(o)[kept] \in Nat
    BY <2>1, SizesOfPart
  <2>11. bytes' = SizesOf(order')
    BY <2>2, <2>3, <2>5, <2>8, <2>10
  <2>12. bytes' <= MaxBytes
    BY <1>1, <2>2, <2>5
  <2> QED BY <2>8, <2>9, <2>11, <2>12 DEF CacheInv
<1>2. CASE ~(SizeOf(page) <= MaxBytes)
  <2>1. page.key \notin KeysOf(order)
    BY <1>2, TooLargeIsAbsent
  <2>2. order' = order /\ bytes' = bytes
    <3>1. SizeOf(page) > MaxBytes
      BY <1>2, AnyPageIs, PagesAssumption
    <3> QED BY <3>1 DEF Put
  <2>3. ASSUME NEW i \in 1..Len(order), NEW j \in 1..Len(order), i < j
        PROVE  <<order[j].key, order[i].key>> \in recent'
    <3>1. order[i].key \in KeysOf(order) /\ order[j].key \in KeysOf(order)
      BY DEF KeysOf, CacheInv
    <3>2. <<order[j].key, order[i].key>> \in recent
      BY <2>3 DEF CacheInv
    <3> QED BY <2>1, <2>2, <3>1, <3>2 DEF Used
  <2> QED BY <2>2, <2>3 DEF CacheInv
<1> QED BY <1>1, <1>2

-----------------------------------------------------------------------------
\* What a reader has seen of a query's matches: the first n, and the offset it
\* asks for next is n, unless n is beyond the largest offset.
SeenSoFar(total, next, results) ==
  \E n \in 0..total : /\ results = 1..n /\ Lesser(next, MaxOffset) <= n
                      /\ next <= MaxOffset => n = next

Follows(r) ==
  /\ rpc[r] # "idle" => query[r] \in Queries
  /\ rpc[r] = "idle" => offset[r] = 0 /\ seen[r] = {}
  /\ rpc[r] \in {"browsing", "querying"} => SeenSoFar(TotalOf[query[r]], offset[r], seen[r])
  /\ rpc[r] = "ended" => seen[r] = 1..TotalOf[query[r]]

ReaderTypeOK ==
  /\ query \in [Readers -> Queries \cup {CHOOSE q \in Queries : TRUE}]
  /\ limit \in [Readers -> Nat]
  /\ offset \in [Readers -> Nat]
  /\ rpc \in [Readers -> {"idle", "browsing", "querying", "ended"}]
  /\ seen \in [Readers -> SUBSET Nat]

ReaderInv == ReaderTypeOK /\ ~twice /\ \A r \in Readers : Follows(r)

PagesIInv == CacheInv /\ ReaderInv

\* What is asked for is within the limits of the handler.
LEMMA RequestIsKey ==
  ASSUME ReaderInv, NEW r \in Readers, rpc[r] # "idle"
  PROVE  Request(r) \in PageKeys
<1>1. query[r] \in Queries /\ limit[r] \in Nat /\ offset[r] \in Nat
  BY DEF ReaderInv, ReaderTypeOK, Follows
<1>2. MaxLimit \in Nat \ {0} /\ MaxOffset \in Nat
  BY PagesAssumption
<1>3. Clamp(limit[r], 1, MaxLimit) \in 1..MaxLimit
  BY <1>1, <1>2 DEF Clamp
<1>4. Clamp(offset[r], 0, MaxOffset) \in 0..MaxOffset
  BY <1>1, <1>2 DEF Clamp
<1> QED BY <1>1, <1>3, <1>4 DEF Request, PageKeys

\* One page further: nothing is left out, and nothing shown twice if every
\* match is within the largest offset.
LEMMA OnePageFurther ==
  ASSUME NEW total \in Nat, NEW next \in Nat, NEW results, SeenSoFar(total, next, results),
         NEW most \in Nat \ {0}
  PROVE  LET from == Lesser(next, MaxOffset)
             items == (from + 1)..Lesser(from + most, total)
             n == Lesser(most, total - from)
         IN  /\ from + n < total => SeenSoFar(total, from + n, results \cup items)
             /\ ~(from + n < total) => results \cup items = 1..total
             /\ total <= MaxOffset => results \cap items = {}
<1> DEFINE from == Lesser(next, MaxOffset)
           items == (from + 1)..Lesser(from + most, total)
           n == Lesser(most, total - from)
<1>1. MaxOffset \in Nat
  BY PagesAssumption
<1>2. PICK m \in 0..total : /\ results = 1..m /\ Lesser(next, MaxOffset) <= m
                            /\ next <= MaxOffset => m = next
  BY DEF SeenSoFar
<1>3. from \in Nat /\ from <= m /\ m \in Nat /\ m <= total /\ from <= MaxOffset
      /\ (next <= MaxOffset => from = next /\ from = m)
      /\ (~(next <= MaxOffset) => from = MaxOffset)
  BY <1>1, <1>2 DEF Lesser
<1> HIDE DEF from
<1>4. /\ n \in Nat /\ from + n <= total /\ Lesser(from + most, total) = from + n
      /\ n = 0 => total = from
  BY <1>3 DEF Lesser
<1> HIDE DEF n
<1>5. items = (from + 1)..(from + n)
  BY <1>4
<1> HIDE DEF items
<1> DEFINE both == IF m < from + n THEN from + n ELSE m
<1>6. both \in 0..total /\ results \cup items = 1..both
  <2>1. both \in 0..total
    BY <1>3, <1>4
  <2>2. results = 1..m /\ items = (from + 1)..(from + n)
    BY <1>2, <1>5
  <2>3. (1..m) \cup ((from + 1)..(from + n)) = 1..both
    BY <1>3, <1>4
  <2> QED BY <2>1, <2>2, <2>3
<1>7. from + n <= both /\ (from + n = total => both = total)
  BY <1>3, <1>4
<1>8. from + n <= MaxOffset => both = from + n
  <2>1. CASE next <= MaxOffset
    BY <1>3, <1>4, <2>1
  <2>2. CASE ~(next <= MaxOffset)
    <3>1. from + n <= MaxOffset => n = 0
      BY <1>1, <1>3, <1>4, <2>2
    <3> QED BY <1>3, <1>4, <1>7, <3>1
  <2> QED BY <2>1, <2>2
<1> HIDE DEF both
<1>9. from + n < total => SeenSoFar(total, from + n, results \cup items)
  <2>1. Lesser(from + n, MaxOffset) <= both
    BY <1>1, <1>3, <1>4, <1>6, <1>7 DEF Lesser
  <2> QED BY <1>6, <1>8, <2>1 DEF SeenSoFar
<1>10. ~(from + n < total) => results \cup items = 1..total
  BY <1>3, <1>4, <1>6, <1>7
<1>11. total <= MaxOffset => results \cap items = {}
  <2> SUFFICES ASSUME total <= MaxOffset, NEW x \in results, x \in items PROVE FALSE
    OBVIOUS
  <2>1. from = m
    BY <1>1, <1>3
  <2>2. x \in 1..m /\ x \in (from + 1)..(from + n)
    BY <1>2, <1>5
  <2> QED BY <1>3, <1>4, <2>1, <2>2
<1> QED BY <1>9, <1>10, <1>11 DEF from, items, n

\* A reader that is shown the page of its request is where it should be.
LEMMA ShownKeeps ==
  ASSUME ReaderInv, NEW r \in Readers, rpc[r] \in {"browsing", "querying"},
         Shown(r, PageOf(Request(r)))
  PROVE  ReaderInv'
<1> DEFINE page == PageOf(Request(r))
           total == TotalOf[query[r]]
           from == Lesser(offset[r], MaxOffset)
           n == Cardinality(page.items)
<1>1. Request(r) \in PageKeys
  BY RequestIsKey
<1>2. query[r] \in Queries /\ total \in Nat /\ offset[r] \in Nat /\ MaxOffset \in Nat
      /\ limit[r] \in Nat /\ MaxLimit \in Nat \ {0}
  BY PagesAssumption DEF ReaderInv, ReaderTypeOK, Follows
<1>3. Request(r).query = query[r] /\ Request(r).offset = from /\ Request(r).limit \in Nat \ {0}
  BY <1>2 DEF Request, Clamp, Lesser
<1>4. SeenSoFar(total, offset[r], seen[r])
  BY DEF ReaderInv, Follows
<1>5. from <= total
  <2>1. \E m \in 0..total : from <= m
    BY <1>4 DEF SeenSoFar
  <2>2. from \in Nat
    BY <1>2 DEF Lesser
  <2> HIDE DEF from, total
  <2> QED BY <1>2, <2>1, <2>2
<1> DEFINE most == Request(r).limit
<1>6. /\ page.key.offset = from /\ page.total = total
      /\ page.items = (from + 1)..Lesser(from + most, total)
      /\ n = Lesser(most, total - from) /\ n \in Nat /\ most \in Nat \ {0}
  <2>1. /\ page.key = Request(r) /\ page.total = TotalOf[Request(r).query]
        /\ page.items = (Request(r).offset + 1)..
                          Lesser(Request(r).offset + most, TotalOf[Request(r).query])
        /\ Request(r).offset <= TotalOf[Request(r).query] =>
             n = Lesser(most, TotalOf[Request(r).query] - Request(r).offset)
        /\ n \in Nat
    BY <1>1, PageIs
  <2> HIDE DEF page, from, n, most
  <2> QED BY <1>3, <1>5, <2>1 DEF most
<1> HIDE DEF page, n, most
<1>7. /\ from + n < total => SeenSoFar(total, from + n, seen[r] \cup page.items)
      /\ ~(from + n < total) => seen[r] \cup page.items = 1..total
      /\ total <= MaxOffset => seen[r] \cap page.items = {}
  <2> DEFINE items == (from + 1)..Lesser(from + most, total)
             m == Lesser(most, total - from)
  <2>1. /\ from + m < total => SeenSoFar(total, from + m, seen[r] \cup items)
        /\ ~(from + m < total) => seen[r] \cup items = 1..total
        /\ total <= MaxOffset => seen[r] \cap items = {}
    <3>1. total \in Nat /\ offset[r] \in Nat /\ most \in Nat \ {0}
      BY <1>2, <1>6
    <3> HIDE DEF total
    <3> QED BY <1>4, <3>1, OnePageFurther, Zenon
  <2>2. items = page.items /\ m = n
    BY <1>6
  <2> HIDE DEF items, m, from, total
  <2> QED BY <2>1, <2>2
<1>8. HasMore(page) <=> from + n < total
  BY <1>6 DEF HasMore, n
<1>9. NextOffset(page) = from + n
  BY <1>6 DEF NextOffset, n
<1>10. from + n \in Nat /\ page.items \subseteq Nat
  BY <1>2, <1>6 DEF Lesser
<1> HIDE DEF from, total
<1>11. /\ seen' = [seen EXCEPT ![r] = @ \cup page.items]
       /\ offset' = [offset EXCEPT ![r] = IF HasMore(page) THEN NextOffset(page) ELSE @]
       /\ rpc' = [rpc EXCEPT ![r] = IF HasMore(page) THEN "browsing" ELSE "ended"]
       /\ query' = query /\ limit' = limit
  BY DEF Shown, page
<1>12. ~twice'
  <2>1. twice' = (twice \/ (TotalOf[query[r]] <= MaxOffset /\ seen[r] \cap page.items # {}))
    BY DEF Shown, page
  <2>2. ~twice
    BY DEF ReaderInv
  <2>3. ~(TotalOf[query[r]] <= MaxOffset /\ seen[r] \cap page.items # {})
    BY <1>7 DEF total
  <2> QED BY <2>1, <2>2, <2>3, Zenon
<1>13. ReaderTypeOK'
  BY <1>9, <1>10, <1>11 DEF ReaderInv, ReaderTypeOK
<1>14. ASSUME NEW s \in Readers PROVE Follows(s)'
  <2>1. CASE s = r
    <3>1. /\ seen'[r] = seen[r] \cup page.items /\ query'[r] = query[r]
          /\ offset'[r] = IF HasMore(page) THEN NextOffset(page) ELSE offset[r]
          /\ rpc'[r] = IF HasMore(page) THEN "browsing" ELSE "ended"
      BY <1>11 DEF ReaderInv, ReaderTypeOK
    <3>2. CASE HasMore(page)
      BY <1>2, <1>7, <1>8, <1>9, <2>1, <3>1, <3>2 DEF Follows, total
    <3>3. CASE ~HasMore(page)
      BY <1>2, <1>7, <1>8, <2>1, <3>1, <3>3 DEF Follows, total
    <3> QED BY <3>2, <3>3
  <2>2. CASE s # r
    <3>1. /\ seen'[s] = seen[s] /\ query'[s] = query[s]
          /\ offset'[s] = offset[s] /\ rpc'[s] = rpc[s]
      BY <1>11, <2>2 DEF ReaderInv, ReaderTypeOK
    <3>2. Follows(s)
      BY DEF ReaderInv
    <3> QED BY <3>1, <3>2 DEF Follows
  <2> QED BY <2>1, <2>2
<1> QED BY <1>12, <1>13, <1>14 DEF ReaderInv

-----------------------------------------------------------------------------
\* The cache is empty and nobody has seen anything.
LEMMA PagesInitially == PagesInit => PagesIInv
<1> SUFFICES ASSUME PagesInit PROVE PagesIInv
  OBVIOUS
<1>1. CacheInv
  <2>1. order \in Seq(AnyPage) /\ Len(order) = 0 /\ bytes = 0
    BY DEF PagesInit
  <2>2. SizesUpTo(order)[0] = 0
    BY <2>1, SumsAre
  <2>3. SizesOf(order) = 0
    BY <2>1, <2>2 DEF SizesOf
  <2> QED BY <2>1, <2>3, PagesAssumption DEF CacheInv, Distinct
<1>2. ReaderTypeOK
  BY PagesAssumption DEF PagesInit, ReaderTypeOK
<1>3. ~twice
  BY DEF PagesInit
<1>4. \A r \in Readers : Follows(r)
  BY DEF PagesInit, Follows
<1> QED BY <1>1, <1>2, <1>3, <1>4 DEF PagesIInv, ReaderInv

\* What a reader does by itself.
LEMMA ReaderSteps ==
  ASSUME ReaderInv, NEW r \in Readers
  PROVE  /\ \A q \in Queries, n \in Limits : StartBrowsing(r, q, n) => ReaderInv'
         /\ CacheMiss(r) => ReaderInv'
         /\ StopBrowsing(r) => ReaderInv'
<1>1. ASSUME NEW q \in Queries, NEW n \in Limits, StartBrowsing(r, q, n) PROVE ReaderInv'
  <2>1. /\ rpc[r] = "idle" /\ query' = [query EXCEPT ![r] = q] /\ limit' = [limit EXCEPT ![r] = n]
        /\ rpc' = [rpc EXCEPT ![r] = "browsing"] /\ offset' = offset /\ seen' = seen
        /\ (twice' <=> twice)
    BY <1>1 DEF StartBrowsing
  <2>2. ReaderTypeOK'
    BY <2>1, PagesAssumption DEF ReaderInv, ReaderTypeOK
  <2>3. ASSUME NEW s \in Readers PROVE Follows(s)'
    <3>1. Follows(s)
      BY DEF ReaderInv
    <3>2. CASE s # r
      <4>1. query'[s] = query[s] /\ rpc'[s] = rpc[s]
        BY <2>1, <3>2 DEF ReaderInv, ReaderTypeOK
      <4> QED BY <2>1, <3>1, <4>1 DEF Follows
    <3>3. CASE s = r
      <4>1. query'[s] = q /\ rpc'[s] = "browsing"
        BY <2>1, <3>3 DEF ReaderInv, ReaderTypeOK
      <4>2. offset[s] = 0 /\ seen[s] = {}
        BY <2>1, <3>1, <3>3 DEF Follows
      <4>3. TotalOf[q] \in Nat /\ MaxOffset \in Nat
        BY PagesAssumption
      <4>4. Lesser(0, MaxOffset) = 0 /\ 0 \in 0..TotalOf[q] /\ 1..0 = {}
        BY <4>3 DEF Lesser
      <4>5. SeenSoFar(TotalOf[q], 0, {})
        BY <4>3, <4>4 DEF SeenSoFar
      <4> QED BY <2>1, <4>1, <4>2, <4>5 DEF Follows
    <3> QED BY <3>2, <3>3
  <2> QED BY <2>1, <2>2, <2>3 DEF ReaderInv
<1>2. ASSUME CacheMiss(r) PROVE ReaderInv'
  <2>1. /\ rpc[r] = "browsing" /\ rpc' = [rpc EXCEPT ![r] = "querying"]
        /\ query' = query /\ limit' = limit /\ offset' = offset /\ seen' = seen
        /\ (twice' <=> twice)
    BY <1>2 DEF CacheMiss
  <2>2. ReaderTypeOK'
    BY <2>1 DEF ReaderInv, ReaderTypeOK
  <2>3. ASSUME NEW s \in Readers PROVE Follows(s)'
    <3>1. Follows(s) /\ rpc'[s] = IF s = r THEN "querying" ELSE rpc[s]
      BY <2>1 DEF ReaderInv, ReaderTypeOK
    <3> QED BY <2>1, <3>1 DEF Follows
  <2> QED BY <2>1, <2>2, <2>3 DEF ReaderInv
<1>3. ASSUME StopBrowsing(r) PROVE ReaderInv'
  <2>1. /\ rpc' = [rpc EXCEPT ![r] = "idle"] /\ offset' = [offset EXCEPT ![r] = 0]
        /\ seen' = [seen EXCEPT ![r] = {}] /\ query' = query /\ limit' = limit /\ (twice' <=> twice)
    BY <1>3 DEF StopBrowsing
  <2>2. ReaderTypeOK'
    BY <2>1 DEF ReaderInv, ReaderTypeOK
  <2>3. ASSUME NEW s \in Readers PROVE Follows(s)'
    <3>1. Follows(s) /\ rpc'[s] = (IF s = r THEN "idle" ELSE rpc[s])
          /\ offset'[s] = (IF s = r THEN 0 ELSE offset[s])
          /\ seen'[s] = (IF s = r THEN {} ELSE seen[s])
      BY <2>1 DEF ReaderInv, ReaderTypeOK
    <3>2. CASE s = r
      BY <3>1, <3>2 DEF Follows
    <3>3. CASE s # r
      BY <2>1, <3>1, <3>3 DEF Follows
    <3> QED BY <3>2, <3>3
  <2> QED BY <2>1, <2>2, <2>3 DEF ReaderInv
<1> QED BY <1>1, <1>2, <1>3

\* The page that a hit shows is the one that the query would have given.
LEMMA HitShows ==
  ASSUME PagesIInv, NEW r \in Readers, CacheHit(r)
  PROVE  order[Position(order, Request(r))] = PageOf(Request(r))
<1>1. order \in Seq(AnyPage) /\ Request(r) \in KeysOf(order)
  BY DEF PagesIInv, CacheInv, CacheHit
<1>2. /\ Position(order, Request(r)) \in DOMAIN order
      /\ order[Position(order, Request(r))].key = Request(r)
  BY <1>1 DEF KeysOf, Position
<1>3. order[Position(order, Request(r))] \in AnyPage
  BY <1>1, <1>2
<1> QED BY <1>2, <1>3, AnyPageIs

\* Every step leaves the cache and the readers as they should be.
LEMMA PagesInductive == PagesIInv /\ [PagesNext]_pagesVars => PagesIInv'
<1> SUFFICES ASSUME PagesIInv, [PagesNext]_pagesVars PROVE PagesIInv'
  OBVIOUS
<1> USE DEF PagesIInv
<1>1. UNCHANGED <<order, bytes, recent>> => CacheInv'
  BY DEF CacheInv, Distinct
<1>2. ASSUME NEW r \in Readers, NEW q \in Queries, NEW n \in Limits, StartBrowsing(r, q, n)
      PROVE  PagesIInv'
  BY <1>1, <1>2, ReaderSteps DEF StartBrowsing
<1>3. ASSUME NEW r \in Readers, CacheHit(r) PROVE PagesIInv'
  <2>1. CacheInv'
    BY <1>3, HitKeeps DEF CacheHit
  <2>2. ReaderInv'
    BY <1>3, HitShows, ShownKeeps DEF CacheHit
  <2> QED BY <2>1, <2>2
<1>4. ASSUME NEW r \in Readers, CacheMiss(r) PROVE PagesIInv'
  BY <1>1, <1>4, ReaderSteps DEF CacheMiss
<1>5. ASSUME NEW r \in Readers, QueryAnswers(r) PROVE PagesIInv'
  <2>1. Request(r) \in PageKeys
    BY <1>5, RequestIsKey DEF QueryAnswers
  <2>2. PageOf(Request(r)) \in AnyPage /\ PageOf(Request(r)).key = Request(r)
    BY <2>1, PageIs DEF AnyPage
  <2>3. CacheInv'
    BY <1>5, <2>2, PutKeeps DEF QueryAnswers
  <2>4. ReaderInv'
    BY <1>5, ShownKeeps DEF QueryAnswers
  <2> QED BY <2>3, <2>4
<1>6. ASSUME NEW r \in Readers, StopBrowsing(r) PROVE PagesIInv'
  BY <1>1, <1>6, ReaderSteps DEF StopBrowsing
<1>7. CASE UNCHANGED pagesVars
  BY <1>1, <1>7 DEF pagesVars, ReaderInv, ReaderTypeOK, Follows
<1> QED BY <1>2, <1>3, <1>4, <1>5, <1>6, <1>7 DEF PagesNext

\* The cache and what every reader has seen, for any number of readers, any
\* queries and any limits.
THEOREM PagesInvariant == PagesSpec => []PagesIInv
BY PagesInitially, PagesInductive, PTL DEF PagesSpec

\* The page cache of search_cache.go keeps both limits and one page per key, and
\* its running byte count is the sum of the sizes of its pages.
THEOREM CacheCorrect == PagesSpec => []CacheBounded
<1>1. ASSUME PagesIInv PROVE CacheBounded
  <2>1. /\ order \in Seq(AnyPage) /\ Distinct(order) /\ Len(order) <= MaxEntries
        /\ SizesOf(order) = bytes /\ bytes <= MaxBytes
    BY <1>1 DEF PagesIInv, CacheInv
  <2>2. DOMAIN order = 1..Len(order)
    BY <2>1
  <2>3. IsInjective([i \in DOMAIN order |-> order[i].key])
    BY <2>1, <2>2 DEF IsInjective, Distinct
  <2> QED BY <2>1, <2>3 DEF CacheBounded
<1> QED BY <1>1, PagesInvariant, PTL

\* Following nextOffset of handleSearch to the end shows every match once,
\* whether pages come from the cache or from the catalog.
THEOREM BrowsingCorrect == PagesSpec => []BrowsingIsComplete
<1>1. ASSUME PagesIInv PROVE BrowsingIsComplete
  BY <1>1 DEF PagesIInv, ReaderInv, Follows, BrowsingIsComplete
<1> QED BY <1>1, PagesInvariant, PTL

\* Of the first n entries without one of another key: they are the first of all
\* entries without it, up to the place of the n-th.
LEMMA FirstOthers ==
  ASSUME NEW s \in Seq(AnyPage), Distinct(s), NEW key, NEW n \in 1..Len(s), s[n].key # key
  PROVE  LET o == Others(s, key)
             newer == Others(SubSeq(s, 1, n), key)
         IN  \E m \in 1..Len(o) : /\ o[m] = s[n] /\ Len(newer) = m
                                  /\ SizesOf(newer) = SizesUpTo(o)[m]
<1> DEFINE t == SubSeq(s, 1, n)
           o == Others(s, key)
           newer == Others(t, key)
<1>1. /\ Len(s) \in Nat /\ n \in Nat /\ t \in Seq(AnyPage) /\ Len(t) = n
      /\ \A i \in 1..n : t[i] = s[i] /\ i \in 1..Len(s)
  OBVIOUS
<1> HIDE DEF t
<1>2. Distinct(t)
  BY <1>1 DEF Distinct
<1>3. PICK pos \in 1..(Len(s) + 1) : Sits(s, key, pos)
  BY OthersAre
<1>4. PICK place \in 1..(Len(t) + 1) : Sits(t, key, place)
  BY <1>1, <1>2, OthersAre
<1>5. n # pos
  BY <1>3 DEF Sits
<1>6. pos < n => place = pos
  <2> SUFFICES ASSUME pos < n PROVE place = pos
    OBVIOUS
  <2>1. pos \in 1..Len(t) /\ t[pos].key = key
    BY <1>1, <1>3 DEF Sits
  <2> QED BY <1>4, <2>1 DEF Sits
<1>7. ~(pos < n) => place = n + 1
  <2> SUFFICES ASSUME ~(pos < n), place # n + 1 PROVE FALSE
    OBVIOUS
  <2>1. place \in 1..n /\ t[place].key = key
    BY <1>1, <1>4 DEF Sits
  <2>2. s[place].key = key /\ place \in 1..Len(s) /\ place # pos
    BY <1>1, <1>5, <2>1
  <2> QED BY <1>3, <2>2 DEF Sits
<1> DEFINE m == IF n < pos THEN n ELSE n - 1
<1>8. m \in 1..Len(o) /\ o[m] = s[n]
  BY <1>3, <1>5, OthersKeep
<1>9. /\ o \in Seq(AnyPage) /\ Len(o) = (IF pos <= Len(s) THEN Len(s) - 1 ELSE Len(s))
      /\ \A j \in 1..Len(o) : o[j] = IF j < pos THEN s[j] ELSE s[j + 1]
  BY <1>3 DEF Sits
<1>10. /\ newer \in Seq(AnyPage) /\ Len(newer) = (IF place <= Len(t) THEN Len(t) - 1 ELSE Len(t))
       /\ \A j \in 1..Len(newer) : newer[j] = IF j < place THEN t[j] ELSE t[j + 1]
  BY <1>4 DEF Sits
<1> HIDE DEF o, newer
<1>11. Len(newer) = m /\ Len(o) \in Nat
  BY <1>1, <1>5, <1>6, <1>7, <1>9, <1>10
<1>12. \A j \in 1..m : o[0 + j] = newer[j]
  <2> SUFFICES ASSUME NEW j \in 1..m PROVE o[j] = newer[j]
    BY <1>1
  <2>1. j \in 1..Len(o) /\ j \in 1..Len(newer)
    BY <1>1, <1>8, <1>11
  <2>2. CASE pos < n
    <3>1. j + 1 \in 1..n /\ j \in 1..n
      BY <1>1, <2>2
    <3> QED BY <1>1, <1>6, <1>9, <1>10, <2>1, <2>2, <3>1
  <2>3. CASE ~(pos < n)
    <3>1. j < pos /\ j < place /\ j \in 1..n
      BY <1>1, <1>3, <1>5, <1>7, <2>3
    <3> QED BY <1>1, <1>9, <1>10, <2>1, <3>1
  <2> QED BY <2>2, <2>3
<1> HIDE DEF m
<1>13. SizesUpTo(o)[0 + m] = SizesUpTo(o)[0] + SizesUpTo(newer)[m]
  <2>1. 0 \in Nat /\ m \in Nat /\ 0 + m <= Len(o) /\ m <= Len(newer)
    BY <1>8, <1>11
  <2> QED BY <1>9, <1>10, <1>12, <2>1, SegmentSum, Zenon
<1>14. SizesUpTo(o)[0] = 0 /\ SizesUpTo(newer)[m] \in Nat
  <2>1. SizesUpTo(newer) \in [0..Len(newer) -> Nat] /\ m \in 0..Len(newer)
    BY <1>8, <1>10, <1>11, SumsAre
  <2> QED BY <1>9, <2>1, SumsAre
<1>15. 0 + m = m
  BY <1>8, <1>11
<1>16. SizesOf(newer) = SizesUpTo(o)[m]
  BY <1>11, <1>13, <1>14, <1>15 DEF SizesOf
<1> QED BY <1>8, <1>11, <1>16 DEF o, newer, t

\* Which pages a put evicts.
LEMMA PutEvicts ==
  ASSUME CacheInv, NEW page \in AnyPage, Put(page), SizeOf(page) <= MaxBytes,
         NEW n \in 1..Len(order), order[n].key \notin KeysOf(order')
  PROVE  LET newer == Others(SubSeq(order, 1, n), page.key)
         IN  /\ \A stays \in (KeysOf(order') \cap KeysOf(order)) \ {page.key} :
                  <<order[n].key, stays>> \in recent
             /\ Len(newer) = MaxEntries \/ SizesOf(newer) + SizeOf(page) > MaxBytes
<1> DEFINE o == Others(order, page.key)
           newer == Others(SubSeq(order, 1, n), page.key)
<1>1. /\ o \in Seq(AnyPage) /\ Len(o) \in Nat /\ Len(o) <= Len(order)
      /\ \A i, j \in 1..Len(o) : i < j => <<o[j].key, o[i].key>> \in recent
  BY OthersOrdered
<1>2. PICK kept \in 0..Len(o) :
        /\ order' = <<page>> \o SubSeq(o, 1, kept)
        /\ \A k \in 0..Len(o) :
             k > kept => k >= MaxEntries \/ SizesUpTo(o)[k] + SizeOf(page) > MaxBytes
  BY PutIs
<1>3. order \in Seq(AnyPage) /\ Distinct(order) /\ Len(order) \in Nat /\ Len(order) <= MaxEntries
  BY DEF CacheInv
<1> HIDE DEF o
<1>4. /\ Len(order') = 1 + kept /\ order'[1] = page /\ DOMAIN order' = 1..(1 + kept)
      /\ \A i \in 1..kept : order'[i + 1] = o[i]
  <2> DEFINE rest == SubSeq(o, 1, kept)
  <2>1. rest \in Seq(AnyPage) /\ Len(rest) = kept /\ \A i \in 1..kept : rest[i] = o[i]
    BY <1>1
  <2>2. order' = <<page>> \o rest
    BY <1>2
  <2> HIDE DEF rest
  <2> QED BY <2>1, <2>2
<1>5. \A i \in 1..(1 + kept) : order'[i].key \in KeysOf(order')
  BY <1>4 DEF KeysOf
<1>6. order[n].key # page.key
  BY <1>1, <1>4, <1>5
<1>7. PICK m \in 1..Len(o) : /\ o[m] = order[n] /\ Len(newer) = m
                             /\ SizesOf(newer) = SizesUpTo(o)[m]
  BY <1>3, <1>6, FirstOthers DEF o
<1> HIDE DEF newer
<1>8. m > kept
  <2> SUFFICES ASSUME m <= kept PROVE FALSE
    BY <1>1, <1>2
  <2>1. m \in 1..kept /\ m + 1 \in 1..(1 + kept) /\ order'[m + 1] = o[m]
    BY <1>1, <1>4
  <2> QED BY <1>5, <1>7, <2>1
<1>9. ASSUME NEW stays \in (KeysOf(order') \cap KeysOf(order)) \ {page.key}
      PROVE  <<order[n].key, stays>> \in recent
  <2>1. PICK i \in 1..(1 + kept) : order'[i].key = stays
    BY <1>4 DEF KeysOf
  <2>2. i - 1 \in 1..kept /\ (i - 1) + 1 = i
    BY <1>1, <1>4, <2>1
  <2>3. order'[i] = o[i - 1]
    BY <1>4, <2>2
  <2>4. i - 1 \in 1..Len(o) /\ i - 1 < m
    BY <1>1, <1>8, <2>2
  <2> QED BY <1>1, <1>7, <2>1, <2>3, <2>4
<1>10. Len(newer) = MaxEntries \/ SizesOf(newer) + SizeOf(page) > MaxBytes
  <2>1. m \in 0..Len(o) /\ m <= MaxEntries
    BY <1>1, <1>3, <1>7, PagesAssumption
  <2>2. m >= MaxEntries \/ SizesUpTo(o)[m] + SizeOf(page) > MaxBytes
    BY <1>2, <1>8, <2>1
  <2>3. m >= MaxEntries => m = MaxEntries
    BY <2>1, PagesAssumption
  <2> QED BY <1>7, <2>2, <2>3
<1> QED BY <1>9, <1>10 DEF newer

\* put of search_cache.go evicts the pages used longest ago, and no more of them
\* than the limits demand.
THEOREM EvictionCorrect == PagesSpec => EvictsOldestOnly
<1>1. ASSUME PagesIInv, [PagesNext]_pagesVars, NEW n \in 1..Len(order),
             order[n].key \notin KeysOf(order')
      PROVE  LET new == Head(order')
                 newer == Others(SubSeq(order, 1, n), new.key)
             IN  /\ \A stays \in (KeysOf(order') \cap KeysOf(order)) \ {new.key} :
                      <<order[n].key, stays>> \in recent
                 /\ Len(newer) = MaxEntries \/ SizesOf(newer) + SizeOf(new) > MaxBytes
  <2>1. order[n].key \in KeysOf(order)
    BY <1>1 DEF PagesIInv, CacheInv, KeysOf
  <2>2. order' # order
    BY <1>1, <2>1
  <2>3. ASSUME NEW r \in Readers, CacheHit(r) PROVE FALSE
    BY <1>1, <2>1, <2>3, HitKeeps DEF CacheHit, PagesIInv
  <2>4. PICK r \in Readers : QueryAnswers(r)
    BY <1>1, <2>2, <2>3 DEF PagesNext, pagesVars, StartBrowsing, CacheMiss, StopBrowsing
  <2> DEFINE page == PageOf(Request(r))
  <2>5. page \in AnyPage /\ Put(page)
    <3>1. Request(r) \in PageKeys
      BY <1>1, <2>4, RequestIsKey DEF QueryAnswers, PagesIInv
    <3> QED BY <2>4, <3>1 DEF QueryAnswers, AnyPage
  <2> HIDE DEF page
  <2>6. SizeOf(page) <= MaxBytes
    <3>1. ~(SizeOf(page) > MaxBytes)
      BY <2>2, <2>5 DEF Put
    <3> QED BY <2>5, <3>1, AnyPageIs, PagesAssumption
  <2>7. Head(order') = page
    <3>1. \E kept : order' = <<page>> \o SubSeq(Others(order, page.key), 1, kept)
                    /\ kept \in 0..Len(Others(order, page.key))
      BY <1>1, <2>5, <2>6, PutIs DEF PagesIInv
    <3>2. Others(order, page.key) \in Seq(AnyPage)
      BY <1>1, OthersOrdered DEF PagesIInv
    <3> QED BY <3>1, <3>2
  <2>8. LET newer == Others(SubSeq(order, 1, n), page.key)
        IN  /\ \A stays \in (KeysOf(order') \cap KeysOf(order)) \ {page.key} :
                 <<order[n].key, stays>> \in recent
            /\ Len(newer) = MaxEntries \/ SizesOf(newer) + SizeOf(page) > MaxBytes
    BY <1>1, <2>5, <2>6, PutEvicts DEF PagesIInv
  <2> QED BY <2>7, <2>8
<1>2. PagesIInv /\ [PagesNext]_pagesVars =>
        [\A n \in 1..Len(order) :
           order[n].key \notin KeysOf(order') =>
             LET new == Head(order')
                 newer == Others(SubSeq(order, 1, n), new.key)
             IN  /\ \A stays \in (KeysOf(order') \cap KeysOf(order)) \ {new.key} :
                      <<order[n].key, stays>> \in recent
                 /\ Len(newer) = MaxEntries \/ SizesOf(newer) + SizeOf(new) > MaxBytes]_pagesVars
  BY <1>1
<1> QED BY <1>2, PagesInvariant, PTL DEF PagesSpec, EvictsOldestOnly

-----------------------------------------------------------------------------
(* DownloadProgress.                                                       *)

Readings == [told : Seq(Nat \ {0}), line : Seq(Nat)]
Unread == [told |-> <<>>, line |-> <<>>]

\* A line tells one progress or none.
LEMMA ProgressIs == \A line \in Seq(Nat) : ProgressOf(line) \in Seq(Nat \ {0})
<1> SUFFICES ASSUME NEW line \in Seq(Nat) PROVE ProgressOf(line) \in Seq(Nat \ {0})
  OBVIOUS
<1>1. CASE Len(line) = 2 /\ line[1] = line[2] /\ line[1] > 0
  <2>1. line[1] \in Nat
    <3>1. 1 \in 1..Len(line)
      BY <1>1
    <3> QED BY <3>1
  <2>2. line[1] > 0
    BY <1>1
  <2>3. line[1] \in Nat \ {0}
    BY <2>1, <2>2
  <2> QED BY <1>1, <2>3 DEF ProgressOf
<1>2. CASE ~(Len(line) = 2 /\ line[1] = line[2] /\ line[1] > 0)
  BY <1>2 DEF ProgressOf
<1> QED BY <1>1, <1>2

\* One more character.
LEMMA ReadIs ==
  ASSUME NEW before \in Readings, NEW char \in Nat
  PROVE  /\ Read(before, char) \in Readings
         /\ char = End => /\ Read(before, char).told = before.told \o ProgressOf(before.line)
                          /\ Read(before, char).line = <<>>
         /\ char # End => /\ Read(before, char).told = before.told
                          /\ Read(before, char).line = Append(before.line, char)
<1>1. before.told \in Seq(Nat \ {0}) /\ before.line \in Seq(Nat)
  BY DEF Readings
<1>2. ProgressOf(before.line) \in Seq(Nat \ {0})
  BY <1>1, ProgressIs
<1>3. before.told \o ProgressOf(before.line) \in Seq(Nat \ {0}) /\ <<>> \in Seq(Nat)
  BY <1>1, <1>2, ConcatProperties
<1>4. Append(before.line, char) \in Seq(Nat)
  BY <1>1
<1>5. CASE char = End
  <2>1. Read(before, char) = [told |-> before.told \o ProgressOf(before.line), line |-> <<>>]
    BY <1>5 DEF Read
  <2> QED BY <1>3, <1>5, <2>1 DEF Readings
<1>6. CASE char # End
  <2>1. Read(before, char) = [told |-> before.told, line |-> Append(before.line, char)]
    BY <1>6 DEF Read
  <2> QED BY <1>1, <1>4, <1>6, <2>1 DEF Readings
<1> QED BY <1>5, <1>6

\* What the first characters tell, one by one.
LEMMA ReadingIs ==
  ASSUME NEW s \in Seq(Nat)
  PROVE  /\ Reading(s) \in [0..Len(s) -> Readings]
         /\ Reading(s)[0] = Unread
         /\ \A n \in 1..Len(s) : Reading(s)[n] = Read(Reading(s)[n - 1], s[n])
<1> DEFINE g == [n \in 1..Len(s) |-> [r \in Readings |-> Read(r, s[n])]]
           Reads(f) == f = [n \in 0..Len(s) |-> IF n = 0 THEN Unread ELSE Read(f[n - 1], s[n])]
           read == CHOOSE f : Reads(f)
<1>1. Len(s) \in Nat /\ \A n \in 1..Len(s) : s[n] \in Nat
  OBVIOUS
<1>2. Unread \in Readings
  BY DEF Unread, Readings
<1>3. /\ g \in [1..Len(s) -> [Readings -> Readings]]
      /\ \A n \in 1..Len(s), r \in Readings : g[n][r] = Read(r, s[n])
  <2>1. \A n \in 1..Len(s), r \in Readings : Read(r, s[n]) \in Readings
    BY <1>1, ReadIs
  <2> QED BY <2>1
<1> HIDE DEF g
<1>4. PICK f \in [0..Len(s) -> Readings] :
             f[0] = Unread /\ \A n \in 1..Len(s) : f[n] = g[n][f[n - 1]]
  <2>1. Len(s) \in Nat /\ g \in [1..Len(s) -> [Readings -> Readings]]
    BY <1>1, <1>3
  <2> HIDE DEF Reads, read
  <2>2. Computed(Readings, Unread, Len(s), g)
    BY <1>2, <2>1, FoldExists, Zenon
  <2> QED BY <2>2 DEF Computed
<1>5. \A n \in 1..Len(s) : n \in 0..Len(s) /\ n - 1 \in 0..Len(s) /\ n # 0
  BY <1>1
<1>6. \A n \in 1..Len(s) : f[n] = Read(f[n - 1], s[n])
  BY <1>3, <1>4, <1>5
<1>7. \A n \in 0..Len(s) : n = 0 \/ n \in 1..Len(s)
  BY <1>1
<1>8. Reads(f)
  BY <1>4, <1>6, <1>7
<1>9. Reads(read)
  BY <1>8
<1>10. Reading(s) = read
  BY DEF Reading, Unread
<1> HIDE DEF read
<1>11. \A n \in 0..Len(s) : read[n] = IF n = 0 THEN Unread ELSE Read(read[n - 1], s[n])
  BY <1>9
<1>12. DOMAIN read = 0..Len(s) /\ read = [n \in 0..Len(s) |-> read[n]]
  BY <1>9
<1> HIDE DEF Reads
<1>13. 0 \in 0..Len(s)
  BY <1>1
<1>14. read[0] = Unread /\ \A n \in 1..Len(s) : read[n] = Read(read[n - 1], s[n])
  BY <1>5, <1>11, <1>13
<1>15. \A n \in 0..Len(s) : read[n] = f[n]
  <2> DEFINE P == {n \in Nat : n <= Len(s) => read[n] = f[n]}
  <2>1. P \subseteq Nat /\ 0 \in P
    BY <1>4, <1>14
  <2>2. ASSUME NEW n \in P PROVE n + 1 \in P
    <3> SUFFICES ASSUME n + 1 <= Len(s) PROVE read[n + 1] = f[n + 1]
      BY <2>2
    <3>1. n + 1 \in 1..Len(s) /\ (n + 1) - 1 = n /\ n <= Len(s)
      BY <1>1, <2>1
    <3>2. read[n] = f[n]
      BY <2>2, <3>1
    <3> HIDE DEF P
    <3> QED BY <1>6, <1>14, <3>1, <3>2
  <2> HIDE DEF P
  <2>3. P = Nat
    BY <2>1, <2>2, Inductive
  <2> QED BY <1>1, <2>3 DEF P
<1>16. \A n \in 0..Len(s) : read[n] \in Readings
  BY <1>15
<1> QED BY <1>10, <1>12, <1>14, <1>16

\* A line that has not ended has no line end in it.
Unended(line) == \A i \in 1..Len(line) : line[i] # End

\* What is left behind the last line end has none.
LEMMA LineIsUnended ==
  ASSUME NEW s \in Seq(Nat), NEW n \in 0..Len(s)
  PROVE  Unended(Reading(s)[n].line)
<1> DEFINE P == {m \in Nat : m <= Len(s) => Unended(Reading(s)[m].line)}
<1>1. /\ Len(s) \in Nat /\ n \in Nat /\ n <= Len(s)
      /\ \A m \in 1..Len(s) : s[m] \in Nat
  OBVIOUS
<1>2. /\ Reading(s) \in [0..Len(s) -> Readings] /\ Reading(s)[0] = Unread
      /\ \A m \in 1..Len(s) : Reading(s)[m] = Read(Reading(s)[m - 1], s[m])
  BY ReadingIs
<1>3. P \subseteq Nat /\ 0 \in P
  BY <1>2 DEF Unread, Unended
<1>4. ASSUME NEW m \in P PROVE m + 1 \in P
  <2> SUFFICES ASSUME m + 1 <= Len(s) PROVE Unended(Reading(s)[m + 1].line)
    BY <1>4
  <2>1. m + 1 \in 1..Len(s) /\ m \in 0..Len(s) /\ (m + 1) - 1 = m /\ m <= Len(s)
    BY <1>1, <1>3
  <2>2. Unended(Reading(s)[m].line)
    BY <2>1
  <2> HIDE DEF P
  <2>3. Reading(s)[m + 1] = Read(Reading(s)[m], s[m + 1]) /\ Reading(s)[m] \in Readings
    BY <1>2, <2>1
  <2> DEFINE before == Reading(s)[m]
             char == s[m + 1]
  <2>4. before \in Readings /\ char \in Nat /\ before.line \in Seq(Nat)
    BY <1>1, <2>1, <2>3 DEF Readings
  <2> HIDE DEF before, char
  <2>5. /\ char = End => Read(before, char).line = <<>>
        /\ char # End => Read(before, char).line = Append(before.line, char)
    BY <2>4, ReadIs
  <2>6. Unended(before.line)
    BY <2>2 DEF before
  <2>7. Unended(Read(before, char).line)
    <3>1. CASE char = End
      BY <2>5, <3>1 DEF Unended
    <3>2. CASE char # End
      <4> DEFINE line == before.line
                 longer == Append(line, char)
      <4>1. /\ line \in Seq(Nat) /\ Len(line) \in Nat /\ Len(longer) = Len(line) + 1
            /\ \A i \in 1..Len(line) : longer[i] = line[i]
            /\ longer[Len(line) + 1] = char
        BY <2>4
      <4> HIDE DEF longer, line
      <4>2. Unended(longer)
        <5>1. \A i \in 1..Len(line) : line[i] # End
          BY <2>6 DEF Unended, line
        <5>2. \A i \in 1..(Len(line) + 1) : i \in 1..Len(line) \/ i = Len(line) + 1
          BY <4>1
        <5> QED BY <3>2, <4>1, <5>1, <5>2 DEF Unended
      <4> QED BY <2>5, <3>2, <4>2 DEF longer, line
    <3> QED BY <3>1, <3>2
  <2> QED BY <2>3, <2>7 DEF before, char
<1> HIDE DEF P
<1>5. P = Nat
  BY <1>3, <1>4, Inductive
<1>6. n \in P
  BY <1>1, <1>5
<1> QED BY <1>1, <1>6 DEF P

\* As long as no line has ended, the line is what was read.
LEMMA UnendedIsKept ==
  ASSUME NEW p \in Seq(Nat), Unended(p), NEW t \in Seq(Nat), Len(p) <= Len(t),
         \A i \in 1..Len(p) : t[i] = p[i]
  PROVE  Reading(t)[Len(p)].told = <<>> /\ Reading(t)[Len(p)].line = p
<1> DEFINE Same(m) == /\ Reading(t)[m].told = <<>> /\ Len(Reading(t)[m].line) = m
                      /\ \A i \in 1..m : Reading(t)[m].line[i] = p[i]
           P == {m \in Nat : m <= Len(p) => Same(m)}
<1>1. /\ Len(p) \in Nat /\ Len(t) \in Nat /\ \A m \in 1..Len(t) : t[m] \in Nat
  OBVIOUS
<1>2. /\ Reading(t) \in [0..Len(t) -> Readings] /\ Reading(t)[0] = Unread
      /\ \A m \in 1..Len(t) : Reading(t)[m] = Read(Reading(t)[m - 1], t[m])
  BY ReadingIs
<1>3. Same(0)
  BY <1>2 DEF Unread
<1>4. ASSUME NEW m \in Nat, m + 1 <= Len(p), Same(m) PROVE Same(m + 1)
  <2>1. m + 1 \in 1..Len(t) /\ m + 1 \in 1..Len(p) /\ m \in 0..Len(t) /\ (m + 1) - 1 = m
    BY <1>1, <1>4
  <2> DEFINE before == Reading(t)[m]
             char == t[m + 1]
  <2>2. Reading(t)[m + 1] = Read(before, char) /\ before \in Readings /\ char \in Nat
    BY <1>1, <1>2, <2>1
  <2>3. char = p[m + 1] /\ char # End
    BY <2>1 DEF Unended
  <2>4. before.told = <<>> /\ Len(before.line) = m /\ \A i \in 1..m : before.line[i] = p[i]
    BY <1>4
  <2> HIDE DEF before, char
  <2>5. Read(before, char).told = before.told /\ Read(before, char).line = Append(before.line, char)
    BY <2>2, <2>3, ReadIs
  <2> DEFINE line == before.line
             longer == Append(line, char)
  <2>6. line \in Seq(Nat)
    BY <2>2 DEF Readings
  <2>7. /\ Len(longer) = Len(line) + 1 /\ \A i \in 1..Len(line) : longer[i] = line[i]
        /\ longer[Len(line) + 1] = char
    <3> HIDE DEF line
    <3> QED BY <2>2, <2>6
  <2>8. Len(line) = m /\ \A i \in 1..m : line[i] = p[i]
    BY <2>4
  <2> HIDE DEF longer, line
  <2>9. Len(longer) = m + 1 /\ \A i \in 1..(m + 1) : longer[i] = p[i]
    BY <2>3, <2>7, <2>8
  <2>10. Reading(t)[m + 1].told = <<>> /\ Reading(t)[m + 1].line = longer
    BY <2>2, <2>4, <2>5 DEF longer, line
  <2> QED BY <2>9, <2>10
<1> HIDE DEF Same
<1>5. P = Nat
  <2>1. P \subseteq Nat /\ 0 \in P
    BY <1>3
  <2>2. ASSUME NEW m \in P PROVE m + 1 \in P
    <3>1. m \in Nat /\ (m + 1 <= Len(p) => m <= Len(p))
      BY <1>1, <2>1
    <3> QED BY <1>4, <2>2, <3>1
  <2> HIDE DEF P
  <2> QED BY <2>1, <2>2, Inductive
<1>6. Len(p) \in P /\ Len(p) <= Len(p)
  BY <1>1, <1>5
<1>7. Same(Len(p))
  BY <1>6
<1> DEFINE line == Reading(t)[Len(p)].line
<1>8. line \in Seq(Nat)
  <2>1. Len(p) \in 0..Len(t)
    BY <1>1
  <2> QED BY <1>2, <2>1 DEF Readings
<1>9. Len(line) = Len(p) /\ \A i \in 1..Len(p) : line[i] = p[i]
  BY <1>7 DEF Same
<1> HIDE DEF line
<1>10. line = p
  BY <1>8, <1>9, SeqEqual, Zenon
<1> QED BY <1>7, <1>10 DEF Same, line

\* Three sequences of progress.
LEMMA Associative ==
  ASSUME NEW p \in Seq(Nat \ {0}), NEW c \in Seq(Nat \ {0}), NEW d \in Seq(Nat \ {0})
  PROVE  (p \o c) \o d = p \o (c \o d)
BY ConcatAssociative

\* The elements of a concatenation.
LEMMA Joined ==
  ASSUME NEW p \in Seq(Nat), NEW c \in Seq(Nat)
  PROVE  /\ p \o c \in Seq(Nat) /\ Len(p) \in Nat /\ Len(p \o c) = Len(p) + Len(c)
         /\ \A i \in 1..Len(p) : (p \o c)[i] = p[i]
         /\ \A j \in 1..Len(c) : (p \o c)[Len(p) + j] = c[j]
<1>1. /\ p \o c \in Seq(Nat) /\ Len(p) \in Nat /\ Len(c) \in Nat /\ Len(p \o c) = Len(p) + Len(c)
  BY ConcatProperties
<1>2. \A i \in 1..(Len(p) + Len(c)) : (p \o c)[i] = IF i <= Len(p) THEN p[i] ELSE c[i - Len(p)]
  BY ConcatProperties
<1>3. \A i \in 1..Len(p) : i \in 1..(Len(p) + Len(c)) /\ i <= Len(p)
  BY <1>1
<1>4. \A j \in 1..Len(c) : /\ Len(p) + j \in 1..(Len(p) + Len(c)) /\ ~(Len(p) + j <= Len(p))
                           /\ (Len(p) + j) - Len(p) = j
  BY <1>1
<1> QED BY <1>1, <1>2, <1>3, <1>4

\* Reading a text in two goes, the second one from the line that had not ended,
\* tells what reading it in one does.
LEMMA Chunks ==
  ASSUME NEW s \in Seq(Nat), NEW w \in Nat, NEW n \in Nat, w + n <= Len(s)
  PROVE  LET t == Reading(s)[w].line \o SubSeq(s, w + 1, w + n)
         IN  /\ t \in Seq(Nat)
             /\ Reading(s)[w + n].told = Reading(s)[w].told \o Reading(t)[Len(t)].told
             /\ Reading(s)[w + n].line = Reading(t)[Len(t)].line
<1> DEFINE p == Reading(s)[w].line
           chunk == SubSeq(s, w + 1, w + n)
           t == p \o chunk
           a == Len(p)
<1>1. /\ Len(s) \in Nat /\ w \in 0..Len(s) /\ \A m \in 1..Len(s) : s[m] \in Nat
  OBVIOUS
<1>2. /\ Reading(s) \in [0..Len(s) -> Readings]
      /\ \A m \in 1..Len(s) : Reading(s)[m] = Read(Reading(s)[m - 1], s[m])
  BY ReadingIs
<1>3. p \in Seq(Nat) /\ Reading(s)[w].told \in Seq(Nat \ {0})
  BY <1>1, <1>2 DEF Readings
<1>4. Unended(p)
  BY <1>1, LineIsUnended
<1>5. /\ chunk \in Seq(Nat) /\ Len(chunk) = n
      /\ \A i \in 1..n : chunk[i] = s[w + i]
  <2>1. \A i \in (w + 1)..(w + n) : s[i] \in Nat
    BY <1>1
  <2>2. chunk \in Seq(Nat)
    BY <2>1, SubSeqProperties
  <2>3. Len(chunk) = n
    BY <1>1
  <2>4. \A i \in 1..n : chunk[i] = s[w + i]
    BY <1>1
  <2> QED BY <2>2, <2>3, <2>4
<1> HIDE DEF p, chunk, t, a
<1>7. /\ t \in Seq(Nat) /\ a \in Nat /\ Len(t) = a + n
      /\ \A i \in 1..a : t[i] = p[i]
      /\ \A j \in 1..n : t[a + j] = chunk[j]
  <2>1. /\ t \in Seq(Nat) /\ a \in Nat /\ Len(t) = a + Len(chunk)
        /\ \A i \in 1..a : t[i] = p[i]
        /\ \A j \in 1..Len(chunk) : t[a + j] = chunk[j]
    BY <1>3, <1>5, Joined DEF t, a
  <2> QED BY <1>5, <2>1
<1>8. /\ Reading(t) \in [0..Len(t) -> Readings]
      /\ \A m \in 1..Len(t) : Reading(t)[m] = Read(Reading(t)[m - 1], t[m])
  BY <1>7, ReadingIs
<1>9. Reading(t)[a].told = <<>> /\ Reading(t)[a].line = p
  <2>1. a <= Len(t)
    BY <1>7
  <2>2. \A i \in 1..Len(p) : t[i] = p[i]
    BY <1>7 DEF a
  <2> QED BY <1>3, <1>4, <1>7, <2>1, <2>2, UnendedIsKept DEF a
<1> DEFINE Same(m) == /\ Reading(s)[w + m].told = Reading(s)[w].told \o Reading(t)[a + m].told
                      /\ Reading(s)[w + m].line = Reading(t)[a + m].line
           P == {m \in Nat : m <= n => Same(m)}
<1>10. Same(0)
  <2>1. w + 0 = w /\ a + 0 = a
    BY <1>7
  <2>2. Reading(s)[w].told \o <<>> = Reading(s)[w].told
    BY <1>3, ConcatEmptySeq
  <2> QED BY <1>9, <2>1, <2>2 DEF p
<1>11. ASSUME NEW m \in Nat, m + 1 <= n, Same(m) PROVE Same(m + 1)
  <2>1. /\ w + (m + 1) \in 1..Len(s) /\ a + (m + 1) \in 1..Len(t) /\ m + 1 \in 1..n
        /\ (w + (m + 1)) - 1 = w + m /\ (a + (m + 1)) - 1 = a + m
        /\ w + m \in 0..Len(s) /\ a + m \in 0..Len(t)
    <3>1. a \in Nat /\ Len(t) = a + n /\ Len(s) \in Nat
      BY <1>1, <1>7
    <3> QED BY <1>11, <3>1
  <2>2. t[a + (m + 1)] = s[w + (m + 1)] /\ s[w + (m + 1)] \in Nat
    <3>1. t[a + (m + 1)] = chunk[m + 1]
      BY <1>7, <2>1
    <3>2. chunk[m + 1] = s[w + (m + 1)]
      BY <1>5, <2>1
    <3>3. s[w + (m + 1)] \in Nat
      BY <1>1, <2>1
    <3> QED BY <3>1, <3>2, <3>3
  <2> DEFINE char == s[w + (m + 1)]
             whole == Reading(s)[w + m]
             part == Reading(t)[a + m]
             first == Reading(s)[w].told
  <2>3. /\ Reading(s)[w + (m + 1)] = Read(whole, char) /\ Reading(t)[a + (m + 1)] = Read(part, char)
        /\ whole \in Readings /\ part \in Readings /\ char \in Nat
    BY <1>2, <1>8, <2>1, <2>2
  <2>4. whole.told = first \o part.told /\ whole.line = part.line
    BY <1>11
  <2>5. first \in Seq(Nat \ {0})
    BY <1>3
  <2> HIDE DEF char, whole, part, first
  <2>6. part.told \in Seq(Nat \ {0}) /\ part.line \in Seq(Nat)
    BY <2>3 DEF Readings
  <2>7. /\ Read(whole, char).told = first \o Read(part, char).told
        /\ Read(whole, char).line = Read(part, char).line
    <3>1. CASE char = End
      <4>1. /\ Read(whole, char).told = whole.told \o ProgressOf(whole.line)
            /\ Read(whole, char).line = <<>>
            /\ Read(part, char).told = part.told \o ProgressOf(part.line)
            /\ Read(part, char).line = <<>>
        BY <2>3, <3>1, ReadIs
      <4> DEFINE last == ProgressOf(part.line)
      <4>2. last \in Seq(Nat \ {0})
        BY <2>6, ProgressIs
      <4> HIDE DEF last
      <4>3. (first \o part.told) \o last = first \o (part.told \o last)
        BY <2>5, <2>6, <4>2, Associative, Zenon
      <4> QED BY <2>4, <4>1, <4>3 DEF last
    <3>2. CASE char # End
      <4>1. /\ Read(whole, char).told = whole.told
            /\ Read(whole, char).line = Append(whole.line, char)
            /\ Read(part, char).told = part.told
            /\ Read(part, char).line = Append(part.line, char)
        BY <2>3, <3>2, ReadIs
      <4> QED BY <2>4, <4>1
    <3> QED BY <3>1, <3>2
  <2> QED BY <2>3, <2>7 DEF first
<1> HIDE DEF Same
<1>12. P = Nat
  <2>1. P \subseteq Nat /\ 0 \in P
    BY <1>10
  <2>2. ASSUME NEW m \in P PROVE m + 1 \in P
    <3>1. m \in Nat /\ (m + 1 <= n => m <= n)
      BY <2>1
    <3> QED BY <1>11, <2>2, <3>1
  <2> HIDE DEF P
  <2> QED BY <2>1, <2>2, Inductive
<1>13. n \in P /\ n <= n
  BY <1>12
<1>14. Same(n)
  BY <1>13
<1> QED BY <1>7, <1>14 DEF Same, p, chunk, t

-----------------------------------------------------------------------------
\* What is told and still to be recorded.
Waiting == IF wpc = "storing" THEN Tail(updates) ELSE updates

Statuses == {"none", "starting", "started", "not_started", "completed", "failed"}
Progresses == [status : Statuses, progress : Nat]

ProgressTypeOK ==
  /\ written \in 0..Len(Text)
  /\ exit \in {"none", "running", "ok", "failed"}
  /\ pending \in Seq(Nat)
  /\ updates \in Seq(Nat \ {0})
  /\ memory \in Progresses
  /\ row \in Progresses
  /\ wpc \in {"idle", "emitting", "storing"}
  /\ hpc \in {"starting", "saving", "exec", "copying", "copied", "storing", "ended"}
  /\ apc \in {"none", "waiting", "flushed", "copied", "storing", "ended"}
  /\ copy \in Progresses
  /\ told \in Seq(Nat \ {0})
  /\ raced \in BOOLEAN

\* The handler, the process and the watcher come one after the other, and
\* the writer works only while there is a process or its flush.
Phases ==
  /\ exit = "none" => wpc = "idle" /\ written = 0 /\ pending = <<>> /\ told = <<>>
  /\ exit = "none" => hpc \in {"starting", "saving", "exec", "storing", "ended"}
  /\ hpc \in {"starting", "saving", "exec"} => exit = "none"
  /\ hpc # "ended" <=> apc = "none"
  /\ apc \in {"waiting", "flushed", "copied", "storing"} => exit # "none"
  /\ apc \in {"flushed", "copied", "storing"} => exit # "running"
  /\ apc = "ended" => exit # "running"
  /\ apc \in {"copied", "storing", "ended"} => wpc = "idle"
  /\ wpc = "idle" <=> updates = <<>>
  /\ hpc \in {"copied", "storing"} /\ exit # "none" => copy.status = "started"
  /\ hpc = "storing" /\ exit = "none" => copy.status = "not_started"

\* The output was read as if in one piece.
ReadSoFar ==
  /\ apc \in {"none", "waiting"} =>
       pending = Reading(Text)[written].line /\ told \o Waiting = Expected(FALSE)
  /\ apc \notin {"none", "waiting"} => told \o Waiting = Expected(TRUE)

\* What memory and the row show, if the last progress was not recorded too early.
LastTold == IF told = <<>> THEN 0 ELSE told[Len(told)]

ShowsLast ==
  /\ wpc = "storing" => told # <<>> /\ Head(updates) = LastTold
  /\ hpc # "ended" /\ ~raced => told = <<>>
  /\ hpc \in {"saving", "exec", "copying", "copied"} /\ ~raced => memory.progress = 0
  /\ hpc \in {"copied", "storing"} /\ ~raced => copy.progress = 0
  /\ hpc = "storing" => memory.status = copy.status
  /\ hpc = "storing" /\ ~raced => memory = copy
  /\ apc \in {"waiting", "flushed"} => memory.status = "started" /\ row.status = "started"
  /\ apc \in {"waiting", "flushed"} /\ ~raced =>
       /\ memory.progress = LastTold
       /\ wpc # "storing" => row.progress = LastTold

\* The outcome that the watcher records.
Ends ==
  /\ apc \in {"copied", "storing", "ended"} /\ exit # "none" =>
       /\ copy.status = IF exit = "ok" THEN "completed" ELSE "failed"
       /\ told # <<>> /\ ~raced => copy.progress = Full
  /\ apc \in {"storing", "ended"} /\ exit # "none" => memory = copy
  /\ apc = "ended" /\ exit # "none" => row = copy

ProgressIInv == ProgressTypeOK /\ Phases /\ ReadSoFar /\ ShowsLast /\ Ends

-----------------------------------------------------------------------------
Numbers == Nat \ {0}

\* Taking the first element of one sequence to the end of another.
LEMMA Moved ==
  ASSUME NEW s \in Seq(Numbers), NEW u \in Seq(Numbers), u # <<>>
  PROVE  /\ Head(u) \in Numbers /\ Tail(u) \in Seq(Numbers)
         /\ Append(s, Head(u)) \in Seq(Numbers) /\ Append(s, Head(u)) # <<>>
         /\ Append(s, Head(u))[Len(Append(s, Head(u)))] = Head(u)
         /\ Append(s, Head(u)) \o Tail(u) = s \o u
<1> DEFINE h == Head(u)
           v == Tail(u)
           w == Append(s, h)
<1>1. h \in Numbers /\ v \in Seq(Numbers) /\ u = <<h>> \o v
  <2>1. Len(u) \in Nat /\ Len(u) # 0 /\ h = u[1] /\ 1 \in 1..Len(u)
    BY EmptySeq
  <2>2. h \in Numbers
    BY <2>1
  <2>3. /\ v \in Seq(Numbers) /\ Len(v) = Len(u) - 1
        /\ \A i \in 1..(Len(u) - 1) : v[i] = u[i + 1]
    BY <2>1
  <2> HIDE DEF h, v
  <2>4. /\ <<h>> \o v \in Seq(Numbers) /\ Len(<<h>> \o v) = Len(u)
        /\ \A i \in 1..Len(u) : (<<h>> \o v)[i] = u[i]
    <3>1. <<h>> \in Seq(Numbers) /\ Len(<<h>>) = 1 /\ <<h>>[1] = h
      BY <2>2
    <3>2. /\ <<h>> \o v \in Seq(Numbers) /\ Len(<<h>> \o v) = 1 + Len(v)
          /\ \A i \in 1..(1 + Len(v)) : (<<h>> \o v)[i] = IF i <= 1 THEN h ELSE v[i - 1]
      BY <2>3, <3>1, ConcatProperties
    <3>3. ASSUME NEW i \in 1..Len(u) PROVE (<<h>> \o v)[i] = u[i]
      <4>1. CASE i = 1
        BY <2>1, <2>3, <3>2, <4>1
      <4>2. CASE i # 1
        <5>1. i \in 1..(1 + Len(v)) /\ ~(i <= 1) /\ i - 1 \in 1..(Len(u) - 1) /\ (i - 1) + 1 = i
          BY <2>1, <2>3, <4>2
        <5>2. (<<h>> \o v)[i] = v[i - 1] /\ v[i - 1] = u[(i - 1) + 1]
          BY <2>3, <3>2, <5>1
        <5> QED BY <5>1, <5>2
      <4> QED BY <4>1, <4>2
    <3>4. Len(<<h>> \o v) = Len(u)
      BY <2>1, <2>3, <3>2
    <3> QED BY <3>2, <3>3, <3>4
  <2>5. <<h>> \o v = u
    BY <2>4, SeqEqual
  <2> QED BY <2>2, <2>3, <2>5
<1> HIDE DEF h, v
<1>2. <<h>> \in Seq(Numbers)
  BY <1>1
<1>3. w = s \o <<h>>
  BY <1>1, AppendIsConcat
<1>4. (s \o <<h>>) \o v = s \o (<<h>> \o v)
  BY <1>1, <1>2, Associative, Zenon DEF Numbers
<1>5. w \in Seq(Numbers) /\ w # <<>> /\ w[Len(w)] = h
  <2>1. w \in Seq(Numbers) /\ w # <<>> /\ Len(w) = Len(s) + 1
    BY <1>1, AppendProperties
  <2>2. w[Len(s) + 1] = h
    BY <1>1
  <2> QED BY <2>1, <2>2
<1>6. w \o v = s \o u
  BY <1>1, <1>3, <1>4
<1> QED BY <1>1, <1>5, <1>6 DEF h, v

\* What a piece of output tells.
LEMMA OutputIs ==
  ASSUME ProgressTypeOK, Phases, ReadSoFar, NEW n \in 1..Len(Text), WriteOutput(n)
  PROVE  /\ written' \in 0..Len(Text) /\ pending' \in Seq(Nat) /\ updates' \in Seq(Numbers)
         /\ pending' = Reading(Text)[written'].line
         /\ told \o updates' = Reading(Text)[written'].told \o <<>>
<1>1. /\ Text \in Seq(Nat) /\ Len(Text) \in Nat /\ written \in Nat /\ n \in Nat
      /\ written + n <= Len(Text) /\ written' = written + n
  BY ProgressAssumption DEF ProgressTypeOK, WriteOutput
<1>2. exit = "running" /\ wpc = "idle" /\ updates = <<>> /\ apc \in {"none", "waiting"}
  BY DEF WriteOutput, Phases, ProgressTypeOK
<1>3. pending = Reading(Text)[written].line /\ told \o <<>> = Reading(Text)[written].told \o <<>>
  BY <1>2 DEF ReadSoFar, Waiting, Expected
<1>4. Reading(Text) \in [0..Len(Text) -> Readings]
  BY <1>1, ReadingIs
<1>5. Reading(Text)[written].told \in Seq(Numbers) /\ told \in Seq(Numbers)
  BY <1>4 DEF ProgressTypeOK, Readings, Numbers
<1>6. told = Reading(Text)[written].told
  BY <1>3, <1>5, ConcatEmptySeq
<1> DEFINE text == Reading(Text)[written].line \o SubSeq(Text, written + 1, written + n)
<1>7. /\ text \in Seq(Nat)
      /\ Reading(Text)[written + n].told
           = Reading(Text)[written].told \o Reading(text)[Len(text)].told
      /\ Reading(Text)[written + n].line = Reading(text)[Len(text)].line
  BY <1>1, Chunks, Zenon
<1>8. pending \o SubSeq(Text, written + 1, written + n) = text
  BY <1>3
<1> HIDE DEF text
<1>9. updates' = Reading(text)[Len(text)].told /\ pending' = Reading(text)[Len(text)].line
  BY <1>8 DEF WriteOutput, Consume
<1>10. updates' \in Seq(Numbers) /\ pending' \in Seq(Nat)
  <2>1. Len(text) \in 0..Len(text) /\ Reading(text) \in [0..Len(text) -> Readings]
    BY <1>7, ReadingIs
  <2> QED BY <1>9, <2>1 DEF Readings, Numbers
<1>11. written' \in 0..Len(Text)
  BY <1>1
<1>12. Reading(Text)[written'].told \in Seq(Numbers)
  BY <1>4, <1>11 DEF Readings, Numbers
<1>13. Reading(Text)[written'].told \o <<>> = Reading(Text)[written'].told
  BY <1>12, ConcatEmptySeq
<1> QED BY <1>1, <1>6, <1>7, <1>9, <1>10, <1>11, <1>13

\* The parts of the inductive invariant, each preserved by every step.
LEMMA ReadStep ==
  ASSUME ProgressTypeOK, Phases, ReadSoFar, [ProgressNext]_progressVars
  PROVE  ReadSoFar'
<1>1. ASSUME NEW n \in 1..Len(Text), WriteOutput(n) PROVE ReadSoFar'
  <2>1. apc \in {"none", "waiting"} /\ apc' = apc /\ told' = told
    BY <1>1 DEF WriteOutput, Phases, ProgressTypeOK
  <2>2. Waiting' = updates'
    BY <1>1 DEF WriteOutput, Waiting
  <2>3. Expected(FALSE)' = Reading(Text)[written'].told \o <<>>
    BY DEF Expected
  <2>4. /\ pending' = Reading(Text)[written'].line
        /\ told \o updates' = Reading(Text)[written'].told \o <<>>
    BY <1>1, OutputIs
  <2> QED BY <2>1, <2>2, <2>3, <2>4 DEF ReadSoFar
<1>2. ASSUME RecordInMemory PROVE ReadSoFar'
  <2>1. /\ updates \in Seq(Numbers) /\ told \in Seq(Numbers) /\ updates # <<>>
        /\ Waiting = updates
    BY <1>2 DEF RecordInMemory, Phases, ProgressTypeOK, Numbers, Waiting
  <2>2. Waiting' = Tail(updates) /\ told' = Append(told, Head(updates))
    BY <1>2 DEF RecordInMemory, Waiting
  <2>3. told' \o Waiting' = told \o Waiting
    BY <2>1, <2>2, Moved
  <2>4. pending' = pending /\ written' = written /\ apc' = apc
    BY <1>2 DEF RecordInMemory
  <2> QED BY <2>3, <2>4 DEF ReadSoFar, Expected
<1>3. ASSUME RecordInRow PROVE ReadSoFar'
  <2>1. Waiting' = updates' /\ Waiting = Tail(updates) /\ updates' = Tail(updates)
    BY <1>3 DEF RecordInRow, Waiting
  <2>2. pending' = pending /\ written' = written /\ apc' = apc /\ told' = told
    BY <1>3 DEF RecordInRow
  <2> QED BY <2>1, <2>2 DEF ReadSoFar, Expected
<1>4. ASSUME WaitAndFlush PROVE ReadSoFar'
  <2>1. /\ apc = "waiting" /\ apc' = "flushed" /\ told' = told /\ written' = written
        /\ updates' = ProgressOf(pending) /\ wpc' # "storing"
    BY <1>4 DEF WaitAndFlush
  <2>2. pending = Reading(Text)[written].line /\ told \o <<>> = Reading(Text)[written].told \o <<>>
    BY <1>4 DEF WaitAndFlush, ReadSoFar, Phases, Waiting, Expected
  <2>3. told \in Seq(Numbers) /\ Reading(Text)[written].told \in Seq(Numbers)
    <3>1. Reading(Text) \in [0..Len(Text) -> Readings] /\ written \in 0..Len(Text)
      BY ReadingIs, ProgressAssumption DEF ProgressTypeOK
    <3> QED BY <3>1 DEF ProgressTypeOK, Readings, Numbers
  <2>4. told = Reading(Text)[written].told
    BY <2>2, <2>3, ConcatEmptySeq
  <2>5. Waiting' = ProgressOf(Reading(Text)[written].line)
    BY <2>1, <2>2 DEF Waiting
  <2> QED BY <2>1, <2>4, <2>5 DEF ReadSoFar, Expected
<1>5. CASE UNCHANGED <<written, pending, updates, told, wpc, apc>>
  BY <1>5 DEF ReadSoFar, Waiting, Expected
<1>6. ASSUME StoreStatus PROVE ReadSoFar'
  <2>1. UNCHANGED <<written, pending, updates, told, wpc>> /\ apc = "none"
    BY <1>6 DEF StoreStatus, output, Phases
  <2>2. Waiting' = Waiting /\ Expected(FALSE)' = Expected(FALSE)
    BY <2>1 DEF Waiting, Expected
  <2>3. CASE copy.status = "started"
    BY <1>6, <2>1, <2>2, <2>3 DEF StoreStatus, ReadSoFar
  <2>4. CASE copy.status # "started"
    <3>1. apc' = "ended" /\ exit = "none"
      BY <1>6, <2>4 DEF StoreStatus, Phases
    <3>2. written = 0 /\ pending = <<>>
      BY <3>1 DEF Phases
    <3>3. Expected(TRUE)' = Expected(FALSE)
      <4>1. Reading(Text)[0].line = <<>>
        BY ReadingIs, ProgressAssumption DEF Unread
      <4>2. ProgressOf(<<>>) = <<>>
        BY DEF ProgressOf
      <4> QED BY <2>1, <3>2, <4>1, <4>2 DEF Expected
    <3> QED BY <2>1, <2>2, <3>1, <3>3 DEF ReadSoFar
  <2> QED BY <2>3, <2>4
<1>7. CASE CopyCompleted \/ SetCompleted \/ StoreCompleted
  <2>1. /\ UNCHANGED <<written, pending, updates, told, wpc>>
        /\ apc \notin {"none", "waiting"} /\ apc' \notin {"none", "waiting"}
    BY <1>7 DEF CopyCompleted, SetCompleted, StoreCompleted, output
  <2> QED BY <2>1 DEF ReadSoFar, Waiting, Expected
<1>8. CASE UNCHANGED progressVars
  BY <1>5, <1>8 DEF progressVars
<1>9. CASE \/ \E how \in {"ok", "failed"} : ProcessExits(how)
           \/ SetStarting \/ StoreStarting \/ StartProcess \/ StartFails
           \/ CopyStarted \/ SetStarted
  BY <1>5, <1>9 DEF ProcessExits, SetStarting, StoreStarting, StartProcess, StartFails,
                    CopyStarted, SetStarted, output
<1> QED BY <1>1, <1>2, <1>3, <1>4, <1>6, <1>7, <1>8, <1>9 DEF ProgressNext

\* The handler, the process and the watcher keep their order.
LEMMA PhasesStep ==
  ASSUME ProgressTypeOK, Phases, [ProgressNext]_progressVars
  PROVE  Phases'
<1>1. ASSUME NEW n \in 1..Len(Text), WriteOutput(n) PROVE Phases'
  BY <1>1 DEF WriteOutput, Phases, ProgressTypeOK
<1>2. CASE RecordInMemory
  BY <1>2 DEF RecordInMemory, Phases, ProgressTypeOK
<1>3. CASE RecordInRow
  BY <1>3 DEF RecordInRow, Phases, ProgressTypeOK
<1>4. ASSUME NEW how \in {"ok", "failed"}, ProcessExits(how) PROVE Phases'
  BY <1>4 DEF ProcessExits, Phases, ProgressTypeOK, output
<1>5. CASE SetStarting
  BY <1>5 DEF SetStarting, Phases, ProgressTypeOK, output
<1>6. CASE StoreStarting
  BY <1>6 DEF StoreStarting, Phases, ProgressTypeOK, output
<1>7. CASE StartProcess
  BY <1>7 DEF StartProcess, Phases, ProgressTypeOK, output
<1>8. CASE StartFails
  BY <1>8 DEF StartFails, Phases, ProgressTypeOK, output
<1>9. CASE CopyStarted
  BY <1>9 DEF CopyStarted, Phases, ProgressTypeOK, Progresses, output
<1>10. CASE SetStarted
  BY <1>10 DEF SetStarted, Phases, ProgressTypeOK, output
<1>11. CASE StoreStatus
  BY <1>11 DEF StoreStatus, Phases, ProgressTypeOK, output
<1>12. CASE WaitAndFlush
  BY <1>12 DEF WaitAndFlush, Phases, ProgressTypeOK
<1>13. CASE CopyCompleted
  BY <1>13 DEF CopyCompleted, Phases, ProgressTypeOK, output
<1>14. CASE SetCompleted
  BY <1>14 DEF SetCompleted, Phases, ProgressTypeOK, output
<1>15. CASE StoreCompleted
  BY <1>15 DEF StoreCompleted, Phases, ProgressTypeOK, output
<1>16. CASE UNCHANGED progressVars
  BY <1>16 DEF progressVars, Phases
<1> QED BY <1>1, <1>2, <1>3, <1>4, <1>5, <1>6, <1>7, <1>8, <1>9, <1>10, <1>11, <1>12, <1>13,
           <1>14, <1>15, <1>16 DEF ProgressNext

\* Statuses are statuses and progress is a number.
LEMMA TypeStep ==
  ASSUME ProgressTypeOK, Phases, ReadSoFar, [ProgressNext]_progressVars
  PROVE  ProgressTypeOK'
<1>1. ASSUME NEW n \in 1..Len(Text), WriteOutput(n) PROVE ProgressTypeOK'
  <2>1. written' \in 0..Len(Text) /\ pending' \in Seq(Nat) /\ updates' \in Seq(Nat \ {0})
    BY <1>1, OutputIs DEF Numbers
  <2>2. /\ wpc' \in {"idle", "emitting"}
        /\ UNCHANGED <<exit, memory, row, hpc, apc, copy, told, raced>>
    BY <1>1 DEF WriteOutput
  <2> QED BY <2>1, <2>2 DEF ProgressTypeOK
<1>2. CASE RecordInMemory
  <2>1. /\ updates \in Seq(Numbers) /\ told \in Seq(Numbers) /\ updates # <<>>
    BY <1>2 DEF RecordInMemory, Phases, ProgressTypeOK, Numbers
  <2>2. Head(updates) \in Nat \ {0} /\ Append(told, Head(updates)) \in Seq(Nat \ {0})
    BY <2>1, Moved DEF Numbers
  <2>3. memory' \in Progresses
    BY <1>2, <2>2 DEF RecordInMemory, ProgressTypeOK, Progresses
  <2>4. raced' \in BOOLEAN
    BY <1>2 DEF RecordInMemory
  <2> QED BY <1>2, <2>2, <2>3, <2>4 DEF RecordInMemory, ProgressTypeOK
<1>3. CASE RecordInRow
  <2>1. /\ updates \in Seq(Numbers) /\ told \in Seq(Numbers) /\ updates # <<>>
    BY <1>3 DEF RecordInRow, Phases, ProgressTypeOK, Numbers
  <2>2. Head(updates) \in Nat \ {0} /\ Tail(updates) \in Seq(Nat \ {0})
    BY <2>1, Moved DEF Numbers
  <2>3. row' \in Progresses
    BY <1>3, <2>2 DEF RecordInRow, ProgressTypeOK, Progresses
  <2> QED BY <1>3, <2>2, <2>3 DEF RecordInRow, ProgressTypeOK
<1>4. ASSUME NEW how \in {"ok", "failed"}, ProcessExits(how) PROVE ProgressTypeOK'
  BY <1>4 DEF ProcessExits, ProgressTypeOK, output
<1>5. CASE SetStarting
  <2>1. memory' \in Progresses
    BY <1>5 DEF SetStarting, Progresses, Statuses
  <2> QED BY <1>5, <2>1 DEF SetStarting, ProgressTypeOK, output
<1>6. CASE StoreStarting
  <2>1. row' \in Progresses
    BY <1>6 DEF StoreStarting, Progresses, Statuses
  <2> QED BY <1>6, <2>1 DEF StoreStarting, ProgressTypeOK, output
<1>7. CASE StartProcess
  BY <1>7 DEF StartProcess, ProgressTypeOK, output
<1>8. CASE StartFails
  <2>1. copy' \in Progresses /\ memory' \in Progresses
    BY <1>8 DEF StartFails, Progresses, Statuses
  <2> QED BY <1>8, <2>1 DEF StartFails, ProgressTypeOK, output
<1>9. CASE CopyStarted
  <2>1. copy' \in Progresses
    BY <1>9 DEF CopyStarted, ProgressTypeOK, Progresses, Statuses
  <2> QED BY <1>9, <2>1 DEF CopyStarted, ProgressTypeOK, output
<1>10. CASE SetStarted
  BY <1>10 DEF SetStarted, ProgressTypeOK, output
<1>11. CASE StoreStatus
  BY <1>11 DEF StoreStatus, ProgressTypeOK, output
<1>12. CASE WaitAndFlush
  <2>1. updates' \in Seq(Nat \ {0}) /\ pending' \in Seq(Nat)
    BY <1>12, ProgressIs DEF WaitAndFlush, ProgressTypeOK
  <2>2. /\ wpc' \in {"idle", "emitting"} /\ apc' = "flushed"
        /\ UNCHANGED <<written, exit, memory, row, hpc, copy, told, raced>>
    BY <1>12 DEF WaitAndFlush
  <2> QED BY <2>1, <2>2 DEF ProgressTypeOK
<1>13. CASE CopyCompleted
  <2>1. copy' \in Progresses
    BY <1>13, ProgressAssumption DEF CopyCompleted, Progresses, Statuses
  <2> QED BY <1>13, <2>1 DEF CopyCompleted, ProgressTypeOK, output
<1>14. CASE SetCompleted
  BY <1>14 DEF SetCompleted, ProgressTypeOK, output
<1>15. CASE StoreCompleted
  BY <1>15 DEF StoreCompleted, ProgressTypeOK, output
<1>16. CASE UNCHANGED progressVars
  BY <1>16 DEF progressVars, ProgressTypeOK
<1> QED BY <1>1, <1>2, <1>3, <1>4, <1>5, <1>6, <1>7, <1>8, <1>9, <1>10, <1>11, <1>12, <1>13,
           <1>14, <1>15, <1>16 DEF ProgressNext

\* Memory and row show the last progress.
LEMMA ShowsLastStep ==
  ASSUME ProgressTypeOK, Phases, ShowsLast, [ProgressNext]_progressVars
  PROVE  ShowsLast'
<1>1. ASSUME NEW n \in 1..Len(Text), WriteOutput(n) PROVE ShowsLast'
  BY <1>1 DEF WriteOutput, ShowsLast, LastTold
<1>2. CASE RecordInMemory
  <2>1. updates \in Seq(Numbers) /\ told \in Seq(Numbers) /\ updates # <<>>
    BY <1>2 DEF RecordInMemory, Phases, ProgressTypeOK, Numbers
  <2>2. told' # <<>> /\ told'[Len(told')] = Head(updates)
    BY <1>2, <2>1, Moved DEF RecordInMemory
  <2>3. LastTold' = Head(updates)
    BY <2>2 DEF LastTold
  <2>4. /\ updates' = updates /\ wpc' = "storing" /\ UNCHANGED <<row, hpc, apc, copy>>
        /\ memory' = [memory EXCEPT !.progress = Head(updates)]
    BY <1>2 DEF RecordInMemory
  <2>5. /\ memory' = [memory EXCEPT !.progress = Head(updates)]
        /\ memory'.progress = Head(updates) /\ memory'.status = memory.status
    BY <2>4 DEF ProgressTypeOK, Progresses
  <2>6. hpc # "ended" => raced'
    BY <1>2 DEF RecordInMemory
  <2> QED BY <2>2, <2>3, <2>4, <2>5, <2>6 DEF ShowsLast, Phases
<1>3. CASE RecordInRow
  <2>1. /\ UNCHANGED <<memory, hpc, apc, copy, told, raced>> /\ wpc = "storing"
        /\ wpc' # "storing" /\ row' = [row EXCEPT !.progress = Head(updates)]
    BY <1>3 DEF RecordInRow
  <2>2. row'.progress = Head(updates) /\ row'.status = row.status
    BY <2>1 DEF ProgressTypeOK, Progresses
  <2> QED BY <2>1, <2>2 DEF ShowsLast, LastTold
<1>4. ASSUME NEW how \in {"ok", "failed"}, ProcessExits(how) PROVE ShowsLast'
  BY <1>4 DEF ProcessExits, ShowsLast, LastTold, output
<1>5. CASE SetStarting
  BY <1>5 DEF SetStarting, ShowsLast, Phases, LastTold, output
<1>6. CASE StoreStarting
  BY <1>6 DEF StoreStarting, ShowsLast, Phases, LastTold, output
<1>7. CASE StartProcess
  BY <1>7 DEF StartProcess, ShowsLast, Phases, LastTold, output
<1>8. CASE StartFails
  BY <1>8 DEF StartFails, ShowsLast, Phases, LastTold, output
<1>9. CASE CopyStarted
  <2>1. copy'.progress = memory.progress
    BY <1>9 DEF CopyStarted, ProgressTypeOK, Progresses
  <2> QED BY <1>9, <2>1 DEF CopyStarted, ShowsLast, Phases, LastTold, output
<1>10. CASE SetStarted
  BY <1>10 DEF SetStarted, ShowsLast, Phases, LastTold, output
<1>11. CASE StoreStatus
  BY <1>11 DEF StoreStatus, ShowsLast, Phases, LastTold, output
<1>12. CASE WaitAndFlush
  BY <1>12 DEF WaitAndFlush, ShowsLast, LastTold
<1>13. CASE CopyCompleted
  BY <1>13 DEF CopyCompleted, ShowsLast, Phases, LastTold, output
<1>14. CASE SetCompleted
  BY <1>14 DEF SetCompleted, ShowsLast, Phases, LastTold, output
<1>15. CASE StoreCompleted
  BY <1>15 DEF StoreCompleted, ShowsLast, Phases, LastTold, output
<1>16. CASE UNCHANGED progressVars
  BY <1>16 DEF progressVars, ShowsLast, LastTold
<1> QED BY <1>1, <1>2, <1>3, <1>4, <1>5, <1>6, <1>7, <1>8, <1>9, <1>10, <1>11, <1>12, <1>13,
           <1>14, <1>15, <1>16 DEF ProgressNext

\* The outcome stands.
LEMMA EndsStep ==
  ASSUME ProgressTypeOK, Phases, ShowsLast, Ends, [ProgressNext]_progressVars
  PROVE  Ends'
<1>1. CASE CopyCompleted
  <2>1. /\ apc = "flushed" /\ apc' = "copied" /\ told' = told /\ exit' = exit
        /\ (raced' <=> raced)
        /\ copy' = [status |-> IF exit = "ok" THEN "completed" ELSE "failed",
                    progress |-> IF memory.progress > 0 THEN Full ELSE 0]
    BY <1>1 DEF CopyCompleted, output
  <2>2. copy'.status = IF exit = "ok" THEN "completed" ELSE "failed"
    BY <2>1
  <2>3. told # <<>> /\ ~raced => memory.progress = LastTold
    BY <2>1 DEF ShowsLast
  <2>4. told # <<>> => LastTold > 0
    <3> SUFFICES ASSUME told # <<>> PROVE LastTold > 0
      OBVIOUS
    <3>1. told \in Seq(Nat \ {0}) /\ Len(told) \in 1..Len(told)
      BY EmptySeq DEF ProgressTypeOK
    <3>2. told[Len(told)] \in Nat \ {0}
      BY <3>1
    <3> QED BY <3>2 DEF LastTold
  <2>5. memory.progress > 0 => copy'.progress = Full
    BY <2>1
  <2>6. told # <<>> /\ ~raced => copy'.progress = Full
    BY <2>3, <2>4, <2>5
  <2> QED BY <2>1, <2>2, <2>6 DEF Ends
<1>2. CASE SetCompleted
  BY <1>2 DEF SetCompleted, Ends, output
<1>3. CASE StoreCompleted
  BY <1>3 DEF StoreCompleted, Ends, output
<1>4. CASE StoreStatus
  BY <1>4 DEF StoreStatus, Ends, Phases, output
<1>5. ASSUME NEW n \in 1..Len(Text), WriteOutput(n) PROVE Ends'
  BY <1>5 DEF WriteOutput, Ends, Phases
<1>6. CASE RecordInMemory \/ RecordInRow
  BY <1>6 DEF RecordInMemory, RecordInRow, Ends, Phases
<1>7. ASSUME NEW how \in {"ok", "failed"}, ProcessExits(how) PROVE Ends'
  BY <1>7 DEF ProcessExits, Ends, Phases, output
<1>8. CASE SetStarting \/ StoreStarting \/ StartProcess \/ StartFails \/ CopyStarted \/ SetStarted
  BY <1>8 DEF SetStarting, StoreStarting, StartProcess, StartFails, CopyStarted, SetStarted,
              Ends, Phases, output
<1>9. CASE WaitAndFlush
  BY <1>9 DEF WaitAndFlush, Ends
<1>10. CASE UNCHANGED progressVars
  BY <1>10 DEF progressVars, Ends
<1> QED BY <1>1, <1>2, <1>3, <1>4, <1>5, <1>6, <1>7, <1>8, <1>9, <1>10 DEF ProgressNext

\* Nothing was started.
LEMMA ProgressInitially == ProgressInit => ProgressIInv
<1> SUFFICES ASSUME ProgressInit PROVE ProgressIInv
  OBVIOUS
<1>1. ProgressTypeOK
  <2>1. 0 \in 0..Len(Text)
    BY ProgressAssumption
  <2>2. Unknown \in Progresses
    BY DEF Unknown, Progresses, Statuses
  <2>3. raced \in BOOLEAN
    BY DEF ProgressInit
  <2>4. /\ written = 0 /\ exit = "none" /\ pending = <<>> /\ updates = <<>> /\ wpc = "idle"
        /\ memory = Unknown /\ row = Unknown /\ copy = Unknown
        /\ hpc = "starting" /\ apc = "none" /\ told = <<>>
    BY DEF ProgressInit
  <2> HIDE DEF ProgressInit
  <2>5. pending \in Seq(Nat) /\ updates \in Seq(Nat \ {0}) /\ told \in Seq(Nat \ {0})
    BY <2>4
  <2> QED BY <2>1, <2>2, <2>3, <2>4, <2>5 DEF ProgressTypeOK
<1>2. Phases
  BY DEF ProgressInit, Phases
<1>3. ReadSoFar
  BY ReadingIs, ProgressAssumption DEF ProgressInit, ReadSoFar, Expected, Waiting, Unread
<1>4. ShowsLast
  BY DEF ProgressInit, ShowsLast, LastTold, Unknown
<1>5. Ends
  BY DEF ProgressInit, Ends
<1> QED BY <1>1, <1>2, <1>3, <1>4, <1>5 DEF ProgressIInv

\* What is known of a download, for any output of aria2c and any way in which the
\* pipe cuts it.
THEOREM ProgressInvariant == ProgressSpec => []ProgressIInv
<1>1. ProgressIInv /\ [ProgressNext]_progressVars => ProgressIInv'
  BY PhasesStep, TypeStep, ReadStep, ShowsLastStep, EndsStep DEF ProgressIInv
<1> QED BY <1>1, ProgressInitially, PTL DEF ProgressSpec

\* The lines that aria2OutputWriter passes on are those of the whole output.
THEOREM OutputCorrect == ProgressSpec => []ChunksDoNotMatter
<1>1. ProgressIInv => ChunksDoNotMatter
  BY DEF ProgressIInv, ReadSoFar, ProgressTypeOK, ChunksDoNotMatter, Waiting
<1> QED BY <1>1, ProgressInvariant, PTL

\* The outcome that the watcher of startReferenceDownload records stays.
THEOREM OutcomeCorrect == ProgressSpec => []OutcomeStands
<1>1. ProgressIInv => OutcomeStands
  BY DEF ProgressIInv, Ends, OutcomeStands
<1> QED BY <1>1, ProgressInvariant, PTL

\* A running download shows the last progress that was read from its output.
THEOREM ProgressCorrect == ProgressSpec => []ProgressIsShown
<1>1. ASSUME ProgressIInv PROVE ProgressIsShown
  <2> SUFFICES ASSUME apc = "waiting", wpc = "idle", ~raced
               PROVE  /\ memory = row /\ memory.status = "started"
                      /\ memory.progress = IF told = <<>> THEN 0 ELSE Last(told)
    BY DEF ProgressIsShown
  <2>1. /\ memory.status = "started" /\ row.status = "started"
        /\ memory.progress = LastTold /\ row.progress = LastTold
    BY <1>1 DEF ProgressIInv, ShowsLast
  <2>2. memory \in Progresses /\ row \in Progresses
    BY <1>1 DEF ProgressIInv, ProgressTypeOK
  <2>3. memory = row
    BY <2>1, <2>2 DEF Progresses
  <2> QED BY <2>1, <2>3 DEF LastTold, Last
<1> QED BY <1>1, ProgressInvariant, PTL

-----------------------------------------------------------------------------
(* BrowsePage.                                                             *)

Requests == [by : Polls \cup Visitors \cup {Script}, part : Parts, catalog : Nat]

\* The type invariant, of what the proof is about.
PageTypeOK ==
  /\ served \in Nat \ {0} /\ revision \in Nat \ {0} /\ life \in Nat
  /\ known \in Nat /\ knownLife \in Nat
  /\ heard \in [Polls -> [revision : Nat, life : Nat]]
  /\ flight \subseteq Requests
  /\ shown \in [Parts -> Nat]
  /\ disturbed \in BOOLEAN

\* Nobody has seen more of the server than there was; before the page knows a
\* revision, a switch disturbs it.
SeenInv ==
  /\ revision <= served
  /\ \A p \in Parts : shown[p] <= served
  /\ \A f \in flight : f.catalog <= served
  /\ \A p \in Polls : heard[p] # NotHeard =>
       /\ heard[p].revision # 0 /\ heard[p].life <= life
       /\ heard[p].life = life => heard[p].revision <= revision
  /\ knownLife <= life
  /\ knownLife = life => known <= revision
  /\ known = 0 /\ ~disturbed => served = 1

\* The catalog of the revision the page knows.
KnownCatalog == IF known = 0 THEN 1 ELSE (served + known) - revision

\* An answer that will be shown in part p, of catalog k or a later one.  A poll that
\* waits for its facts will ask for rows.
Promises(f, p, k) ==
  \/ f.part = p /\ (f.catalog = 0 \/ f.catalog >= k)
  \/ p = "rows" /\ f.by \in Polls /\ f.part \in Facts

\* Each part is of the catalog the page knows, or an answer is coming that is.
CoveredInv ==
  ~disturbed /\ (known = 0 \/ knownLife = life) =>
    \A p \in Parts : shown[p] >= KnownCatalog \/ \E f \in flight : Promises(f, p, KnownCatalog)

PageIInv == PageTypeOK /\ SeenInv /\ CoveredInv

\* The catalog known is one that was served.
LEMMA KnownServed ==
  ASSUME PageTypeOK, SeenInv, known = 0 \/ knownLife = life
  PROVE  KnownCatalog \in Nat /\ KnownCatalog <= served
<1>1. /\ served \in Nat /\ served >= 1 /\ revision \in Nat /\ known \in Nat
      /\ revision <= served /\ (knownLife = life => known <= revision)
  BY DEF PageTypeOK, SeenInv
<1> QED BY <1>1 DEF KnownCatalog

\* What is sent has a request for every part.
LEMMA SentAll ==
  ASSUME NEW who, NEW parts
  PROVE  \A p \in parts : \E f \in Sent(who, parts) : f.part = p /\ f.catalog = 0
<1> TAKE p \in parts
<1> DEFINE asked == [by |-> who, part |-> p, catalog |-> 0]
<1>1. asked \in Sent(who, parts)
  BY DEF Sent
<1> QED BY <1>1

\* The page has asked for everything and shows nothing.
LEMMA InitPage == ASSUME PageInit PROVE PageIInv
<1>0. PICK v \in Visitors : flight = Sent(Script, Facts) \cup Sent(v, {"rows"})
  BY DEF PageInit
<1>1. \A p \in Parts : \E f \in flight : f.part = p /\ f.catalog = 0
  BY <1>0, SentAll DEF Parts
<1>2. flight \subseteq Requests /\ \A f \in flight : f.catalog = 0
  BY <1>0 DEF Sent, Requests, Parts
<1>3. PageTypeOK
  <2>1. heard \in [Polls -> [revision : Nat, life : Nat]] /\ shown \in [Parts -> Nat]
    BY DEF PageInit, NotHeard
  <2>2. flight \subseteq Requests
    BY <1>2
  <2>3. /\ served \in Nat \ {0} /\ revision \in Nat \ {0} /\ life \in Nat
        /\ known \in Nat /\ knownLife \in Nat
    BY DEF PageInit
  <2>4. disturbed \in BOOLEAN
    BY Zenon DEF PageInit
  <2> QED BY <2>1, <2>2, <2>3, <2>4 DEF PageTypeOK
<1>4. SeenInv
  BY <1>2 DEF PageInit, SeenInv
<1>5. \A p \in Parts : \E f \in flight : Promises(f, p, KnownCatalog)
  BY <1>1 DEF Promises
<1> QED BY <1>3, <1>4, <1>5 DEF PageIInv, CoveredInv

\* The server moves on: a catalog more, and with it the revision.
LEMMA SwitchesStep == ASSUME PageIInv, Switches PROVE PageIInv'
<1>1. PageTypeOK /\ SeenInv
  BY DEF PageIInv
<1>2. /\ served' = served + 1 /\ revision' = revision + 1 /\ disturbed' = (disturbed \/ known = 0)
      /\ UNCHANGED <<life, known, knownLife, heard, flight, shown>>
  BY DEF Switches
<1>3. disturbed' \in BOOLEAN /\ (~disturbed' => ~disturbed /\ known # 0)
  BY <1>1, <1>2, Zenon DEF PageTypeOK
<1>4. PageTypeOK'
  BY <1>1, <1>2, <1>3 DEF PageTypeOK
<1>5. SeenInv'
  <2>1. \A f \in flight : f.catalog \in Nat
    BY <1>1 DEF PageTypeOK, Requests
  <2> QED BY <1>1, <1>2, <1>3, <2>1 DEF PageTypeOK, SeenInv
<1>6. ~disturbed' => KnownCatalog' = KnownCatalog
  BY <1>1, <1>2, <1>3 DEF PageTypeOK, KnownCatalog
<1>7. CoveredInv'
  BY <1>2, <1>3, <1>6 DEF PageIInv, CoveredInv, Promises
<1> QED BY <1>4, <1>5, <1>7 DEF PageIInv

\* A new process: what the page knows is no longer of it.
LEMMA RestartsStep == ASSUME PageIInv, Restarts PROVE PageIInv'
<1>1. PageTypeOK /\ SeenInv
  BY DEF PageIInv
<1>2. /\ life' = life + 1 /\ revision' = 1
      /\ \/ served' = served /\ disturbed' = disturbed
         \/ served' = served + 1 /\ disturbed' = (disturbed \/ known = 0)
      /\ UNCHANGED <<known, knownLife, heard, flight, shown>>
  BY DEF Restarts
<1>3. /\ disturbed' \in BOOLEAN /\ (~disturbed' => ~disturbed)
      /\ ~disturbed' /\ known = 0 => served' = served
      /\ served' \in Nat \ {0} /\ served <= served'
  <2>1. disturbed \in BOOLEAN /\ served \in Nat \ {0}
    BY <1>1 DEF PageTypeOK
  <2>2. /\ disturbed' \in BOOLEAN /\ (~disturbed' => ~disturbed)
        /\ ~disturbed' /\ known = 0 => served' = served
    BY <1>2, <2>1, Zenon
  <2>3. served' \in Nat \ {0} /\ served <= served'
    BY <1>2, <2>1
  <2> QED BY <2>2, <2>3
<1>4. PageTypeOK'
  BY <1>1, <1>2, <1>3 DEF PageTypeOK
<1>5. SeenInv'
  <2>1. \A f \in flight : f.catalog \in Nat
    BY <1>1 DEF PageTypeOK, Requests
  <2>2. served \in Nat /\ life \in Nat /\ knownLife \in Nat /\ knownLife <= life
    BY <1>1 DEF PageTypeOK, SeenInv
  <2>3. \A p \in Polls : heard[p].life \in Nat
    BY <1>1 DEF PageTypeOK
  <2> QED BY <1>1, <1>2, <1>3, <2>1, <2>2, <2>3 DEF PageTypeOK, SeenInv
<1>6. CoveredInv'
  <2>1. knownLife # life'
    BY <1>1, <1>2 DEF PageTypeOK, SeenInv
  <2> QED BY <1>2, <1>3, <2>1 DEF PageIInv, CoveredInv, Promises, KnownCatalog
<1> QED BY <1>4, <1>5, <1>6 DEF PageIInv

\* An answer gets the catalog being served, the newest there is.
LEMMA ServesStep == ASSUME PageIInv, NEW g \in flight, Serves(g) PROVE PageIInv'
<1> DEFINE answer == [g EXCEPT !.catalog = served]
<1>1. PageTypeOK /\ SeenInv
  BY DEF PageIInv
<1>2. /\ flight' = (flight \ {g}) \cup {answer}
      /\ UNCHANGED <<served, revision, life, known, knownLife, heard, shown, disturbed>>
  BY DEF Serves
<1>3. /\ answer \in Requests /\ answer.catalog = served
      /\ answer.part = g.part /\ answer.by = g.by
  BY <1>1 DEF PageTypeOK, Requests
<1> HIDE DEF answer
<1>4. PageTypeOK'
  BY <1>1, <1>2, <1>3 DEF PageTypeOK
<1>5. SeenInv'
  BY <1>1, <1>2, <1>3 DEF PageTypeOK, SeenInv
<1>6. CoveredInv'
  <2> SUFFICES ASSUME ~disturbed, known = 0 \/ knownLife = life, NEW p \in Parts
               PROVE  shown[p] >= KnownCatalog \/ \E f \in flight' : Promises(f, p, KnownCatalog)
    BY <1>2 DEF CoveredInv, KnownCatalog
  <2>1. KnownCatalog \in Nat /\ KnownCatalog <= served
    BY <1>1, KnownServed
  <2>2. shown[p] >= KnownCatalog \/ \E f \in flight : Promises(f, p, KnownCatalog)
    BY DEF PageIInv, CoveredInv
  <2>3. Promises(g, p, KnownCatalog) => Promises(answer, p, KnownCatalog)
    BY <1>3, <2>1 DEF Promises
  <2> QED BY <1>2, <2>2, <2>3
<1> QED BY <1>4, <1>5, <1>6 DEF PageIInv

\* A poll's answer has the revision of the moment.
LEMMA ServesStatusStep == ASSUME PageIInv, NEW p \in Polls, ServesStatus(p) PROVE PageIInv'
<1>1. PageTypeOK /\ SeenInv
  BY DEF PageIInv
<1>2. /\ heard' = [heard EXCEPT ![p] = [revision |-> revision, life |-> life]]
      /\ UNCHANGED <<served, revision, life, known, knownLife, flight, shown, disturbed>>
  BY DEF ServesStatus
<1>3. PageTypeOK'
  BY <1>1, <1>2 DEF PageTypeOK
<1>4. SeenInv'
  BY <1>1, <1>2 DEF PageTypeOK, SeenInv
<1>5. CoveredInv'
  BY <1>2 DEF PageIInv, CoveredInv, KnownCatalog, Promises
<1> QED BY <1>3, <1>4, <1>5 DEF PageIInv

\* A revision that is heard: the first one is that of the catalog the page began
\* with unless it was disturbed, and a change asks for everything anew.
LEMMA HearsStatusStep == ASSUME PageIInv, NEW p \in Polls, HearsStatus(p) PROVE PageIInv'
<1> DEFINE refreshes == known \notin {0, heard[p].revision} /\ ~refreshing
<1>1. PageTypeOK /\ SeenInv
  BY DEF PageIInv
<1>2. Hears(p, known = 0 \/ refreshes, refreshes)
  BY DEF HearsStatus
<1>3. /\ heard[p] # NotHeard /\ heard' = [heard EXCEPT ![p] = NotHeard]
      /\ UNCHANGED <<served, revision, life, shown>>
      /\ heard[p].revision \in Nat \ {0} /\ heard[p].life \in Nat /\ heard[p].life <= life
      /\ heard[p].life = life => heard[p].revision <= revision
  BY <1>1, <1>2 DEF Hears, PageTypeOK, SeenInv
<1>4. CASE refreshes
  <2>1. /\ known' = heard[p].revision /\ knownLife' = heard[p].life /\ disturbed' = FALSE
        /\ flight' = flight \cup Sent(p, Facts)
    BY <1>2, <1>4 DEF Hears
  <2>2. Sent(p, Facts) \subseteq Requests
    BY DEF Sent, Requests, Parts
  <2>3. /\ \A f \in Sent(p, Facts) : f.by = p /\ f.part \in Facts /\ f.catalog = 0
        /\ \A q \in Facts : \E f \in Sent(p, Facts) : f.part = q
    <3>1. \A f \in Sent(p, Facts) : f.by = p /\ f.part \in Facts /\ f.catalog = 0
      BY DEF Sent
    <3> QED BY <3>1, SentAll
  <2>4. PageTypeOK'
    BY <1>1, <1>3, <2>1, <2>2 DEF PageTypeOK, NotHeard
  <2>5. SeenInv'
    BY <1>1, <1>3, <2>1, <2>2, <2>3 DEF PageTypeOK, SeenInv
  <2>6. \A q \in Parts : \E f \in Sent(p, Facts) : Promises(f, q, KnownCatalog')
    BY <2>3, PageAssumption DEF Promises, Parts
  <2>7. CoveredInv'
    BY <2>1, <2>6 DEF CoveredInv
  <2> QED BY <2>4, <2>5, <2>7 DEF PageIInv
<1>5. CASE ~refreshes /\ known = 0
  <2>1. /\ known' = heard[p].revision /\ knownLife' = heard[p].life /\ flight' = flight
        /\ disturbed' = (disturbed /\ ~refreshes)
    BY <1>2, <1>5 DEF Hears
  <2>2. disturbed' = disturbed
    BY <1>1, <1>5, <2>1, Zenon DEF PageTypeOK
  <2>3. PageTypeOK'
    BY <1>1, <1>3, <2>1, <2>2 DEF PageTypeOK, NotHeard
  <2>4. SeenInv'
    BY <1>1, <1>3, <2>1, <2>2 DEF PageTypeOK, SeenInv
  <2>5. CoveredInv'
    <3> SUFFICES ASSUME ~disturbed, knownLife' = life, NEW q \in Parts
                 PROVE  \/ shown[q] >= KnownCatalog'
                        \/ \E f \in flight : Promises(f, q, KnownCatalog')
      BY <1>3, <2>1, <2>2 DEF CoveredInv
    <3>1. KnownCatalog' \in Nat /\ KnownCatalog' <= 1
      BY <1>1, <1>3, <1>5, <2>1 DEF PageTypeOK, SeenInv, KnownCatalog
    <3>2. shown[q] >= 1 \/ \E f \in flight : Promises(f, q, 1)
      BY <1>5 DEF PageIInv, CoveredInv, KnownCatalog
    <3>3. \A f \in flight : Promises(f, q, 1) => Promises(f, q, KnownCatalog')
      BY <1>1, <3>1 DEF Promises, PageTypeOK, Requests
    <3>4. shown[q] \in Nat
      BY <1>1 DEF PageTypeOK
    <3> QED BY <3>1, <3>2, <3>3, <3>4
  <2> QED BY <2>3, <2>4, <2>5 DEF PageIInv
<1>6. CASE ~refreshes /\ known # 0
  <2>1. /\ known' = known /\ knownLife' = knownLife /\ flight' = flight
        /\ disturbed' = (disturbed /\ ~refreshes)
    BY <1>2, <1>6 DEF Hears
  <2>2. disturbed' = disturbed
    BY <1>1, <1>6, <2>1, Zenon DEF PageTypeOK
  <2>3. PageTypeOK'
    BY <1>1, <1>3, <2>1, <2>2 DEF PageTypeOK, NotHeard
  <2>4. SeenInv'
    BY <1>1, <1>3, <2>1, <2>2 DEF PageTypeOK, SeenInv
  <2>5. CoveredInv'
    BY <1>3, <2>1, <2>2 DEF PageIInv, CoveredInv, KnownCatalog, Promises
  <2> QED BY <2>3, <2>4, <2>5 DEF PageIInv
<1> QED BY <1>4, <1>5, <1>6

\* A status request that fails changes nothing the page shows or knows.
LEMMA StatusFailsStep == ASSUME PageIInv, NEW p \in Polls, StatusFails(p) PROVE PageIInv'
<1>1. PageTypeOK /\ SeenInv
  BY DEF PageIInv
<1>2. /\ heard' = [heard EXCEPT ![p] = NotHeard]
      /\ UNCHANGED <<served, revision, life, known, knownLife, flight, shown, disturbed>>
  BY DEF StatusFails
<1>3. PageTypeOK' /\ SeenInv'
  BY <1>1, <1>2 DEF PageTypeOK, SeenInv, NotHeard
<1>4. CoveredInv'
  BY <1>2 DEF PageIInv, CoveredInv, KnownCatalog, Promises
<1> QED BY <1>3, <1>4 DEF PageIInv

\* The old rows go, and others are asked for.
LEMMA SearchesStep == ASSUME PageIInv, NEW v \in Visitors, Searches(v) PROVE PageIInv'
<1> DEFINE asked == [by |-> v, part |-> "rows", catalog |-> 0]
<1>1. PageTypeOK /\ SeenInv
  BY DEF PageIInv
<1>2. /\ flight' = flight \cup Sent(v, {"rows"})
      /\ shown' = [shown EXCEPT !["rows"] = 0]
      /\ UNCHANGED <<served, revision, life, known, knownLife, heard, disturbed>>
  BY DEF Searches
<1>3. Sent(v, {"rows"}) = {asked} /\ asked \in Requests
  BY DEF Sent, Requests, Parts
<1>4. asked.part = "rows" /\ asked.catalog = 0
  OBVIOUS
<1> HIDE DEF asked
<1>5. PageTypeOK'
  BY <1>1, <1>2, <1>3 DEF PageTypeOK
<1>6. SeenInv'
  BY <1>1, <1>2, <1>3, <1>4 DEF PageTypeOK, SeenInv
<1>7. CoveredInv'
  <2> SUFFICES ASSUME ~disturbed, known = 0 \/ knownLife = life, NEW p \in Parts
               PROVE  \/ shown'[p] >= KnownCatalog
                      \/ \E f \in flight' : Promises(f, p, KnownCatalog)
    BY <1>2 DEF CoveredInv, KnownCatalog
  <2>1. shown[p] >= KnownCatalog \/ \E f \in flight : Promises(f, p, KnownCatalog)
    BY DEF PageIInv, CoveredInv
  <2>2. Promises(asked, "rows", KnownCatalog)
    BY <1>4 DEF Promises
  <2>3. p # "rows" => shown'[p] = shown[p]
    BY <1>1, <1>2 DEF PageTypeOK
  <2> QED BY <1>2, <1>3, <2>1, <2>2, <2>3
<1> QED BY <1>5, <1>6, <1>7 DEF PageIInv

\* An answer that is shown keeps its promise; one that does not is no loss, unless
\* it is older than what it replaces.
LEMMA ShowsStep == ASSUME PageIInv, NEW g \in flight, Shows(g) PROVE PageIInv'
<1>1. PageTypeOK /\ SeenInv
  BY DEF PageIInv
<1>2. g \in Requests /\ g.catalog \in Nat \ {0} /\ g.catalog <= served
  BY <1>1 DEF Shows, PageTypeOK, SeenInv, Requests
<1>3. /\ disturbed' = (disturbed \/ g.catalog < shown[g.part])
      /\ UNCHANGED <<served, revision, life, known, knownLife, heard>>
  BY DEF Shows
<1>4. disturbed' \in BOOLEAN /\ (~disturbed' => ~disturbed /\ ~(g.catalog < shown[g.part]))
  BY <1>1, <1>3, Zenon DEF PageTypeOK
<1>5. g.part \in Parts /\ \A p \in Parts : shown[p] \in Nat
  BY <1>1, <1>2 DEF PageTypeOK, Requests
<1>6. CASE Awaited(g.by) = {g}
  <2> DEFINE asked == [by |-> g.by, part |-> "rows", catalog |-> 0]
  <2>1. /\ flight' = (flight \ {g}) \cup Sent(g.by, {"rows"})
        /\ shown' = [p \in Parts |-> IF p = g.part THEN g.catalog
                                  ELSE IF p = "rows" THEN 0 ELSE shown[p]]
    BY <1>6 DEF Shows
  <2>2. g.by \in Polls /\ g.part \in Facts
    BY <1>6 DEF Awaited
  <2>3. Sent(g.by, {"rows"}) = {asked} /\ asked \in Requests
    BY <2>2 DEF Sent, Requests, Parts
  <2>4. asked.part = "rows" /\ asked.catalog = 0
    OBVIOUS
  <2> HIDE DEF asked
  <2>5. PageTypeOK'
    BY <1>1, <1>2, <1>3, <1>4, <1>5, <2>1, <2>3 DEF PageTypeOK
  <2>6. SeenInv'
    BY <1>1, <1>2, <1>3, <1>4, <1>5, <2>1, <2>3, <2>4 DEF PageTypeOK, SeenInv
  <2>7. CoveredInv'
    <3> SUFFICES ASSUME ~disturbed', known = 0 \/ knownLife = life, NEW p \in Parts
                 PROVE  \/ shown'[p] >= KnownCatalog
                        \/ \E f \in flight' : Promises(f, p, KnownCatalog)
      BY <1>3 DEF CoveredInv, KnownCatalog
    <3>1. KnownCatalog \in Nat
      BY <1>1, KnownServed
    <3>2. shown[p] >= KnownCatalog \/ \E f \in flight : Promises(f, p, KnownCatalog)
      BY <1>4 DEF PageIInv, CoveredInv
    <3>3. Promises(asked, "rows", KnownCatalog)
      BY <2>4 DEF Promises
    <3>4. CASE p = "rows"
      BY <2>1, <2>3, <3>3, <3>4
    <3>5. CASE p = g.part /\ p # "rows"
      <4>1. Promises(g, p, KnownCatalog) => g.catalog >= KnownCatalog
        BY <1>2, <3>5 DEF Promises
      <4>2. shown'[p] = g.catalog
        BY <2>1, <3>5
      <4>3. CASE shown[p] >= KnownCatalog
        BY <1>2, <1>4, <1>5, <3>1, <3>5, <4>2, <4>3
      <4>4. CASE \E f \in flight : Promises(f, p, KnownCatalog)
        BY <2>1, <4>1, <4>2, <4>4
      <4> QED BY <3>2, <4>3, <4>4
    <3>6. CASE p # g.part /\ p # "rows"
      <4>1. shown'[p] = shown[p] /\ ~Promises(g, p, KnownCatalog)
        BY <2>1, <3>6 DEF Promises
      <4> QED BY <2>1, <3>2, <4>1
    <3> QED BY <3>4, <3>5, <3>6
  <2> QED BY <2>5, <2>6, <2>7 DEF PageIInv
<1>7. CASE Awaited(g.by) # {g}
  <2>1. /\ flight' = flight \ {g}
        /\ shown' = [p \in Parts |-> IF p = g.part THEN g.catalog ELSE shown[p]]
    BY <1>7 DEF Shows
  <2>2. PageTypeOK'
    BY <1>1, <1>2, <1>3, <1>4, <1>5, <2>1 DEF PageTypeOK
  <2>3. SeenInv'
    BY <1>1, <1>2, <1>3, <1>4, <1>5, <2>1 DEF PageTypeOK, SeenInv
  <2>4. CoveredInv'
    <3> SUFFICES ASSUME ~disturbed', known = 0 \/ knownLife = life, NEW p \in Parts
                 PROVE  \/ shown'[p] >= KnownCatalog
                        \/ \E f \in flight' : Promises(f, p, KnownCatalog)
      BY <1>3 DEF CoveredInv, KnownCatalog
    <3>1. KnownCatalog \in Nat
      BY <1>1, KnownServed
    <3>2. shown[p] >= KnownCatalog \/ \E f \in flight : Promises(f, p, KnownCatalog)
      BY <1>4 DEF PageIInv, CoveredInv
    <3>3. CASE shown[p] >= KnownCatalog
      BY <1>2, <1>4, <1>5, <2>1, <3>1, <3>3
    <3>4. CASE g.part = p /\ g.catalog >= KnownCatalog
      BY <2>1, <3>4
    <3>5. CASE p = "rows" /\ g.by \in Polls /\ g.part \in Facts
      \* its poll still waits for another fact
      <4>1. PICK f \in Awaited(g.by) : f # g
        BY <1>7, <3>5 DEF Awaited
      <4>2. f \in flight' /\ Promises(f, p, KnownCatalog)
        BY <2>1, <3>5, <4>1 DEF Awaited, Promises
      <4> QED BY <4>2
    <3>6. CASE \E f \in flight \ {g} : Promises(f, p, KnownCatalog)
      BY <2>1, <3>6
    <3>7. Promises(g, p, KnownCatalog) =>
            \/ g.part = p /\ g.catalog >= KnownCatalog
            \/ p = "rows" /\ g.by \in Polls /\ g.part \in Facts
      BY <1>2 DEF Promises
    <3> QED BY <3>2, <3>3, <3>4, <3>5, <3>6, <3>7
  <2> QED BY <2>2, <2>3, <2>4 DEF PageIInv
<1> QED BY <1>6, <1>7

\* A failed request disturbs the page.
LEMMA PartFailsStep == ASSUME PageIInv, NEW g \in flight, PartFails(g) PROVE PageIInv'
<1>1. PageTypeOK /\ SeenInv
  BY DEF PageIInv
<1>2. /\ disturbed' = TRUE
      /\ shown' = IF g.part = "rows" THEN [shown EXCEPT !["rows"] = 0] ELSE shown
      /\ UNCHANGED <<served, revision, life, known, knownLife, heard>>
  BY DEF PartFails
<1>3. /\ shown' \in [Parts -> Nat] /\ \A p \in Parts : shown'[p] \in {0, shown[p]}
      /\ served \in Nat
  BY <1>1, <1>2 DEF PageTypeOK
<1>4. flight' \subseteq Requests /\ \A f \in flight' : f.catalog <= served
  <2>1. /\ flight' = (flight \ (Awaited(g.by) \cup {g}))
                     \cup {[f EXCEPT !.by = Script] : f \in Awaited(g.by) \ {g}}
        /\ Awaited(g.by) \subseteq flight
    BY DEF PartFails, Awaited
  <2>2. \A f \in flight : /\ [f EXCEPT !.by = Script] \in Requests
                        /\ [f EXCEPT !.by = Script].catalog = f.catalog
    BY <1>1 DEF PageTypeOK, Requests
  <2>3. flight \subseteq Requests /\ \A f \in flight : f.catalog <= served
    BY <1>1 DEF PageTypeOK, SeenInv
  <2>4. ASSUME NEW h \in flight' PROVE h \in Requests /\ h.catalog <= served
    <3>1. CASE h \in flight
      BY <2>3, <3>1
    <3>2. CASE h \notin flight
      <4>1. PICK f \in flight : h = [f EXCEPT !.by = Script]
        BY <2>1, <3>2
      <4> QED BY <2>2, <2>3, <4>1
    <3> QED BY <3>1, <3>2
  <2> QED BY <2>4
<1>5. PageTypeOK'
  BY <1>1, <1>2, <1>3, <1>4 DEF PageTypeOK
<1>6. SeenInv'
  BY <1>1, <1>2, <1>3, <1>4 DEF SeenInv
<1>7. CoveredInv'
  BY <1>2 DEF CoveredInv
<1> QED BY <1>5, <1>6, <1>7 DEF PageIInv

\* Every step keeps the invariant.
LEMMA NextPage == ASSUME PageIInv, [PageNext]_pageVars PROVE PageIInv'
<1>1. ASSUME NEW p \in Polls, StartsPoll(p) PROVE PageIInv'
  BY <1>1 DEF StartsPoll, PageIInv, PageTypeOK, SeenInv, CoveredInv, KnownCatalog, Promises
<1>2. CASE UNCHANGED pageVars
  BY <1>2 DEF pageVars, PageIInv, PageTypeOK, SeenInv, CoveredInv, KnownCatalog, Promises
<1> QED BY <1>1, <1>2, SwitchesStep, RestartsStep, ServesStatusStep, HearsStatusStep,
           StatusFailsStep, SearchesStep, ServesStep, ShowsStep, PartFailsStep DEF PageNext

(* A page that knows the revision being served, and waits for nothing,     *)
(* shows the catalog being served, unless it was disturbed.                *)
THEOREM PageCorrect == PageSpec => []PageIsCurrent
<1>1. PageInit => PageIInv
  BY InitPage
<1>2. PageIInv /\ [PageNext]_pageVars => PageIInv'
  BY NextPage
<1>3. PageIInv => PageIsCurrent
  <2> SUFFICES ASSUME PageIInv, flight = {}, known = revision, knownLife = life, ~disturbed,
                      NEW p \in Parts
               PROVE  shown[p] = served
    BY DEF PageIsCurrent
  <2>1. shown[p] >= KnownCatalog
    BY DEF PageIInv, CoveredInv
  <2>2. KnownCatalog = served /\ shown[p] \in Nat /\ served \in Nat /\ shown[p] <= served
    BY DEF PageIInv, PageTypeOK, SeenInv, KnownCatalog
  <2> QED BY <2>1, <2>2
<1> QED BY <1>1, <1>2, <1>3, PTL DEF PageSpec
=============================================================================
