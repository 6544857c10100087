---------------------------- MODULE ListingProofs ----------------------------
(***************************************************************************)
(* Listings for any finite set of rows, any keys, users and page size: an  *)
(* agent sees rows of his own only, and the pages of a walk nothing tore   *)
(* miss no row that was there when it began.                               *)
(***************************************************************************)
EXTENDS Listing, FiniteSetTheorems, SequenceTheorems, TLAPS

\* A row that is the caller's has been noted as his, and so has what he saw.
HeldInv ==
  /\ \A i \in Items : place[i] > 0 /\ owner[i] = Caller => i \in held
  /\ Role[Caller] = "agent" => Seen \subseteq held

\* The rows that ORDER BY may put no later than i
Upto(i) == {j \in Matching : place[j] <= place[i]}

\* The rows that ORDER BY must put before i
Before(i) == {j \in Matching : place[j] < place[i]}

\* While nothing tears the walk, a row of the beginning that is on no page yet
\* still matches and lies behind the rows the pages have covered; the count
\* that ends the walk counts what the page is cut from.
WalkInv ==
  ~ torn =>
    /\ pc = "fetch" => total = Cardinality(Matching)
    /\ pc = "done" => initial \subseteq Seen
    /\ pc # "done" =>
         \A i \in initial \ Seen :
           i \in Matching /\ Cardinality(Upto(i)) > Len(pages) * PageSize

\* While nobody writes, each page is cut from an order of the same rows, and the
\* pages end where the rows do.
ExactInv ==
  ~ written =>
    /\ initial = Matching
    /\ \A p \in 1..Len(pages) : \E order \in Orders : pages[p] = PageRows(order, p)
    /\ pc = "fetch" => total = Cardinality(Matching)
    /\ pc # "done" /\ Len(pages) > 0 => Len(pages) * PageSize < Cardinality(Matching)
    /\ pc = "done" =>
         /\ Cardinality(Matching) <= Len(pages) * PageSize
         /\ Len(pages) > 1 => (Len(pages) - 1) * PageSize < Cardinality(Matching)

\* The inductive invariant.
ListingInv == TypeOK /\ HeldInv /\ WalkInv /\ ExactInv

-----------------------------------------------------------------------------
\* The matching rows can be counted, and so can those before one of them.
LEMMA Countable ==
  /\ IsFiniteSet(Matching) /\ Cardinality(Matching) \in Nat
  /\ Cardinality(Items) \in Nat /\ Cardinality(Matching) <= Cardinality(Items)
  /\ \A i \in Items : IsFiniteSet(Upto(i)) /\ Cardinality(Upto(i)) \in Nat
<1>1. /\ IsFiniteSet(Matching) /\ Cardinality(Matching) \in Nat
      /\ Cardinality(Items) \in Nat /\ Cardinality(Matching) <= Cardinality(Items)
  BY ItemsAssumption, FS_Subset, FS_CardinalityType DEF Matching
<1>2. ASSUME NEW i \in Items
      PROVE  IsFiniteSet(Upto(i)) /\ Cardinality(Upto(i)) \in Nat
  BY <1>1, FS_Subset, FS_CardinalityType DEF Upto
<1> QED
  BY <1>1, <1>2

\* An order is the matching rows, each at one position, nearer keys first.
LEMMA OrderFacts ==
  ASSUME NEW order \in Orders, NEW N, N = Cardinality(Matching)
  PROVE  /\ N \in Nat /\ order \in [1..N -> Matching]
         /\ order \in Seq(Items) /\ Len(order) = N
         /\ \A m, n \in 1..N : m # n => order[m] # order[n]
         /\ \A m, n \in 1..N : m < n => place[order[m]] <= place[order[n]]
         /\ \A i \in Matching : \E m \in 1..N : order[m] = i
<1>1. N \in Nat /\ IsFiniteSet(Matching)
  BY Countable
<1>2. /\ order \in [1..N -> Matching]
      /\ \A m, n \in 1..N : m # n => order[m] # order[n]
  BY DEF Orders, SetToSeqs
<1>3. order \in Seq(Items) /\ Len(order) = N
  <2>1. order \in Seq(Matching)
    BY <1>1, <1>2, SeqDef
  <2>2. Matching \subseteq Items
    BY DEF Matching
  <2>3. order \in Seq(Items)
    BY <2>1, <2>2, SeqMonotonic
  <2>4. DOMAIN order = 1..Len(order) /\ Len(order) \in Nat
    BY <2>1, LenProperties
  <2>5. DOMAIN order = 1..N
    BY <1>2
  <2>6. Len(order) = N
    BY <1>1, <2>4, <2>5
  <2> QED
    BY <2>3, <2>6
<1>4. \A m, n \in 1..N : m < n => place[order[m]] <= place[order[n]]
  BY <1>2 DEF Orders
<1>5. order \in Surjection(1..N, Matching)
  <2>1. order \in Injection(1..N, Matching)
    BY <1>2 DEF Injection, IsInjective
  <2>2. Cardinality(1..N) = N
    BY <1>1, FS_Interval
  <2> QED
    BY <1>1, <2>1, <2>2, FS_Injection
<1>6. \A i \in Matching : \E m \in 1..N : order[m] = i
  BY <1>5 DEF Surjection
<1> QED
  BY <1>1, <1>2, <1>3, <1>4, <1>6

\* Where no rows tie, every order has a row at the same position.
LEMMA Rank ==
  ASSUME TypeOK, ~ Tied, NEW order \in Orders, NEW m \in 1..Cardinality(Matching)
  PROVE  Cardinality(Upto(order[m])) = m
<1>0. PICK N : N = Cardinality(Matching)
  OBVIOUS
<1>1. /\ N \in Nat /\ order \in [1..N -> Matching]
      /\ \A k, n \in 1..N : k # n => order[k] # order[n]
      /\ \A k, n \in 1..N : k < n => place[order[k]] <= place[order[n]]
      /\ \A i \in Matching : \E n \in 1..N : order[n] = i
  BY <1>0, OrderFacts
<1>2. m \in Nat /\ m \in 1..N /\ N \in Nat
  BY <1>0, <1>1
<1>3. \A n \in 1..N : order[n] \in Matching /\ place[order[n]] \in Nat
  <2>1. \A i \in Matching : place[i] \in Nat
    BY DEF Matching, TypeOK
  <2> QED
    BY <1>1, <2>1
<1>4. \A n \in 1..N : place[order[n]] <= place[order[m]] <=> n <= m
  <2>1. ASSUME NEW n \in 1..N, n <= m
        PROVE  place[order[n]] <= place[order[m]]
    BY <1>1, <1>2, <1>3, <2>1
  <2>2. ASSUME NEW n \in 1..N, n > m
        PROVE  ~ (place[order[n]] <= place[order[m]])
    <3>1. place[order[m]] <= place[order[n]]
      BY <1>1, <1>2, <2>2
    <3>2. place[order[m]] # place[order[n]]
      BY <1>1, <1>2, <1>3, <2>2 DEF Tied
    <3> QED
      BY <1>2, <1>3, <3>1, <3>2
  <2> QED
    BY <1>2, <2>1, <2>2
<1> DEFINE first == [n \in 1..m |-> order[n]]
<1>5. first \in Bijection(1..m, Upto(order[m]))
  <2>1. first \in [1..m -> Upto(order[m])]
    <3>1. \A n \in 1..m : n \in 1..N /\ order[n] \in Upto(order[m])
      BY <1>2, <1>3, <1>4 DEF Upto
    <3> QED
      BY <3>1
  <2>2. \A k, n \in 1..m : first[k] = first[n] => k = n
    BY <1>1, <1>2
  <2>3. ASSUME NEW i \in Upto(order[m]) PROVE \E n \in 1..m : first[n] = i
    <3>1. PICK n \in 1..N : order[n] = i
      BY <1>1, <2>3 DEF Upto
    <3>2. n \in 1..m
      BY <1>2, <1>4, <2>3, <3>1 DEF Upto
    <3> QED
      BY <3>1, <3>2
  <2> QED
    BY <2>1, <2>2, <2>3 DEF Bijection, Injection, Surjection, IsInjective
<1> QED
  BY <1>2, <1>5, FS_CountingElements DEF ExistsBijection

\* LIMIT and OFFSET cut PageSize rows, or what is left of them.
LEMMA PageCut ==
  ASSUME NEW order \in Seq(Items), NEW page \in Nat \ {0}
  PROVE  /\ PageRows(order, page) \in Seq(Items)
         /\ ToSet(PageRows(order, page)) \subseteq ToSet(order)
         /\ \A m \in 1..Len(order) :
              (page - 1) * PageSize < m /\ m <= page * PageSize
                => order[m] \in ToSet(PageRows(order, page))
<1> DEFINE lo == (page - 1) * PageSize + 1
           hi == IF page * PageSize < Len(order) THEN page * PageSize ELSE Len(order)
           cut == SubSeq(order, lo, hi)
<1>1. Len(order) \in Nat /\ DOMAIN order = 1..Len(order)
      /\ \A m \in 1..Len(order) : order[m] \in Items
  BY LenProperties
<1>2. lo \in Nat \ {0} /\ hi \in Nat /\ hi <= Len(order)
  <2>1. page * PageSize \in Nat /\ (page - 1) * PageSize \in Nat
    BY SizesAssumption
  <2> QED
    BY <1>1, <2>1
<1> HIDE DEF lo, hi
<1>3. /\ cut \in Seq(Items)
      /\ Len(cut) = IF lo <= hi THEN hi - lo + 1 ELSE 0
      /\ \A m \in 1..(hi - lo + 1) : cut[m] = order[lo + m - 1]
  <2>1. \A m \in lo..hi : order[m] \in Items
    BY <1>1, <1>2
  <2> QED
    BY <1>2, <2>1, SubSeqProperties
<1>4. PageRows(order, page) = cut
  BY DEF PageRows, lo, hi
<1> HIDE DEF cut
<1>5. DOMAIN cut = 1..Len(cut) /\ Len(cut) \in Nat
  BY <1>3, LenProperties
<1>6. ToSet(cut) \subseteq ToSet(order)
  <2>1. ASSUME NEW k \in DOMAIN cut PROVE cut[k] \in ToSet(order)
    <3>1. k \in 1..(hi - lo + 1) /\ lo + k - 1 \in DOMAIN order
      BY <1>1, <1>2, <1>3, <1>5
    <3> QED
      BY <1>3, <3>1 DEF ToSet
  <2> QED
    BY <2>1 DEF ToSet
<1>7. ASSUME NEW m \in 1..Len(order),
             (page - 1) * PageSize < m, m <= page * PageSize
      PROVE  order[m] \in ToSet(cut)
  <2>1. lo <= m /\ m <= hi
    <3>1. (page - 1) * PageSize \in Nat
      BY SizesAssumption
    <3> QED
      BY <1>1, <1>7, <3>1 DEF lo, hi
  <2>2. m - lo + 1 \in 1..(hi - lo + 1) /\ m - lo + 1 \in DOMAIN cut
    BY <1>1, <1>2, <1>3, <1>5, <2>1
  <2>3. cut[m - lo + 1] = order[m]
    BY <1>1, <1>2, <1>3, <2>2
  <2> QED
    BY <2>2, <2>3 DEF ToSet
<1> QED
  BY <1>3, <1>4, <1>6, <1>7

\* LIMIT bounds a page, also one that lies past the last row.
LEMMA PageLimit ==
  ASSUME NEW order \in Seq(Items), NEW page \in Nat \ {0}
  PROVE  Len(PageRows(order, page)) <= PageSize
<1>1. PICK lo, n : lo = (page - 1) * PageSize /\ n = Len(order)
  OBVIOUS
<1>2. /\ lo \in Nat /\ n \in Nat /\ page * PageSize = lo + PageSize
      /\ PageSize \in Nat \ {0}
  BY <1>1, LenProperties, SizesAssumption
<1>3. PICK hi : hi = IF lo + PageSize < n THEN lo + PageSize ELSE n
  OBVIOUS
<1>4. PageRows(order, page) = SubSeq(order, lo + 1, hi)
  BY <1>1, <1>2, <1>3 DEF PageRows
<1>5. Len(SubSeq(order, lo + 1, hi)) = IF lo + 1 <= hi THEN hi - lo ELSE 0
  BY <1>1, <1>2, <1>3, SubSeqProperties
<1> QED
  BY <1>2, <1>3, <1>4, <1>5

\* The row at position k of an order has fewer than k rows before it, and no
\* fewer than k that come no later.
LEMMA Bounds ==
  ASSUME TypeOK, NEW order \in Orders, NEW k \in 1..Cardinality(Matching)
  PROVE  /\ Cardinality(Before(order[k])) \in Nat /\ Cardinality(Upto(order[k])) \in Nat
         /\ Cardinality(Before(order[k])) < k /\ k <= Cardinality(Upto(order[k]))
<1>1. PICK N : N = Cardinality(Matching)
  OBVIOUS
<1>2. /\ N \in Nat /\ order \in [1..N -> Matching]
      /\ \A m, n \in 1..N : m # n => order[m] # order[n]
      /\ \A m, n \in 1..N : m < n => place[order[m]] <= place[order[n]]
      /\ \A j \in Matching : \E m \in 1..N : order[m] = j
  BY <1>1, OrderFacts
<1>3. k \in 1..N /\ k \in Nat /\ k - 1 \in Nat /\ k > 0
  BY <1>1, <1>2
<1>4. \A n \in 1..N : order[n] \in Matching /\ place[order[n]] \in Nat
  <2>1. \A j \in Matching : place[j] \in Nat
    BY DEF Matching, TypeOK
  <2> QED
    BY <1>2, <2>1
<1>5. PICK i : i = order[k]
  OBVIOUS
<1>6. i \in Matching /\ i \in Items /\ place[i] \in Nat
  BY <1>3, <1>4, <1>5 DEF Matching
<1>7. /\ IsFiniteSet(Upto(i)) /\ Cardinality(Upto(i)) \in Nat
      /\ IsFiniteSet(Before(i)) /\ Cardinality(Before(i)) \in Nat
  <2>1. IsFiniteSet(Before(i))
    BY Countable, FS_Subset DEF Before
  <2> QED
    BY <1>6, <2>1, Countable, FS_CardinalityType
<1>8. Cardinality(Before(i)) < k
  <2> DEFINE front == {order[n] : n \in 1..(k - 1)}
  <2>1. IsFiniteSet(1..(k - 1)) /\ Cardinality(1..(k - 1)) = k - 1
    BY <1>3, FS_Interval
  <2>2. Before(i) \subseteq front
    <3>1. ASSUME NEW j \in Before(i) PROVE \E n \in 1..(k - 1) : order[n] = j
      <4>1. j \in Matching /\ place[j] < place[i]
        BY <3>1 DEF Before
      <4>2. PICK n \in 1..N : order[n] = j
        BY <1>2, <4>1
      <4>3. ~ (k <= n)
        <5>1. ASSUME k < n PROVE place[i] <= place[j]
          BY <1>2, <1>3, <1>5, <4>2, <5>1
        <5> QED
          BY <1>2, <1>3, <1>4, <1>5, <1>6, <4>1, <4>2, <5>1
      <4> QED
        BY <1>2, <1>3, <4>2, <4>3
    <3> QED
      BY <3>1
  <2>3. IsFiniteSet(front) /\ Cardinality(front) <= k - 1
    <3> DEFINE f == [n \in 1..(k - 1) |-> order[n]]
    <3>1. f \in Surjection(1..(k - 1), front)
      BY DEF Surjection
    <3> QED
      BY <2>1, <3>1, FS_Surjection
  <2>4. Cardinality(Before(i)) <= Cardinality(front) /\ Cardinality(front) \in Nat
    BY <2>2, <2>3, FS_Subset, FS_CardinalityType
  <2> QED
    BY <1>3, <1>7, <2>3, <2>4
<1>9. k <= Cardinality(Upto(i))
  <2> DEFINE g == [n \in 1..k |-> order[n]]
  <2>1. IsFiniteSet(1..k) /\ Cardinality(1..k) = k
    BY <1>3, FS_Interval
  <2>2. ASSUME NEW n \in 1..k PROVE n \in 1..N /\ order[n] \in Upto(i)
    <3>1. n \in 1..N
      BY <1>2, <1>3
    <3>2. place[order[n]] <= place[i]
      BY <1>2, <1>3, <1>4, <1>5, <1>6, <3>1
    <3> QED
      BY <1>4, <3>1, <3>2 DEF Upto
  <2>3. g \in Injection(1..k, Upto(i))
    BY <1>2, <2>2 DEF Injection, IsInjective
  <2> QED
    BY <1>7, <2>1, <2>3, FS_Injection
<1> QED
  BY <1>5, <1>7, <1>8, <1>9

\* However ties come out, the keys come in one order.
LEMMA SameKeys ==
  ASSUME TypeOK, NEW a \in Orders, NEW b \in Orders, NEW k \in 1..Cardinality(Matching)
  PROVE  a[k] \in Matching /\ b[k] \in Matching /\ ~ (place[a[k]] < place[b[k]])
<1>1. a[k] \in Matching /\ b[k] \in Matching
  BY OrderFacts
<1>2. SUFFICES ASSUME place[a[k]] < place[b[k]] PROVE FALSE
  BY <1>1
<1>3. Upto(a[k]) \subseteq Before(b[k])
  <2>1. \A j \in Matching : place[j] \in Nat
    BY DEF Matching, TypeOK
  <2> QED
    BY <1>1, <1>2, <2>1 DEF Upto, Before
<1>4. IsFiniteSet(Before(b[k]))
  BY Countable, FS_Subset DEF Before
<1>5. Cardinality(Upto(a[k])) <= Cardinality(Before(b[k]))
  BY <1>3, <1>4, FS_Subset
<1>6. k \in Nat
  BY Countable
<1> QED
  BY <1>5, <1>6, Bounds

\* What is on a page, row by row.
LEMMA PageContent ==
  ASSUME NEW order \in Seq(Items), NEW page \in Nat \ {0}, NEW n, n = Len(order),
         (page - 1) * PageSize <= n
  PROVE  LET rows == PageRows(order, page) IN
         /\ DOMAIN rows = 1..Len(rows)
         /\ Len(rows) = IF page * PageSize < n THEN PageSize
                        ELSE n - (page - 1) * PageSize
         /\ \A m \in 1..Len(rows) : rows[m] = order[(page - 1) * PageSize + m]
<1>1. n \in Nat /\ \A m \in 1..n : order[m] \in Items
  BY LenProperties
<1>2. PICK lo : lo = (page - 1) * PageSize
  OBVIOUS
<1>3. lo \in Nat /\ lo <= n /\ page * PageSize = lo + PageSize
      /\ PageSize \in Nat \ {0}
  BY <1>1, <1>2, SizesAssumption
<1>4. PICK hi : hi = IF lo + PageSize < n THEN lo + PageSize ELSE n
  OBVIOUS
<1>5. hi \in Nat /\ lo <= hi /\ hi <= n
  BY <1>1, <1>3, <1>4
<1>6. PICK rows : rows = SubSeq(order, lo + 1, hi)
  OBVIOUS
<1>7. /\ rows \in Seq(Items)
      /\ Len(rows) = hi - lo
      /\ \A m \in 1..(hi - lo) : rows[m] = order[lo + m]
  <2>1. \A m \in (lo + 1)..hi : order[m] \in Items
    BY <1>1, <1>3, <1>5
  <2>2. /\ rows \in Seq(Items)
        /\ Len(rows) = IF lo + 1 <= hi THEN hi - (lo + 1) + 1 ELSE 0
        /\ \A m \in 1..(hi - (lo + 1) + 1) : rows[m] = order[lo + 1 + m - 1]
    BY <1>3, <1>5, <1>6, <2>1, SubSeqProperties
  <2>3. Len(rows) = hi - lo
    BY <1>3, <1>5, <2>2
  <2>4. ASSUME NEW m \in 1..(hi - lo) PROVE rows[m] = order[lo + m]
    <3>1. m \in 1..(hi - (lo + 1) + 1) /\ lo + 1 + m - 1 = lo + m
      BY <1>3, <1>5
    <3> QED
      BY <2>2, <3>1
  <2> QED
    BY <2>2, <2>3, <2>4
<1>8. DOMAIN rows = 1..Len(rows)
  BY <1>7, LenProperties
<1>9. PageRows(order, page) = rows
  BY <1>2, <1>3, <1>4, <1>6 DEF PageRows
<1>10. Len(rows) = IF page * PageSize < n THEN PageSize ELSE n - (page - 1) * PageSize
  <2>1. Len(rows) = IF lo + PageSize < n THEN PageSize ELSE n - lo
    <3>1. CASE lo + PageSize < n
      BY <1>3, <1>4, <1>7, <3>1
    <3>2. CASE ~ (lo + PageSize < n)
      BY <1>3, <1>4, <1>7, <3>2
    <3> QED
      BY <3>1, <3>2
  <2>2. page * PageSize = lo + PageSize
    BY <1>3
  <2> QED
    BY <1>2, <2>1, <2>2, Zenon
<1> QED
  BY <1>2, <1>7, <1>8, <1>9, <1>10

\* As many pages as totalPages says are enough for the rows counted, and no
\* fewer are.
LEMMA PagesEnough ==
  ASSUME NEW n \in Nat
  PROVE  /\ TotalPages(n) \in Nat /\ n <= TotalPages(n) * PageSize
         /\ \A p \in Nat \ {0} : p < TotalPages(n) => p * PageSize < n
<1>1. CASE n = 0
  BY <1>1, SizesAssumption DEF TotalPages
<1>2. CASE n > 0
  <2>1. /\ (n + PageSize - 1) \div PageSize \in Nat
        /\ n <= ((n + PageSize - 1) \div PageSize) * PageSize
        /\ ((n + PageSize - 1) \div PageSize - 1) * PageSize < n
    BY <1>2, SizesAssumption
  <2>2. ASSUME NEW p \in Nat, p < (n + PageSize - 1) \div PageSize
        PROVE  p * PageSize < n
    <3>1. PICK q \in Nat : q = (n + PageSize - 1) \div PageSize
      BY <2>1
    <3>2. p <= q - 1 /\ (q - 1) * PageSize < n
      BY <2>1, <2>2, <3>1
    <3>3. p * PageSize <= (q - 1) * PageSize
      BY <3>1, <3>2, SizesAssumption
    <3>4. p * PageSize \in Int /\ (q - 1) * PageSize \in Int
      BY <3>1, SizesAssumption
    <3> QED
      BY <3>2, <3>3, <3>4
  <2> QED
    BY <1>2, <2>1, <2>2 DEF TotalPages
<1> QED
  BY <1>1, <1>2

-----------------------------------------------------------------------------
LEMMA InitListing == Init => ListingInv
<1> SUFFICES ASSUME Init PROVE ListingInv
  OBVIOUS
<1>1. TypeOK
  <2>1. 0 \in 0..Places
    BY SizesAssumption
  <2>2. pages \in Seq(Seq(Items)) /\ Len(pages) = 0
    BY EmptySeq DEF Init
  <2>3. total \in 0..Cardinality(Items)
    BY Countable DEF Init
  <2>4. \A p \in 1..Len(pages) : Len(pages[p]) <= PageSize
    BY <2>2
  <2>5. place \in [Items -> 0..Places] /\ owner \in [Items -> Users]
    BY <2>1, UsersAssumption DEF Init
  <2> QED
    BY <2>2, <2>3, <2>4, <2>5 DEF Init, TypeOK
<1>2. Seen = {}
  <2>1. Len(pages) = 0
    BY DEF Init
  <2> QED
    BY <2>1 DEF Seen
<1>3. HeldInv
  BY <1>2 DEF Init, HeldInv
<1>4. WalkInv
  BY DEF Init, WalkInv
<1>5. ExactInv
  <2>1. Matching = {} /\ Len(pages) = 0
    BY DEF Init, Matching, Matches
  <2> QED
    BY <2>1 DEF Init, ExactInv
<1> QED
  BY <1>1, <1>3, <1>4, <1>5 DEF ListingInv

\* Rows that stay as they are can be ordered as before.
LEMMA SameOrders == UNCHANGED <<place, owner>> => Orders' = Orders
BY DEF Orders, SetToSeqs, Matching, Matches

LEMMA CountRowsInv ==
  ASSUME ListingInv, CountRows
  PROVE  ListingInv'
<1> USE DEF ListingInv, CountRows, table
<1>1. Matching' = Matching /\ Seen' = Seen
  BY DEF Matching, Matches, Seen
<1>2. TypeOK'
  <2>1. total' \in 0..Cardinality(Items)
    BY Countable
  <2> QED
    BY <2>1 DEF TypeOK
<1>3. HeldInv'
  BY <1>1 DEF HeldInv
<1>4. \A i \in Items : Upto(i)' = Upto(i)
  BY <1>1 DEF Upto
<1>5. WalkInv'
  BY <1>1, <1>4 DEF WalkInv, TypeOK
<1>6. ExactInv'
  BY <1>1, SameOrders DEF ExactInv
<1> QED
  BY <1>2, <1>3, <1>5, <1>6

\* What a new page adds to what the client has seen.
LEMMA SeenGrows ==
  ASSUME TypeOK, NEW rows \in Seq(Items), pages' = Append(pages, rows)
  PROVE  /\ pages' \in Seq(Seq(Items)) /\ Len(pages) \in Nat
         /\ Len(pages') = Len(pages) + 1
         /\ Seen' = Seen \cup ToSet(rows)
<1>1. /\ pages \in Seq(Seq(Items)) /\ Len(pages) \in Nat
      /\ pages' \in Seq(Seq(Items)) /\ Len(pages') = Len(pages) + 1
      /\ \A p \in 1..Len(pages) : pages'[p] = pages[p]
      /\ pages'[Len(pages) + 1] = rows
  BY AppendProperties, LenProperties DEF TypeOK
<1>2. 1..Len(pages') = 1..Len(pages) \cup {Len(pages) + 1}
  BY <1>1
<1>3. Seen' = Seen \cup ToSet(rows)
  <2>1. Seen' = UNION {ToSet(pages'[p]) : p \in 1..Len(pages')}
    BY DEF Seen, ToSet
  <2>2. {ToSet(pages'[p]) : p \in 1..Len(pages')}
          = {ToSet(pages[p]) : p \in 1..Len(pages)} \cup {ToSet(rows)}
    BY <1>1, <1>2
  <2> QED
    BY <2>1, <2>2 DEF Seen
<1> QED
  BY <1>1, <1>3

LEMMA FetchPageInv ==
  ASSUME ListingInv, NEW order \in Orders, FetchPage(order)
  PROVE  ListingInv'
<1>1. PICK page : page = Len(pages) + 1
  OBVIOUS
<1>2. PICK N : N = Cardinality(Matching)
  OBVIOUS
<1>3. /\ pc = "fetch" /\ pages' = Append(pages, PageRows(order, page))
      /\ pc' = IF page < TotalPages(total) THEN "count" ELSE "done"
      /\ torn' = (torn \/ Tied)
      /\ UNCHANGED <<place, owner, held, total, initial, written>>
  BY <1>1 DEF FetchPage, table
<1>4. /\ N \in Nat /\ order \in [1..N -> Matching]
      /\ order \in Seq(Items) /\ Len(order) = N
      /\ \A i \in Matching : \E m \in 1..N : order[m] = i
  BY <1>2, OrderFacts
<1>5. TypeOK /\ Len(pages) \in Nat /\ page \in Nat \ {0}
  BY <1>1, LenProperties DEF ListingInv, TypeOK
<1> DEFINE rows == PageRows(order, page)
<1>6. /\ rows \in Seq(Items) /\ ToSet(rows) \subseteq Matching
      /\ \A m \in 1..N : (page - 1) * PageSize < m /\ m <= page * PageSize
                           => order[m] \in ToSet(rows)
  <2>1. ToSet(order) \subseteq Matching
    BY <1>4 DEF ToSet
  <2> QED
    BY <1>4, <1>5, <2>1, PageCut
<1> HIDE DEF rows
<1>7. /\ pages' \in Seq(Seq(Items)) /\ Len(pages') = page
      /\ Seen' = Seen \cup ToSet(rows)
  BY <1>1, <1>3, <1>5, <1>6, SeenGrows DEF rows
<1>8. TypeOK'
  <2>1. Len(rows) <= PageSize
    BY <1>4, <1>5, PageLimit DEF rows
  <2>2. ASSUME NEW p \in 1..Len(pages')
        PROVE  Len(pages'[p]) <= PageSize
    <3>1. CASE p = page
      BY <1>1, <1>3, <1>5, <1>6, <2>1, <3>1, AppendProperties DEF rows, TypeOK
    <3>2. CASE p # page
      <4>1. p \in 1..Len(pages)
        BY <1>1, <1>5, <1>7, <3>2
      <4>2. pages'[p] = pages[p]
        BY <1>3, <1>5, <1>6, <4>1, AppendProperties DEF rows, TypeOK
      <4> QED
        BY <1>5, <4>1, <4>2 DEF TypeOK
    <3> QED
      BY <3>1, <3>2
  <2> QED
    BY <1>3, <1>5, <1>7, <2>2 DEF TypeOK
<1>9. HeldInv'
  <2>1. Role[Caller] = "agent" => Matching \subseteq held
    BY UsersAssumption DEF ListingInv, HeldInv, Matching, Matches, ListScope
  <2> QED
    BY <1>3, <1>6, <1>7, <2>1 DEF ListingInv, HeldInv
<1>10. WalkInv'
  <2>1. SUFFICES ASSUME ~ torn, ~ Tied PROVE WalkInv'
    BY <1>3 DEF WalkInv
  <2>2. Matching' = Matching /\ \A i \in Items : Upto(i)' = Upto(i)
    BY <1>3 DEF Matching, Matches, Upto
  <2>3. ASSUME NEW i \in initial, i \notin Seen'
        PROVE  i \in Matching /\ Cardinality(Upto(i)) > page * PageSize
    <3>1. i \in Matching /\ Cardinality(Upto(i)) > (page - 1) * PageSize
      BY <1>1, <1>3, <1>5, <1>7, <2>1, <2>3 DEF ListingInv, WalkInv
    <3>2. PICK m \in 1..N : order[m] = i
      BY <1>4, <3>1
    <3>3. Cardinality(Upto(i)) = m
      BY <1>2, <1>5, <2>1, <3>2, Rank
    <3>4. page * PageSize \in Nat
      BY <1>5, SizesAssumption
    <3>5. m > page * PageSize
      BY <1>6, <1>7, <2>3, <3>1, <3>2, <3>3, <3>4
    <3> QED
      BY <3>1, <3>3, <3>5
  <2>4. CASE page < TotalPages(total)
    <3>1. pc' = "count"
      BY <1>3, <2>4
    <3>2. initial' \subseteq Items
      BY <1>8 DEF TypeOK
    <3> QED
      BY <1>3, <1>7, <2>2, <2>3, <3>1, <3>2 DEF WalkInv
  <2>5. CASE ~ (page < TotalPages(total))
    <3>1. pc' = "done"
      BY <1>3, <2>5
    <3>2. total = N
      BY <1>2, <1>3, <2>1 DEF ListingInv, WalkInv
    <3>3. N <= page * PageSize
      <4>1. TotalPages(N) \in Nat /\ N <= TotalPages(N) * PageSize
        BY <1>4, PagesEnough
      <4>2. TotalPages(N) <= page
        BY <1>5, <2>5, <3>2, <4>1
      <4>3. TotalPages(N) * PageSize <= page * PageSize
        BY <1>5, <4>1, <4>2, SizesAssumption
      <4>4. page * PageSize \in Nat /\ TotalPages(N) * PageSize \in Nat
        BY <1>5, <4>1, SizesAssumption
      <4> QED
        BY <1>4, <4>1, <4>3, <4>4
    <3>4. \A i \in Matching : Cardinality(Upto(i)) <= N
      BY <1>2, Countable, FS_Subset DEF Upto
    <3>5. initial \subseteq Seen'
      <4> SUFFICES ASSUME NEW i \in initial, i \notin Seen' PROVE FALSE
        OBVIOUS
      <4>1. i \in Matching /\ Cardinality(Upto(i)) > page * PageSize
        BY <2>3
      <4>2. Cardinality(Upto(i)) \in Nat /\ page * PageSize \in Nat
        BY <1>5, <4>1, Countable, SizesAssumption DEF Matching
      <4> QED
        BY <1>4, <3>3, <3>4, <4>1, <4>2
    <3> QED
      BY <1>3, <3>1, <3>5 DEF WalkInv
  <2> QED
    BY <2>4, <2>5
<1>11. ExactInv'
  <2>1. SUFFICES ASSUME ~ written PROVE ExactInv'
    BY <1>3 DEF ExactInv
  <2>2. ExactInv /\ Matching' = Matching /\ Orders' = Orders
    BY <1>3, SameOrders DEF ListingInv, Matching, Matches
  <2>3. initial = Matching /\ total = N
    BY <1>2, <1>3, <2>1, <2>2 DEF ExactInv
  <2>4. ASSUME NEW p \in 1..page
        PROVE  \E o \in Orders : pages'[p] = PageRows(o, p)
    <3>1. CASE p = page
      <4>1. pages'[page] = rows
        BY <1>1, <1>3, <1>5, <1>6, AppendProperties DEF rows, TypeOK
      <4> QED
        BY <3>1, <4>1 DEF rows
    <3>2. CASE p # page
      <4>1. p \in 1..Len(pages)
        BY <1>1, <1>5, <3>2
      <4>2. pages'[p] = pages[p]
        BY <1>3, <1>5, <1>6, <4>1, AppendProperties DEF rows, TypeOK
      <4> QED
        BY <2>1, <2>2, <4>1, <4>2 DEF ExactInv
    <3> QED
      BY <3>1, <3>2
  <2>5. page > 1 => (page - 1) * PageSize < N
    BY <1>1, <1>2, <1>3, <1>5, <2>1, <2>2 DEF ExactInv
  <2>6. /\ TotalPages(N) \in Nat /\ N <= TotalPages(N) * PageSize
        /\ page < TotalPages(N) => page * PageSize < N
    BY <1>4, <1>5, PagesEnough
  <2>7. CASE page < TotalPages(total)
    BY <1>2, <1>3, <1>7, <2>2, <2>3, <2>4, <2>6, <2>7 DEF ExactInv, PageRows
  <2>8. CASE ~ (page < TotalPages(total))
    <3>1. TotalPages(N) * PageSize <= page * PageSize
      BY <1>5, <2>3, <2>6, <2>8, SizesAssumption
    <3>2. page * PageSize \in Nat /\ TotalPages(N) * PageSize \in Nat
      BY <1>5, <2>6, SizesAssumption
    <3>3. N <= page * PageSize
      BY <1>4, <2>6, <3>1, <3>2
    <3> QED
      BY <1>2, <1>3, <1>7, <2>2, <2>3, <2>4, <2>5, <2>8, <3>3
         DEF ExactInv, PageRows
  <2> QED
    BY <2>7, <2>8
<1> QED
  BY <1>8, <1>9, <1>10, <1>11 DEF ListingInv

LEMMA StartWalkInv ==
  ASSUME ListingInv, StartWalk
  PROVE  ListingInv'
<1> USE DEF ListingInv, StartWalk, table
<1>1. Matching' = Matching /\ Matching \subseteq Items
  BY DEF Matching, Matches
<1>2. pages' \in Seq(Seq(Items)) /\ Len(pages') = 0
  BY EmptySeq
<1>3. Seen' = {}
  BY <1>2 DEF Seen
<1>4. TypeOK'
  <2>1. total' \in 0..Cardinality(Items)
    BY Countable
  <2>2. \A p \in 1..Len(pages') : Len(pages'[p]) <= PageSize
    BY <1>2
  <2> QED
    BY <1>1, <1>2, <2>1, <2>2 DEF TypeOK
<1>5. HeldInv'
  BY <1>3 DEF HeldInv
<1>6. WalkInv'
  <2>1. ASSUME NEW i \in Matching PROVE Cardinality(Upto(i)) > 0
    <3>1. i \in Upto(i)
      BY <2>1 DEF Upto, Matching, TypeOK
    <3>2. IsFiniteSet(Upto(i)) /\ Cardinality(Upto(i)) \in Nat
      BY <1>1, Countable
    <3>3. Cardinality(Upto(i)) # 0
      BY <3>1, <3>2, FS_EmptySet
    <3> QED
      BY <3>2, <3>3
  <2>2. \A i \in Items : Upto(i)' = Upto(i)
    BY <1>1 DEF Upto
  <2>3. Len(pages') * PageSize = 0
    BY <1>2, SizesAssumption
  <2> QED
    BY <1>1, <2>1, <2>2, <2>3 DEF WalkInv
<1>7. ExactInv'
  BY <1>1, <1>2 DEF ExactInv
<1> QED
  BY <1>4, <1>5, <1>6, <1>7

\* A statement of another request on row i, which must tear the walk if it
\* comes between the walk's two statements or to a matching row.
LEMMA WriteInv ==
  ASSUME ListingInv, NEW i \in Items, NEW p \in 0..Places, NEW u \in Users,
         NEW tears \in BOOLEAN, Write(i, p, u, tears),
         pc = "fetch" \/ i \in Matching => tears
  PROVE  ListingInv'
<1> USE DEF ListingInv, Write
<1>1. /\ place' = [place EXCEPT ![i] = p] /\ owner' = [owner EXCEPT ![i] = u]
      /\ held' = IF u = Caller THEN held \cup {i} ELSE held
      /\ torn' = (torn \/ tears) /\ written' = TRUE
      /\ UNCHANGED <<pc, total, pages, initial>>
  OBVIOUS
<1>2. TypeOK'
  BY <1>1 DEF TypeOK
<1>3. Seen' = Seen
  BY <1>1 DEF Seen
<1>4. \A j \in Items : j # i => place'[j] = place[j] /\ owner'[j] = owner[j]
  BY <1>1 DEF TypeOK
<1>5. owner'[i] = u
  BY <1>1 DEF TypeOK
<1>6. HeldInv'
  BY <1>1, <1>3, <1>4, <1>5 DEF HeldInv
<1>7. WalkInv'
  <2>1. SUFFICES ASSUME ~ torn, ~ tears PROVE WalkInv'
    BY <1>1 DEF WalkInv
  <2>2. pc # "fetch" /\ i \notin Matching
    BY <2>1
  <2>3. \A j \in Matching : j \in Matching' /\ place'[j] = place[j]
    BY <1>4, <2>2 DEF Matching, Matches
  <2>4. ASSUME NEW j \in Matching
        PROVE  Cardinality(Upto(j)) <= Cardinality(Upto(j)')
    <3>1. Upto(j) \subseteq Upto(j)'
      BY <2>3 DEF Upto
    <3>2. IsFiniteSet(Upto(j)')
      <4>1. Upto(j)' \subseteq Items
        BY DEF Upto, Matching
      <4> QED
        BY <4>1, ItemsAssumption, FS_Subset
    <3> QED
      BY <3>1, <3>2, FS_Subset
  <2>5. ASSUME pc # "done", NEW j \in initial, j \notin Seen
        PROVE  j \in Matching' /\ Cardinality(Upto(j)') > Len(pages) * PageSize
    <3>1. j \in Matching /\ Cardinality(Upto(j)) > Len(pages) * PageSize
      BY <2>1, <2>5 DEF WalkInv
    <3>2. Cardinality(Upto(j)) \in Nat /\ Len(pages) * PageSize \in Nat
      BY <3>1, Countable, LenProperties, SizesAssumption DEF TypeOK, Matching
    <3>3. Cardinality(Upto(j)') \in Nat
      <4>1. Upto(j)' \subseteq Items
        BY DEF Upto, Matching
      <4> QED
        BY <4>1, ItemsAssumption, FS_Subset, FS_CardinalityType
    <3> QED
      BY <2>3, <2>4, <3>1, <3>2, <3>3
  <2> QED
    BY <1>1, <1>3, <2>1, <2>2, <2>5 DEF WalkInv
<1>8. ExactInv'
  BY <1>1 DEF ExactInv
<1> QED
  BY <1>2, <1>6, <1>7, <1>8

LEMMA ListingNext ==
  ASSUME ListingInv, [Next]_vars
  PROVE  ListingInv'
<1>1. CASE CountRows
  BY <1>1, CountRowsInv
<1>2. ASSUME NEW order \in Orders, FetchPage(order) PROVE ListingInv'
  BY <1>2, FetchPageInv
<1>3. CASE StartWalk
  BY <1>3, StartWalkInv
<1>4. ASSUME NEW i \in Items, NEW p \in 0..Places, NEW u \in Users,
             InsertRow(i, p, u) \/ UpdateRow(i, p, u)
      PROVE  ListingInv'
  <2>1. CASE InsertRow(i, p, u)
    <3>1. i \notin Matching
      BY <2>1 DEF InsertRow, Matching, Matches
    <3> QED
      BY <2>1, <3>1, WriteInv DEF InsertRow
  <2>2. CASE UpdateRow(i, p, u)
    <3>1. Matches(i) \in BOOLEAN /\ (i \in Matching <=> Matches(i))
      BY DEF Matches, Matching
    <3> QED
      BY <2>2, <3>1, WriteInv DEF UpdateRow
  <2> QED
    BY <1>4, <2>1, <2>2
<1>5. CASE UNCHANGED vars
  <2>1. UNCHANGED <<place, owner, pc, total, pages, initial, written, torn, held>>
    BY <1>5 DEF vars
  <2>2. Matching' = Matching /\ Seen' = Seen
    BY <2>1 DEF Matching, Matches, Seen
  <2>3. \A i : Upto(i)' = Upto(i)
    BY <2>1, <2>2 DEF Upto
  <2>4. TypeOK' /\ HeldInv' /\ WalkInv'
    BY <2>1, <2>2, <2>3 DEF ListingInv, TypeOK, HeldInv, WalkInv
  <2>5. ExactInv'
    BY <2>1, <2>2, SameOrders DEF ListingInv, ExactInv, PageRows
  <2> QED
    BY <2>4, <2>5 DEF ListingInv
<1> QED
  BY <1>1, <1>2, <1>3, <1>4, <1>5 DEF Next

\* Every position is on a page.
LEMMA PageOf ==
  ASSUME NEW k \in Nat \ {0}
  PROVE  \E p \in Nat \ {0} : (p - 1) * PageSize < k /\ k <= p * PageSize
<1>1. PICK p : p = (k + PageSize - 1) \div PageSize
  OBVIOUS
<1>2. p \in Nat /\ k <= p * PageSize /\ (p - 1) * PageSize < k
  BY <1>1, SizesAssumption
<1>3. p # 0
  BY <1>2, SizesAssumption
<1> QED
  BY <1>2, <1>3

\* Multiples of the page size are numbers, and grow.
LEMMA Multiples ==
  ASSUME NEW p \in Nat, NEW q \in Nat
  PROVE  /\ p * PageSize \in Nat
         /\ p <= q => p * PageSize <= q * PageSize
         /\ (p + 1) * PageSize = p * PageSize + PageSize
         /\ PageSize \in Nat \ {0}
<1>1. PageSize \in Nat \ {0}
  BY SizesAssumption
<1>2. p * PageSize \in Nat /\ (p + 1) * PageSize = p * PageSize + PageSize
  BY <1>1
<1>3. p <= q => p * PageSize <= q * PageSize
  BY <1>1
<1> QED
  BY <1>1, <1>2, <1>3

\* A walk that has ended and that nobody disturbed is exact: each page is a cut
\* from an order, and the orders have equal keys at equal positions.
LEMMA ExactWalk ==
  ASSUME TypeOK, ExactInv, pc = "done", ~ written
  PROVE  WalkExact
<1>1. PICK N : N = Cardinality(Matching)
  OBVIOUS
<1>2. PICK last : last = Len(pages)
  OBVIOUS
<1>3. N \in Nat /\ last \in Nat /\ initial = Matching
  BY <1>1, <1>2, Countable, LenProperties DEF TypeOK, ExactInv
<1>4. /\ \A p \in 1..last : \E order \in Orders : pages[p] = PageRows(order, p)
      /\ N <= last * PageSize
      /\ last > 1 => (last - 1) * PageSize < N
  BY <1>1, <1>2 DEF ExactInv
<1>5. ASSUME NEW p \in 1..last
      PROVE  p \in Nat \ {0} /\ (p - 1) * PageSize \in Nat /\ (p - 1) * PageSize <= N
  <2>1. p \in Nat \ {0} /\ p - 1 \in Nat /\ last - 1 \in Nat /\ p - 1 <= last - 1
    BY <1>3
  <2>2. /\ (p - 1) * PageSize \in Nat /\ (last - 1) * PageSize \in Nat
        /\ (p - 1) * PageSize <= (last - 1) * PageSize
    BY <2>1, Multiples
  <2>3. CASE last > 1
    BY <1>3, <1>4, <2>1, <2>2, <2>3
  <2>4. CASE ~ (last > 1)
    <3>1. p - 1 = 0
      BY <1>3, <2>4
    <3>2. (p - 1) * PageSize = 0
      BY <3>1, SizesAssumption
    <3> QED
      BY <1>3, <2>1, <2>2, <3>2
  <2> QED
    BY <2>3, <2>4
<1>6. ASSUME NEW p \in 1..last, NEW order \in Orders, pages[p] = PageRows(order, p)
      PROVE  /\ DOMAIN pages[p] = 1..Len(pages[p])
             /\ Len(pages[p]) = IF p * PageSize < N THEN PageSize
                                ELSE N - (p - 1) * PageSize
             /\ \A m \in 1..Len(pages[p]) : pages[p][m] = order[(p - 1) * PageSize + m]
             /\ ToSet(pages[p]) \subseteq Matching
             /\ \A m \in 1..N : (p - 1) * PageSize < m /\ m <= p * PageSize
                                   => order[m] \in ToSet(pages[p])
  <2>1. order \in Seq(Items) /\ Len(order) = N /\ order \in [1..N -> Matching]
    BY <1>1, OrderFacts
  <2>2. ToSet(order) \subseteq Matching
    BY <2>1 DEF ToSet
  <2>3. p \in Nat \ {0} /\ (p - 1) * PageSize <= N
    BY <1>5
  <2>4. /\ DOMAIN pages[p] = 1..Len(pages[p])
        /\ Len(pages[p]) = IF p * PageSize < N THEN PageSize ELSE N - (p - 1) * PageSize
        /\ \A m \in 1..Len(pages[p]) : pages[p][m] = order[(p - 1) * PageSize + m]
    BY <1>6, <2>1, <2>3, PageContent
  <2>5. /\ ToSet(pages[p]) \subseteq ToSet(order)
        /\ \A m \in 1..N : (p - 1) * PageSize < m /\ m <= p * PageSize
                              => order[m] \in ToSet(pages[p])
    BY <1>6, <2>1, <2>3, PageCut
  <2> QED
    BY <2>2, <2>4, <2>5
<1>7. ASSUME NEW p \in 1..last
      PROVE  Len(pages[p]) = IF p < last THEN PageSize ELSE N - (p - 1) * PageSize
  <2>1. PICK order \in Orders : pages[p] = PageRows(order, p)
    BY <1>4
  <2>2. Len(pages[p]) = IF p * PageSize < N THEN PageSize ELSE N - (p - 1) * PageSize
    BY <1>6, <2>1
  <2>3. CASE p < last
    <3>1. p \in Nat /\ last - 1 \in Nat /\ p <= last - 1 /\ last > 1
      BY <1>3, <2>3
    <3>2. /\ p * PageSize \in Nat /\ (last - 1) * PageSize \in Nat
          /\ p * PageSize <= (last - 1) * PageSize
      BY <3>1, Multiples
    <3>3. p * PageSize < N
      BY <1>3, <1>4, <3>1, <3>2
    <3> QED
      BY <2>2, <2>3, <3>3
  <2>4. CASE ~ (p < last)
    <3>1. p = last /\ p - 1 \in Nat
      BY <1>3, <2>4
    <3>2. p * PageSize = (p - 1) * PageSize + PageSize /\ (p - 1) * PageSize \in Nat
          /\ PageSize \in Nat
      <4>1. p = (p - 1) + 1
        BY <1>3
      <4> QED
        BY <3>1, <4>1, Multiples
    <3>3. ~ (p * PageSize < N)
      BY <1>3, <1>4, <3>1, <3>2
    <3> QED
      BY <2>2, <2>4, <3>3
  <2> QED
    BY <2>3, <2>4
<1>8. ASSUME NEW p \in 1..last, NEW m \in DOMAIN pages[p]
      PROVE  /\ m \in Nat \ {0} /\ m <= PageSize
             /\ (p - 1) * PageSize + m \in 1..N
             /\ \A b \in Orders : /\ pages[p][m] \in Matching
                                  /\ b[(p - 1) * PageSize + m] \in Matching
                                  /\ place[pages[p][m]] = place[b[(p - 1) * PageSize + m]]
  <2>1. PICK a \in Orders : pages[p] = PageRows(a, p)
    BY <1>4
  <2>2. PICK lo : lo = (p - 1) * PageSize
    OBVIOUS
  <2>3. /\ DOMAIN pages[p] = 1..Len(pages[p])
        /\ Len(pages[p]) = IF p * PageSize < N THEN PageSize ELSE N - lo
        /\ pages[p][m] = a[lo + m]
    BY <1>6, <2>1, <2>2
  <2>4. lo \in Nat /\ lo <= N
    BY <1>5, <2>2
  <2>5. p * PageSize = lo + PageSize /\ PageSize \in Nat \ {0}
    <3>1. p - 1 \in Nat /\ p = (p - 1) + 1
      BY <1>3
    <3> QED
      BY <2>2, <3>1, Multiples
  <2>6. m \in Nat \ {0} /\ m <= PageSize /\ lo + m \in 1..N
    <3>1. CASE lo + PageSize < N
      BY <1>3, <2>3, <2>4, <2>5, <3>1
    <3>2. CASE ~ (lo + PageSize < N)
      BY <1>3, <2>3, <2>4, <2>5, <3>2
    <3> QED
      BY <3>1, <3>2
  <2>7. ASSUME NEW b \in Orders
        PROVE  /\ a[lo + m] \in Matching /\ b[lo + m] \in Matching
               /\ place[a[lo + m]] = place[b[lo + m]]
    <3>1. /\ a[lo + m] \in Matching /\ b[lo + m] \in Matching
          /\ ~ (place[a[lo + m]] < place[b[lo + m]])
          /\ ~ (place[b[lo + m]] < place[a[lo + m]])
      BY <1>1, <2>6, SameKeys
    <3>2. place[a[lo + m]] \in Nat /\ place[b[lo + m]] \in Nat
      BY <3>1 DEF TypeOK, Matching
    <3> QED
      BY <3>1, <3>2
  <2> QED
    BY <2>2, <2>3, <2>6, <2>7
<1>9. ASSUME NEW p \in 1..last, NEW q \in 1..last,
             NEW m \in DOMAIN pages[p], NEW n \in DOMAIN pages[q],
             p < q \/ (p = q /\ m < n)
      PROVE  place[pages[p][m]] <= place[pages[q][n]]
  <2>1. PICK b \in Orders : pages[q] = PageRows(b, q)
    BY <1>4
  <2>2. PICK j, k : j = (p - 1) * PageSize + m /\ k = (q - 1) * PageSize + n
    OBVIOUS
  <2>3. /\ j \in 1..N /\ k \in 1..N
        /\ place[pages[p][m]] = place[b[j]] /\ place[pages[q][n]] = place[b[k]]
    BY <1>8, <2>2
  <2>4. j < k
    <3>1. p - 1 \in Nat /\ q - 1 \in Nat /\ p \in Nat /\ p = (p - 1) + 1
      BY <1>3
    <3>2. /\ (p - 1) * PageSize \in Nat /\ (q - 1) * PageSize \in Nat
          /\ p * PageSize = (p - 1) * PageSize + PageSize /\ PageSize \in Nat
      BY <3>1, Multiples
    <3>3. m \in Nat \ {0} /\ m <= PageSize /\ n \in Nat \ {0}
      BY <1>8
    <3>4. CASE p < q
      <4>1. p <= q - 1
        BY <1>3, <3>4
      <4>2. p * PageSize <= (q - 1) * PageSize
        BY <3>1, <4>1, Multiples
      <4> QED
        BY <2>2, <3>2, <3>3, <4>2
    <3>5. CASE p = q /\ m < n
      BY <2>2, <3>2, <3>3, <3>5
    <3> QED
      BY <1>9, <3>4, <3>5
  <2> QED
    BY <1>1, <2>3, <2>4, OrderFacts
<1>10. ASSUME ~ TieAcrossPages PROVE Seen = initial
  <2>1. Seen \subseteq Matching
    <3>1. ASSUME NEW p \in 1..last PROVE ToSet(pages[p]) \subseteq Matching
      BY <1>4, <1>6
    <3> QED
      BY <1>2, <3>1 DEF Seen
  <2>2. ASSUME NEW i \in Matching PROVE i \in Seen
    <3>1. PICK a \in Orders : TRUE
      <4>1. Cardinality(Matching) # 0
        BY Countable, FS_EmptySet
      <4>2. last # 0
        BY <1>1, <1>3, <1>4, <4>1, SizesAssumption
      <4>3. 1 \in 1..last
        BY <1>3, <4>2
      <4> QED
        BY <1>4, <4>3
    <3>2. PICK k \in 1..N : a[k] = i
      BY <1>1, OrderFacts
    <3>3. PICK p \in Nat \ {0} : (p - 1) * PageSize < k /\ k <= p * PageSize
      BY <1>3, <3>2, PageOf
    <3>4. /\ p - 1 \in Nat /\ (p - 1) * PageSize \in Nat /\ p * PageSize \in Nat
          /\ p - 1 <= (p - 1) * PageSize /\ last * PageSize \in Nat
      <4>1. p - 1 \in Nat
        BY <3>3
      <4>2. (p - 1) * PageSize \in Nat /\ p * PageSize \in Nat /\ last * PageSize \in Nat
        BY <1>3, <3>3, <4>1, Multiples
      <4>3. p - 1 <= (p - 1) * PageSize
        BY <4>1, SizesAssumption
      <4> QED
        BY <4>1, <4>2, <4>3
    <3>5. p \in 1..N
      BY <1>3, <3>2, <3>3, <3>4
    <3>6. p \in 1..last
      <4> SUFFICES ASSUME last <= p - 1 PROVE FALSE
        BY <1>3, <3>3
      <4>1. last * PageSize <= (p - 1) * PageSize
        BY <1>3, <3>4, Multiples
      <4> QED
        BY <1>3, <1>4, <3>2, <3>3, <3>4, <4>1
    <3>7. PICK b \in Orders : pages[p] = PageRows(b, p)
      BY <1>4, <3>6
    <3>8. PICK n \in 1..N : b[n] = i
      BY <1>1, OrderFacts
    <3>9. /\ Cardinality(Before(i)) \in Nat /\ Cardinality(Upto(i)) \in Nat
          /\ Cardinality(Before(i)) < k /\ k <= Cardinality(Upto(i))
          /\ Cardinality(Before(i)) < n /\ n <= Cardinality(Upto(i))
      BY <1>1, <3>2, <3>8, Bounds
    <3>10. \A page \in 1..N : ~ (Cardinality(Before(i)) < page * PageSize
                                /\ page * PageSize < Cardinality(Upto(i)))
      BY <1>1, <1>3, <1>10 DEF TieAcrossPages, Before, Upto
    <3>11. n <= p * PageSize
      BY <1>3, <3>2, <3>3, <3>4, <3>5, <3>8, <3>9, <3>10
    <3>12. (p - 1) * PageSize < n
      <4>1. CASE p = 1
        <5>1. (p - 1) * PageSize = 0
          BY <4>1, SizesAssumption
        <5> QED
          BY <1>3, <3>8, <5>1
      <4>2. CASE p # 1
        <5>1. p - 1 \in 1..N
          BY <1>3, <3>5, <4>2
        <5>2. ~ (Cardinality(Before(i)) < (p - 1) * PageSize
                   /\ (p - 1) * PageSize < Cardinality(Upto(i)))
          BY <3>10, <5>1
        <5> QED
          BY <1>3, <3>2, <3>3, <3>4, <3>8, <3>9, <5>2
      <4> QED
        BY <4>1, <4>2
    <3>13. i \in ToSet(pages[p])
      BY <1>6, <3>6, <3>7, <3>8, <3>11, <3>12
    <3> QED
      BY <1>2, <3>6, <3>13 DEF Seen
  <2> QED
    BY <1>3, <2>1, <2>2
<1> QED
  BY <1>1, <1>2, <1>3, <1>4, <1>7, <1>9, <1>10 DEF WalkExact

\* The inductive invariant holds in every reachable state.
THEOREM ListingInvariant == Spec => []ListingInv
<1>1. Init => ListingInv
  BY InitListing
<1>2. ListingInv /\ [Next]_vars => ListingInv'
  BY ListingNext
<1> QED
  BY <1>1, <1>2, PTL DEF Spec

\* Every variable of the listing keeps its type.
THEOREM ListingTypes == Spec => []TypeOK
<1>1. ListingInv => TypeOK
  BY DEF ListingInv
<1> QED
  BY <1>1, ListingInvariant, PTL

\* An agent is shown rows of his own only, whatever he asks for and however
\* rows are reassigned while he reads.
THEOREM AgentsSeeTheirOwn == Spec => []AgentSeesOwn
<1>1. ListingInv => AgentSeesOwn
  BY DEF ListingInv, HeldInv, AgentSeesOwn
<1> QED
  BY <1>1, ListingInvariant, PTL

\* A walk that nothing has torn misses no row that was there when it began.
THEOREM WalksAreComplete == Spec => []WalkComplete
<1>1. ListingInv => WalkComplete
  BY DEF ListingInv, WalkInv, WalkComplete
<1> QED
  BY <1>1, ListingInvariant, PTL

\* A walk over rows nobody writes has full pages in order, no empty one but that
\* of an empty list, and every row on them unless a tie lies across two pages.
THEOREM WalksAreExact == Spec => []WalkExact
<1>1. ListingInv => WalkExact
  BY ExactWalk DEF ListingInv, WalkExact
<1> QED
  BY <1>1, ListingInvariant, PTL
=============================================================================
