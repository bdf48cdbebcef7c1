--------------------------- MODULE DashboardProofs ---------------------------
(***************************************************************************)
(* Proofs about Listing and Dashboard, for any table, filters, page sizes, *)
(* numbers of pages and refreshes in flight.                               *)
(***************************************************************************)
EXTENDS Dashboard, FiniteSetTheorems, SequenceTheorems, WellFoundedInduction, TLAPS

(***************************************************************************)
(* Induction, as the existence of a least counterexample.                  *)
(***************************************************************************)
Less == {p \in Nat \X Nat : p[1] < p[2]}

LEMMA LeastNat ==
  ASSUME NEW T, T \subseteq Nat, T # {}
  PROVE  \E x \in T : \A y \in T : x <= y
<1>1. IsWellFoundedOn(Less, Nat)
  BY NatLessThanWellFounded DEF OpToRel, Less
<1>2. PICK x \in T : \A y \in T : <<y, x>> \notin Less
  BY <1>1, WFMin
<1>3. ASSUME NEW y \in T
      PROVE  x <= y
  <2>1. x \in Nat /\ y \in Nat
    OBVIOUS
  <2>2. y < x => <<y, x>> \in Less
    BY <2>1 DEF Less
  <2> QED
    BY <1>2, <2>1, <2>2
<1> QED
  BY <1>3

(***************************************************************************)
(* FlattenSeq, which the library defines by recursion.                     *)
(***************************************************************************)
Flattens(g, seqs) ==
  g = [i \in 1 .. Len(seqs) |-> IF i = 1 THEN seqs[i] ELSE g[i - 1] \o seqs[i]]

LEMMA FlattensOnce ==
  ASSUME NEW seqs, Len(seqs) \in Nat, NEW f, NEW g, Flattens(f, seqs), Flattens(g, seqs)
  PROVE  f = g
<1> DEFINE D == {i \in 1 .. Len(seqs) : f[i] # g[i]}
<1>1. CASE D = {}
  <2>1. \A i \in 1 .. Len(seqs) : f[i] = g[i]
    BY <1>1
  <2>2. /\ f = [i \in 1 .. Len(seqs) |-> f[i]]
        /\ g = [i \in 1 .. Len(seqs) |-> g[i]]
    BY DEF Flattens
  <2> QED
    BY <2>1, <2>2
<1>2. CASE D # {}
  <2>0. D \subseteq Nat
    OBVIOUS
  <2> HIDE DEF D
  <2>1. PICK i \in D : \A j \in D : i <= j
    BY <1>2, <2>0, LeastNat
  <2> USE DEF D
  <2>2. i # 1 /\ i - 1 \in 1 .. Len(seqs) /\ i - 1 \notin D
    BY <2>1 DEF Flattens
  <2>3. f[i] = f[i - 1] \o seqs[i] /\ g[i] = g[i - 1] \o seqs[i]
    BY <2>2 DEF Flattens
  <2> QED
    BY <2>2, <2>3
<1> QED
  BY <1>1, <1>2

LEMMA FlattenIs ==
  ASSUME NEW seqs, Len(seqs) \in Nat \ {0}, NEW g, Flattens(g, seqs)
  PROVE  FlattenSeq(seqs) = g[Len(seqs)]
<1> DEFINE f == CHOOSE h : Flattens(h, seqs)
<1>1. Flattens(f, seqs)
  OBVIOUS
<1>2. f = g
  BY <1>1, FlattensOnce
<1>3. FlattenSeq(seqs) = f[Len(seqs)]
  BY DEF FlattenSeq, Flattens
<1> QED
  BY <1>2, <1>3

(***************************************************************************)
(* Pages.                                                                  *)
(***************************************************************************)
LEMMA TotalPagesFit ==
  ASSUME NEW total \in Nat, NEW limit \in Nat \ {0}
  PROVE  /\ TotalPages(total, limit) \in Nat \ {0}
         /\ total <= TotalPages(total, limit) * limit
         /\ \A k \in 1 .. TotalPages(total, limit) - 1 : k * limit < total
<1> DEFINE q == total \div limit
           r == total % limit
<1>1. /\ q \in Nat /\ r \in Nat /\ r < limit
      /\ total = q * limit + r
  OBVIOUS
<1>2. TotalPages(total, limit) = IF q + (IF r # 0 THEN 1 ELSE 0) < 1 THEN 1
                                ELSE q + (IF r # 0 THEN 1 ELSE 0)
  BY DEF TotalPages
<1> HIDE DEF q, r
<1> DEFINE n == TotalPages(total, limit)
<1>3. n = IF r # 0 THEN q + 1 ELSE IF q < 1 THEN 1 ELSE q
  BY <1>1, <1>2
<1> HIDE DEF n
<1>4. n \in Nat \ {0} /\ total <= n * limit
  BY <1>1, <1>3
<1>5. ASSUME NEW k \in 1 .. n - 1
      PROVE  k * limit < total
  <2>1. k <= q /\ (r = 0 => k <= q - 1)
    BY <1>1, <1>3
  <2>2. k * limit <= q * limit /\ (r = 0 => k * limit <= q * limit - limit)
    BY <1>1, <2>1
  <2> QED
    BY <1>1, <2>2
<1> QED
  BY <1>4, <1>5 DEF n

\* Cutting a sequence into pages and laying them end to end again.
LEMMA PagesFlatten ==
  ASSUME NEW S, NEW all \in Seq(S), NEW limit \in Nat \ {0}, NEW seqs,
         Len(seqs) = TotalPages(Len(all), limit),
         \A p \in 1 .. Len(seqs) :
           seqs[p] = SubSeq(all, (p - 1) * limit + 1, AtMost((p - 1) * limit + limit, Len(all)))
  PROVE  FlattenSeq(seqs) = all
<1> DEFINE n == Len(seqs)
           total == Len(all)
           to(k) == AtMost(k * limit, total)
           g == [k \in 1 .. n |-> SubSeq(all, 1, to(k))]
<1>1. /\ total \in Nat
      /\ n \in Nat \ {0} /\ total <= n * limit
      /\ \A k \in 1 .. n - 1 : k * limit < total
  <2>1. total \in Nat
    OBVIOUS
  <2> QED
    BY <2>1, TotalPagesFit
<1>2. \A p \in 1 .. n : seqs[p] = SubSeq(all, (p - 1) * limit + 1,
                                          AtMost((p - 1) * limit + limit, total))
  OBVIOUS
<1> HIDE DEF n, total
<1>3. ASSUME NEW k \in 1 .. n
      PROVE  g[k] = IF k = 1 THEN seqs[k] ELSE g[k - 1] \o seqs[k]
  <2>1. (k - 1) * limit + limit = k * limit /\ k * limit \in Nat /\ (k - 1) * limit \in Nat
    <3>1. k \in Nat \ {0}
      BY <1>1
    <3> QED
      BY <3>1
  <2>2. seqs[k] = SubSeq(all, (k - 1) * limit + 1, to(k))
    BY <1>2, <2>1
  <2>3. CASE k = 1
    <3>1. (k - 1) * limit + 1 = 1
      BY <2>3
    <3> QED
      BY <2>2, <2>3, <3>1
  <2>4. CASE k # 1
    <3> DEFINE a == (k - 1) * limit
               b == to(k)
    <3>1. k - 1 \in 1 .. n - 1 /\ k - 1 \in 1 .. n
      BY <1>1, <2>4
    <3>2. a < total /\ to(k - 1) = a
      BY <1>1, <2>1, <3>1 DEF AtMost
    <3>3. a \in 0 .. total /\ b \in a .. total
      BY <1>1, <2>1, <3>2 DEF AtMost
    <3>4. g[k] = SubSeq(all, 1, b) /\ g[k - 1] = SubSeq(all, 1, a)
      BY <3>1, <3>2
    <3>5. seqs[k] = SubSeq(all, a + 1, b)
      BY <2>2
    <3> HIDE DEF a, b, g, to
    <3>6. SubSeq(all, 1, a) \o SubSeq(all, a + 1, b) = SubSeq(all, 1, b)
      <4>1. 1 \in 1 .. Len(all) + 1 /\ a \in 1 - 1 .. Len(all) /\ b \in a .. Len(all)
        BY <1>1, <3>3 DEF total
      <4> QED
        BY <4>1, ConcatAdjacentSubSeq
    <3> QED
      BY <2>4, <3>4, <3>5, <3>6
  <2> QED
    BY <2>3, <2>4
<1>4. Flattens(g, seqs)
  <2>1. g = [k \in 1 .. n |-> IF k = 1 THEN seqs[k] ELSE g[k - 1] \o seqs[k]]
    BY <1>3
  <2> QED
    BY <2>1 DEF Flattens, n
<1>5. FlattenSeq(seqs) = g[n]
  BY <1>1, <1>4, FlattenIs DEF n
<1>6. g[n] = SubSeq(all, 1, total)
  <2>1. to(n) = total
    BY <1>1 DEF AtMost
  <2> QED
    BY <1>1, <2>1
<1>7. SubSeq(all, 1, total) = all
  BY SubSeqFull DEF total
<1> QED
  BY <1>5, <1>6, <1>7

\* The listing of finitely many ids is a sequence as long as they are many.
LEMMA NewestFirstIsSeq ==
  ASSUME NEW ids, IsFiniteSet(ids)
  PROVE  /\ \E S : NewestFirst(ids) \in Seq(S)
         /\ Len(NewestFirst(ids)) = Cardinality(ids)
<1> DEFINE n == Cardinality(ids)
           s == NewestFirst(ids)
           e(i) == CHOOSE id \in ids : Cardinality({other \in ids : other > id}) = i - 1
           S == {e(i) : i \in 1 .. n}
<1>1. n \in Nat
  BY FS_CardinalityType
<1>2. s = [i \in 1 .. n |-> e(i)]
  BY DEF NewestFirst
<1>3. \A i \in 1 .. n : e(i) \in S
  OBVIOUS
<1> HIDE DEF n, e, S, s
<1>4. s \in [1 .. n -> S]
  BY <1>2, <1>3
<1>5. s \in Seq(S) /\ Len(s) = n
  BY <1>1, <1>4
<1> QED
  BY <1>5 DEF n, s

\* A query asks for a page size it can get, and a page number is what it says.
LEMMA QueryMeans ==
  ASSUME NEW f, NEW s \in Nat \ {0}, NEW p \in Nat \ {0}
  PROVE  LET q == Query(f, 1, s)
         IN  /\ SizeOf(q) \in Nat \ {0}
             /\ Offset([q EXCEPT !.page = p]) = (p - 1) * SizeOf(q)
<1> DEFINE q == Query(f, 1, s)
           r == [q EXCEPT !.page = p]
<1>1. /\ q.size \in {s, Unset}
      /\ r.size = q.size /\ r.page = p
  BY DEF Query
<1> HIDE DEF q, r
<1>2. /\ MaxSize \in Nat /\ DefaultSize \in Nat \ {0} /\ Unset \notin Int
  BY ListingConstants
<1>3. SizeOf(q) \in Nat \ {0} /\ SizeOf(r) = SizeOf(q)
  BY <1>1, <1>2 DEF SizeOf
<1>4. PageOf(r) = p
  BY <1>1, <1>2 DEF PageOf
<1>5. Offset(r) = (p - 1) * SizeOf(q)
  BY <1>3, <1>4 DEF Offset
<1> QED
  BY <1>3, <1>5 DEF q, r

LEMMA PartitionHolds ==
  ASSUME NEW table, IsFiniteSet(DOMAIN table), NEW f, NEW s \in Nat \ {0}
  PROVE  PagesPartition(table, f, Query(f, 1, s))
<1> DEFINE q == Query(f, 1, s)
           limit == SizeOf(q)
           all == NewestFirst(Matching(table, f))
           n == TotalPages(Count(table, f), limit)
           seqs == [p \in 1 .. n |-> List(table, f, Offset([q EXCEPT !.page = p]), limit)]
<1>1. IsFiniteSet(Matching(table, f))
  <2>1. Matching(table, f) \subseteq DOMAIN table
    BY DEF Matching
  <2> QED
    BY <2>1, FS_Subset
<1>2. PICK S : all \in Seq(S)
  BY <1>1, NewestFirstIsSeq
<1>3. Len(all) = Count(table, f) /\ Len(all) \in Nat
  BY <1>1, NewestFirstIsSeq, FS_CardinalityType DEF Count
<1>4. /\ limit \in Nat \ {0}
      /\ \A p \in Nat \ {0} : Offset([q EXCEPT !.page = p]) = (p - 1) * limit
  BY QueryMeans
<1>5. n \in Nat \ {0}
  BY <1>3, <1>4, TotalPagesFit
<1>6. /\ DOMAIN seqs = 1 .. n
      /\ \A p \in 1 .. n : seqs[p] = List(table, f, (p - 1) * limit, limit)
  BY <1>4, <1>5
<1>7. \A from \in Nat : List(table, f, from, limit) =
                          SubSeq(all, from + 1, AtMost(from + limit, Len(all)))
  <2> SUFFICES ASSUME NEW from \in Nat
               PROVE  List(table, f, from, limit) =
                        SubSeq(all, from + 1, AtMost(from + limit, Len(all)))
    OBVIOUS
  <2> DEFINE o == IF from < 0 THEN 0 ELSE from
  <2>1. List(table, f, from, limit) = SubSeq(all, o + 1, AtMost(o + limit, Len(all)))
    BY Zenon DEF List
  <2>2. o = from
    OBVIOUS
  <2> QED
    BY <2>1, <2>2
<1>8. PagesPartition(table, f, q) <=> FlattenSeq(seqs) = all
  BY DEF PagesPartition
<1> HIDE DEF q, limit, all, n, seqs
<1>9. Len(seqs) = TotalPages(Len(all), limit) /\ Len(seqs) = n
  BY <1>3, <1>5, <1>6 DEF n
<1>10. ASSUME NEW p \in 1 .. Len(seqs)
       PROVE  seqs[p] = SubSeq(all, (p - 1) * limit + 1, AtMost((p - 1) * limit + limit, Len(all)))
  <2>1. p \in 1 .. n /\ (p - 1) * limit \in Nat
    <3>1. p \in Nat \ {0} /\ p \in 1 .. n
      BY <1>5, <1>9
    <3> QED
      BY <1>4, <3>1
  <2> QED
    BY <1>6, <1>7, <2>1
<1> QED
  BY <1>2, <1>4, <1>8, <1>9, <1>10, PagesFlatten DEF q

(***************************************************************************)
(* The page bar: its numbers before, in and after the window.              *)
(***************************************************************************)
Before(lo) == IF lo > 1 THEN <<1>> \o (IF lo > 2 THEN <<Gap>> ELSE <<>>) ELSE <<>>

After(hi, total) ==
  IF hi < total THEN (IF hi < total - 1 THEN <<Gap>> ELSE <<>>) \o <<total>> ELSE <<>>

LEMMA BeforeIs ==
  ASSUME NEW lo \in Nat \ {0}
  PROVE  /\ Before(lo) \in Seq(Int)
         /\ Len(Before(lo)) = IF lo = 1 THEN 0 ELSE IF lo = 2 THEN 1 ELSE 2
         /\ lo > 1 => Before(lo)[1] = 1
         /\ lo > 2 => Before(lo)[2] = Gap
<1>1. CASE lo = 1
  BY <1>1 DEF Before
<1>2. CASE lo = 2
  BY <1>2 DEF Before
<1>3. CASE lo > 2
  BY <1>3 DEF Before, Gap
<1> QED
  BY <1>1, <1>2, <1>3

LEMMA AfterIs ==
  ASSUME NEW total \in Nat \ {0}, NEW hi \in 1 .. total
  PROVE  /\ After(hi, total) \in Seq(Int)
         /\ Len(After(hi, total)) = IF hi = total THEN 0 ELSE IF hi = total - 1 THEN 1 ELSE 2
         /\ hi = total - 1 => After(hi, total)[1] = total
         /\ hi < total - 1 => After(hi, total)[1] = Gap /\ After(hi, total)[2] = total
<1>1. CASE hi = total
  BY <1>1 DEF After
<1>2. CASE hi = total - 1
  BY <1>2 DEF After
<1>3. CASE hi < total - 1
  BY <1>3 DEF After, Gap
<1> QED
  BY <1>1, <1>2, <1>3

LEMMA NumbersAre ==
  ASSUME NEW lo \in Int, NEW hi \in Int, lo <= hi
  PROVE  /\ Numbers(lo, hi) \in Seq(Int)
         /\ Len(Numbers(lo, hi)) = hi - lo + 1
         /\ \A i \in 1 .. hi - lo + 1 : Numbers(lo, hi)[i] = lo + i - 1
<1>1. Numbers(lo, hi) = [i \in 1 .. hi - lo + 1 |-> lo + i - 1]
  BY DEF Numbers
<1>2. \A i \in 1 .. hi - lo + 1 : lo + i - 1 \in Int
  OBVIOUS
<1>3. Numbers(lo, hi) \in [1 .. hi - lo + 1 -> Int]
  BY <1>1, <1>2
<1> QED
  BY <1>1, <1>3

LEMMA ThreeParts ==
  ASSUME NEW A \in Seq(Int), NEW B \in Seq(Int), NEW C \in Seq(Int),
         NEW a \in Nat, a = Len(A), NEW n \in Nat, n = Len(B), NEW c \in Nat, c = Len(C),
         NEW bars, bars = (A \o B) \o C
  PROVE  /\ bars \in Seq(Int) /\ Len(bars) = a + n + c
         /\ \A i \in 1 .. a : bars[i] = A[i]
         /\ \A i \in 1 .. n : bars[a + i] = B[i]
         /\ \A i \in 1 .. c : bars[a + n + i] = C[i]
<1>1. /\ A \o B \in Seq(Int) /\ Len(A \o B) = a + n
      /\ \A i \in 1 .. a + n : (A \o B)[i] = IF i <= a THEN A[i] ELSE B[i - a]
  BY ConcatProperties
<1>2. /\ bars \in Seq(Int) /\ Len(bars) = a + n + c
      /\ \A i \in 1 .. a + n + c : bars[i] = IF i <= a + n THEN (A \o B)[i] ELSE C[i - (a + n)]
  BY <1>1, ConcatProperties
<1>3. \A i \in 1 .. a + n : bars[i] = (A \o B)[i]
  BY <1>2
<1>4. \A i \in 1 .. a : bars[i] = A[i]
  BY <1>1, <1>3
<1>5. ASSUME NEW i \in 1 .. n
      PROVE  bars[a + i] = B[i]
  <2>1. a + i \in 1 .. a + n /\ ~(a + i <= a) /\ a + i - a = i
    OBVIOUS
  <2> QED
    BY <1>1, <1>3, <2>1
<1>6. ASSUME NEW i \in 1 .. c
      PROVE  bars[a + n + i] = C[i]
  <2>1. a + n + i \in 1 .. a + n + c /\ ~(a + n + i <= a + n) /\ a + n + i - (a + n) = i
    OBVIOUS
  <2> QED
    BY <1>2, <2>1
<1> QED
  BY <1>2, <1>4, <1>5, <1>6

\* The bar, position by position: `a' items before the window lo .. hi, `c' after.
BarShape(bars, total, lo, hi, a, c) ==
  /\ Len(bars) = a + (hi - lo + 1) + c
  /\ a = 0 => lo = 1
  /\ a = 1 => lo = 2
  /\ a = 2 => lo > 2 /\ bars[2] = Gap
  /\ a > 0 => bars[1] = 1
  /\ \A i \in 1 .. hi - lo + 1 : bars[a + i] = lo + i - 1
  /\ c = 0 => hi = total
  /\ c = 1 => hi = total - 1 /\ bars[a + (hi - lo + 1) + 1] = total
  /\ c = 2 => /\ hi < total - 1
              /\ bars[a + (hi - lo + 1) + 1] = Gap
              /\ bars[a + (hi - lo + 1) + 2] = total

LEMMA BarIs ==
  ASSUME NEW total \in Nat \ {0}, NEW current \in 1 .. total
  PROVE  \E lo \in 1 .. current, hi \in current .. total, a \in 0 .. 2, c \in 0 .. 2 :
           /\ BuildPageItems(current, total) \in Seq(Int)
           /\ BarShape(BuildPageItems(current, total), total, lo, hi, a, c)
           /\ \A p \in 1 .. total : p \in current - 2 .. current + 2 <=> p \in lo .. hi
<1> DEFINE lo == AtLeast(1, current - 2)
           hi == AtMost(total, current + 2)
           A == Before(lo)
           B == Numbers(lo, hi)
           C == After(hi, total)
           bars == BuildPageItems(current, total)
<1>1. lo \in 1 .. current /\ hi \in current .. total
  BY DEF AtLeast, AtMost
<1>2. \A p \in 1 .. total : p \in current - 2 .. current + 2 <=> p \in lo .. hi
  BY DEF AtLeast, AtMost
<1>3. bars = (A \o B) \o C
  BY DEF BuildPageItems, Before, After
<1> HIDE DEF lo, hi, bars
<1>4. lo \in Nat \ {0} /\ hi \in 1 .. total /\ lo <= hi /\ lo \in Int /\ hi \in Int
  BY <1>1
<1>5. PICK a \in 0 .. 2 :
        /\ A \in Seq(Int) /\ a = Len(A)
        /\ a = 0 => lo = 1
        /\ a = 1 => lo = 2
        /\ a = 2 => lo > 2 /\ A[2] = Gap
        /\ a > 0 => A[1] = 1
  BY <1>4, BeforeIs
<1>6. PICK c \in 0 .. 2 :
        /\ C \in Seq(Int) /\ c = Len(C)
        /\ c = 0 => hi = total
        /\ c = 1 => hi = total - 1 /\ C[1] = total
        /\ c = 2 => hi < total - 1 /\ C[1] = Gap /\ C[2] = total
  <2>1. /\ C \in Seq(Int)
        /\ Len(C) = IF hi = total THEN 0 ELSE IF hi = total - 1 THEN 1 ELSE 2
        /\ hi = total - 1 => C[1] = total
        /\ hi < total - 1 => C[1] = Gap /\ C[2] = total
    BY <1>4, AfterIs
  <2> HIDE DEF C
  <2>2. CASE hi = total
    BY <2>1, <2>2
  <2>3. CASE hi = total - 1
    BY <1>4, <2>1, <2>3
  <2>4. CASE hi < total - 1
    BY <1>4, <2>1, <2>4
  <2> QED
    BY <1>4, <2>2, <2>3, <2>4
<1>7. PICK n \in Nat :
        /\ n = hi - lo + 1
        /\ B \in Seq(Int) /\ n = Len(B)
        /\ \A i \in 1 .. n : B[i] = lo + i - 1
  <2>1. hi - lo + 1 \in Nat
    BY <1>4
  <2> QED
    BY <1>4, <2>1, NumbersAre
<1> HIDE DEF A, B, C
<1>8. /\ bars \in Seq(Int) /\ Len(bars) = a + n + c
      /\ \A i \in 1 .. a : bars[i] = A[i]
      /\ \A i \in 1 .. n : bars[a + i] = B[i]
      /\ \A i \in 1 .. c : bars[a + n + i] = C[i]
  <2>1. a \in Nat /\ c \in Nat /\ n \in Nat
    OBVIOUS
  <2>2. A \in Seq(Int) /\ B \in Seq(Int) /\ C \in Seq(Int)
    BY <1>5, <1>6, <1>7
  <2>3. a = Len(A) /\ n = Len(B) /\ c = Len(C)
    BY <1>5, <1>6, <1>7
  <2> QED
    BY <1>3, <2>1, <2>2, <2>3, ThreeParts
<1>9. /\ a = 2 => bars[2] = Gap
      /\ a > 0 => bars[1] = 1
  BY <1>5, <1>8
<1>10. /\ c = 1 => bars[a + n + 1] = total
       /\ c = 2 => bars[a + n + 1] = Gap /\ bars[a + n + 2] = total
  BY <1>6, <1>8
<1>11. BarShape(bars, total, lo, hi, a, c)
  BY <1>5, <1>6, <1>7, <1>8, <1>9, <1>10 DEF BarShape
<1> QED
  BY <1>1, <1>2, <1>8, <1>11 DEF bars

(***************************************************************************)
(* The bar buildPageItems makes, for any page of any number of pages: it   *)
(* shows the ends and the window around the page, in order, and a gap      *)
(* exactly where numbers are missing.                                      *)
(***************************************************************************)
THEOREM BarIsRight ==
  ASSUME NEW total \in Nat \ {0}, NEW current \in 1 .. total
  PROVE  IsBar(BuildPageItems(current, total), current, total)
<1>1. PICK lo \in 1 .. current, hi \in current .. total, a \in 0 .. 2, c \in 0 .. 2 :
        /\ BuildPageItems(current, total) \in Seq(Int)
        /\ BarShape(BuildPageItems(current, total), total, lo, hi, a, c)
        /\ \A p \in 1 .. total : p \in current - 2 .. current + 2 <=> p \in lo .. hi
  BY BarIs
<1>2. PICK bars : bars = BuildPageItems(current, total)
  OBVIOUS
<1>3. PICK n \in Nat \ {0} : n = hi - lo + 1
  <2>1. hi - lo + 1 \in Nat \ {0}
    BY <1>1
  <2> QED
    BY <2>1
<1>4. /\ Len(bars) = a + n + c /\ DOMAIN bars = 1 .. a + n + c /\ bars \in Seq(Int)
      /\ a = 0 => lo = 1
      /\ a = 1 => lo = 2
      /\ a = 2 => lo > 2 /\ bars[2] = 0
      /\ a > 0 => bars[1] = 1
      /\ \A i \in 1 .. n : bars[a + i] = lo + i - 1
      /\ c = 0 => hi = total
      /\ c = 1 => hi = total - 1 /\ bars[a + n + 1] = total
      /\ c = 2 => hi < total - 1 /\ bars[a + n + 1] = 0 /\ bars[a + n + 2] = total
  BY <1>1, <1>2, <1>3 DEF BarShape, Gap
<1>5. \A p \in 1 .. total : p \in current - 2 .. current + 2 <=> p \in lo .. hi
  BY <1>1
<1>6. ASSUME NEW i \in 1 .. a + n + c, bars[i] # 0
      PROVE  bars[i] \in 1 .. total /\ bars[i] \in {1, total} \cup (lo .. hi)
  <2>1. CASE i \in 1 .. a
    <3>1. bars[i] = 1
      BY <1>4, <1>6, <2>1
    <3> QED
      BY <3>1
  <2>2. CASE i \in a + 1 .. a + n
    <3>1. i - a \in 1 .. n /\ a + (i - a) = i
      BY <2>2
    <3>2. bars[i] = lo + (i - a) - 1
      BY <1>4, <3>1
    <3> QED
      BY <1>3, <3>1, <3>2
  <2>3. CASE i \in a + n + 1 .. a + n + c
    <3>1. i = a + n + 1 \/ i = a + n + 2
      BY <2>3
    <3>2. bars[i] = total
      BY <1>4, <1>6, <2>3, <3>1
    <3> QED
      BY <3>2
  <2> QED
    BY <2>1, <2>2, <2>3
<1>7. ASSUME NEW p \in 1 .. total, p \in {1, total} \cup (lo .. hi)
      PROVE  \E i \in 1 .. a + n + c : bars[i] = p
  <2>1. CASE p \in lo .. hi
    <3>1. p - lo + 1 \in 1 .. n /\ a + (p - lo + 1) \in 1 .. a + n + c
      BY <1>3, <2>1
    <3>2. bars[a + (p - lo + 1)] = lo + (p - lo + 1) - 1
      BY <1>4, <3>1
    <3>3. lo + (p - lo + 1) - 1 = p
      OBVIOUS
    <3> QED
      BY <3>1, <3>2, <3>3
  <2>2. CASE p = 1 /\ lo > 1
    <3>1. a > 0 /\ 1 \in 1 .. a + n + c
      BY <1>4, <2>2
    <3> QED
      BY <1>4, <2>2, <3>1
  <2>3. CASE p = total /\ hi < total
    <3>1. c = 1 \/ c = 2
      BY <1>4, <2>3
    <3>2. a + n + c \in 1 .. a + n + c /\ bars[a + n + c] = total
      BY <1>4, <3>1
    <3> QED
      BY <2>3, <3>2
  <2> QED
    BY <1>7, <2>1, <2>2, <2>3
<1>8. {bars[i] : i \in DOMAIN bars} \ {Gap}
        = {p \in 1 .. total : p \in {1, total} \cup (current - 2 .. current + 2)}
  <2>1. \A x : x \in {bars[i] : i \in DOMAIN bars} \ {Gap} <=>
               x # 0 /\ \E i \in 1 .. a + n + c : bars[i] = x
    BY <1>4 DEF Gap
  <2>2. \A x : x # 0 /\ (\E i \in 1 .. a + n + c : bars[i] = x) <=>
               x \in 1 .. total /\ x \in {1, total} \cup (lo .. hi)
    <3>1. \A x : x \in 1 .. total => x # 0
      OBVIOUS
    <3> QED
      BY <1>6, <1>7, <3>1, Zenon
  <2>3. \A x : x \in 1 .. total =>
          (x \in {1, total} \cup (lo .. hi) <=> x \in {1, total} \cup (current - 2 .. current + 2))
    BY <1>5, Zenon
  <2> QED
    BY <2>1, <2>2, <2>3, Zenon
<1>9. ASSUME NEW i \in 1 .. Len(bars) - 1, bars[i] # Gap
      PROVE  IF bars[i + 1] = Gap THEN bars[i] + 1 < bars[i + 2] ELSE bars[i] + 1 = bars[i + 1]
  <2>0. i \in 1 .. a + n + c - 1 /\ bars[i] # 0
    BY <1>4, <1>9 DEF Gap
  <2>w. bars[a + 1] = lo /\ bars[a + n] = hi
    <3>1. 1 \in 1 .. n /\ n \in 1 .. n /\ lo + 1 - 1 = lo /\ lo + n - 1 = hi
      BY <1>3
    <3> QED
      BY <1>4, <3>1
  <2>1. CASE i \in 1 .. a
    <3>1. i = 1 /\ bars[1] = 1
      BY <1>4, <2>0, <2>1
    <3>2. CASE a = 1
      BY <1>4, <2>w, <3>1, <3>2 DEF Gap
    <3>3. CASE a = 2
      BY <1>4, <2>w, <3>1, <3>3 DEF Gap
    <3> QED
      BY <2>1, <3>2, <3>3
  <2>2. CASE i \in a + 1 .. a + n - 1
    <3>1. /\ i - a \in 1 .. n /\ a + (i - a) = i
          /\ i - a + 1 \in 1 .. n /\ a + (i - a + 1) = i + 1
      BY <2>2
    <3>2. bars[i] = lo + (i - a) - 1 /\ bars[i + 1] = lo + (i - a + 1) - 1
      BY <1>4, <3>1
    <3>3. bars[i + 1] # 0 /\ bars[i] + 1 = bars[i + 1]
      BY <3>1, <3>2
    <3> QED
      BY <3>3 DEF Gap
  <2>3. CASE i = a + n
    <3>1. bars[i] = hi /\ c \in 1 .. 2 /\ i + 1 = a + n + 1 /\ i + 2 = a + n + 2
      BY <2>0, <2>3, <2>w
    <3>2. CASE c = 1
      BY <1>4, <3>1, <3>2 DEF Gap
    <3>3. CASE c = 2
      BY <1>4, <3>1, <3>3 DEF Gap
    <3> QED
      BY <3>1, <3>2, <3>3
  <2>4. CASE i \in a + n + 1 .. a + n + c - 1
    <3>1. i = a + n + 1 /\ c = 2
      BY <2>4
    <3> QED
      BY <1>4, <2>0, <3>1
  <2> QED
    BY <2>0, <2>1, <2>2, <2>3, <2>4
<1>10. \A i \in 1 .. Len(bars) - 1 :
         bars[i] # Gap => IF bars[i + 1] = Gap THEN bars[i] + 1 < bars[i + 2]
                                               ELSE bars[i] + 1 = bars[i + 1]
  BY <1>9, Zenon
<1>11. IsBar(bars, current, total)
  BY <1>8, <1>10, Zenon DEF IsBar
<1> QED
  BY <1>2, <1>11

(***************************************************************************)
(* What the table does while a page is open: the ids that exist stay below *)
(* the next one, so there are finitely many rows.                          *)
(***************************************************************************)
Rowed == nextId \in Nat \ {0} /\ DOMAIN tasks \subseteq 1 .. (nextId - 1)

LEMMA RowedIsFinite == Rowed => IsFiniteSet(DOMAIN tasks)
<1> SUFFICES ASSUME Rowed
             PROVE  IsFiniteSet(DOMAIN tasks)
  OBVIOUS
<1>1. 1 \in Int /\ nextId - 1 \in Int
  BY DEF Rowed
<1>2. IsFiniteSet(1 .. (nextId - 1))
  BY <1>1, FS_Interval
<1> QED
  BY <1>2, FS_Subset DEF Rowed

\* A refresh, or any other step of the page, leaves the table alone.
LEMMA PageStepsKeepTable ==
  ASSUME DashNext, ~Change
  PROVE  UNCHANGED storeVars
<1>1. CASE Timer
  BY <1>1 DEF Timer, Refresh
<1>2. CASE \E f \in Filters : Search(f)
  BY <1>2 DEF Search, Refresh
<1>3. CASE Restart
  BY <1>3 DEF Restart, Refresh
<1>4. CASE \E n \in 1 .. MaxId : GoPage(n)
  BY <1>4 DEF GoPage, Refresh
<1>5. CASE \E s \in Sizes : ChangePageSize(s)
  BY <1>5 DEF ChangePageSize, Refresh
<1>6. CASE ToggleAuto
  BY <1>6 DEF ToggleAuto, Refresh
<1>7. CASE \E slot \in Slots : Serve(slot) \/ ServeError(slot) \/ Fail(slot)
  BY <1>7 DEF Serve, ServeList, ServeCount, Handle, HandleError, ServeError, Fail
<1> QED
  BY <1>1, <1>2, <1>3, <1>4, <1>5, <1>6, <1>7 DEF DashNext

LEMMA RowedInit == DashInit => Rowed
<1> SUFFICES ASSUME DashInit
             PROVE  Rowed
  OBVIOUS
<1>1. PICK n \in 0 .. MaxId : nextId = n + 1 /\ tasks = Loaded(n)
  BY DEF DashInit
<1>2. DOMAIN tasks = 1 .. n /\ n \in Nat
  BY <1>1, StoreConstants DEF Loaded, StoreConstants
<1> QED
  BY <1>1, <1>2 DEF Rowed

LEMMA RowedStep == Rowed /\ [DashNext]_dashVars => Rowed'
<1> SUFFICES ASSUME Rowed, [DashNext]_dashVars
             PROVE  Rowed'
  OBVIOUS
<1>1. CASE UNCHANGED storeVars
  BY <1>1 DEF Rowed, storeVars
<1>2. CASE Change
  <2>1. CASE Create("once", 0, 0)
    <3>1. DOMAIN tasks' = DOMAIN tasks \cup {nextId} /\ nextId' = nextId + 1
      BY <2>1 DEF Create
    <3> QED
      BY <3>1 DEF Rowed
  <2>2. ASSUME NEW id \in DOMAIN tasks, Delete(id) \/ StopTask(id) \/ ResumeTask(id)
        PROVE  Rowed'
    <3>1. DOMAIN tasks' \subseteq DOMAIN tasks /\ nextId' = nextId
      BY <2>2 DEF Delete, StopTask, ResumeTask
    <3> QED
      BY <3>1 DEF Rowed
  <2> QED
    BY <1>2, <2>1, <2>2 DEF Change
<1> QED
  BY <1>1, <1>2, PageStepsKeepTable DEF dashVars, storeVars

LEMMA RowedMeaning == Rowed => PagesAreExact
<1> SUFFICES ASSUME Rowed, NEW f \in Filters, NEW s \in Sizes
             PROVE  PagesPartition(tasks, f, Query(f, 1, s))
  BY DEF PagesAreExact
<1>1. s \in Nat \ {0}
  BY DashConstants DEF DashConstants
<1> QED
  BY <1>1, RowedIsFinite, PartitionHolds

(***************************************************************************)
(* The pages of the table as it is at any moment, laid end to end, are the *)
(* matching rows in order and each once: List's LIMIT and OFFSET, Count    *)
(* and listTasks's number of pages agree for any table, filter and size.   *)
(***************************************************************************)
THEOREM PagesAreExactHolds == DashSpec => []PagesAreExact
<1>1. DashInit => Rowed
  BY RowedInit
<1>2. Rowed /\ [DashNext]_dashVars => Rowed'
  BY RowedStep
<1>3. Rowed => PagesAreExact
  BY RowedMeaning
<1> QED
  BY <1>1, <1>2, <1>3, PTL DEF DashSpec

(***************************************************************************)
(* The bar of buildPageItems, and of renderPagination in the browser, for  *)
(* every page of the numbers of pages the run tries, shows the ends, the   *)
(* window and the gaps; BarIsRight says it of any number of pages.         *)
(***************************************************************************)
THEOREM BarsAreRightHolds == BarsAreRight
<1> SUFFICES ASSUME NEW total \in 2 .. 9, NEW current \in 1 .. total
             PROVE  IsBar(BuildPageItems(current, total), current, total)
  BY DEF BarsAreRight
<1>1. total \in Nat \ {0}
  OBVIOUS
<1> QED
  BY <1>1, BarIsRight

(***************************************************************************)
(* The bar and the page variable.  Only handling an answer writes the bar, *)
(* and only sending a refresh writes the page otherwise; a page without a  *)
(* bar element never shows a bar, whatever is answered.                    *)
(***************************************************************************)
BarInv == PageIsBarPage /\ (~barEl => bar = Hidden)

LEMMA BarInvInit == DashInit => BarInv
BY DEF DashInit, BarInv, PageIsBarPage, Hidden

LEMMA RefreshKeepsBar ==
  ASSUME BarInv, NEW f, NEW p, NEW s, Refresh(f, p, s)
  PROVE  BarInv'
<1>1. PICK slot \in Slots : \E v : inflight' = Put(inflight, slot, v)
  BY DEF Refresh
<1>2. slot \in DOMAIN inflight'
  BY <1>1 DEF Put
<1>3. UNCHANGED <<barEl, bar>>
  BY DEF Refresh
<1> QED
  BY <1>2, <1>3 DEF BarInv, PageIsBarPage, Hidden

LEMMA ServerKeepsBar ==
  ASSUME BarInv, NEW slot,
         ServeList(slot) \/ ServeCount(slot) \/ ServeError(slot) \/ Fail(slot)
  PROVE  BarInv'
<1>1. UNCHANGED <<barEl, bar, page>>
  BY DEF ServeList, ServeCount, ServeError, Fail
<1>2. lost' \/ (DOMAIN inflight' = DOMAIN inflight /\ lost' = lost)
  BY DEF ServeList, ServeCount, ServeError, Fail
<1> QED
  BY <1>1, <1>2 DEF BarInv, PageIsBarPage, Hidden

LEMMA TakePageKeepsBar ==
  ASSUME BarInv, NEW p, NEW s, NEW n, TakePage(p, s, n), barEl' = barEl
  PROVE  BarInv'
<1>1. page' = p /\ bar' = IF barEl THEN [page |-> p, pages |-> n] ELSE bar
  BY DEF TakePage
<1>2. CASE barEl
  BY <1>1, <1>2 DEF BarInv, PageIsBarPage
<1>3. CASE ~barEl
  BY <1>1, <1>3 DEF BarInv, PageIsBarPage, Hidden
<1> QED
  BY <1>2, <1>3

LEMMA HandleKeepsBar ==
  ASSUME BarInv, NEW slot, Handle(slot) \/ HandleError(slot)
  PROVE  BarInv'
<1>0. barEl' = barEl
  BY DEF Handle, HandleError
<1>1. CASE HandleError(slot)
  BY <1>0, <1>1, TakePageKeepsBar DEF HandleError
<1>2. CASE Handle(slot)
  <2>1. CASE inflight[slot].pages <= 1
    <3>1. bar' = Hidden
      BY <1>2, <2>1 DEF Handle, BarInv
    <3> QED
      BY <3>1 DEF BarInv, PageIsBarPage, Hidden
  <2>2. CASE ~(inflight[slot].pages <= 1)
    <3>1. PICK p, s, n : TakePage(p, s, n)
      BY <1>2, <2>2 DEF Handle
    <3> QED
      BY <1>0, <3>1, TakePageKeepsBar
  <2> QED
    BY <2>1, <2>2
<1> QED
  BY <1>1, <1>2

LEMMA BarInvStep == BarInv /\ [DashNext]_dashVars => BarInv'
<1> SUFFICES ASSUME BarInv, [DashNext]_dashVars
             PROVE  BarInv'
  OBVIOUS
<1>0. CASE UNCHANGED pageVars
  BY <1>0 DEF pageVars, BarInv, PageIsBarPage, Hidden
<1>1. CASE Timer
  BY <1>1, RefreshKeepsBar DEF Timer
<1>2. CASE \E f \in Filters : Search(f)
  BY <1>2, RefreshKeepsBar DEF Search
<1>3. CASE Restart
  BY <1>3, RefreshKeepsBar DEF Restart
<1>4. CASE \E n \in 1 .. MaxId : GoPage(n)
  BY <1>4, RefreshKeepsBar DEF GoPage
<1>5. CASE \E s \in Sizes : ChangePageSize(s)
  BY <1>5, RefreshKeepsBar DEF ChangePageSize
<1>6. CASE ToggleAuto
  <2>1. CASE auto
    BY <1>6, <2>1 DEF ToggleAuto, BarInv, PageIsBarPage, Hidden
  <2>2. CASE ~auto
    BY <1>6, <2>2, RefreshKeepsBar DEF ToggleAuto
  <2> QED
    BY <2>1, <2>2
<1>7. ASSUME NEW slot \in Slots, Serve(slot) \/ ServeError(slot) \/ Fail(slot)
      PROVE  BarInv'
  BY <1>7, ServerKeepsBar, HandleKeepsBar DEF Serve
<1>8. CASE Change
  BY <1>0, <1>8 DEF Change
<1>9. CASE UNCHANGED dashVars
  BY <1>0, <1>9 DEF dashVars
<1> QED
  BY <1>1, <1>2, <1>3, <1>4, <1>5, <1>6, <1>7, <1>8, <1>9 DEF DashNext

(***************************************************************************)
(* When every answer is in and none was lost, the page the next refresh    *)
(* asks for is the one the bar shows as current, for any number of         *)
(* refreshes in flight handled in any order, error answers included.       *)
(***************************************************************************)
THEOREM PageIsBarPageHolds == DashSpec => []PageIsBarPage
<1>1. DashInit => BarInv
  BY BarInvInit
<1>2. BarInv /\ [DashNext]_dashVars => BarInv'
  BY BarInvStep
<1>3. BarInv => PageIsBarPage
  BY DEF BarInv
<1> QED
  BY <1>1, <1>2, <1>3, PTL DEF DashSpec
=============================================================================
