------------------------- MODULE X86Discovery_proofs -------------------------
(***************************************************************************)
(* Proofs about RangeSet and X86Discovery, for code sections of every size *)
(* and any number of markers.                                              *)
(***************************************************************************)
EXTENDS X86Discovery, WellFoundedInduction, TLAPS

(* RangeSet: the list stays sorted, its ranges apart, and stands for the   *)
(* set of the numbers added.                                               *)

(* Induction: a set of counterexamples that is not empty has a least one.  *)
LEMMA LeastIn == ASSUME NEW T \in SUBSET Nat, T # {}
                 PROVE  \E m \in T : \A n \in T : m <= n
<1>1. PICK m \in T : \A n \in T : <<n, m>> \notin OpToRel(<, Nat)
  BY NatLessThanWellFounded, WFMin
<1>2. ASSUME NEW n \in T PROVE m <= n
  <2>1. ~(n < m)
    BY <1>1 DEF OpToRel
  <2> QED BY <2>1
<1> QED BY <1>2

(* What is bounded above has a greatest element.                           *)
LEMMA GreatestIn == ASSUME NEW n \in Nat, NEW T \in SUBSET (0 .. n), T # {}
                    PROVE  \E m \in T : \A k \in T : k <= m
<1>1. \A k \in T : k \in 0 .. n /\ n - k \in Nat
  OBVIOUS
<1>2. {n - k : k \in T} \in SUBSET Nat /\ {n - k : k \in T} # {}
  BY <1>1
<1>3. PICK m \in {n - k : k \in T} : \A j \in {n - k : k \in T} : m <= j
  BY <1>2, LeastIn
<1>4. PICK k \in T : m = n - k
  BY <1>3
<1>5. ASSUME NEW j \in T PROVE j <= k
  <2>1. m <= n - j
    BY <1>3
  <2> QED BY <1>4, <2>1
<1> QED BY <1>5

(* The Min and Max of a set are the elements that bound it.                *)
LEMMA MinIs == ASSUME NEW S \in SUBSET Int, NEW m \in S, \A x \in S : m <= x PROVE Min(S) = m
<1>1. Min(S) \in S /\ \A x \in S : Min(S) <= x
  BY Zenon DEF Min
<1>2. m \in Int /\ Min(S) \in Int /\ m <= Min(S) /\ Min(S) <= m
  BY <1>1
<1> QED BY <1>2

LEMMA MaxIs == ASSUME NEW S \in SUBSET Int, NEW m \in S, \A x \in S : x <= m PROVE Max(S) = m
<1>1. Max(S) \in S /\ \A x \in S : Max(S) >= x
  BY Zenon DEF Max
<1>2. m \in Int /\ Max(S) \in Int /\ m >= Max(S) /\ Max(S) >= m
  BY <1>1
<1> QED BY <1>2

(* ... of two numbers, one of them.                                        *)
LEMMA MinOfTwo ==
  ASSUME NEW a \in Int, NEW b \in Int, NEW m, m = Min({a, b})
  PROVE  m \in Int /\ m <= a /\ m <= b /\ (m = a \/ m = b)
<1>1. {a, b} \in SUBSET Int
  OBVIOUS
<1>2. CASE a <= b
  <2>1. a \in {a, b} /\ \A x \in {a, b} : a <= x
    BY <1>2
  <2>2. m = a
    BY <1>1, <2>1, MinIs
  <2> QED BY <1>2, <2>2
<1>3. CASE b <= a
  <2>1. b \in {a, b} /\ \A x \in {a, b} : b <= x
    BY <1>3
  <2>2. m = b
    BY <1>1, <2>1, MinIs
  <2> QED BY <1>3, <2>2
<1> QED BY <1>2, <1>3

LEMMA MaxOfTwo ==
  ASSUME NEW a \in Int, NEW b \in Int, NEW m, m = Max({a, b})
  PROVE  m \in Int /\ a <= m /\ b <= m /\ (m = a \/ m = b)
<1>1. {a, b} \in SUBSET Int
  OBVIOUS
<1>2. CASE b <= a
  <2>1. a \in {a, b} /\ \A x \in {a, b} : x <= a
    BY <1>2
  <2>2. m = a
    BY <1>1, <2>1, MaxIs
  <2> QED BY <1>2, <2>2
<1>3. CASE a <= b
  <2>1. b \in {a, b} /\ \A x \in {a, b} : x <= b
    BY <1>3
  <2>2. m = b
    BY <1>1, <2>1, MaxIs
  <2> QED BY <1>3, <2>2
<1> QED BY <1>2, <1>3

Span     == [start: Int, end: Int]
Lists    == Seq(Span)
In(r, x) == r.start <= x /\ x < r.end

(* The invariant of a RangeSet: no range is empty, the lower ones come     *)
(* first, and none touches the next.                                       *)
Sorted(ranges) ==
  /\ ranges \in Lists
  /\ \A i \in 1 .. Len(ranges) : ranges[i].start < ranges[i].end
  /\ \A i, j \in 1 .. Len(ranges) : i < j => ranges[i].end < ranges[j].start

(* x is in one of the first n ranges.                                      *)
InFirst(ranges, n, x) == \E i \in 1 .. n : In(ranges[i], x)
InRanges(ranges, x)   == InFirst(ranges, Len(ranges), x)

LEMMA ListIs == ASSUME NEW ranges \in Lists
                PROVE  /\ Len(ranges) \in Nat /\ DOMAIN ranges = 1 .. Len(ranges)
                       /\ \A i \in 1 .. Len(ranges) :
                            ranges[i] \in Span /\ ranges[i].start \in Int /\ ranges[i].end \in Int
<1>1. /\ Len(ranges) \in Nat /\ DOMAIN ranges = 1 .. Len(ranges)
      /\ \A i \in 1 .. Len(ranges) : ranges[i] \in Span
  BY DEF Lists
<1> QED BY <1>1 DEF Span

(* A range behind all the others may be appended.                          *)
Appended(new, ranges, r) ==
  /\ Sorted(new)
  /\ \A i \in 1 .. Len(new) : new[i] = r \/ \E k \in 1 .. Len(ranges) : new[i] = ranges[k]
  /\ \A x : InRanges(new, x) <=> InRanges(ranges, x) \/ In(r, x)
Behind(ranges, r) == \A i \in 1 .. Len(ranges) : ranges[i].end < r.start

LEMMA AppendSorted ==
  ASSUME NEW ranges, Sorted(ranges), NEW r \in Span, r.start < r.end,
         Behind(ranges, r), NEW new, new = Append(ranges, r)
  PROVE  Appended(new, ranges, r)
<1>1. PICK n : n = Len(ranges)
  OBVIOUS
<1>2. ranges \in Lists /\ n \in Nat
  BY <1>1 DEF Sorted, Lists
<1>3. /\ new \in Lists /\ Len(new) = n + 1 /\ new[n + 1] = r
      /\ \A i \in 1 .. n : new[i] = ranges[i]
  BY <1>1, <1>2 DEF Lists
<1>4. \A i \in 1 .. n + 1 : i \in 1 .. n \/ i = n + 1
  BY <1>2
<1>5. \A i \in 1 .. n : i \in 1 .. n + 1
  BY <1>2
<1>6. ASSUME NEW i \in 1 .. n + 1, NEW j \in 1 .. n + 1, i < j PROVE new[i].end < new[j].start
  <2>1. i \in 1 .. n
    BY <1>2, <1>6
  <2>2. CASE j \in 1 .. n
    BY <1>1, <1>3, <1>6, <2>1, <2>2 DEF Sorted
  <2>3. CASE j = n + 1
    BY <1>1, <1>3, <2>1, <2>3 DEF Behind
  <2> QED BY <1>4, <2>2, <2>3
<1>7. \A i \in 1 .. n + 1 : new[i].start < new[i].end
  BY <1>1, <1>3, <1>4 DEF Sorted
<1>8. Sorted(new)
  BY <1>3, <1>6, <1>7 DEF Sorted
<1>9. n + 1 \in 1 .. n + 1
  BY <1>2
<1>10. \A x : InRanges(new, x) <=> InRanges(ranges, x) \/ In(r, x)
  BY <1>1, <1>3, <1>4, <1>5, <1>9 DEF InRanges, InFirst
<1> QED BY <1>1, <1>3, <1>4, <1>8, <1>10 DEF Appended

(* add, after n ranges: what is merged, and the new range unless it is in, *)
(* stands for what has been passed and the numbers added.                  *)
Accumulator == [new: Span, merged: Lists, inserted: BOOLEAN]
StillOut(acc, x) == ~acc.inserted /\ In(acc.new, x)
Added(acc, ranges, s, e, n) ==
  /\ acc \in Accumulator
  /\ acc.new.start < acc.new.end
  /\ Sorted(acc.merged)
  /\ \A i \in 1 .. Len(acc.merged) :
       /\ n # 0 /\ acc.merged[i].end <= ranges[n].end
       /\ acc.inserted \/ acc.merged[i].end < acc.new.start
  /\ acc.inserted => n # 0 /\ acc.new.end < ranges[n].start
  /\ \A x \in Int : InRanges(acc.merged, x) \/ StillOut(acc, x)
                       <=> InFirst(ranges, n, x) \/ (s <= x /\ x < e)

LEMMA AbsorbIs ==
  ASSUME NEW cur, NEW new, NEW merged, NEW inserted \in BOOLEAN,
         new.start \in Int, new.end \in Int, cur.start \in Int, cur.end \in Int,
         NEW acc, acc = [new |-> new, merged |-> merged, inserted |-> inserted],
         NEW next, next = Absorb(acc, cur)
  PROVE  /\ new.end < cur.start =>
              next = [new |-> new,
                      merged |-> merged \o (IF inserted THEN <<cur>> ELSE <<new, cur>>),
                      inserted |-> TRUE]
         /\ new.end >= cur.start /\ new.start > cur.end =>
              next = [new |-> new, merged |-> Append(merged, cur), inserted |-> inserted]
         /\ new.end >= cur.start /\ ~(new.start > cur.end) =>
              next = [new |-> HalfOpen(Min({new.start, cur.start}), Max({new.end, cur.end})),
                      merged |-> merged, inserted |-> inserted]
<1>1. acc.new = new /\ acc.merged = merged /\ acc.inserted = inserted
  OBVIOUS
<1>2. CASE new.end < cur.start
  <2>1. next = [acc EXCEPT !.merged = @ \o (IF acc.inserted THEN <<cur>> ELSE <<acc.new, cur>>),
                           !.inserted = TRUE]
    BY <1>1, <1>2 DEF Absorb
  <2>2. ~(new.end >= cur.start)
    BY <1>2
  <2> QED BY <1>1, <2>1, <2>2
<1>3. CASE new.end >= cur.start /\ new.start > cur.end
  <2>1. next = [acc EXCEPT !.merged = Append(@, cur)]
    BY <1>1, <1>3 DEF Absorb
  <2>2. ~(new.end < cur.start)
    BY <1>3
  <2> QED BY <1>1, <1>3, <2>1, <2>2
<1>4. CASE new.end >= cur.start /\ ~(new.start > cur.end)
  <2>1. next = [acc EXCEPT !.new = HalfOpen(Min({@.start, cur.start}), Max({@.end, cur.end}))]
    BY <1>1, <1>4 DEF Absorb
  <2>2. ~(new.end < cur.start)
    BY <1>4
  <2> QED BY <1>1, <1>4, <2>1, <2>2
<1> QED BY <1>2, <1>3, <1>4

LEMMA AbsorbAdds ==
  ASSUME NEW ranges, Sorted(ranges), NEW s \in Int, NEW e \in Int,
         NEW n \in Nat, n + 1 \in 1 .. Len(ranges),
         NEW acc, Added(acc, ranges, s, e, n),
         NEW next, next = Absorb(acc, ranges[n + 1])
  PROVE  Added(next, ranges, s, e, n + 1)
<1>1. PICK cur : cur = ranges[n + 1]
  OBVIOUS
<1>2. PICK new, merged, inserted : new = acc.new /\ merged = acc.merged /\ inserted = acc.inserted
  OBVIOUS
<1>3. /\ acc \in Accumulator /\ new \in Span /\ merged \in Lists /\ inserted \in BOOLEAN
      /\ new.start < new.end /\ Sorted(merged)
  BY <1>2 DEF Added, Accumulator
<1>4. acc = [new |-> new, merged |-> merged, inserted |-> inserted]
  BY <1>2, <1>3 DEF Accumulator
<1>5. /\ new.start \in Int /\ new.end \in Int /\ cur \in Span /\ cur.start \in Int /\ cur.end \in Int
      /\ cur.start < cur.end
  <2>1. cur \in Span /\ cur.start < cur.end
    BY <1>1, ListIs DEF Sorted
  <2> QED BY <1>3, <2>1 DEF Span
<1>6. \A i \in 1 .. Len(merged) : merged[i].start \in Int /\ merged[i].end \in Int
  BY <1>3, ListIs
<1>7. n # 0 => n \in 1 .. Len(ranges) /\ ranges[n].start \in Int /\ ranges[n].end \in Int
               /\ ranges[n].start < ranges[n].end /\ ranges[n].end < cur.start
  <2> SUFFICES ASSUME n # 0 PROVE n \in 1 .. Len(ranges) /\ ranges[n].start \in Int
                 /\ ranges[n].end \in Int /\ ranges[n].start < ranges[n].end
                 /\ ranges[n].end < cur.start
    OBVIOUS
  <2>1. n \in 1 .. Len(ranges) /\ n < n + 1
    BY ListIs DEF Sorted
  <2> QED BY <1>1, <2>1, ListIs DEF Sorted
<1>8. \A i \in 1 .. Len(merged) : merged[i].end < cur.start /\ (inserted \/ merged[i].end < new.start)
  <2> SUFFICES ASSUME NEW i \in 1 .. Len(merged)
               PROVE  merged[i].end < cur.start /\ (inserted \/ merged[i].end < new.start)
    OBVIOUS
  <2>1. n # 0 /\ merged[i].end <= ranges[n].end /\ (inserted \/ merged[i].end < new.start)
    BY <1>2 DEF Added
  <2> QED BY <1>5, <1>6, <1>7, <2>1
<1>9. inserted => new.end < cur.start
  <2> SUFFICES ASSUME inserted PROVE new.end < cur.start
    OBVIOUS
  <2>1. n # 0 /\ new.end < ranges[n].start
    BY <1>2 DEF Added
  <2> QED BY <1>5, <1>7, <2>1
<1>10. \A x \in Int : InRanges(merged, x) \/ (~inserted /\ In(new, x))
                       <=> InFirst(ranges, n, x) \/ (s <= x /\ x < e)
  BY <1>2 DEF Added, StillOut
<1>11. \A x : InFirst(ranges, n + 1, x) <=> InFirst(ranges, n, x) \/ In(cur, x)
  <2>1. \A i : i \in 1 .. n + 1 <=> i \in 1 .. n \/ i = n + 1
    OBVIOUS
  <2> QED BY <1>1, <2>1 DEF InFirst
<1>12. n + 1 # 0
  OBVIOUS
<1>13. CASE new.end < cur.start /\ inserted
  <2>1. PICK m : m = Append(merged, cur)
    OBVIOUS
  <2>2. next = [new |-> new, merged |-> m, inserted |-> TRUE]
    <3>1. merged \o <<cur>> = m
      BY <1>3, <2>1 DEF Lists
    <3>2. next = [new |-> new, merged |-> merged \o (IF inserted THEN <<cur>> ELSE <<new, cur>>),
                  inserted |-> TRUE]
      BY <1>1, <1>3, <1>4, <1>5, <1>13, AbsorbIs
    <3> QED BY <1>13, <3>1, <3>2
  <2>3. Appended(m, merged, cur)
    <3>1. Behind(merged, cur)
      BY <1>8 DEF Behind
    <3> QED BY <1>3, <1>5, <2>1, <3>1, AppendSorted
  <2>4. \A i \in 1 .. Len(m) : m[i].end <= cur.end
    BY <1>5, <1>6, <1>8, <2>3 DEF Appended
  <2>5. \A x \in Int : InRanges(m, x) \/ StillOut(next, x)
                         <=> InFirst(ranges, n + 1, x) \/ (s <= x /\ x < e)
    BY <1>10, <1>11, <1>13, <2>2, <2>3 DEF StillOut, Appended
  <2>6. m \in Lists
    BY <2>3 DEF Sorted, Appended
  <2>7. /\ next.new = new /\ next.merged = m /\ next.inserted = TRUE
        /\ next \in Accumulator /\ Sorted(next.merged)
    BY <1>3, <2>2, <2>3, <2>6 DEF Accumulator, Appended
  <2>8. \A i \in 1 .. Len(next.merged) :
          /\ n + 1 # 0 /\ next.merged[i].end <= ranges[n + 1].end
          /\ next.inserted \/ next.merged[i].end < next.new.start
    BY <1>1, <1>12, <2>4, <2>7
  <2>9. \A x \in Int : InRanges(next.merged, x) \/ StillOut(next, x)
                         <=> InFirst(ranges, n + 1, x) \/ (s <= x /\ x < e)
    BY <2>5, <2>7
  <2>10. next.new.start < next.new.end /\ next.new.end < ranges[n + 1].start
    BY <1>1, <1>3, <1>13, <2>7
  <2> QED BY <1>12, <2>7, <2>8, <2>9, <2>10 DEF Added
<1>14. CASE new.end < cur.start /\ ~inserted
  <2>1. PICK l, m : l = Append(merged, new) /\ m = Append(l, cur)
    OBVIOUS
  <2>2. next = [new |-> new, merged |-> m, inserted |-> TRUE]
    <3>1. merged \o <<new, cur>> = m
      BY <1>3, <1>5, <2>1 DEF Lists
    <3>2. next = [new |-> new, merged |-> merged \o (IF inserted THEN <<cur>> ELSE <<new, cur>>),
                  inserted |-> TRUE]
      BY <1>1, <1>3, <1>4, <1>5, <1>14, AbsorbIs
    <3> QED BY <1>14, <3>1, <3>2
  <2>3. Appended(l, merged, new)
    <3>1. Behind(merged, new)
      BY <1>8, <1>14 DEF Behind
    <3> QED BY <1>3, <1>5, <2>1, <3>1, AppendSorted
  <2>4. \A i \in 1 .. Len(l) : l[i].end < cur.start /\ l[i].end \in Int
    BY <1>5, <1>6, <1>8, <1>14, <2>3 DEF Appended
  <2>5. Appended(m, l, cur)
    <3>1. Behind(l, cur)
      BY <2>4 DEF Behind
    <3>2. Sorted(l)
      BY <2>3 DEF Appended
    <3> QED BY <1>5, <2>1, <3>1, <3>2, AppendSorted
  <2>6. \A i \in 1 .. Len(m) : m[i].end <= cur.end
    BY <1>5, <2>4, <2>5 DEF Appended
  <2>7. \A x \in Int : InRanges(m, x) \/ StillOut(next, x)
                         <=> InFirst(ranges, n + 1, x) \/ (s <= x /\ x < e)
    BY <1>10, <1>11, <1>14, <2>2, <2>3, <2>5 DEF StillOut, Appended
  <2>8. m \in Lists
    BY <2>5 DEF Sorted, Appended
  <2>9. /\ next.new = new /\ next.merged = m /\ next.inserted = TRUE
        /\ next \in Accumulator /\ Sorted(next.merged)
    BY <1>3, <2>2, <2>5, <2>8 DEF Accumulator, Appended
  <2>10. \A i \in 1 .. Len(next.merged) :
           /\ n + 1 # 0 /\ next.merged[i].end <= ranges[n + 1].end
           /\ next.inserted \/ next.merged[i].end < next.new.start
    BY <1>1, <1>12, <2>6, <2>9
  <2>11. \A x \in Int : InRanges(next.merged, x) \/ StillOut(next, x)
                         <=> InFirst(ranges, n + 1, x) \/ (s <= x /\ x < e)
    BY <2>7, <2>9
  <2>12. next.new.start < next.new.end /\ next.new.end < ranges[n + 1].start
    BY <1>1, <1>3, <1>14, <2>9
  <2> QED BY <1>12, <2>9, <2>10, <2>11, <2>12 DEF Added
<1>15. CASE ~(new.end < cur.start) /\ new.start > cur.end
  <2>1. PICK m : m = Append(merged, cur)
    OBVIOUS
  <2>2. ~inserted /\ new.end >= cur.start
    BY <1>5, <1>9, <1>15
  <2>3. next = [new |-> new, merged |-> m, inserted |-> inserted]
    BY <1>1, <1>3, <1>4, <1>5, <1>15, <2>2, <2>1, AbsorbIs
  <2>4. Appended(m, merged, cur)
    <3>1. Behind(merged, cur)
      BY <1>8 DEF Behind
    <3> QED BY <1>3, <1>5, <2>1, <3>1, AppendSorted
  <2>5. \A i \in 1 .. Len(m) : m[i].end <= cur.end /\ m[i].end < new.start
    <3>1. \A k \in 1 .. Len(merged) : merged[k].end <= cur.end /\ merged[k].end < new.start
      BY <1>5, <1>6, <1>8, <2>2
    <3>2. cur.end <= cur.end /\ cur.end < new.start
      BY <1>5, <1>15
    <3> QED BY <2>4, <3>1, <3>2 DEF Appended
  <2>6. \A x \in Int : InRanges(m, x) \/ StillOut(next, x)
                         <=> InFirst(ranges, n + 1, x) \/ (s <= x /\ x < e)
    BY <1>10, <1>11, <2>2, <2>3, <2>4 DEF StillOut, Appended
  <2>7. m \in Lists
    BY <2>4 DEF Sorted, Appended
  <2>8. /\ next.new = new /\ next.merged = m /\ next.inserted = inserted
        /\ next \in Accumulator /\ Sorted(next.merged)
    BY <1>3, <2>3, <2>4, <2>7 DEF Accumulator, Appended
  <2>9. \A i \in 1 .. Len(next.merged) :
          /\ n + 1 # 0 /\ next.merged[i].end <= ranges[n + 1].end
          /\ next.inserted \/ next.merged[i].end < next.new.start
    BY <1>1, <1>12, <2>5, <2>8
  <2>10. \A x \in Int : InRanges(next.merged, x) \/ StillOut(next, x)
                         <=> InFirst(ranges, n + 1, x) \/ (s <= x /\ x < e)
    BY <2>6, <2>8
  <2>11. next.new.start < next.new.end /\ ~next.inserted
    BY <1>3, <2>2, <2>8
  <2> QED BY <1>12, <2>8, <2>9, <2>10, <2>11 DEF Added
<1>16. CASE ~(new.end < cur.start) /\ ~(new.start > cur.end)
  <2>1. ~inserted /\ new.end >= cur.start /\ new.start <= cur.end
    BY <1>5, <1>9, <1>16
  <2>2. PICK a, z : a = Min({new.start, cur.start}) /\ z = Max({new.end, cur.end})
    OBVIOUS
  <2>3. /\ a \in Int /\ a <= new.start /\ a <= cur.start /\ (a = new.start \/ a = cur.start)
        /\ z \in Int /\ new.end <= z /\ cur.end <= z /\ (z = new.end \/ z = cur.end)
    <3>1. a \in Int /\ a <= new.start /\ a <= cur.start /\ (a = new.start \/ a = cur.start)
      <4>1. PICK p \in Int, q \in Int : p = new.start /\ q = cur.start
        BY <1>5
      <4>2. a = Min({p, q})
        BY <2>2, <4>1
      <4>3. a \in Int /\ a <= p /\ a <= q /\ (a = p \/ a = q)
        BY <4>2, MinOfTwo
      <4> QED BY <4>1, <4>3
    <3>2. z \in Int /\ new.end <= z /\ cur.end <= z /\ (z = new.end \/ z = cur.end)
      <4>1. PICK p \in Int, q \in Int : p = new.end /\ q = cur.end
        BY <1>5
      <4>2. z = Max({p, q})
        BY <2>2, <4>1
      <4>3. z \in Int /\ p <= z /\ q <= z /\ (z = p \/ z = q)
        BY <4>2, MaxOfTwo
      <4> QED BY <4>1, <4>3
    <3> QED BY <3>1, <3>2
  <2>4. next = [new |-> [start |-> a, end |-> z], merged |-> merged, inserted |-> inserted]
    <3>1. next = [new |-> HalfOpen(a, z), merged |-> merged, inserted |-> inserted]
      BY <1>1, <1>3, <1>4, <1>5, <1>16, <2>1, <2>2, AbsorbIs
    <3> QED BY <3>1 DEF HalfOpen
  <2>5. next.new \in Span /\ next.new.start = a /\ next.new.end = z /\ next.merged = merged /\ ~next.inserted
    BY <2>1, <2>3, <2>4 DEF Span
  <2>6. \A x \in Int : In(next.new, x) <=> In(new, x) \/ In(cur, x)
    BY <1>3, <1>5, <2>1, <2>3, <2>5 DEF In
  <2>7. \A i \in 1 .. Len(merged) : merged[i].end <= cur.end /\ merged[i].end < a
    BY <1>5, <1>6, <1>8, <2>1, <2>3
  <2>8. \A x \in Int : InRanges(merged, x) \/ StillOut(next, x)
                         <=> InFirst(ranges, n + 1, x) \/ (s <= x /\ x < e)
    BY <1>10, <1>11, <2>1, <2>5, <2>6 DEF StillOut
  <2>9. a < z
    BY <1>3, <1>5, <2>3
  <2>10. next \in Accumulator
    BY <1>3, <2>1, <2>4, <2>5 DEF Accumulator
  <2> QED BY <1>1, <1>3, <1>12, <2>5, <2>7, <2>8, <2>9, <2>10 DEF Added
<1> QED BY <1>13, <1>14, <1>15, <1>16

(* The passes of add, one after the other.                                 *)
First(s, e) == [new |-> HalfOpen(s, e), merged |-> <<>>, inserted |-> FALSE]
Passes(f, ranges, s, e, n) ==
  f = [k \in 0 .. n |-> IF k = 0 THEN First(s, e) ELSE Absorb(f[k - 1], ranges[k])]

LEMMA PassesExist ==
  ASSUME NEW ranges, NEW s, NEW e, NEW n \in Nat PROVE \E f : Passes(f, ranges, s, e, n)
<1> DEFINE Lacks == {m \in Nat : ~\E f : Passes(f, ranges, s, e, m)}
<1> SUFFICES ASSUME Lacks # {} PROVE FALSE
  OBVIOUS
<1>1. PICK m \in Lacks : \A k \in Lacks : m <= k
  BY LeastIn
<1>2. CASE m = 0
  <2> DEFINE f == [k \in 0 .. 0 |-> First(s, e)]
  <2>1. f = [k \in 0 .. 0 |-> IF k = 0 THEN First(s, e) ELSE Absorb(f[k - 1], ranges[k])]
    OBVIOUS
  <2>2. Passes(f, ranges, s, e, 0)
    BY <2>1 DEF Passes
  <2> QED BY <1>1, <1>2, <2>2
<1>3. CASE m # 0
  <2>1. m - 1 \in Nat /\ m - 1 \notin Lacks
    BY <1>1, <1>3
  <2>2. PICK g : Passes(g, ranges, s, e, m - 1)
    BY <2>1
  <2> DEFINE f == [k \in 0 .. m |-> IF k = m THEN Absorb(g[m - 1], ranges[m]) ELSE g[k]]
  <2>3. ASSUME NEW k \in 0 .. m
        PROVE  f[k] = IF k = 0 THEN First(s, e) ELSE Absorb(f[k - 1], ranges[k])
    <3>1. CASE k = m
      <4>1. k # 0 /\ k - 1 \in 0 .. m /\ k - 1 # m
        BY <1>1, <1>3, <3>1
      <4>2. f[k - 1] = g[m - 1] /\ f[k] = Absorb(g[m - 1], ranges[m])
        BY <3>1, <4>1
      <4> HIDE DEF f
      <4> QED BY <3>1, <4>1, <4>2
    <3>2. CASE k # m
      <4>1. k \in 0 .. m - 1 /\ f[k] = g[k]
        BY <1>1, <2>1, <3>2
      <4>2. g[k] = IF k = 0 THEN First(s, e) ELSE Absorb(g[k - 1], ranges[k])
        BY <2>2, <4>1, Zenon DEF Passes
      <4>3. k # 0 => f[k - 1] = g[k - 1]
        BY <1>1, <2>1, <3>2, <4>1
      <4> HIDE DEF f
      <4> QED BY <4>1, <4>2, <4>3
    <3> QED BY <3>1, <3>2
  <2>4. f = [k \in 0 .. m |-> f[k]]
    OBVIOUS
  <2>5. Passes(f, ranges, s, e, m)
    <3> HIDE DEF f
    <3> QED BY <2>3, <2>4, Zenon DEF Passes
  <2> QED BY <1>1, <2>5
<1> QED BY <1>2, <1>3

(* add keeps the list sorted and adds the numbers of the new range.        *)
LEMMA AddRangeIs ==
  ASSUME NEW ranges, Sorted(ranges), NEW s \in Int, NEW e \in Int,
         NEW new, new = AddRange(ranges, s, e)
  PROVE  /\ Sorted(new)
         /\ \A x \in Int : InRanges(new, x) <=> InRanges(ranges, x) \/ (s <= x /\ x < e)
<1>1. PICK n : n = Len(ranges)
  OBVIOUS
<1>2. n \in Nat
  BY <1>1, ListIs DEF Sorted
<1>3. CASE e <= s
  <2>1. new = ranges
    BY <1>3 DEF AddRange
  <2> QED BY <1>3, <2>1
<1>4. CASE ~(e <= s)
  <2>1. s < e
    BY <1>4
  <2> DEFINE pass[k \in 0 .. n] == IF k = 0 THEN First(s, e) ELSE Absorb(pass[k - 1], ranges[k])
  <2>2. pass = CHOOSE f : f = [k \in 0 .. n |-> IF k = 0 THEN First(s, e) ELSE Absorb(f[k - 1], ranges[k])]
    BY DEF pass
  <2>3. \E f : Passes(f, ranges, s, e, n)
    BY <1>2, PassesExist
  <2>4. \E f : f = [k \in 0 .. n |-> IF k = 0 THEN First(s, e) ELSE Absorb(f[k - 1], ranges[k])]
    BY <2>3, Zenon DEF Passes
  <2>5. pass = [k \in 0 .. n |-> IF k = 0 THEN First(s, e) ELSE Absorb(pass[k - 1], ranges[k])]
    <3> HIDE DEF pass
    <3> QED BY <2>2, <2>4, Zenon
  <2>6. Passes(pass, ranges, s, e, n)
    <3> HIDE DEF pass
    <3> QED BY <2>5, Zenon DEF Passes
  <2>7. PICK last : last = pass[n]
    OBVIOUS
  <2>8. new = IF last.inserted THEN last.merged ELSE Append(last.merged, last.new)
    BY <1>1, <2>1, <2>7 DEF AddRange, First
  <2> HIDE DEF pass
  <2>9. ASSUME NEW k \in 0 .. n
        PROVE  pass[k] = IF k = 0 THEN First(s, e) ELSE Absorb(pass[k - 1], ranges[k])
    <3>1. pass = [j \in 0 .. n |-> IF j = 0 THEN First(s, e) ELSE Absorb(pass[j - 1], ranges[j])]
      BY <2>6, Zenon DEF Passes
    <3> QED BY <3>1, Zenon
  <2> DEFINE Wrong == {k \in 0 .. n : ~Added(pass[k], ranges, s, e, k)}
  <2>10. Added(First(s, e), ranges, s, e, 0)
    <3>1. PICK first : first = First(s, e)
      OBVIOUS
    <3>2. /\ first.new = [start |-> s, end |-> e] /\ first.merged = <<>> /\ first.inserted = FALSE
          /\ first \in Accumulator /\ first.new.start = s /\ first.new.end = e
      BY <3>1 DEF First, HalfOpen, Accumulator, Span, Lists
    <3>3. Sorted(first.merged) /\ Len(first.merged) = 0
      BY <3>2 DEF Sorted, Lists
    <3>4. \A x : ~InRanges(first.merged, x) /\ ~InFirst(ranges, 0, x)
      BY <3>3 DEF InRanges, InFirst
    <3>5. \A x : StillOut(first, x) <=> (s <= x /\ x < e)
      BY <3>2 DEF StillOut, In
    <3> QED BY <2>1, <3>1, <3>2, <3>3, <3>4, <3>5 DEF Added
  <2>11. Wrong = {}
    <3> SUFFICES ASSUME Wrong # {} PROVE FALSE
      OBVIOUS
    <3>1. Wrong \in SUBSET Nat
      BY <1>2
    <3>2. PICK k \in Wrong : \A j \in Wrong : k <= j
      BY <3>1, LeastIn
    <3>3. k # 0
      BY <2>9, <2>10, <3>2
    <3>4. k - 1 \in 0 .. n /\ k - 1 \in Nat /\ (k - 1) + 1 = k /\ k \in 1 .. n /\ ~(k <= k - 1)
      BY <1>2, <3>2, <3>3
    <3>5. Added(pass[k - 1], ranges, s, e, k - 1)
      BY <3>2, <3>4
    <3>6. pass[k] = Absorb(pass[k - 1], ranges[k])
      BY <2>9, <3>3, <3>4
    <3>7. Added(pass[k], ranges, s, e, k)
      BY <1>1, <3>4, <3>5, <3>6, AbsorbAdds
    <3> QED BY <3>2, <3>7
  <2>12. Added(last, ranges, s, e, n)
    BY <1>2, <2>7, <2>11
  <2>13. \A x \in Int : InRanges(last.merged, x) \/ StillOut(last, x)
                         <=> InRanges(ranges, x) \/ (s <= x /\ x < e)
    BY <1>1, <2>12 DEF Added, InRanges
  <2>14. CASE last.inserted
    BY <2>8, <2>12, <2>13, <2>14 DEF Added, StillOut
  <2>15. CASE ~last.inserted
    <3>1. /\ Sorted(last.merged) /\ last.new \in Span /\ last.new.start < last.new.end
          /\ Behind(last.merged, last.new)
      BY <2>12, <2>15 DEF Added, Accumulator, Behind
    <3>2. new = Append(last.merged, last.new)
      BY <2>8, <2>15
    <3>3. Sorted(new) /\ \A x : InRanges(new, x) <=> InRanges(last.merged, x) \/ In(last.new, x)
      BY <3>1, <3>2, AppendSorted DEF Appended
    <3> QED BY <2>13, <2>15, <3>3 DEF StillOut
  <2> QED BY <2>14, <2>15
<1> QED BY <1>3, <1>4

(* contains answers for the set.                                           *)
LEMMA ContainsIs ==
  ASSUME NEW ranges, Sorted(ranges), NEW value \in Int
  PROVE  ContainsValue(ranges, value) <=> InRanges(ranges, value)
<1>1. PICK n : n = Len(ranges)
  OBVIOUS
<1>2. /\ n \in Nat /\ DOMAIN ranges = 1 .. n
      /\ \A i \in 1 .. n : ranges[i].start \in Int /\ ranges[i].end \in Int
  BY <1>1, ListIs DEF Sorted
<1>3. PICK before : before = {i \in 1 .. n : ranges[i].start <= value}
  OBVIOUS
<1>4. ContainsValue(ranges, value) <=> before # {} /\ value < ranges[Max(before)].end
  BY <1>2, <1>3 DEF ContainsValue
<1>5. CASE before = {}
  BY <1>1, <1>3, <1>4, <1>5 DEF InRanges, InFirst, In
<1>6. CASE before # {}
  <2>1. before \in SUBSET (0 .. n) /\ before \in SUBSET Int
    BY <1>2, <1>3
  <2>2. PICK m \in before : \A i \in before : i <= m
    BY <1>2, <1>6, <2>1, GreatestIn
  <2>3. Max(before) = m
    BY <2>1, <2>2, MaxIs
  <2>4. ASSUME NEW i \in 1 .. n, In(ranges[i], value) PROVE i = m
    <3>1. i \in before /\ i <= m
      BY <1>3, <2>2, <2>4 DEF In
    <3>2. i < m => ranges[i].end < ranges[m].start
      BY <1>1, <1>3, <2>2 DEF Sorted
    <3>3. ranges[m].start <= value /\ value < ranges[i].end
      BY <1>3, <2>2, <2>4 DEF In
    <3>4. ~(ranges[i].end < ranges[m].start)
      BY <1>2, <1>3, <2>2, <3>3
    <3> QED BY <1>3, <1>2, <2>2, <3>1, <3>2, <3>4
  <2>5. In(ranges[m], value) <=> value < ranges[m].end
    BY <1>3, <2>2 DEF In
  <2>6. m \in 1 .. n
    BY <1>3, <2>2
  <2>7. InRanges(ranges, value) <=> In(ranges[m], value)
    BY <1>1, <2>4, <2>6 DEF InRanges, InFirst
  <2> QED BY <1>4, <1>6, <2>3, <2>5, <2>7
<1> QED BY <1>5, <1>6

(* next_value gives the first number from there on that is not in the set. *)
LEMMA NextValueIs ==
  ASSUME NEW ranges, Sorted(ranges), NEW value \in Int, NEW r, r = NextValue(ranges, value)
  PROVE  /\ r \in Int /\ value <= r /\ ~InRanges(ranges, r)
         /\ \A x \in Int : value <= x /\ x < r => InRanges(ranges, x)
<1>1. PICK n : n = Len(ranges)
  OBVIOUS
<1>2. /\ n \in Nat /\ DOMAIN ranges = 1 .. n
      /\ \A i \in 1 .. n : ranges[i].start \in Int /\ ranges[i].end \in Int
                           /\ ranges[i].start < ranges[i].end
  BY <1>1, ListIs DEF Sorted
<1>3. PICK hits : hits = {i \in 1 .. n : value < ranges[i].start \/ value < ranges[i].end}
  OBVIOUS
<1>4. r = IF hits = {} \/ value < ranges[Min(hits)].start THEN value ELSE ranges[Min(hits)].end
  BY <1>2, <1>3 DEF NextValue
<1>5. \A i \in 1 .. n : i \in hits <=> value < ranges[i].end
  BY <1>2, <1>3
<1>6. CASE hits = {}
  <2>1. r = value
    BY <1>4, <1>6
  <2>2. \A i \in 1 .. n : ~In(ranges[i], value)
    BY <1>5, <1>6 DEF In
  <2> QED BY <1>1, <2>1, <2>2 DEF InRanges, InFirst
<1>7. CASE hits # {}
  <2>1. hits \in SUBSET Nat
    BY <1>2, <1>3
  <2>2. PICK m \in hits : \A i \in hits : m <= i
    BY <1>7, <2>1, LeastIn
  <2>3. Min(hits) = m /\ m \in 1 .. n
    BY <1>3, <2>1, <2>2, MinIs
  <2>4. \A i \in 1 .. n : /\ i < m => (ranges[i].end <= value /\ ranges[i].end < ranges[m].start)
                          /\ m < i => ranges[m].end < ranges[i].start
    <3> SUFFICES ASSUME NEW i \in 1 .. n
                 PROVE  /\ i < m => (ranges[i].end <= value /\ ranges[i].end < ranges[m].start)
                        /\ m < i => ranges[m].end < ranges[i].start
      OBVIOUS
    <3>1. /\ i < m => ranges[i].end < ranges[m].start
          /\ m < i => ranges[m].end < ranges[i].start
      BY <1>1, <2>3 DEF Sorted
    <3>2. i < m => i \notin hits
      BY <1>2, <2>2, <2>3
    <3> QED BY <1>2, <1>5, <3>1, <3>2
  <2>5. CASE value < ranges[m].start
    <3>1. r = value
      BY <1>4, <2>3, <2>5
    <3>2. ASSUME NEW i \in 1 .. n PROVE ~In(ranges[i], value)
      <4>1. CASE i < m
        BY <1>2, <2>4, <4>1 DEF In
      <4>2. CASE i = m
        BY <1>2, <2>3, <2>5, <4>2 DEF In
      <4>3. CASE m < i
        BY <1>2, <2>3, <2>4, <2>5, <4>3 DEF In
      <4> QED BY <1>2, <2>3, <4>1, <4>2, <4>3
    <3> QED BY <1>1, <3>1, <3>2 DEF InRanges, InFirst
  <2>6. CASE ~(value < ranges[m].start)
    <3>1. r = ranges[m].end /\ r \in Int /\ value < r
      BY <1>2, <1>4, <1>5, <1>7, <2>2, <2>3, <2>6
    <3>2. ASSUME NEW i \in 1 .. n PROVE ~In(ranges[i], r)
      <4>1. CASE i < m
        BY <1>2, <2>3, <2>4, <3>1, <4>1 DEF In
      <4>2. CASE i = m
        BY <1>2, <3>1, <4>2 DEF In
      <4>3. CASE m < i
        BY <1>2, <2>3, <2>4, <3>1, <4>3 DEF In
      <4> QED BY <1>2, <2>3, <4>1, <4>2, <4>3
    <3>3. \A x \in Int : value <= x /\ x < r => In(ranges[m], x)
      BY <1>2, <2>3, <2>6, <3>1 DEF In
    <3> QED BY <1>1, <2>3, <3>1, <3>2, <3>3 DEF InRanges, InFirst
  <2> QED BY <2>5, <2>6
<1> QED BY <1>6, <1>7
-----------------------------------------------------------------------------
(* The discovery.                                                          *)
Types == text \in Texts /\ TypeOK

(* The ranges are sorted and stand for what has been put into them, which  *)
(* is code of the section.                                                 *)
Scans ==
  /\ Sorted(visited) /\ covered \subseteq DOMAIN text
  /\ \A x \in Int : InRanges(visited, x) <=> x \in covered

(* What is decoded, what waits to be and what has been belongs to the      *)
(* function.                                                               *)
Belongs ==
  pc \in {"heap", "block"} =>
    /\ start \in Functions /\ ip = start
    /\ \A a \in Pending \cup covered : Reaches(start, a)
    /\ pc = "block" => addr <= current /\ \A i \in addr .. current : Reaches(start, i)

(* The outer loop goes upwards, and what has given a marker lies behind it.*)
Upwards == start <= ip /\ \A m \in Markers : found[m] <= start

(* f is part of another function, or has given a marker, or those before it*)
(* have given all it refers to.                                            *)
Served(f) == (\A g \in Functions \ {f} : ~Reaches(g, f)) => Gave(f) \/ Passed(f)

(* The addresses in D have been decoded and hold no marker still missing;  *)
(* whatever decoding goes on to from them is in D or still ahead.          *)
Ahead     == Pending \cup (IF pc = "block" THEN {current} ELSE {})
Silent(i) == i \in DOMAIN text /\ text[i].kind = "string" => found[text[i].of] # 0
Explored(D) ==
  /\ covered \subseteq D /\ start \in D \cup Ahead
  /\ \A i \in D : Onward(i) \subseteq D \cup Ahead /\ Silent(i)
  /\ pc = "block" => addr .. current - 1 \subseteq D

(* The functions behind the outer loop are served; the one it is at has    *)
(* given a marker, or no missing one is in what has been decoded of it.    *)
Searched ==
  /\ \A f \in Functions : pc = "done" \/ f < ip => Served(f)
  /\ pc \in {"heap", "block"} => Gave(start) \/ \E D \in SUBSET Address : Explored(D)

IInv == Types /\ Scans /\ Belongs /\ Upwards /\ FoundIsReached /\ Searched

(* What decoding goes on to from a function's instruction is its own.      *)
LEMMA ReachesOnward ==
  ASSUME NEW f, NEW i, NEW j \in Onward(i), Reaches(f, i) PROVE Reaches(f, j)
BY DEF Reaches

(* Decoding goes on to the next instruction, and to a branch's target.     *)
LEMMA NextIsOnward ==
  ASSUME NEW i \in DOMAIN text, text[i].kind \notin {"end", "bad"}
  PROVE  i + 1 \in Onward(i)
<1>1. CASE text[i].kind = "branch"
  <2>1. Onward(i) = {i + 1, text[i].to}
    BY <1>1, Zenon DEF Onward
  <2> QED
    BY <2>1
<1>2. CASE text[i].kind # "branch"
  <2>1. Onward(i) = {i + 1}
    BY <1>2, Zenon DEF Onward
  <2> QED
    BY <2>1
<1> QED
  BY <1>1, <1>2

LEMMA TargetIsOnward ==
  ASSUME NEW i \in DOMAIN text, text[i].kind = "branch"
  PROVE  text[i].to \in Onward(i)
<1>1. Onward(i) = {i + 1, text[i].to}
  BY Zenon DEF Onward
<1> QED
  BY <1>1

(* The functions, and what they reach and refer to, depend on the file.    *)
LEMMA SameFile ==
  ASSUME UNCHANGED text
  PROVE  /\ Address' = Address /\ Functions' = Functions /\ Empty' = Empty
         /\ \A i : Onward(i)' = Onward(i)
         /\ \A f, i : Reaches(f, i)' = Reaches(f, i)
         /\ \A f, m : RefersTo(f, m)' = RefersTo(f, m)
<1>1. Address' = Address /\ Functions' = Functions
  BY DEF Address, End, Functions
<1>2. Empty' = Empty
  BY <1>1 DEF Empty
<1>3. \A i : Onward(i)' = Onward(i)
  BY Zenon DEF Onward
<1>4. \A f, i : Reaches(f, i)' = Reaches(f, i)
  BY <1>1, <1>3 DEF Reaches
<1>5. \A f, m : RefersTo(f, m)' = RefersTo(f, m)
  BY <1>4 DEF RefersTo
<1> QED
  BY <1>1, <1>2, <1>3, <1>4, <1>5

(* What an instruction that branches says is an address.                   *)
LEMMA TargetIsAddress ==
  ASSUME text \in Texts, NEW i \in DOMAIN text, text[i].kind = "branch"
  PROVE  text[i].to \in Address
<1>1. text[i] \in Instructions(Address)
  BY TextsAssumption DEF Address, End
<1> QED
  BY <1>1 DEF Instructions

(* ... and what refers to a marker names one.                              *)
LEMMA StringIsMarker ==
  ASSUME text \in Texts, NEW i \in DOMAIN text, text[i].kind = "string"
  PROVE  text[i].of \in Markers
<1>1. text[i] \in Instructions(Address)
  BY TextsAssumption DEF Address, End
<1> QED
  BY <1>1 DEF Instructions

(* The section and the addresses in it.                                    *)
LEMMA TextIs ==
  ASSUME text \in Texts
  PROVE  /\ Len(text) \in Nat /\ DOMAIN text = 1 .. Len(text) /\ End \in Nat
         /\ Address \in SUBSET Nat /\ DOMAIN text \subseteq Address
         /\ \A i \in Address : i \in DOMAIN text <=> i < End
         /\ \A i \in DOMAIN text : i + 1 \in Address /\ i # 0
         /\ \A i \in Int : i \in Address <=> 1 <= i /\ i <= End
<1>1. Len(text) \in Nat /\ DOMAIN text = 1 .. Len(text)
  BY TextsAssumption
<1> QED
  BY <1>1 DEF Address, End

(* The heap is empty when nothing waits in it.                             *)
LEMMA NonePending ==
  ASSUME heap \in [Address -> 0 .. MaxPending], Pending = {} PROVE heap = Empty
BY PendingAssumption DEF Pending, Empty

(* What is put into the RangeSet is in the set it stands for.              *)
LEMMA VisitScans ==
  ASSUME Scans, UNCHANGED text, NEW s \in Int, NEW e \in Int, Visit(s, e),
         s .. e - 1 \subseteq DOMAIN text
  PROVE  Scans'
<1>1. /\ Sorted(visited')
      /\ \A x \in Int : InRanges(visited', x) <=> InRanges(visited, x) \/ (s <= x /\ x < e)
  BY AddRangeIs DEF Scans, Visit
<1>2. covered' = covered \cup s .. e - 1
  BY DEF Visit
<1>3. \A x \in Int : InRanges(visited', x) <=> x \in covered'
  <2>1. \A x \in Int : x \in s .. e - 1 <=> s <= x /\ x < e
    OBVIOUS
  <2> QED BY <1>1, <1>2, <2>1 DEF Scans
<1> QED
  BY <1>1, <1>2, <1>3 DEF Scans

(* An empty RangeSet stands for the empty set.                             *)
LEMMA NoRanges == /\ Sorted(<<>>)
                  /\ \A x : ~InRanges(<<>>, x)
BY DEF Sorted, Lists, InRanges, InFirst

(* The next value behind a function's first address is behind it, in the   *)
(* section or just behind it; all before it has been decoded.              *)
LEMMA NextIs ==
  ASSUME text \in Texts, Scans, start \in DOMAIN text, NEW next, next = NextValue(visited, start)
  PROVE  /\ next \in Address /\ start <= next
         /\ \A x \in Int : start <= x /\ x < next => x \in covered
<1>1. start \in Int /\ End \in Int /\ start < End /\ 1 <= start
  BY TextIs
<1>2. /\ next \in Int /\ start <= next
      /\ \A x \in Int : start <= x /\ x < next => x \in covered
  BY <1>1, NextValueIs DEF Scans
<1>3. End \notin covered
  BY TextIs DEF Scans
<1>4. next <= End
  BY <1>1, <1>2, <1>3
<1> QED
  BY <1>1, <1>2, <1>4, TextIs

LEMMA InitIInv == Init => IInv
<1> SUFFICES ASSUME Init PROVE IInv
  OBVIOUS
<1>1. Types
  <2>1. Len(text) \in Nat
    BY TextIs DEF Init
  <2>2. 1 \in Address
    BY <2>1 DEF Address, End
  <2>3. heap \in [Address -> 0 .. MaxPending] /\ found \in [Markers -> 0 .. Len(text)]
    BY <2>1, PendingAssumption DEF Init, Empty
  <2> QED
    BY <2>3, <2>2 DEF Init, Types, TypeOK
<1>2. Scans
  BY NoRanges DEF Init, Scans
<1>3. Belongs /\ FoundIsReached /\ Upwards
  BY DEF Init, Belongs, FoundIsReached, Upwards
<1>4. Searched
  <2>1. \A f \in Functions : ~(f < ip) /\ pc = "text"
    BY TextIs DEF Init, Functions
  <2> QED
    BY <2>1 DEF Init, Searched
<1> QED
  BY <1>1, <1>2, <1>3, <1>4 DEF IInv

(* A block in progress: it begins and goes on inside the section, and so   *)
(* does what it marks as visited.                                          *)
LEMMA BlockIs ==
  ASSUME IInv, Decoding
  PROVE  /\ addr \in Int /\ current \in Int /\ current + 1 \in Address
         /\ addr .. (current + 1) - 1 \subseteq DOMAIN text
         /\ addr .. (current + 1) - 1 = addr .. current
<1>1. addr \in Address /\ current \in DOMAIN text /\ text \in Texts
  BY DEF Decoding, IInv, Types, TypeOK
<1>2. /\ addr \in Nat /\ 1 <= addr /\ current \in Nat /\ current < End /\ current \in Address
      /\ current + 1 \in Address /\ DOMAIN text = 1 .. Len(text) /\ Len(text) \in Nat
      /\ current <= Len(text)
  BY <1>1, TextIs
<1>3. (current + 1) - 1 = current
  BY <1>2
<1>4. addr .. current \subseteq DOMAIN text
  BY <1>2
<1> QED
  BY <1>2, <1>3, <1>4

(* The RangeSet and the history stand for one set after every step.        *)
LEMMA NextScans == IInv /\ [Next]_vars => Scans'
<1> SUFFICES ASSUME IInv, [Next]_vars PROVE Scans'
  OBVIOUS
<1>1. UNCHANGED text
  BY DEF Next, vars, NoPrologue, Prologue, Finish, Pop, NextFunction, Reference,
         Branch, EndBlock, LeaveBlock, PassOver
<1>2. CASE UNCHANGED <<visited, covered>>
  BY <1>1, <1>2 DEF IInv, Scans
<1>3. CASE NextFunction
  BY <1>3, NoRanges DEF NextFunction, Scans
<1>4. CASE Decoding /\ Visit(addr, current + 1)
  BY <1>1, <1>4, BlockIs, VisitScans DEF IInv
<1> QED
  BY <1>2, <1>3, <1>4 DEF Next, vars, NoPrologue, Prologue, Finish, Pop, Reference, Wanted,
       Branch, EndBlock, LeaveBlock, PassOver

(* The heap counts: up with a push, down with a pop, never below 0.        *)
LEMMA PushCounts ==
  ASSUME heap \in [Address -> 0 .. MaxPending], NEW a \in Address, heap[a] < MaxPending
  PROVE  [heap EXCEPT ![a] = @ + 1] \in [Address -> 0 .. MaxPending]
BY PendingAssumption

LEMMA PopCounts ==
  ASSUME heap \in [Address -> 0 .. MaxPending], NEW a \in Pending
  PROVE  [heap EXCEPT ![a] = @ - 1] \in [Address -> 0 .. MaxPending]
BY PendingAssumption DEF Pending

(* Types are kept by every step.                                           *)
LEMMA NextTypes == IInv /\ [Next]_vars => Types'
<1> SUFFICES ASSUME IInv, [Next]_vars PROVE Types'
  OBVIOUS
<1>1. UNCHANGED text
  BY DEF Next, vars, NoPrologue, Prologue, Finish, Pop, NextFunction, Reference,
         Branch, EndBlock, LeaveBlock, PassOver
<1>2. /\ Address' = Address /\ Empty' = Empty /\ text' \in Texts /\ Len(text') = Len(text)
      /\ text \in Texts /\ TypeOK
  BY <1>1, SameFile DEF IInv, Types
<1>3. Empty \in [Address -> 0 .. MaxPending]
  BY PendingAssumption DEF Empty
<1>c. covered' \subseteq Address
  <2>1. covered' \subseteq DOMAIN text
    BY <1>1, NextScans DEF Scans
  <2> QED
    BY <1>2, <2>1, TextIs
<1> HIDE DEF Address
<1>d. ASSUME ip' \in Address, start' \in Address, addr' \in Address, current' \in Address,
             pc' \in {"text", "heap", "block", "done"},
             heap' \in [Address -> 0 .. MaxPending],
             pc' = "text" => heap' = Empty /\ visited' = <<>>,
             found' \in [Markers -> 0 .. Len(text)]
      PROVE  Types'
  BY <1>2, <1>c, <1>d DEF Types, TypeOK
<1>4. CASE NoPrologue
  <2>1. ip + 1 \in Address
    BY <1>2, <1>4, TextIs DEF NoPrologue
  <2> QED
    BY <1>2, <1>4, <1>d, <2>1 DEF NoPrologue, TypeOK
<1>5. CASE Prologue
  <2>1. ip \in Address /\ heap = Empty
    BY <1>2, <1>5 DEF Prologue, TypeOK
  <2>2. heap' \in [Address -> 0 .. MaxPending]
    <3>1. heap[ip] < MaxPending
      BY <2>1, PendingAssumption DEF Empty
    <3> QED
      BY <1>2, <1>5, <2>1, <3>1, PushCounts DEF Prologue, TypeOK
  <2> QED
    BY <1>2, <1>5, <1>d, <2>1, <2>2 DEF Prologue, TypeOK
<1>6. CASE Finish
  BY <1>2, <1>6, <1>d DEF Finish, TypeOK
<1>7. CASE Pop
  <2>1. PICK a \in Pending :
          /\ heap' = [heap EXCEPT ![a] = @ - 1]
          /\ pc' \in {"block", "heap"} /\ addr' \in {addr, a} /\ current' \in {current, a}
    BY <1>7 DEF Pop
  <2>2. heap' \in [Address -> 0 .. MaxPending] /\ a \in Address
    BY <1>2, <2>1, PopCounts DEF Pending, TypeOK
  <2> QED
    BY <1>2, <1>7, <1>d, <2>1, <2>2 DEF Pop, TypeOK
<1>8. CASE NextFunction
  <2>1. start \in DOMAIN text
    BY <1>8 DEF NextFunction, IInv, Belongs, Functions
  <2>2. start + 1 \in Address /\ NextValue(visited, start) \in Address
    BY <1>2, <2>1, TextIs, NextIs DEF IInv
  <2>3. ip' \in Address
    BY <1>8, <2>2 DEF NextFunction
  <2>4. heap' = Empty
    BY <1>2, <1>8, NonePending DEF NextFunction, TypeOK
  <2> QED
    BY <1>2, <1>3, <1>8, <1>d, <2>3, <2>4 DEF NextFunction, TypeOK
<1>9. CASE Reference
  <2>1. Decoding /\ Now.of \in Markers
    BY <1>2, <1>9, StringIsMarker DEF Reference, Wanted, Decoding, Now
  <2>2. start \in DOMAIN text
    BY <2>1 DEF Decoding, IInv, Belongs, Functions
  <2>3. start \in 0 .. Len(text)
    BY <1>2, <2>2, TextIs
  <2>4. found' \in [Markers -> 0 .. Len(text)]
    BY <1>2, <1>9, <2>1, <2>3 DEF Reference, TypeOK
  <2>5. current' \in Address
    BY <1>9, <2>1, BlockIs DEF Reference
  <2>6. pc' \in {"done", "heap"} /\ heap' = Empty
    BY <1>9 DEF Reference
  <2> QED
    BY <1>2, <1>3, <1>9, <1>d, <2>4, <2>5, <2>6 DEF Reference, TypeOK
<1>10. CASE Branch
  <2>1. Now.to \in Address /\ Decoding
    BY <1>2, <1>10, TargetIsAddress DEF Branch, Decoding, Now
  <2>2. heap' \in [Address -> 0 .. MaxPending]
    BY <1>2, <1>10, <2>1, PushCounts DEF Branch, TypeOK
  <2>3. current' \in Address
    BY <1>10, <2>1, BlockIs DEF Branch
  <2>4. pc' = "block"
    BY <1>10 DEF Branch, Decoding
  <2> QED
    BY <1>2, <1>10, <1>d, <2>2, <2>3, <2>4 DEF Branch, TypeOK
<1>11. CASE EndBlock
  <2>1. current' \in Address
    BY <1>11, BlockIs DEF EndBlock
  <2> QED
    BY <1>2, <1>11, <1>d, <2>1 DEF EndBlock, TypeOK
<1>12. CASE LeaveBlock
  BY <1>2, <1>12, <1>d DEF LeaveBlock, TypeOK
<1>13. CASE PassOver
  <2>1. current' \in Address /\ pc' = "block"
    BY <1>13, BlockIs DEF PassOver, Decoding
  <2> QED
    BY <1>2, <1>13, <1>d, <2>1 DEF PassOver, TypeOK
<1>14. CASE UNCHANGED vars
  BY <1>2, <1>14, <1>d DEF vars, TypeOK
<1> QED
  BY <1>4, <1>5, <1>6, <1>7, <1>8, <1>9, <1>10, <1>11, <1>12, <1>13, <1>14 DEF Next

(* What a function decodes is its own: decoding goes on to what it reaches.*)
LEMMA NextBelongs == IInv /\ [Next]_vars => Belongs'
<1> SUFFICES ASSUME IInv, [Next]_vars PROVE Belongs'
  OBVIOUS
<1>1. UNCHANGED text
  BY DEF Next, vars, NoPrologue, Prologue, Finish, Pop, NextFunction, Reference,
         Branch, EndBlock, LeaveBlock, PassOver
<1>2. /\ Address' = Address /\ Functions' = Functions /\ Empty' = Empty
      /\ \A i : Onward(i)' = Onward(i)
  BY <1>1, SameFile
<1>3. /\ text \in Texts /\ heap \in [Address -> 0 .. MaxPending] /\ TypeOK
  BY DEF IInv, Types, TypeOK
<1> DEFINE Own(a) == Reaches(start, a)
<1>d. ASSUME pc \in {"heap", "block"}, UNCHANGED <<start, ip>>,
             pc' \in {"heap", "block"} =>
               /\ \A a \in Pending' : a \in Pending \/ Own(a)
               /\ \A a \in covered' : a \in covered \/ Own(a),
             pc' = "block" => addr' <= current' /\ \A i \in addr' .. current' : Own(i)
      PROVE  Belongs'
  <2>1. SUFFICES ASSUME pc' \in {"heap", "block"} PROVE Belongs'
    BY DEF Belongs
  <2>2. start \in Functions /\ ip = start /\ \A a \in Pending \cup covered : Own(a)
    BY <1>d DEF IInv, Belongs
  <2>3. \A a \in Pending' \cup covered' : Own(a)
    BY <1>d, <2>1, <2>2
  <2>4. \A a : Own(a) => Own(a)'
    BY <1>2, <1>d DEF Reaches
  <2> QED
    BY <1>2, <1>d, <2>2, <2>3, <2>4 DEF Belongs
<1>o. ASSUME Decoding
      PROVE  /\ addr <= current /\ \A i \in addr .. current : Own(i)
             /\ addr .. (current + 1) - 1 = addr .. current
             /\ addr \in Int /\ current \in Int /\ Own(current)
  <2>1. /\ addr <= current /\ \A i \in addr .. current : Own(i)
        /\ addr .. (current + 1) - 1 = addr .. current
        /\ addr \in Int /\ current \in Int
    BY <1>o, BlockIs DEF Decoding, IInv, Belongs
  <2> QED
    BY <2>1
<1>p. ASSUME Decoding, Now.kind \notin {"end", "bad"}
      PROVE  addr <= current + 1 /\ \A i \in addr .. current + 1 : Own(i)
  <2>1. current + 1 \in Onward(current)
    BY <1>p, NextIsOnward DEF Decoding, Now
  <2>2. Own(current + 1)
    BY <1>p, <1>o, <2>1, ReachesOnward
  <2>3. \A i \in addr .. current + 1 : i \in addr .. current \/ i = current + 1
    BY <1>p, <1>o
  <2> QED
    BY <1>p, <1>o, <2>2, <2>3
<1>v. ASSUME Decoding, Visit(addr, current + 1) PROVE \A a \in covered' : a \in covered \/ Own(a)
  BY <1>o, <1>v DEF Visit
<1>4. CASE NoPrologue
  BY <1>4 DEF NoPrologue, Belongs
<1>5. CASE Prologue
  <2>1. start' \in Functions /\ start' = ip /\ ip' = ip /\ pc' = "heap"
    BY <1>5 DEF Prologue, Functions
  <2>2. \A a \in Pending' : a = ip
    BY <1>2, <1>3, <1>5 DEF Prologue, TypeOK, Empty, Pending
  <2>3. covered' = {}
    <3>1. visited = <<>> /\ covered' = covered /\ covered \subseteq Int
      BY <1>3, <1>5, TextIs DEF Prologue, TypeOK
    <3> QED
      BY <3>1, NoRanges DEF IInv, Scans
  <2>4. Reaches(ip, ip)'
    BY DEF Reaches
  <2> QED
    BY <1>2, <2>1, <2>2, <2>3, <2>4 DEF Belongs
<1>6. CASE Finish
  BY <1>6 DEF Finish, Belongs
<1>7. CASE Pop
  <2>1. PICK a \in Pending :
          /\ heap' = [heap EXCEPT ![a] = @ - 1]
          /\ pc' = "block" => addr' = a /\ current' = a
    BY <1>7 DEF Pop
  <2>2. Own(a) /\ a \in Int
    BY <1>3, <1>7, <2>1, TextIs DEF Pop, Pending, IInv, Belongs
  <2>3. \A b \in Pending' : b \in Pending
    BY <1>2, <1>3, <2>1 DEF Pending
  <2>4. a .. a = {a}
    BY <2>2
  <2> QED
    BY <1>7, <1>d, <2>1, <2>2, <2>3, <2>4 DEF Pop
<1>8. CASE NextFunction
  BY <1>8 DEF NextFunction, Belongs
<1>9. CASE Reference
  <2>1. /\ heap' = Empty /\ start' = start /\ ip' = ip /\ pc = "block" /\ pc' # "block" /\ Decoding
        /\ Visit(addr, current + 1) \/ covered' = covered
    BY <1>9 DEF Reference, Wanted, Decoding
  <2>2. Pending' = {}
    BY <1>2, <2>1 DEF Empty, Pending
  <2>3. \A a \in covered' : a \in covered \/ Own(a)
    BY <1>v, <2>1
  <2> QED
    BY <1>d, <2>1, <2>2, <2>3
<1>10. CASE Branch
  <2>1. Own(Now.to)
    <3>1. Now.to \in Onward(current)
      BY <1>10, TargetIsOnward DEF Branch, Decoding, Now
    <3> QED
      BY <1>10, <1>o, <3>1, ReachesOnward DEF Branch
  <2>2. heap' = heap \/ heap' = [heap EXCEPT ![Now.to] = @ + 1]
    BY <1>10 DEF Branch
  <2>3. \A a \in Pending' : a \in Pending \/ Own(a)
    BY <1>2, <1>3, <2>1, <2>2 DEF Pending
  <2> QED
    BY <1>10, <1>d, <1>p, <2>3 DEF Branch, Decoding
<1>11. CASE EndBlock
  BY <1>2, <1>11, <1>d, <1>v DEF EndBlock, Decoding, Pending
<1>12. CASE LeaveBlock
  BY <1>2, <1>12, <1>d DEF LeaveBlock, Pending
<1>13. CASE PassOver
  BY <1>2, <1>13, <1>d, <1>p DEF PassOver, Decoding, Pending
<1>14. CASE UNCHANGED vars
  <2>1. CASE pc \in {"heap", "block"}
    BY <1>2, <1>14, <1>d, <2>1 DEF vars, Pending, IInv, Belongs
  <2>2. CASE pc \notin {"heap", "block"}
    BY <1>14, <2>2 DEF vars, Belongs
  <2> QED
    BY <2>1, <2>2
<1> QED
  BY <1>4, <1>5, <1>6, <1>7, <1>8, <1>9, <1>10, <1>11, <1>12, <1>13, <1>14 DEF Next

(* Only Reference records a function: the one that is being decoded, at an *)
(* instruction that refers to the marker.                                  *)
LEMMA NextFound == IInv /\ [Next]_vars => FoundIsReached'
<1> SUFFICES ASSUME IInv, [Next]_vars PROVE FoundIsReached'
  OBVIOUS
<1>1. UNCHANGED text
  BY DEF Next, vars, NoPrologue, Prologue, Finish, Pop, NextFunction, Reference,
         Branch, EndBlock, LeaveBlock, PassOver
<1>2. Functions' = Functions /\ \A f, m : RefersTo(f, m)' = RefersTo(f, m)
  BY <1>1, SameFile
<1>3. CASE Reference
  <2>1. /\ pc = "block" /\ current \in DOMAIN text /\ Now.kind = "string"
        /\ found' = [found EXCEPT ![Now.of] = start]
    BY <1>3 DEF Reference, Wanted, Decoding
  <2>2. start \in Functions /\ Reaches(start, current)
    BY <2>1, BlockIs DEF IInv, Belongs, Decoding
  <2>3. RefersTo(start, Now.of)
    BY <2>1, <2>2 DEF RefersTo, Now
  <2>4. ASSUME NEW m \in Markers, found'[m] # 0
        PROVE  found'[m] \in Functions /\ RefersTo(found'[m], m)
    <3>1. CASE m = Now.of
      BY <2>1, <2>2, <2>3, <2>4, <3>1 DEF IInv, Types, TypeOK
    <3>2. CASE m # Now.of
      BY <2>1, <2>4, <3>2 DEF IInv, Types, TypeOK, FoundIsReached
    <3> QED
      BY <3>1, <3>2
  <2> QED
    BY <1>2, <2>4 DEF FoundIsReached
<1>4. CASE ~Reference
  <2>1. UNCHANGED found
    BY <1>4 DEF Next, vars, NoPrologue, Prologue, Finish, Pop, NextFunction,
                Branch, EndBlock, LeaveBlock, PassOver
  <2> QED
    BY <1>2, <2>1 DEF IInv, FoundIsReached
<1> QED
  BY <1>3, <1>4

(* The functions that give markers follow each other upwards.              *)
LEMMA NextUpwards == IInv /\ [Next]_vars => Upwards'
<1> SUFFICES ASSUME IInv, [Next]_vars PROVE Upwards'
  OBVIOUS
<1>1. /\ text \in Texts /\ start \in Nat /\ ip \in Nat /\ Upwards /\ TypeOK
      /\ Len(text) \in Nat
  BY TextIs DEF IInv, Types, TypeOK
<1>2. \A m \in Markers : found[m] \in Nat
  BY <1>1 DEF TypeOK
<1>3. CASE NoPrologue
  BY <1>1, <1>3 DEF NoPrologue, Upwards
<1>4. CASE Prologue
  BY <1>1, <1>2, <1>4 DEF Prologue, Upwards
<1>5. CASE NextFunction
  <2>1. PICK next : next = NextValue(visited, start)
    OBVIOUS
  <2>2. pc = "heap" /\ ip' = (IF next > start THEN next ELSE start + 1)
        /\ UNCHANGED <<start, found>>
    BY <1>5, <2>1 DEF NextFunction
  <2>3. start \in DOMAIN text
    BY <2>2 DEF IInv, Belongs, Functions
  <2>4. next \in Nat
    BY <1>1, <2>1, <2>3, NextIs, TextIs DEF IInv
  <2> QED
    BY <1>1, <2>2, <2>4 DEF Upwards
<1>6. CASE Reference
  <2>1. found' = [found EXCEPT ![Now.of] = start] /\ UNCHANGED <<start, ip>>
    BY <1>6 DEF Reference
  <2> QED
    BY <1>1, <1>2, <2>1 DEF Upwards, TypeOK
<1>7. CASE UNCHANGED <<start, ip, found>>
  BY <1>1, <1>7 DEF Upwards
<1> QED
  BY <1>3, <1>4, <1>5, <1>6, <1>7 DEF Next, vars, Finish, Pop, Branch, EndBlock, LeaveBlock, PassOver

(* A recorded marker stays recorded, so a served function stays served.    *)
LEMMA GivenStays ==
  ASSUME IInv, [Next]_vars
  PROVE  /\ \A m \in Markers : found[m] # 0 => found'[m] = found[m]
         /\ \A f \in Functions : Gave(f) => Gave(f)'
         /\ \A f \in Functions : Served(f) => Served(f)'
<1>1. UNCHANGED text
  BY DEF Next, vars, NoPrologue, Prologue, Finish, Pop, NextFunction, Reference,
         Branch, EndBlock, LeaveBlock, PassOver
<1>2. /\ Functions' = Functions
      /\ \A f, i : Reaches(f, i)' = Reaches(f, i)
      /\ \A f, m : RefersTo(f, m)' = RefersTo(f, m)
  BY <1>1, SameFile
<1>3. \A m \in Markers : found[m] # 0 => found'[m] = found[m]
  <2>1. CASE Reference
    <3>1. found' = [found EXCEPT ![Now.of] = start] /\ found[Now.of] = 0
      BY <2>1 DEF Reference, Wanted
    <3>2. found \in [Markers -> 0 .. Len(text)]
      BY DEF IInv, Types, TypeOK
    <3> QED
      BY <3>1, <3>2
  <2>2. CASE ~Reference
    BY <2>2 DEF Next, vars, NoPrologue, Prologue, Finish, Pop, NextFunction,
                Branch, EndBlock, LeaveBlock, PassOver
  <2> QED
    BY <2>1, <2>2
<1>4. \A f \in Functions : f \in Nat /\ f # 0
  BY TextIs DEF Functions, IInv, Types
<1>5. \A f \in Functions : Gave(f) => Gave(f)'
  BY <1>3, <1>4 DEF Gave
<1>6. ASSUME NEW f \in Functions, Passed(f) PROVE Passed(f)'
  <2>1. ASSUME NEW m \in Markers, RefersTo(f, m)' PROVE found'[m] \in 1 .. f - 1
    <3>1. found[m] \in 1 .. f - 1
      BY <1>2, <1>6, <2>1 DEF Passed
    <3> QED
      BY <1>3, <1>4, <3>1
  <2> QED
    BY <2>1 DEF Passed
<1>7. ASSUME NEW f \in Functions, Served(f) PROVE Served(f)'
  BY <1>2, <1>5, <1>6, <1>7 DEF Served
<1> QED
  BY <1>3, <1>5, <1>7

(* What the function has explored grows by the instruction just decoded,   *)
(* if that holds no missing marker and leads to what is ahead or explored. *)
Grows(D, E) ==
  /\ \A i \in D : Silent(i) => Silent(i)'
  /\ \A i \in E : Silent(i)' /\ Onward(i) \subseteq D \cup E \cup Ahead'
  /\ covered' \subseteq D \cup E
  /\ Ahead \subseteq D \cup E \cup Ahead'
  /\ pc' = "block" => addr' .. current' - 1 \subseteq D \cup E

LEMMA ExploredGrows ==
  ASSUME UNCHANGED <<text, start>>, NEW D \in SUBSET Address, Explored(D),
         NEW E \in SUBSET Address, Grows(D, E)
  PROVE  \E X \in SUBSET Address' : Explored(X)'
<1>1. Address' = Address /\ \A i : Onward(i)' = Onward(i)
  BY SameFile
<1>3. PICK X \in SUBSET Address : X = D \cup E
  OBVIOUS
<1>4. /\ covered \subseteq D /\ start \in D \cup Ahead
      /\ \A i \in D : Onward(i) \subseteq D \cup Ahead /\ Silent(i)
  BY DEF Explored
<1>5. \A i \in X : Onward(i) \subseteq X \cup Ahead' /\ Silent(i)'
  BY <1>3, <1>4 DEF Grows
<1>6. start' \in X \cup Ahead' /\ covered' \subseteq X
  BY <1>3, <1>4 DEF Grows
<1>7. pc' = "block" => addr' .. current' - 1 \subseteq X
  BY <1>3 DEF Grows
<1>8. Explored(X)'
  <2>1. \A i \in X : Onward(i)' \subseteq X \cup Ahead' /\ Silent(i)'
    BY <1>1, <1>5
  <2> QED
    BY <1>6, <1>7, <2>1 DEF Explored
<1> QED
  BY <1>1, <1>3, <1>8

(* Nothing is ahead: what has been explored is all the function reaches, so*)
(* all markers it refers to have been found, by functions before it unless *)
(* one by itself.                                                          *)
LEMMA NothingAhead ==
  ASSUME IInv, NEW D \in SUBSET Address, Explored(D), Ahead = {}, ~Gave(start)
  PROVE  Passed(start)
<1>1. start \in D /\ \A i \in D : Onward(i) \subseteq D /\ Silent(i)
  BY DEF Explored
<1>2. \A i : Reaches(start, i) => i \in D
  BY <1>1 DEF Reaches
<1>3. ASSUME NEW m \in Markers, RefersTo(start, m) PROVE found[m] \in 1 .. start - 1
  <2>1. found[m] # 0
    BY <1>1, <1>2, <1>3 DEF RefersTo, Silent
  <2>2. found[m] # start /\ found[m] <= start
    BY DEF Gave, IInv, Upwards
  <2>3. found[m] \in Nat /\ start \in Nat
    BY TextIs DEF IInv, Types, TypeOK
  <2> QED
    BY <2>1, <2>2, <2>3
<1> QED
  BY <1>3 DEF Passed

(* No function behind the outer loop is left unserved: the one just done   *)
(* has given a marker or met none that was missing, and those skipped with *)
(* the range it begins are part of it.                                     *)
LEMMA NextSearched == IInv /\ [Next]_vars => Searched'
<1> SUFFICES ASSUME IInv, [Next]_vars PROVE Searched'
  OBVIOUS
<1>1. UNCHANGED text
  BY DEF Next, vars, NoPrologue, Prologue, Finish, Pop, NextFunction, Reference,
         Branch, EndBlock, LeaveBlock, PassOver
<1>2. /\ Address' = Address /\ Functions' = Functions /\ Empty' = Empty
      /\ \A f, m : RefersTo(f, m)' = RefersTo(f, m)
  BY <1>1, SameFile
<1>3. text \in Texts /\ TypeOK /\ Scans
  BY DEF IInv, Types
<1>4. \A f \in Functions : f \in DOMAIN text /\ f \in Nat /\ f < End
  BY <1>3, TextIs DEF Functions
<1>5. \A f \in Functions : Served(f) => Served(f)'
  BY GivenStays
<1>6. \A f \in Functions : pc = "done" \/ f < ip => Served(f)'
  BY <1>5 DEF IInv, Searched
<1>g. ASSUME Gave(start), start \in Functions, start' = start PROVE Gave(start)'
  BY <1>g, GivenStays DEF Gave
<1>s. \A i \in Address : Silent(i) => Silent(i)'
  <2>1. ASSUME NEW i \in DOMAIN text, text[i].kind = "string" PROVE text[i].of \in Markers
    BY <1>3, <2>1, StringIsMarker
  <2> QED
    BY <1>1, <2>1, GivenStays DEF Silent
<1>d. ASSUME pc \in {"heap", "block"}, ip' = ip, start' = start, pc' # "done",
             NEW E \in SUBSET Address,
             Gave(start)' \/ \A D \in SUBSET Address : Explored(D) => Grows(D, E)
      PROVE  Searched'
  <2>1. \A f \in Functions' : pc' = "done" \/ f < ip' => Served(f)'
    BY <1>2, <1>6, <1>d
  <2>2. Gave(start)' \/ \E D \in SUBSET Address' : Explored(D)'
    <3>1. CASE Gave(start)'
      BY <3>1
    <3>2. CASE ~Gave(start)'
      <4>1. PICK D \in SUBSET Address : Explored(D)
        BY <1>d, <1>g, <3>2 DEF IInv, Searched, Belongs
      <4> QED
        BY <1>1, <1>d, <3>2, <4>1, ExploredGrows
    <3> QED
      BY <3>1, <3>2
  <2> QED
    BY <2>1, <2>2 DEF Searched
<1>b. ASSUME Decoding
      PROVE  /\ {current} \in SUBSET Address /\ pc = "block" /\ current \in DOMAIN text
             /\ Ahead = Pending \cup {current}
             /\ \A D : addr .. current - 1 \subseteq D =>
                  addr .. (current + 1) - 1 \subseteq D \cup {current}
             /\ addr \in Int /\ current \in Int
             /\ addr .. (current + 1) - 1 = addr .. current
  <2>1. /\ addr \in Int /\ current \in Int /\ current \in DOMAIN text /\ current \in Address
        /\ pc = "block" /\ addr .. (current + 1) - 1 = addr .. current
    BY <1>3, <1>b, BlockIs DEF Decoding, TypeOK
  <2>2. \A i \in addr .. current : i = current \/ i \in addr .. current - 1
    BY <2>1
  <2> QED
    BY <2>1, <2>2 DEF Ahead
<1>7. CASE NoPrologue
  <2>1. \A f \in Functions : f < ip + 1 => f < ip
    <3>1. ip \notin Functions /\ ip \in Nat
      BY <1>3, <1>7, TextIs DEF NoPrologue, Functions
    <3> QED
      BY <1>4, <3>1
  <2> QED
    BY <1>2, <1>6, <1>7, <2>1 DEF NoPrologue, Searched
<1>8. CASE Prologue
  <2>1. covered' = {}
    <3>1. visited = <<>> /\ covered' = covered /\ covered \subseteq Int
      BY <1>3, <1>8, TextIs DEF Prologue, TypeOK
    <3> QED
      BY <1>3, <3>1, NoRanges DEF Scans
  <2>2. ip \in Address /\ heap' = [heap EXCEPT ![ip] = @ + 1] /\ heap[ip] = 0
    BY <1>3, <1>8 DEF Prologue, TypeOK, Empty
  <2>3. ip \in Pending'
    BY <1>2, <1>3, <2>2 DEF Pending, TypeOK
  <2>4. start' = ip /\ pc' = "heap" /\ ip' = ip
    BY <1>8 DEF Prologue
  <2>5. start' \in Ahead'
    BY <2>3, <2>4 DEF Ahead
  <2>6. Explored({})' /\ {} \in SUBSET Address'
    BY <2>1, <2>4, <2>5 DEF Explored
  <2>7. \A f \in Functions' : pc' = "done" \/ f < ip' => Served(f)'
    BY <1>2, <1>6, <2>4
  <2>8. \E D \in SUBSET Address' : Explored(D)'
    BY <2>6
  <2> QED
    BY <2>7, <2>8 DEF Searched
<1>9. CASE Finish
  <2>1. \A f \in Functions : Served(f)'
    BY <1>4, <1>6, <1>9 DEF Finish
  <2>2. pc' = "done"
    BY <1>9 DEF Finish
  <2> QED
    BY <1>2, <2>1, <2>2 DEF Searched
<1>10. CASE Pop
  <2>1. PICK a \in Pending :
          /\ heap' = [heap EXCEPT ![a] = @ - 1]
          /\ \/ ContainsValue(visited, a) /\ UNCHANGED <<pc, addr, current>>
             \/ pc' = "block" /\ addr' = a /\ current' = a
    BY <1>10 DEF Pop
  <2>2. pc = "heap" /\ UNCHANGED <<start, ip, covered>> /\ Ahead = Pending /\ a \in Int
    BY <1>3, <1>10, <2>1, TextIs DEF Pop, Ahead, Pending
  <2>3. \A b \in Pending : b = a \/ b \in Pending'
    BY <1>2, <1>3, <2>1 DEF Pending, TypeOK
  <2>4. CASE ContainsValue(visited, a) /\ UNCHANGED <<pc, addr, current>>
    <3>1. a \in covered
      BY <1>3, <2>2, <2>4, ContainsIs DEF Scans
    <3>2. pc' = "heap" /\ Ahead' = Pending'
      BY <2>2, <2>4 DEF Ahead
    <3>3. \A D \in SUBSET Address : Explored(D) => covered \subseteq D
      BY DEF Explored
    <3>4. \A D \in SUBSET Address : Explored(D) => Grows(D, {})
      BY <1>s, <2>2, <2>3, <3>1, <3>2, <3>3 DEF Grows
    <3> QED
      BY <1>d, <2>2, <3>2, <3>4
  <2>5. CASE pc' = "block" /\ addr' = a /\ current' = a
    <3>1. Ahead \subseteq Ahead'
      BY <2>2, <2>3, <2>5 DEF Ahead
    <3>2. addr' .. current' - 1 = {}
      BY <2>2, <2>5
    <3>3. \A D \in SUBSET Address : Explored(D) => covered \subseteq D
      BY DEF Explored
    <3>4. \A D \in SUBSET Address : Explored(D) => Grows(D, {})
      BY <1>s, <2>2, <3>1, <3>2, <3>3 DEF Grows
    <3> QED
      BY <1>d, <2>2, <2>5, <3>4
  <2> QED
    BY <2>1, <2>4, <2>5
<1>11. CASE NextFunction
  <2>1. pc = "heap" /\ Pending = {} /\ Ahead = {} /\ pc' = "text"
    BY <1>11 DEF NextFunction, Ahead
  <2>2. start \in Functions /\ ip = start /\ \A a \in covered : Reaches(start, a)
    BY <2>1 DEF IInv, Belongs
  <2>3. Served(start)
    <3>1. CASE Gave(start)
      BY <3>1 DEF Served
    <3>2. CASE ~Gave(start)
      <4>1. PICK D \in SUBSET Address : Explored(D)
        BY <2>1, <3>2 DEF IInv, Searched
      <4>2. Passed(start)
        BY <2>1, <3>2, <4>1, NothingAhead
      <4> QED
        BY <4>2 DEF Served
    <3> QED
      BY <3>1, <3>2
  <2>4. PICK next : next = NextValue(visited, start)
    OBVIOUS
  <2>5. /\ next \in Address /\ start <= next
        /\ \A x \in Int : start <= x /\ x < next => x \in covered
    BY <1>3, <1>4, <2>2, <2>4, NextIs
  <2>6. next \in Nat /\ start \in Nat
    BY <1>3, <1>4, <2>2, <2>5, TextIs
  <2>7. ASSUME NEW f \in Functions, f < ip' PROVE Served(f)'
    <3>1. CASE f < ip
      BY <1>6, <3>1
    <3>2. CASE f = start
      BY <1>5, <2>3, <3>2
    <3>3. CASE ~(f < ip) /\ f # start
      <4>1. f \in Nat /\ start < f
        BY <1>4, <2>2, <2>6, <3>3
      <4>2. next > start /\ f < next
        <5>1. ip' = IF next > start THEN next ELSE start + 1
          BY <1>11, <2>4 DEF NextFunction
        <5> QED
          BY <2>6, <2>7, <4>1, <5>1
      <4>3. Reaches(start, f)
        BY <2>2, <2>5, <2>6, <4>1, <4>2
      <4>4. Served(f)
        BY <2>2, <3>3, <4>3 DEF Served
      <4> QED
        BY <1>5, <4>4
    <3> QED
      BY <3>1, <3>2, <3>3
  <2> QED
    BY <1>2, <2>1, <2>7 DEF Searched
<1>12. CASE Reference
  <2>1. /\ Decoding /\ Now.kind = "string" /\ found' = [found EXCEPT ![Now.of] = start]
        /\ pc = "block" /\ current \in DOMAIN text /\ start' = start /\ ip' = ip
    BY <1>12 DEF Reference, Wanted, Decoding
  <2>2. Now.of \in Markers /\ start \in Functions /\ Reaches(start, current)
    BY <1>3, <2>1, StringIsMarker, BlockIs DEF IInv, Belongs, Now
  <2>3. PICK m \in Markers : m = Now.of
    BY <2>2
  <2>4. found'[m] = start /\ start = ip
    BY <1>3, <2>1, <2>3 DEF TypeOK, IInv, Belongs
  <2>7. Gave(start)'
    BY <2>1, <2>3, <2>4 DEF Gave
  <2>8. CASE pc' = "done"
    <3>1. \A k \in Markers : found'[k] # 0
      BY <1>12, <2>8 DEF Reference
    <3>2. /\ \A k \in Markers : found'[k] \in Nat /\ found'[k] <= start
          /\ start \in Nat
      BY <1>3, <2>1, <2>2, <1>4 DEF TypeOK, IInv, Upwards
    <3>3. ASSUME NEW f \in Functions PROVE Served(f)'
      <4>1. CASE f < ip
        BY <1>6, <4>1
      <4>2. CASE f = start
        BY <2>1, <2>7, <4>2 DEF Served, Gave
      <4>3. CASE start < f
        <5>1. \A k \in Markers : found'[k] \in 1 .. f - 1
          BY <1>4, <3>1, <3>2, <4>3
        <5> QED
          BY <5>1 DEF Served, Passed
      <4> QED
        BY <1>4, <2>2, <2>4, <4>1, <4>2, <4>3
    <3> QED
      BY <1>2, <2>8, <3>3 DEF Searched
  <2>9. CASE pc' # "done"
    BY <1>d, <2>1, <2>7, <2>9
  <2> QED
    BY <2>8, <2>9
<1>13. CASE Branch
  <2>1. /\ Decoding /\ Now.kind = "branch" /\ current' = current + 1
        /\ UNCHANGED <<ip, start, addr, covered, pc, visited>> /\ pc = "block"
    BY <1>13 DEF Branch, Decoding
  <2>2. Now.to \in Address /\ Now.to \in Int
    BY <1>3, <2>1, TargetIsAddress, TextIs DEF Decoding, Now
  <2>3. Pending \subseteq Pending'
    BY <1>2, <1>3, <1>13, <2>2 DEF Branch, Pending, TypeOK
  <2>4. Ahead' = Pending' \cup {current + 1} /\ Ahead = Pending \cup {current}
    BY <1>b, <2>1 DEF Ahead
  <2>5. Now.to \in Pending' \cup addr .. current + 1 \cup covered
    <3>1. CASE heap' = [heap EXCEPT ![Now.to] = @ + 1]
      BY <1>2, <1>3, <2>2, <3>1 DEF Pending, TypeOK
    <3>2. CASE Now.to \in addr .. current + 1
      BY <3>2
    <3>3. CASE ContainsValue(visited, Now.to)
      BY <1>3, <2>2, <3>3, ContainsIs DEF Scans
    <3> QED
      BY <1>13, <3>1, <3>2, <3>3 DEF Branch
  <2>6. Onward(current) = {current + 1, Now.to} /\ \A i \in {current} : Silent(i)'
    BY <1>1, <1>b, <2>1 DEF Onward, Now, Silent
  <2>7. \A i \in addr .. current + 1 : i = current + 1 \/ i \in addr .. (current + 1) - 1
    BY <1>b, <2>1
  <2>8. ASSUME NEW D \in SUBSET Address, Explored(D)
        PROVE  Grows(D, {current})
    <3>1. covered \subseteq D /\ addr .. current - 1 \subseteq D
      BY <2>1, <2>8 DEF Explored
    <3>2. addr .. (current + 1) - 1 \subseteq D \cup {current}
      BY <1>b, <2>1, <3>1
    <3>3. Now.to \in D \cup {current} \cup Ahead'
      BY <2>4, <2>5, <2>7, <3>1, <3>2
    <3>4. addr' .. current' - 1 \subseteq D \cup {current}
      BY <2>1, <3>2
    <3> QED
      BY <1>s, <2>1, <2>3, <2>4, <2>6, <3>1, <3>3, <3>4 DEF Grows
  <2>9. {current} \in SUBSET Address /\ pc \in {"heap", "block"} /\ pc' # "done"
    BY <1>b, <2>1
  <2> QED
    BY <1>d, <2>1, <2>8, <2>9
<1>14. CASE EndBlock
  <2>1. /\ Decoding /\ Now.kind = "end" /\ pc' = "heap" /\ UNCHANGED <<ip, start, heap>>
        /\ covered' = covered \cup addr .. (current + 1) - 1 /\ pc = "block"
    BY <1>14 DEF EndBlock, Decoding, Visit
  <2>2. Ahead' = Pending /\ Ahead = Pending \cup {current}
    BY <1>2, <1>b, <2>1 DEF Ahead, Pending
  <2>3. Onward(current) = {} /\ \A i \in {current} : Silent(i)'
    BY <1>1, <1>b, <2>1 DEF Onward, Now, Silent
  <2>4. ASSUME NEW D \in SUBSET Address, Explored(D)
        PROVE  Grows(D, {current})
    <3>1. covered \subseteq D /\ addr .. current - 1 \subseteq D
      BY <2>1, <2>4 DEF Explored
    <3>2. covered' \subseteq D \cup {current}
      BY <1>b, <2>1, <3>1
    <3> QED
      BY <1>s, <2>1, <2>2, <2>3, <3>2 DEF Grows
  <2>5. {current} \in SUBSET Address /\ pc \in {"heap", "block"} /\ pc' # "done"
    BY <1>b, <2>1
  <2> QED
    BY <1>d, <2>1, <2>4, <2>5
<1>15. CASE LeaveBlock
  <2>1. /\ pc = "block" /\ pc' = "heap" /\ UNCHANGED <<ip, start, heap, covered>>
        /\ (current \in DOMAIN text => Now.kind = "bad")
    BY <1>15 DEF LeaveBlock
  <2>2. Ahead' = Pending /\ Ahead = Pending \cup {current} /\ {current} \in SUBSET Address
    BY <1>2, <1>3, <2>1 DEF Ahead, Pending, TypeOK
  <2>3. Onward(current) = {} /\ \A i \in {current} : Silent(i)'
    BY <1>1, <2>1 DEF Onward, Now, Silent
  <2>4. \A D \in SUBSET Address : Explored(D) => covered' \subseteq D
    BY <2>1 DEF Explored
  <2>5. \A D \in SUBSET Address : Explored(D) => Grows(D, {current})
    BY <1>s, <2>1, <2>2, <2>3, <2>4 DEF Grows
  <2>6. pc \in {"heap", "block"} /\ pc' # "done"
    BY <2>1
  <2> QED
    BY <1>d, <2>1, <2>2, <2>5, <2>6
<1>16. CASE PassOver
  <2>1. /\ Decoding /\ ~Wanted /\ Now.kind \in {"prologue", "other", "string"}
        /\ current' = current + 1 /\ pc = "block"
        /\ UNCHANGED <<ip, start, addr, covered, pc, heap, found>>
    BY <1>16 DEF PassOver, Decoding
  <2>2. Ahead' = Pending \cup {current + 1} /\ Ahead = Pending \cup {current}
    BY <1>2, <1>b, <2>1 DEF Ahead, Pending
  <2>3. Onward(current) = {current + 1}
    BY <1>b, <2>1 DEF Onward, Now
  <2>4. \A i \in {current} : Silent(i)'
    <3>1. CASE Now.kind = "string"
      <4>1. Now.of \in Markers /\ found'[Now.of] # 0
        BY <1>3, <1>b, <2>1, <3>1, StringIsMarker DEF Wanted, Now
      <4> QED
        BY <1>1, <4>1 DEF Silent, Now
    <3>2. CASE Now.kind # "string"
      BY <1>1, <2>1, <3>2 DEF Silent, Now
    <3> QED
      BY <3>1, <3>2
  <2>5. ASSUME NEW D \in SUBSET Address, Explored(D) PROVE Grows(D, {current})
    <3>1. covered \subseteq D /\ addr .. current - 1 \subseteq D
      BY <2>1, <2>5 DEF Explored
    <3>2. addr' .. current' - 1 \subseteq D \cup {current} /\ covered' \subseteq D
      BY <1>b, <2>1, <3>1
    <3> QED
      BY <1>s, <2>2, <2>3, <2>4, <3>2 DEF Grows
  <2>6. {current} \in SUBSET Address /\ pc \in {"heap", "block"} /\ pc' # "done"
    BY <1>b, <2>1
  <2> QED
    BY <1>d, <2>1, <2>5, <2>6
<1>17. CASE UNCHANGED vars
  <2>1. UNCHANGED <<pc, ip, start, heap, covered, addr, current, found>>
    BY <1>17 DEF vars
  <2>2. CASE pc \in {"heap", "block"}
    <3>1. Ahead' = Ahead
      BY <1>2, <2>1 DEF Ahead, Pending
    <3>2. \A D \in SUBSET Address : Explored(D) =>
            covered \subseteq D /\ (pc = "block" => addr .. current - 1 \subseteq D)
      BY DEF Explored
    <3>3. \A D \in SUBSET Address : Explored(D) => Grows(D, {})
      BY <1>s, <2>1, <3>1, <3>2 DEF Grows
    <3>4. pc \in {"heap", "block"} /\ pc' # "done"
      BY <2>1, <2>2
    <3> QED
      BY <1>d, <2>1, <3>3, <3>4
  <2>3. CASE pc \notin {"heap", "block"}
    BY <1>2, <1>6, <2>1, <2>3 DEF Searched
  <2> QED
    BY <2>2, <2>3
<1> QED
  BY <1>7, <1>8, <1>9, <1>10, <1>11, <1>12, <1>13, <1>14, <1>15, <1>16, <1>17 DEF Next

(* The RangeSet answers for the set of what has been put into it.          *)
LEMMA IInvRanges == IInv => RangesAreTheSet
<1> SUFFICES ASSUME IInv, NEW a \in Address
             PROVE  /\ ContainsValue(visited, a) <=> a \in covered
                    /\ NextValue(visited, a) = Min({b \in a .. End + 1 : b \notin covered})
  BY DEF RangesAreTheSet
<1>1. text \in Texts /\ Scans
  BY DEF IInv, Types
<1>2. a \in Int /\ a <= End /\ End \in Int /\ \A x \in covered : x < End
  BY <1>1, TextIs DEF Scans
<1>3. ContainsValue(visited, a) <=> a \in covered
  BY <1>1, <1>2, ContainsIs DEF Scans
<1>4. PICK next : next = NextValue(visited, a)
  OBVIOUS
<1>5. /\ next \in Int /\ a <= next /\ next \notin covered
      /\ \A x \in Int : a <= x /\ x < next => x \in covered
  BY <1>1, <1>2, <1>4, NextValueIs DEF Scans
<1>6. next <= End
  BY <1>2, <1>5
<1>7. {b \in a .. End + 1 : b \notin covered} \in SUBSET Int
  BY <1>2
<1>8. PICK S \in SUBSET Int : S = {b \in a .. End + 1 : b \notin covered}
  BY <1>7, Zenon
<1>9. next \in S /\ \A x \in S : next <= x
  BY <1>2, <1>5, <1>6, <1>8
<1> QED
  BY <1>3, <1>4, <1>8, <1>9, MinIs

(* A section that is done has served every function.                       *)
LEMMA IInvEach == IInv => EachFunctionGivesOne
BY DEF IInv, Searched, EachFunctionGivesOne, Served

LEMMA Inductive == Spec => []IInv
<1>1. IInv /\ [Next]_vars => IInv'
  BY NextTypes, NextScans, NextBelongs, NextUpwards, NextFound, NextSearched DEF IInv
<1> QED
  BY <1>1, InitIInv, PTL DEF Spec

(* The addresses the scan holds lie in the section or just behind it, and  *)
(* the heap and the RangeSet are empty between two functions.              *)
THEOREM TypeCorrect == Spec => []TypeOK
<1>1. IInv => TypeOK
  BY DEF IInv, Types
<1> QED
  BY <1>1, Inductive, PTL

(* RangeSet's add, contains and next_value: the list answers for the set of*)
(* the addresses added, for blocks in any order and of any length.         *)
THEOREM RangesAreTheSetHolds == Spec => []RangesAreTheSet
BY IInvRanges, Inductive, PTL

(* A marker is attributed to a function whose own code refers to it.       *)
THEOREM FoundIsReachedHolds == Spec => []FoundIsReached
<1>1. IInv => FoundIsReached
  BY DEF IInv
<1> QED
  BY <1>1, Inductive, PTL

(* No function is skipped: each that is not part of another has given a    *)
(* marker, or those before it have given all the markers it refers to.     *)
THEOREM EachFunctionGivesOneHolds == Spec => []EachFunctionGivesOne
BY IInvEach, Inductive, PTL
=============================================================================
