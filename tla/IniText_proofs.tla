--------------------------- MODULE IniText_proofs ---------------------------
(***************************************************************************)
(* What the functions of IniText do to any text: where an insertion puts   *)
(* its lines, what it leaves alone, and which keys and settings a reader   *)
(* finds before and after it.  The proofs about IniRepair, AutoUpdate and  *)
(* FinderRun rest on these lemmas.                                         *)
(***************************************************************************)
EXTENDS IniText, FiniteSetTheorems, SequenceTheorems, WellFoundedInduction, TLAPS

-----------------------------------------------------------------------------
(* Sets of numbers.                                                        *)

(* Induction: a set of counterexamples that is not empty has a least one.  *)
LEMMA LeastIn == ASSUME NEW T \in SUBSET Nat, T # {}
                 PROVE  \E m \in T : \A n \in T : m <= n
<1>1. PICK m \in T : \A n \in T : <<n, m>> \notin OpToRel(<, Nat)
  BY NatLessThanWellFounded, WFMin
<1>2. ASSUME NEW n \in T PROVE m <= n
  <2>1. ~(n < m)
    BY <1>1 DEF OpToRel
  <2> QED BY <2>1
<1> QED BY <1>2

(* What is bounded above has a greatest element.                           *)
LEMMA GreatestIn == ASSUME NEW n \in Nat, NEW T \in SUBSET (0 .. n), T # {}
                    PROVE  \E m \in T : \A k \in T : k <= m
<1>0. \A k \in T : k \in 0 .. n /\ n - k \in Nat
  OBVIOUS
<1>1. {n - k : k \in T} \in SUBSET Nat /\ {n - k : k \in T} # {}
  BY <1>0
<1>2. PICK m \in {n - k : k \in T} : \A j \in {n - k : k \in T} : m <= j
  BY <1>1, LeastIn
<1>3. PICK k \in T : m = n - k
  BY <1>2
<1>4. ASSUME NEW j \in T PROVE j <= k
  <2>1. m <= n - j
    BY <1>2
  <2> QED BY <1>3, <2>1
<1> QED BY <1>4

LEMMA MinIs == ASSUME NEW S \in SUBSET Int, NEW m \in S, \A x \in S : m <= x PROVE Min(S) = m
<1>1. Min(S) \in S /\ \A x \in S : Min(S) <= x
  BY Zenon DEF Min
<1>2. m \in Int /\ Min(S) \in Int /\ m <= Min(S) /\ Min(S) <= m
  BY <1>1
<1> QED BY <1>2

LEMMA MaxIs == ASSUME NEW S \in SUBSET Int, NEW m \in S, \A x \in S : x <= m PROVE Max(S) = m
<1>1. Max(S) \in S /\ \A x \in S : Max(S) >= x
  BY Zenon DEF Max
<1>2. m \in Int /\ Max(S) \in Int /\ m >= Max(S) /\ Max(S) >= m
  BY <1>1
<1> QED BY <1>2

LEMMA LeastIsMin == ASSUME NEW S \in SUBSET Nat, S # {}
                    PROVE  Min(S) \in S /\ \A x \in S : Min(S) <= x
<1>1. PICK m \in S : \A n \in S : m <= n
  BY LeastIn
<1>2. Min(S) = m
  BY <1>1, MinIs
<1> QED BY <1>1, <1>2

LEMMA GreatestIsMax == ASSUME NEW n \in Nat, NEW S \in SUBSET (0 .. n), S # {}
                       PROVE  Max(S) \in S /\ \A x \in S : x <= Max(S)
<1>1. PICK m \in S : \A k \in S : k <= m
  BY GreatestIn
<1>2. Max(S) = m
  BY <1>1, MaxIs
<1> QED BY <1>1, <1>2

LEMMA SomeNumbers == ASSUME NEW n \in Nat, NEW S \in SUBSET (1 .. n)
                     PROVE  IsFiniteSet(S) /\ Cardinality(S) \in Nat
<1>1. IsFiniteSet(1 .. n)
  BY FS_Interval
<1>2. IsFiniteSet(S)
  BY <1>1, FS_Subset
<1> QED BY <1>2, FS_CardinalityType

(* Ascending(S) lists S, each element once, the lower before the higher.   *)
Lists(f, S) ==
  /\ \E n \in Nat : DOMAIN f = 1 .. n /\ Len(f) = n
  /\ \A i \in DOMAIN f : f[i] \in S
  /\ \A x \in S : \E i \in DOMAIN f : f[i] = x
  /\ \A i, j \in DOMAIN f : i < j => f[i] < f[j]

LEMMA AscendingLists ==
  ASSUME NEW n \in Nat, NEW S \in SUBSET (1 .. n)
  PROVE  Lists(Ascending(S), S)
<1> DEFINE c == Cardinality(S)
           upTo(x) == {y \in S : y <= x}
           rank == [x \in S |-> Cardinality(upTo(x))]
<1>1. IsFiniteSet(S) /\ c \in Nat
  BY SomeNumbers
<1>2. ASSUME NEW x \in S PROVE IsFiniteSet(upTo(x)) /\ rank[x] \in 1 .. c
  <2>1. upTo(x) \in SUBSET S
    OBVIOUS
  <2>2. IsFiniteSet(upTo(x)) /\ Cardinality(upTo(x)) <= c
    BY <1>1, <2>1, FS_Subset
  <2>3. Cardinality(upTo(x)) \in Nat
    BY <2>2, FS_CardinalityType
  <2>4. x \in upTo(x)
    OBVIOUS
  <2>5. Cardinality(upTo(x)) # 0
    BY <2>2, <2>4, FS_EmptySet
  <2> QED BY <1>1, <2>2, <2>3, <2>5
<1>3. ASSUME NEW x \in S, NEW y \in S, x < y PROVE rank[x] < rank[y]
  <2>0. x \in Int /\ y \in Int /\ S \subseteq Int
    OBVIOUS
  <2>1. \A z \in S : z <= x => z <= y
    BY <1>3, <2>0
  <2>3. upTo(x) \in SUBSET upTo(y)
    BY <2>1
  <2>4. y \in upTo(y) /\ y \notin upTo(x)
    BY <1>3, <2>0
  <2>2. /\ Cardinality(upTo(x)) <= Cardinality(upTo(y))
        /\ Cardinality(upTo(x)) # Cardinality(upTo(y))
    BY <1>2, <2>3, <2>4, FS_Subset
  <2> QED BY <1>2, <2>2
<1>4. rank \in Injection(S, 1 .. c)
  <2>1. rank \in [S -> 1 .. c]
    BY <1>2
  <2>2. ASSUME NEW x \in S, NEW y \in S, rank[x] = rank[y] PROVE x = y
    <3> HIDE DEF rank
    <3>1. rank[x] \in 1 .. c /\ rank[y] \in 1 .. c
      BY <2>1
    <3> QED BY <1>1, <1>3, <2>2, <3>1
  <2> QED BY <2>1, <2>2 DEF Injection, IsInjective
<1>5. rank \in Surjection(S, 1 .. c)
  <2>1. IsFiniteSet(1 .. c) /\ Cardinality(1 .. c) = c
    BY <1>1, FS_Interval
  <2> HIDE DEF rank
  <2> QED BY <1>4, <2>1, FS_Injection
<1>6. ASSUME NEW k \in 1 .. c PROVE Ascending(S)[k] \in S /\ rank[Ascending(S)[k]] = k
  <2>1. \E x \in S : rank[x] = k
    BY <1>5 DEF Surjection
  <2>2. \E x \in S : Cardinality(upTo(x)) = k
    BY <2>1
  <2>3. Ascending(S)[k] = CHOOSE x \in S : Cardinality({y \in S : y <= x}) = k
    BY DEF Ascending
  <2>4. Ascending(S)[k] \in S /\ Cardinality({y \in S : y <= Ascending(S)[k]}) = k
    BY <2>2, <2>3
  <2> QED BY <2>4
<1>7. DOMAIN Ascending(S) = 1 .. c /\ Len(Ascending(S)) = c
  BY <1>1 DEF Ascending
<1>8. ASSUME NEW x \in S PROVE \E i \in 1 .. c : Ascending(S)[i] = x
  <2>1. rank[x] \in 1 .. c
    BY <1>2
  <2>2. PICK k \in 1 .. c : k = rank[x]
    BY <2>1
  <2>3. rank[Ascending(S)[k]] = rank[x] /\ Ascending(S)[k] \in S
    BY <1>6, <2>2
  <2>4. Ascending(S)[k] = x
    BY <1>4, <2>3 DEF Injection, IsInjective
  <2> QED BY <2>4
<1>9. ASSUME NEW i \in 1 .. c, NEW j \in 1 .. c, i < j
      PROVE  Ascending(S)[i] < Ascending(S)[j]
  <2>1. PICK x \in S : x = Ascending(S)[i] /\ rank[x] = i
    BY <1>6
  <2>2. PICK y \in S : y = Ascending(S)[j] /\ rank[y] = j
    BY <1>6
  <2>3. ~(y < x) /\ y # x
    <3> HIDE DEF rank
    <3> QED BY <1>3, <1>9, <2>1, <2>2
  <2> QED BY <2>1, <2>2, <2>3
<1> QED
  BY <1>1, <1>6, <1>7, <1>8, <1>9 DEF Lists

LEMMA AscendingOfNone == Ascending({}) = <<>>
BY FS_EmptySet DEF Ascending

-----------------------------------------------------------------------------
(* Texts.                                                                  *)

Texts == Seq(TextLine)

(* Two lines that say the same, with or without an ending.                 *)
Says(l, m) == l.kind = m.kind /\ l.name = m.name /\ l.val = m.val

LEMMA EndedSays == ASSUME NEW l \in TextLine
                   PROVE  Ended(l) \in TextLine /\ Ended(l).eol = TRUE /\ Says(Ended(l), l)
BY DEF Ended, TextLine, Says

(* A text is a function from the places of its lines.                      *)
LEMMA TextIs == ASSUME NEW doc \in Texts
                PROVE  /\ Len(doc) \in Nat /\ DOMAIN doc = 1 .. Len(doc)
                       /\ \A i \in 1 .. Len(doc) : doc[i] \in TextLine
BY DEF Texts

LEMMA TextFrom == ASSUME NEW n \in Nat, NEW doc, DOMAIN doc = 1 .. n,
                         doc = [i \in 1 .. n |-> doc[i]], \A i \in 1 .. n : doc[i] \in TextLine
                  PROVE  doc \in Texts /\ Len(doc) = n
BY DEF Texts

LEMMA Joined ==
  ASSUME NEW a \in Texts, NEW b \in Texts
  PROVE  /\ a \o b \in Texts /\ Len(a \o b) = Len(a) + Len(b)
         /\ \A i \in 1 .. Len(a) : (a \o b)[i] = a[i]
         /\ \A i \in 1 .. Len(b) : (a \o b)[Len(a) + i] = b[i]
<1>1. ASSUME NEW S, NEW x \in Seq(S), NEW y \in Seq(S)
      PROVE  /\ x \o y \in Seq(S) /\ Len(x \o y) = Len(x) + Len(y)
             /\ \A i \in 1 .. Len(x) : (x \o y)[i] = x[i]
             /\ \A i \in 1 .. Len(y) : (x \o y)[Len(x) + i] = y[i]
  OBVIOUS
<1> QED BY <1>1 DEF Texts

(* LinesAt copies the lines at the places, in order, each with an ending.  *)
Copies(f, lines, doc, places) ==
  /\ Lists(f, places)
  /\ DOMAIN lines = DOMAIN f /\ Len(lines) = Len(f)
  /\ \A i \in DOMAIN lines : lines[i] = Ended(doc[f[i]])

LEMMA LinesAtCopies ==
  ASSUME NEW doc \in Texts, NEW places \in SUBSET (1 .. Len(doc))
  PROVE  /\ LinesAt(doc, places) \in Texts
         /\ Copies(Ascending(places), LinesAt(doc, places), doc, places)
<1> DEFINE f == Ascending(places)
           lines == LinesAt(doc, places)
<1>1. Lists(f, places)
  BY AscendingLists, TextIs
<1>2. PICK n \in Nat : DOMAIN f = 1 .. n /\ Len(f) = n
  BY <1>1 DEF Lists
<1>3. lines = [i \in 1 .. n |-> Ended(doc[f[i]])]
  BY <1>2 DEF LinesAt
<1>4. ASSUME NEW i \in 1 .. n PROVE Ended(doc[f[i]]) \in TextLine
  <2>1. f[i] \in places
    BY <1>1, <1>2 DEF Lists
  <2> QED BY <2>1, TextIs, EndedSays
<1>5. lines \in Texts /\ DOMAIN lines = 1 .. n /\ Len(lines) = n
  <2> HIDE DEF f
  <2> QED BY <1>3, <1>4 DEF Texts
<1>6. \A i \in 1 .. n : lines[i] = Ended(doc[f[i]])
  BY <1>3
<1> QED BY <1>1, <1>2, <1>5, <1>6 DEF Copies

LEMMA LinesAtNone == ASSUME NEW doc PROVE LinesAt(doc, {}) = <<>>
BY AscendingOfNone DEF LinesAt

(* An insertion of lines before place at of a text, seen line by line: what*)
(* was before keeps its place, and the last of it gets an ending; what was *)
(* behind moves down.                                                      *)
Inserted(doc, new, at, lines) ==
  /\ doc \in Texts /\ new \in Texts /\ lines \in Texts /\ at \in 1 .. Len(doc) + 1
  /\ Len(new) = Len(doc) + Len(lines)
  /\ \A i \in 1 .. at - 1 : new[i] = IF i = at - 1 THEN Ended(doc[i]) ELSE doc[i]
  /\ \A i \in 1 .. Len(lines) : new[at - 1 + i] = lines[i]
  /\ \A i \in at .. Len(doc) : new[i + Len(lines)] = doc[i]

LEMMA PreviousLineEnds ==
  ASSUME NEW doc \in Texts, NEW at \in 1 .. Len(doc) + 1
  PROVE  /\ EnsurePreviousLineEnds(doc, at) \in Texts
         /\ Len(EnsurePreviousLineEnds(doc, at)) = Len(doc)
         /\ \A i \in 1 .. Len(doc) :
              EnsurePreviousLineEnds(doc, at)[i] = IF i = at - 1 THEN Ended(doc[i]) ELSE doc[i]
<1> DEFINE ended == EnsurePreviousLineEnds(doc, at)
           n == Len(doc)
<1>1. n \in Nat /\ at \in 1 .. n + 1 /\ DOMAIN doc = 1 .. n
  BY TextIs
<1>2. CASE at = 1
  BY <1>1, <1>2 DEF EnsurePreviousLineEnds
<1>3. CASE at # 1
  <2>1. at - 1 \in 1 .. n
    BY <1>1, <1>3
  <2>2. ended = [i \in 1 .. n |-> IF i = at - 1 THEN Ended(doc[i]) ELSE doc[i]]
    BY <1>1, <1>3, <2>1 DEF EnsurePreviousLineEnds, Ended
  <2>3. \A i \in 1 .. n : Ended(doc[i]) \in TextLine /\ doc[i] \in TextLine
    BY TextIs, EndedSays
  <2> QED BY <1>1, <2>2, <2>3 DEF Texts
<1> QED BY <1>2, <1>3

LEMMA SpliceInserts ==
  ASSUME NEW doc \in Texts, NEW at \in 1 .. Len(doc) + 1, NEW lines \in Texts
  PROVE  Inserted(doc, Splice(EnsurePreviousLineEnds(doc, at), at, lines), at, lines)
<1> DEFINE ended == EnsurePreviousLineEnds(doc, at)
           n == Len(doc)
           k == Len(lines)
           a == SubSeq(ended, 1, at - 1)
           c == SubSeq(ended, at, n)
           new == Splice(ended, at, lines)
<1>1. n \in Nat /\ k \in Nat /\ at \in 1 .. n + 1 /\ DOMAIN doc = 1 .. n
  BY TextIs
<1>2. /\ ended \in Texts /\ Len(ended) = n
      /\ \A i \in 1 .. n : ended[i] = IF i = at - 1 THEN Ended(doc[i]) ELSE doc[i]
  BY PreviousLineEnds
<1>3. /\ a \in Texts /\ Len(a) = at - 1 /\ \A i \in 1 .. at - 1 : a[i] = ended[i]
      /\ c \in Texts /\ Len(c) = n - at + 1
      /\ \A i \in 1 .. n - at + 1 : c[i] = ended[at + i - 1]
  <2> HIDE DEF ended
  <2> QED BY <1>1, <1>2 DEF Texts
<1>4. new = a \o lines \o c
  BY <1>2 DEF Splice
<1>5. /\ new \in Texts /\ Len(new) = (at - 1) + k + (n - at + 1)
      /\ \A i \in 1 .. at - 1 : new[i] = a[i]
      /\ \A i \in 1 .. k : new[at - 1 + i] = lines[i]
      /\ \A i \in 1 .. n - at + 1 : new[at - 1 + k + i] = c[i]
  <2> HIDE DEF a, c, new
  <2>1. PICK ab : ab = a \o lines
    OBVIOUS
  <2>0. /\ ab \in Texts /\ Len(ab) = Len(a) + Len(lines)
        /\ \A i \in 1 .. Len(a) : ab[i] = a[i]
        /\ \A i \in 1 .. Len(lines) : ab[Len(a) + i] = lines[i]
    BY <1>3, <2>1, Joined
  <2>2. /\ ab \in Texts /\ Len(ab) = (at - 1) + k
        /\ \A i \in 1 .. at - 1 : ab[i] = a[i]
        /\ \A i \in 1 .. k : ab[at - 1 + i] = lines[i]
    BY <1>3, <2>0
  <2>3. new = ab \o c
    BY <1>4, <2>1
  <2>4. /\ new \in Texts /\ Len(new) = Len(ab) + Len(c)
        /\ \A i \in 1 .. Len(ab) : new[i] = ab[i]
        /\ \A i \in 1 .. Len(c) : new[Len(ab) + i] = c[i]
    BY <1>3, <2>2, <2>3, Joined
  <2>5. \A i \in 1 .. (at - 1) + k : new[i] = ab[i]
    BY <2>2, <2>4
  <2>6. \A i \in 1 .. k : at - 1 + i \in 1 .. (at - 1) + k
    BY <1>1
  <2>7. \A i \in 1 .. at - 1 : i \in 1 .. (at - 1) + k
    BY <1>1
  <2> QED BY <1>3, <2>2, <2>4, <2>5, <2>6, <2>7
<1>6. Len(new) = n + k
  BY <1>1, <1>5
<1>7. ASSUME NEW i \in 1 .. at - 1
      PROVE  new[i] = IF i = at - 1 THEN Ended(doc[i]) ELSE doc[i]
  <2>1. new[i] = ended[i] /\ i \in 1 .. n
    BY <1>1, <1>3, <1>5
  <2> QED BY <1>2, <2>1
<1>8. ASSUME NEW i \in at .. n PROVE new[i + k] = doc[i]
  <2>1. i - at + 1 \in 1 .. n - at + 1 /\ i \in 1 .. n /\ i # at - 1
        /\ at - 1 + k + (i - at + 1) = i + k /\ at + (i - at + 1) - 1 = i
    BY <1>1
  <2>2. new[i + k] = c[i - at + 1] /\ c[i - at + 1] = ended[i]
    <3> HIDE DEF new, c
    <3> QED BY <1>3, <1>5, <2>1
  <2> QED BY <1>2, <2>1, <2>2
<1>9. Inserted(doc, new, at, lines)
  <2> HIDE DEF new
  <2> QED BY <1>1, <1>5, <1>6, <1>7, <1>8 DEF Inserted
<1> QED BY <1>9

(* Where an insertion of n lines before place at moves the line at i.      *)
Moved(i, at, n) == IF i < at THEN i ELSE i + n

Placed(doc, new, at, lines, n) ==
  /\ n \in Nat /\ Len(doc) \in Nat /\ at \in 1 .. Len(doc) + 1 /\ at \in Nat
  /\ Len(new) = Len(doc) + n
  /\ \A i \in 1 .. Len(doc) :
       /\ Moved(i, at, n) \in 1 .. Len(new)
       /\ Says(new[Moved(i, at, n)], doc[i])
       /\ new[Moved(i, at, n)] \in {doc[i], Ended(doc[i])}
  /\ \A i \in 1 .. n : at - 1 + i \in 1 .. Len(new) /\ new[at - 1 + i] = lines[i]
  /\ \A j \in 1 .. Len(new) :
       \/ \E i \in 1 .. Len(doc) : j = Moved(i, at, n)
       \/ \E i \in 1 .. n : j = at - 1 + i

LEMMA InsertedPlaces ==
  ASSUME NEW doc, NEW new, NEW at, NEW lines, Inserted(doc, new, at, lines),
         NEW n, n = Len(lines)
  PROVE  Placed(doc, new, at, lines, n)
<1> DEFINE d == Len(doc)
<1>1. /\ doc \in Texts /\ new \in Texts /\ lines \in Texts /\ at \in 1 .. d + 1
      /\ Len(new) = d + n
  BY DEF Inserted
<1>2. d \in Nat /\ n \in Nat
  BY <1>1, TextIs
<1>3. ASSUME NEW i \in 1 .. d
      PROVE  /\ Moved(i, at, n) \in 1 .. Len(new)
             /\ new[Moved(i, at, n)] \in {doc[i], Ended(doc[i])}
             /\ Says(new[Moved(i, at, n)], doc[i])
  <2>0. doc[i] \in TextLine
    BY <1>1, TextIs
  <2>1. CASE i < at
    <3>1. Moved(i, at, n) = i /\ i \in 1 .. at - 1
      BY <1>1, <1>2, <2>1 DEF Moved
    <3>2. new[i] \in {doc[i], Ended(doc[i])}
      BY <3>1 DEF Inserted
    <3>3. Says(doc[i], doc[i]) /\ Says(Ended(doc[i]), doc[i])
      BY <2>0, EndedSays DEF Says
    <3> QED BY <1>1, <1>2, <3>1, <3>2, <3>3
  <2>2. CASE ~(i < at)
    <3>1. Moved(i, at, n) = i + n /\ i \in at .. d
      BY <1>1, <1>2, <2>2 DEF Moved
    <3>2. new[i + n] = doc[i]
      BY <3>1 DEF Inserted
    <3>3. Says(doc[i], doc[i])
      BY DEF Says
    <3> QED BY <1>1, <1>2, <3>1, <3>2, <3>3
  <2> QED BY <2>1, <2>2
<1>4. \A i \in 1 .. n : at - 1 + i \in 1 .. Len(new) /\ new[at - 1 + i] = lines[i]
  <2>1. \A i \in 1 .. n : new[at - 1 + i] = lines[i]
    BY DEF Inserted
  <2>2. \A i \in 1 .. n : at - 1 + i \in 1 .. Len(new)
    BY <1>1, <1>2
  <2> QED BY <2>1, <2>2
<1>5. ASSUME NEW j \in 1 .. Len(new)
      PROVE  \/ \E i \in 1 .. d : j = Moved(i, at, n)
             \/ \E i \in 1 .. n : j = at - 1 + i
  <2>1. CASE j < at
    BY <1>1, <1>2, <2>1 DEF Moved
  <2>2. CASE j >= at /\ j < at + n
    <3>1. j - at + 1 \in 1 .. n /\ j = at - 1 + (j - at + 1)
      BY <1>1, <1>2, <2>2
    <3> QED BY <3>1
  <2>3. CASE j >= at + n
    <3>1. j - n \in 1 .. d /\ ~(j - n < at) /\ j = (j - n) + n
      BY <1>1, <1>2, <2>3
    <3> QED BY <3>1 DEF Moved
  <2> QED BY <1>1, <1>2, <2>1, <2>2, <2>3
<1> QED BY <1>1, <1>2, <1>3, <1>4, <1>5 DEF Placed

(* Lines never run together where an insertion is made.                    *)
LEMMA InsertedEnds ==
  ASSUME NEW doc, NEW new, NEW at, NEW lines, Inserted(doc, new, at, lines),
         LinesEnded(doc), \A i \in 1 .. Len(lines) : lines[i].eol
  PROVE  LinesEnded(new)
<1> DEFINE n == Len(lines)
           d == Len(doc)
<1>1. /\ doc \in Texts /\ lines \in Texts /\ at \in 1 .. d + 1 /\ Len(new) = d + n
      /\ d \in Nat /\ n \in Nat
  BY TextIs DEF Inserted
<1> SUFFICES ASSUME NEW j \in 1 .. d + n - 1 PROVE new[j].eol
  BY <1>1 DEF LinesEnded
<1>2. CASE j < at - 1
  <2>1. new[j] = doc[j] /\ j \in 1 .. d - 1
    BY <1>1, <1>2 DEF Inserted
  <2> QED BY <2>1 DEF LinesEnded
<1>3. CASE j = at - 1
  <2>1. new[j] = Ended(doc[j]) /\ j \in 1 .. d
    BY <1>1, <1>3 DEF Inserted
  <2> QED BY <1>1, <2>1, TextIs, EndedSays
<1>4. CASE at <= j /\ j < at + n
  <2>1. j - at + 1 \in 1 .. n /\ at - 1 + (j - at + 1) = j
    BY <1>1, <1>4
  <2>2. new[j] = lines[j - at + 1]
    BY <2>1 DEF Inserted
  <2> QED BY <2>1, <2>2
<1>5. CASE at + n <= j
  <2>1. j - n \in at .. d /\ j - n \in 1 .. d - 1 /\ (j - n) + n = j
    BY <1>1, <1>5
  <2>2. new[j] = doc[j - n]
    BY <2>1 DEF Inserted
  <2> QED BY <2>1, <2>2 DEF LinesEnded
<1> QED BY <1>1, <1>2, <1>3, <1>4, <1>5

-----------------------------------------------------------------------------
(* Sections.                                                               *)

(* Line i is an entry of the first section of that name.                   *)
Opens(doc, name, s) == s \in HeadersOf(doc, name) /\ \A h \in HeadersOf(doc, name) : s <= h
NoHeaderBetween(doc, s, i) == \A h \in Headers(doc) : ~(s < h /\ h < i)
InSection(doc, name, i) ==
  /\ i \in 1 .. Len(doc) /\ IsEntry(doc[i])
  /\ \E s \in 1 .. Len(doc) : Opens(doc, name, s) /\ s < i /\ NoHeaderBetween(doc, s, i)

LEMMA HeadersAre ==
  ASSUME NEW doc \in Texts
  PROVE  /\ Headers(doc) = {i \in 1 .. Len(doc) : doc[i].kind = "section"}
         /\ \A name : HeadersOf(doc, name) =
              {i \in 1 .. Len(doc) : doc[i].kind = "section" /\ doc[i].name = name}
BY TextIs DEF Headers, HeadersOf

LEMMA SectionIs ==
  ASSUME NEW doc \in Texts, NEW name, HasSection(doc, name)
  PROVE  LET s == SectionStart(doc, name)
             e == SectionEnd(doc, name)
         IN  /\ s \in 1 .. Len(doc) /\ Opens(doc, name, s)
             /\ e \in s + 1 .. Len(doc) + 1 /\ NoHeaderBetween(doc, s, e)
             /\ e = Len(doc) + 1 \/ e \in Headers(doc)
<1> DEFINE s == SectionStart(doc, name)
           e == SectionEnd(doc, name)
           behind == {i \in Headers(doc) : i > s} \cup {Len(doc) + 1}
<1>1. Len(doc) \in Nat /\ HeadersOf(doc, name) \subseteq 1 .. Len(doc)
      /\ Headers(doc) \subseteq 1 .. Len(doc) /\ HeadersOf(doc, name) # {}
  BY TextIs, HeadersAre DEF HasSection
<1>2. s \in HeadersOf(doc, name) /\ \A h \in HeadersOf(doc, name) : s <= h
  BY <1>1, LeastIsMin DEF SectionStart
<1>3. behind \in SUBSET Nat /\ behind # {}
  BY <1>1
<1>4. e = Min(behind)
  BY DEF SectionEnd
<1>5. e \in behind /\ \A x \in behind : e <= x
  BY <1>3, <1>4, LeastIsMin
<1>6. s \in 1 .. Len(doc)
  BY <1>1, <1>2
<1>7. e \in s + 1 .. Len(doc) + 1 /\ (e = Len(doc) + 1 \/ e \in Headers(doc))
  <2> HIDE DEF s, e
  <2> QED BY <1>1, <1>5, <1>6
<1>8. NoHeaderBetween(doc, s, e)
  <2> HIDE DEF s, e
  <2>1. ASSUME NEW h \in Headers(doc), s < h, h < e PROVE FALSE
    BY <1>1, <1>5, <1>7, <2>1
  <2> QED BY <2>1 DEF NoHeaderBetween
<1> QED BY <1>2, <1>6, <1>7, <1>8 DEF Opens

LEMMA OneOpens ==
  ASSUME NEW doc \in Texts, NEW name, NEW s \in 1 .. Len(doc), NEW t \in 1 .. Len(doc),
         Opens(doc, name, s), Opens(doc, name, t)
  PROVE  s = t
<1>1. s \in Int /\ t \in Int /\ s <= t /\ t <= s
  BY TextIs DEF Opens
<1> QED BY <1>1

(* _parse_key_lines_in_section looks at the lines of the first section.    *)
LEMMA EntriesAre ==
  ASSUME NEW doc \in Texts, NEW name
  PROVE  \A i : i \in EntriesIn(doc, name) <=> InSection(doc, name, i)
<1>0. Len(doc) \in Nat /\ Headers(doc) \subseteq 1 .. Len(doc)
  BY TextIs, HeadersAre
<1>1. CASE HasSection(doc, name)
  <2> DEFINE s == SectionStart(doc, name)
             e == SectionEnd(doc, name)
  <2>1. /\ s \in 1 .. Len(doc) /\ Opens(doc, name, s)
        /\ e \in s + 1 .. Len(doc) + 1 /\ NoHeaderBetween(doc, s, e)
        /\ e = Len(doc) + 1 \/ e \in Headers(doc)
    BY <1>1, SectionIs
  <2>2. EntriesIn(doc, name) = {i \in s + 1 .. e - 1 : IsEntry(doc[i])}
    BY <1>1 DEF EntriesIn
  <2> HIDE DEF s, e
  <2>3. ASSUME NEW i \in s + 1 .. e - 1, IsEntry(doc[i]) PROVE InSection(doc, name, i)
    <3>1. i \in 1 .. Len(doc) /\ s < i /\ i < e
      BY <1>0, <2>1
    <3>2. NoHeaderBetween(doc, s, i)
      BY <1>0, <2>1, <3>1 DEF NoHeaderBetween
    <3> QED BY <2>1, <2>3, <3>1, <3>2 DEF InSection
  <2>4. ASSUME NEW i, InSection(doc, name, i)
        PROVE  i \in s + 1 .. e - 1 /\ IsEntry(doc[i])
    <3>1. i \in 1 .. Len(doc) /\ IsEntry(doc[i])
      BY <2>4 DEF InSection
    <3>2. PICK t \in 1 .. Len(doc) : Opens(doc, name, t) /\ t < i /\ NoHeaderBetween(doc, t, i)
      BY <2>4 DEF InSection
    <3>3. t = s
      BY <2>1, <3>2, OneOpens
    <3>4. ~(e < i)
      BY <1>0, <2>1, <3>1, <3>2, <3>3 DEF NoHeaderBetween
    <3>5. e # i
      BY <1>0, <2>1, <3>1, HeadersAre DEF IsEntry
    <3> QED BY <1>0, <2>1, <3>1, <3>2, <3>3, <3>4, <3>5
  <2> QED BY <2>2, <2>3, <2>4
<1>2. CASE ~HasSection(doc, name)
  BY <1>2 DEF EntriesIn, InSection, Opens, HasSection
<1> QED BY <1>1, <1>2

LEMMA KeysAre ==
  ASSUME NEW doc \in Texts, NEW name
  PROVE  \A key : key \in KeysIn(doc, name) <=>
                    \E i \in 1 .. Len(doc) : InSection(doc, name, i) /\ doc[i].name = key
<1>1. \A i : InSection(doc, name, i) => i \in 1 .. Len(doc)
  BY DEF InSection
<1> QED BY <1>1, EntriesAre DEF KeysIn

(* Behind the last line of the section that is not blank.                  *)
LEMMA InsertionPointIs ==
  ASSUME NEW doc \in Texts, NEW name, HasSection(doc, name)
  PROVE  LET s == SectionStart(doc, name)
             e == SectionEnd(doc, name)
             p == InsertionPoint(doc, name)
         IN  p \in s + 1 .. e /\ \A i \in p .. e - 1 : doc[i].kind = "blank"
<1> DEFINE s == SectionStart(doc, name)
           e == SectionEnd(doc, name)
           p == InsertionPoint(doc, name)
           S == {i \in s .. e - 1 : i = s \/ doc[i].kind # "blank"}
<1>1. s \in 1 .. Len(doc) /\ e \in s + 1 .. Len(doc) + 1 /\ Len(doc) \in Nat
  BY SectionIs, TextIs
<1>2. p = 1 + Max(S)
  BY DEF InsertionPoint
<1> HIDE DEF s, e, p
<1>3. S \in SUBSET (0 .. Len(doc)) /\ s \in S
  BY <1>1
<1>4. Max(S) \in S /\ \A x \in S : x <= Max(S)
  BY <1>1, <1>3, GreatestIsMax
<1>5. p \in s + 1 .. e
  BY <1>1, <1>2, <1>4
<1>6. ASSUME NEW i \in p .. e - 1 PROVE doc[i].kind = "blank"
  <2>1. i \in s .. e - 1 /\ ~(i <= Max(S))
    BY <1>1, <1>2, <1>4, <1>5
  <2> QED BY <1>4, <2>1
<1> QED BY <1>5, <1>6 DEF p, s, e

(* The first section of this name has these entries more, behind those it  *)
(* had, at k + 1 .. k + Len(lines), and no other section has changed.      *)
ExtendsAt(doc, new, name, lines, at, n, k) ==
  /\ doc \in Texts /\ new \in Texts /\ lines \in Texts
  /\ n \in Nat /\ at \in 1 .. Len(doc) + 1 /\ Len(new) = Len(doc) + n
  /\ k \in at - 1 .. at - 1 + n - Len(lines)
  /\ \A i \in 1 .. Len(lines) : new[k + i] = lines[i]
  /\ \A i \in 1 .. Len(doc) :
       /\ Moved(i, at, n) \in 1 .. Len(new) /\ Says(new[Moved(i, at, n)], doc[i])
       /\ \A m : InSection(new, m, Moved(i, at, n)) <=> InSection(doc, m, i)
       /\ InSection(doc, name, i) => i < at
  /\ \A j \in 1 .. Len(new) :
       \/ \E i \in 1 .. Len(doc) : j = Moved(i, at, n)
       \/ /\ at - 1 < j /\ j < at + n
          /\ \A m : InSection(new, m, j) <=> m = name /\ j \in k + 1 .. k + Len(lines)

Extends(doc, new, name, lines) == \E at, n, k : ExtendsAt(doc, new, name, lines, at, n, k)

(* The headers of a text behind an insertion.                              *)
HeadersPlaced(doc, new, at, lines, n) ==
  /\ \A i \in 1 .. Len(doc) :
       /\ Moved(i, at, n) \in Headers(new) <=> i \in Headers(doc)
       /\ \A m : Moved(i, at, n) \in HeadersOf(new, m) <=> i \in HeadersOf(doc, m)
  /\ \A i \in 1 .. n :
       /\ at - 1 + i \in Headers(new) <=> lines[i].kind = "section"
       /\ \A m : at - 1 + i \in HeadersOf(new, m) <=>
                  lines[i].kind = "section" /\ lines[i].name = m

LEMMA InsertedHeaders ==
  ASSUME NEW doc, NEW new, NEW at, NEW lines, Inserted(doc, new, at, lines),
         NEW n, n = Len(lines)
  PROVE  HeadersPlaced(doc, new, at, lines, n)
<1>0. doc \in Texts /\ new \in Texts /\ Placed(doc, new, at, lines, n)
  BY InsertedPlaces DEF Inserted
<1>1. ASSUME NEW i \in 1 .. Len(doc)
      PROVE  /\ Moved(i, at, n) \in Headers(new) <=> i \in Headers(doc)
             /\ \A m : Moved(i, at, n) \in HeadersOf(new, m) <=> i \in HeadersOf(doc, m)
  <2>1. Moved(i, at, n) \in 1 .. Len(new) /\ Says(new[Moved(i, at, n)], doc[i])
    BY <1>0 DEF Placed
  <2> QED BY <1>0, <2>1, HeadersAre DEF Says
<1>2. ASSUME NEW i \in 1 .. n
      PROVE  /\ at - 1 + i \in Headers(new) <=> lines[i].kind = "section"
             /\ \A m : at - 1 + i \in HeadersOf(new, m) <=>
                        lines[i].kind = "section" /\ lines[i].name = m
  <2>1. at - 1 + i \in 1 .. Len(new) /\ new[at - 1 + i] = lines[i]
    BY <1>0 DEF Placed
  <2> QED BY <1>0, <2>1, HeadersAre
<1> QED BY <1>1, <1>2 DEF HeadersPlaced

(* A move keeps the order.                                                 *)
LEMMA MovedOrder ==
  ASSUME NEW i \in Nat, NEW j \in Nat, NEW at \in Nat, NEW n \in Nat
  PROVE  /\ Moved(i, at, n) < Moved(j, at, n) <=> i < j
         /\ Moved(i, at, n) \in Nat
         /\ \A k \in 1 .. n : /\ Moved(i, at, n) < at - 1 + k <=> i < at
                              /\ at - 1 + k < Moved(i, at, n) <=> at <= i
BY DEF Moved

(* An insertion of entries only, into the lines of an existing section.    *)
LEMMA ExtendsOld ==
  ASSUME NEW doc, NEW new, NEW at, NEW lines, Inserted(doc, new, at, lines), NEW name,
         HasSection(doc, name), \A i \in 1 .. Len(lines) : IsEntry(lines[i]),
         at \in SectionStart(doc, name) + 1 .. SectionEnd(doc, name),
         \A i \in at .. SectionEnd(doc, name) - 1 : doc[i].kind = "blank"
  PROVE  Extends(doc, new, name, lines)
<1>0. PICK s, e, n : s = SectionStart(doc, name) /\ e = SectionEnd(doc, name) /\ n = Len(lines)
  OBVIOUS
<1> DEFINE d == Len(doc)
           M(i) == Moved(i, at, n)
<1>1. /\ doc \in Texts /\ new \in Texts /\ lines \in Texts /\ d \in Nat /\ n \in Nat
      /\ at \in 1 .. d + 1 /\ at \in Nat /\ Len(new) = d + n
  BY <1>0, TextIs DEF Inserted
<1>2. /\ s \in 1 .. d /\ Opens(doc, name, s) /\ e \in s + 1 .. d + 1
      /\ NoHeaderBetween(doc, s, e) /\ (e = d + 1 \/ e \in Headers(doc))
      /\ at \in s + 1 .. e /\ \A i \in at .. e - 1 : doc[i].kind = "blank"
  BY <1>0, <1>1, SectionIs
<1>3. /\ \A i \in 1 .. d : M(i) \in 1 .. Len(new) /\ Says(new[M(i)], doc[i])
      /\ \A i \in 1 .. n : at - 1 + i \in 1 .. Len(new) /\ new[at - 1 + i] = lines[i]
      /\ \A j \in 1 .. Len(new) : \/ \E i \in 1 .. d : j = M(i)
                                 \/ \E i \in 1 .. n : j = at - 1 + i
  <2>1. Placed(doc, new, at, lines, n)
    BY <1>0, InsertedPlaces
  <2> QED BY <2>1 DEF Placed
<1>4. /\ \A i \in 1 .. d : /\ M(i) \in Headers(new) <=> i \in Headers(doc)
                          /\ \A m : M(i) \in HeadersOf(new, m) <=> i \in HeadersOf(doc, m)
      /\ \A i \in 1 .. n : /\ at - 1 + i \notin Headers(new)
                          /\ \A m : at - 1 + i \notin HeadersOf(new, m)
  <2>1. HeadersPlaced(doc, new, at, lines, n)
    BY <1>0, InsertedHeaders
  <2> QED BY <1>0, <2>1 DEF HeadersPlaced, IsEntry
<1>5. /\ \A i, j \in 1 .. d : M(i) < M(j) <=> i < j
      /\ \A i \in 1 .. d, k \in 1 .. n : /\ M(i) < at - 1 + k <=> i < at
                                       /\ at - 1 + k < M(i) <=> at <= i
  <2>1. at \in Nat /\ \A i \in 1 .. d : i \in Nat
    BY <1>1
  <2> QED BY <1>1, <2>1, MovedOrder
<1>a. \A i \in 1 .. d : M(i) \in Nat
  BY <1>1 DEF Moved
<1>b. /\ Headers(new) \subseteq 1 .. Len(new) /\ Headers(doc) \subseteq 1 .. d
      /\ \A m : HeadersOf(new, m) \subseteq 1 .. Len(new) /\ HeadersOf(doc, m) \subseteq 1 .. d
  BY <1>1, HeadersAre
<1> HIDE DEF M
<1>6. ASSUME NEW m, NEW t \in 1 .. d PROVE Opens(new, m, M(t)) <=> Opens(doc, m, t)
  <2>1. M(t) \in HeadersOf(new, m) <=> t \in HeadersOf(doc, m)
    BY <1>4
  <2>2. ASSUME NEW h \in HeadersOf(new, m) PROVE \E i \in HeadersOf(doc, m) : h = M(i)
    BY <1>3, <1>4, <1>b
  <2>3. ASSUME NEW i \in 1 .. d PROVE M(t) <= M(i) <=> t <= i
    <3>1. ~(M(i) < M(t)) <=> ~(i < t)
      BY <1>5
    <3> QED BY <1>a, <3>1
  <2> QED BY <1>4, <1>b, <2>1, <2>2, <2>3 DEF Opens
<1>7. ASSUME NEW t \in 1 .. d, NEW i \in 1 .. d
      PROVE  NoHeaderBetween(new, M(t), M(i)) <=> NoHeaderBetween(doc, t, i)
  <2>1. ASSUME NEW h \in Headers(new) PROVE \E k \in Headers(doc) : h = M(k)
    BY <1>3, <1>4, <1>b
  <2>2. ASSUME NEW k \in Headers(doc)
        PROVE  M(k) \in Headers(new) /\ (M(t) < M(k) /\ M(k) < M(i) <=> t < k /\ k < i)
    BY <1>4, <1>5, <1>b
  <2> QED BY <2>1, <2>2 DEF NoHeaderBetween
<1>8. ASSUME NEW m, NEW u \in 1 .. Len(new), Opens(new, m, u)
      PROVE  \E t \in 1 .. d : u = M(t) /\ Opens(doc, m, t)
  <2>1. u \in HeadersOf(new, m)
    BY <1>8 DEF Opens
  <2>2. PICK t \in 1 .. d : u = M(t)
    BY <1>3, <1>4, <2>1
  <2> QED BY <1>6, <1>8, <2>2
<1>9. ASSUME NEW i \in 1 .. d, NEW m PROVE InSection(new, m, M(i)) <=> InSection(doc, m, i)
  <2>1. IsEntry(new[M(i)]) <=> IsEntry(doc[i])
    BY <1>3 DEF Says, IsEntry
  <2>2. M(i) \in 1 .. Len(new) /\ \A t \in 1 .. d : M(t) \in 1 .. Len(new)
    BY <1>3
  <2>3. ASSUME InSection(new, m, M(i)) PROVE InSection(doc, m, i)
    <3>1. PICK u \in 1 .. Len(new) : Opens(new, m, u) /\ u < M(i) /\ NoHeaderBetween(new, u, M(i))
      BY <2>3 DEF InSection
    <3>2. PICK t \in 1 .. d : u = M(t) /\ Opens(doc, m, t)
      BY <1>8, <3>1
    <3>3. t < i /\ NoHeaderBetween(doc, t, i)
      BY <1>5, <1>7, <3>1, <3>2
    <3> QED BY <2>1, <2>3, <3>2, <3>3 DEF InSection
  <2>4. ASSUME InSection(doc, m, i) PROVE InSection(new, m, M(i))
    <3>1. PICK t \in 1 .. d : Opens(doc, m, t) /\ t < i /\ NoHeaderBetween(doc, t, i)
      BY <2>4 DEF InSection
    <3>2. Opens(new, m, M(t)) /\ M(t) < M(i) /\ NoHeaderBetween(new, M(t), M(i))
      BY <1>5, <1>6, <1>7, <3>1
    <3> QED BY <2>1, <2>2, <2>4, <3>2 DEF InSection
  <2> QED BY <2>3, <2>4
<1>10. ASSUME NEW i \in 1 .. n, NEW m
       PROVE  InSection(new, m, at - 1 + i) <=> m = name
  <2> DEFINE j == at - 1 + i
  <2>1. IsEntry(new[j]) /\ j \in 1 .. Len(new) /\ s < at /\ M(s) < j
    <3>1. new[j] = lines[i] /\ j \in 1 .. Len(new)
      BY <1>3
    <3>2. s < at /\ s \in Nat
      BY <1>1, <1>2
    <3>3. M(s) < j
      BY <1>1, <3>2 DEF M, Moved
    <3> QED BY <1>0, <3>1, <3>2, <3>3
  <2>2. NoHeaderBetween(new, M(s), j)
    <3> SUFFICES ASSUME NEW h \in Headers(new), M(s) < h, h < j PROVE FALSE
      BY DEF NoHeaderBetween
    <3>1. PICK t \in 1 .. d : h = M(t) /\ t \in Headers(doc)
      BY <1>3, <1>4, <1>b
    <3>2. s < t /\ t < at /\ at <= e
      BY <1>2, <1>5, <3>1
    <3> QED BY <1>1, <1>2, <3>1, <3>2 DEF NoHeaderBetween
  <2>3. Opens(new, name, M(s)) /\ M(s) \in 1 .. Len(new)
    BY <1>2, <1>3, <1>6
  <2>4. ASSUME InSection(new, m, j) PROVE m = name
    <3>1. PICK u \in 1 .. Len(new) : Opens(new, m, u) /\ u < j /\ NoHeaderBetween(new, u, j)
      BY <2>4 DEF InSection
    <3>2. PICK t \in 1 .. d : u = M(t) /\ Opens(doc, m, t)
      BY <1>8, <3>1
    <3>3. M(s) \in Headers(new) /\ M(t) \in Headers(new)
      BY <1>4, <1>2, <3>2 DEF Opens, HeadersOf
    <3>4. M(s) = M(t)
      <4>1. ~(M(s) < M(t)) /\ ~(M(t) < M(s))
        BY <2>1, <2>2, <3>1, <3>2, <3>3 DEF NoHeaderBetween
      <4> QED BY <1>a, <1>2, <4>1
    <3>5. s = t
      BY <1>1, <1>2, <1>5, <1>a, <3>4
    <3> QED BY <1>2, <3>2, <3>5 DEF Opens, HeadersOf
  <2>5. InSection(new, name, j)
    BY <2>1, <2>2, <2>3 DEF InSection
  <2> QED BY <2>4, <2>5
<1>11. ASSUME NEW i \in 1 .. d, InSection(doc, name, i) PROVE i < at
  <2>1. PICK t \in 1 .. d : Opens(doc, name, t) /\ t < i /\ NoHeaderBetween(doc, t, i)
    BY <1>11 DEF InSection
  <2>2. t = s
    BY <1>1, <1>2, <2>1, OneOpens
  <2>3. ~(e < i)
    BY <1>1, <1>2, <2>1, <2>2 DEF NoHeaderBetween
  <2>4. i # e
    BY <1>1, <1>2, <1>11, HeadersAre DEF InSection, IsEntry
  <2>5. i \notin at .. e - 1
    BY <1>2, <1>11 DEF InSection, IsEntry
  <2> QED BY <1>1, <1>2, <2>3, <2>4, <2>5
<1>12. ASSUME NEW j \in 1 .. Len(new)
       PROVE  \/ \E i \in 1 .. d : j = M(i)
              \/ /\ at - 1 < j /\ j < at + n
                 /\ \A m : InSection(new, m, j) <=> m = name /\ j \in at .. at - 1 + n
  <2>1. CASE \E i \in 1 .. n : j = at - 1 + i
    <3>1. PICK i \in 1 .. n : j = at - 1 + i
      BY <2>1
    <3>2. at - 1 < j /\ j < at + n /\ j \in at .. at - 1 + n
      BY <1>1, <3>1
    <3>3. \A m : InSection(new, m, j) <=> m = name
      BY <1>10, <3>1
    <3> QED BY <3>2, <3>3
  <2> QED BY <1>3, <2>1
<1>13. ExtendsAt(doc, new, name, lines, at, n, at - 1)
  <2>1. at - 1 \in at - 1 .. at - 1 + n - Len(lines) /\ (at - 1) + 1 = at
    BY <1>0, <1>1
  <2> QED BY <1>0, <1>1, <1>3, <1>9, <1>11, <1>12, <2>1 DEF ExtendsAt, M
<1> QED BY <1>13 DEF Extends

(* The lines of a section that is created: blank ones around its header    *)
(* and its entries.                                                        *)
NewSection(block, name, lines, q) ==
  /\ q \in 1 .. 2 /\ Len(block) = q + Len(lines) + 1
  /\ block[q].kind = "section" /\ block[q].name = name
  /\ \A i \in 1 .. Len(lines) : block[q + i] = lines[i] /\ IsEntry(lines[i])
  /\ \A i \in 1 .. Len(block) : i \notin q .. q + Len(lines) => block[i].kind = "blank"

(* An insertion of a section of a new name, between two sections or at the *)
(* end.                                                                    *)
LEMMA ExtendsNew ==
  ASSUME NEW doc, NEW new, NEW at, NEW block, Inserted(doc, new, at, block), NEW name,
         ~HasSection(doc, name), at = Len(doc) + 1 \/ at \in Headers(doc),
         NEW lines \in Texts, NEW q, NewSection(block, name, lines, q)
  PROVE  Extends(doc, new, name, lines)
<1>0. PICK n, l, p : n = Len(block) /\ l = Len(lines) /\ p = at - 1 + q
  OBVIOUS
<1> DEFINE d == Len(doc)
           M(i) == Moved(i, at, n)
<1>1. /\ doc \in Texts /\ new \in Texts /\ block \in Texts /\ d \in Nat /\ n \in Nat
      /\ at \in 1 .. d + 1 /\ at \in Nat /\ Len(new) = d + n /\ l \in Nat
  BY <1>0, TextIs DEF Inserted
<1>2. /\ q \in 1 .. 2 /\ p = at - 1 + q /\ n = q + l + 1 /\ block[q].kind = "section" /\ block[q].name = name
      /\ \A i \in 1 .. l : block[q + i] = lines[i] /\ block[q + i].kind = "entry"
      /\ \A i \in 1 .. n : i \notin q .. q + l => block[i].kind = "blank"
  BY <1>0 DEF NewSection, IsEntry
<1>3. /\ \A i \in 1 .. d : M(i) \in 1 .. Len(new) /\ Says(new[M(i)], doc[i])
      /\ \A i \in 1 .. n : at - 1 + i \in 1 .. Len(new) /\ new[at - 1 + i] = block[i]
      /\ \A j \in 1 .. Len(new) : \/ \E i \in 1 .. d : j = M(i)
                                 \/ \E i \in 1 .. n : j = at - 1 + i
  <2>1. Placed(doc, new, at, block, n)
    BY <1>0, InsertedPlaces
  <2> QED BY <2>1 DEF Placed
<1>a. \A i \in 1 .. n : block[i].kind = "section" <=> i = q
  <2> SUFFICES ASSUME NEW i \in 1 .. n, i # q PROVE block[i].kind # "section"
    BY <1>2
  <2>1. CASE i \in q + 1 .. q + l
    <3>1. i - q \in 1 .. l /\ q + (i - q) = i
      BY <1>1, <1>2, <2>1
    <3> QED BY <1>2, <3>1
  <2>2. CASE i \notin q .. q + l
    BY <1>2, <2>2
  <2> QED BY <1>1, <1>2, <2>1, <2>2
<1>4. /\ \A i \in 1 .. d : /\ M(i) \in Headers(new) <=> i \in Headers(doc)
                          /\ \A m : M(i) \in HeadersOf(new, m) <=> i \in HeadersOf(doc, m)
      /\ \A i \in 1 .. n : /\ at - 1 + i \in Headers(new) <=> i = q
                          /\ \A m : at - 1 + i \in HeadersOf(new, m) <=> i = q /\ m = name
  <2>1. HeadersPlaced(doc, new, at, block, n)
    BY <1>0, InsertedHeaders
  <2> QED BY <1>2, <1>a, <2>1 DEF HeadersPlaced
<1>b. /\ Headers(new) \subseteq 1 .. Len(new) /\ Headers(doc) \subseteq 1 .. d
      /\ \A m : HeadersOf(new, m) \subseteq 1 .. Len(new) /\ HeadersOf(doc, m) \subseteq Headers(doc)
      /\ \A m : HeadersOf(new, m) \subseteq Headers(new)
      /\ HeadersOf(doc, name) = {}
  BY <1>1, HeadersAre DEF HasSection, HeadersOf
<1>c. q \in 1 .. n /\ at - 1 + q = p /\ p \in Nat
  BY <1>1, <1>2
<1>5. /\ \A i, j \in 1 .. d : M(i) < M(j) <=> i < j
      /\ \A i \in 1 .. d : M(i) \in Nat
      /\ \A i \in 1 .. d : M(i) < p <=> i < at
      /\ \A i \in 1 .. d : p < M(i) <=> at <= i
  <2>1. \A i, j \in 1 .. d : M(i) < M(j) <=> i < j
    BY <1>1 DEF Moved
  <2>2. ASSUME NEW i \in 1 .. d
        PROVE  M(i) \in Nat /\ (M(i) < p <=> i < at) /\ (p < M(i) <=> at <= i)
    <3>1. CASE i < at
      BY <1>1, <1>2, <3>1 DEF Moved
    <3>2. CASE ~(i < at)
      BY <1>1, <1>2, <3>2 DEF Moved
    <3> QED BY <3>1, <3>2
  <2> QED BY <2>1, <2>2
<1>6. p \in 1 .. Len(new) /\ p \in Headers(new) /\ \A m : p \in HeadersOf(new, m) <=> m = name
  <2>1. /\ at - 1 + q \in 1 .. Len(new) /\ at - 1 + q \in Headers(new)
        /\ \A m : at - 1 + q \in HeadersOf(new, m) <=> m = name
    BY <1>3, <1>4, <1>c
  <2> QED BY <1>c, <2>1
<1>7. ASSUME NEW h \in Headers(new) PROVE h = p \/ \E i \in Headers(doc) : h = M(i)
  <2>1. CASE \E i \in 1 .. d : h = M(i)
    BY <1>4, <2>1
  <2>2. CASE \E i \in 1 .. n : h = at - 1 + i
    <3>1. PICK i \in 1 .. n : h = at - 1 + i
      BY <2>2
    <3>2. i = q
      BY <1>4, <3>1
    <3> QED BY <1>c, <3>1, <3>2
  <2> QED BY <1>3, <1>b, <2>1, <2>2
<1> HIDE DEF M
<1>8. ASSUME NEW m, NEW t \in 1 .. d PROVE Opens(new, m, M(t)) <=> Opens(doc, m, t)
  <2>1. CASE m = name
    <3>1. M(t) \notin HeadersOf(new, name)
      BY <1>4, <1>b
    <3> QED BY <1>b, <2>1, <3>1 DEF Opens
  <2>2. CASE m # name
    <3>1. p \notin HeadersOf(new, m)
      BY <1>6, <2>2
    <3>2. ASSUME NEW h \in HeadersOf(new, m) PROVE \E i \in HeadersOf(doc, m) : h = M(i)
      BY <1>4, <1>7, <1>b, <3>1
    <3>3. ASSUME NEW i \in 1 .. d PROVE M(t) <= M(i) <=> t <= i
      <4>1. ~(M(i) < M(t)) <=> ~(i < t)
        BY <1>5
      <4>2. M(i) \in Nat /\ M(t) \in Nat
        BY <1>5
      <4> QED BY <4>1, <4>2
    <3>4. HeadersOf(doc, m) \subseteq 1 .. d
      BY <1>b
    <3> QED BY <1>4, <3>2, <3>3, <3>4 DEF Opens
  <2> QED BY <2>1, <2>2
<1>9. ASSUME NEW t \in Headers(doc), NEW i \in 1 .. d, IsEntry(doc[i])
      PROVE  NoHeaderBetween(new, M(t), M(i)) <=> NoHeaderBetween(doc, t, i)
  <2>0. t \in 1 .. d
    BY <1>b
  <2>1. ASSUME NEW k \in Headers(doc)
        PROVE  M(k) \in Headers(new) /\ (M(t) < M(k) /\ M(k) < M(i) <=> t < k /\ k < i)
    BY <1>4, <1>5, <1>b, <2>0
  <2>2. ASSUME NoHeaderBetween(doc, t, i), M(t) < p, p < M(i) PROVE FALSE
    <3>1. t < at /\ at <= i
      BY <1>5, <2>0, <2>2
    <3>2. at \in Headers(doc)
      BY <1>1, <3>1
    <3>3. at # i
      BY <1>1, <1>9, <3>2, HeadersAre DEF IsEntry
    <3> QED BY <1>1, <2>2, <3>1, <3>2, <3>3 DEF NoHeaderBetween
  <2> QED BY <1>7, <2>1, <2>2 DEF NoHeaderBetween
<1>10. ASSUME NEW m, NEW u \in 1 .. Len(new), Opens(new, m, u)
       PROVE  \/ u = p /\ m = name
              \/ \E t \in Headers(doc) : u = M(t) /\ Opens(doc, m, t)
  <2>1. u \in HeadersOf(new, m) /\ u \in Headers(new)
    BY <1>10, <1>b DEF Opens
  <2>2. CASE u = p
    <3>1. p \in HeadersOf(new, m) <=> m = name
      BY <1>6
    <3> QED BY <2>1, <2>2, <3>1
  <2>3. CASE \E i \in Headers(doc) : u = M(i)
    BY <1>8, <1>10, <1>b, <2>3
  <2> QED BY <1>7, <2>1, <2>2, <2>3
<1>11. ASSUME NEW i \in 1 .. d, NEW m PROVE InSection(new, m, M(i)) <=> InSection(doc, m, i)
  <2>1. IsEntry(new[M(i)]) <=> IsEntry(doc[i])
    BY <1>3 DEF Says, IsEntry
  <2>2. M(i) \in 1 .. Len(new) /\ \A t \in 1 .. d : M(t) \in 1 .. Len(new)
    BY <1>3
  <2>3. ASSUME InSection(new, m, M(i)) PROVE InSection(doc, m, i)
    <3>1. PICK u \in 1 .. Len(new) : Opens(new, m, u) /\ u < M(i) /\ NoHeaderBetween(new, u, M(i))
      BY <2>3 DEF InSection
    <3>2. IsEntry(doc[i])
      BY <2>1, <2>3 DEF InSection
    <3>3. u # p
      <4> SUFFICES ASSUME u = p PROVE FALSE
        OBVIOUS
      <4>1. at <= i
        BY <1>5, <3>1
      <4>2. at \in Headers(doc) /\ at \in 1 .. d
        BY <1>1, <4>1
      <4>3. at # i
        BY <1>1, <3>2, <4>2, HeadersAre DEF IsEntry
      <4>4. M(at) \in Headers(new) /\ M(at) < M(i) /\ p < M(at)
        BY <1>1, <1>4, <1>5, <4>1, <4>2, <4>3
      <4> QED BY <3>1, <4>4 DEF NoHeaderBetween
    <3>4. PICK t \in Headers(doc) : u = M(t) /\ Opens(doc, m, t)
      BY <1>10, <3>1, <3>3
    <3>5. t \in 1 .. d /\ t < i /\ NoHeaderBetween(doc, t, i)
      BY <1>5, <1>9, <1>b, <3>1, <3>2, <3>4
    <3> QED BY <3>2, <3>4, <3>5 DEF InSection
  <2>4. ASSUME InSection(doc, m, i) PROVE InSection(new, m, M(i))
    <3>1. PICK t \in 1 .. d : Opens(doc, m, t) /\ t < i /\ NoHeaderBetween(doc, t, i)
      BY <2>4 DEF InSection
    <3>2. t \in Headers(doc) /\ IsEntry(doc[i])
      BY <1>b, <2>4, <3>1 DEF Opens, InSection
    <3>3. Opens(new, m, M(t)) /\ M(t) < M(i) /\ NoHeaderBetween(new, M(t), M(i))
      BY <1>5, <1>8, <1>9, <3>1, <3>2
    <3> QED BY <2>1, <2>2, <2>4, <3>3 DEF InSection
  <2> QED BY <2>3, <2>4
<1>12. Opens(new, name, p)
  <2>1. ASSUME NEW h \in HeadersOf(new, name) PROVE h = p
    BY <1>4, <1>7, <1>b
  <2> QED BY <1>1, <1>2, <1>6, <2>1 DEF Opens
<1>13. ASSUME NEW i \in 1 .. n, NEW m
       PROVE  InSection(new, m, at - 1 + i) <=> m = name /\ i \in q + 1 .. q + l
  <2>0. PICK j : j = at - 1 + i
    OBVIOUS
  <2>1. j \in 1 .. Len(new) /\ new[j] = block[i]
    BY <1>3, <2>0
  <2>2. CASE i \notin q + 1 .. q + l
    <3>1. block[i].kind # "entry"
      <4>1. CASE i = q
        BY <1>2, <4>1
      <4>2. CASE i # q
        <5>1. i \notin q .. q + l
          BY <1>1, <1>2, <2>2, <4>2
        <5> QED BY <1>2, <5>1
      <4> QED BY <4>1, <4>2
    <3> QED BY <2>0, <2>1, <2>2, <3>1 DEF InSection, IsEntry
  <2>3. CASE i \in q + 1 .. q + l
    <3>1. p < j /\ j < at + n
      BY <1>1, <1>2, <2>0, <2>3
    <3>2. ASSUME NEW t \in 1 .. d PROVE ~(p < M(t) /\ M(t) < j) /\ (M(t) < j => M(t) < p)
      BY <1>1, <1>2, <2>0 DEF M, Moved
    <3>3. NoHeaderBetween(new, p, j)
      BY <1>1, <1>2, <1>7, <1>b, <3>2 DEF NoHeaderBetween
    <3>4. IsEntry(new[j])
      <4>1. i - q \in 1 .. l /\ q + (i - q) = i
        BY <1>1, <1>2, <2>3
      <4>2. block[i].kind = "entry"
        BY <1>2, <4>1
      <4> QED BY <2>1, <4>2 DEF IsEntry
    <3>5. InSection(new, name, j)
      BY <1>6, <1>12, <2>1, <3>1, <3>3, <3>4 DEF InSection
    <3>6. ASSUME InSection(new, m, j) PROVE m = name
      <4>1. PICK u \in 1 .. Len(new) : Opens(new, m, u) /\ u < j /\ NoHeaderBetween(new, u, j)
        BY <3>6 DEF InSection
      <4>2. CASE \E t \in Headers(doc) : u = M(t) /\ Opens(doc, m, t)
        <5>1. PICK t \in 1 .. d : u = M(t)
          BY <1>b, <4>2
        <5>2. u < p
          BY <3>2, <4>1, <5>1
        <5> QED BY <1>6, <3>1, <4>1, <5>2 DEF NoHeaderBetween
      <4> QED BY <1>10, <4>1, <4>2
    <3> QED BY <2>0, <2>3, <3>5, <3>6
  <2> QED BY <2>2, <2>3
<1>14. ASSUME NEW i \in 1 .. d PROVE ~InSection(doc, name, i)
  BY <1>b DEF InSection, Opens
<1>15. ASSUME NEW j \in 1 .. Len(new)
       PROVE  \/ \E i \in 1 .. d : j = M(i)
              \/ /\ at - 1 < j /\ j < at + n
                 /\ \A m : InSection(new, m, j) <=> m = name /\ j \in p + 1 .. p + l
  <2>1. CASE \E i \in 1 .. n : j = at - 1 + i
    <3>1. PICK i \in 1 .. n : j = at - 1 + i
      BY <2>1
    <3>2. at - 1 < j /\ j < at + n /\ (j \in p + 1 .. p + l <=> i \in q + 1 .. q + l)
      BY <1>1, <1>2, <3>1
    <3>3. \A m : InSection(new, m, j) <=> m = name /\ i \in q + 1 .. q + l
      BY <1>13, <3>1
    <3> QED BY <3>2, <3>3
  <2> QED BY <1>3, <2>1 DEF M
<1>16. ASSUME NEW i \in 1 .. l PROVE new[p + i] = lines[i]
  <2>1. q + i \in 1 .. n /\ at - 1 + (q + i) = p + i
    BY <1>1, <1>2
  <2>2. new[at - 1 + (q + i)] = block[q + i]
    BY <1>3, <2>1
  <2> QED BY <1>2, <2>1, <2>2
<1>17. ExtendsAt(doc, new, name, lines, at, n, p)
  <2>1. p \in at - 1 .. at - 1 + n - l
    BY <1>1, <1>2
  <2> QED BY <1>0, <1>1, <1>3, <1>11, <1>14, <1>15, <1>16, <2>1 DEF ExtendsAt, M
<1> QED BY <1>17 DEF Extends

-----------------------------------------------------------------------------
(* _insert_key_lines_into_section.                                         *)

(* Key lines as the two repairing functions hand them over.                *)
IsKeyLines(lines) ==
  lines \in Texts /\ \A i \in 1 .. Len(lines) : IsEntry(lines[i]) /\ lines[i].eol

(* No line of a block lacks its ending or is an ERROR line.                *)
Harmless(block) ==
  block \in Texts /\ \A i \in 1 .. Len(block) : block[i].eol /\ block[i].kind # "text"

LEMMA OneLine ==
  ASSUME NEW l \in TextLine
  PROVE  <<l>> \in Texts /\ Len(<<l>>) = 1 /\ <<l>>[1] = l
BY DEF Texts

LEMMA BlankLine ==
  /\ Blank \in TextLine /\ Blank.eol /\ Blank.kind = "blank"
  /\ <<Blank>> \in Texts /\ Len(<<Blank>>) = 1 /\ <<Blank>>[1] = Blank
<1>1. Blank \in TextLine
  BY DEF Blank, TextLine, Word
<1>2. Blank.eol = TRUE /\ Blank.kind = "blank"
  BY DEF Blank
<1>3. <<Blank>> \in Texts /\ Len(<<Blank>>) = 1 /\ <<Blank>>[1] = Blank
  BY <1>1, OneLine
<1> QED BY <1>1, <1>2, <1>3

LEMMA CreatedIs ==
  ASSUME NEW lines, IsKeyLines(lines), NEW name \in Word,
         NEW created, created = <<Section(name)>> \o lines \o <<Blank>>,
         NEW spaced, spaced = <<Blank>> \o created
  PROVE  /\ Harmless(created) /\ NewSection(created, name, lines, 1)
         /\ Harmless(spaced) /\ NewSection(spaced, name, lines, 2)
<1>1. PICK h \in TextLine : h = Section(name) /\ h.kind = "section" /\ h.name = name /\ h.eol
  <2>1. Section(name) \in TextLine
    BY DEF Section, TextLine, Word
  <2>2. Section(name).eol = TRUE /\ Section(name).kind = "section" /\ Section(name).name = name
    BY DEF Section
  <2> QED BY <2>1, <2>2
<1>2. PICK b \in TextLine : b = Blank /\ b.kind = "blank" /\ b.eol
  BY BlankLine
<1>3. PICK l : l = Len(lines)
  OBVIOUS
<1>4. l \in Nat /\ lines \in Texts /\ \A i \in 1 .. l : IsEntry(lines[i]) /\ lines[i].eol
  BY <1>3, TextIs DEF IsKeyLines
<1>5. PICK front : front = <<h>> \o lines
  OBVIOUS
<1>6. /\ front \in Texts /\ Len(front) = 1 + l /\ front[1] = h
      /\ \A i \in 1 .. l : front[1 + i] = lines[i]
  <2>1. <<h>> \in Texts /\ Len(<<h>>) = 1 /\ <<h>>[1] = h
    BY OneLine
  <2>2. PICK hs : hs = <<h>>
    OBVIOUS
  <2>3. /\ hs \o lines \in Texts /\ Len(hs \o lines) = Len(hs) + Len(lines)
        /\ \A i \in 1 .. Len(hs) : (hs \o lines)[i] = hs[i]
        /\ \A i \in 1 .. Len(lines) : (hs \o lines)[Len(hs) + i] = lines[i]
    BY <1>4, <2>1, <2>2, Joined
  <2> QED BY <1>3, <1>5, <2>1, <2>2, <2>3
<1>7. created = front \o <<b>>
  BY <1>1, <1>2, <1>5
<1>8. /\ created \in Texts /\ Len(created) = l + 2 /\ created[1] = h
      /\ \A i \in 1 .. l : created[1 + i] = lines[i]
      /\ created[l + 2] = b
  <2>1. <<b>> \in Texts /\ Len(<<b>>) = 1 /\ <<b>>[1] = b
    BY OneLine
  <2>2. PICK bs : bs = <<b>>
    OBVIOUS
  <2>3. /\ front \o bs \in Texts /\ Len(front \o bs) = Len(front) + Len(bs)
        /\ \A i \in 1 .. Len(front) : (front \o bs)[i] = front[i]
        /\ \A i \in 1 .. Len(bs) : (front \o bs)[Len(front) + i] = bs[i]
    BY <1>6, <2>1, <2>2, Joined
  <2>4. \A i \in 1 .. l + 1 : created[i] = front[i]
    BY <1>4, <1>6, <1>7, <2>2, <2>3
  <2>5. created = front \o bs
    BY <1>7, <2>2
  <2>7. created \in Texts /\ Len(created) = l + 2
    <3>1. Len(front) = 1 + l /\ Len(bs) = 1 /\ front \o bs \in Texts
      BY <1>6, <2>1, <2>2, <2>3
    <3>2. Len(created) = (1 + l) + 1
      BY <2>3, <2>5, <3>1
    <3>3. created \in Texts
      BY <2>5, <3>1, Zenon
    <3>4. (1 + l) + 1 = l + 2
      BY <1>4
    <3> QED BY <3>2, <3>3, <3>4, Zenon
  <2>8. created[l + 2] = b
    <3>1. 1 \in 1 .. Len(bs) /\ Len(front) + 1 = l + 2 /\ bs[1] = b
      BY <1>4, <1>6, <2>1, <2>2
    <3>2. (front \o bs)[Len(front) + 1] = bs[1]
      BY <2>3, <3>1
    <3> QED BY <2>5, <3>1, <3>2
  <2>6. 1 \in 1 .. l + 1 /\ \A i \in 1 .. l : 1 + i \in 1 .. l + 1
    BY <1>4
  <2> QED BY <1>6, <2>4, <2>6, <2>7, <2>8
<1>9. /\ spaced \in Texts /\ Len(spaced) = l + 3 /\ spaced[1] = b
      /\ \A i \in 1 .. l + 2 : spaced[1 + i] = created[i]
  <2>1. <<b>> \in Texts /\ Len(<<b>>) = 1 /\ <<b>>[1] = b
    BY OneLine
  <2>2. PICK bs : bs = <<b>>
    OBVIOUS
  <2>3. /\ bs \o created \in Texts /\ Len(bs \o created) = Len(bs) + Len(created)
        /\ \A i \in 1 .. Len(bs) : (bs \o created)[i] = bs[i]
        /\ \A i \in 1 .. Len(created) : (bs \o created)[Len(bs) + i] = created[i]
    BY <1>8, <2>1, <2>2, Joined
  <2>4. spaced = bs \o created
    BY <1>2, <2>2
  <2>5. Len(bs) = 1 /\ bs[1] = b /\ 1 \in 1 .. Len(bs) /\ Len(created) = l + 2
    BY <1>8, <2>1, <2>2
  <2>6. spaced \in Texts /\ Len(spaced) = l + 3
    <3>1. Len(spaced) = 1 + (l + 2)
      BY <2>3, <2>4, <2>5
    <3>2. spaced \in Texts
      BY <2>3, <2>4, Zenon
    <3>3. 1 + (l + 2) = l + 3
      BY <1>4
    <3> QED BY <3>1, <3>2, <3>3, Zenon
  <2>7. spaced[1] = b
    BY <2>3, <2>4, <2>5
  <2>8. \A i \in 1 .. l + 2 : spaced[1 + i] = created[i]
    BY <2>3, <2>4, <2>5
  <2> QED BY <2>6, <2>7, <2>8
<1>10. \A i \in 1 .. l : lines[i].kind = "entry"
  BY <1>4 DEF IsEntry
<1>11. ASSUME NEW i \in 1 .. l + 2
       PROVE  \/ i = 1 /\ created[i] = h
              \/ i - 1 \in 1 .. l /\ created[i] = lines[i - 1]
              \/ i = l + 2 /\ created[i] = b
  <2>1. CASE i \in 2 .. l + 1
    <3>1. i - 1 \in 1 .. l /\ 1 + (i - 1) = i
      BY <1>4, <2>1
    <3> QED BY <1>8, <3>1
  <2>2. i = 1 \/ i \in 2 .. l + 1 \/ i = l + 2
    BY <1>4
  <2> QED BY <1>8, <2>1, <2>2
<1>12. ASSUME NEW i \in 1 .. l + 3
       PROVE  \/ i = 1 /\ spaced[i] = b
              \/ i - 1 \in 1 .. l + 2 /\ spaced[i] = created[i - 1]
  <2>1. CASE i # 1
    <3>1. i - 1 \in 1 .. l + 2 /\ 1 + (i - 1) = i
      BY <1>4, <2>1
    <3> QED BY <1>9, <3>1
  <2> QED BY <1>9, <2>1
<1>13. Harmless(created)
  <2>1. \A i \in 1 .. l + 2 : created[i].eol /\ created[i].kind # "text"
    BY <1>1, <1>2, <1>4, <1>10, <1>11
  <2> QED BY <1>8, <2>1 DEF Harmless
<1>14. Harmless(spaced)
  <2>1. \A i \in 1 .. l + 2 : created[i].eol /\ created[i].kind # "text"
    BY <1>8, <1>13 DEF Harmless
  <2>2. \A i \in 1 .. l + 3 : spaced[i].eol /\ spaced[i].kind # "text"
    BY <1>2, <1>12, <2>1
  <2> QED BY <1>9, <2>2 DEF Harmless
<1>15. NewSection(created, name, lines, 1)
  <2>1. Len(created) = 1 + Len(lines) + 1
    BY <1>3, <1>4, <1>8
  <2>2. ASSUME NEW i \in 1 .. Len(created), i \notin 1 .. 1 + Len(lines)
        PROVE  created[i].kind = "blank"
    <3>1. i \in 1 .. l + 2 /\ i = l + 2
      BY <1>3, <1>4, <2>1, <2>2
    <3> QED BY <1>2, <1>8, <3>1
  <2>3. \A i \in 1 .. Len(lines) : created[1 + i] = lines[i] /\ IsEntry(lines[i])
    BY <1>3, <1>4, <1>8
  <2> QED BY <1>1, <1>8, <2>1, <2>2, <2>3 DEF NewSection
<1>16. NewSection(spaced, name, lines, 2)
  <2>1. Len(spaced) = 2 + Len(lines) + 1
    BY <1>3, <1>4, <1>9
  <2>2. ASSUME NEW i \in 1 .. Len(spaced), i \notin 2 .. 2 + Len(lines)
        PROVE  spaced[i].kind = "blank"
    <3>1. i = 1 \/ i = l + 3
      BY <1>3, <1>4, <2>1, <2>2
    <3>2. l + 2 \in 1 .. l + 2 /\ 1 + (l + 2) = l + 3
      BY <1>4
    <3>3. spaced[l + 3] = b
      BY <1>8, <1>9, <3>2
    <3> QED BY <1>2, <1>9, <3>1, <3>3
  <2>3. ASSUME NEW i \in 1 .. Len(lines) PROVE spaced[2 + i] = lines[i] /\ IsEntry(lines[i])
    <3>1. 1 + i \in 1 .. l + 2 /\ 1 + (1 + i) = 2 + i
      BY <1>3, <1>4
    <3>2. spaced[2 + i] = created[1 + i]
      BY <1>9, <3>1
    <3> QED BY <1>3, <1>4, <1>8, <3>2
  <2>4. spaced[2] = h
    <3>1. 1 \in 1 .. l + 2 /\ 1 + 1 = 2
      BY <1>4
    <3> QED BY <1>8, <1>9, <3>1
  <2> QED BY <1>1, <2>1, <2>2, <2>3, <2>4 DEF NewSection
<1> QED BY <1>13, <1>14, <1>15, <1>16

(* An insertion behind the last line.                                      *)
LEMMA AppendInserts ==
  ASSUME NEW doc \in Texts, NEW block \in Texts
  PROVE  Inserted(doc, EnsurePreviousLineEnds(doc, Len(doc) + 1) \o block, Len(doc) + 1, block)
<1>1. PICK n, closed : n = Len(doc) /\ closed = EnsurePreviousLineEnds(doc, n + 1)
  OBVIOUS
<1>2. n \in Nat /\ n + 1 \in 1 .. n + 1 /\ DOMAIN doc = 1 .. n
  BY <1>1, TextIs
<1>3. closed \in Texts /\ Len(closed) = n
  BY <1>1, <1>2, PreviousLineEnds
<1>4. SubSeq(closed, 1, (n + 1) - 1) = closed
  <2>1. (n + 1) - 1 = Len(closed)
    BY <1>2, <1>3
  <2> QED BY <1>3, <2>1, SubSeqFull, Zenon DEF Texts
<1>5. SubSeq(closed, n + 1, n) = <<>>
  BY <1>2, SubSeqEmpty
<1>6. PICK new : new = closed \o block
  OBVIOUS
<1>7. new \in Texts /\ new \o <<>> = new
  <2>1. new \in Texts
    BY <1>3, <1>6, Joined
  <2> QED BY <2>1, ConcatEmptySeq DEF Texts
<1>8. Splice(closed, n + 1, block) = new
  <2>1. Splice(closed, n + 1, block)
          = SubSeq(closed, 1, (n + 1) - 1) \o block \o SubSeq(closed, n + 1, n)
    <3>1. Splice(closed, n + 1, block)
            = SubSeq(closed, 1, (n + 1) - 1) \o block \o SubSeq(closed, n + 1, Len(closed))
      BY Zenon DEF Splice
    <3>2. Len(closed) = n
      BY <1>3
    <3> QED BY <3>1, <3>2, Zenon
  <2> QED BY <1>4, <1>5, <1>6, <1>7, <2>1
<1>9. Inserted(doc, Splice(closed, n + 1, block), n + 1, block)
  BY <1>1, <1>2, SpliceInserts
<1> QED BY <1>1, <1>6, <1>8, <1>9

(* What the insertion of key lines into a section of a text amounts to.    *)
Added(doc, new, name, lines) ==
  /\ Extends(doc, new, name, lines)
  /\ \E at, block : Inserted(doc, new, at, block) /\ Harmless(block)

LEMMA InsertKeyLinesAdds ==
  ASSUME NEW doc \in Texts, NEW lines, IsKeyLines(lines), lines # <<>>,
         NEW name \in Word, NEW after
  PROVE  Added(doc, InsertKeyLines(doc, name, lines, after), name, lines)
<1>1. PICK new : new = InsertKeyLines(doc, name, lines, after)
  OBVIOUS
<1>2. /\ lines \in Texts /\ Len(doc) \in Nat
      /\ \A i \in 1 .. Len(lines) : IsEntry(lines[i]) /\ lines[i].eol
  BY TextIs DEF IsKeyLines
<1>3. PICK created : created = <<Section(name)>> \o lines \o <<Blank>>
  OBVIOUS
<1>4. PICK spaced : spaced = <<Blank>> \o created
  OBVIOUS
<1>5. /\ Harmless(created) /\ NewSection(created, name, lines, 1)
      /\ Harmless(spaced) /\ NewSection(spaced, name, lines, 2)
  BY <1>3, <1>4, CreatedIs
<1>6. CASE HasSection(doc, name)
  <2>1. PICK p, s, e : /\ p = InsertionPoint(doc, name)
                       /\ s = SectionStart(doc, name) /\ e = SectionEnd(doc, name)
    OBVIOUS
  <2>2. new = Splice(EnsurePreviousLineEnds(doc, p), p, lines)
    BY <1>1, <1>6, <2>1 DEF InsertKeyLines
  <2>3. p \in s + 1 .. e /\ \A i \in p .. e - 1 : doc[i].kind = "blank"
    BY <1>6, <2>1, InsertionPointIs
  <2>4. s \in 1 .. Len(doc) /\ e \in s + 1 .. Len(doc) + 1
    BY <1>6, <2>1, SectionIs
  <2>5. p \in 1 .. Len(doc) + 1
    BY <1>2, <2>3, <2>4
  <2>6. Inserted(doc, new, p, lines)
    BY <1>2, <2>2, <2>5, SpliceInserts
  <2>7. Extends(doc, new, name, lines)
    BY <1>2, <1>6, <2>1, <2>3, <2>6, ExtendsOld
  <2>8. Harmless(lines)
    BY <1>2 DEF Harmless, IsEntry
  <2> QED BY <1>1, <2>6, <2>7, <2>8 DEF Added
<1>7. CASE ~HasSection(doc, name) /\ HasSection(doc, after)
  <2>1. PICK e, s : e = SectionEnd(doc, after) /\ s = SectionStart(doc, after)
    OBVIOUS
  <2>2. new = Splice(EnsurePreviousLineEnds(doc, e), e, spaced)
    BY <1>1, <1>3, <1>4, <1>7, <2>1 DEF InsertKeyLines
  <2>3. s \in 1 .. Len(doc) /\ e \in s + 1 .. Len(doc) + 1 /\ (e = Len(doc) + 1 \/ e \in Headers(doc))
    BY <1>7, <2>1, SectionIs
  <2>4. e \in 1 .. Len(doc) + 1 /\ spaced \in Texts
    BY <1>2, <1>5, <2>3 DEF Harmless
  <2>5. Inserted(doc, new, e, spaced)
    BY <2>2, <2>4, SpliceInserts
  <2>6. Extends(doc, new, name, lines)
    BY <1>2, <1>5, <1>7, <2>3, <2>5, ExtendsNew
  <2> QED BY <1>1, <1>5, <2>5, <2>6 DEF Added
<1>8. CASE ~HasSection(doc, name) /\ ~HasSection(doc, after)
  <2>1. PICK closed, n : n = Len(doc) /\ closed = EnsurePreviousLineEnds(doc, n + 1)
    OBVIOUS
  <2>2. new = closed \o spaced \/ new = closed \o created
    <3>1. \/ new = closed \o <<Blank>> \o created
          \/ new = closed \o <<>> \o created
      BY <1>1, <1>3, <1>8, <2>1 DEF InsertKeyLines
    <3>2. closed \in Texts
      BY <1>2, <2>1, PreviousLineEnds
    <3>3. closed \o <<>> = closed
      BY <3>2, ConcatEmptySeq DEF Texts
    <3>4. (closed \o <<Blank>>) \o created = closed \o (<<Blank>> \o created)
      <4>1. created \in Texts /\ <<Blank>> \in Texts
        BY <1>5, BlankLine DEF Harmless
      <4>2. PICK bs : bs = <<Blank>>
        OBVIOUS
      <4>3. (closed \o bs) \o created = closed \o (bs \o created)
        BY <3>2, <4>1, <4>2, ConcatAssociative DEF Texts
      <4> QED BY <4>2, <4>3
    <3> QED BY <1>4, <3>1, <3>3, <3>4
  <2>3. PICK block \in {spaced, created} : new = closed \o block
    BY <2>2
  <2>4. Harmless(block) /\ \E q : NewSection(block, name, lines, q)
    BY <1>5, <2>3
  <2>5. Inserted(doc, new, n + 1, block)
    BY <2>1, <2>3, <2>4, AppendInserts DEF Harmless
  <2>6. Extends(doc, new, name, lines)
    BY <1>2, <1>8, <2>1, <2>4, <2>5, ExtendsNew
  <2> QED BY <1>1, <2>4, <2>5, <2>6 DEF Added
<1> QED BY <1>6, <1>7, <1>8

(* The keys a section has afterwards.                                      *)
LEMMA ExtendsKeys ==
  ASSUME NEW doc, NEW new, NEW name, NEW lines, Extends(doc, new, name, lines)
  PROVE  \A m, key : key \in KeysIn(new, m) <=>
           \/ key \in KeysIn(doc, m)
           \/ m = name /\ \E i \in 1 .. Len(lines) : lines[i].name = key
<1>0. PICK at, n, k : ExtendsAt(doc, new, name, lines, at, n, k)
  BY DEF Extends
<1>1. /\ doc \in Texts /\ new \in Texts /\ Len(lines) \in Nat /\ Len(doc) \in Nat
      /\ k \in Nat /\ k + Len(lines) \in 0 .. Len(new) /\ Len(new) \in Nat
  BY <1>0, TextIs DEF ExtendsAt
<1>2. ASSUME NEW m, NEW key, key \in KeysIn(doc, m) PROVE key \in KeysIn(new, m)
  <2>1. PICK i \in 1 .. Len(doc) : InSection(doc, m, i) /\ doc[i].name = key
    BY <1>1, <1>2, KeysAre
  <2>2. /\ Moved(i, at, n) \in 1 .. Len(new) /\ InSection(new, m, Moved(i, at, n))
        /\ new[Moved(i, at, n)].name = key
    BY <1>0, <2>1 DEF ExtendsAt, Says
  <2> QED BY <1>1, <2>2, KeysAre
<1>3. ASSUME NEW i \in 1 .. Len(lines) PROVE lines[i].name \in KeysIn(new, name)
  <2>1. k + i \in 1 .. Len(new) /\ k + i \in k + 1 .. k + Len(lines) /\ new[k + i] = lines[i]
    BY <1>0, <1>1 DEF ExtendsAt
  <2>2. ~(\E t \in 1 .. Len(doc) : k + i = Moved(t, at, n))
    <3>1. k \in at - 1 .. at - 1 + n - Len(lines) /\ at \in 1 .. Len(doc) + 1 /\ n \in Nat
      BY <1>0 DEF ExtendsAt
    <3> QED BY <1>1, <3>1 DEF Moved
  <2>3. InSection(new, name, k + i)
    BY <1>0, <2>1, <2>2 DEF ExtendsAt
  <2> QED BY <1>1, <2>1, <2>3, KeysAre
<1>4. ASSUME NEW m, NEW key, key \in KeysIn(new, m)
      PROVE  \/ key \in KeysIn(doc, m)
             \/ m = name /\ \E i \in 1 .. Len(lines) : lines[i].name = key
  <2>1. PICK j \in 1 .. Len(new) : InSection(new, m, j) /\ new[j].name = key
    BY <1>1, <1>4, KeysAre
  <2>2. CASE \E i \in 1 .. Len(doc) : j = Moved(i, at, n)
    <3>1. PICK i \in 1 .. Len(doc) : j = Moved(i, at, n)
      BY <2>2
    <3>2. InSection(doc, m, i)
      BY <1>0, <2>1, <3>1 DEF ExtendsAt
    <3>3. Says(new[j], doc[i])
      BY <1>0, <3>1 DEF ExtendsAt
    <3>4. doc[i].name = key
      BY <2>1, <3>3 DEF Says
    <3>5. \E t \in 1 .. Len(doc) : InSection(doc, m, t) /\ doc[t].name = key
      BY <3>1, <3>2, <3>4
    <3> QED BY <1>1, <3>5, KeysAre
  <2>3. CASE ~\E i \in 1 .. Len(doc) : j = Moved(i, at, n)
    <3>1. m = name /\ j \in k + 1 .. k + Len(lines)
      BY <1>0, <2>1, <2>3 DEF ExtendsAt
    <3>2. j - k \in 1 .. Len(lines) /\ k + (j - k) = j
      BY <1>1, <3>1
    <3>3. new[k + (j - k)] = lines[j - k]
      BY <1>0, <3>2 DEF ExtendsAt
    <3> QED BY <2>1, <3>1, <3>2, <3>3
  <2> QED BY <2>2, <2>3
<1> QED BY <1>2, <1>3, <1>4

(* The lines of a text are all there, in their order, in another one.      *)
Kept(doc, new) ==
  \E f \in [1 .. Len(doc) -> 1 .. Len(new)] :
    /\ \A i \in 1 .. Len(doc) : Ended(new[f[i]]) = Ended(doc[i])
    /\ \A i, j \in 1 .. Len(doc) : i < j => f[i] < f[j]

LEMMA SaysEnded ==
  ASSUME NEW l \in TextLine, NEW m \in TextLine, Says(l, m)
  PROVE  Ended(l) = Ended(m)
BY DEF TextLine, Says, Ended

LEMMA KeptItself == ASSUME NEW doc \in Texts PROVE Kept(doc, doc)
<1> DEFINE f == [i \in 1 .. Len(doc) |-> i]
<1>1. f \in [1 .. Len(doc) -> 1 .. Len(doc)]
  OBVIOUS
<1> QED BY <1>1 DEF Kept

LEMMA KeptFurther ==
  ASSUME NEW a \in Texts, NEW b \in Texts, NEW c \in Texts, Kept(a, b), Kept(b, c)
  PROVE  Kept(a, c)
<1>1. PICK f \in [1 .. Len(a) -> 1 .. Len(b)] :
        /\ \A i \in 1 .. Len(a) : Ended(b[f[i]]) = Ended(a[i])
        /\ \A i, j \in 1 .. Len(a) : i < j => f[i] < f[j]
  BY DEF Kept
<1>2. PICK g \in [1 .. Len(b) -> 1 .. Len(c)] :
        /\ \A i \in 1 .. Len(b) : Ended(c[g[i]]) = Ended(b[i])
        /\ \A i, j \in 1 .. Len(b) : i < j => g[i] < g[j]
  BY DEF Kept
<1> DEFINE h == [i \in 1 .. Len(a) |-> g[f[i]]]
<1>3. h \in [1 .. Len(a) -> 1 .. Len(c)]
  OBVIOUS
<1>4. \A i \in 1 .. Len(a) : Ended(c[h[i]]) = Ended(a[i])
  BY <1>1, <1>2
<1>5. \A i, j \in 1 .. Len(a) : i < j => h[i] < h[j]
  BY <1>1, <1>2
<1> QED BY <1>3, <1>4, <1>5, Zenon DEF Kept

LEMMA InsertedKeeps ==
  ASSUME NEW doc, NEW new, NEW at, NEW lines, Inserted(doc, new, at, lines)
  PROVE  Kept(doc, new)
<1>1. PICK n : n = Len(lines)
  OBVIOUS
<1>2. Placed(doc, new, at, lines, n) /\ doc \in Texts /\ new \in Texts
  BY <1>1, InsertedPlaces DEF Inserted
<1>3. /\ n \in Nat /\ at \in Nat /\ Len(doc) \in Nat
      /\ \A i \in 1 .. Len(doc) :
           Moved(i, at, n) \in 1 .. Len(new) /\ Says(new[Moved(i, at, n)], doc[i])
  BY <1>2 DEF Placed
<1> DEFINE f == [i \in 1 .. Len(doc) |-> Moved(i, at, n)]
<1>4. f \in [1 .. Len(doc) -> 1 .. Len(new)]
  BY <1>3
<1>5. ASSUME NEW i \in 1 .. Len(doc) PROVE Ended(new[f[i]]) = Ended(doc[i])
  BY <1>2, <1>3, TextIs, SaysEnded
<1>6. \A i, j \in 1 .. Len(doc) : i < j => f[i] < f[j]
  BY <1>3 DEF Moved
<1> QED BY <1>4, <1>5, <1>6, Zenon DEF Kept

(* An insertion neither adds nor removes an ERROR line.                    *)
LEMMA InsertedErrors ==
  ASSUME NEW doc, NEW new, NEW at, NEW block, Inserted(doc, new, at, block), Harmless(block)
  PROVE  HasError(new) <=> HasError(doc)
<1>1. PICK n : n = Len(block)
  OBVIOUS
<1>2. Placed(doc, new, at, block, n) /\ doc \in Texts /\ new \in Texts
  BY <1>1, InsertedPlaces DEF Inserted
<1>3. DOMAIN doc = 1 .. Len(doc) /\ DOMAIN new = 1 .. Len(new)
  BY <1>2, TextIs
<1>4. ASSUME HasError(doc) PROVE HasError(new)
  BY <1>2, <1>3, <1>4 DEF HasError, Placed, Says
<1>5. ASSUME HasError(new) PROVE HasError(doc)
  <2>1. PICK j \in 1 .. Len(new) : new[j].kind = "text" /\ new[j].name = "ERROR"
    BY <1>3, <1>5 DEF HasError
  <2>2. CASE \E i \in 1 .. Len(doc) : j = Moved(i, at, n)
    <3>1. PICK i \in 1 .. Len(doc) : Says(new[j], doc[i])
      BY <1>2, <2>2 DEF Placed
    <3> QED BY <1>3, <2>1, <3>1 DEF HasError, Says
  <2>3. CASE \E i \in 1 .. n : j = at - 1 + i
    BY <1>1, <1>2, <2>1, <2>3 DEF Placed, Harmless
  <2> QED BY <1>2, <2>2, <2>3 DEF Placed
<1> QED BY <1>4, <1>5

-----------------------------------------------------------------------------
(* What a reader sees.                                                     *)

(* Line i holds the first entry of its key in the section.                 *)
FirstOf(doc, m, i) ==
  /\ InSection(doc, m, i)
  /\ \A j \in 1 .. Len(doc) : InSection(doc, m, j) /\ j < i => doc[j].name # doc[i].name

Setting(m, line) == [section |-> m, key |-> line.name, val |-> line.val]

LEMMA ViewIs ==
  ASSUME NEW doc \in Texts
  PROVE  \A s : s \in View(doc) <=> \E m : \E i \in 1 .. Len(doc) :
                                       FirstOf(doc, m, i) /\ s = Setting(m, doc[i])
<1> DEFINE owner == [i \in DOMAIN doc |-> Max({0} \cup {h \in Headers(doc) : h < i})]
           Counts(i) ==
             /\ IsEntry(doc[i]) /\ owner[i] # 0
             /\ \A h \in Headers(doc) : doc[h].name = doc[owner[i]].name => owner[i] <= h
             /\ \A j \in owner[i] + 1 .. i - 1 : ~(IsEntry(doc[j]) /\ doc[j].name = doc[i].name)
<1>1. View(doc) = {[section |-> doc[owner[i]].name, key |-> doc[i].name, val |-> doc[i].val] :
                     i \in {j \in DOMAIN doc : Counts(j)}}
  BY DEF View
<1>2. Len(doc) \in Nat /\ DOMAIN doc = 1 .. Len(doc) /\ Headers(doc) \subseteq 1 .. Len(doc)
  BY TextIs, HeadersAre
<1>3. ASSUME NEW i \in 1 .. Len(doc)
      PROVE  /\ owner[i] \in 0 .. Len(doc)
             /\ owner[i] = 0 \/ (owner[i] \in Headers(doc) /\ owner[i] < i)
             /\ \A h \in Headers(doc) : h < i => h <= owner[i]
  <2>1. PICK S : S = {0} \cup {h \in Headers(doc) : h < i}
    OBVIOUS
  <2>2. S \in SUBSET (0 .. Len(doc)) /\ S # {}
    BY <1>2, <2>1
  <2>3. Max(S) \in S /\ \A x \in S : x <= Max(S)
    BY <1>2, <2>2, GreatestIsMax
  <2>4. owner[i] = Max(S)
    BY <1>2, <2>1
  <2> HIDE DEF owner
  <2> QED BY <1>2, <2>1, <2>2, <2>3, <2>4
<1> HIDE DEF owner
<1>4. ASSUME NEW i \in 1 .. Len(doc), Counts(i) PROVE FirstOf(doc, doc[owner[i]].name, i)
  <2>1. PICK o, m : o = owner[i] /\ m = doc[o].name
    OBVIOUS
  <2>2. /\ o \in Headers(doc) /\ o < i /\ o \in 1 .. Len(doc) /\ IsEntry(doc[i])
        /\ \A h \in Headers(doc) : h < i => h <= o
        /\ \A h \in Headers(doc) : doc[h].name = m => o <= h
        /\ \A j \in o + 1 .. i - 1 : ~(IsEntry(doc[j]) /\ doc[j].name = doc[i].name)
    BY <1>2, <1>3, <1>4, <2>1
  <2>3. Opens(doc, m, o) /\ NoHeaderBetween(doc, o, i)
    BY <1>2, <2>1, <2>2 DEF Opens, HeadersOf, NoHeaderBetween
  <2>4. InSection(doc, m, i)
    BY <2>2, <2>3 DEF InSection
  <2>5. ASSUME NEW j \in 1 .. Len(doc), InSection(doc, m, j), j < i
        PROVE  doc[j].name # doc[i].name
    <3>1. PICK t \in 1 .. Len(doc) : Opens(doc, m, t) /\ t < j
      BY <2>5 DEF InSection
    <3>2. t = o
      BY <2>2, <2>3, <3>1, OneOpens
    <3>3. j \in o + 1 .. i - 1 /\ IsEntry(doc[j])
      BY <1>2, <2>2, <2>5, <3>1, <3>2 DEF InSection
    <3> QED BY <2>2, <3>3
  <2> QED BY <2>1, <2>4, <2>5 DEF FirstOf
<1>5. ASSUME NEW m, NEW i \in 1 .. Len(doc), FirstOf(doc, m, i)
      PROVE  Counts(i) /\ doc[owner[i]].name = m
  <2>1. PICK t \in 1 .. Len(doc) : Opens(doc, m, t) /\ t < i /\ NoHeaderBetween(doc, t, i)
    BY <1>5 DEF FirstOf, InSection
  <2>2. t \in Headers(doc) /\ doc[t].name = m /\ IsEntry(doc[i])
    BY <1>5, <2>1 DEF Opens, HeadersOf, FirstOf, InSection
  <2>3. owner[i] = t
    <3>1. t <= owner[i] /\ owner[i] \in 0 .. Len(doc)
      BY <1>3, <2>1, <2>2
    <3>2. owner[i] # 0
      BY <1>2, <3>1
    <3>3. ~(t < owner[i])
      BY <1>3, <2>1, <3>2 DEF NoHeaderBetween
    <3> QED BY <1>2, <3>1, <3>3
  <2>4. \A h \in Headers(doc) : doc[h].name = m => t <= h
    BY <2>1 DEF Opens, HeadersOf
  <2>5. ASSUME NEW j \in t + 1 .. i - 1, IsEntry(doc[j]) PROVE doc[j].name # doc[i].name
    <3>1. j \in 1 .. Len(doc) /\ t < j /\ j < i
      BY <1>2, <2>1
    <3>2. NoHeaderBetween(doc, t, j)
      BY <1>2, <2>1, <3>1 DEF NoHeaderBetween
    <3>3. InSection(doc, m, j)
      BY <2>1, <2>5, <3>1, <3>2 DEF InSection
    <3> QED BY <1>5, <3>1, <3>3 DEF FirstOf
  <2> QED BY <1>2, <2>1, <2>2, <2>3, <2>4, <2>5
<1>6. ASSUME NEW s, s \in View(doc)
      PROVE  \E m : \E i \in 1 .. Len(doc) : FirstOf(doc, m, i) /\ s = Setting(m, doc[i])
  <2> HIDE DEF Counts
  <2>1. PICK i \in 1 .. Len(doc) : /\ Counts(i)
                                  /\ s = [section |-> doc[owner[i]].name, key |-> doc[i].name, val |-> doc[i].val]
    BY <1>1, <1>2, <1>6
  <2> QED BY <1>4, <2>1 DEF Setting
<1>7. ASSUME NEW m, NEW i \in 1 .. Len(doc), FirstOf(doc, m, i) PROVE Setting(m, doc[i]) \in View(doc)
  <2>1. Counts(i) /\ doc[owner[i]].name = m
    BY <1>5, <1>7
  <2> HIDE DEF Counts
  <2> QED BY <1>1, <1>2, <2>1 DEF Setting
<1> QED BY <1>6, <1>7

(* Of several settings of a key only one is seen.                          *)
LEMMA FirstIsOne ==
  ASSUME NEW doc \in Texts, NEW m, NEW i \in 1 .. Len(doc), NEW j \in 1 .. Len(doc),
         FirstOf(doc, m, i), FirstOf(doc, m, j), doc[i].name = doc[j].name
  PROVE  i = j
<1>1. ~(i < j) /\ ~(j < i)
  BY DEF FirstOf
<1> QED BY <1>1, TextIs

(* Every key of a section has a first entry.                               *)
LEMMA FirstExists ==
  ASSUME NEW doc \in Texts, NEW m, NEW key \in KeysIn(doc, m)
  PROVE  \E i \in 1 .. Len(doc) : FirstOf(doc, m, i) /\ doc[i].name = key
<1> DEFINE T == {i \in 1 .. Len(doc) : InSection(doc, m, i) /\ doc[i].name = key}
<1>1. T \in SUBSET Nat /\ T # {}
  BY KeysAre
<1>2. PICK i \in T : \A j \in T : i <= j
  BY <1>1, LeastIn
<1>3. ASSUME NEW j \in 1 .. Len(doc), InSection(doc, m, j), j < i PROVE doc[j].name # key
  BY <1>1, <1>2, <1>3
<1> QED BY <1>2, <1>3 DEF FirstOf

(* The first of the lines to hold its key.                                 *)
FirstLine(lines, i) ==
  i \in 1 .. Len(lines) /\ \A j \in 1 .. Len(lines) : j < i => lines[j].name # lines[i].name

(* Entries of new keys change what a reader sees by their settings only.   *)
LEMMA ExtendsView ==
  ASSUME NEW doc, NEW new, NEW name, NEW lines, Extends(doc, new, name, lines),
         \A i \in 1 .. Len(lines) : lines[i].name \notin KeysIn(doc, name)
  PROVE  \A s : s \in View(new) <=>
           \/ s \in View(doc)
           \/ \E i : FirstLine(lines, i) /\ s = Setting(name, lines[i])
<1>0. PICK at, n, k : ExtendsAt(doc, new, name, lines, at, n, k)
  BY DEF Extends
<1> DEFINE M(i) == Moved(i, at, n)
           d == Len(doc)
           l == Len(lines)
<1>1. /\ doc \in Texts /\ new \in Texts /\ l \in Nat /\ d \in Nat /\ Len(new) = d + n
      /\ k \in at - 1 .. at - 1 + n - l /\ at \in 1 .. d + 1 /\ n \in Nat
  BY <1>0, TextIs DEF ExtendsAt
<1>2. \A i \in 1 .. l : k + i \in 1 .. Len(new) /\ new[k + i] = lines[i] /\ at <= k + i /\ k + i < at + n
  BY <1>0, <1>1 DEF ExtendsAt
<1>3. ASSUME NEW i \in 1 .. d
      PROVE  /\ M(i) \in 1 .. Len(new)
             /\ new[M(i)].name = doc[i].name /\ new[M(i)].val = doc[i].val
             /\ \A m : InSection(new, m, M(i)) <=> InSection(doc, m, i)
             /\ InSection(doc, name, i) => i < at
  <2>1. Moved(i, at, n) \in 1 .. Len(new) /\ Says(new[Moved(i, at, n)], doc[i])
    BY <1>0 DEF ExtendsAt
  <2>2. \A m : InSection(new, m, Moved(i, at, n)) <=> InSection(doc, m, i)
    BY <1>0 DEF ExtendsAt
  <2>3. InSection(doc, name, i) => i < at
    BY <1>0 DEF ExtendsAt
  <2> QED BY <2>1, <2>2, <2>3 DEF Says
<1>4. \A i, j \in 1 .. d : M(i) < M(j) <=> i < j
  BY <1>1 DEF Moved
<1>5. \A i \in 1 .. d : (i < at => M(i) = i) /\ ~(at <= M(i) /\ M(i) < at + n)
  BY <1>1 DEF Moved
<1>6. ASSUME NEW j \in 1 .. Len(new), NEW m, InSection(new, m, j), ~\E i \in 1 .. d : j = M(i)
      PROVE  m = name /\ at <= j /\ \E i \in 1 .. l : j = k + i
  <2>1. m = name /\ j \in k + 1 .. k + l
    BY <1>0, <1>6 DEF ExtendsAt
  <2>2. j - k \in 1 .. l /\ j = k + (j - k) /\ at <= j
    BY <1>1, <2>1
  <2> QED BY <2>1, <2>2
<1> HIDE DEF M
<1>7. ASSUME NEW i \in 1 .. l PROVE InSection(new, name, k + i)
  <2>1. k + i \in 1 .. Len(new) /\ k + i \in k + 1 .. k + l
    BY <1>1, <1>2
  <2>2. ~\E t \in 1 .. d : k + i = M(t)
    BY <1>2, <1>5
  <2> QED BY <1>0, <2>1, <2>2 DEF ExtendsAt, M
<1>8. ASSUME NEW i \in 1 .. d, NEW m, FirstOf(doc, m, i) PROVE FirstOf(new, m, M(i))
  <2>1. InSection(new, m, M(i)) /\ new[M(i)].name = doc[i].name
    BY <1>3, <1>8 DEF FirstOf
  <2>2. ASSUME NEW j \in 1 .. Len(new), InSection(new, m, j), j < M(i) PROVE new[j].name # doc[i].name
    <3>1. CASE \E t \in 1 .. d : j = M(t)
      <4>1. PICK t \in 1 .. d : j = M(t)
        BY <3>1
      <4>2. t < i /\ InSection(doc, m, t) /\ new[j].name = doc[t].name
        BY <1>3, <1>4, <2>2, <4>1
      <4> QED BY <1>8, <4>2 DEF FirstOf
    <3>2. CASE ~\E t \in 1 .. d : j = M(t)
      <4>1. m = name /\ at <= j
        BY <1>6, <2>2, <3>2
      <4>2. M(i) = i /\ i < at
        BY <1>3, <1>5, <1>8, <4>1 DEF FirstOf
      <4> QED BY <1>1, <2>2, <4>1, <4>2
    <3> QED BY <3>1, <3>2
  <2> QED BY <2>1, <2>2 DEF FirstOf
<1>9. ASSUME NEW i \in 1 .. l, FirstLine(lines, i) PROVE FirstOf(new, name, k + i)
  <2>1. InSection(new, name, k + i) /\ new[k + i] = lines[i]
    BY <1>2, <1>7
  <2>2. ASSUME NEW j \in 1 .. Len(new), InSection(new, name, j), j < k + i
        PROVE  new[j].name # lines[i].name
    <3>1. CASE \E t \in 1 .. d : j = M(t)
      <4>1. PICK t \in 1 .. d : j = M(t)
        BY <3>1
      <4>2. InSection(doc, name, t) /\ new[j].name = doc[t].name
        BY <1>3, <2>2, <4>1
      <4>3. new[j].name \in KeysIn(doc, name)
        BY <1>1, <4>2, KeysAre
      <4> QED BY <4>3
    <3>2. CASE ~\E t \in 1 .. d : j = M(t)
      <4>1. PICK t \in 1 .. l : j = k + t
        BY <1>6, <2>2, <3>2
      <4>2. t < i /\ new[j] = lines[t]
        BY <1>1, <1>2, <2>2, <4>1
      <4> QED BY <1>9, <4>2 DEF FirstLine
    <3> QED BY <3>1, <3>2
  <2> QED BY <2>1, <2>2 DEF FirstOf
<1>10. ASSUME NEW j \in 1 .. Len(new), NEW m, FirstOf(new, m, j)
       PROVE  \/ \E i \in 1 .. d : j = M(i) /\ FirstOf(doc, m, i)
              \/ m = name /\ \E i \in 1 .. l : j = k + i /\ FirstLine(lines, i)
  <2>1. InSection(new, m, j)
    BY <1>10 DEF FirstOf
  <2>2. CASE \E i \in 1 .. d : j = M(i)
    <3>1. PICK i \in 1 .. d : j = M(i)
      BY <2>2
    <3>2. InSection(doc, m, i) /\ new[j].name = doc[i].name
      BY <1>3, <2>1, <3>1
    <3>3. ASSUME NEW t \in 1 .. d, InSection(doc, m, t), t < i PROVE doc[t].name # doc[i].name
      <4>1. M(t) \in 1 .. Len(new) /\ InSection(new, m, M(t)) /\ M(t) < j /\ new[M(t)].name = doc[t].name
        BY <1>3, <1>4, <3>1, <3>3
      <4> QED BY <1>10, <3>2, <4>1 DEF FirstOf
    <3> QED BY <3>1, <3>2, <3>3 DEF FirstOf
  <2>3. CASE ~\E i \in 1 .. d : j = M(i)
    <3>1. PICK i \in 1 .. l : j = k + i
      BY <1>6, <2>1, <2>3
    <3>2. m = name /\ new[j] = lines[i]
      BY <1>2, <1>6, <2>1, <2>3, <3>1
    <3>3. ASSUME NEW t \in 1 .. l, t < i PROVE lines[t].name # lines[i].name
      <4>1. /\ k + t \in 1 .. Len(new) /\ InSection(new, m, k + t) /\ k + t < j
            /\ new[k + t] = lines[t]
        BY <1>1, <1>2, <1>7, <3>1, <3>2, <3>3
      <4> QED BY <1>10, <3>2, <4>1 DEF FirstOf
    <3> QED BY <3>1, <3>2, <3>3 DEF FirstLine
  <2> QED BY <2>2, <2>3
<1>11. ASSUME NEW s, s \in View(new)
       PROVE  \/ s \in View(doc)
              \/ \E i : FirstLine(lines, i) /\ s = Setting(name, lines[i])
  <2>1. PICK m, j : j \in 1 .. Len(new) /\ FirstOf(new, m, j) /\ s = Setting(m, new[j])
    BY <1>1, <1>11, ViewIs
  <2>2. CASE \E i \in 1 .. d : j = M(i) /\ FirstOf(doc, m, i)
    <3>1. PICK i \in 1 .. d : j = M(i) /\ FirstOf(doc, m, i)
      BY <2>2
    <3>2. s = Setting(m, doc[i])
      BY <1>3, <2>1, <3>1 DEF Setting
    <3> QED BY <1>1, <3>1, <3>2, ViewIs
  <2>3. CASE m = name /\ \E i \in 1 .. l : j = k + i /\ FirstLine(lines, i)
    BY <1>2, <2>1, <2>3
  <2> QED BY <1>10, <2>1, <2>2, <2>3
<1>12. ASSUME NEW s, s \in View(doc) PROVE s \in View(new)
  <2>1. PICK m, i : i \in 1 .. d /\ FirstOf(doc, m, i) /\ s = Setting(m, doc[i])
    BY <1>1, <1>12, ViewIs
  <2>2. M(i) \in 1 .. Len(new) /\ FirstOf(new, m, M(i)) /\ s = Setting(m, new[M(i)])
    BY <1>3, <1>8, <2>1 DEF Setting
  <2> QED BY <1>1, <2>2, ViewIs
<1>13. ASSUME NEW i, FirstLine(lines, i) PROVE Setting(name, lines[i]) \in View(new)
  <2>1. i \in 1 .. l
    BY <1>13 DEF FirstLine
  <2>2. k + i \in 1 .. Len(new) /\ FirstOf(new, name, k + i) /\ new[k + i] = lines[i]
    BY <1>2, <1>9, <1>13, <2>1
  <2> QED BY <1>1, <2>2, ViewIs
<1> QED BY <1>11, <1>12, <1>13

-----------------------------------------------------------------------------
(* The two functions that repair a text.                                   *)

(* The section has been given these lines, all of keys it did not have.    *)
Supplied(doc, new, name, lines) ==
  /\ doc \in Texts /\ new \in Texts /\ IsKeyLines(lines)
  /\ \A i \in 1 .. Len(lines) : lines[i].name \notin KeysIn(doc, name)
  /\ \/ lines = <<>> /\ new = doc
     \/ Added(doc, new, name, lines)

LEMMA InsertKeyLinesSupplies ==
  ASSUME NEW doc \in Texts, NEW lines, IsKeyLines(lines), NEW name \in Word, NEW after,
         \A i \in 1 .. Len(lines) : lines[i].name \notin KeysIn(doc, name)
  PROVE  Supplied(doc, InsertKeyLines(doc, name, lines, after), name, lines)
<1>1. CASE lines = <<>>
  BY <1>1 DEF InsertKeyLines, Supplied
<1>2. CASE lines # <<>>
  <2>1. PICK new : new = InsertKeyLines(doc, name, lines, after)
    OBVIOUS
  <2>2. Added(doc, new, name, lines)
    BY <1>2, <2>1, InsertKeyLinesAdds
  <2>3. new \in Texts
    BY <2>2 DEF Added, Inserted
  <2> QED BY <2>1, <2>2, <2>3 DEF Supplied
<1> QED BY <1>1, <1>2

LEMMA SuppliedKeys ==
  ASSUME NEW doc, NEW new, NEW name, NEW lines, Supplied(doc, new, name, lines)
  PROVE  \A m, key : key \in KeysIn(new, m) <=>
           \/ key \in KeysIn(doc, m)
           \/ m = name /\ \E i \in 1 .. Len(lines) : lines[i].name = key
<1>1. CASE lines = <<>> /\ new = doc
  BY <1>1
<1>2. CASE Added(doc, new, name, lines)
  <2>1. Extends(doc, new, name, lines)
    BY <1>2 DEF Added
  <2> QED BY <2>1, ExtendsKeys
<1> QED BY <1>1, <1>2 DEF Supplied

LEMMA SuppliedLines ==
  ASSUME NEW doc, NEW new, NEW name, NEW lines, Supplied(doc, new, name, lines)
  PROVE  /\ Kept(doc, new)
         /\ LinesEnded(doc) => LinesEnded(new)
         /\ HasError(new) <=> HasError(doc)
<1>1. CASE lines = <<>> /\ new = doc
  BY <1>1, KeptItself DEF Supplied
<1>2. CASE Added(doc, new, name, lines)
  <2>1. PICK at, block : Inserted(doc, new, at, block) /\ Harmless(block)
    BY <1>2 DEF Added
  <2>2. \A i \in 1 .. Len(block) : block[i].eol
    BY <2>1 DEF Harmless
  <2> QED BY <2>1, <2>2, InsertedKeeps, InsertedEnds, InsertedErrors
<1> QED BY <1>1, <1>2 DEF Supplied

LEMMA SuppliedView ==
  ASSUME NEW doc, NEW new, NEW name, NEW lines, Supplied(doc, new, name, lines)
  PROVE  \A s : s \in View(new) <=>
           \/ s \in View(doc)
           \/ \E i : FirstLine(lines, i) /\ s = Setting(name, lines[i])
<1>1. CASE lines = <<>> /\ new = doc
  BY <1>1 DEF FirstLine
<1>2. CASE Added(doc, new, name, lines)
  <2>1. Extends(doc, new, name, lines)
    BY <1>2 DEF Added
  <2> QED BY <2>1, ExtendsView DEF Supplied
<1> QED BY <1>1, <1>2 DEF Supplied

(* The first line of a key in a copy is that of the first place of the key.*)
LEMMA CopiedFirst ==
  ASSUME NEW f, NEW lines, NEW doc \in Texts, NEW places \in SUBSET (1 .. Len(doc)),
         Copies(f, lines, doc, places), NEW i, FirstLine(lines, i)
  PROVE  /\ f[i] \in places /\ Says(lines[i], doc[f[i]])
         /\ \A p \in places : p < f[i] => doc[p].name # doc[f[i]].name
<1>1. PICK n \in Nat : DOMAIN f = 1 .. n /\ Len(f) = n /\ DOMAIN lines = 1 .. n /\ Len(lines) = n
  BY DEF Copies, Lists
<1>2. i \in 1 .. n /\ \A j \in 1 .. n : j < i => lines[j].name # lines[i].name
  BY <1>1 DEF FirstLine
<1>3. ASSUME NEW j \in 1 .. n PROVE f[j] \in places /\ Says(lines[j], doc[f[j]])
  <2>1. f[j] \in places /\ lines[j] = Ended(doc[f[j]])
    BY <1>1 DEF Copies, Lists
  <2> QED BY <2>1, TextIs, EndedSays
<1>4. ASSUME NEW p \in places, p < f[i] PROVE doc[p].name # doc[f[i]].name
  <2>1. PICK j \in 1 .. n : f[j] = p
    BY <1>1 DEF Copies, Lists
  <2>2. \A a, b \in 1 .. n : a < b => f[a] < f[b]
    BY <1>1 DEF Copies, Lists
  <2>3. p \in Nat /\ f[i] \in Nat
    <3>1. \A q \in places : q \in Nat
      OBVIOUS
    <3>2. f[i] \in places
      BY <1>2, <1>3
    <3> QED BY <3>1, <3>2
  <2>4. ~(i < j) /\ i # j
    BY <1>2, <1>4, <2>1, <2>2, <2>3
  <2>5. j < i
    BY <1>2, <2>4
  <2> QED BY <1>2, <1>3, <2>1, <2>5 DEF Says
<1> QED BY <1>2, <1>3, <1>4

(* A copy of entries is key lines, with the keys of the places.            *)
LEMMA CopiedKeys ==
  ASSUME NEW doc \in Texts, NEW places \in SUBSET (1 .. Len(doc)),
         \A p \in places : IsEntry(doc[p])
  PROVE  /\ IsKeyLines(LinesAt(doc, places))
         /\ \A i \in 1 .. Len(LinesAt(doc, places)) :
              \E p \in places : LinesAt(doc, places)[i].name = doc[p].name
         /\ \A p \in places : \E i \in 1 .. Len(LinesAt(doc, places)) :
              LinesAt(doc, places)[i].name = doc[p].name
<1>1. PICK lines : lines = LinesAt(doc, places)
  OBVIOUS
<1>2. PICK f : f = Ascending(places)
  OBVIOUS
<1>3. lines \in Texts /\ Copies(f, lines, doc, places)
  BY <1>1, <1>2, LinesAtCopies
<1>4. PICK n \in Nat : DOMAIN f = 1 .. n /\ DOMAIN lines = 1 .. n /\ Len(lines) = n
  BY <1>3 DEF Copies, Lists
<1>5. ASSUME NEW j \in 1 .. n
      PROVE  f[j] \in places /\ Says(lines[j], doc[f[j]]) /\ lines[j].eol
  <2>1. f[j] \in places /\ lines[j] = Ended(doc[f[j]])
    BY <1>3, <1>4 DEF Copies, Lists
  <2> QED BY <2>1, TextIs, EndedSays
<1>6. IsKeyLines(lines)
  BY <1>3, <1>4, <1>5 DEF IsKeyLines, Says, IsEntry
<1>7. \A i \in 1 .. n : \E p \in places : lines[i].name = doc[p].name
  BY <1>5 DEF Says
<1>8. \A p \in places : \E i \in 1 .. n : f[i] = p
  BY <1>3, <1>4 DEF Copies, Lists
<1>9. \A p \in places : \E i \in 1 .. n : lines[i].name = doc[p].name
  BY <1>5, <1>8 DEF Says
<1> QED BY <1>1, <1>4, <1>6, <1>7, <1>9

(* A section of the generated text, as it is handed to EnsureSection.      *)
IsGenerated(section) == section.name \in Word /\ IsKeyLines(section.lines)
KeysOfSection(section) == {section.lines[i].name : i \in 1 .. Len(section.lines)}

(* One iteration of ensure_generated_offset_sections gives the section the *)
(* keys of the generated one, and nothing else: each line it adds is the   *)
(* generated section's first line of a key that was missing.               *)
Ensured(doc, new, section, lines) ==
  /\ Supplied(doc, new, section.name, lines)
  /\ {lines[i].name : i \in 1 .. Len(lines)}
       = KeysOfSection(section) \ KeysIn(doc, section.name)
  /\ \A i : FirstLine(lines, i) =>
       \E j : FirstLine(section.lines, j) /\ Says(lines[i], section.lines[j])

LEMMA EnsureSectionSupplies ==
  ASSUME NEW doc \in Texts, NEW section, IsGenerated(section)
  PROVE  \E lines : Ensured(doc, EnsureSection(doc, section), section, lines)
<1>1. PICK name, source : name = section.name /\ source = section.lines
  OBVIOUS
<1>2. /\ name \in Word /\ source \in Texts /\ Len(source) \in Nat
      /\ DOMAIN source = 1 .. Len(source) /\ \A i \in 1 .. Len(source) : IsEntry(source[i])
  BY <1>1, TextIs DEF IsGenerated, IsKeyLines
<1>3. PICK missing : missing = {i \in 1 .. Len(source) : source[i].name \notin KeysIn(doc, name)}
  OBVIOUS
<1>4. PICK lines : lines = LinesAt(source, missing)
  OBVIOUS
<1>5. EnsureSection(doc, section) = InsertKeyLines(doc, name, lines, Nowhere)
  BY <1>1, <1>2, <1>3, <1>4 DEF EnsureSection
<1>6. missing \in SUBSET (1 .. Len(source)) /\ \A p \in missing : IsEntry(source[p])
  BY <1>2, <1>3
<1>7. /\ IsKeyLines(lines)
      /\ \A i \in 1 .. Len(lines) : \E p \in missing : lines[i].name = source[p].name
      /\ \A p \in missing : \E i \in 1 .. Len(lines) : lines[i].name = source[p].name
  BY <1>2, <1>4, <1>6, CopiedKeys
<1>8. Supplied(doc, EnsureSection(doc, section), name, lines)
  <2>1. \A i \in 1 .. Len(lines) : lines[i].name \notin KeysIn(doc, name)
    BY <1>3, <1>7
  <2> QED BY <1>2, <1>5, <1>7, <2>1, InsertKeyLinesSupplies
<1>9. {lines[i].name : i \in 1 .. Len(lines)} = KeysOfSection(section) \ KeysIn(doc, section.name)
  <2>1. ASSUME NEW i \in 1 .. Len(lines)
        PROVE  lines[i].name \in KeysOfSection(section) \ KeysIn(doc, name)
    BY <1>1, <1>3, <1>7 DEF KeysOfSection
  <2>2. ASSUME NEW key \in KeysOfSection(section), key \notin KeysIn(doc, name)
        PROVE  \E i \in 1 .. Len(lines) : lines[i].name = key
    <3>1. PICK p \in 1 .. Len(source) : source[p].name = key
      BY <1>1, <2>2 DEF KeysOfSection
    <3>2. p \in missing
      BY <1>3, <2>2, <3>1
    <3> QED BY <1>7, <3>1, <3>2
  <2> QED BY <1>1, <2>1, <2>2
<1>10. ASSUME NEW i, FirstLine(lines, i)
       PROVE  \E j : FirstLine(source, j) /\ Says(lines[i], source[j])
  <2>1. PICK f : Copies(f, lines, source, missing)
    BY <1>2, <1>4, <1>6, LinesAtCopies
  <2>2. PICK j : j = f[i]
    OBVIOUS
  <2>3. /\ j \in missing /\ Says(lines[i], source[j])
        /\ \A p \in missing : p < j => source[p].name # source[j].name
    <3>1. /\ f[i] \in missing /\ Says(lines[i], source[f[i]])
          /\ \A p \in missing : p < f[i] => source[p].name # source[f[i]].name
      BY <1>2, <1>6, <1>10, <2>1, CopiedFirst
    <3> QED BY <2>2, <3>1
  <2>4. ASSUME NEW p \in 1 .. Len(source), p < j PROVE source[p].name # source[j].name
    BY <1>3, <2>3, <2>4
  <2>5. FirstLine(source, j)
    BY <1>6, <2>3, <2>4 DEF FirstLine
  <2> QED BY <2>3, <2>5
<1> QED BY <1>1, <1>8, <1>9, <1>10 DEF Ensured

(* ensure_referenced_patch_codes gives [PatchCodes] the template's lines   *)
(* of the referenced codes it does not have.                               *)
Coded(doc, new, text, template, lines) ==
  /\ Supplied(doc, new, "PatchCodes", lines)
  /\ {lines[i].name : i \in 1 .. Len(lines)}
       = (ReferencedPatchCodeNames(text) \cap KeysIn(template, "PatchCodes"))
           \ KeysIn(doc, "PatchCodes")
  /\ \A i : FirstLine(lines, i) =>
       \E j \in 1 .. Len(template) :
         FirstOf(template, "PatchCodes", j) /\ Says(lines[i], template[j])

LEMMA EnsureReferencedPatchCodesSupplies ==
  ASSUME NEW doc \in Texts, NEW text, NEW template \in Texts
  PROVE  \E lines : Coded(doc, EnsureReferencedPatchCodes(doc, text, template),
                          text, template, lines)
<1>1. PICK missing, codes : /\ missing = ReferencedPatchCodeNames(text) \ KeysIn(doc, "PatchCodes")
                            /\ codes = EntriesIn(template, "PatchCodes")
  OBVIOUS
<1>2. PICK added : added = {i \in codes : /\ template[i].name \in missing
                                         /\ \A j \in codes : template[j].name = template[i].name => i <= j}
  OBVIOUS
<1>3. PICK lines : lines = LinesAt(template, added)
  OBVIOUS
<1>4. EnsureReferencedPatchCodes(doc, text, template)
        = InsertKeyLines(doc, "PatchCodes", lines, "Main")
  BY <1>1, <1>2, <1>3, Zenon DEF EnsureReferencedPatchCodes
<1>5. Len(template) \in Nat /\ \A i : i \in codes <=> InSection(template, "PatchCodes", i)
  BY <1>1, TextIs, EntriesAre
<1>6. codes \subseteq 1 .. Len(template) /\ \A i \in codes : IsEntry(template[i])
  BY <1>5 DEF InSection
<1>7. added \in SUBSET (1 .. Len(template)) /\ \A i \in added : IsEntry(template[i])
  BY <1>2, <1>6
<1>8. /\ IsKeyLines(lines)
      /\ \A i \in 1 .. Len(lines) : \E p \in added : lines[i].name = template[p].name
      /\ \A p \in added : \E i \in 1 .. Len(lines) : lines[i].name = template[p].name
  BY <1>3, <1>7, CopiedKeys
<1>9. ASSUME NEW i \in codes
      PROVE  i \in added <=> FirstOf(template, "PatchCodes", i) /\ template[i].name \in missing
  <2>1. \A j \in codes : i <= j <=> ~(j < i)
    BY <1>6
  <2> QED BY <1>2, <1>5, <1>6, <2>1 DEF FirstOf
<1>10. Supplied(doc, EnsureReferencedPatchCodes(doc, text, template), "PatchCodes", lines)
  <2>1. \A i \in 1 .. Len(lines) : lines[i].name \notin KeysIn(doc, "PatchCodes")
    BY <1>1, <1>2, <1>8
  <2>2. "PatchCodes" \in Word
    BY DEF Word
  <2> QED BY <1>4, <1>8, <2>1, <2>2, InsertKeyLinesSupplies
<1>11. ASSUME NEW key
       PROVE  key \in missing /\ key \in KeysIn(template, "PatchCodes")
                <=> \E i \in 1 .. Len(lines) : lines[i].name = key
  <2>1. ASSUME key \in missing, key \in KeysIn(template, "PatchCodes")
        PROVE  \E i \in 1 .. Len(lines) : lines[i].name = key
    <3>1. PICK p \in 1 .. Len(template) : FirstOf(template, "PatchCodes", p) /\ template[p].name = key
      BY <2>1, FirstExists
    <3>2. p \in added
      BY <1>5, <1>9, <2>1, <3>1 DEF FirstOf
    <3> QED BY <1>8, <3>1, <3>2
  <2>2. ASSUME NEW i \in 1 .. Len(lines), lines[i].name = key
        PROVE  key \in missing /\ key \in KeysIn(template, "PatchCodes")
    <3>1. PICK p \in added : template[p].name = key
      BY <1>8, <2>2
    <3>2. p \in codes /\ key \in missing
      BY <1>2, <3>1
    <3> QED BY <1>5, <1>6, <3>1, <3>2, KeysAre
  <2> QED BY <2>1, <2>2
<1>12. ASSUME NEW i, FirstLine(lines, i)
       PROVE  \E j \in 1 .. Len(template) :
                FirstOf(template, "PatchCodes", j) /\ Says(lines[i], template[j])
  <2>1. PICK f : Copies(f, lines, template, added)
    BY <1>3, <1>7, LinesAtCopies
  <2>2. f[i] \in added /\ Says(lines[i], template[f[i]])
    BY <1>7, <1>12, <2>1, CopiedFirst
  <2> QED BY <1>2, <1>7, <1>9, <2>2
<1>13. {lines[i].name : i \in 1 .. Len(lines)}
         = (ReferencedPatchCodeNames(text) \cap KeysIn(template, "PatchCodes"))
             \ KeysIn(doc, "PatchCodes")
  BY <1>1, <1>11
<1> QED BY <1>10, <1>12, <1>13 DEF Coded

-----------------------------------------------------------------------------
(* The generated sections.                                                 *)

(* The entries between a header and the next.                              *)
BodyOf(text, h) ==
  {i \in 1 .. Len(text) : h < i /\ IsEntry(text[i]) /\ NoHeaderBetween(text, h, i)}

SectionOf(text, section, h) ==
  /\ h \in Headers(text) /\ section.name = text[h].name
  /\ section.lines = LinesAt(text, BodyOf(text, h))

GeneratedSection == [name: Word, lines: Texts]

Sections(text, all) ==
  /\ all \in Seq(GeneratedSection) /\ DOMAIN all = 1 .. Len(all) /\ Len(all) \in Nat
  /\ \A n \in 1 .. Len(all) : \E h : SectionOf(text, all[n], h)
  /\ \A h \in Headers(text) : \E n \in 1 .. Len(all) : SectionOf(text, all[n], h)

LEMMA GeneratedSectionsAre ==
  ASSUME NEW text \in Texts
  PROVE  Sections(text, GeneratedSections(text))
<1>1. PICK heads : heads = Ascending(Headers(text))
  OBVIOUS
<1> DEFINE end(n) == IF n = Len(heads) THEN Len(text) ELSE heads[n + 1] - 1
           body(n) == {i \in heads[n] + 1 .. end(n) : IsEntry(text[i])}
           all == GeneratedSections(text)
<1>2. Len(text) \in Nat /\ Headers(text) \in SUBSET (1 .. Len(text))
      /\ \A i \in Headers(text) : text[i].kind = "section"
  BY TextIs, HeadersAre
<1>3. Lists(heads, Headers(text))
  BY <1>1, <1>2, AscendingLists
<1>4. PICK c \in Nat : DOMAIN heads = 1 .. c /\ Len(heads) = c
  BY <1>3 DEF Lists
<1>5. /\ \A n \in 1 .. c : heads[n] \in Headers(text)
      /\ \A h \in Headers(text) : \E n \in 1 .. c : heads[n] = h
      /\ \A n, m \in 1 .. c : n < m => heads[n] < heads[m]
  BY <1>3, <1>4 DEF Lists
<1>6. all = [n \in 1 .. c |-> [name |-> text[heads[n]].name, lines |-> LinesAt(text, body(n))]]
  BY <1>1, <1>4 DEF GeneratedSections
<1>7. ASSUME NEW n \in 1 .. c PROVE body(n) = BodyOf(text, heads[n])
  <2>1. PICK h, e : h = heads[n] /\ e = end(n)
    OBVIOUS
  <2>2. h \in 1 .. Len(text) /\ h \in Headers(text)
    BY <1>2, <1>5, <2>1
  <2>3. /\ e \in 0 .. Len(text)
        /\ e = Len(text) \/ e + 1 \in Headers(text)
        /\ \A k \in Headers(text) : h < k => e < k
        /\ h <= e
    <3>1. CASE n = c
      <4>1. e = Len(text)
        BY <1>4, <2>1, <3>1
      <4>2. ASSUME NEW k \in Headers(text) PROVE k <= h
        <5>1. PICK m \in 1 .. c : heads[m] = k
          BY <1>5
        <5>2. m = c \/ m < c
          BY <1>4
        <5>3. k = h \/ k < h
          BY <1>4, <1>5, <2>1, <3>1, <5>1, <5>2
        <5> QED BY <1>2, <2>2, <5>3
      <4>3. \A k \in Headers(text) : ~(h < k)
        BY <1>2, <2>2, <4>2
      <4> QED BY <1>2, <2>2, <4>1, <4>3
    <3>2. CASE n # c
      <4>1. n + 1 \in 1 .. c /\ n < n + 1 /\ n \in Nat
        BY <1>4, <3>2
      <4>2. PICK g : g = heads[n + 1]
        OBVIOUS
      <4>3. e = g - 1 /\ g \in Headers(text) /\ h < g /\ g \in 1 .. Len(text)
        BY <1>2, <1>4, <1>5, <2>1, <3>2, <4>1, <4>2
      <4>4. ASSUME NEW k \in Headers(text), h < k PROVE g <= k
        <5>1. PICK m \in 1 .. c : heads[m] = k
          BY <1>5
        <5>2. k \in 1 .. Len(text)
          BY <1>2
        <5>3. ~(m < n) /\ m # n
          <6>1. m < n => k < h
            BY <1>5, <2>1, <5>1
          <6>2. m = n => k = h
            BY <2>1, <5>1
          <6> QED BY <2>2, <4>4, <5>2, <6>1, <6>2
        <5>4. m = n + 1 \/ n + 1 < m
          BY <1>4, <5>3
        <5>5. n + 1 < m => g < k
          BY <1>5, <4>1, <4>2, <5>1
        <5>6. m = n + 1 => g = k
          BY <4>2, <5>1
        <5> QED BY <4>3, <5>2, <5>4, <5>5, <5>6
      <4>5. \A k \in Headers(text) : k \in Nat
        BY <1>2
      <4> QED BY <1>2, <2>2, <4>3, <4>4, <4>5
    <3> QED BY <3>1, <3>2
  <2>4. ASSUME NEW i \in h + 1 .. e, IsEntry(text[i]) PROVE i \in BodyOf(text, h)
    <3>1. i \in 1 .. Len(text) /\ h < i /\ i <= e
      BY <1>2, <2>2, <2>3
    <3>2. NoHeaderBetween(text, h, i)
      BY <1>2, <2>3, <3>1 DEF NoHeaderBetween
    <3> QED BY <2>4, <3>1, <3>2 DEF BodyOf
  <2>5. ASSUME NEW i \in BodyOf(text, h) PROVE i \in h + 1 .. e /\ IsEntry(text[i])
    <3>1. i \in 1 .. Len(text) /\ h < i /\ IsEntry(text[i]) /\ NoHeaderBetween(text, h, i)
      BY DEF BodyOf
    <3>2. i \notin Headers(text)
      BY <1>2, <3>1 DEF IsEntry
    <3>3. i <= e
      <4>1. CASE e = Len(text)
        BY <3>1, <4>1
      <4>2. CASE e + 1 \in Headers(text)
        <5>1. ~(h < e + 1 /\ e + 1 < i)
          BY <3>1, <4>2 DEF NoHeaderBetween
        <5>2. i # e + 1
          BY <3>2, <4>2
        <5> QED BY <1>2, <2>2, <2>3, <3>1, <5>1, <5>2
      <4> QED BY <2>3, <4>1, <4>2
    <3> QED BY <1>2, <2>2, <2>3, <3>1, <3>3
  <2>6. body(n) = {i \in h + 1 .. e : IsEntry(text[i])}
    BY <2>1
  <2> QED BY <2>1, <2>4, <2>5, <2>6
<1>8. ASSUME NEW n \in 1 .. c PROVE SectionOf(text, all[n], heads[n]) /\ all[n] \in GeneratedSection
  <2>1. PICK h : h = heads[n]
    OBVIOUS
  <2>2. all[n] = [name |-> text[h].name, lines |-> LinesAt(text, BodyOf(text, h))]
    BY <1>6, <1>7, <2>1
  <2>3. LinesAt(text, BodyOf(text, h)) \in Texts
    BY LinesAtCopies DEF BodyOf
  <2>4. h \in Headers(text) /\ text[h].name \in Word
    BY <1>2, <1>5, <2>1, TextIs DEF TextLine
  <2> QED BY <2>1, <2>2, <2>3, <2>4 DEF SectionOf, GeneratedSection
<1>9. all \in Seq(GeneratedSection) /\ DOMAIN all = 1 .. c /\ Len(all) = c
  <2>1. all = [n \in 1 .. c |-> all[n]]
    BY <1>6
  <2> HIDE DEF all
  <2> QED BY <1>8, <2>1
<1> QED BY <1>5, <1>8, <1>9 DEF Sections

(* Its section names are all different.                                    *)
OneHeaderEach(text) ==
  \A h, k \in Headers(text) : text[h].name = text[k].name => h = k

(* A generated section is the one a reader of the text sees.               *)
LEMMA SectionSeen ==
  ASSUME NEW text \in Texts, OneHeaderEach(text), NEW section, NEW h, SectionOf(text, section, h)
  PROVE  /\ IsGenerated(section)
         /\ KeysOfSection(section) = KeysIn(text, section.name)
         /\ \A i : FirstLine(section.lines, i) =>
                     Setting(section.name, section.lines[i]) \in View(text)
<1>1. PICK name, lines, body : name = section.name /\ lines = section.lines /\ body = BodyOf(text, h)
  OBVIOUS
<1>2. /\ h \in Headers(text) /\ h \in 1 .. Len(text) /\ name = text[h].name /\ lines = LinesAt(text, body)
      /\ Headers(text) \subseteq 1 .. Len(text) /\ Len(text) \in Nat
  BY <1>1, TextIs, HeadersAre DEF SectionOf
<1>3. Opens(text, name, h)
  BY <1>2 DEF Opens, HeadersOf, OneHeaderEach
<1>4. \A i : i \in body <=> InSection(text, name, i)
  <2>1. ASSUME NEW i \in body PROVE InSection(text, name, i)
    BY <1>1, <1>2, <1>3 DEF BodyOf, InSection
  <2>2. ASSUME NEW i, InSection(text, name, i) PROVE i \in body
    <3>1. PICK t \in 1 .. Len(text) : Opens(text, name, t) /\ t < i /\ NoHeaderBetween(text, t, i)
      BY <2>2 DEF InSection
    <3>2. t = h
      BY <1>2, <1>3, <3>1, OneOpens
    <3> QED BY <1>1, <2>2, <3>1, <3>2 DEF BodyOf, InSection
  <2> QED BY <2>1, <2>2
<1>5. body \in SUBSET (1 .. Len(text)) /\ \A p \in body : IsEntry(text[p])
  BY <1>1 DEF BodyOf
<1>6. /\ IsKeyLines(lines)
      /\ \A i \in 1 .. Len(lines) : \E p \in body : lines[i].name = text[p].name
      /\ \A p \in body : \E i \in 1 .. Len(lines) : lines[i].name = text[p].name
  BY <1>2, <1>5, CopiedKeys
<1>7. IsGenerated(section)
  <2>1. name \in Word
    BY <1>2, TextIs DEF TextLine
  <2> QED BY <1>1, <1>6, <2>1 DEF IsGenerated
<1>8. ASSUME NEW key PROVE key \in KeysOfSection(section) <=> key \in KeysIn(text, name)
  <2>1. key \in KeysIn(text, name) <=> \E p \in body : text[p].name = key
    BY <1>4, <1>5, KeysAre
  <2>2. key \in KeysOfSection(section) <=> \E i \in 1 .. Len(lines) : lines[i].name = key
    BY <1>1 DEF KeysOfSection
  <2> QED BY <1>6, <2>1, <2>2
<1>9. ASSUME NEW i, FirstLine(lines, i) PROVE Setting(name, lines[i]) \in View(text)
  <2>1. PICK f : Copies(f, lines, text, body)
    BY <1>2, <1>5, LinesAtCopies
  <2>2. /\ f[i] \in body /\ Says(lines[i], text[f[i]])
        /\ \A p \in body : p < f[i] => text[p].name # text[f[i]].name
    BY <1>5, <1>9, <2>1, CopiedFirst
  <2>3. FirstOf(text, name, f[i])
    BY <1>4, <2>2 DEF FirstOf
  <2>4. Setting(name, lines[i]) = Setting(name, text[f[i]])
    BY <2>2 DEF Setting, Says
  <2> QED BY <1>5, <2>2, <2>3, <2>4, ViewIs
<1> QED BY <1>1, <1>7, <1>8, <1>9

(* The loop over the generated sections, one value of the text each.       *)
Loop(f, doc, sections, n) ==
  f = [k \in 0 .. n |-> IF k = 0 THEN doc ELSE EnsureSection(f[k - 1], sections[k])]

LEMMA LoopExists ==
  ASSUME NEW doc, NEW sections, NEW n \in Nat PROVE \E f : Loop(f, doc, sections, n)
<1> DEFINE Fails == {m \in Nat : ~\E f : Loop(f, doc, sections, m)}
<1> SUFFICES ASSUME Fails # {} PROVE FALSE
  OBVIOUS
<1>1. PICK m \in Fails : \A k \in Fails : m <= k
  BY LeastIn
<1>2. CASE m = 0
  <2> DEFINE f == [k \in 0 .. 0 |-> doc]
  <2>1. f = [k \in 0 .. 0 |-> IF k = 0 THEN doc ELSE EnsureSection(f[k - 1], sections[k])]
    OBVIOUS
  <2>2. Loop(f, doc, sections, 0)
    BY <2>1 DEF Loop
  <2> QED BY <1>1, <1>2, <2>2
<1>3. CASE m # 0
  <2>1. m - 1 \in Nat /\ m - 1 \notin Fails
    BY <1>1, <1>3
  <2>2. PICK g : Loop(g, doc, sections, m - 1)
    BY <2>1
  <2> DEFINE f == [k \in 0 .. m |-> IF k = m THEN EnsureSection(g[m - 1], sections[m]) ELSE g[k]]
  <2>3. ASSUME NEW k \in 0 .. m
        PROVE  f[k] = IF k = 0 THEN doc ELSE EnsureSection(f[k - 1], sections[k])
    <3>1. CASE k = m
      <4>1. k # 0 /\ k - 1 \in 0 .. m /\ k - 1 # m
        BY <1>1, <1>3, <3>1
      <4>2. f[k - 1] = g[m - 1] /\ f[k] = EnsureSection(g[m - 1], sections[m])
        BY <3>1, <4>1
      <4> HIDE DEF f
      <4> QED BY <3>1, <4>1, <4>2
    <3>2. CASE k # m
      <4>1. k \in 0 .. m - 1 /\ f[k] = g[k]
        BY <1>1, <2>1, <3>2
      <4>2. g[k] = IF k = 0 THEN doc ELSE EnsureSection(g[k - 1], sections[k])
        BY <2>2, <4>1, Zenon DEF Loop
      <4>3. k # 0 => f[k - 1] = g[k - 1]
        BY <1>1, <2>1, <3>2, <4>1
      <4> HIDE DEF f
      <4> QED BY <4>1, <4>2, <4>3
    <3> QED BY <3>1, <3>2
  <2>4. f = [k \in 0 .. m |-> f[k]]
    OBVIOUS
  <2>5. Loop(f, doc, sections, m)
    <3> HIDE DEF f
    <3> QED BY <2>3, <2>4, Zenon DEF Loop
  <2> QED BY <1>1, <2>5
<1> QED BY <1>2, <1>3

LEMMA EnsureGeneratedIs ==
  ASSUME NEW doc, NEW text \in Texts
  PROVE  \E f : /\ Loop(f, doc, GeneratedSections(text), Len(GeneratedSections(text)))
                /\ EnsureGeneratedOffsetSections(doc, text) = f[Len(GeneratedSections(text))]
<1>1. PICK sections, n : sections = GeneratedSections(text) /\ n = Len(sections)
  OBVIOUS
<1>2. n \in Nat
  BY <1>1, GeneratedSectionsAre DEF Sections
<1>3. \E f : Loop(f, doc, sections, n)
  BY <1>2, LoopExists
<1> DEFINE updated[k \in 0 .. n] == IF k = 0 THEN doc ELSE EnsureSection(updated[k - 1], sections[k])
<1>4. updated = CHOOSE f : f = [k \in 0 .. n |-> IF k = 0 THEN doc ELSE EnsureSection(f[k - 1], sections[k])]
  BY DEF updated
<1>5. Loop(updated, doc, sections, n)
  BY <1>3, <1>4, Zenon DEF Loop
<1>6. EnsureGeneratedOffsetSections(doc, text) = updated[n]
  BY <1>1 DEF EnsureGeneratedOffsetSections
<1> QED BY <1>1, <1>5, <1>6

-----------------------------------------------------------------------------
(* The repair of a text.                                                   *)

LEMMA SectionIsGenerated ==
  ASSUME NEW text \in Texts, NEW section, NEW h, SectionOf(text, section, h)
  PROVE  IsGenerated(section)
<1>1. h \in Headers(text) /\ section.name = text[h].name /\ section.lines = LinesAt(text, BodyOf(text, h))
  BY DEF SectionOf
<1>2. section.name \in Word
  BY <1>1, HeadersAre, TextIs DEF TextLine
<1>3. BodyOf(text, h) \in SUBSET (1 .. Len(text)) /\ \A p \in BodyOf(text, h) : IsEntry(text[p])
  BY DEF BodyOf
<1>4. IsKeyLines(LinesAt(text, BodyOf(text, h)))
  BY <1>3, CopiedKeys
<1> QED BY <1>1, <1>2, <1>4 DEF IsGenerated

(* What no addition to a text undoes.                                      *)
Mended(doc, new) ==
  /\ doc \in Texts /\ new \in Texts /\ Kept(doc, new)
  /\ LinesEnded(doc) => LinesEnded(new)
  /\ HasError(new) <=> HasError(doc)
  /\ \A m : KeysIn(doc, m) \subseteq KeysIn(new, m)

LEMMA SuppliedMends ==
  ASSUME NEW doc, NEW new, NEW name, NEW lines, Supplied(doc, new, name, lines)
  PROVE  Mended(doc, new)
<1>1. doc \in Texts /\ new \in Texts
  BY DEF Supplied
<1>2. Kept(doc, new) /\ (LinesEnded(doc) => LinesEnded(new)) /\ (HasError(new) <=> HasError(doc))
  BY SuppliedLines
<1>3. \A m : KeysIn(doc, m) \subseteq KeysIn(new, m)
  BY SuppliedKeys
<1> QED BY <1>1, <1>2, <1>3 DEF Mended

LEMMA MendedFurther ==
  ASSUME NEW a, NEW b, NEW c, Mended(a, b), Mended(b, c) PROVE Mended(a, c)
<1>1. Kept(a, c)
  BY KeptFurther DEF Mended
<1>2. \A m : KeysIn(a, m) \subseteq KeysIn(b, m) /\ KeysIn(b, m) \subseteq KeysIn(c, m)
  BY DEF Mended
<1>3. a \in Texts /\ c \in Texts /\ (LinesEnded(a) => LinesEnded(c)) /\ (HasError(c) <=> HasError(a))
  BY DEF Mended
<1> QED BY <1>1, <1>2, <1>3 DEF Mended

LEMMA MendedItself == ASSUME NEW doc \in Texts PROVE Mended(doc, doc)
BY KeptItself DEF Mended

LEMMA EnsureSectionMends ==
  ASSUME NEW doc \in Texts, NEW section, IsGenerated(section)
  PROVE  /\ Mended(doc, EnsureSection(doc, section))
         /\ KeysOfSection(section) \subseteq KeysIn(EnsureSection(doc, section), section.name)
<1>1. PICK new : new = EnsureSection(doc, section)
  OBVIOUS
<1>2. PICK lines : Ensured(doc, new, section, lines)
  BY <1>1, EnsureSectionSupplies
<1>3. /\ Supplied(doc, new, section.name, lines)
      /\ {lines[i].name : i \in 1 .. Len(lines)}
           = KeysOfSection(section) \ KeysIn(doc, section.name)
  BY <1>2 DEF Ensured
<1>4. Mended(doc, new)
  BY <1>3, SuppliedMends
<1>5. ASSUME NEW key \in KeysOfSection(section) PROVE key \in KeysIn(new, section.name)
  <2>1. key \in KeysIn(doc, section.name) \/ \E i \in 1 .. Len(lines) : lines[i].name = key
    BY <1>3
  <2> QED BY <1>3, <2>1, SuppliedKeys
<1> QED BY <1>1, <1>4, <1>5

LEMMA EnsureCodesMends ==
  ASSUME NEW doc \in Texts, NEW text, NEW template \in Texts
  PROVE  /\ Mended(doc, EnsureReferencedPatchCodes(doc, text, template))
         /\ TemplateHasCodes(text, template) =>
              ReferencedPatchCodeNames(text)
                \subseteq KeysIn(EnsureReferencedPatchCodes(doc, text, template), "PatchCodes")
<1>1. PICK new : new = EnsureReferencedPatchCodes(doc, text, template)
  OBVIOUS
<1>2. PICK lines : Coded(doc, new, text, template, lines)
  BY <1>1, EnsureReferencedPatchCodesSupplies
<1>3. /\ Supplied(doc, new, "PatchCodes", lines)
      /\ {lines[i].name : i \in 1 .. Len(lines)}
           = (ReferencedPatchCodeNames(text) \cap KeysIn(template, "PatchCodes"))
               \ KeysIn(doc, "PatchCodes")
  BY <1>2 DEF Coded
<1>4. Mended(doc, new)
  BY <1>3, SuppliedMends
<1>5. ASSUME TemplateHasCodes(text, template), NEW key \in ReferencedPatchCodeNames(text)
      PROVE  key \in KeysIn(new, "PatchCodes")
  <2>1. key \in KeysIn(doc, "PatchCodes") \/ \E i \in 1 .. Len(lines) : lines[i].name = key
    BY <1>3, <1>5 DEF TemplateHasCodes
  <2> QED BY <1>3, <2>1, SuppliedKeys
<1> QED BY <1>1, <1>4, <1>5

(* Every key of the generated text is there when the loop has ended.       *)
LEMMA EnsureGeneratedMends ==
  ASSUME NEW doc \in Texts, NEW text \in Texts,
         NEW new, new = EnsureGeneratedOffsetSections(doc, text)
  PROVE  /\ Mended(doc, new)
         /\ \A i \in 1 .. Len(GeneratedSections(text)) :
              KeysOfSection(GeneratedSections(text)[i])
                \subseteq KeysIn(new, GeneratedSections(text)[i].name)
<1>1. PICK sections, n : sections = GeneratedSections(text) /\ n = Len(sections)
  OBVIOUS
<1>2. n \in Nat /\ \A i \in 1 .. n : IsGenerated(sections[i])
  BY <1>1, GeneratedSectionsAre, SectionIsGenerated DEF Sections
<1>3. PICK f : Loop(f, doc, sections, n) /\ new = f[n]
  BY <1>1, EnsureGeneratedIs
<1>4. f[0] = doc /\ \A k \in 1 .. n : f[k] = EnsureSection(f[k - 1], sections[k])
  <2>1. f = [k \in 0 .. n |-> IF k = 0 THEN doc ELSE EnsureSection(f[k - 1], sections[k])]
    BY <1>3, Zenon DEF Loop
  <2>2. ASSUME NEW k \in 0 .. n
        PROVE  f[k] = IF k = 0 THEN doc ELSE EnsureSection(f[k - 1], sections[k])
    BY <2>1, Zenon
  <2> QED BY <1>2, <2>2
<1> DEFINE Good(k) == /\ Mended(doc, f[k])
                      /\ \A i \in 1 .. k :
                           KeysOfSection(sections[i]) \subseteq KeysIn(f[k], sections[i].name)
           Bad == {k \in 0 .. n : ~Good(k)}
<1>5. Good(0)
  BY <1>4, MendedItself
<1>6. ASSUME NEW k \in 1 .. n, Good(k - 1) PROVE Good(k)
  <2>1. PICK a, b, section : a = f[k - 1] /\ b = f[k] /\ section = sections[k]
    OBVIOUS
  <2>2. Mended(doc, a) /\ b = EnsureSection(a, section) /\ IsGenerated(section)
    BY <1>2, <1>4, <1>6, <2>1
  <2>3. a \in Texts
    BY <2>2 DEF Mended
  <2>4. Mended(a, b) /\ KeysOfSection(section) \subseteq KeysIn(b, section.name)
    BY <2>2, <2>3, EnsureSectionMends
  <2>5. Mended(doc, b)
    BY <2>2, <2>4, MendedFurther
  <2>6. \A m : KeysIn(a, m) \subseteq KeysIn(b, m)
    BY <2>4 DEF Mended
  <2>7. ASSUME NEW i \in 1 .. k
        PROVE  KeysOfSection(sections[i]) \subseteq KeysIn(b, sections[i].name)
    <3>1. CASE i = k
      BY <2>1, <2>4, <3>1
    <3>2. CASE i # k
      <4>1. i \in 1 .. k - 1
        BY <1>2, <3>2
      <4>2. KeysOfSection(sections[i]) \subseteq KeysIn(a, sections[i].name)
        BY <1>6, <2>1, <4>1
      <4> QED BY <2>6, <4>2
    <3> QED BY <3>1, <3>2
  <2> QED BY <2>1, <2>5, <2>7
<1>7. Good(n)
  <2> SUFFICES ASSUME Bad # {} PROVE FALSE
    BY <1>2
  <2> HIDE DEF Good
  <2>0. Bad \in SUBSET Nat
    BY <1>2
  <2>1. PICK m \in Bad : \A k \in Bad : m <= k
    BY <2>0, LeastIn
  <2>2. m # 0 /\ m \in 1 .. n
    BY <1>2, <1>5, <2>1
  <2>3. m - 1 \in 0 .. n /\ m - 1 \notin Bad
    BY <1>2, <2>1, <2>2
  <2> QED BY <1>6, <2>1, <2>2, <2>3
<1> QED BY <1>1, <1>3, <1>7

LEMMA KeysOfLines ==
  ASSUME NEW lines \in Texts
  PROVE  {line.name : line \in ToSet(lines)} = {lines[i].name : i \in 1 .. Len(lines)}
BY TextIs DEF ToSet

(* Covers, section by section.                                             *)
LEMMA CoversIs ==
  ASSUME NEW doc, NEW text \in Texts, NEW sections, NEW n,
         sections = GeneratedSections(text), n = Len(sections)
  PROVE  Covers(doc, text) <=>
           /\ \A i \in 1 .. n : KeysOfSection(sections[i]) \subseteq KeysIn(doc, sections[i].name)
           /\ ReferencedPatchCodeNames(text) \subseteq KeysIn(doc, "PatchCodes")
<1>1. Sections(text, sections)
  BY GeneratedSectionsAre
<1>2. DOMAIN sections = 1 .. n /\ \A i \in 1 .. n : sections[i].lines \in Texts
  BY <1>1, SectionIsGenerated DEF Sections, IsGenerated, IsKeyLines
<1>3. \A i \in 1 .. n : {line.name : line \in ToSet(sections[i].lines)} = KeysOfSection(sections[i])
  BY <1>2, KeysOfLines DEF KeysOfSection
<1>4. ToSet(sections) = {sections[i] : i \in 1 .. n}
  BY <1>2 DEF ToSet
<1>5. (\A section \in ToSet(sections) :
         {line.name : line \in ToSet(section.lines)} \subseteq KeysIn(doc, section.name))
      <=> \A i \in 1 .. n : KeysOfSection(sections[i]) \subseteq KeysIn(doc, sections[i].name)
  BY <1>3, <1>4
<1> QED BY <1>5 DEF Covers

LEMMA RepairMends ==
  ASSUME NEW doc \in Texts, NEW text \in Texts, NEW template \in Texts,
         NEW new, new = Repair(doc, text, template)
  PROVE  Mended(doc, new) /\ (TemplateHasCodes(text, template) => Covers(new, text))
<1>1. PICK sections, n : sections = GeneratedSections(text) /\ n = Len(sections)
  OBVIOUS
<1>2. PICK mid : mid = EnsureGeneratedOffsetSections(doc, text)
  OBVIOUS
<1>3. /\ Mended(doc, mid)
      /\ \A i \in 1 .. n : KeysOfSection(sections[i]) \subseteq KeysIn(mid, sections[i].name)
  BY <1>1, <1>2, EnsureGeneratedMends
<1>4. mid \in Texts /\ new = EnsureReferencedPatchCodes(mid, text, template)
  BY <1>2, <1>3 DEF Repair, Mended
<1>5. /\ Mended(mid, new)
      /\ TemplateHasCodes(text, template) =>
           ReferencedPatchCodeNames(text) \subseteq KeysIn(new, "PatchCodes")
  BY <1>4, EnsureCodesMends
<1>6. Mended(doc, new)
  BY <1>3, <1>5, MendedFurther
<1>7. \A i \in 1 .. n : KeysOfSection(sections[i]) \subseteq KeysIn(new, sections[i].name)
  BY <1>3, <1>5 DEF Mended
<1> QED BY <1>1, <1>5, <1>6, <1>7, CoversIs

(* A text that has everything is left as it is.                            *)
LEMMA RepairOfCovered ==
  ASSUME NEW doc \in Texts, NEW text \in Texts, NEW template \in Texts, Covers(doc, text)
  PROVE  Repair(doc, text, template) = doc
<1>1. PICK sections, n : sections = GeneratedSections(text) /\ n = Len(sections)
  OBVIOUS
<1>2. /\ \A i \in 1 .. n : KeysOfSection(sections[i]) \subseteq KeysIn(doc, sections[i].name)
      /\ ReferencedPatchCodeNames(text) \subseteq KeysIn(doc, "PatchCodes")
  BY <1>1, CoversIs
<1>3. n \in Nat /\ \A i \in 1 .. n : sections[i].lines \in Texts
  BY <1>1, GeneratedSectionsAre, SectionIsGenerated DEF Sections, IsGenerated, IsKeyLines
<1>4. ASSUME NEW i \in 1 .. n PROVE EnsureSection(doc, sections[i]) = doc
  <2>1. PICK section : section = sections[i]
    OBVIOUS
  <2>2. \A j \in DOMAIN section.lines : section.lines[j].name \in KeysIn(doc, section.name)
    <3>1. DOMAIN section.lines = 1 .. Len(section.lines)
      BY <1>3, <2>1, TextIs
    <3> QED BY <1>2, <2>1, <3>1 DEF KeysOfSection
  <2>3. {j \in DOMAIN section.lines : section.lines[j].name \notin KeysIn(doc, section.name)} = {}
    BY <2>2
  <2>4. EnsureSection(doc, section) = InsertKeyLines(doc, section.name, LinesAt(section.lines, {}), Nowhere)
    BY <2>3 DEF EnsureSection
  <2> QED BY <2>1, <2>4, LinesAtNone DEF InsertKeyLines
<1>5. EnsureGeneratedOffsetSections(doc, text) = doc
  <2>1. PICK f : Loop(f, doc, sections, n) /\ EnsureGeneratedOffsetSections(doc, text) = f[n]
    BY <1>1, EnsureGeneratedIs
  <2>2. f = [k \in 0 .. n |-> IF k = 0 THEN doc ELSE EnsureSection(f[k - 1], sections[k])]
    BY <2>1, Zenon DEF Loop
  <2>3. ASSUME NEW k \in 0 .. n
        PROVE  f[k] = IF k = 0 THEN doc ELSE EnsureSection(f[k - 1], sections[k])
    BY <2>2, Zenon
  <2> DEFINE Bad == {k \in 0 .. n : f[k] # doc}
  <2>4. SUFFICES ASSUME Bad # {} PROVE FALSE
    BY <1>3, <2>1
  <2>5. Bad \in SUBSET Nat
    BY <1>3
  <2>6. PICK m \in Bad : \A k \in Bad : m <= k
    BY <2>4, <2>5, LeastIn
  <2>7. m # 0
    BY <1>3, <2>3, <2>6
  <2>8. m - 1 \in 0 .. n /\ m - 1 \notin Bad /\ m \in 1 .. n
    BY <1>3, <2>6, <2>7
  <2>9. f[m - 1] = doc
    BY <2>8
  <2>10. f[m] = EnsureSection(doc, sections[m])
    BY <2>3, <2>6, <2>7, <2>9
  <2> QED BY <1>4, <2>6, <2>8, <2>10
<1>6. EnsureReferencedPatchCodes(doc, text, template) = doc
  <2> DEFINE missing == ReferencedPatchCodeNames(text) \ KeysIn(doc, "PatchCodes")
             codes == EntriesIn(template, "PatchCodes")
             First(i) == \A j \in codes : template[j].name = template[i].name => i <= j
             added == {i \in codes : template[i].name \in missing /\ First(i)}
  <2>1. added = {}
    BY <1>2
  <2>2. EnsureReferencedPatchCodes(doc, text, template)
          = InsertKeyLines(doc, "PatchCodes", LinesAt(template, added), "Main")
    BY Zenon DEF EnsureReferencedPatchCodes
  <2> HIDE DEF added
  <2> QED BY <2>1, <2>2, LinesAtNone DEF InsertKeyLines
<1> QED BY <1>5, <1>6 DEF Repair

-----------------------------------------------------------------------------
(* A new file made from the template.                                      *)

(* A text keeps its sections behind one that has none of their names.      *)
LEMMA JoinedKeys ==
  ASSUME NEW a \in Texts, NEW b \in Texts, NEW m, ~HasSection(a, m)
  PROVE  KeysIn(b, m) \subseteq KeysIn(a \o b, m)
<1>1. PICK doc, n : doc = a \o b /\ n = Len(a)
  OBVIOUS
<1>2. /\ doc \in Texts /\ Len(doc) = n + Len(b) /\ n \in Nat /\ Len(b) \in Nat
      /\ \A i \in 1 .. n : doc[i] = a[i]
      /\ \A i \in 1 .. Len(b) : doc[n + i] = b[i]
  BY <1>1, Joined, TextIs
<1>3. \A i \in 1 .. Len(b) : n + i \in 1 .. Len(doc)
  BY <1>2
<1>4. ASSUME NEW h \in 1 .. Len(doc) PROVE h \in 1 .. n \/ \E i \in 1 .. Len(b) : h = n + i
  <2>1. CASE n < h
    <3>1. h - n \in 1 .. Len(b) /\ h = n + (h - n)
      BY <1>2, <2>1
    <3> QED BY <3>1
  <2> QED BY <1>2, <2>1
<1>a. /\ HeadersOf(a, m) = {i \in 1 .. n : a[i].kind = "section" /\ a[i].name = m}
      /\ HeadersOf(b, m) = {i \in 1 .. Len(b) : b[i].kind = "section" /\ b[i].name = m}
      /\ HeadersOf(doc, m) = {i \in 1 .. Len(doc) : doc[i].kind = "section" /\ doc[i].name = m}
      /\ Headers(b) = {i \in 1 .. Len(b) : b[i].kind = "section"}
      /\ Headers(doc) = {i \in 1 .. Len(doc) : doc[i].kind = "section"}
  BY <1>1, <1>2, HeadersAre
<1>5. HeadersOf(a, m) = {}
  BY DEF HasSection
<1>6. ASSUME NEW h \in HeadersOf(doc, m) PROVE \E i \in HeadersOf(b, m) : h = n + i
  <2>1. h \in 1 .. Len(doc) /\ doc[h].kind = "section" /\ doc[h].name = m
    BY <1>2, HeadersAre
  <2>2. h \notin 1 .. n
    BY <1>2, <1>5, <1>a, <2>1
  <2>3. PICK i \in 1 .. Len(b) : h = n + i
    BY <1>4, <2>1, <2>2
  <2> QED BY <1>2, <2>1, <2>3, HeadersAre
<1>7. ASSUME NEW i \in 1 .. Len(b), InSection(b, m, i) PROVE InSection(doc, m, n + i)
  <2>1. PICK t \in 1 .. Len(b) : Opens(b, m, t) /\ t < i /\ NoHeaderBetween(b, t, i)
    BY <1>7 DEF InSection
  <2>2. Opens(doc, m, n + t)
    <3>1. n + t \in HeadersOf(doc, m)
      BY <1>2, <1>3, <1>a, <2>1 DEF Opens
    <3>2. ASSUME NEW h \in HeadersOf(doc, m) PROVE n + t <= h
      <4>1. PICK k \in HeadersOf(b, m) : h = n + k
        BY <1>6
      <4>2. t <= k /\ k \in 1 .. Len(b)
        BY <2>1, <4>1, HeadersAre DEF Opens
      <4> QED BY <1>2, <4>1, <4>2
    <3> QED BY <3>1, <3>2 DEF Opens
  <2>3. NoHeaderBetween(doc, n + t, n + i)
    <3> SUFFICES ASSUME NEW h \in Headers(doc), n + t < h, h < n + i PROVE FALSE
      BY DEF NoHeaderBetween
    <3>1. h \in 1 .. Len(doc) /\ doc[h].kind = "section"
      BY <1>2, HeadersAre
    <3>2. h \notin 1 .. n
      BY <1>2, <3>1
    <3>3. PICK k \in 1 .. Len(b) : h = n + k
      BY <1>4, <3>1, <3>2
    <3>4. k \in Headers(b) /\ t < k /\ k < i
      <4>1. b[k].kind = "section"
        BY <1>2, <3>1, <3>3
      <4>2. t < k /\ k < i
        BY <1>2, <3>3
      <4> QED BY <1>a, <4>1, <4>2
    <3> QED BY <2>1, <3>4 DEF NoHeaderBetween
  <2>4. IsEntry(doc[n + i]) /\ n + i \in 1 .. Len(doc) /\ n + t \in 1 .. Len(doc) /\ n + t < n + i
    BY <1>2, <1>3, <1>7, <2>1 DEF InSection
  <2> QED BY <2>2, <2>3, <2>4 DEF InSection
<1>8. ASSUME NEW key \in KeysIn(b, m) PROVE key \in KeysIn(doc, m)
  <2>1. PICK i \in 1 .. Len(b) : InSection(b, m, i) /\ b[i].name = key
    BY KeysAre
  <2>2. n + i \in 1 .. Len(doc) /\ InSection(doc, m, n + i) /\ doc[n + i].name = key
    BY <1>2, <1>3, <1>7, <2>1
  <2> QED BY <1>2, <2>2, KeysAre
<1> QED BY <1>1, <1>8

(* What the text is appended to: the lines of the template, all ended.     *)
LEMMA StrippedIs ==
  ASSUME NEW doc \in Texts
  PROVE  /\ StripTrailingBlanks(doc) \in Texts
         /\ Len(StripTrailingBlanks(doc)) \in 0 .. Len(doc)
         /\ \A i \in 1 .. Len(StripTrailingBlanks(doc)) :
              /\ Says(StripTrailingBlanks(doc)[i], doc[i])
              /\ i # Len(StripTrailingBlanks(doc)) => StripTrailingBlanks(doc)[i].eol
<1>1. PICK S, last : S = {0} \cup {i \in DOMAIN doc : doc[i].kind # "blank"} /\ last = Max(S)
  OBVIOUS
<1>2. Len(doc) \in Nat /\ DOMAIN doc = 1 .. Len(doc) /\ \A i \in 1 .. Len(doc) : doc[i] \in TextLine
  BY TextIs
<1>3. S \in SUBSET (0 .. Len(doc)) /\ S # {}
  BY <1>1, <1>2
<1>4. last \in 0 .. Len(doc)
  BY <1>1, <1>2, <1>3, GreatestIsMax
<1>5. StripTrailingBlanks(doc) = [i \in 1 .. last |-> [doc[i] EXCEPT !.eol = (i # last)]]
  BY <1>1 DEF StripTrailingBlanks
<1>6. PICK new : new = StripTrailingBlanks(doc)
  OBVIOUS
<1>7. ASSUME NEW i \in 1 .. last
      PROVE  new[i] \in TextLine /\ Says(new[i], doc[i]) /\ (i # last => new[i].eol)
  <2>1. doc[i] \in TextLine
    BY <1>2, <1>4
  <2>2. new[i] = [doc[i] EXCEPT !.eol = (i # last)]
    BY <1>5, <1>6
  <2>3. (i # last) \in BOOLEAN
    OBVIOUS
  <2>4. PICK e \in BOOLEAN : e = (i # last)
    BY <2>3
  <2>5. new[i] = [doc[i] EXCEPT !.eol = e]
    BY <2>2, <2>4
  <2>6. new[i] \in TextLine /\ Says(new[i], doc[i])
    BY <2>1, <2>5 DEF TextLine, Says
  <2>7. new[i].eol = e
    BY <2>1, <2>5 DEF TextLine
  <2> QED BY <2>4, <2>6, <2>7
<1>8. new \in Texts /\ Len(new) = last
  <2>1. last \in Nat
    BY <1>2, <1>4
  <2>2. new = [i \in 1 .. last |-> new[i]]
    BY <1>5, <1>6
  <2> QED BY <1>7, <2>1, <2>2 DEF Texts
<1> QED BY <1>4, <1>6, <1>7, <1>8

Base(template) ==
  LET stripped == StripTrailingBlanks(template)
  IN  IF stripped = <<>> THEN <<Blank>> ELSE EnsurePreviousLineEnds(stripped, Len(stripped) + 1)

LEMMA BaseIs ==
  ASSUME NEW template \in Texts, NEW base, base = Base(template)
  PROVE  /\ base \in Texts /\ \A i \in 1 .. Len(base) : base[i].eol
         /\ \A m : HasSection(base, m) => HasSection(template, m)
<1>1. PICK stripped, n : stripped = StripTrailingBlanks(template) /\ n = Len(stripped)
  OBVIOUS
<1>2. /\ stripped \in Texts /\ n \in 0 .. Len(template) /\ Len(template) \in Nat
      /\ \A i \in 1 .. n : Says(stripped[i], template[i]) /\ (i # n => stripped[i].eol)
  BY <1>1, StrippedIs, TextIs
<1>3. CASE stripped = <<>>
  <2>1. base = <<Blank>>
    BY <1>1, <1>3 DEF Base
  <2>2. base \in Texts /\ Len(base) = 1 /\ base[1] = Blank
    BY <2>1, BlankLine
  <2>3. \A i \in 1 .. Len(base) : base[i].eol /\ base[i].kind # "section"
    BY <2>2, BlankLine
  <2>4. \A m : ~HasSection(base, m)
    BY <2>2, <2>3, HeadersAre DEF HasSection
  <2> QED BY <2>2, <2>3, <2>4
<1>4. CASE stripped # <<>>
  <2>1. base = EnsurePreviousLineEnds(stripped, n + 1)
    BY <1>1, <1>4 DEF Base
  <2>2. n + 1 \in 1 .. Len(stripped) + 1 /\ (n + 1) - 1 = n /\ n \in Nat
    BY <1>1, <1>2
  <2>3. /\ base \in Texts /\ Len(base) = n
        /\ \A i \in 1 .. n : base[i] = IF i = n THEN Ended(stripped[i]) ELSE stripped[i]
    BY <1>1, <1>2, <2>1, <2>2, PreviousLineEnds
  <2>4. ASSUME NEW i \in 1 .. n
        PROVE  base[i].eol /\ base[i].kind = template[i].kind /\ base[i].name = template[i].name
    <3>1. stripped[i] \in TextLine /\ Says(stripped[i], template[i])
      BY <1>1, <1>2, TextIs
    <3>2. Ended(stripped[i]).eol /\ Says(Ended(stripped[i]), stripped[i])
      BY <3>1, EndedSays
    <3>3. CASE i = n
      BY <2>3, <3>1, <3>2, <3>3 DEF Says
    <3>4. CASE i # n
      BY <1>2, <2>3, <3>1, <3>4 DEF Says
    <3> QED BY <3>3, <3>4
  <2>5. ASSUME NEW m, HasSection(base, m) PROVE HasSection(template, m)
    <3>1. HeadersOf(base, m) = {i \in 1 .. n : base[i].kind = "section" /\ base[i].name = m}
      BY <2>3, HeadersAre
    <3>2. PICK i \in 1 .. n : base[i].kind = "section" /\ base[i].name = m
      BY <2>5, <3>1 DEF HasSection
    <3>3. i \in 1 .. Len(template) /\ template[i].kind = "section" /\ template[i].name = m
      BY <1>2, <2>4, <3>2
    <3>4. HeadersOf(template, m) # {}
      BY <3>3, HeadersAre
    <3> QED BY <3>4 DEF HasSection
  <2> QED BY <2>3, <2>4, <2>5
<1> QED BY <1>3, <1>4

(* Text and template have no section name in common, and no name is used   *)
(* twice in the text.                                                      *)
Apart(text, template) ==
  OneHeaderEach(text) /\ \A h \in Headers(text) : ~HasSection(template, text[h].name)

(* The file made from the template is complete, and has the text's errors. *)
LEMMA RenderCovers ==
  ASSUME NEW text \in Texts, NEW template \in Texts, Apart(text, template),
         TemplateHasCodes(text, template), NEW new, new = Render(text, template)
  PROVE  /\ new \in Texts /\ Covers(new, text)
         /\ LinesEnded(text) => LinesEnded(new)
         /\ HasError(text) => HasError(new)
<1>1. PICK base : base = Base(template)
  OBVIOUS
<1>2. PICK doc, n : doc = base \o text /\ n = Len(base)
  OBVIOUS
<1>3. new = EnsureReferencedPatchCodes(doc, text, template)
  BY <1>1, <1>2 DEF Render, Base
<1>4. /\ base \in Texts /\ \A i \in 1 .. n : base[i].eol
      /\ \A m : HasSection(base, m) => HasSection(template, m)
  BY <1>1, <1>2, BaseIs
<1>5. /\ doc \in Texts /\ Len(doc) = n + Len(text) /\ n \in Nat /\ Len(text) \in Nat
      /\ \A i \in 1 .. n : doc[i] = base[i]
      /\ \A i \in 1 .. Len(text) : doc[n + i] = text[i]
  BY <1>2, <1>4, Joined, TextIs
<1>6. /\ Mended(doc, new)
      /\ ReferencedPatchCodeNames(text) \subseteq KeysIn(new, "PatchCodes")
  BY <1>3, <1>5, EnsureCodesMends
<1>7. ASSUME NEW h \in Headers(text)
      PROVE  KeysIn(text, text[h].name) \subseteq KeysIn(new, text[h].name)
  <2>1. ~HasSection(base, text[h].name)
    BY <1>4 DEF Apart
  <2>2. KeysIn(text, text[h].name) \subseteq KeysIn(doc, text[h].name)
    BY <1>2, <1>4, <2>1, JoinedKeys
  <2> QED BY <1>6, <2>2 DEF Mended
<1>8. PICK sections, c : sections = GeneratedSections(text) /\ c = Len(sections)
  OBVIOUS
<1>9. ASSUME NEW i \in 1 .. c
      PROVE  KeysOfSection(sections[i]) \subseteq KeysIn(new, sections[i].name)
  <2>1. PICK h : SectionOf(text, sections[i], h)
    BY <1>8, GeneratedSectionsAre DEF Sections
  <2>2. KeysOfSection(sections[i]) = KeysIn(text, sections[i].name)
    BY <2>1, SectionSeen DEF Apart
  <2>3. h \in Headers(text) /\ sections[i].name = text[h].name
    BY <2>1 DEF SectionOf
  <2> QED BY <1>7, <2>2, <2>3
<1>10. Covers(new, text)
  BY <1>6, <1>8, <1>9, CoversIs
<1>11. ASSUME LinesEnded(text) PROVE LinesEnded(new)
  <2>1. ASSUME NEW i \in 1 .. Len(doc) - 1 PROVE doc[i].eol
    <3>1. CASE i <= n
      BY <1>4, <1>5, <3>1
    <3>2. CASE n < i
      <4>1. i - n \in 1 .. Len(text) - 1 /\ i - n \in 1 .. Len(text) /\ n + (i - n) = i
        BY <1>5, <3>2
      <4>2. doc[i] = text[i - n]
        BY <1>5, <4>1
      <4> QED BY <1>11, <4>1, <4>2 DEF LinesEnded
    <3> QED BY <1>5, <3>1, <3>2
  <2>2. LinesEnded(doc)
    BY <2>1 DEF LinesEnded
  <2> QED BY <1>6, <2>2 DEF Mended
<1>12. ASSUME HasError(text) PROVE HasError(new)
  <2>1. PICK i \in 1 .. Len(text) : text[i].kind = "text" /\ text[i].name = "ERROR"
    BY <1>12, TextIs DEF HasError
  <2>2. n + i \in 1 .. Len(doc) /\ doc[n + i] = text[i]
    BY <1>5
  <2>3. DOMAIN doc = 1 .. Len(doc)
    BY <1>5, TextIs
  <2>4. HasError(doc)
    BY <2>1, <2>2, <2>3 DEF HasError
  <2> QED BY <1>6, <2>4 DEF Mended
<1>13. new \in Texts
  BY <1>6 DEF Mended
<1> QED BY <1>10, <1>11, <1>12, <1>13

-----------------------------------------------------------------------------
(* The settings of a text, by section and key.                             *)

LEMMA ViewKeys ==
  ASSUME NEW doc \in Texts
  PROVE  /\ \A s \in View(doc) : s.key \in KeysIn(doc, s.section)
         /\ \A m : \A key \in KeysIn(doc, m) : \E s \in View(doc) : s.section = m /\ s.key = key
<1>1. ASSUME NEW s \in View(doc) PROVE s.key \in KeysIn(doc, s.section)
  <2>1. PICK m, i : i \in 1 .. Len(doc) /\ FirstOf(doc, m, i) /\ s = Setting(m, doc[i])
    BY ViewIs
  <2>2. s.section = m /\ s.key = doc[i].name /\ InSection(doc, m, i)
    BY <2>1 DEF Setting, FirstOf
  <2> QED BY <2>1, <2>2, KeysAre
<1>2. ASSUME NEW m, NEW key \in KeysIn(doc, m)
      PROVE  \E s \in View(doc) : s.section = m /\ s.key = key
  <2>1. PICK i \in 1 .. Len(doc) : FirstOf(doc, m, i) /\ doc[i].name = key
    BY FirstExists
  <2>2. Setting(m, doc[i]) \in View(doc)
    BY <2>1, ViewIs
  <2>3. Setting(m, doc[i]).section = m /\ Setting(m, doc[i]).key = key
    BY <2>1 DEF Setting
  <2> QED BY <2>2, <2>3
<1> QED BY <1>1, <1>2

(* A reader sees one value per section and key.                            *)
LEMMA ViewFunctional ==
  ASSUME NEW doc \in Texts, NEW s \in View(doc), NEW t \in View(doc),
         s.section = t.section, s.key = t.key
  PROVE  s = t
<1>1. PICK m, i : i \in 1 .. Len(doc) /\ FirstOf(doc, m, i) /\ s = Setting(m, doc[i])
  BY ViewIs
<1>2. PICK o, j : j \in 1 .. Len(doc) /\ FirstOf(doc, o, j) /\ t = Setting(o, doc[j])
  BY ViewIs
<1>3. m = o /\ doc[i].name = doc[j].name
  BY <1>1, <1>2 DEF Setting
<1>4. i = j
  BY <1>1, <1>2, <1>3, FirstIsOne
<1> QED BY <1>1, <1>2, <1>3, <1>4
=============================================================================
