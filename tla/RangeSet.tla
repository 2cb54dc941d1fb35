------------------------------ MODULE RangeSet ------------------------------
(***************************************************************************)
(* pe_image.RangeSet: a set of addresses kept as a list of half-open       *)
(* ranges.  contains and next_value rely on the list being sorted and its  *)
(* ranges disjoint; add is to keep it so and to merge ranges that touch.   *)
(***************************************************************************)
EXTENDS SequencesExt, Integers

HalfOpen(s, e) == [start |-> s, end |-> e]

(* contains: bisect_right finds the last range that starts at or before    *)
(* the value.                                                              *)
ContainsValue(ranges, value) ==
  LET before == {i \in DOMAIN ranges : ranges[i].start <= value}
  IN  before # {} /\ value < ranges[Max(before)].end

(* next_value: the loop stops at the first range that does not lie before  *)
(* the value.                                                              *)
NextValue(ranges, value) ==
  LET hits == {i \in DOMAIN ranges : value < ranges[i].start \/ value < ranges[i].end}
      first == ranges[Min(hits)]
  IN  IF hits = {} \/ value < first.start THEN value ELSE first.end

(* Fault: ranges that only touch are not merged.                           *)
AddRangeApart(ranges, s, e) ==
  IF e <= s THEN ranges
  ELSE SetToSortSeq(ToSet(ranges) \cup {HalfOpen(s, e)}, LAMBDA a, b : a.start < b.start)

(* add: one pass that copies the ranges apart from the new one, swallows   *)
(* those that overlap or touch it and inserts what has become of it.       *)
Absorb(acc, cur) ==
  CASE acc.new.end < cur.start ->
         [acc EXCEPT !.merged = @ \o (IF acc.inserted THEN <<cur>> ELSE <<acc.new, cur>>),
                     !.inserted = TRUE]
    [] acc.new.end >= cur.start /\ acc.new.start > cur.end ->
         [acc EXCEPT !.merged = Append(@, cur)]
    [] OTHER ->
         [acc EXCEPT !.new = HalfOpen(Min({@.start, cur.start}), Max({@.end, cur.end}))]

(* The accumulator behind the first n ranges, for every n, and the list.   *)
AddRange(ranges, s, e) ==
  LET pass[n \in 0 .. Len(ranges)] ==
        IF n = 0 THEN [new |-> HalfOpen(s, e), merged |-> <<>>, inserted |-> FALSE]
                 ELSE Absorb(pass[n - 1], ranges[n])
      last == pass[Len(ranges)]
  IN  CASE e <= s -> ranges
        [] e > s /\ last.inserted  -> last.merged
        [] e > s /\ ~last.inserted -> Append(last.merged, last.new)
=============================================================================
