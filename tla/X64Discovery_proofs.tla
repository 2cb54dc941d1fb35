------------------------ MODULE X64Discovery_proofs ------------------------
(***************************************************************************)
(* For every size of table and every number of markers: the single pass of *)
(* X64Discovery records exactly what a pass in the order of the elif chain *)
(* can record.                                                             *)
(***************************************************************************)
EXTENDS X64Discovery, TLAPS

(* Present markers up to m, and the entries scanned so far.                *)
UpTo(m)  == present \cap 1..m
Scanned  == 1..(at - 1)
FoundSet == {m \in Marker : found[m] # 0}

(* NothingInOrderIsMissed, kept through the states inside a backtrace too. *)
Complete ==
  \A m \in present : (\E c \in [UpTo(m) -> Scanned] : Ascends(UpTo(m), c)) => found[m] # 0

(* The markers found are a prefix of the present ones.                     *)
Prefix == \A m \in Marker, n \in present : found[m] # 0 /\ n < m => found[n] # 0

(* The scan stays in the table; a backtrace started at an entry that refers*)
(* to the wanted marker and has followed parents only.                     *)
InTable ==
  /\ at <= size + 1
  /\ pc = "backtrace" =>
       /\ at <= size /\ hop \in Entry /\ LeadsTo(at, hop)
       /\ \E m \in Marker : Wanted(m) /\ m \in refs[at]

Sound ==
  /\ \A m \in Marker : found[m] # 0 => m \in present /\ parent[found[m]] = Primary
  /\ \E c \in [FoundSet -> Scanned] :
       Ascends(FoundSet, c) /\ \A m \in FoundSet : LeadsTo(c[m], found[m])

IInv == TypeOK /\ InTable /\ Complete /\ Prefix /\ Sound

USE EntriesAssumption, MarkersAssumption DEF Entry, Marker

(* There is at most one wanted marker.                                     *)
LEMMA OneWanted == ASSUME NEW m \in Marker, NEW n \in Marker, Wanted(m), Wanted(n)
                   PROVE  m = n
BY DEF Wanted, Missing

(* An ascending run that reaches a marker not found yet ends at the current*)
(* entry, and that marker is the wanted one.                               *)
LEMMA RunEndsHere ==
  ASSUME TypeOK, Complete,
         NEW m \in present, found[m] = 0,
         NEW c \in [UpTo(m) -> 1..at], Ascends(UpTo(m), c)
  PROVE  Wanted(m) /\ m \in refs[at]
<1> USE DEF UpTo
<1>1. m \in Marker /\ m \in UpTo(m)
  BY DEF TypeOK
<1>2. at \in Nat /\ c[m] \in 1..at
  BY <1>1 DEF TypeOK
<1>3. \A x \in UpTo(m) : x \in Nat /\ c[x] \in 1..at /\ (x < m => c[x] < c[m])
  BY <1>1 DEF Ascends
<1>4. c[m] = at
  <2> SUFFICES ASSUME c[m] # at PROVE FALSE
    OBVIOUS
  <2>1. \A x \in UpTo(m) : c[x] \in 1..(at - 1)
    BY <1>1, <1>2, <1>3
  <2>2. c \in [UpTo(m) -> Scanned]
    BY <2>1 DEF Scanned
  <2> QED BY <2>2 DEF Complete
<1>5. ASSUME NEW n \in present, n < m PROVE found[n] # 0
  <2> DEFINE d == [x \in UpTo(n) |-> c[x]]
  <2>1. n \in Marker /\ UpTo(n) \subseteq UpTo(m) /\ \A x \in UpTo(n) : x < m
    BY <1>1, <1>5 DEF TypeOK
  <2>2. \A x \in UpTo(n) : c[x] \in 1..(at - 1)
    BY <2>1, <1>2, <1>3, <1>4
  <2>3. d \in [UpTo(n) -> Scanned]
    BY <2>2 DEF Scanned
  <2>4. Ascends(UpTo(n), d)
    BY <2>1 DEF Ascends
  <2> QED BY <2>3, <2>4 DEF Complete
<1> QED
  BY <1>1, <1>4, <1>5 DEF Ascends, Wanted, Missing, TypeOK

(* The initial states: nothing is scanned, nothing found.                  *)
LEMMA InitIInv == Init => IInv
<1> SUFFICES ASSUME Init PROVE IInv
  OBVIOUS
<1>1. TypeOK
  <2>1. refs \in [Entry -> SUBSET Marker]
    BY DEF Init
  <2>2. size \in 0..MaxEntries /\ parent \in [Entry -> 0..Unreadable] /\ present \in SUBSET Marker
    BY DEF Init
  <2>3. at \in 1..(MaxEntries + 1) /\ hop \in Entry \cup {1}
    BY DEF Init
  <2>4. found \in [Marker -> 0..MaxEntries]
    BY DEF Init
  <2> QED BY <2>1, <2>2, <2>3, <2>4 DEF Init, TypeOK
<1>2. InTable
  BY DEF Init, InTable
<1>3. Complete
  <2> SUFFICES ASSUME NEW m \in present, NEW c \in [UpTo(m) -> Scanned] PROVE FALSE
    BY DEF Complete
  <2>1. m \in UpTo(m) /\ Scanned = {}
    BY DEF Init, UpTo, Scanned
  <2> QED BY <2>1
<1>4. Prefix
  BY DEF Init, Prefix
<1>5. Sound
  <2>1. FoundSet = {}
    BY DEF Init, FoundSet
  <2>2. [m \in FoundSet |-> 1] \in [FoundSet -> Scanned]
    BY <2>1
  <2> QED BY <2>1, <2>2 DEF Sound, Ascends, Init
<1> QED BY <1>1, <1>2, <1>3, <1>4, <1>5 DEF IInv

(* Every step keeps the types.                                             *)
LEMMA NextTypes == ASSUME IInv, [Next]_vars PROVE TypeOK'
<1> USE DEF IInv, TypeOK, vars, file
<1>1. CASE Begin BY <1>1 DEF Begin
<1>2. CASE Pass BY <1>2 DEF Pass, InTable
<1>3. CASE Match BY <1>3 DEF Match
<1>4. CASE Follow BY <1>4 DEF Follow
<1>5. CASE BrokenChain BY <1>5 DEF BrokenChain
<1>6. CASE Record
  <2>1. at' \in 1..(MaxEntries + 1)
    BY <1>6 DEF Record, InTable
  <2>2. found' \in [Marker -> 0..MaxEntries]
    BY <1>6 DEF Record, InTable
  <2> QED BY <1>6, <2>1, <2>2 DEF Record
<1>7. CASE Finish BY <1>7 DEF Finish
<1>8. CASE UNCHANGED vars BY <1>8
<1> QED BY <1>1, <1>2, <1>3, <1>4, <1>5, <1>6, <1>7, <1>8 DEF Next

(* Every step keeps the scan in the table and the walk on the parents.     *)
LEMMA NextInTable == ASSUME IInv, [Next]_vars PROVE InTable'
<1> USE DEF IInv, TypeOK, InTable, vars, file
<1>1. CASE Begin BY <1>1 DEF Begin
<1>2. CASE Pass BY <1>2 DEF Pass
<1>3. CASE Match
  <2>1. LeadsTo(at, at)'
    BY <1>3 DEF Match, LeadsTo
  <2>2. (\E m \in Marker : Wanted(m) /\ m \in refs[at])'
    BY <1>3 DEF Match, Wanted, Missing
  <2>3. at \in Entry
    BY <1>3 DEF Match
  <2> QED BY <1>3, <2>1, <2>2, <2>3 DEF Match, LeadsTo
<1>4. CASE Follow
  <2>1. LeadsTo(at, hop)
    BY <1>4 DEF Follow
  <2>2. LeadsTo(at, parent[hop])
    BY <2>1, <1>4 DEF Follow, LeadsTo
  <2>3. LeadsTo(at, hop)'
    BY <2>2, <1>4 DEF Follow, LeadsTo
  <2>4. (\E m \in Marker : Wanted(m) /\ m \in refs[at])'
    BY <1>4 DEF Follow, Wanted, Missing
  <2> QED BY <1>4, <2>3, <2>4 DEF Follow
<1>5. CASE BrokenChain BY <1>5 DEF BrokenChain
<1>6. CASE Record BY <1>6 DEF Record
<1>7. CASE Finish BY <1>7 DEF Finish
<1>8. CASE UNCHANGED vars
  <2>1. pc = "backtrace" => (\E m \in Marker : Wanted(m) /\ m \in refs[at])'
    BY <1>8 DEF Wanted, Missing
  <2> QED BY <1>8, <2>1 DEF LeadsTo
<1> QED BY <1>1, <1>2, <1>3, <1>4, <1>5, <1>6, <1>7, <1>8 DEF Next

(* Steps that scan nothing and record nothing keep Complete, Prefix, Sound.*)
LEMMA NothingScanned ==
  ASSUME IInv, UNCHANGED <<file, at, found>> PROVE Complete' /\ Prefix' /\ Sound'
<1>1. Complete'
  BY DEF IInv, Complete, UpTo, Scanned, Ascends, file
<1>2. Prefix'
  BY DEF IInv, Prefix, file
<1>3. Sound'
  <2>1. PICK c \in [FoundSet -> Scanned] :
          Ascends(FoundSet, c) /\ \A m \in FoundSet : LeadsTo(c[m], found[m])
    BY DEF IInv, Sound
  <2>2. FoundSet' = FoundSet /\ Scanned' = Scanned
    BY DEF FoundSet, Scanned
  <2>3. Ascends(FoundSet, c)' /\ \A m \in FoundSet : LeadsTo(c[m], found[m])'
    BY <2>1, <2>2 DEF Ascends, LeadsTo, file
  <2> QED BY <2>2, <2>3 DEF IInv, Sound, file
<1> QED BY <1>1, <1>2, <1>3

(* Passing an entry loses nothing: it does not refer to the wanted marker. *)
LEMMA PassKeeps == ASSUME IInv, Pass PROVE Complete' /\ Prefix' /\ Sound'
<1> USE DEF IInv, Pass, file
<1>0. at \in Nat /\ at >= 1 /\ Scanned' = 1..at /\ Scanned \subseteq 1..at
  BY DEF TypeOK, Scanned
<1>1. Complete'
  <2> SUFFICES ASSUME NEW m \in present, NEW c \in [UpTo(m) -> 1..at],
                      Ascends(UpTo(m), c), found[m] = 0
               PROVE  FALSE
    BY <1>0 DEF Complete, UpTo, Ascends
  <2>1. Wanted(m) /\ m \in refs[at]
    BY RunEndsHere
  <2> QED BY <2>1 DEF TypeOK
<1>2. Prefix'
  BY DEF Prefix
<1>3. Sound'
  <2>1. PICK c \in [FoundSet -> Scanned] :
          Ascends(FoundSet, c) /\ \A m \in FoundSet : LeadsTo(c[m], found[m])
    BY DEF Sound
  <2>2. FoundSet' = FoundSet /\ c \in [FoundSet -> 1..at]
    BY <1>0 DEF FoundSet
  <2>3. Ascends(FoundSet, c)' /\ \A m \in FoundSet : LeadsTo(c[m], found[m])'
    BY <2>1, <2>2 DEF Ascends, LeadsTo
  <2> QED BY <1>0, <2>2, <2>3 DEF Sound
<1> QED BY <1>1, <1>2, <1>3

(* Recording the wanted marker extends the run found so far by this entry. *)
LEMMA RecordKeeps == ASSUME IInv, Record PROVE Complete' /\ Prefix' /\ Sound'
<1> USE DEF IInv, file
<1>0. PICK w \in Marker : Wanted(w) /\ found' = [found EXCEPT ![w] = hop]
  BY DEF Record
<1>1. /\ at \in Nat /\ at >= 1 /\ at' = at + 1
      /\ Scanned' = 1..at /\ Scanned \subseteq 1..at /\ at \notin Scanned
      /\ hop \in Entry /\ LeadsTo(at, hop) /\ parent[hop] = Primary
      /\ UNCHANGED <<size, refs, parent, present>>
  BY DEF Record, TypeOK, Scanned, InTable
<1>2. /\ found'[w] = hop /\ hop # 0 /\ found[w] = 0 /\ w \in present
      /\ \A m \in Marker : m # w => found'[m] = found[m]
  BY <1>0, <1>1 DEF TypeOK, Wanted, Missing
<1>3. Complete'
  <2> SUFFICES ASSUME NEW m \in present, NEW c \in [UpTo(m) -> 1..at],
                      Ascends(UpTo(m), c), found'[m] = 0
               PROVE  FALSE
    BY <1>1 DEF Complete, UpTo, Ascends
  <2>1. m \in Marker /\ m # w /\ found[m] = 0
    BY <1>2 DEF TypeOK
  <2>2. Wanted(m)
    BY <2>1, RunEndsHere
  <2> QED BY <2>1, <2>2, <1>0, OneWanted
<1>4. Prefix'
  <2> SUFFICES ASSUME NEW m \in Marker, NEW n \in present, found'[m] # 0, n < m,
                      found'[n] = 0
               PROVE  FALSE
    BY <1>1 DEF Prefix
  <2>1. n \in Marker /\ n # w /\ found[n] = 0
    BY <1>2 DEF TypeOK
  <2>2. CASE m = w
    BY <2>1, <2>2, <1>0 DEF Wanted, Missing
  <2>3. CASE m # w
    BY <2>1, <2>3, <1>2 DEF Prefix
  <2> QED BY <2>2, <2>3
<1>5. Sound'
  <2>1. PICK c \in [FoundSet -> Scanned] :
          Ascends(FoundSet, c) /\ \A m \in FoundSet : LeadsTo(c[m], found[m])
    BY DEF Sound
  <2>2. FoundSet' = FoundSet \cup {w} /\ w \notin FoundSet
    BY <1>2 DEF FoundSet
  <2>3. PICK d \in [FoundSet' -> Scanned'] :
          \A m \in FoundSet' : d[m] = IF m = w THEN at ELSE c[m]
    <3> DEFINE e == [m \in FoundSet \cup {w} |-> IF m = w THEN at ELSE c[m]]
    <3>1. \A m \in FoundSet : c[m] \in 1..at
      BY <2>1, <1>1
    <3>2. at \in 1..at
      BY <1>1
    <3>3. e \in [FoundSet \cup {w} -> 1..at]
      BY <3>1, <3>2, <2>2
    <3> QED BY <3>3, <2>2, <1>1
  <2>4. \A m \in FoundSet : d[m] = c[m] /\ m < w /\ d[m] \in Scanned
    <3>1. \A m \in FoundSet : m # w /\ ~(w < m)
      BY <2>2, <1>2 DEF Prefix, FoundSet
    <3> QED BY <3>1, <2>2, <2>3 DEF FoundSet
  <2>5. d[w] = at /\ w \in refs[at]
    <3>1. \E m \in Marker : Wanted(m) /\ m \in refs[at]
      BY DEF Record, InTable
    <3> QED BY <3>1, <1>0, <2>2, <2>3, OneWanted
  <2>6. \A m \in FoundSet : d[m] < at
    BY <2>4, <1>1 DEF Scanned
  <2>7. Ascends(FoundSet, d)' 
    <3>1. ASSUME NEW m \in FoundSet' PROVE m \in refs'[d[m]]
      BY <3>1, <2>1, <2>2, <2>4, <2>5, <1>1 DEF Ascends
    <3>2. ASSUME NEW m \in FoundSet', NEW n \in FoundSet', m < n PROVE d[m] < d[n]
      <4>1. m \in FoundSet
        <5>1. CASE n = w BY <3>2, <2>2, <5>1 DEF FoundSet
        <5>2. CASE n # w BY <3>2, <2>2, <2>4, <5>2 DEF FoundSet
        <5> QED BY <5>1, <5>2
      <4>2. CASE n = w BY <4>1, <4>2, <2>5, <2>6
      <4>3. CASE n # w BY <4>1, <4>3, <3>2, <2>1, <2>2, <2>4 DEF Ascends
      <4> QED BY <4>2, <4>3
    <3> QED BY <3>1, <3>2 DEF Ascends
  <2>8. ASSUME NEW m \in FoundSet' PROVE LeadsTo(d[m], found[m])'
    <3>1. CASE m = w BY <3>1, <2>5, <1>1, <1>2 DEF LeadsTo
    <3>2. CASE m # w
      <4>1. m \in FoundSet /\ d[m] = c[m] /\ found'[m] = found[m]
        BY <3>2, <2>2, <2>4, <1>2 DEF FoundSet
      <4> QED BY <4>1, <2>1, <1>1 DEF LeadsTo
    <3> QED BY <3>1, <3>2
  <2>9. \A m \in Marker : found'[m] # 0 => m \in present /\ parent[found'[m]] = Primary
    BY <1>1, <1>2 DEF Sound
  <2> QED BY <2>3, <2>7, <2>8, <2>9, <1>1 DEF Sound
<1> QED BY <1>3, <1>4, <1>5

(* Every step keeps the inductive invariant.                               *)
LEMMA NextIInv == IInv /\ [Next]_vars => IInv'
<1> SUFFICES ASSUME IInv, [Next]_vars PROVE IInv'
  OBVIOUS
<1>1. TypeOK' /\ InTable'
  BY NextTypes, NextInTable
<1>2. Complete' /\ Prefix' /\ Sound'
  <2>1. CASE Pass BY <2>1, PassKeeps
  <2>2. CASE Record BY <2>2, RecordKeeps
  <2>3. CASE Begin \/ Match \/ Follow \/ BrokenChain \/ Finish \/ UNCHANGED vars
    BY <2>3, NothingScanned DEF Begin, Match, Follow, BrokenChain, Finish, vars
  <2> QED BY <2>1, <2>2, <2>3 DEF Next
<1> QED BY <1>1, <1>2 DEF IInv

(* The inductive invariant holds in every reachable state.                 *)
LEMMA IInvHolds == Spec => []IInv
BY InitIInv, NextIInv, PTL DEF Spec

(* TypeOK: the scan index never leaves the table.                          *)
THEOREM TypeCorrect == Spec => []TypeOK
<1>1. IInv => TypeOK
  BY DEF IInv
<1> QED BY <1>1, IInvHolds, PTL

(* NothingInOrderIsMissed, for every table: the greedy pass of             *)
(* _discover_x64_symbols finds a marker whenever entries in ascending order*)
(* refer to the present markers up to it.                                  *)
THEOREM NothingInOrderIsMissedHolds == Spec => []NothingInOrderIsMissed
<1>1. IInv => NothingInOrderIsMissed
  BY DEF IInv, Complete, NothingInOrderIsMissed, UpTo, Scanned
<1> QED BY <1>1, IInvHolds, PTL

(* FoundIsReferenced, for every table: what is recorded was referred to, in*)
(* ascending order, and is the primary entry its unwind chain leads to.    *)
THEOREM FoundIsReferencedHolds == Spec => []FoundIsReferenced
<1>1. IInv => FoundIsReferenced
  BY DEF IInv, Sound, FoundIsReferenced, FoundSet, Scanned
<1> QED BY <1>1, IInvHolds, PTL
=============================================================================
