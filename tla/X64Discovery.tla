---------------------------- MODULE X64Discovery ----------------------------
(***************************************************************************)
(* NoSymbolFinder._discover_x64_symbols: one pass over the runtime function*)
(* table of an x64 termsrv.dll that attributes each marker string to the   *)
(* first function whose code takes the string's address.  Only ONE marker  *)
(* is looked for at each entry, the first of the elif chain that is still  *)
(* missing, so a marker that comes up too early is passed over.  Matching  *)
(* entries are walked back to their primary function along the unwind data.*)
(* Entries are numbered in table order, markers in the order of the chain. *)
(***************************************************************************)
EXTENDS Naturals, FiniteSets

CONSTANTS MaxEntries,  \* bound: entries of a runtime function table
          Markers,     \* marker strings 1..Markers; the code has six
          PerUser      \* the marker "IsSingleSessionPerUser"

ASSUME EntriesAssumption == MaxEntries \in Nat
ASSUME MarkersAssumption == Markers \in Nat /\ PerUser \in 1..Markers

Entry  == 1..MaxEntries
Marker == 1..Markers

(* The parents an entry's unwind data may name: another entry, or          *)
Primary    == 0               \* no chained unwind info: a function's own entry
Unreadable == MaxEntries + 1  \* an RVA read_rva cannot read in full

VARIABLES
  size,    \* the file: entries in its runtime function table
  refs,    \* the file: refs[i], the markers some LEA of entry i refers to
  parent,  \* the file: parent[i], where the unwind data of entry i lead
  present, \* the file: the marker strings find_ascii and find_utf16 found
  pc,      \* "start", "scan", "backtrace", "done" or "raised"
  at,      \* the entry runtime_function ranges over
  hop,     \* _backtrace's current entry
  found    \* found[m]: the primary entry recorded for marker m, 0 if none

file == <<size, refs, parent, present>>
vars == <<file, pc, at, hop, found>>

Init ==
  /\ size \in 0..MaxEntries
  /\ present \in SUBSET Marker
  /\ refs \in [Entry -> SUBSET present]
  /\ \A i \in Entry : i > size => refs[i] = {}  \* reached by unwind data only
  /\ parent \in [Entry -> 0..Unreadable]
  /\ pc = "start" /\ at = 1 /\ hop = 1
  /\ found = [m \in Marker |-> 0]

(* Fault: the chain forgets to skip a string that is not in the file.      *)
WantedAbsent(m) == m \in Marker /\ found[m] = 0 /\ \A n \in Marker : found[n] = 0 => m <= n

(* The markers the elif chain still asks for, and the one it tries next.   *)
Missing == {m \in present : found[m] = 0}
Wanted(m) == m \in Missing /\ \A n \in Missing : m <= n

(* _discover_symbols: without the IsSingleSessionPerUser string, or without*)
(* a runtime function table, the finder raises.                            *)
Begin ==
  /\ pc = "start"
  /\ pc' = IF PerUser \in present /\ size > 0 THEN "scan" ELSE "raised"
  /\ UNCHANGED <<file, at, hop, found>>

(* search_xref finds no reference to the wanted marker in this entry, or   *)
(* every marker that is present has been found.                            *)
Pass ==
  /\ pc = "scan" /\ at <= size
  /\ \A m \in Marker : Wanted(m) => m \notin refs[at]
  /\ at' = at + 1
  /\ UNCHANGED <<file, pc, hop, found>>

(* search_xref finds one: _backtrace starts at this entry.                 *)
Match ==
  /\ pc = "scan" /\ at <= size
  /\ \E m \in Marker : Wanted(m) /\ m \in refs[at]
  /\ pc' = "backtrace" /\ hop' = at
  /\ UNCHANGED <<file, at, found>>

(* Fault: the walk reads the same unwind info again.                       *)
FollowNowhere ==
  /\ pc = "backtrace" /\ parent[hop] \in Entry
  /\ UNCHANGED vars

(* UNW_FLAG_CHAININFO, or an indirect first entry: on to the parent.       *)
Follow ==
  /\ pc = "backtrace" /\ parent[hop] \in Entry
  /\ hop' = parent[hop]
  /\ UNCHANGED <<file, pc, at, found>>

(* The unwind info or the chained entry cannot be read: PEFormatError.     *)
BrokenChain ==
  /\ pc = "backtrace" /\ parent[hop] = Unreadable
  /\ pc' = "raised"
  /\ UNCHANGED <<file, at, hop, found>>

(* Faults: the matching entry is recorded, not its primary one; the entry  *)
(* after a match is not looked at.                                         *)
RecordFragment ==
  /\ pc = "backtrace" /\ parent[hop] = Primary
  /\ \E m \in Marker : Wanted(m) /\ found' = [found EXCEPT ![m] = at]
  /\ pc' = IF \A m \in Marker : found'[m] # 0 THEN "done" ELSE "scan"
  /\ at' = at + 1
  /\ UNCHANGED <<file, hop>>
RecordAndSkip ==
  /\ pc = "backtrace" /\ parent[hop] = Primary
  /\ \E m \in Marker : Wanted(m) /\ found' = [found EXCEPT ![m] = hop]
  /\ pc' = IF \A m \in Marker : found'[m] # 0 THEN "done" ELSE "scan"
  /\ at' = at + 2
  /\ UNCHANGED <<file, hop>>

(* A primary entry: its begin is recorded; the scan stops early once all   *)
(* six are known.                                                          *)
Record ==
  /\ pc = "backtrace" /\ parent[hop] = Primary
  /\ \E m \in Marker : Wanted(m) /\ found' = [found EXCEPT ![m] = hop]
  /\ pc' = IF \A m \in Marker : found'[m] # 0 THEN "done" ELSE "scan"
  /\ at' = at + 1
  /\ UNCHANGED <<file, hop>>

(* The end of the table.                                                   *)
Finish ==
  /\ pc = "scan" /\ at > size
  /\ pc' = "done"
  /\ UNCHANGED <<file, at, hop, found>>

Next == Begin \/ Pass \/ Match \/ Follow \/ BrokenChain \/ Record \/ Finish

Spec     == Init /\ [][Next]_vars
FairSpec == Spec /\ WF_vars(Next)
-----------------------------------------------------------------------------
(* The scan stays inside the table, asks for one of the markers or for none*)
(* and records entries of the table only.                                  *)
TypeOK ==
  /\ size \in 0..MaxEntries
  /\ refs \in [Entry -> SUBSET Marker]
  /\ parent \in [Entry -> 0..Unreadable]
  /\ present \in SUBSET Marker
  /\ pc \in {"start", "scan", "backtrace", "done", "raised"}
  /\ at \in 1..(MaxEntries + 1)
  /\ hop \in Entry \cup {1}
  /\ found \in [Marker -> 0..MaxEntries]

(* c runs up the table, one entry for each marker of D in the chain's order*)
Ascends(D, c) ==
  /\ \A m \in D : m \in refs[c[m]]
  /\ \A m, n \in D : m < n => c[m] < c[n]

(* Walking up from i can lead to r: r is in every set that holds i and the *)
(* parents of its members.                                                 *)
LeadsTo(i, r) ==
  \A S \in SUBSET Entry :
    (i \in S /\ \A j \in S : parent[j] \in Entry => parent[j] \in S) => r \in S

(* Completeness: if entries already scanned refer to the present markers up*)
(* to m in the chain's order, m has been found.  The single pass, greedy as*)
(* it is, loses nothing that some pass in this order could find, and a     *)
(* string that is missing from the file does not stop the others.          *)
NothingInOrderIsMissed ==
  pc \in {"scan", "done"} =>
    \A m \in present :
      (\E c \in [present \cap 1..m -> 1..(at - 1)] : Ascends(present \cap 1..m, c))
        => found[m] # 0

(* Soundness: what has been found came from distinct entries in ascending  *)
(* order, each of which refers to its marker; what is recorded is the      *)
(* primary entry its unwind chain leads to, never a fragment.              *)
FoundIsReferenced ==
  /\ \A m \in Marker : found[m] # 0 => m \in present /\ parent[found[m]] = Primary
  /\ LET D == {m \in Marker : found[m] # 0}
     IN  \E c \in [D -> 1..(at - 1)] :
           Ascends(D, c) /\ \A m \in D : LeadsTo(c[m], found[m])

(* Liveness: on unwind data without a cycle the discovery ends.  (On a     *)
(* cycle _backtrace walks round it for ever.)                              *)
Acyclic ==
  \A S \in SUBSET Entry : S # {} => \E i \in S : parent[i] \notin S
Ends == Acyclic => <>(pc \in {"done", "raised"})
=============================================================================
