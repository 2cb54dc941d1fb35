---------------------------- MODULE X86Discovery ----------------------------
(***************************************************************************)
(* NoSymbolFinder._discover_x86_symbols: from every function prologue in   *)
(* .text the code that conditional jumps reach is decoded block by block,  *)
(* and a marker string is attributed to the function in which its address  *)
(* turns up as an immediate.  A heap holds the blocks still to decode, a   *)
(* RangeSet the blocks decoded; the code then goes on behind the function. *)
(*                                                                         *)
(* An address is one instruction.  Whatever is recorded along with the     *)
(* function of the last marker (the address behind its reference, push or  *)
(* mov) is part of that reference.                                         *)
(***************************************************************************)
EXTENDS RangeSet

CONSTANTS Texts,      \* the code sections: sequences of instructions
          Markers,    \* the marker strings, six in the code; nothing refers to an absent one
          MaxPending  \* bound: how often an address waits in the heap

(* The instructions: mov edi,edi; push ebp; mov ebp,esp as one; the string *)
(* of a marker as an immediate; a conditional jump; ret or jmp; any other; *)
(* bytes that do not decode.                                               *)
Instructions(addresses) ==
  [kind: {"prologue", "end", "other", "bad"}] \cup
  [kind: {"string"}, of: Markers] \cup [kind: {"branch"}, to: addresses]

ASSUME PendingAssumption == MaxPending \in Nat \ {0}
ASSUME TextsAssumption ==
  \A t \in Texts : t \in Seq(Instructions(1 .. Len(t) + 1))

VARIABLES
  text,     \* the file: its code section
  ip,       \* the outer loop's address
  pc,       \* "text", "heap", "block" or "done"
  start,    \* function_start
  heap,     \* heap[a]: how often address a waits in the heap
  visited,  \* the RangeSet of this function
  addr,     \* where the block began
  current,  \* the address to decode next
  found,    \* found[m]: the function recorded for marker m, 0 if none
  covered   \* history: the addresses put into visited since it was cleared

vars == <<text, ip, pc, start, heap, visited, addr, current, found, covered>>

End     == Len(text) + 1       \* behind the section
Address == 1 .. End
Empty   == [a \in Address |-> 0]

Init ==
  /\ text \in Texts
  /\ ip = 1 /\ pc = "text" /\ start = 1 /\ addr = 1 /\ current = 1
  /\ heap = Empty
  /\ visited = <<>> /\ covered = {}
  /\ found = [m \in Markers |-> 0]

Visit(s, e) ==
  /\ visited' = AddRange(visited, s, e)
  /\ covered' = covered \cup s .. e - 1

-----------------------------------------------------------------------------
(* No function begins here.                                                *)
NoPrologue ==
  /\ pc = "text" /\ ip \in DOMAIN text /\ text[ip].kind # "prologue"
  /\ ip' = ip + 1
  /\ UNCHANGED <<text, pc, start, heap, visited, addr, current, found, covered>>

Prologue ==
  /\ pc = "text" /\ ip \in DOMAIN text /\ text[ip].kind = "prologue"
  /\ start' = ip
  /\ heap' = [heap EXCEPT ![ip] = @ + 1]
  /\ pc' = "heap"
  /\ UNCHANGED <<text, ip, visited, addr, current, found, covered>>

(* The end of the section: what has not been found stays 0.                *)
Finish ==
  /\ pc = "text" /\ ip = End
  /\ pc' = "done"
  /\ UNCHANGED <<text, ip, start, heap, visited, addr, current, found, covered>>

Pending == {a \in Address : heap[a] > 0}

(* heap.pop: the lowest address, decoded unless it has been before.        *)
Pop ==
  /\ pc = "heap"
  /\ \E least \in Pending :
       /\ \A a \in Pending : least <= a
       /\ heap' = [heap EXCEPT ![least] = @ - 1]
       /\ \/ ContainsValue(visited, least) /\ UNCHANGED <<pc, addr, current>>
          \/ /\ ~ContainsValue(visited, least)
             /\ pc' = "block" /\ addr' = least /\ current' = least
  /\ UNCHANGED <<text, ip, start, visited, found, covered>>

(* Fault: the ranges of one function are still there for the next.         *)
NextFunctionNoClear ==
  /\ pc = "heap" /\ Pending = {}
  /\ LET next == NextValue(visited, start)
     IN  ip' = IF next > start THEN next ELSE start + 1
  /\ pc' = "text"
  /\ UNCHANGED <<text, start, heap, visited, addr, current, found, covered>>

(* The function is done: go on behind the range it begins, or behind its   *)
(* first byte.                                                             *)
NextFunction ==
  /\ pc = "heap" /\ Pending = {}
  /\ LET next == NextValue(visited, start)
     IN  ip' = IF next > start THEN next ELSE start + 1
  /\ visited' = <<>> /\ covered' = {}
  /\ pc' = "text"
  /\ UNCHANGED <<text, start, heap, addr, current, found>>

Decoding == pc = "block" /\ current \in DOMAIN text
Now      == text[current]
Wanted   == Decoding /\ Now.kind = "string" /\ found[Now.of] = 0

(* Fault: the block is recorded instead of the function.                   *)
ReferenceOfBlock ==
  /\ Wanted
  /\ found' = [found EXCEPT ![Now.of] = addr]
  /\ IF visited = <<>> THEN Visit(addr, current + 1) ELSE UNCHANGED <<visited, covered>>
  /\ heap' = Empty
  /\ pc' = IF \A m \in Markers : found'[m] # 0 THEN "done" ELSE "heap"
  /\ current' = current + 1
  /\ UNCHANGED <<text, ip, start, addr>>

(* A marker not yet found: it is recorded, and the rest of this function,  *)
(* blocks in the heap included, is given up.                               *)
Reference ==
  /\ Wanted
  /\ found' = [found EXCEPT ![Now.of] = start]
  /\ IF visited = <<>> THEN Visit(addr, current + 1) ELSE UNCHANGED <<visited, covered>>
  /\ heap' = Empty
  /\ pc' = IF \A m \in Markers : found'[m] # 0 THEN "done" ELSE "heap"
  /\ current' = current + 1
  /\ UNCHANGED <<text, ip, start, addr>>

(* Fault: only forward jumps are followed.                                 *)
BranchForward ==
  /\ Decoding /\ Now.kind = "branch"
  /\ \/ /\ Now.to > current + 1 /\ ~ContainsValue(visited, Now.to)
        /\ heap[Now.to] < MaxPending
        /\ heap' = [heap EXCEPT ![Now.to] = @ + 1]
     \/ /\ Now.to <= current + 1 \/ ContainsValue(visited, Now.to)
        /\ UNCHANGED heap
  /\ current' = current + 1
  /\ UNCHANGED <<text, ip, pc, start, visited, addr, found, covered>>

(* A conditional jump out of the block so far: its target is to be decoded.*)
Branch ==
  /\ Decoding /\ Now.kind = "branch"
  /\ \/ /\ (Now.to < addr \/ Now.to > current + 1) /\ ~ContainsValue(visited, Now.to)
        /\ heap[Now.to] < MaxPending
        /\ heap' = [heap EXCEPT ![Now.to] = @ + 1]
     \/ /\ Now.to \in addr .. current + 1 \/ ContainsValue(visited, Now.to)
        /\ UNCHANGED heap
  /\ current' = current + 1
  /\ UNCHANGED <<text, ip, pc, start, visited, addr, found, covered>>

(* Fault: the block is not marked.                                         *)
EndBlockUnmarked ==
  /\ Decoding /\ Now.kind = "end"
  /\ pc' = "heap" /\ current' = current + 1
  /\ UNCHANGED <<text, ip, start, heap, visited, addr, found, covered>>

(* ret or jmp ends the block, which counts as visited.                     *)
EndBlock ==
  /\ Decoding /\ Now.kind = "end"
  /\ Visit(addr, current + 1)
  /\ pc' = "heap" /\ current' = current + 1
  /\ UNCHANGED <<text, ip, start, heap, addr, found>>

(* Bytes that do not decode, and the section's end: it does NOT.           *)
LeaveBlock ==
  /\ pc = "block" /\ (current \in DOMAIN text => Now.kind = "bad")
  /\ pc' = "heap"
  /\ UNCHANGED <<text, ip, start, heap, visited, addr, current, found, covered>>

PassOver ==
  /\ Decoding /\ ~Wanted /\ Now.kind \in {"prologue", "other", "string"}
  /\ current' = current + 1
  /\ UNCHANGED <<text, ip, pc, start, heap, visited, addr, found, covered>>

Next ==
  \/ NoPrologue \/ Prologue \/ Finish \/ Pop \/ NextFunction
  \/ Reference \/ Branch \/ EndBlock \/ LeaveBlock \/ PassOver

Spec     == Init /\ [][Next]_vars
FairSpec == Spec /\ WF_vars(Next)
-----------------------------------------------------------------------------
(* Every address the scan holds lies in the section or just behind it, and *)
(* the heap is empty between two functions.                                *)
TypeOK ==
  /\ ip \in Address /\ start \in Address /\ addr \in Address /\ current \in Address
  /\ pc \in {"text", "heap", "block", "done"}
  /\ heap \in [Address -> 0 .. MaxPending]
  /\ pc = "text" => heap = Empty /\ visited = <<>>
  /\ found \in [Markers -> 0 .. Len(text)]
  /\ covered \subseteq Address

(* The addresses decoding goes on to from address i.                       *)
Onward(i) ==
  IF i \notin DOMAIN text THEN {}
  ELSE CASE text[i].kind \in {"end", "bad"} -> {}
         [] text[i].kind = "branch" -> {i + 1, text[i].to}
         [] OTHER -> {i + 1}

(* From address f one comes to address i: i is in every set that holds f   *)
(* and all that decoding goes on to from its members.                      *)
Reaches(f, i) ==
  \A S \in SUBSET Address : (f \in S /\ \A j \in S : Onward(j) \subseteq S) => i \in S
RefersTo(f, m) ==
  \E i \in DOMAIN text : text[i].kind = "string" /\ text[i].of = m /\ Reaches(f, i)
Functions == {f \in DOMAIN text : text[f].kind = "prologue"}

(* A marker is attributed to a function whose own code - its first block   *)
(* and what conditional jumps lead to - refers to it, not to one that only *)
(* lies before the reference.                                              *)
FoundIsReached ==
  \A m \in Markers : found[m] # 0 => found[m] \in Functions /\ RefersTo(found[m], m)

(* No function is skipped: when the scan is over every function that is not*)
(* part of another has given a marker, or functions before it have given   *)
(* all the markers it refers to.  (It may refer to two that are missing and*)
(* give one: its first match ends its scan.)                               *)
Gave(f)   == \E m \in Markers : found[m] = f
Passed(f) == \A m \in Markers : RefersTo(f, m) => found[m] \in 1 .. f - 1
EachFunctionGivesOne ==
  pc = "done" =>
    \A f \in Functions :
      (\A g \in Functions \ {f} : ~Reaches(g, f)) => Gave(f) \/ Passed(f)

(* The RangeSet is the set of the addresses added: contains answers for    *)
(* every address, and next_value gives the first address from there on that*)
(* has not been added.                                                     *)
RangesAreTheSet ==
  \A a \in Address :
    /\ ContainsValue(visited, a) <=> a \in covered
    /\ NextValue(visited, a) = Min({b \in a .. End + 1 : b \notin covered})

(* A block from a that ends without being marked as visited, and the jumps *)
(* that lead out of it.                                                    *)
BlockEnd(a) == Min({End} \cup {i \in DOMAIN text : i >= a /\ text[i].kind \in {"end", "bad"}})
IsOpen(a)   == BlockEnd(a) = End \/ text[BlockEnd(a)].kind = "bad"
JumpsOf(a)  ==
  {text[i].to : i \in {j \in a .. BlockEnd(a) - 1 :
     text[j].kind = "branch" /\ (text[j].to < a \/ text[j].to > j + 1)}}
OpenLoop ==
  LET open  == {a \in Address : IsOpen(a)}
      jumps == [a \in open |-> JumpsOf(a)]
  IN  \E S \in SUBSET open : S # {} /\ \A a \in S : jumps[a] \cap S # {}

(* Liveness: the discovery ends unless blocks that run into undecodable    *)
(* bytes jump to each other in a circle.  (Such blocks are never marked as *)
(* visited and put each other into the heap again and again.)              *)
Ends == ~OpenLoop => <>(pc = "done")
=============================================================================
