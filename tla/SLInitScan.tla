----------------------------- MODULE SLInitScan -----------------------------
(***************************************************************************)
(* NoSymbolFinder._discover_slinit_variables: CSLQuery::Initialize asks for*)
(* one licensing policy after the other, by the name in a string, and      *)
(* stores each answer in a global.  The scan reads its instructions and    *)
(* takes the first store behind a policy's string for the policy's global. *)
(* There are three variants: x86, x64 for a long function, and x64 for a   *)
(* short one, whose body is reached through jmp instructions and followed. *)
(***************************************************************************)
EXTENDS Naturals, Sequences, FiniteSetsExt

CONSTANTS Length,   \* bound: instructions of the function
          Policies, \* the variables whose policy string is in .rdata
          MaxSteps  \* bound: instructions scanned, where a jmp leads back

ASSUME LengthAssumption == Length \in Nat \ {0} /\ MaxSteps \in Nat
ASSUME PoliciesAssumption == {"bServerSku", "bInitialized"} \cap Policies = {}

Names    == Policies \cup {"bServerSku", "bInitialized"}
Variants == {"x86", "x64_long", "x64_short"}

(* What the scan tells apart: a store of a result register (eax; also ecx, *)
(* edi, esi in some variants) or of another one to an absolute or a        *)
(* rip-relative address, a store of the constant 1, a reference to a string*)
(* of a policy in the variant's form, ret, jmp, bytes that do not decode.  *)
Inside == 1 .. Length
Plain  == [kind: {"store", "store_other", "one", "ret", "other", "bad"}]
Code   == Plain \cup [kind: {"string"}, of: Policies] \cup [kind: {"jmp"}, to: 1 .. Length + 1]

VARIABLES
  variant,    \* the file: which of the three scans applies
  code,       \* the file: the instructions up to the end of the window
  ip,         \* the instruction the scan is at
  current,    \* the variable whose string came last
  variables,  \* variables[n]: the instruction that stores n, 0 for none
  trace,      \* history: the instructions scanned, in order
  pc          \* "scan" or "done"

file == <<variant, code>>
vars == <<file, ip, current, variables, trace, pc>>

(* Only the short variant tells ret and jmp from other instructions.  Its  *)
(* window has no lower end: code before the function is followed too.      *)
Init ==
  /\ variant \in Variants
  /\ code \in [Inside -> Code]
  /\ variant # "x64_short" => \A i \in Inside : code[i].kind \notin {"jmp", "ret"}
  /\ ip \in IF variant = "x64_short" THEN Inside ELSE {1}
  /\ current = "bServerSku"
  /\ variables = [n \in Names |-> 0]
  /\ trace = <<>>
  /\ pc = "scan"

Now  == code[ip]
Goto(i) == ip' = i /\ trace' = Append(trace, ip) /\ UNCHANGED <<file, pc>>
Stop    == pc' = "done" /\ trace' = Append(trace, ip) /\ UNCHANGED <<file, ip>>

AtInstruction == pc = "scan" /\ ip \in Inside /\ Now.kind # "bad"

(* The registers whose store may be a policy's answer.                     *)
Answers == IF variant = "x64_short" THEN {"store", "store_other"} ELSE {"store"}

IsAnswer == AtInstruction /\ Now.kind \in Answers /\ variables[current] = 0

(* Fault: a later store replaces the first.                                *)
StoreAnswerAgain ==
  /\ AtInstruction /\ Now.kind \in Answers
  /\ variables' = [variables EXCEPT ![current] = ip]
  /\ Goto(ip + 1)
  /\ UNCHANGED current

(* Fault: the store is not looked at by an elif, but by an if of its own.  *)
StoreAnswerTwice ==
  /\ IsAnswer
  /\ variables' = [variables EXCEPT ![current] = ip, !["bInitialized"] = ip]
  /\ Goto(ip + 1)
  /\ UNCHANGED current

(* if not variables[current] and ...: the first store behind the string.   *)
StoreAnswer ==
  /\ IsAnswer
  /\ variables' = [variables EXCEPT ![current] = ip]
  /\ Goto(ip + 1)
  /\ UNCHANGED current

(* Fault: a continue passes the assignment ip = next_ip.                   *)
NextStringContinue ==
  /\ AtInstruction /\ Now.kind = "string"
  /\ current' = Now.of
  /\ UNCHANGED <<file, ip, variables, trace, pc>>

(* Another string: its variable is the current one from here on.           *)
NextString ==
  /\ AtInstruction /\ Now.kind = "string"
  /\ current' = Now.of
  /\ Goto(ip + 1)
  /\ UNCHANGED variables

(* x86 and long x64: the store of 1 is bInitialized and ends the scan.     *)
StoreInitialized ==
  /\ AtInstruction /\ variant # "x64_short" /\ Now.kind = "one"
  /\ variables' = [variables EXCEPT !["bInitialized"] = ip]
  /\ Stop
  /\ UNCHANGED current

(* Fault: bInitialized becomes the current variable.                       *)
StoreInitializedCurrent ==
  /\ AtInstruction /\ ~IsAnswer
  /\ variant = "x64_short" /\ Now.kind = "store"
  /\ variables' = [variables EXCEPT !["bInitialized"] = ip]
  /\ current' = "bInitialized"
  /\ Goto(ip + 1)

(* Short x64: any store of eax or ecx that no variable waits for; the scan *)
(* goes on, and the last of them counts.                                   *)
StoreInitializedShort ==
  /\ AtInstruction /\ ~IsAnswer
  /\ variant = "x64_short" /\ Now.kind = "store"
  /\ variables' = [variables EXCEPT !["bInitialized"] = ip]
  /\ Goto(ip + 1)
  /\ UNCHANGED current

(* Short x64 follows a jmp, forwards and backwards, and stops at ret.      *)
Jump ==
  /\ AtInstruction /\ variant = "x64_short" /\ Now.kind = "jmp"
  /\ Len(trace) < MaxSteps
  /\ Goto(Now.to)
  /\ UNCHANGED <<current, variables>>
Return ==
  /\ AtInstruction /\ variant = "x64_short" /\ Now.kind = "ret"
  /\ Stop
  /\ UNCHANGED <<current, variables>>

(* Everything else is passed over.                                         *)
PassOver ==
  /\ AtInstruction /\ ~IsAnswer
  /\ \/ Now.kind \in {"other", "store_other"}
     \/ variant # "x64_short" /\ Now.kind = "store"
     \/ variant = "x64_short" /\ Now.kind = "one"
  /\ Goto(ip + 1)
  /\ UNCHANGED <<current, variables>>

(* Bytes that do not decode, the end of the window, a jmp out of it.       *)
Leave ==
  /\ pc = "scan" /\ (ip \in Inside => Now.kind = "bad")
  /\ pc' = "done"
  /\ UNCHANGED <<file, ip, current, variables, trace>>

Next ==
  \/ StoreAnswer \/ NextString \/ StoreInitialized \/ StoreInitializedShort
  \/ Jump \/ Return \/ PassOver \/ Leave

Spec     == Init /\ [][Next]_vars
FairSpec == Spec /\ WF_vars(Next)
-----------------------------------------------------------------------------
(* The scan is at an instruction or behind the window, and bInitialized is *)
(* never the variable a string asks for.                                   *)
TypeOK ==
  /\ ip \in 1 .. Length + 1
  /\ current \in Names \ {"bInitialized"}
  /\ variables \in [Names -> 0 .. Length]
  /\ trace \in Seq(Inside) /\ Len(trace) <= MaxSteps + Length
  /\ pc \in {"scan", "done"}

(* The variable waited for at step p of the trace, the steps that store an *)
(* answer while n is waited for, and the first of them.                    *)
KindAt(p) == code[trace[p]].kind
WaitedFor(p) ==
  LET strings == {q \in 1 .. p - 1 : KindAt(q) = "string"}
  IN  IF strings = {} THEN "bServerSku" ELSE code[trace[Max(strings)]].of
StoresFor(n) == {p \in DOMAIN trace : KindAt(p) \in Answers /\ WaitedFor(p) = n}
FirstStores  == {Min(StoresFor(n)) : n \in {m \in Names : StoresFor(m) # {}}}

(* Each variable is the FIRST store behind its own string and before any   *)
(* other string, along the path the scan takes; what is stored before any  *)
(* string is bServerSku.  bInitialized is the store of 1 the scan stops at *)
(* or, in the short variant, the LAST store of eax or ecx that is none of  *)
(* these.                                                                  *)
FirstStoreBehindString ==
  /\ \A n \in Names \ {"bInitialized"} :
       variables[n] = IF StoresFor(n) = {} THEN 0 ELSE trace[Min(StoresFor(n))]
  /\ LET rest == {p \in DOMAIN trace \ FirstStores :
                   KindAt(p) = IF variant = "x64_short" THEN "store" ELSE "one"}
     IN  variables["bInitialized"] = IF rest = {} THEN 0 ELSE trace[Max(rest)]

(* The instruction that is scanned after i, 0 when the scan ends there.    *)
After(i) ==
  CASE variant = "x64_short" /\ code[i].kind = "jmp" -> code[i].to
    [] variant = "x64_short" /\ code[i].kind = "ret" -> 0
    [] code[i].kind = "bad" -> 0
    [] OTHER -> i + 1
NoLoop == \A S \in SUBSET Inside : S # {} => \E i \in S : After(i) \notin S

(* No two variables share an instruction: unless a jmp leads the scan over *)
(* the same store again, with another string behind it, every store serves *)
(* one variable.                                                           *)
EachStoreServesOne ==
  NoLoop => \A m, n \in Names : variables[m] = variables[n] /\ m # n => variables[m] = 0

(* Liveness: where no jmp closes a loop the scan ends.  (In a loop it goes *)
(* on for ever: nothing in the scan counts its steps.)                     *)
Ends == NoLoop => <>(pc = "done")
=============================================================================
