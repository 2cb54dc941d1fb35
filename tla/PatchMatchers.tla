---------------------------- MODULE PatchMatchers ----------------------------
(***************************************************************************)
(* The matchers of patches.py: each decodes instructions from a function's *)
(* first address on, within a window, looks for the pattern that shows the *)
(* place to patch, and gives up at the first instruction that breaks a     *)
(* pattern begun.                                                          *)
(*                                                                         *)
(* The image is not known beforehand: what the bytes at an address decode  *)
(* to is chosen when a matcher first decodes there, and stays.  A jump may *)
(* lead into the middle of an instruction, where another one begins.       *)
(***************************************************************************)
EXTENDS Integers, Sequences

CONSTANTS
  Matchers,     \* the matchers to run: a subset of the four below
  Instructions, \* Instructions[m]: what m tells apart of what bytes may decode
                \* to: records with kind and size, and to (jumps, calls), near
                \* (jz), reg and base (loads, compares of the policy field),
                \* regs (compares of two registers)
  Start,        \* rva: the first address of the function
  Window,       \* bytes read from there on: 128 or 256 in the code
  ImageSize,    \* the mapped image has the addresses below it
  None          \* no base register; also: nothing loaded yet

Image == 0 .. ImageSize - 1
End   == Start + Window

(* The kinds are the roles an instruction may play:                        *)
(*  "call"    a relative call; for local_only_patch, to its target         *)
(*  "thunk"   a jmp through the import slot of memset                      *)
(*  "verify"  a call, 5 to 7 bytes long, through that of VerifyVersionInfo *)
(*  "cmp_ok"  a compare of a local with 1 (or, x64, a register), 8 bytes or*)
(*            less                                                         *)
(*  "policy"  a compare of reg with [base+63Ch] or [base+320h]             *)
(*  "load63C", "load638"  mov reg, [base+disp]                             *)
(*  "cmp2"    a compare of the two registers regs                          *)
(*  "argument" mov reg, [ebp+disp] with disp > 0                           *)
(*  "mov", "test", "jns", "js", "cmp", "jz", "jnz", "pop" by their mnemonic*)
(*  "bad"     bytes that do not decode;  "other"  anything else            *)
ASSUME LayoutAssumption ==
  /\ Start \in Nat /\ Window \in Nat \ {0} /\ ImageSize \in Nat /\ Start < ImageSize
ASSUME MatchersAssumption ==
  Matchers \subseteq {"local_only", "def_policy", "single_user", "sl_policy"}
ASSUME InstructionsAssumption ==
  \A m \in Matchers : \A i \in Instructions[m] :
    /\ i.size \in Nat \ {0}
    /\ i.kind \in {"jns", "js", "jz"} => i.to \in Int

Unread == [kind |-> "unread", size |-> 0]

VARIABLES
  matcher, \* the matcher that runs
  arch,    \* decoder.arch
  code,    \* code[a]: what the bytes at a decode to, Unread if not yet decoded
  ip,      \* where the next instruction is decoded
  pc,      \* the part of the pattern that comes next, "found" or "missed"
  exit,    \* local_only: target_cmp_jump
  last,    \* def_policy: last_length
  load,    \* def_policy: <<mov_base, mov_target>> of the last 63Ch load
  hit,     \* def_policy: the address of the compare or the 638h load;
           \* single_user: that of the call
  found,   \* the offset and the code of the patch
  path     \* history: the addresses of the instructions gone through

input == <<matcher, arch>>
vars  == <<input, code, ip, pc, exit, last, load, hit, found, path>>

NotFound == [offset |-> -1, code |-> "none"]

Init ==
  /\ matcher \in Matchers
  /\ arch \in IF matcher = "def_policy" THEN {"x64", "x86"}
             ELSE IF matcher = "sl_policy" THEN {"x86"} ELSE {"x64"}
  /\ code = [a \in Image |-> Unread]
  /\ ip = Start /\ pc = "sweep"
  /\ exit = Start /\ last = 0 /\ load = <<None, None>> /\ hit = Start
  /\ found = NotFound
  /\ path = <<>>

-----------------------------------------------------------------------------
Possible == Instructions[matcher]
At(a) == IF code[a] = Unread THEN Possible ELSE {code[a]}

(* The bytes read_rva(a, max) returns hold all of the instruction i.       *)
Whole(a, max, i) == i.kind # "bad" /\ i.size <= max /\ a + i.size <= ImageSize

(* decode_one(a, max) returns i, or None.                                  *)
DecodeOne(a, max, i) ==
  /\ a \in Image /\ i \in At(a) /\ Whole(a, max, i)
  /\ code' = [code EXCEPT ![a] = i]
DecodeNone(a, max) ==
  \/ (a \notin Image \/ max <= 0) /\ UNCHANGED code
  \/ a \in Image /\ max > 0 /\ \E i \in At(a) : ~Whole(a, max, i) /\ code' = [code EXCEPT ![a] = i]

(* Fault: remaining is not computed again behind an instruction.           *)
ThroughWindow(i, a, p) ==
  /\ DecodeOne(ip, Window, i)
  /\ path' = Append(path, ip)
  /\ ip' = a /\ pc' = p
  /\ UNCHANGED input

(* The instruction i at ip is gone through, on to the address a.           *)
Through(i, a, p) ==
  /\ DecodeOne(ip, End - ip, i)
  /\ path' = Append(path, ip)
  /\ ip' = a /\ pc' = p
  /\ UNCHANGED input
GoOn(i, p) == Through(i, ip + i.size, p)

Report(i, offset, patch) ==
  /\ GoOn(i, "found")
  /\ found' = [offset |-> offset, code |-> patch]
  /\ UNCHANGED <<exit, last, load, hit>>

Runs(m, p) == matcher = m /\ pc = p

(* local_only_patch: the call of IsLicenseTypeLocalOnly, loads, a test ... *)
LocalOnlySweep(i) ==
  /\ Runs("local_only", "sweep")
  /\ GoOn(i, IF i.kind = "call" THEN "result" ELSE "sweep")
  /\ UNCHANGED <<exit, last, load, hit, found>>
LocalOnlyResult(i) ==
  /\ pc = "result" /\ i.kind \in {"mov", "test"}
  /\ GoOn(i, IF i.kind = "mov" THEN "result" ELSE "sign")
  /\ UNCHANGED <<exit, last, load, hit, found>>

(* Fault: after js, too, the compare's jump is expected to fall through.   *)
LocalOnlySignAsJns(i) ==
  /\ pc = "sign" /\ i.kind \in {"jns", "js"}
  /\ Through(i, IF i.kind = "jns" THEN i.to ELSE ip + i.size, "compare")
  /\ exit' = ip + i.size
  /\ UNCHANGED <<last, load, hit, found>>

(* ... of its sign: on where it is not negative, ...                       *)
LocalOnlySign(i) ==
  /\ pc = "sign" /\ i.kind \in {"jns", "js"}
  /\ Through(i, IF i.kind = "jns" THEN i.to ELSE ip + i.size, "compare")
  /\ exit' = IF i.kind = "jns" THEN ip + i.size ELSE i.to
  /\ UNCHANGED <<last, load, hit, found>>

(* ... a compare, and the jump to be made unconditional.                   *)
LocalOnlyCompare(i) ==
  /\ pc = "compare" /\ i.kind = "cmp"
  /\ GoOn(i, "jump")
  /\ UNCHANGED <<exit, last, load, hit, found>>
LocalOnlyJump(i) ==
  /\ pc = "jump" /\ i.kind = "jz" /\ i.to = exit
  /\ Report(i, ip, IF i.near THEN "nopjmp" ELSE "jmpshort")

(* def_policy_patch: the compare of the policy field, or (x64) a load of   *)
(* 638h off the base of the last load of 63Ch, begins a pattern.           *)
IsPair(i) == arch = "x64" /\ i.kind = "load638" /\ load[1] # None /\ i.base = load[1]

(* Faults: a 63Ch load counts only once; the length of a compare that was  *)
(* not the one looked for is not kept.                                     *)
DefPolicyPassOnce(i) ==
  /\ Runs("def_policy", "sweep") /\ i.kind # "policy" /\ ~IsPair(i)
  /\ GoOn(i, "sweep")
  /\ last' = i.size
  /\ load' = IF arch = "x64" /\ i.kind = "load63C" /\ load = <<None, None>>
               THEN <<i.base, i.reg>> ELSE load
  /\ UNCHANGED <<exit, hit, found>>
DefPolicyPassCompare(i) ==
  /\ Runs("def_policy", "sweep") /\ i.kind # "policy" /\ ~IsPair(i)
  /\ GoOn(i, "sweep")
  /\ last' = IF i.kind = "cmp2" THEN last ELSE i.size
  /\ load' = IF arch = "x64" /\ i.kind = "load63C" THEN <<i.base, i.reg>> ELSE load
  /\ UNCHANGED <<exit, hit, found>>

DefPolicyPass(i) ==
  /\ Runs("def_policy", "sweep") /\ i.kind # "policy" /\ ~IsPair(i)
  /\ GoOn(i, "sweep")
  /\ last' = i.size
  /\ load' = IF arch = "x64" /\ i.kind = "load63C" THEN <<i.base, i.reg>> ELSE load
  /\ UNCHANGED <<exit, hit, found>>
DefPolicyHit(i) ==
  /\ Runs("def_policy", "sweep")
  /\ \/ i.kind = "policy" /\ i.base # None /\ GoOn(i, "branch")
     \/ IsPair(i) /\ GoOn(i, "scan pair")
  /\ hit' = ip
  /\ UNCHANGED <<exit, last, load, found>>

(* The first compare of the two loaded registers behind the 638h load.     *)
DefPolicyScan(i) ==
  /\ Runs("def_policy", "scan pair")
  /\ GoOn(i, IF i.kind = "cmp2" /\ i.regs = {load[2], code[hit].reg}
                THEN "branch pair" ELSE "scan pair")
  /\ UNCHANGED <<exit, last, load, hit, found>>

PolicyCode(i) == <<code[hit].reg, code[hit].base, i.kind = "jnz">>

(* A jnz behind the compare of the field makes the patch begin one         *)
(* instruction earlier; behind the pair it does not.                       *)
DefPolicyBranch(i) ==
  /\ i.kind \in {"jnz", "jz", "pop"}
  /\ \/ pc = "branch" /\ Report(i, IF i.kind = "jnz" THEN hit - last ELSE hit, PolicyCode(i))
     \/ pc = "branch pair" /\ Report(i, hit, PolicyCode(i))

(* single_user_patch: a call of memset's thunk.  The thunk is decoded with *)
(* as many bytes as are left of the window.                                *)
SingleUserSweep(i) ==
  /\ Runs("single_user", "sweep")
  /\ GoOn(i, IF i.kind = "call" THEN "thunk" ELSE "sweep")
  /\ hit' = ip
  /\ UNCHANGED <<exit, last, load, found>>

(* Faults: any relative call will do; a call of something else ends the    *)
(* search.                                                                 *)
SingleUserAnyCall ==
  /\ pc = "thunk" /\ pc' = "scan"
  /\ UNCHANGED <<input, code, ip, exit, last, load, hit, found, path>>
SingleUserThunkOrNothing ==
  LET to == code[hit].to  left == End - ip  IN
  /\ pc = "thunk"
  /\ \/ \E j \in Possible :
          DecodeOne(to, left, j) /\ pc' = IF j.kind = "thunk" THEN "scan" ELSE "missed"
     \/ DecodeNone(to, left) /\ pc' = "sweep"
  /\ UNCHANGED <<input, ip, exit, last, load, hit, found, path>>

SingleUserThunk ==
  LET to == code[hit].to  left == End - ip  IN
  /\ pc = "thunk"
  /\ \/ \E j \in Possible :
          DecodeOne(to, left, j) /\ pc' = IF j.kind = "thunk" THEN "scan" ELSE "sweep"
     \/ DecodeNone(to, left) /\ pc' = "sweep"
  /\ UNCHANGED <<input, ip, exit, last, load, hit, found, path>>

(* The first call or compare behind it that can be patched.                *)
SingleUserScan(i) ==
  /\ Runs("single_user", "scan")
  /\ \/ i.kind \in {"verify", "cmp_ok"} /\ Report(i, ip, i.kind)
     \/ /\ i.kind \notin {"verify", "cmp_ok"} /\ GoOn(i, "scan")
        /\ UNCHANGED <<exit, last, load, hit, found>>

(* sl_policy_cp: an argument is loaded before the first test.              *)
SLPolicySweep(i) ==
  /\ Runs("sl_policy", "sweep") /\ i.kind # "test"
  /\ \/ i.kind = "argument" /\ Report(i, ip, "CP")
     \/ i.kind # "argument" /\ GoOn(i, "sweep") /\ UNCHANGED <<exit, last, load, hit, found>>

(* An instruction that breaks the pattern.                                 *)
Breaks(i) ==
  \/ pc = "result"  /\ i.kind \notin {"mov", "test"}
  \/ pc = "sign"    /\ i.kind \notin {"jns", "js"}
  \/ pc = "compare" /\ i.kind # "cmp"
  \/ pc = "jump"    /\ ~(i.kind = "jz" /\ i.to = exit)
  \/ Runs("def_policy", "sweep") /\ i.kind = "policy" /\ i.base = None
  \/ pc \in {"branch", "branch pair"} /\ i.kind \notin {"jnz", "jz", "pop"}
  \/ Runs("sl_policy", "sweep") /\ i.kind = "test"

Over == pc \in {"found", "missed"}

(* It, or the end of what can be decoded in the window, ends the search.   *)
GiveUp ==
  /\ ~Over /\ pc # "thunk"
  /\ pc' = "missed"
  /\ \/ DecodeNone(ip, End - ip)
     \/ \E i \in Possible : DecodeOne(ip, End - ip, i) /\ Breaks(i)
  /\ UNCHANGED <<input, ip, exit, last, load, hit, found, path>>

Match(i) ==
  \/ LocalOnlySweep(i) \/ LocalOnlyResult(i) \/ LocalOnlySign(i)
  \/ LocalOnlyCompare(i) \/ LocalOnlyJump(i)
  \/ DefPolicyPass(i) \/ DefPolicyHit(i) \/ DefPolicyScan(i) \/ DefPolicyBranch(i)
  \/ SingleUserSweep(i) \/ SingleUserScan(i)
  \/ SLPolicySweep(i)

Next == (\E i \in Possible : Match(i)) \/ SingleUserThunk \/ GiveUp

Spec == Init /\ [][Next]_vars
-----------------------------------------------------------------------------
(* The parts of a pattern belong to their matcher.                         *)
PartOfMatcher ==
  \/ pc \in {"sweep", "found", "missed"}
  \/ matcher = "local_only" /\ pc \in {"result", "sign", "compare", "jump"}
  \/ matcher = "def_policy" /\ pc \in {"branch", "scan pair", "branch pair"}
  \/ matcher = "single_user" /\ pc \in {"thunk", "scan"}

After(a) == a + code[a].size

(* A whole instruction of the window, and of the image, begins at a.       *)
Decodable(a) == a \in Image /\ code[a] # Unread /\ Whole(a, End - a, code[a])

(* Every address gone through is that of a whole instruction in the window:*)
(* no matcher reads behind End, wherever a jump leads.                     *)
TypeOK ==
  /\ matcher \in Matchers /\ arch \in {"x64", "x86"}
  /\ PartOfMatcher
  /\ code \in [Image -> Possible \cup {Unread}]
  /\ ip \in Int /\ exit \in Int /\ last \in Nat /\ hit \in Image
  /\ found.offset \in Int /\ (pc # "found" => found = NotFound)
  /\ path \in Seq(Image)
  /\ \A p \in DOMAIN path : Decodable(path[p])

Kind(p) == code[path[p]].kind

(* The code goes from the conditional jump at a to this address, depending *)
(* on the sign.                                                            *)
Reached(a, negative) == IF (code[a].kind = "js") = negative THEN code[a].to ELSE After(a)

(* The path up to m: its first call, and loads only behind it.             *)
CallUpTo(m) ==
  \E c \in 1 .. m : /\ Kind(c) = "call"
                    /\ \A p \in 1 .. m : (p < c => Kind(p) # "call") /\ (p > c => Kind(p) = "mov")

(* The jump that LocalOnlyPatch makes unconditional leads where the code   *)
(* goes when the first call of IsLicenseTypeLocalOnly has failed (a        *)
(* negative result), and it is the one behind the compare made when it has *)
(* not: for jns and for js, forwards and backwards.                        *)
LocalOnlySameExit ==
  Runs("local_only", "found") =>
    LET n == Len(path)
    IN  /\ n >= 5
        /\ Kind(n - 3) = "test" /\ After(path[n - 3]) = path[n - 2]
        /\ Kind(n - 2) \in {"js", "jns"} /\ Reached(path[n - 2], FALSE) = path[n - 1]
        /\ Kind(n - 1) = "cmp" /\ After(path[n - 1]) = path[n]
        /\ Kind(n) = "jz" /\ code[path[n]].to = Reached(path[n - 2], TRUE)
        /\ found.offset = path[n]
        /\ CallUpTo(n - 4)

(* The 63Ch load at p is the last one before q.                            *)
LastLoad(p, q) == Kind(p) = "load63C" /\ \A r \in p + 1 .. q - 1 : Kind(r) # "load63C"

(* DefPolicyPatch overwrites whole instructions: it begins at an           *)
(* instruction gone through, namely the compare of the field, the one just *)
(* before it if jnz follows (itself, if it is the function's first), or    *)
(* the 638h load.  Its registers are those of this instruction, whose base *)
(* is that of the last 63Ch load before it, and a compare with what that   *)
(* load gave decides the branch.                                           *)
DefPolicyFits ==
  Runs("def_policy", "found") =>
    LET n    == Len(path)
        jmp  == Kind(n) = "jnz"
        Of(p) == <<code[path[p]].reg, code[path[p]].base, jmp>>
    IN  /\ n >= 2
        /\ \/ /\ Kind(n - 1) = "policy" /\ found.code = Of(n - 1)
              /\ found.offset = path[IF jmp /\ n > 2 THEN n - 2 ELSE n - 1]
           \/ /\ arch = "x64" /\ Kind(n - 1) = "cmp2"
              /\ \E q \in 2 .. n - 2 : \E p \in 1 .. q - 1 :
                   /\ LastLoad(p, q) /\ Kind(q) = "load638"
                   /\ code[path[p]].base = code[path[q]].base
                   /\ code[path[n - 1]].regs = {code[path[p]].reg, code[path[q]].reg}
                   /\ found.code = Of(q) /\ found.offset = path[q]

(* A call of memset: its thunk is one, and no longer than what is left of  *)
(* the window behind the call.                                             *)
CallsMemset(p) ==
  LET to == code[path[p]].to
  IN  /\ Kind(p) = "call"
      /\ to \in Image /\ code[to] # Unread /\ code[to].kind = "thunk"
      /\ Whole(to, End - After(path[p]), code[to])
CanPatch(p) == Kind(p) \in {"verify", "cmp_ok"}
FirstMemset(c) == CallsMemset(c) /\ \A p \in 1 .. c - 1 : ~CallsMemset(p)

(* SingleUserPatch is the first instruction that can be patched behind the *)
(* first call of memset, with whole instructions, one behind the other,    *)
(* all the way from the function's begin.                                  *)
SingleUserFits ==
  Runs("single_user", "found") =>
    LET n == Len(path)
    IN  /\ found = [offset |-> path[n], code |-> Kind(n)]
        /\ path[1] = Start /\ \A p \in 1 .. n - 1 : path[p + 1] = After(path[p])
        /\ \E c \in 1 .. n - 1 : FirstMemset(c) /\ \A p \in c + 1 .. n : CanPatch(p) <=> p = n

(* No pattern has begun at any instruction gone through.                   *)
NothingBegan ==
  CASE matcher = "local_only"  -> \A p \in DOMAIN path : Kind(p) # "call"
    [] matcher = "def_policy"  ->
         \A q \in DOMAIN path :
           /\ Kind(q) # "policy"
           /\ Kind(q) = "load638" /\ arch = "x64" =>
                \A p \in 1 .. q - 1 : LastLoad(p, q) =>
                  code[path[p]].base # code[path[q]].base \/ code[path[p]].base = None
    [] matcher = "single_user" ->
         \A p, q \in DOMAIN path : CallsMemset(p) /\ p < q => ~CanPatch(q)
    [] matcher = "sl_policy"   -> \A p \in DOMAIN path : Kind(p) # "argument"

(* "not found" is said either of a pattern that has begun and broke, or    *)
(* when every instruction of the window has been looked at: calls of other *)
(* functions, loads and compares of other fields end no search.            *)
WindowIsRead ==
  pc = "missed" /\ NothingBegan =>
    \/ ~Decodable(ip)
    \/ matcher = "def_policy" /\ code[ip].kind = "policy" /\ code[ip].base = None
    \/ matcher = "sl_policy" /\ code[ip].kind = "test"
=============================================================================
