------------------------ MODULE PatchMatchers_proofs ------------------------
(***************************************************************************)
(* Proofs about PatchMatchers, for all windows, images and instructions.   *)
(* What has been gone through stays as it was read, so that what holds of a*)
(* path holds of every longer one: LEMMA PathKept.                         *)
(***************************************************************************)
EXTENDS PatchMatchers, TLAPS

(* What decoding at an address leaves of the image, and what it adds.      *)
CodeType == code \in [Image -> Possible \cup {Unread}]
CodeKept == \A a \in Image : code[a] # Unread => code'[a] = code[a]

LEMMA PossibleInstructions ==
  ASSUME TypeOK, NEW i \in Possible
  PROVE  /\ i.size \in Nat \ {0} /\ i # Unread
         /\ i.kind \in {"jns", "js", "jz"} => i.to \in Int
<1>1. i.size \in Nat \ {0} /\ (i.kind \in {"jns", "js", "jz"} => i.to \in Int)
  BY InstructionsAssumption DEF TypeOK, Possible
<1>2. Unread.size = 0
  BY DEF Unread
<1> QED
  BY <1>1, <1>2

LEMMA DecodeOneKeeps ==
  ASSUME TypeOK, UNCHANGED input, NEW a, NEW max, NEW i, DecodeOne(a, max, i)
  PROVE  /\ CodeType' /\ CodeKept
         /\ a \in Image /\ i \in Possible /\ code'[a] = i /\ Whole(a, max, i)
<1>1. a \in Image /\ i \in At(a) /\ Whole(a, max, i) /\ code' = [code EXCEPT ![a] = i]
  BY DEF DecodeOne
<1>2. code \in [Image -> Possible \cup {Unread}] /\ Possible' = Possible
  BY DEF TypeOK, Possible, input
<1>3. i \in Possible
  <2>1. i # Unread
    <3>1. Unread.kind = "unread" /\ Unread.size = 0
      BY DEF Unread
    <3>2. CASE code[a] = Unread
      BY <1>1, <3>2, PossibleInstructions DEF At
    <3>3. CASE code[a] # Unread
      BY <1>1, <3>3 DEF At
    <3> QED
      BY <3>2, <3>3
  <2> QED
    BY <1>1, <1>2, <2>1 DEF At
<1> QED
  BY <1>1, <1>2, <1>3 DEF CodeType, CodeKept, At

LEMMA DecodeNoneKeeps ==
  ASSUME TypeOK, UNCHANGED input, NEW a, NEW max, DecodeNone(a, max)
  PROVE  CodeType' /\ CodeKept
<1>2. code \in [Image -> Possible \cup {Unread}] /\ Possible' = Possible
  BY DEF TypeOK, Possible, input
<1>3. CASE UNCHANGED code
  BY <1>2, <1>3 DEF CodeType, CodeKept
<1>4. ASSUME a \in Image, NEW i \in At(a), code' = [code EXCEPT ![a] = i]
      PROVE  CodeType' /\ CodeKept
  BY <1>2, <1>4 DEF CodeType, CodeKept, At
<1> QED
  BY <1>3, <1>4 DEF DecodeNone

(* A step through an instruction: the path gets one address longer, and it *)
(* is an address where all of the instruction can be decoded.              *)
LEMMA ThroughKeeps ==
  ASSUME TypeOK, NEW i, NEW a, NEW p, Through(i, a, p)
  PROVE  /\ CodeType' /\ CodeKept /\ i \in Possible /\ i.size \in Nat \ {0}
         /\ ip \in Image /\ code'[ip] = i
         /\ path' \in Seq(Image) /\ Len(path') = Len(path) + 1
         /\ path'[Len(path) + 1] = ip
         /\ \A k \in DOMAIN path : /\ k \in DOMAIN path' /\ path'[k] = path[k]
                                   /\ code'[path[k]] = code[path[k]]
         /\ \A k \in DOMAIN path' : Decodable(path[k])'
<1>0. UNCHANGED input /\ DecodeOne(ip, End - ip, i) /\ path' = Append(path, ip)
  BY DEF Through
<1>1. /\ CodeType' /\ CodeKept
      /\ ip \in Image /\ i \in Possible /\ code'[ip] = i /\ Whole(ip, End - ip, i)
  BY <1>0, DecodeOneKeeps
<1>2. i.size \in Nat \ {0} /\ i # Unread
  BY <1>1, PossibleInstructions
<1>3. path \in Seq(Image) /\ \A k \in DOMAIN path : Decodable(path[k])
  BY DEF TypeOK
<1>4. /\ path' \in Seq(Image) /\ Len(path') = Len(path) + 1 /\ path'[Len(path) + 1] = ip
      /\ \A k \in DOMAIN path : k \in DOMAIN path' /\ path'[k] = path[k]
      /\ \A k \in DOMAIN path' : k \in DOMAIN path \/ k = Len(path) + 1
  BY <1>0, <1>1, <1>3
<1>5. \A k \in DOMAIN path : code'[path[k]] = code[path[k]]
  BY <1>1, <1>3 DEF Decodable, CodeKept
<1>6. ASSUME NEW k \in DOMAIN path' PROVE Decodable(path[k])'
  <2>1. CASE k \in DOMAIN path
    BY <1>3, <1>4, <1>5, <2>1 DEF Decodable, Whole, End
  <2>2. CASE k = Len(path) + 1
    BY <1>1, <1>2, <1>4, <2>2 DEF Decodable, Whole, End
  <2> QED
    BY <1>4, <2>1, <2>2
<1> QED
  BY <1>1, <1>2, <1>4, <1>5, <1>6

(* What TypeOK says of the rest.                                           *)
LEMMA ThroughTypes ==
  ASSUME TypeOK, NEW i, NEW a \in Int, NEW p, Through(i, a, p),
         PartOfMatcher', exit' \in Int, last' \in Nat, hit' \in Image,
         found'.offset \in Int, pc' # "found" => found' = NotFound
  PROVE  TypeOK'
<1>1. /\ CodeType' /\ path' \in Seq(Image) /\ \A k \in DOMAIN path' : Decodable(path[k])'
  BY ThroughKeeps
<1>2. matcher' \in Matchers /\ arch' \in {"x64", "x86"} /\ ip' \in Int
  BY DEF TypeOK, Through, input
<1> QED
  BY <1>1, <1>2 DEF TypeOK, CodeType, Image

(* The image only grows by what is read, and the path stays.               *)
Stays == /\ CodeType' /\ CodeKept
         /\ UNCHANGED <<input, ip, exit, last, load, hit, found, path>>
LEMMA StaysTypes ==
  ASSUME TypeOK, Stays, PartOfMatcher', pc # "found", pc' # "found"
  PROVE  /\ TypeOK'
         /\ \A k \in DOMAIN path : /\ code'[path[k]] = code[path[k]]
                                  /\ code[path[k]] # Unread
<1>1. \A k \in DOMAIN path : Decodable(path[k]) /\ path[k] \in Image
  BY DEF TypeOK
<1>2. \A k \in DOMAIN path : code'[path[k]] = code[path[k]] /\ code[path[k]] # Unread
  BY <1>1 DEF Stays, Decodable, CodeKept
<1>3. \A k \in DOMAIN path' : Decodable(path[k])'
  BY <1>1, <1>2 DEF Stays, Decodable, Whole, End
<1> QED
  BY <1>2, <1>3 DEF TypeOK, Stays, CodeType, input

LEMMA GiveUpStays == ASSUME TypeOK, GiveUp PROVE Stays
BY DecodeOneKeeps, DecodeNoneKeeps DEF GiveUp, Stays, input

LEMMA ThunkStays == ASSUME TypeOK, SingleUserThunk PROVE Stays
BY DecodeOneKeeps, DecodeNoneKeeps DEF SingleUserThunk, Stays, input

(* Each step of a matcher goes through one instruction.                    *)
LEMMA MatchGoesOn ==
  ASSUME TypeOK, NEW i \in Possible, Match(i)
  PROVE  \E a \in Int : \E p : Through(i, a, p)
<1>1. ip \in Int /\ i.size \in Nat /\ (i.kind \in {"jns", "js"} => i.to \in Int)
  BY PossibleInstructions DEF TypeOK
<1>2. ASSUME NEW p, GoOn(i, p) PROVE \E a \in Int : \E q : Through(i, a, q)
  BY <1>1, <1>2 DEF GoOn
<1>3. CASE LocalOnlySign(i)
  BY <1>1, <1>3 DEF LocalOnlySign
<1> QED
  BY <1>2, <1>3 DEF Match, LocalOnlySweep, LocalOnlyResult, LocalOnlyCompare, LocalOnlyJump,
       DefPolicyPass, DefPolicyHit, DefPolicyScan, DefPolicyBranch, SingleUserSweep,
       SingleUserScan, SLPolicySweep, Report

LEMMA TypeNext == ASSUME TypeOK, [Next]_vars PROVE TypeOK'
<1>1. ASSUME NEW i \in Possible, Match(i) PROVE TypeOK'
  <2>a. PICK a \in Int : \E p : Through(i, a, p)
    BY <1>1, MatchGoesOn
  <2>1. PICK p : Through(i, a, p)
    BY <2>a
  <2>2. /\ ip \in Image /\ ip \in Int /\ i.size \in Nat \ {0}
        /\ i.kind \in {"jns", "js"} => i.to \in Int
    BY <2>1, ThroughKeeps, PossibleInstructions DEF TypeOK
  <2>3. /\ exit \in Int /\ last \in Nat /\ hit \in Image /\ hit \in Int
        /\ found.offset \in Int /\ (pc # "found" => found = NotFound)
    BY DEF TypeOK, Image
  <2>4. exit' \in Int /\ last' \in Nat /\ hit' \in Image
    <3>1. CASE UNCHANGED <<exit, last, hit>>
      BY <2>3, <3>1
    <3>2. CASE LocalOnlySign(i)
      BY <2>2, <2>3, <3>2 DEF LocalOnlySign
    <3>3. CASE DefPolicyPass(i)
      BY <2>2, <2>3, <3>3 DEF DefPolicyPass
    <3>4. CASE DefPolicyHit(i) \/ SingleUserSweep(i)
      BY <2>2, <2>3, <3>4 DEF DefPolicyHit, SingleUserSweep
    <3> QED
      BY <1>1, <3>1, <3>2, <3>3, <3>4 DEF Match, LocalOnlySweep, LocalOnlyResult,
           LocalOnlyCompare, LocalOnlyJump, DefPolicyScan, DefPolicyBranch,
           SingleUserScan, SLPolicySweep, Report
  <2>5. PartOfMatcher'
    BY <1>1 DEF Match, LocalOnlySweep, LocalOnlyResult, LocalOnlySign,
         LocalOnlyCompare, LocalOnlyJump, DefPolicyPass, DefPolicyHit, DefPolicyScan,
         DefPolicyBranch, SingleUserSweep, SingleUserScan, SLPolicySweep, Report, GoOn,
         Through, PartOfMatcher, Runs, TypeOK, input
  <2>6. found'.offset \in Int /\ (pc' # "found" => found' = NotFound)
    <3>1. ASSUME NEW offset \in Int, NEW c, Report(i, offset, c)
          PROVE  found'.offset \in Int /\ pc' = "found"
      BY <3>1 DEF Report, GoOn, Through
    <3>2. CASE UNCHANGED found /\ pc # "found"
      BY <2>3, <3>2
    <3>3. hit - last \in Int
      BY <2>3
    <3> QED
      BY <1>1, <2>2, <2>3, <3>1, <3>2, <3>3 DEF Match, LocalOnlySweep, LocalOnlyResult,
           LocalOnlySign, LocalOnlyCompare, LocalOnlyJump, DefPolicyPass, DefPolicyHit,
           DefPolicyScan, DefPolicyBranch, SingleUserSweep, SingleUserScan, SLPolicySweep, Runs
  <2> QED
    BY <2>1, <2>4, <2>5, <2>6, ThroughTypes
<1>2. CASE SingleUserThunk
  <2>1. PartOfMatcher' /\ pc # "found" /\ pc' # "found"
    BY <1>2 DEF SingleUserThunk, PartOfMatcher, input, TypeOK
  <2> QED
    BY <1>2, <2>1, ThunkStays, StaysTypes
<1>3. CASE GiveUp
  BY <1>3, GiveUpStays, StaysTypes DEF GiveUp, PartOfMatcher, Over
<1>4. CASE UNCHANGED vars
  BY <1>4 DEF vars, input, TypeOK, PartOfMatcher, Decodable, Whole, End, Possible
<1> QED
  BY <1>1, <1>2, <1>3, <1>4 DEF Next

LEMMA InitTypes == Init => TypeOK
BY LayoutAssumption DEF Init, TypeOK, PartOfMatcher, Image, NotFound

(* TypeOK for all images: no matcher reads behind its window.              *)
THEOREM TypeCorrect == Spec => []TypeOK
<1>1. Init => TypeOK
  BY InitTypes
<1>2. TypeOK /\ [Next]_vars => TypeOK'
  BY TypeNext
<1> QED
  BY <1>1, <1>2, PTL DEF Spec

-----------------------------------------------------------------------------
(* What local_only_patch has gone through, part by part: the path ends with*)
(* the first call and the loads behind it, then the test, the branch, and  *)
(* the compare.                                                            *)
TestAt(n) == /\ n >= 2 /\ Kind(n) = "test" /\ CallUpTo(n - 1)
SignAt(n) == /\ n >= 3 /\ TestAt(n - 1) /\ After(path[n - 1]) = path[n]
             /\ Kind(n) \in {"js", "jns"} /\ exit = Reached(path[n], TRUE)
CompareAt(n) == /\ n >= 4 /\ SignAt(n - 1) /\ Reached(path[n - 1], FALSE) = path[n]
                /\ Kind(n) = "cmp"
LocalOnlyInv ==
  LET n == Len(path) IN
  /\ Runs("local_only", "sweep") => \A p \in 1 .. n : Kind(p) # "call"
  /\ pc = "result"  => CallUpTo(n)
  /\ pc = "sign"    => TestAt(n) /\ ip = After(path[n])
  /\ pc = "compare" => SignAt(n) /\ ip = Reached(path[n], FALSE)
  /\ pc = "jump"    => CompareAt(n) /\ ip = After(path[n])
  /\ LocalOnlySameExit

(* These facts are about addresses gone through: they stay true.           *)
PathKept ==
  /\ DOMAIN path = 1 .. Len(path) /\ Len(path) \in Nat
  /\ \A k \in DOMAIN path : path'[k] = path[k] /\ code'[path[k]] = code[path[k]]

LEMMA LocalOnlyKept ==
  ASSUME PathKept, NEW n \in 0 .. Len(path)
  PROVE  /\ CallUpTo(n) => CallUpTo(n)'
         /\ TestAt(n) => TestAt(n)'
         /\ SignAt(n) /\ exit' = exit => SignAt(n)'
         /\ CompareAt(n) /\ exit' = exit => CompareAt(n)'
<1>1. \A k \in 1 .. n : path'[k] = path[k] /\ code'[path[k]] = code[path[k]] /\ Kind(k)' = Kind(k)
  BY DEF PathKept, Kind
<1>2. ASSUME NEW m \in Int, m <= n, CallUpTo(m) PROVE CallUpTo(m)'
  BY <1>1, <1>2 DEF CallUpTo
<1>3. ASSUME NEW m \in Int, m <= n, TestAt(m) PROVE TestAt(m)'
  BY <1>1, <1>2, <1>3 DEF TestAt
<1>4. ASSUME NEW m \in Int, m <= n, SignAt(m), exit' = exit PROVE SignAt(m)'
  BY <1>1, <1>3, <1>4 DEF SignAt, After, Reached
<1>5. ASSUME NEW m \in Int, m <= n, CompareAt(m), exit' = exit PROVE CompareAt(m)'
  <2>1. m \in 1 .. n /\ m - 1 \in 1 .. n /\ SignAt(m - 1)
    BY <1>5 DEF CompareAt
  <2>2. SignAt(m - 1)'
    BY <1>4, <1>5, <2>1
  <2>3. Reached(path[m - 1], FALSE)' = Reached(path[m - 1], FALSE) /\ path'[m] = path[m]
    BY <1>1, <2>1 DEF Reached, After
  <2> QED
    BY <1>1, <1>5, <2>1, <2>2, <2>3 DEF CompareAt
<1> QED
  BY <1>2, <1>3, <1>4, <1>5

LEMMA ThroughKeepsPath ==
  ASSUME TypeOK, NEW i, NEW a, NEW p, Through(i, a, p), NEW n, n = Len(path)
  PROVE  /\ PathKept /\ Len(path') = n + 1
         /\ path'[n + 1] = ip /\ code'[path'[n + 1]] = i /\ Kind(n + 1)' = i.kind
         /\ code'[path'[n + 1]].size = i.size
         /\ ip' = a /\ pc' = p /\ matcher' = matcher
BY ThroughKeeps DEF PathKept, TypeOK, Kind, Through, input

LEMMA LocalOnlyStep ==
  ASSUME TypeOK, LocalOnlyInv, NEW i \in Possible, Match(i), matcher = "local_only",
         NEW n, n = Len(path)
  PROVE  LocalOnlyInv'
<1>0. n \in Nat /\ n \in 0 .. n /\ n \in 0 .. Len(path) /\ PartOfMatcher
  BY DEF TypeOK
<1>1. CASE LocalOnlySweep(i)
  <2>1. ASSUME NEW p, GoOn(i, p)
        PROVE  PathKept /\ Len(path') = n + 1 /\ Kind(n + 1)' = i.kind /\ pc' = p
    BY <2>1, ThroughKeepsPath DEF GoOn
  <2>2. /\ PathKept /\ Len(path') = n + 1 /\ Kind(n + 1)' = i.kind
        /\ pc' = IF i.kind = "call" THEN "result" ELSE "sweep"
    BY <1>1, <2>1 DEF LocalOnlySweep
  <2>3. \A k \in 1 .. n : Kind(k)' # "call"
    BY <1>1, <2>2 DEF LocalOnlySweep, LocalOnlyInv, PathKept, Kind
  <2>4. CASE i.kind = "call"
    BY <1>0, <2>2, <2>3, <2>4 DEF LocalOnlyInv, CallUpTo, LocalOnlySameExit, Runs
  <2>5. CASE i.kind # "call"
    <3>1. \A k \in 1 .. n + 1 : Kind(k)' # "call"
      BY <1>0, <2>2, <2>3, <2>5
    <3> QED
      BY <2>2, <2>5, <3>1 DEF LocalOnlyInv, LocalOnlySameExit, Runs
  <2> QED
    BY <2>4, <2>5
<1>2. CASE LocalOnlyResult(i)
  <2>1. CallUpTo(n) /\ i.kind \in {"mov", "test"}
    BY <1>2 DEF LocalOnlyResult, LocalOnlyInv
  <2>2. ASSUME NEW p, GoOn(i, p)
        PROVE  /\ PathKept /\ Len(path') = n + 1 /\ Kind(n + 1)' = i.kind /\ pc' = p
               /\ ip' = After(path[n + 1])'
    BY <2>2, ThroughKeepsPath DEF GoOn, After
  <2>3. /\ PathKept /\ Len(path') = n + 1 /\ Kind(n + 1)' = i.kind
        /\ ip' = After(path[n + 1])'
        /\ pc' = IF i.kind = "mov" THEN "result" ELSE "sign"
    BY <1>2, <2>2 DEF LocalOnlyResult
  <2>4. CallUpTo(n)'
    BY <1>0, <2>1, <2>3, LocalOnlyKept
  <2>5. CASE i.kind = "mov"
    <3>1. CallUpTo(n + 1)'
      BY <1>0, <2>3, <2>4, <2>5 DEF CallUpTo
    <3> QED
      BY <2>3, <2>5, <3>1 DEF LocalOnlyInv, LocalOnlySameExit, Runs
  <2>6. CASE i.kind # "mov"
    <3>1. TestAt(n + 1)'
      BY <1>0, <2>1, <2>3, <2>4, <2>6 DEF TestAt, CallUpTo
    <3> QED
      BY <2>3, <2>6, <3>1 DEF LocalOnlyInv, LocalOnlySameExit, Runs
  <2> QED
    BY <2>5, <2>6
<1>3. CASE LocalOnlySign(i)
  <2>1. /\ i.kind \in {"jns", "js"} /\ TestAt(n) /\ ip = After(path[n])
        /\ exit' = IF i.kind = "jns" THEN ip + i.size ELSE i.to
    BY <1>3 DEF LocalOnlySign, LocalOnlyInv
  <2>2. ASSUME NEW a, Through(i, a, "compare")
        PROVE  /\ PathKept /\ Len(path') = n + 1 /\ Kind(n + 1)' = i.kind /\ path'[n + 1] = ip
               /\ code'[path'[n + 1]] = i /\ ip' = a /\ pc' = "compare"
    BY <2>2, ThroughKeepsPath
  <2>3. /\ PathKept /\ Len(path') = n + 1 /\ Kind(n + 1)' = i.kind /\ path'[n + 1] = ip
        /\ code'[path'[n + 1]] = i /\ pc' = "compare"
        /\ ip' = IF i.kind = "jns" THEN i.to ELSE ip + i.size
    BY <1>3, <2>2 DEF LocalOnlySign
  <2>4. TestAt(n)'
    BY <1>0, <2>1, <2>3, LocalOnlyKept
  <2>5. After(path[n])' = ip
    BY <1>0, <2>1, <2>3 DEF After, PathKept, TestAt
  <2>6. ip' = Reached(path[n + 1], FALSE)' /\ exit' = Reached(path[n + 1], TRUE)'
    BY <2>1, <2>3 DEF Reached, After
  <2>7. SignAt(n + 1)'
    <3>1. n >= 2 /\ (n + 1) - 1 = n /\ n + 1 >= 3
      BY <1>0, <2>4 DEF TestAt
    <3> QED
      BY <2>1, <2>3, <2>4, <2>5, <2>6, <3>1 DEF SignAt
  <2> QED
    BY <2>3, <2>6, <2>7 DEF LocalOnlyInv, LocalOnlySameExit, Runs
<1>4. CASE LocalOnlyCompare(i)
  <2>1. /\ i.kind = "cmp" /\ SignAt(n) /\ ip = Reached(path[n], FALSE)
        /\ GoOn(i, "jump") /\ exit' = exit
    BY <1>4 DEF LocalOnlyCompare, LocalOnlyInv
  <2>2. /\ PathKept /\ Len(path') = n + 1 /\ Kind(n + 1)' = i.kind /\ path'[n + 1] = ip
        /\ ip' = After(path[n + 1])' /\ pc' = "jump"
    <3>1. Through(i, ip + i.size, "jump")
      BY <2>1 DEF GoOn
    <3> QED
      BY <3>1, ThroughKeepsPath DEF After
  <2>3. SignAt(n)'
    BY <1>0, <2>1, <2>2, LocalOnlyKept
  <2>4. Reached(path[n], FALSE)' = ip
    BY <1>0, <2>1, <2>2 DEF Reached, After, PathKept, SignAt
  <2>5. CompareAt(n + 1)'
    <3>1. n >= 3 /\ (n + 1) - 1 = n /\ n + 1 >= 4
      BY <1>0, <2>3 DEF SignAt
    <3> QED
      BY <2>1, <2>2, <2>3, <2>4, <3>1 DEF CompareAt
  <2> QED
    BY <2>2, <2>5 DEF LocalOnlyInv, LocalOnlySameExit, Runs
<1>5. CASE LocalOnlyJump(i)
  <2>1. /\ i.kind = "jz" /\ i.to = exit /\ CompareAt(n) /\ ip = After(path[n])
        /\ GoOn(i, "found") /\ exit' = exit /\ found'.offset = ip
    BY <1>5 DEF LocalOnlyJump, LocalOnlyInv, Report
  <2>2. /\ PathKept /\ Len(path') = n + 1 /\ Kind(n + 1)' = i.kind
        /\ path'[n + 1] = ip /\ code'[path'[n + 1]] = i /\ pc' = "found"
    BY <2>1, ThroughKeepsPath DEF GoOn
  <2>3. CompareAt(n)' /\ After(path[n])' = ip /\ n >= 4
    <3>1. CompareAt(n)' /\ n >= 4
      BY <1>0, <2>1, <2>2, LocalOnlyKept DEF CompareAt
    <3>2. n \in DOMAIN path
      BY <1>0, <2>2, <3>1 DEF PathKept
    <3> QED
      BY <2>1, <2>2, <3>1, <3>2 DEF After, PathKept
  <2>4. SignAt(n - 1)' /\ TestAt(n - 2)' /\ CallUpTo(n - 3)'
    BY <1>0, <2>3 DEF CompareAt, SignAt, TestAt
  <2>5. LocalOnlySameExit'
    <3>1. /\ Len(path') >= 5 /\ Len(path') - 4 = n - 3 /\ Len(path') - 3 = n - 2
          /\ Len(path') - 2 = n - 1 /\ Len(path') - 1 = n /\ Len(path') = n + 1
          /\ (n - 1) - 1 = n - 2 /\ (n - 2) - 1 = n - 3
      BY <1>0, <2>2, <2>3
    <3>2. /\ CallUpTo(n - 3)' /\ Kind(n - 2)' = "test" /\ After(path[n - 2])' = path'[n - 1]
          /\ Kind(n - 1)' \in {"js", "jns"} /\ exit' = Reached(path[n - 1], TRUE)'
      BY <2>4, <3>1 DEF SignAt, TestAt
    <3>3. Reached(path[n - 1], FALSE)' = path'[n] /\ Kind(n)' = "cmp"
      BY <2>3 DEF CompareAt
    <3>4. /\ After(path[n])' = path'[n + 1] /\ Kind(n + 1)' = "jz"
          /\ code'[path'[n + 1]].to = Reached(path[n - 1], TRUE)'
          /\ found'.offset = path'[n + 1]
      BY <2>1, <2>2, <2>3, <3>2
    <3> QED
      BY <3>1, <3>2, <3>3, <3>4 DEF LocalOnlySameExit
  <2> QED
    BY <2>2, <2>5 DEF LocalOnlyInv, Runs
<1> QED
  BY <1>1, <1>2, <1>3, <1>4, <1>5 DEF Match, DefPolicyPass, DefPolicyHit, DefPolicyScan,
     DefPolicyBranch, SingleUserSweep, SingleUserScan, SLPolicySweep, Runs, TypeOK, PartOfMatcher

LEMMA LocalOnlyNext == ASSUME TypeOK, LocalOnlyInv, [Next]_vars PROVE LocalOnlyInv'
<1>1. TypeOK'
  BY TypeNext
<1>2. ASSUME NEW i \in Possible, Match(i) PROVE LocalOnlyInv'
  <2>1. CASE matcher = "local_only"
    BY <1>2, <2>1, LocalOnlyStep
  <2>2. CASE matcher # "local_only"
    <3>1. matcher' # "local_only"
      BY <1>2, <2>2, MatchGoesOn DEF Through, input
    <3> QED
      BY <1>1, <3>1 DEF LocalOnlyInv, LocalOnlySameExit, Runs, TypeOK, PartOfMatcher
  <2> QED
    BY <2>1, <2>2
<1>3. CASE SingleUserThunk
  <2>1. matcher' = "single_user" /\ pc' \in {"scan", "sweep"}
    BY <1>3 DEF SingleUserThunk, TypeOK, PartOfMatcher, input
  <2> QED
    BY <2>1 DEF LocalOnlyInv, LocalOnlySameExit, Runs
<1>4. CASE GiveUp
  BY <1>4 DEF GiveUp, LocalOnlyInv, LocalOnlySameExit, Runs
<1>5. CASE UNCHANGED vars
  BY <1>5 DEF vars, input, LocalOnlyInv, LocalOnlySameExit, Runs, Kind, After, Reached,
     CallUpTo, TestAt, SignAt, CompareAt
<1> QED
  BY <1>2, <1>3, <1>4, <1>5 DEF Next

(* LocalOnlySameExit for all functions, windows and targets.               *)
THEOREM LocalOnlySameExitHolds == Spec => []LocalOnlySameExit
<1>1. Init => TypeOK /\ LocalOnlyInv
  <2>1. Init => LocalOnlyInv
    BY DEF Init, LocalOnlyInv, LocalOnlySameExit, Runs
  <2> QED
    BY <2>1, InitTypes
<1>2. TypeOK /\ LocalOnlyInv /\ [Next]_vars => (TypeOK /\ LocalOnlyInv)'
  BY TypeNext, LocalOnlyNext
<1>3. LocalOnlyInv => LocalOnlySameExit
  BY DEF LocalOnlyInv
<1> QED
  BY <1>1, <1>2, <1>3, PTL DEF Spec

-----------------------------------------------------------------------------
(* What def_policy_patch knows: where the instruction before ip begins,    *)
(* what the last 63Ch load was; later, the load and the pair it makes.     *)
Loaded(p) == load = <<code[path[p]].base, code[path[p]].reg>>
PairAt(q) == /\ arch = "x64" /\ Kind(q) = "load638" /\ hit = path[q]
             /\ \E p \in 1 .. q - 1 : /\ LastLoad(p, q) /\ Loaded(p)
                                      /\ code[path[p]].base = code[path[q]].base
SweepKnows(n) == Runs("def_policy", "sweep") =>
  /\ n = 0 => ip = Start /\ last = 0
  /\ n >= 1 => path[n] = ip - last
  /\ load[1] # None => \E p \in 1 .. n : LastLoad(p, n + 1) /\ Loaded(p)
  /\ arch = "x86" => load[1] = None
BranchKnows(n) == pc = "branch" =>
  /\ n >= 1 /\ Kind(n) = "policy" /\ hit = path[n]
  /\ n = 1 => hit - last = path[n]
  /\ n >= 2 => hit - last = path[n - 1]
ScanKnows(n) == pc = "scan pair" => \E q \in 2 .. n : PairAt(q)
PairKnows(n) == pc = "branch pair" =>
  /\ n \in Nat /\ Kind(n) = "cmp2" /\ code[path[n]].regs = {load[2], code[hit].reg}
  /\ \E q \in 2 .. n - 1 : PairAt(q)
(* What DefPolicyFits says of the last instruction n and its jump.         *)
FieldFits(n) ==
  /\ Kind(n - 1) = "policy"
  /\ found.code = <<code[path[n - 1]].reg, code[path[n - 1]].base, Kind(n) = "jnz">>
  /\ found.offset = path[IF Kind(n) = "jnz" /\ n > 2 THEN n - 2 ELSE n - 1]
PairFits(n) ==
  /\ arch = "x64" /\ Kind(n - 1) = "cmp2"
  /\ \E q \in 2 .. n - 2 : \E p \in 1 .. q - 1 :
       /\ LastLoad(p, q) /\ Kind(q) = "load638"
       /\ code[path[p]].base = code[path[q]].base
       /\ code[path[n - 1]].regs = {code[path[p]].reg, code[path[q]].reg}
       /\ found.code = <<code[path[q]].reg, code[path[q]].base, Kind(n) = "jnz">>
       /\ found.offset = path[q]
Fits(n) == Runs("def_policy", "found") => n >= 2 /\ (FieldFits(n) \/ PairFits(n))
DefPolicyAt(n) == SweepKnows(n) /\ BranchKnows(n) /\ ScanKnows(n) /\ PairKnows(n) /\ Fits(n)
DefPolicyInv == DefPolicyAt(Len(path))

LEMMA FitsIs == Fits(Len(path)) <=> DefPolicyFits
  BY DEF Fits, FieldFits, PairFits, DefPolicyFits

LEMMA DefPolicyIs == ASSUME DefPolicyInv, NEW n, n = Len(path) PROVE DefPolicyAt(n)
  BY DEF DefPolicyInv

(* The invariant behind a step to the part p of the pattern.               *)
LEMMA DefPolicyAgain ==
  ASSUME NEW n \in Nat, Len(path') = n + 1, DefPolicyAt(n + 1)'
  PROVE  DefPolicyInv'
  BY DEF DefPolicyInv

LEMMA LoadKept ==
  ASSUME PathKept, NEW n, n = Len(path), load' = load,
         NEW q \in 1 .. n + 1, NEW p \in 1 .. q - 1, LastLoad(p, q), Loaded(p)
  PROVE  LastLoad(p, q)' /\ Loaded(p)'
<1>1. n \in Nat /\ \A k \in 1 .. n : path'[k] = path[k] /\ code'[path'[k]] = code[path[k]]
  BY DEF PathKept
<1>2. p \in 1 .. n /\ \A r \in p + 1 .. q - 1 : r \in 1 .. n
  BY <1>1
<1>3. Kind(p)' = Kind(p) /\ \A r \in p + 1 .. q - 1 : Kind(r)' = Kind(r)
  BY <1>1, <1>2 DEF Kind
<1>4. LastLoad(p, q)'
  BY <1>3 DEF LastLoad
<1>5. Loaded(p)'
  BY <1>1, <1>2 DEF Loaded
<1> QED
  BY <1>4, <1>5

LEMMA PairKept ==
  ASSUME PathKept, NEW n, n = Len(path), arch' = arch, load' = load, hit' = hit,
         NEW q \in 2 .. n, PairAt(q)
  PROVE  PairAt(q)' /\ code'[hit'] = code[hit]
<1>1. n \in Nat /\ \A k \in 1 .. n : path'[k] = path[k] /\ code'[path'[k]] = code[path[k]]
  BY DEF PathKept
<1>2. /\ arch = "x64" /\ Kind(q) = "load638" /\ hit = path[q]
      /\ path'[q] = path[q] /\ code'[path'[q]] = code[path[q]]
  BY <1>1 DEF PairAt
<1>3. PICK p \in 1 .. q - 1 : /\ LastLoad(p, q) /\ Loaded(p)
                              /\ code[path[p]].base = code[path[q]].base
  BY DEF PairAt
<1>4. p \in 1 .. n /\ q \in 1 .. n + 1
  BY <1>1
<1>5. LastLoad(p, q)' /\ Loaded(p)'
  BY <1>3, <1>4, LoadKept
<1>6. code'[path'[p]] = code[path[p]]
  BY <1>1, <1>4
<1>7. code'[path'[p]].base = code'[path'[q]].base
  BY <1>2, <1>3, <1>6
<1>8. Kind(q)' = "load638" /\ arch' = "x64" /\ hit' = path'[q]
  BY <1>2 DEF Kind
<1>9. PairAt(q)'
  BY <1>5, <1>7, <1>8 DEF PairAt
<1> QED
  BY <1>2, <1>9

(* What a step of def_policy_patch does to the path.                       *)
LEMMA GoOnKeepsPath ==
  ASSUME TypeOK, NEW i, NEW p, GoOn(i, p), NEW n, n = Len(path)
  PROVE  /\ PathKept /\ n \in Nat /\ Len(path') = n + 1
         /\ path'[n + 1] = ip /\ code'[ip] = i /\ Kind(n + 1)' = i.kind
         /\ ip' = ip + i.size /\ pc' = p /\ UNCHANGED <<matcher, arch>>
         /\ ip \in Int /\ i.size \in Nat
<1>1. Through(i, ip + i.size, p) /\ n \in Nat
  BY DEF GoOn, TypeOK
<1> QED
  BY <1>1, ThroughKeepsPath, ThroughKeeps DEF TypeOK, Through, input

(* The invariant holds behind a step if its part for the new pc does.      *)
LEMMA DefPolicyPc ==
  ASSUME NEW n
  PROVE  /\ pc' = "sweep" /\ SweepKnows(n)' => DefPolicyAt(n)'
         /\ pc' = "branch" /\ BranchKnows(n)' => DefPolicyAt(n)'
         /\ pc' = "scan pair" /\ ScanKnows(n)' => DefPolicyAt(n)'
         /\ pc' = "branch pair" /\ PairKnows(n)' => DefPolicyAt(n)'
         /\ pc' = "found" /\ Fits(n)' => DefPolicyAt(n)'
         /\ pc' \notin {"sweep", "branch", "scan pair", "branch pair", "found"} => DefPolicyAt(n)'
         /\ matcher' # "def_policy" /\ pc' \in {"sweep", "found"} => DefPolicyAt(n)'
  BY DEF DefPolicyAt, SweepKnows, BranchKnows, ScanKnows, PairKnows, Fits, Runs

LEMMA DefPolicyPassStep ==
  ASSUME TypeOK, DefPolicyInv, NEW i \in Possible, DefPolicyPass(i), NEW n, n = Len(path)
  PROVE  DefPolicyInv'
<1>1. /\ Runs("def_policy", "sweep") /\ GoOn(i, "sweep") /\ last' = i.size
      /\ load' = IF arch = "x64" /\ i.kind = "load63C" THEN <<i.base, i.reg>> ELSE load
  BY DEF DefPolicyPass
<1>2. /\ PathKept /\ n \in Nat /\ Len(path') = n + 1
      /\ path'[n + 1] = ip /\ code'[ip] = i /\ Kind(n + 1)' = i.kind
      /\ ip' = ip + i.size /\ pc' = "sweep" /\ arch' = arch
      /\ ip \in Int /\ i.size \in Nat
  BY <1>1, GoOnKeepsPath
<1>3. SweepKnows(n)
  BY DefPolicyIs DEF DefPolicyAt
<1>4. path'[n + 1] = ip' - last'
  BY <1>1, <1>2
<1>5. arch' = "x86" => load'[1] = None
  BY <1>1, <1>2, <1>3 DEF SweepKnows
<1>6. load'[1] # None => \E p \in 1 .. n + 1 : LastLoad(p, n + 2)' /\ Loaded(p)'
  <2>1. CASE arch = "x64" /\ i.kind = "load63C"
    <3>1. LastLoad(n + 1, n + 2)' /\ Loaded(n + 1)'
      BY <1>1, <1>2, <2>1 DEF LastLoad, Loaded
    <3> QED
      BY <1>2, <3>1
  <2>2. CASE ~(arch = "x64" /\ i.kind = "load63C")
    <3> SUFFICES ASSUME load'[1] # None
                 PROVE  \E p \in 1 .. n + 1 : LastLoad(p, n + 2)' /\ Loaded(p)'
      OBVIOUS
    <3>1. load' = load
      BY <1>1, <2>2
    <3>2. i.kind # "load63C"
      <4>1. arch # "x86"
        BY <1>1, <1>3, <3>1 DEF SweepKnows
      <4> QED
        BY <2>2, <4>1 DEF TypeOK
    <3>3. PICK p \in 1 .. n : LastLoad(p, n + 1) /\ Loaded(p)
      BY <1>1, <1>3, <3>1 DEF SweepKnows
    <3>4. n + 1 \in 1 .. n + 1 /\ p \in 1 .. (n + 1) - 1
      BY <1>2
    <3>5. LastLoad(p, n + 1)' /\ Loaded(p)'
      BY <1>2, <3>1, <3>3, <3>4, LoadKept
    <3>6. LastLoad(p, n + 2)'
      BY <1>2, <3>2, <3>5 DEF LastLoad
    <3> QED
      BY <1>2, <3>5, <3>6
  <2> QED
    BY <2>1, <2>2
<1>7. (n + 1) + 1 = n + 2 /\ n + 1 # 0
  BY <1>2
<1>8. SweepKnows(n + 1)'
  BY <1>4, <1>5, <1>6, <1>7 DEF SweepKnows
<1> QED
  BY <1>2, <1>8, DefPolicyPc, DefPolicyAgain

LEMMA DefPolicyHitStep ==
  ASSUME TypeOK, DefPolicyInv, NEW i \in Possible, DefPolicyHit(i), NEW n, n = Len(path)
  PROVE  DefPolicyInv'
<1>1. /\ Runs("def_policy", "sweep") /\ hit' = ip /\ last' = last /\ load' = load
      /\ \/ i.kind = "policy" /\ GoOn(i, "branch")
         \/ IsPair(i) /\ GoOn(i, "scan pair")
  BY DEF DefPolicyHit
<1>2. /\ PathKept /\ n \in Nat /\ Len(path') = n + 1
      /\ path'[n + 1] = ip /\ code'[ip] = i /\ Kind(n + 1)' = i.kind
      /\ arch' = arch /\ ip \in Int /\ last \in Nat
  BY <1>1, GoOnKeepsPath DEF TypeOK
<1>3. SweepKnows(n)
  BY DefPolicyIs DEF DefPolicyAt
<1>4. CASE i.kind = "policy" /\ GoOn(i, "branch")
  <2>1. pc' = "branch"
    BY <1>4, GoOnKeepsPath
  <2>2. n = 0 => hit' - last' = path'[1]
    <3> SUFFICES ASSUME n = 0 PROVE hit' - last' = path'[1]
      OBVIOUS
    <3>1. last = 0
      BY <1>1, <1>3 DEF SweepKnows
    <3>2. n + 1 = 1 /\ ip - 0 = ip
      BY <1>2
    <3>3. path'[1] = ip
      BY <1>2, <3>2
    <3>4. hit' - last' = ip - 0
      BY <1>1, <3>1
    <3> QED
      BY <3>2, <3>3, <3>4
  <2>3. n >= 1 => hit' - last' = path'[n]
    <3>1. n >= 1 => path[n] = ip - last
      BY <1>1, <1>3 DEF SweepKnows
    <3>2. n >= 1 => path'[n] = path[n]
      BY <1>2 DEF PathKept
    <3> QED
      BY <1>1, <3>1, <3>2
  <2>4. /\ n + 1 >= 1 /\ (n + 1 = 1 => n = 0) /\ (n + 1 >= 2 => n >= 1) /\ (n + 1) - 1 = n
    BY <1>2
  <2>5. Kind(n + 1)' = "policy" /\ hit' = path'[n + 1]
    BY <1>1, <1>2, <1>4
  <2>6. BranchKnows(n + 1)'
    BY <2>2, <2>3, <2>4, <2>5 DEF BranchKnows
  <2> QED
    BY <1>2, <2>1, <2>6, DefPolicyPc, DefPolicyAgain
<1>5. CASE IsPair(i) /\ GoOn(i, "scan pair")
  <2>1. pc' = "scan pair"
    BY <1>5, GoOnKeepsPath
  <2>2. arch = "x64" /\ i.kind = "load638" /\ load[1] # None /\ i.base = load[1]
    BY <1>5 DEF IsPair
  <2>3. PICK p \in 1 .. n : LastLoad(p, n + 1) /\ Loaded(p)
    BY <1>1, <1>3, <2>2 DEF SweepKnows
  <2>4. n + 1 \in 1 .. n + 1 /\ p \in 1 .. (n + 1) - 1 /\ n + 1 \in 2 .. n + 1
    BY <1>2
  <2>5. LastLoad(p, n + 1)' /\ Loaded(p)'
    BY <1>1, <1>2, <2>3, <2>4, LoadKept
  <2>6. code'[path'[p]].base = load'[1]
    BY <2>5 DEF Loaded
  <2>7. code'[path'[p]].base = code'[path'[n + 1]].base
    BY <1>1, <1>2, <2>2, <2>6
  <2>8. PairAt(n + 1)'
    BY <1>1, <1>2, <2>2, <2>4, <2>5, <2>7 DEF PairAt
  <2>9. ScanKnows(n + 1)'
    BY <2>4, <2>8 DEF ScanKnows
  <2> QED
    BY <1>2, <2>1, <2>9, DefPolicyPc, DefPolicyAgain
<1> QED
  BY <1>1, <1>4, <1>5

LEMMA DefPolicyScanStep ==
  ASSUME TypeOK, DefPolicyInv, NEW i \in Possible, DefPolicyScan(i), NEW n, n = Len(path)
  PROVE  DefPolicyInv'
<1>1. /\ pc = "scan pair" /\ load' = load /\ hit' = hit
      /\ \/ GoOn(i, "scan pair")
         \/ i.kind = "cmp2" /\ i.regs = {load[2], code[hit].reg} /\ GoOn(i, "branch pair")
  BY DEF DefPolicyScan, Runs
<1>2. /\ PathKept /\ n \in Nat /\ Len(path') = n + 1
      /\ path'[n + 1] = ip /\ code'[ip] = i /\ Kind(n + 1)' = i.kind /\ arch' = arch
  BY <1>1, GoOnKeepsPath
<1>3. ScanKnows(n)
  BY DefPolicyIs DEF DefPolicyAt
<1>4. PICK q \in 2 .. n : PairAt(q)
  BY <1>1, <1>3 DEF ScanKnows
<1>5. PairAt(q)' /\ code'[hit'] = code[hit]
  BY <1>1, <1>2, <1>4, PairKept
<1>6. q \in 2 .. n + 1 /\ q \in 2 .. (n + 1) - 1 /\ n + 1 \in Nat
  BY <1>2
<1>7. CASE GoOn(i, "scan pair")
  <2>1. pc' = "scan pair"
    BY <1>7, GoOnKeepsPath
  <2>2. ScanKnows(n + 1)'
    BY <1>5, <1>6 DEF ScanKnows
  <2> QED
    BY <1>2, <2>1, <2>2, DefPolicyPc, DefPolicyAgain
<1>8. CASE i.kind = "cmp2" /\ i.regs = {load[2], code[hit].reg} /\ GoOn(i, "branch pair")
  <2>1. pc' = "branch pair"
    BY <1>8, GoOnKeepsPath
  <2>2. code'[path'[n + 1]].regs = {load'[2], code'[hit'].reg}
    BY <1>1, <1>2, <1>5, <1>8
  <2>3. PairKnows(n + 1)'
    BY <1>2, <1>5, <1>6, <1>8, <2>2 DEF PairKnows
  <2> QED
    BY <1>2, <2>1, <2>3, DefPolicyPc, DefPolicyAgain
<1> QED
  BY <1>1, <1>7, <1>8

LEMMA DefPolicyBranchStep ==
  ASSUME TypeOK, DefPolicyInv, NEW i \in Possible, DefPolicyBranch(i), NEW n, n = Len(path)
  PROVE  DefPolicyInv'
<1>1. /\ GoOn(i, "found") /\ load' = load /\ hit' = hit
      /\ \/ /\ pc = "branch"
            /\ found' = [offset |-> IF i.kind = "jnz" THEN hit - last ELSE hit,
                         code |-> <<code[hit].reg, code[hit].base, i.kind = "jnz">>]
         \/ /\ pc = "branch pair"
            /\ found' = [offset |-> hit,
                         code |-> <<code[hit].reg, code[hit].base, i.kind = "jnz">>]
  BY DEF DefPolicyBranch, Report, PolicyCode
<1>2. /\ PathKept /\ n \in Nat /\ Len(path') = n + 1
      /\ Kind(n + 1)' = i.kind /\ pc' = "found" /\ arch' = arch
  BY <1>1, GoOnKeepsPath
<1>3. (n + 1) - 1 = n /\ (n + 1) - 2 = n - 1
  BY <1>2
<1>4. BranchKnows(n) /\ PairKnows(n)
  BY DefPolicyIs DEF DefPolicyAt
<1>5. CASE pc = "branch"
  <2>1. /\ n >= 1 /\ Kind(n) = "policy" /\ hit = path[n]
        /\ n = 1 => hit - last = path[n]
        /\ n >= 2 => hit - last = path[n - 1]
    BY <1>4, <1>5 DEF BranchKnows
  <2>2. /\ path'[n] = path[n] /\ code'[path'[n]] = code[hit]
        /\ n >= 2 => path'[n - 1] = path[n - 1]
    BY <1>2, <2>1 DEF PathKept
  <2>3. Kind(n)' = "policy"
    BY <2>1, <2>2 DEF Kind
  <2>4. found'.code = <<code'[path'[n]].reg, code'[path'[n]].base, Kind(n + 1)' = "jnz">>
    BY <1>1, <1>2, <1>5, <2>2
  <2>5. found'.offset = path'[IF Kind(n + 1)' = "jnz" /\ n + 1 > 2 THEN n - 1 ELSE n]
    <3>1. found'.offset = IF i.kind = "jnz" THEN hit - last ELSE hit
      BY <1>1, <1>5
    <3>2. CASE n = 1
      BY <1>2, <2>1, <2>2, <3>1, <3>2
    <3>3. CASE n >= 2
      BY <1>2, <2>1, <2>2, <3>1, <3>3
    <3> QED
      BY <1>2, <2>1, <3>2, <3>3
  <2>6. FieldFits(n + 1)'
    BY <1>3, <2>3, <2>4, <2>5 DEF FieldFits
  <2>7. n + 1 >= 2
    BY <1>2, <2>1
  <2>8. Fits(n + 1)'
    BY <2>6, <2>7 DEF Fits
  <2> QED
    BY <1>2, <2>8, DefPolicyPc, DefPolicyAgain
<1>6. CASE pc = "branch pair"
  <2>1. PICK q \in 2 .. n - 1 : PairAt(q)
    BY <1>4, <1>6 DEF PairKnows
  <2>2. Kind(n) = "cmp2" /\ code[path[n]].regs = {load[2], code[hit].reg}
    BY <1>4, <1>6 DEF PairKnows
  <2>3. q \in 2 .. n /\ n \in 1 .. n /\ n + 1 >= 2
    BY <1>2
  <2>4. PairAt(q)' /\ code'[hit'] = code[hit]
    BY <1>1, <1>2, <2>1, <2>3, PairKept
  <2>5. PICK p \in 1 .. q - 1 : /\ LastLoad(p, q)' /\ Loaded(p)'
                                /\ code'[path'[p]].base = code'[path'[q]].base
    BY <2>4 DEF PairAt
  <2>6. arch' = "x64" /\ Kind(q)' = "load638" /\ hit' = path'[q]
    BY <2>4 DEF PairAt
  <2>7. path'[n] = path[n] /\ code'[path'[n]] = code[path[n]]
    BY <1>2, <2>3 DEF PathKept
  <2>8. Kind(n)' = "cmp2"
    BY <2>2, <2>7 DEF Kind
  <2>9. code'[path'[p]].reg = load[2]
    <3>1. load'[2] = code'[path'[p]].reg
      BY <2>5 DEF Loaded
    <3> QED
      BY <1>1, <3>1
  <2>10. code'[path'[n]].regs = {code'[path'[p]].reg, code'[path'[q]].reg}
    BY <2>2, <2>4, <2>6, <2>7, <2>9
  <2>11. /\ found'.code = <<code'[path'[q]].reg, code'[path'[q]].base, Kind(n + 1)' = "jnz">>
         /\ found'.offset = path'[q]
    <3>1. code'[path'[q]] = code[hit] /\ path'[q] = hit
      BY <1>1, <2>4, <2>6
    <3>2. found' = [offset |-> hit,
                    code |-> <<code[hit].reg, code[hit].base, i.kind = "jnz">>]
      BY <1>1, <1>6
    <3>3. found'.offset = path'[q]
      BY <3>1, <3>2
    <3>4. found'.code = <<code'[path'[q]].reg, code'[path'[q]].base, i.kind = "jnz">>
      BY <3>1, <3>2
    <3> QED
      BY <1>2, <3>3, <3>4
  <2>12. PairFits(n + 1)'
    BY <1>3, <2>5, <2>6, <2>8, <2>10, <2>11 DEF PairFits
  <2>13. Fits(n + 1)'
    BY <2>3, <2>12 DEF Fits
  <2> QED
    BY <1>2, <2>13, DefPolicyPc, DefPolicyAgain
<1> QED
  BY <1>1, <1>5, <1>6

LEMMA DefPolicyNext == ASSUME TypeOK, DefPolicyInv, [Next]_vars PROVE DefPolicyInv'
<1>1. TypeOK'
  BY TypeNext
<1>2. ASSUME NEW i \in Possible, Match(i) PROVE DefPolicyInv'
  <2>1. CASE matcher = "def_policy"
    BY <1>2, <2>1, DefPolicyPassStep, DefPolicyHitStep, DefPolicyScanStep, DefPolicyBranchStep
       DEF Match, LocalOnlySweep, LocalOnlyResult, LocalOnlySign, LocalOnlyCompare,
           LocalOnlyJump, SingleUserSweep, SingleUserScan, SLPolicySweep, Runs, TypeOK,
           PartOfMatcher
  <2>2. CASE matcher # "def_policy"
    <3>1. matcher' # "def_policy"
      BY <1>2, <2>2, MatchGoesOn DEF Through, input
    <3>2. pc' \notin {"branch", "scan pair", "branch pair"}
      BY <1>1, <3>1 DEF TypeOK, PartOfMatcher
    <3> QED
      BY <3>1, <3>2, DefPolicyPc DEF DefPolicyInv
  <2> QED
    BY <2>1, <2>2
<1>3. CASE SingleUserThunk
  <2>1. matcher' = "single_user" /\ pc' \in {"scan", "sweep"}
    BY <1>3 DEF SingleUserThunk, TypeOK, PartOfMatcher, input
  <2> QED
    BY <2>1, DefPolicyPc DEF DefPolicyInv
<1>4. CASE GiveUp
  <2>1. pc' = "missed"
    BY <1>4 DEF GiveUp
  <2> QED
    BY <2>1, DefPolicyPc DEF DefPolicyInv
<1>5. CASE UNCHANGED vars
  <2>1. /\ matcher' = matcher /\ arch' = arch /\ code' = code /\ ip' = ip /\ pc' = pc
        /\ last' = last /\ load' = load /\ hit' = hit /\ found' = found /\ path' = path
    BY <1>5 DEF vars, input
  <2> DEFINE n == Len(path)
  <2>2. /\ \A p : Kind(p)' = Kind(p) /\ Loaded(p)' = Loaded(p)
        /\ \A p, q : LastLoad(p, q)' = LastLoad(p, q)
    BY <2>1 DEF Kind, Loaded, LastLoad
  <2>3. \A q : PairAt(q)' = PairAt(q)
    BY <2>1, <2>2 DEF PairAt
  <2>4. SweepKnows(n)' /\ BranchKnows(n)'
    BY <2>1, <2>2 DEF DefPolicyInv, DefPolicyAt, SweepKnows, BranchKnows, Runs
  <2>5. ScanKnows(n)' /\ PairKnows(n)'
    BY <2>1, <2>2, <2>3 DEF DefPolicyInv, DefPolicyAt, ScanKnows, PairKnows
  <2>6. Fits(n)'
    BY <2>1, <2>2 DEF DefPolicyInv, DefPolicyAt, Fits, FieldFits, PairFits, Runs
  <2> QED
    BY <2>4, <2>5, <2>6 DEF DefPolicyInv, DefPolicyAt
<1> QED
  BY <1>2, <1>3, <1>4, <1>5 DEF Next

(* DefPolicyFits for all functions, registers and windows.                 *)
THEOREM DefPolicyFitsHolds == Spec => []DefPolicyFits
<1>1. Init => TypeOK /\ DefPolicyInv
  <2>1. ASSUME Init PROVE DefPolicyAt(Len(path))
    BY <2>1 DEF Init, DefPolicyAt, SweepKnows, BranchKnows, ScanKnows, PairKnows, Fits, Runs
  <2> QED
    BY <2>1, InitTypes DEF DefPolicyInv
<1>2. TypeOK /\ DefPolicyInv /\ [Next]_vars => (TypeOK /\ DefPolicyInv)'
  BY TypeNext, DefPolicyNext
<1>3. DefPolicyInv => DefPolicyFits
  BY FitsIs DEF DefPolicyInv, DefPolicyAt
<1> QED
  BY <1>1, <1>2, <1>3, PTL DEF Spec

-----------------------------------------------------------------------------
(* What single_user_patch knows: the path is one of whole instructions, one*)
(* behind the other; each call gone through has been looked at, and is no  *)
(* call of memset, nor will it become one by what is read later.           *)
Settled(p) == Kind(p) = "call" =>
  LET to == code[path[p]].to  left == End - After(path[p])
  IN  \/ to \notin Image \/ left <= 0
      \/ code[to] # Unread /\ (code[to].kind # "thunk" \/ ~Whole(to, left, code[to]))
Memset(c) == CallsMemset(c) /\ \A p \in 1 .. c - 1 : Settled(p)
Chain(n) ==
  /\ n = 0 => ip = Start
  /\ n >= 1 => path[1] = Start /\ ip = After(path[n])
  /\ \A p \in 1 .. n - 1 : path[p + 1] = After(path[p])
LookedAt(n) == pc = "sweep" => \A p \in 1 .. n : Settled(p)
LooksAt(n)  == pc = "thunk" => /\ n >= 1 /\ hit = path[n] /\ Kind(n) = "call"
                               /\ \A p \in 1 .. n - 1 : Settled(p)
NoPatchYet(n) == pc = "scan" =>
  \E c \in 1 .. n : Memset(c) /\ \A p \in c + 1 .. n : ~CanPatch(p)
PatchAt(n) == pc = "found" =>
  /\ found = [offset |-> path[n], code |-> Kind(n)]
  /\ \E c \in 1 .. n - 1 : Memset(c) /\ \A p \in c + 1 .. n : CanPatch(p) <=> p = n
SingleUserAt(n) == Chain(n) /\ LookedAt(n) /\ LooksAt(n) /\ NoPatchYet(n) /\ PatchAt(n)
SingleUserInv == matcher = "single_user" => SingleUserAt(Len(path))

LEMMA SettledIsNoMemset ==
  ASSUME TypeOK, NEW p \in DOMAIN path, Settled(p)
  PROVE  ~CallsMemset(p)
<1> DEFINE to == code[path[p]].to
           left == End - After(path[p])
<1>1. SUFFICES ASSUME Kind(p) = "call", to \in Image, code[to] # Unread, code[to].kind = "thunk",
                      Whole(to, left, code[to])
               PROVE  FALSE
  BY DEF CallsMemset
<1>2. code[to] \in Possible
  BY <1>1 DEF TypeOK
<1>3. code[to].size \in Nat \ {0} /\ code[to].size <= left
  BY <1>1, <1>2, PossibleInstructions DEF Whole
<1>4. left \in Int
  <2>1. path[p] \in Image /\ code[path[p]] \in Possible
    BY DEF TypeOK, Decodable
  <2>2. code[path[p]].size \in Nat
    BY <2>1, PossibleInstructions
  <2> QED
    BY <2>1, <2>2, LayoutAssumption DEF After, End, Image
<1> HIDE DEF to, left
<1>5. ~(left <= 0)
  BY <1>3, <1>4
<1> QED
  BY <1>1, <1>5 DEF Settled, to, left

LEMMA SingleUserKept ==
  ASSUME PathKept, CodeKept, NEW p \in 1 .. Len(path)
  PROVE  /\ Settled(p) => Settled(p)'
         /\ CallsMemset(p) => CallsMemset(p)'
         /\ CanPatch(p)' = CanPatch(p) /\ Kind(p)' = Kind(p)
         /\ After(path[p])' = After(path[p]) /\ path'[p] = path[p]
<1>1. path'[p] = path[p] /\ code'[path'[p]] = code[path[p]]
  BY DEF PathKept
<1>2. After(path[p])' = After(path[p]) /\ Kind(p)' = Kind(p)
  BY <1>1 DEF After, Kind
<1>3. \A a \in Image : code[a] # Unread => code'[a] = code[a]
  BY DEF CodeKept
<1>4. Settled(p) => Settled(p)'
  BY <1>1, <1>2, <1>3 DEF Settled, Whole, End
<1>5. CallsMemset(p) => CallsMemset(p)'
  BY <1>1, <1>2, <1>3 DEF CallsMemset, Whole, End
<1> QED
  BY <1>1, <1>2, <1>4, <1>5 DEF CanPatch

LEMMA MemsetKept ==
  ASSUME PathKept, CodeKept, NEW c \in 1 .. Len(path), Memset(c)
  PROVE  Memset(c)'
<1>1. CallsMemset(c)'
  BY SingleUserKept DEF Memset
<1>2. ASSUME NEW p \in 1 .. c - 1 PROVE Settled(p)'
  <2>1. p \in 1 .. Len(path) /\ Settled(p)
    BY DEF PathKept, Memset
  <2> QED
    BY <2>1, SingleUserKept
<1> QED
  BY <1>1, <1>2 DEF Memset

LEMMA ChainGoesOn ==
  ASSUME TypeOK, NEW i, NEW q, GoOn(i, q), NEW n, n = Len(path), Chain(n)
  PROVE  Chain(n + 1)' /\ CodeKept
<1>1. /\ PathKept /\ n \in Nat /\ path'[n + 1] = ip /\ code'[ip] = i /\ ip' = ip + i.size
  BY GoOnKeepsPath
<1>2. CodeKept
  BY ThroughKeeps DEF GoOn
<1>3. ip' = After(path[n + 1])'
  BY <1>1 DEF After
<1>4. path'[1] = Start
  <2>1. CASE n = 0
    BY <1>1, <2>1 DEF Chain
  <2>2. CASE n # 0
    BY <1>1, <2>2 DEF Chain, PathKept
  <2> QED
    BY <2>1, <2>2
<1>5. ASSUME NEW p \in 1 .. n PROVE path'[p + 1] = After(path[p])'
  <2>1. After(path[p])' = After(path[p])
    BY <1>1, <1>2, SingleUserKept
  <2>2. CASE p = n
    BY <1>1, <2>1, <2>2 DEF Chain
  <2>3. CASE p # n
    <3>1. p \in 1 .. n - 1 /\ p + 1 \in 1 .. n
      BY <1>1, <2>3
    <3> QED
      BY <1>1, <2>1, <3>1 DEF Chain, PathKept
  <2> QED
    BY <2>2, <2>3
<1>6. n + 1 # 0 /\ (n + 1) - 1 = n
  BY <1>1
<1> QED
  BY <1>2, <1>3, <1>4, <1>5, <1>6 DEF Chain

LEMMA SingleUserSweepStep ==
  ASSUME TypeOK, SingleUserInv, NEW i \in Possible, SingleUserSweep(i), NEW n, n = Len(path)
  PROVE  SingleUserAt(n + 1)'
<1>1. /\ SingleUserAt(n) /\ pc = "sweep" /\ hit' = ip
      /\ GoOn(i, IF i.kind = "call" THEN "thunk" ELSE "sweep")
  BY DEF SingleUserSweep, Runs, SingleUserInv
<1>2. /\ PathKept /\ n \in Nat /\ path'[n + 1] = ip /\ Kind(n + 1)' = i.kind
      /\ pc' = IF i.kind = "call" THEN "thunk" ELSE "sweep"
  <2>1. ASSUME NEW p, GoOn(i, p)
        PROVE  /\ PathKept /\ n \in Nat /\ path'[n + 1] = ip /\ Kind(n + 1)' = i.kind
               /\ pc' = p
    BY <2>1, GoOnKeepsPath
  <2> QED
    BY <1>1, <2>1
<1>3. Chain(n + 1)' /\ CodeKept
  BY <1>1, ChainGoesOn DEF SingleUserAt
<1>4. ASSUME NEW p \in 1 .. n PROVE Settled(p)'
  BY <1>1, <1>2, <1>3, SingleUserKept DEF SingleUserAt, LookedAt
<1>5. i.kind # "call" => Settled(n + 1)'
  BY <1>2 DEF Settled
<1>6. \A p \in 1 .. n + 1 : p \in 1 .. n \/ p = n + 1
  BY <1>2
<1>7. LookedAt(n + 1)'
  BY <1>2, <1>4, <1>5, <1>6 DEF LookedAt
<1>8. LooksAt(n + 1)'
  <2>1. n + 1 >= 1 /\ (n + 1) - 1 = n
    BY <1>2
  <2> QED
    BY <1>1, <1>2, <1>4, <2>1 DEF LooksAt
<1> QED
  BY <1>2, <1>3, <1>7, <1>8 DEF SingleUserAt, NoPatchYet, PatchAt

(* Where the path stays, so do the facts about it.                         *)
LEMMA StaysKnown ==
  ASSUME TypeOK, Stays, NEW n, n = Len(path), Chain(n)
  PROVE  PathKept /\ CodeKept /\ n \in Nat /\ Len(path') = n /\ Chain(n)'
<1>1. PathKept /\ CodeKept /\ n \in Nat /\ path' = path /\ ip' = ip
  <2>1. \A k \in DOMAIN path : path[k] \in Image /\ code[path[k]] # Unread
    BY DEF TypeOK, Decodable
  <2> QED
    BY <2>1 DEF Stays, PathKept, CodeKept, TypeOK
<1>2. \A p \in 1 .. n : After(path[p])' = After(path[p])
  BY <1>1, SingleUserKept
<1>3. n >= 1 => n \in 1 .. n
  BY <1>1
<1>4. \A p \in 1 .. n - 1 : p \in 1 .. n
  BY <1>1
<1> QED
  BY <1>1, <1>2, <1>3, <1>4 DEF Chain

LEMMA SingleUserThunkStep ==
  ASSUME TypeOK, SingleUserInv, SingleUserThunk, NEW n, n = Len(path)
  PROVE  SingleUserAt(n)'
<1> DEFINE to == code[hit].to
           left == End - ip
<1>1. Stays /\ matcher = "single_user" /\ pc = "thunk"
  BY ThunkStays DEF SingleUserThunk, TypeOK, PartOfMatcher
<1>2. /\ Chain(n) /\ n >= 1 /\ hit = path[n] /\ Kind(n) = "call"
      /\ \A p \in 1 .. n - 1 : Settled(p)
  BY <1>1 DEF SingleUserInv, SingleUserAt, LooksAt
<1>3. PathKept /\ CodeKept /\ n \in Nat /\ Chain(n)' /\ n \in 1 .. n
  BY <1>1, <1>2, StaysKnown
<1>4. ASSUME NEW p \in 1 .. n - 1 PROVE Settled(p)'
  <2>1. p \in 1 .. n
    BY <1>3
  <2> QED
    BY <1>2, <1>3, <2>1, SingleUserKept
<1>5. /\ code'[path'[n]].to = to /\ End - After(path[n])' = left /\ Kind(n)' = "call"
  <2>1. ip = After(path[n])
    BY <1>2 DEF Chain
  <2>2. code'[path'[n]] = code[path[n]]
    BY <1>3 DEF PathKept
  <2> QED
    BY <1>2, <1>3, <2>1, <2>2, SingleUserKept
<1> HIDE DEF to, left
<1>6. ASSUME NEW j \in Possible, DecodeOne(to, left, j)
      PROVE  to \in Image /\ code'[to] = j /\ j # Unread /\ Whole(to, left, j)
  BY <1>1, <1>6, DecodeOneKeeps, PossibleInstructions DEF Stays
<1>7. CASE \E j \in Possible : DecodeOne(to, left, j) /\ j.kind = "thunk" /\ pc' = "scan"
  <2>1. CallsMemset(n)'
    BY <1>5, <1>6, <1>7 DEF CallsMemset, Whole, End
  <2>2. Memset(n)' /\ \A p \in n + 1 .. n : ~CanPatch(p)'
    BY <1>3, <1>4, <2>1 DEF Memset
  <2>3. NoPatchYet(n)'
    BY <1>3, <2>2 DEF NoPatchYet
  <2> QED
    BY <1>3, <1>7, <2>3 DEF SingleUserAt, LookedAt, LooksAt, PatchAt
<1>8. CASE pc' = "sweep" /\ Settled(n)'
  <2>1. \A p \in 1 .. n : p \in 1 .. n - 1 \/ p = n
    BY <1>3
  <2>2. LookedAt(n)'
    BY <1>4, <1>8, <2>1 DEF LookedAt
  <2> QED
    BY <1>3, <1>8, <2>2 DEF SingleUserAt, LooksAt, NoPatchYet, PatchAt
<1>9. ASSUME NEW j \in Possible, DecodeOne(to, left, j), j.kind # "thunk" PROVE Settled(n)'
  BY <1>5, <1>6, <1>9 DEF Settled
<1>10. ASSUME DecodeNone(to, left) PROVE Settled(n)'
  <2>1. \/ to \notin Image \/ left <= 0
        \/ to \in Image /\ \E j \in At(to) : ~Whole(to, left, j) /\ code' = [code EXCEPT ![to] = j]
    BY <1>10 DEF DecodeNone
  <2>2. CASE to \notin Image \/ left <= 0
    BY <1>5, <2>2 DEF Settled
  <2>3. ASSUME to \in Image, NEW j \in At(to), ~Whole(to, left, j), code' = [code EXCEPT ![to] = j]
        PROVE  Settled(n)'
    <3>1. code'[to] = j /\ j # Unread
      BY <2>3, PossibleInstructions DEF TypeOK, At
    <3> QED
      BY <1>5, <2>3, <3>1 DEF Settled, Whole, End
  <2> QED
    BY <2>1, <2>2, <2>3
<1> QED
  BY <1>7, <1>8, <1>9, <1>10 DEF SingleUserThunk, to, left

LEMMA SingleUserScanStep ==
  ASSUME TypeOK, SingleUserInv, NEW i \in Possible, SingleUserScan(i), NEW n, n = Len(path)
  PROVE  SingleUserAt(n + 1)'
<1>1. /\ SingleUserAt(n) /\ pc = "scan"
      /\ \/ /\ i.kind \in {"verify", "cmp_ok"} /\ GoOn(i, "found")
            /\ found' = [offset |-> ip, code |-> i.kind]
         \/ i.kind \notin {"verify", "cmp_ok"} /\ GoOn(i, "scan")
  BY DEF SingleUserScan, Runs, SingleUserInv, Report
<1>2. /\ PathKept /\ n \in Nat /\ path'[n + 1] = ip /\ Kind(n + 1)' = i.kind
      /\ pc' = IF i.kind \in {"verify", "cmp_ok"} THEN "found" ELSE "scan"
  BY <1>1, GoOnKeepsPath
<1>3. Chain(n + 1)' /\ CodeKept
  BY <1>1, ChainGoesOn DEF SingleUserAt
<1>4. PICK c \in 1 .. n : Memset(c) /\ \A p \in c + 1 .. n : ~CanPatch(p)
  BY <1>1 DEF SingleUserAt, NoPatchYet
<1>5. Memset(c)'
  BY <1>3, <1>2, <1>4, MemsetKept
<1>6. ASSUME NEW p \in c + 1 .. n PROVE ~CanPatch(p)'
  <2>1. p \in 1 .. n
    BY <1>2
  <2> QED
    BY <1>2, <1>3, <1>4, <2>1, SingleUserKept
<1>7. /\ \A p \in c + 1 .. n + 1 : p \in c + 1 .. n \/ p = n + 1
      /\ n + 1 \notin c + 1 .. n /\ c \in 1 .. n + 1 /\ c \in 1 .. (n + 1) - 1
  BY <1>2
<1>8. CanPatch(n + 1)' <=> i.kind \in {"verify", "cmp_ok"}
  BY <1>2 DEF CanPatch
<1>9. CASE i.kind \in {"verify", "cmp_ok"}
  <2>1. found' = [offset |-> path'[n + 1], code |-> Kind(n + 1)']
    BY <1>1, <1>2, <1>9
  <2>2. \A p \in c + 1 .. n + 1 : CanPatch(p)' <=> p = n + 1
    BY <1>6, <1>7, <1>8, <1>9
  <2>3. PatchAt(n + 1)'
    BY <1>5, <1>7, <2>1, <2>2 DEF PatchAt
  <2> QED
    BY <1>2, <1>3, <1>9, <2>3 DEF SingleUserAt, LookedAt, LooksAt, NoPatchYet
<1>10. CASE i.kind \notin {"verify", "cmp_ok"}
  <2>1. NoPatchYet(n + 1)'
    BY <1>5, <1>6, <1>7, <1>8, <1>10 DEF NoPatchYet
  <2> QED
    BY <1>2, <1>3, <1>10, <2>1 DEF SingleUserAt, LookedAt, LooksAt, PatchAt
<1> QED
  BY <1>9, <1>10

LEMMA SingleUserNext == ASSUME TypeOK, SingleUserInv, [Next]_vars PROVE SingleUserInv'
<1> PICK n : n = Len(path)
  OBVIOUS
<1>1. ASSUME NEW i \in Possible, Match(i) PROVE SingleUserInv'
  <2>1. PICK a \in Int : \E q : Through(i, a, q)
    BY <1>1, MatchGoesOn
  <2>2. matcher' = matcher /\ Len(path') = n + 1
    BY <2>1, ThroughKeepsPath
  <2>3. CASE matcher = "single_user"
    <3>1. SingleUserSweep(i) \/ SingleUserScan(i)
      BY <1>1, <2>3 DEF Match, LocalOnlySweep, LocalOnlyResult, LocalOnlySign, LocalOnlyCompare,
           LocalOnlyJump, DefPolicyPass, DefPolicyHit, DefPolicyScan, DefPolicyBranch,
           SLPolicySweep, Runs, TypeOK, PartOfMatcher
    <3>2. SingleUserAt(n + 1)'
      BY <3>1, SingleUserSweepStep, SingleUserScanStep
    <3> QED
      BY <2>2, <3>2 DEF SingleUserInv
  <2> QED
    BY <2>2, <2>3 DEF SingleUserInv
<1>2. CASE SingleUserThunk
  <2>1. SingleUserAt(n)' /\ path' = path
    BY <1>2, SingleUserThunkStep DEF SingleUserThunk
  <2> QED
    BY <2>1 DEF SingleUserInv
<1>3. CASE GiveUp
  <2>1. Stays /\ pc' = "missed" /\ matcher' = matcher
    BY <1>3, GiveUpStays DEF GiveUp, input
  <2>2. CASE matcher = "single_user"
    <3>1. Chain(n)' /\ Len(path') = n
      BY <2>1, <2>2, StaysKnown DEF SingleUserInv, SingleUserAt
    <3> QED
      BY <2>1, <3>1 DEF SingleUserInv, SingleUserAt, LookedAt, LooksAt, NoPatchYet, PatchAt
  <2> QED
    BY <2>1, <2>2 DEF SingleUserInv
<1>4. CASE UNCHANGED vars
  <2>1. /\ matcher' = matcher /\ code' = code /\ ip' = ip /\ pc' = pc
        /\ hit' = hit /\ found' = found /\ path' = path
    BY <1>4 DEF vars, input
  <2>2. /\ \A p : Kind(p)' = Kind(p) /\ CanPatch(p)' = CanPatch(p)
        /\ \A a : After(a)' = After(a)
    BY <2>1 DEF Kind, CanPatch, After
  <2>3. \A p : Settled(p)' = Settled(p) /\ CallsMemset(p)' = CallsMemset(p)
    BY <2>1, <2>2 DEF Settled, CallsMemset, Whole, End
  <2>4. \A p : Memset(p)' = Memset(p)
    BY <2>3 DEF Memset
  <2> QED
    BY <2>1, <2>2, <2>3, <2>4 DEF SingleUserInv, SingleUserAt, Chain, LookedAt, LooksAt,
       NoPatchYet, PatchAt
<1> QED
  BY <1>1, <1>2, <1>3, <1>4 DEF Next

(* SingleUserFits for all functions, thunks and windows.                   *)
THEOREM SingleUserFitsHolds == Spec => []SingleUserFits
<1>1. Init => TypeOK /\ SingleUserInv
  <2>1. ASSUME Init PROVE SingleUserAt(0) /\ Len(path) = 0
    BY <2>1 DEF Init, SingleUserAt, Chain, LookedAt, LooksAt, NoPatchYet, PatchAt
  <2> QED
    BY <2>1, InitTypes DEF SingleUserInv
<1>2. TypeOK /\ SingleUserInv /\ [Next]_vars => (TypeOK /\ SingleUserInv)'
  BY TypeNext, SingleUserNext
<1>3. ASSUME TypeOK, SingleUserInv PROVE SingleUserFits
  <2>1. SUFFICES ASSUME Runs("single_user", "found"), NEW n, n = Len(path)
                 PROVE  /\ found = [offset |-> path[n], code |-> Kind(n)]
                        /\ path[1] = Start /\ \A p \in 1 .. n - 1 : path[p + 1] = After(path[p])
                        /\ \E c \in 1 .. n - 1 : /\ FirstMemset(c)
                                                  /\ \A p \in c + 1 .. n : CanPatch(p) <=> p = n
    BY DEF SingleUserFits
  <2>2. Chain(n) /\ PatchAt(n) /\ pc = "found" /\ n \in Nat /\ DOMAIN path = 1 .. n
    BY <1>3, <2>1 DEF SingleUserInv, SingleUserAt, Runs, TypeOK
  <2>3. PICK c \in 1 .. n - 1 : Memset(c) /\ \A p \in c + 1 .. n : CanPatch(p) <=> p = n
    BY <2>2 DEF PatchAt
  <2>4. FirstMemset(c)
    <3>1. \A p \in 1 .. c - 1 : p \in DOMAIN path
      BY <2>2
    <3> QED
      BY <1>3, <2>3, <3>1, SettledIsNoMemset DEF Memset, FirstMemset
  <2>5. n >= 1
    BY <2>2
  <2> QED
    BY <2>2, <2>3, <2>4, <2>5 DEF PatchAt, Chain
<1> QED
  BY <1>1, <1>2, <1>3, PTL DEF Spec

-----------------------------------------------------------------------------
(* A pair is only looked for once a load has given its base.               *)
PairLoaded == pc \in {"scan pair", "branch pair"} => load[1] # None

LEMMA PairLoadedNext == ASSUME PairLoaded, [Next]_vars PROVE PairLoaded'
BY DEF PairLoaded, Next, vars, Match, LocalOnlySweep, LocalOnlyResult, LocalOnlySign,
     LocalOnlyCompare, LocalOnlyJump, DefPolicyPass, DefPolicyHit, DefPolicyScan,
     DefPolicyBranch, SingleUserSweep, SingleUserScan, SLPolicySweep, SingleUserThunk, GiveUp,
     Report, GoOn, Through, IsPair, Runs

(* The next instruction is not to be had, or it is what ends the search.   *)
Refused ==
  \/ ~Decodable(ip)
  \/ matcher = "def_policy" /\ code[ip].kind = "policy" /\ code[ip].base = None
  \/ matcher = "sl_policy" /\ code[ip].kind = "test"

LEMMA NoneIsRefused ==
  ASSUME TypeOK, UNCHANGED <<input, ip>>, DecodeNone(ip, End - ip)
  PROVE  ~Decodable(ip)'
<1>1. CASE ip \notin Image
  BY <1>1 DEF Decodable, Image
<1>2. CASE End - ip <= 0 /\ ip \in Image /\ UNCHANGED code
  <2>1. SUFFICES ASSUME code[ip] # Unread, Whole(ip, End - ip, code[ip]) PROVE FALSE
    BY <1>2 DEF Decodable, Whole, End
  <2>2. code[ip].size \in Nat \ {0} /\ code[ip].size <= End - ip
    BY <1>2, <2>1, PossibleInstructions DEF TypeOK, Whole
  <2> QED
    BY <1>2, <2>2, LayoutAssumption DEF TypeOK, End
<1>3. ASSUME ip \in Image, NEW j \in At(ip), ~Whole(ip, End - ip, j),
             code' = [code EXCEPT ![ip] = j]
      PROVE  ~Decodable(ip)'
  <2>1. code'[ip] = j
    BY <1>3 DEF TypeOK
  <2> QED
    BY <1>3, <2>1 DEF Decodable, Whole, End
<1> QED
  BY <1>1, <1>2, <1>3 DEF DecodeNone

(* Behind the begin of a pattern the path holds the instruction it began   *)
(* with.                                                                   *)
LEMMA PatternBegan ==
  ASSUME TypeOK, LocalOnlyInv, DefPolicyInv, PairLoaded
  PROVE  pc \in {"result", "sign", "compare", "jump", "branch", "branch pair"} => ~NothingBegan
<1>0. PICK n \in Nat : n = Len(path) /\ DOMAIN path = 1 .. n
  <2>1. Len(path) \in Nat /\ DOMAIN path = 1 .. Len(path)
    BY DEF TypeOK
  <2> QED
    BY <2>1
<1>1. n \in Nat /\ DOMAIN path = 1 .. n
  BY <1>0
<1>2. CASE pc \in {"result", "sign", "compare", "jump"}
  <2>1. matcher = "local_only"
    BY <1>2 DEF TypeOK, PartOfMatcher
  <2>2. \E m \in Int : m <= n /\ CallUpTo(m)
    <3>1. n \in Int /\ n - 1 \in Int /\ n - 1 <= n /\ n - 1 - 1 \in Int /\ n - 1 - 1 <= n
          /\ n - 1 - 1 - 1 \in Int /\ n - 1 - 1 - 1 <= n /\ n <= n
      BY <1>1
    <3>2. CASE pc = "result"
      BY <1>0, <3>1, <3>2 DEF LocalOnlyInv
    <3>3. CASE pc = "sign"
      BY <1>0, <3>1, <3>3 DEF LocalOnlyInv, TestAt
    <3>4. CASE pc = "compare"
      BY <1>0, <3>1, <3>4 DEF LocalOnlyInv, SignAt, TestAt
    <3>5. CASE pc = "jump"
      BY <1>0, <3>1, <3>5 DEF LocalOnlyInv, CompareAt, SignAt, TestAt
    <3> QED
      BY <1>2, <3>2, <3>3, <3>4, <3>5
  <2>3. \E c \in 1 .. n : Kind(c) = "call"
    BY <1>1, <2>2 DEF CallUpTo
  <2> QED
    BY <1>1, <2>1, <2>3 DEF NothingBegan
<1>3. CASE pc = "branch"
  <2>1. matcher = "def_policy"
    BY <1>3 DEF TypeOK, PartOfMatcher
  <2>2. n >= 1 /\ Kind(n) = "policy"
    BY <1>0, <1>3, DefPolicyIs DEF DefPolicyAt, BranchKnows
  <2>3. n \in DOMAIN path
    BY <1>1, <2>2
  <2>4. NothingBegan => \A q \in DOMAIN path : Kind(q) # "policy"
    BY <2>1 DEF NothingBegan
  <2> QED
    BY <2>2, <2>3, <2>4
<1>4. CASE pc = "branch pair"
  <2>1. matcher = "def_policy" /\ load[1] # None
    BY <1>4 DEF TypeOK, PartOfMatcher, PairLoaded
  <2>2. PICK q \in 2 .. n - 1 : PairAt(q)
    BY <1>0, <1>4, DefPolicyIs DEF DefPolicyAt, PairKnows
  <2>3. PICK p \in 1 .. q - 1 : /\ LastLoad(p, q) /\ Loaded(p)
                                /\ code[path[p]].base = code[path[q]].base
    BY <2>2 DEF PairAt
  <2>4. arch = "x64" /\ Kind(q) = "load638" /\ q \in DOMAIN path
    BY <1>1, <2>2 DEF PairAt
  <2>5. code[path[p]].base # None
    BY <2>1, <2>3 DEF Loaded
  <2> QED
    BY <2>1, <2>3, <2>4, <2>5 DEF NothingBegan
<1> QED
  BY <1>2, <1>3, <1>4

(* Where the path stays, so does what began on it.                         *)
LEMMA BeganKept ==
  ASSUME TypeOK, Stays, matcher # "single_user", ~NothingBegan
  PROVE  ~NothingBegan'
<1>1. path' = path /\ matcher' = matcher /\ arch' = arch
  BY DEF Stays, input
<1>2. ASSUME NEW k \in DOMAIN path
      PROVE  code'[path'[k]] = code[path[k]] /\ Kind(k)' = Kind(k)
  <2>1. path[k] \in Image /\ code[path[k]] # Unread
    BY DEF TypeOK, Decodable
  <2> QED
    BY <1>1, <2>1 DEF Stays, CodeKept, Kind
<1>3. matcher \in {"local_only", "def_policy", "sl_policy"}
  BY MatchersAssumption DEF TypeOK
<1>4. CASE matcher = "local_only"
  BY <1>1, <1>2, <1>4 DEF NothingBegan
<1>5. CASE matcher = "sl_policy"
  BY <1>1, <1>2, <1>5 DEF NothingBegan
<1>6. CASE matcher = "def_policy"
  <2>1. PICK q \in DOMAIN path :
          \/ Kind(q) = "policy"
          \/ /\ Kind(q) = "load638" /\ arch = "x64"
             /\ \E p \in 1 .. q - 1 : /\ LastLoad(p, q)
                                       /\ code[path[p]].base = code[path[q]].base
                                       /\ code[path[p]].base # None
    BY <1>6 DEF NothingBegan
  <2>2. ASSUME NEW p \in 1 .. q - 1, LastLoad(p, q)
        PROVE  LastLoad(p, q)' /\ code'[path'[p]] = code[path[p]]
    <3>1. \A r \in 1 .. q - 1 : r \in DOMAIN path
      BY DEF TypeOK
    <3>2. p \in 1 .. q - 1 /\ \A r \in p + 1 .. q - 1 : r \in 1 .. q - 1
      BY DEF TypeOK
    <3> QED
      BY <1>2, <2>2, <3>1, <3>2 DEF LastLoad
  <2>3. CASE Kind(q) = "policy"
    BY <1>1, <1>2, <1>6, <2>3 DEF NothingBegan
  <2>4. CASE Kind(q) # "policy"
    <3>1. PICK p \in 1 .. q - 1 : /\ LastLoad(p, q)
                                  /\ code[path[p]].base = code[path[q]].base
                                  /\ code[path[p]].base # None
      BY <2>1, <2>4
    <3>2. /\ LastLoad(p, q)' /\ code'[path'[p]].base = code'[path'[q]].base
          /\ code'[path'[p]].base # None /\ Kind(q)' = "load638" /\ arch' = "x64"
      BY <1>1, <1>2, <2>1, <2>2, <2>4, <3>1
    <3> QED
      BY <1>1, <1>6, <3>2 DEF NothingBegan
  <2> QED
    BY <2>3, <2>4
<1> QED
  BY <1>3, <1>4, <1>5, <1>6

WindowInv == TypeOK /\ LocalOnlyInv /\ DefPolicyInv /\ PairLoaded /\ WindowIsRead

LEMMA GiveUpWindow == ASSUME WindowInv, GiveUp PROVE WindowIsRead'
<1>1. TypeOK /\ LocalOnlyInv /\ DefPolicyInv /\ PairLoaded /\ Stays
  BY GiveUpStays DEF WindowInv
<1>2. UNCHANGED <<input, ip>> /\ matcher' = matcher
  BY DEF GiveUp, input
<1>3. CASE DecodeNone(ip, End - ip)
  BY <1>1, <1>2, <1>3, NoneIsRefused DEF WindowIsRead
<1>4. ASSUME NEW i \in Possible, DecodeOne(ip, End - ip, i), Breaks(i) PROVE WindowIsRead'
  <2>1. code'[ip] = i
    BY <1>1, <1>2, <1>4, DecodeOneKeeps
  <2>2. CASE pc \in {"result", "sign", "compare", "jump", "branch", "branch pair"}
    <3>1. ~NothingBegan /\ matcher # "single_user"
      BY <1>1, <2>2, PatternBegan DEF TypeOK, PartOfMatcher
    <3> QED
      BY <1>1, <3>1, BeganKept DEF WindowIsRead
  <2>3. CASE matcher = "def_policy" /\ i.kind = "policy" /\ i.base = None
    BY <1>2, <2>1, <2>3 DEF WindowIsRead
  <2>4. CASE matcher = "sl_policy" /\ i.kind = "test"
    BY <1>2, <2>1, <2>4 DEF WindowIsRead
  <2> QED
    BY <1>4, <2>2, <2>3, <2>4 DEF Breaks, Runs
<1> QED
  BY <1>3, <1>4 DEF GiveUp

(* WindowIsRead for all functions and windows.                             *)
THEOREM WindowIsReadHolds == Spec => []WindowIsRead
<1>1. Init => WindowInv
  <2>1. ASSUME Init PROVE DefPolicyAt(Len(path)) /\ LocalOnlyInv /\ PairLoaded /\ WindowIsRead
    BY <2>1 DEF Init, DefPolicyAt, SweepKnows, BranchKnows, ScanKnows, PairKnows, Fits, Runs,
         LocalOnlyInv, LocalOnlySameExit, PairLoaded, WindowIsRead
  <2> QED
    BY <2>1, InitTypes DEF DefPolicyInv, WindowInv
<1>2. ASSUME WindowInv, [Next]_vars PROVE WindowInv'
  <2>1. TypeOK' /\ LocalOnlyInv' /\ DefPolicyInv' /\ PairLoaded'
    BY <1>2, TypeNext, LocalOnlyNext, DefPolicyNext, PairLoadedNext DEF WindowInv
  <2>2. ASSUME NEW i \in Possible, Match(i) PROVE pc' # "missed"
    BY <2>2 DEF Match, LocalOnlySweep, LocalOnlyResult, LocalOnlySign,
         LocalOnlyCompare, LocalOnlyJump, DefPolicyPass, DefPolicyHit, DefPolicyScan,
         DefPolicyBranch, SingleUserSweep, SingleUserScan, SLPolicySweep, Report, GoOn, Through
  <2>3. SingleUserThunk => pc' # "missed"
    BY DEF SingleUserThunk
  <2>4. UNCHANGED vars => WindowIsRead'
    BY <1>2 DEF vars, input, WindowInv, WindowIsRead, NothingBegan, Decodable, Whole, End, Kind,
         CallsMemset, CanPatch, After, LastLoad
  <2>5. WindowIsRead'
    BY <1>2, <2>2, <2>3, <2>4, GiveUpWindow DEF Next, WindowIsRead
  <2> QED
    BY <2>1, <2>5 DEF WindowInv
<1>3. WindowInv => WindowIsRead
  BY DEF WindowInv
<1> QED
  BY <1>1, <1>2, <1>3, PTL DEF Spec
=============================================================================
