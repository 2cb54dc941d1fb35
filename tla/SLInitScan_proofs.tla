-------------------------- MODULE SLInitScan_proofs --------------------------
(***************************************************************************)
(* For functions of every length and any policies: what the SLInit scans   *)
(* give each variable is determined by the path they take.                 *)
(***************************************************************************)
EXTENDS SLInitScan, TLAPS

(* The strings before step p; the last of them, if any, is waited for.     *)
StringsBefore(p) == {q \in 1 .. p - 1 : KindAt(q) = "string"}
LastString(p, q) == q \in StringsBefore(p) /\ \A r \in StringsBefore(p) : r <= q
WaitsRight(p) ==
  \/ StringsBefore(p) = {} /\ WaitedFor(p) = "bServerSku"
  \/ \E q \in 1 .. p - 1 :
       LastString(p, q) /\ WaitedFor(p) = code[trace[q]].of /\ WaitedFor(p) \in Policies

(* FirstStoreBehindString without Min and Max.                             *)
FirstStore(n, p) == p \in StoresFor(n) /\ \A q \in StoresFor(n) : p <= q
GivenFirst(n) ==
  \/ StoresFor(n) = {} /\ variables[n] = 0
  \/ \E p \in DOMAIN trace : FirstStore(n, p) /\ variables[n] = trace[p]

RestKind == IF variant = "x64_short" THEN "store" ELSE "one"
Left(p)  == KindAt(p) = RestKind /\ \A n \in Names : ~FirstStore(n, p)
GivenLast ==
  \/ (\A p \in DOMAIN trace : ~Left(p)) /\ variables["bInitialized"] = 0
  \/ \E p \in DOMAIN trace :
       /\ Left(p) /\ variables["bInitialized"] = trace[p]
       /\ \A q \in DOMAIN trace : Left(q) => q <= p

FileOK == variant \in Variants /\ code \in [Inside -> Code]
IInv ==
  /\ FileOK /\ TypeOK
  /\ pc = "scan" => Len(trace) < MaxSteps + ip /\ current = WaitedFor(Len(trace) + 1)
  /\ \A p \in 1 .. Len(trace) + 1 : WaitsRight(p)
  /\ \A n \in Names \ {"bInitialized"} : GivenFirst(n)
  /\ GivenLast

(* The least and the greatest element of a set of numbers.                 *)
LEMMA MinIs == ASSUME NEW S \in SUBSET Int, NEW m \in S, \A x \in S : m <= x PROVE Min(S) = m
<1>1. Min(S) \in S /\ \A x \in S : Min(S) <= x
  BY Zenon DEF Min
<1>2. m \in Int /\ Min(S) \in Int /\ m <= Min(S) /\ Min(S) <= m
  BY <1>1
<1> QED BY <1>2
LEMMA MaxIs == ASSUME NEW S \in SUBSET Int, NEW m \in S, \A x \in S : m >= x PROVE Max(S) = m
<1>1. Max(S) \in S /\ \A x \in S : Max(S) >= x
  BY Zenon DEF Max
<1>2. m \in Int /\ Max(S) \in Int /\ m >= Max(S) /\ Max(S) >= m
  BY <1>1
<1> QED BY <1>2

WaitedIsOf(p) ==
  /\ StringsBefore(p) = {} => WaitedFor(p) = "bServerSku"
  /\ \A q \in 1 .. p - 1 : LastString(p, q) => WaitedFor(p) = code[trace[q]].of

EachWaitedIs == \A p \in Nat : WaitedIsOf(p)

LEMMA WaitedIs == EachWaitedIs
<1> SUFFICES ASSUME NEW p \in Nat PROVE WaitedIsOf(p)
  BY DEF EachWaitedIs
<1>1. WaitedFor(p) = IF StringsBefore(p) = {} THEN "bServerSku"
                     ELSE code[trace[Max(StringsBefore(p))]].of
  BY DEF WaitedFor, StringsBefore
<1>2. ASSUME NEW q \in 1 .. p - 1, LastString(p, q)
      PROVE  StringsBefore(p) # {} /\ Max(StringsBefore(p)) = q
  <2>1. StringsBefore(p) \in SUBSET Int
    BY DEF StringsBefore
  <2>2. q \in StringsBefore(p) /\ \A r \in StringsBefore(p) : q >= r
    BY <2>1, <1>2 DEF LastString
  <2> QED
    BY <2>1, <2>2, MaxIs
<1> QED
  BY <1>1, <1>2 DEF WaitedIsOf

(* The instruction at ip is scanned.                                       *)
Scanned ==
  /\ AtInstruction
  /\ trace' = Append(trace, ip)
  /\ UNCHANGED file

LEMMA TraceGrows ==
  ASSUME IInv, Scanned, NEW n, n = Len(trace)
  PROVE  /\ n \in Nat /\ Len(trace') = n + 1
         /\ trace' \in Seq(Inside) /\ ip \in Inside
         /\ DOMAIN trace = 1 .. n /\ DOMAIN trace' = 1 .. n + 1
         /\ \A p \in 1 .. n : trace'[p] = trace[p] /\ KindAt(p)' = KindAt(p)
         /\ trace'[n + 1] = ip /\ KindAt(n + 1)' = Now.kind
         /\ Answers' = Answers /\ RestKind' = RestKind
<1>1. trace \in Seq(Inside) /\ ip \in Inside /\ trace' = Append(trace, ip) /\ code' = code
      /\ variant' = variant
  BY DEF IInv, TypeOK, Scanned, AtInstruction, file
<1>2. /\ n \in Nat /\ Len(trace') = n + 1 /\ trace' \in Seq(Inside)
      /\ DOMAIN trace = 1 .. n /\ DOMAIN trace' = 1 .. n + 1
      /\ \A p \in 1 .. n : trace'[p] = trace[p]
      /\ trace'[n + 1] = ip
  BY <1>1
<1>3. \A p \in 1 .. n : KindAt(p)' = KindAt(p)
  BY <1>1, <1>2 DEF KindAt
<1>4. KindAt(n + 1)' = Now.kind
  BY <1>1, <1>2 DEF KindAt, Now
<1> QED
  BY <1>1, <1>2, <1>3, <1>4 DEF Answers, RestKind

(* What is waited for at the steps scanned so far, and at the next one.    *)
LEMMA WaitedGrows ==
  ASSUME IInv, Scanned, NEW n, n = Len(trace)
  PROVE  /\ \A p \in 1 .. n + 1 : WaitsRight(p)' /\ WaitedFor(p)' = WaitedFor(p)
         /\ WaitsRight(n + 2)'
         /\ WaitedFor(n + 2)' = IF Now.kind = "string" THEN Now.of ELSE WaitedFor(n + 1)
<1>1. /\ n \in Nat /\ ip \in Inside /\ code' = code
      /\ \A p \in 1 .. n : trace'[p] = trace[p] /\ KindAt(p)' = KindAt(p)
      /\ trace'[n + 1] = ip /\ KindAt(n + 1)' = Now.kind
  BY TraceGrows DEF Scanned, file
<1>2. /\ \A p \in 1 .. n + 1 : WaitsRight(p)
      /\ \A p \in 1 .. n + 2 : WaitedIsOf(p)'
  <2>1. EachWaitedIs'
    BY WaitedIs, PTL
  <2> QED
    BY <2>1, <1>1 DEF IInv, EachWaitedIs
<1>3. ASSUME NEW p \in 1 .. n + 1 PROVE WaitsRight(p)' /\ WaitedFor(p)' = WaitedFor(p)
  <2>1. StringsBefore(p)' = StringsBefore(p)
    BY <1>1 DEF StringsBefore
  <2>2. CASE StringsBefore(p) = {}
    <3>1. WaitedFor(p) = "bServerSku"
      BY <1>2, <2>2 DEF WaitsRight, LastString
    <3>2. WaitedFor(p)' = "bServerSku"
      BY <2>1, <2>2, <1>1, <1>2 DEF WaitedIsOf
    <3> QED
      BY <2>1, <2>2, <3>1, <3>2 DEF WaitsRight
  <2>3. CASE StringsBefore(p) # {}
    <3>1. PICK q \in 1 .. p - 1 :
            LastString(p, q) /\ WaitedFor(p) = code[trace[q]].of /\ WaitedFor(p) \in Policies
      BY <1>2, <2>3 DEF WaitsRight
    <3>2. LastString(p, q)'
      BY <2>1, <3>1 DEF LastString
    <3>3. WaitedFor(p)' = code[trace[q]].of /\ trace'[q] = trace[q]
      BY <3>2, <1>1, <1>2 DEF WaitedIsOf
    <3> QED
      BY <1>1, <3>1, <3>2, <3>3 DEF WaitsRight
  <2> QED BY <2>2, <2>3
<1>4. /\ StringsBefore(n + 2)' = IF Now.kind = "string" THEN StringsBefore(n + 1) \cup {n + 1}
                                                       ELSE StringsBefore(n + 1)
      /\ StringsBefore(n + 1) \subseteq 1 .. n
  BY <1>1 DEF StringsBefore
<1>5. CASE Now.kind = "string"
  <2>1. LastString(n + 2, n + 1)'
    BY <1>1, <1>4, <1>5 DEF LastString
  <2>2. WaitedFor(n + 2)' = code[ip].of /\ n + 1 \in 1 .. (n + 2) - 1
    BY <2>1, <1>1, <1>2 DEF WaitedIsOf
  <2>3. Now.of \in Policies
    BY <1>1, <1>5 DEF IInv, FileOK, Code, Plain, Now
  <2> QED
    BY <1>1, <1>2, <1>3, <1>5, <2>1, <2>2, <2>3 DEF WaitsRight, Now
<1>6. CASE Now.kind # "string"
  <2>1. StringsBefore(n + 2)' = StringsBefore(n + 1)
    BY <1>4, <1>6
  <2>2. CASE StringsBefore(n + 1) = {}
    <3>1. WaitedFor(n + 1) = "bServerSku"
      BY <1>1, <1>2, <2>2 DEF WaitsRight, LastString
    <3>2. WaitedFor(n + 2)' = "bServerSku"
      BY <2>1, <2>2, <1>1, <1>2 DEF WaitedIsOf
    <3> QED
      BY <1>3, <1>6, <2>1, <2>2, <3>1, <3>2 DEF WaitsRight
  <2>3. CASE StringsBefore(n + 1) # {}
    <3>1. PICK q \in 1 .. n :
            /\ LastString(n + 1, q) /\ WaitedFor(n + 1) = code[trace[q]].of
            /\ WaitedFor(n + 1) \in Policies
      <4>1. WaitsRight(n + 1) /\ (n + 1) - 1 = n
        BY <1>1, <1>2
      <4> QED
        BY <4>1, <2>3 DEF WaitsRight
    <3>2. LastString(n + 2, q)' /\ q \in 1 .. (n + 2) - 1
      BY <2>1, <3>1 DEF LastString
    <3>3. WaitedFor(n + 2)' = code[trace[q]].of /\ trace'[q] = trace[q]
      BY <3>2, <1>1, <1>2 DEF WaitedIsOf
    <3> QED
      BY <1>1, <1>3, <1>6, <3>1, <3>2, <3>3 DEF WaitsRight
  <2> QED BY <2>2, <2>3
<1> QED BY <1>3, <1>5, <1>6

(* The stores of each variable: one more if the instruction may be an      *)
(* answer and the variable is waited for.                                  *)
LEMMA StoresGrow ==
  ASSUME IInv, Scanned, NEW n, n = Len(trace), NEW m \in Names
  PROVE  /\ StoresFor(m) \subseteq 1 .. n
         /\ StoresFor(m)' = IF Now.kind \in Answers /\ WaitedFor(n + 1) = m
                              THEN StoresFor(m) \cup {n + 1} ELSE StoresFor(m)
<1>1. /\ n \in Nat /\ DOMAIN trace = 1 .. n /\ DOMAIN trace' = 1 .. n + 1
      /\ \A p \in 1 .. n : KindAt(p)' = KindAt(p)
      /\ KindAt(n + 1)' = Now.kind /\ Answers' = Answers
  BY TraceGrows
<1>2. \A p \in 1 .. n + 1 : WaitedFor(p)' = WaitedFor(p)
  BY WaitedGrows
<1>3. StoresFor(m) = {p \in 1 .. n : KindAt(p) \in Answers /\ WaitedFor(p) = m}
  BY <1>1 DEF StoresFor
<1>4. StoresFor(m)' = {p \in 1 .. n + 1 : KindAt(p)' \in Answers /\ WaitedFor(p)' = m}
  BY <1>1 DEF StoresFor
<1> QED
  BY <1>1, <1>2, <1>3, <1>4

(* A variable that has no answer yet is 0, and the next answer is first.   *)
LEMMA AnswerIsFirst ==
  ASSUME IInv, Scanned, NEW n, n = Len(trace)
  PROVE  /\ current \in Names \ {"bInitialized"} /\ WaitedFor(n + 1) = current
         /\ IsAnswer <=> Now.kind \in Answers /\ StoresFor(current) = {}
<1>1. /\ current \in Names \ {"bInitialized"} /\ WaitedFor(n + 1) = current
      /\ AtInstruction /\ GivenFirst(current) /\ trace \in Seq(Inside)
  BY DEF IInv, TypeOK, Scanned, AtInstruction
<1>2. StoresFor(current) # {} => variables[current] # 0
  <2> SUFFICES ASSUME StoresFor(current) # {} PROVE variables[current] # 0
    OBVIOUS
  <2>1. PICK p \in DOMAIN trace : variables[current] = trace[p]
    BY <1>1 DEF GivenFirst
  <2>2. trace[p] \in Inside
    BY <1>1, <2>1
  <2> QED BY <2>1, <2>2 DEF Inside
<1>3. StoresFor(current) = {} => variables[current] = 0
  BY <1>1 DEF GivenFirst, FirstStore
<1> QED BY <1>1, <1>2, <1>3 DEF IsAnswer

LEMMA FirstGrows ==
  ASSUME IInv, Scanned, NEW n, n = Len(trace), NEW m \in Names
  PROVE  /\ \A p \in 1 .. n : FirstStore(m, p)' <=> FirstStore(m, p)
         /\ FirstStore(m, n + 1)' <=> IsAnswer /\ m = current
<1>1. n \in Nat
  BY TraceGrows
<1>2. /\ StoresFor(m) \subseteq 1 .. n
      /\ StoresFor(m)' = IF Now.kind \in Answers /\ current = m
                           THEN StoresFor(m) \cup {n + 1} ELSE StoresFor(m)
  BY StoresGrow, AnswerIsFirst
<1>3. IsAnswer <=> Now.kind \in Answers /\ StoresFor(current) = {}
  BY AnswerIsFirst
<1>4. ASSUME NEW p \in 1 .. n PROVE FirstStore(m, p)' <=> FirstStore(m, p)
  BY <1>1, <1>2 DEF FirstStore
<1>5. FirstStore(m, n + 1)' <=> IsAnswer /\ m = current
  <2>1. CASE Now.kind \in Answers /\ current = m
    <3>1. StoresFor(m)' = StoresFor(m) \cup {n + 1}
      BY <1>2, <2>1
    <3>2. StoresFor(m) = {} => FirstStore(m, n + 1)'
      BY <1>1, <3>1 DEF FirstStore
    <3>3. ASSUME NEW p \in StoresFor(m) PROVE ~FirstStore(m, n + 1)'
      <4>1. p \in StoresFor(m)' /\ ~(n + 1 <= p)
        BY <1>1, <1>2, <3>1
      <4> QED BY <4>1 DEF FirstStore
    <3> QED BY <1>3, <2>1, <3>2, <3>3
  <2>2. CASE ~(Now.kind \in Answers /\ current = m)
    <3>1. n + 1 \notin StoresFor(m)'
      BY <1>1, <1>2, <2>2
    <3> QED BY <1>3, <2>2, <3>1 DEF FirstStore
  <2> QED BY <2>1, <2>2
<1> QED BY <1>4, <1>5

(* A step over one instruction: an answer is given to the variable waited  *)
(* for, a store of the rest to bInitialized, and a string says what is     *)
(* waited for next.                                                        *)
Gives ==
  /\ Scanned
  /\ variables' \in [Names -> 0 .. Length]
  /\ \A m \in Names \ {"bInitialized"} :
       variables'[m] = IF IsAnswer /\ m = current THEN ip ELSE variables[m]
  /\ variables'["bInitialized"] =
       IF Now.kind = RestKind /\ ~IsAnswer THEN ip ELSE variables["bInitialized"]

LEMMA GivenFirstNext ==
  ASSUME IInv, Gives, NEW m \in Names \ {"bInitialized"}
  PROVE  GivenFirst(m)'
<1> PICK n : n = Len(trace)
  OBVIOUS
<1>1. /\ n \in Nat /\ DOMAIN trace = 1 .. n /\ DOMAIN trace' = 1 .. n + 1
      /\ trace'[n + 1] = ip /\ \A p \in 1 .. n : trace'[p] = trace[p]
  BY TraceGrows DEF Gives
<1>2. /\ \A p \in 1 .. n : FirstStore(m, p)' <=> FirstStore(m, p)
      /\ FirstStore(m, n + 1)' <=> IsAnswer /\ m = current
  BY FirstGrows DEF Gives
<1>3. StoresFor(m) \subseteq 1 .. n
      /\ StoresFor(m)' = IF Now.kind \in Answers /\ current = m
                           THEN StoresFor(m) \cup {n + 1} ELSE StoresFor(m)
  BY StoresGrow, AnswerIsFirst DEF Gives
<1>4. variables'[m] = IF IsAnswer /\ m = current THEN ip ELSE variables[m]
  BY DEF Gives
<1>5. GivenFirst(m)
  BY DEF IInv
<1>6. CASE IsAnswer /\ m = current
  BY <1>1, <1>2, <1>4, <1>6 DEF GivenFirst
<1>7. CASE ~(IsAnswer /\ m = current) /\ StoresFor(m) = {}
  <2>1. StoresFor(m)' = {}
    BY <1>3, <1>7, AnswerIsFirst DEF Gives
  <2>2. variables'[m] = 0
    BY <1>4, <1>5, <1>7 DEF GivenFirst, FirstStore
  <2> QED BY <2>1, <2>2 DEF GivenFirst
<1>8. CASE ~(IsAnswer /\ m = current) /\ StoresFor(m) # {}
  <2>1. PICK p \in 1 .. n : FirstStore(m, p) /\ variables[m] = trace[p]
    BY <1>1, <1>5, <1>8 DEF GivenFirst
  <2>2. FirstStore(m, p)' /\ variables'[m] = trace'[p] /\ p \in DOMAIN trace'
    BY <1>1, <1>2, <1>4, <1>8, <2>1
  <2> QED BY <2>2 DEF GivenFirst
<1> QED BY <1>6, <1>7, <1>8

LEMMA GivenLastNext == ASSUME IInv, Gives PROVE GivenLast'
<1> PICK n : n = Len(trace)
  OBVIOUS
<1>1. /\ n \in Nat /\ DOMAIN trace = 1 .. n /\ DOMAIN trace' = 1 .. n + 1
      /\ trace'[n + 1] = ip /\ \A p \in 1 .. n : trace'[p] = trace[p] /\ KindAt(p)' = KindAt(p)
      /\ KindAt(n + 1)' = Now.kind /\ RestKind' = RestKind
  BY TraceGrows DEF Gives
<1>2. \A m \in Names :
        /\ \A p \in 1 .. n : FirstStore(m, p)' <=> FirstStore(m, p)
        /\ FirstStore(m, n + 1)' <=> IsAnswer /\ m = current
  BY FirstGrows DEF Gives
<1>3. \A p \in 1 .. n : Left(p)' <=> Left(p)
  BY <1>1, <1>2 DEF Left
<1>4. Left(n + 1)' <=> Now.kind = RestKind /\ ~IsAnswer
  BY <1>1, <1>2, AnswerIsFirst DEF Left, Gives
<1>5. variables'["bInitialized"] =
        IF Now.kind = RestKind /\ ~IsAnswer THEN ip ELSE variables["bInitialized"]
  BY DEF Gives
<1>6. GivenLast
  BY DEF IInv
<1>7. CASE Left(n + 1)'
  BY <1>1, <1>4, <1>5, <1>7 DEF GivenLast
<1>8. CASE ~Left(n + 1)' /\ \A p \in DOMAIN trace : ~Left(p)
  <2>1. variables'["bInitialized"] = 0
    BY <1>4, <1>5, <1>6, <1>8 DEF GivenLast
  <2> QED BY <1>1, <1>3, <1>8, <2>1 DEF GivenLast
<1>9. CASE ~Left(n + 1)' /\ \E p \in DOMAIN trace : Left(p)
  <2>1. PICK p \in DOMAIN trace :
          /\ Left(p) /\ variables["bInitialized"] = trace[p]
          /\ \A q \in DOMAIN trace : Left(q) => q <= p
    BY <1>6, <1>9 DEF GivenLast
  <2>2. variables'["bInitialized"] = trace'[p] /\ p \in DOMAIN trace' /\ Left(p)'
    BY <1>1, <1>3, <1>4, <1>5, <1>9, <2>1
  <2>3. \A q \in DOMAIN trace' : Left(q)' => q <= p
    BY <1>1, <1>3, <1>9, <2>1
  <2> QED BY <2>2, <2>3 DEF GivenLast
<1> QED BY <1>7, <1>8, <1>9

LEMMA GivesKeeps ==
  ASSUME IInv, Gives,
         current' = IF Now.kind = "string" THEN Now.of ELSE current,
         \/ ip' \in 1 .. Length + 1 /\ pc' = pc /\ Len(trace) + 1 < MaxSteps + ip'
         \/ ip' = ip /\ pc' = "done"
  PROVE  IInv'
<1> PICK n : n = Len(trace)
  OBVIOUS
<1>1. /\ n \in Nat /\ Len(trace') = n + 1 /\ trace' \in Seq(Inside) /\ ip \in Inside
      /\ FileOK' /\ n < MaxSteps + ip /\ pc = "scan" /\ current = WaitedFor(n + 1)
  BY TraceGrows DEF Gives, Scanned, AtInstruction, IInv, FileOK, file
<1>2. TypeOK'
  <2>1. current' \in Names \ {"bInitialized"}
    BY <1>1, PoliciesAssumption DEF IInv, TypeOK, FileOK, Code, Plain, Names, Now
  <2>2. /\ ip' \in 1 .. Length + 1 /\ pc' \in {"scan", "done"}
        /\ Len(trace') <= MaxSteps + Length
    BY <1>1, LengthAssumption DEF IInv, TypeOK, Inside
  <2> QED BY <1>1, <2>1, <2>2 DEF TypeOK, Gives
<1>3. \A p \in 1 .. Len(trace') + 1 : WaitsRight(p)'
  <2>1. \A p \in 1 .. n + 1 : WaitsRight(p)'
    BY WaitedGrows DEF Gives
  <2>2. WaitsRight(n + 2)'
    BY WaitedGrows DEF Gives
  <2> QED BY <1>1, <2>1, <2>2
<1>4. pc' = "scan" => Len(trace') < MaxSteps + ip' /\ current' = WaitedFor(Len(trace) + 1)'
  <2>1. current' = WaitedFor(n + 2)'
    BY WaitedGrows, <1>1 DEF Gives
  <2>2. WaitedFor(Len(trace) + 1)' = WaitedFor(n + 2)'
    <3>1. Len(trace') + 1 = n + 2
      BY <1>1
    <3> QED BY <3>1
  <2> QED BY <1>1, <2>1, <2>2
<1>5. \A m \in Names \ {"bInitialized"} : GivenFirst(m)'
  BY GivenFirstNext
<1>6. GivenLast'
  BY GivenLastNext
<1> QED BY <1>1, <1>2, <1>3, <1>4, <1>5, <1>6 DEF IInv

LEMMA InitIInv == Init => IInv
<1> SUFFICES ASSUME Init PROVE IInv
  OBVIOUS
<1>1. FileOK /\ TypeOK /\ Len(trace) = 0 /\ DOMAIN trace = {}
  BY LengthAssumption, PoliciesAssumption DEF Init, FileOK, TypeOK, Inside, Names
<1>2. StringsBefore(1) = {} /\ WaitedFor(1) = "bServerSku"
  <2>1. StringsBefore(1) = {}
    BY DEF StringsBefore
  <2> QED
    BY <2>1, WaitedIs DEF EachWaitedIs, WaitedIsOf
<1>3. \A m \in Names : StoresFor(m) = {} /\ variables[m] = 0
  BY <1>1 DEF Init, StoresFor
<1>4. GivenLast
  BY <1>1, <1>3 DEF GivenLast, Names
<1>5. pc = "scan" => Len(trace) < MaxSteps + ip /\ current = WaitedFor(Len(trace) + 1)
  BY <1>1, <1>2, LengthAssumption DEF Init, Inside
<1>6. \A p \in 1 .. Len(trace) + 1 : WaitsRight(p)
  BY <1>1, <1>2 DEF WaitsRight
<1> QED BY <1>1, <1>3, <1>4, <1>5, <1>6 DEF IInv, GivenFirst

(* The scan of an instruction moves on to the next one, jumps or stops.    *)
LEMMA NextIInv == ASSUME IInv, [Next]_vars PROVE IInv'
<1>1. /\ variables \in [Names -> 0 .. Length] /\ current \in Names \ {"bInitialized"}
      /\ ip \in 1 .. Length + 1 /\ trace \in Seq(Inside) /\ code \in [Inside -> Code]
      /\ pc = "scan" => Len(trace) < MaxSteps + ip
      /\ "bInitialized" \in Names /\ Length \in Nat \ {0} /\ MaxSteps \in Nat
  BY LengthAssumption DEF IInv, TypeOK, FileOK, Names
<1>2. ASSUME AtInstruction PROVE ip \in Inside /\ pc = "scan"
  BY <1>2 DEF AtInstruction
<1>3. ASSUME AtInstruction, Goto(ip + 1)
      PROVE  /\ Scanned
             /\ ip' \in 1 .. Length + 1 /\ pc' = pc /\ Len(trace) + 1 < MaxSteps + ip'
  BY <1>1, <1>2, <1>3 DEF Goto, Scanned, Inside
<1>4. ASSUME AtInstruction, Stop PROVE Scanned /\ ip' = ip /\ pc' = "done"
  BY <1>4 DEF Stop, Scanned, file
<1>5. CASE StoreAnswer
  <2>1. AtInstruction /\ Goto(ip + 1) /\ IsAnswer /\ current' = current
        /\ variables' = [variables EXCEPT ![current] = ip]
    BY <1>5 DEF StoreAnswer, IsAnswer
  <2>2. Now.kind # "string"
    BY <2>1 DEF IsAnswer, Answers
  <2>3. Gives
    BY <1>1, <1>2, <1>3, <2>1 DEF Gives, Inside
  <2> QED BY <1>3, <2>1, <2>2, <2>3, GivesKeeps
<1>6. CASE NextString
  <2>1. AtInstruction /\ Goto(ip + 1) /\ Now.kind = "string" /\ current' = Now.of
        /\ variables' = variables /\ ~IsAnswer
    BY <1>6 DEF NextString, IsAnswer, Answers
  <2>2. Gives
    BY <1>1, <1>3, <2>1 DEF Gives, RestKind
  <2> QED BY <1>3, <2>1, <2>2, GivesKeeps
<1>7. CASE StoreInitialized
  <2>1. AtInstruction /\ Stop /\ Now.kind = "one" /\ RestKind = "one" /\ ~IsAnswer
        /\ current' = current /\ variables' = [variables EXCEPT !["bInitialized"] = ip]
    BY <1>7 DEF StoreInitialized, IsAnswer, Answers, RestKind
  <2>2. Gives
    BY <1>1, <1>2, <1>4, <2>1 DEF Gives, Inside
  <2> QED BY <1>4, <2>1, <2>2, GivesKeeps
<1>8. CASE StoreInitializedShort
  <2>1. AtInstruction /\ Goto(ip + 1) /\ Now.kind = "store" /\ RestKind = "store" /\ ~IsAnswer
        /\ current' = current /\ variables' = [variables EXCEPT !["bInitialized"] = ip]
    BY <1>8 DEF StoreInitializedShort, RestKind
  <2>2. Gives
    BY <1>1, <1>2, <1>3, <2>1 DEF Gives, Inside
  <2> QED BY <1>3, <2>1, <2>2, GivesKeeps
<1>9. CASE Jump
  <2>1. AtInstruction /\ Goto(Now.to) /\ Now.kind = "jmp" /\ ~IsAnswer
        /\ Len(trace) < MaxSteps /\ current' = current /\ variables' = variables
    BY <1>9 DEF Jump, IsAnswer, Answers
  <2>2. Now.to \in 1 .. Length + 1
    BY <1>1, <1>2, <2>1 DEF Code, Plain, Now
  <2>3. Scanned /\ ip' \in 1 .. Length + 1 /\ pc' = pc /\ Len(trace) + 1 < MaxSteps + ip'
    BY <1>1, <2>1, <2>2 DEF Goto, Scanned
  <2>4. Gives
    BY <1>1, <2>1, <2>3 DEF Gives, RestKind
  <2> QED BY <2>1, <2>3, <2>4, GivesKeeps
<1>10. CASE Return
  <2>1. AtInstruction /\ Stop /\ Now.kind = "ret" /\ ~IsAnswer
        /\ current' = current /\ variables' = variables
    BY <1>10 DEF Return, IsAnswer, Answers
  <2>2. Gives
    BY <1>1, <1>4, <2>1 DEF Gives, RestKind
  <2> QED BY <1>4, <2>1, <2>2, GivesKeeps
<1>11. CASE PassOver
  <2>1. AtInstruction /\ Goto(ip + 1) /\ Now.kind # "string" /\ Now.kind # RestKind /\ ~IsAnswer
        /\ current' = current /\ variables' = variables
    BY <1>11 DEF PassOver, RestKind
  <2>2. Gives
    BY <1>1, <1>3, <2>1 DEF Gives
  <2> QED BY <1>3, <2>1, <2>2, GivesKeeps
<1>12. ASSUME UNCHANGED <<file, ip, current, variables, trace>>, pc' \in {pc, "done"}
       PROVE  IInv'
  <2>1. FileOK' /\ TypeOK'
    BY <1>12 DEF file, IInv, FileOK, TypeOK
  <2>2. \A p : KindAt(p)' = KindAt(p) /\ WaitedFor(p)' = WaitedFor(p)
    BY <1>12 DEF file, KindAt, WaitedFor
  <2>3. \A p : WaitsRight(p) => WaitsRight(p)'
    BY <1>12, <2>2 DEF file, WaitsRight, LastString, StringsBefore
  <2>4. \A m : StoresFor(m)' = StoresFor(m)
    BY <1>12, <2>2 DEF file, StoresFor, Answers
  <2>5. \A m : GivenFirst(m) => GivenFirst(m)'
    BY <1>12, <2>4 DEF GivenFirst, FirstStore
  <2>6. GivenLast'
    BY <1>12, <2>2, <2>4 DEF IInv, file, GivenLast, Left, RestKind, FirstStore
  <2>7. pc' = "scan" => Len(trace') < MaxSteps + ip' /\ current' = WaitedFor(Len(trace) + 1)'
    BY <1>12 DEF IInv, WaitedFor, KindAt, file
  <2> QED BY <1>12, <2>1, <2>3, <2>5, <2>6, <2>7 DEF IInv
<1>13. CASE Leave \/ UNCHANGED vars
  BY <1>12, <1>13 DEF Leave, vars
<1> QED
  BY <1>5, <1>6, <1>7, <1>8, <1>9, <1>10, <1>11, <1>13 DEF Next

LEMMA Invariant == Spec => []IInv
BY InitIInv, NextIInv, PTL DEF Spec

(* The scan stays at the function's instructions, and bInitialized is never*)
(* asked for by a string.                                                  *)
THEOREM TypeCorrect == Spec => []TypeOK
<1>1. IInv => TypeOK BY DEF IInv
<1> QED BY Invariant, <1>1, PTL

LEMMA FirstsAre ==
  ASSUME IInv
  PROVE  /\ \A n \in Names : StoresFor(n) # {} =>
              \E p \in DOMAIN trace : FirstStore(n, p) /\ Min(StoresFor(n)) = p
         /\ StoresFor("bInitialized") = {}
<1>1. trace \in Seq(Inside) /\ DOMAIN trace = 1 .. Len(trace) /\ Len(trace) \in Nat
  BY DEF IInv, TypeOK
<1>2. StoresFor("bInitialized") = {}
  <2> SUFFICES ASSUME NEW p \in DOMAIN trace, WaitedFor(p) = "bInitialized" PROVE FALSE
    BY DEF StoresFor
  <2>1. WaitsRight(p)
    BY <1>1 DEF IInv
  <2> QED BY <2>1, PoliciesAssumption DEF WaitsRight
<1>3. ASSUME NEW n \in Names, StoresFor(n) # {}
      PROVE  \E p \in DOMAIN trace : FirstStore(n, p) /\ Min(StoresFor(n)) = p
  <2>1. PICK p \in DOMAIN trace : FirstStore(n, p)
    BY <1>2, <1>3 DEF IInv, GivenFirst
  <2>2. StoresFor(n) \in SUBSET Int
    BY <1>1 DEF StoresFor
  <2>3. Min(StoresFor(n)) = p
    BY <2>1, <2>2, MinIs DEF FirstStore
  <2> QED BY <2>1, <2>3
<1> QED BY <1>2, <1>3

(* Each variable is the first store behind its own string; bInitialized is *)
(* the store of 1, or the last store that is no answer.                    *)
THEOREM FirstStoreBehindStringHolds == Spec => []FirstStoreBehindString
<1>1. ASSUME IInv PROVE FirstStoreBehindString
  <2>1. ASSUME NEW n \in Names \ {"bInitialized"}
        PROVE  variables[n] = IF StoresFor(n) = {} THEN 0 ELSE trace[Min(StoresFor(n))]
    <3>1. GivenFirst(n)
      BY <1>1 DEF IInv
    <3>2. ASSUME NEW p \in DOMAIN trace, FirstStore(n, p) PROVE Min(StoresFor(n)) = p
      <4>1. StoresFor(n) \in SUBSET Int
        BY <1>1 DEF StoresFor, IInv, TypeOK
      <4> QED BY <3>2, <4>1, MinIs DEF FirstStore
    <3> QED BY <3>1, <3>2 DEF GivenFirst, FirstStore
  <2> DEFINE rest == {p \in DOMAIN trace \ FirstStores :
                        KindAt(p) = IF variant = "x64_short" THEN "store" ELSE "one"}
  <2>2. \A p \in DOMAIN trace : p \in FirstStores <=> \E n \in Names : FirstStore(n, p)
    <3>1. ASSUME NEW p \in DOMAIN trace, NEW n \in Names, FirstStore(n, p)
          PROVE  StoresFor(n) # {} /\ Min(StoresFor(n)) = p
      <4>1. StoresFor(n) \in SUBSET Int
        BY <1>1 DEF StoresFor, IInv, TypeOK
      <4> QED BY <3>1, <4>1, MinIs DEF FirstStore
    <3> QED BY <1>1, <3>1, FirstsAre DEF FirstStores
  <2>3. \A p : p \in rest <=> p \in DOMAIN trace /\ Left(p)
    BY <2>2 DEF Left, RestKind
  <2>4. rest \in SUBSET Int
    BY <1>1 DEF IInv, TypeOK
  <2> HIDE DEF rest
  <2>5. variables["bInitialized"] = IF rest = {} THEN 0 ELSE trace[Max(rest)]
    <3>1. CASE \A p \in DOMAIN trace : ~Left(p)
      BY <1>1, <2>3, <3>1 DEF IInv, GivenLast
    <3>2. CASE \E p \in DOMAIN trace : Left(p)
      <4>1. PICK p \in DOMAIN trace :
              /\ Left(p) /\ variables["bInitialized"] = trace[p]
              /\ \A q \in DOMAIN trace : Left(q) => q <= p
        BY <1>1, <3>2 DEF IInv, GivenLast
      <4>2. p \in rest /\ \A q \in rest : p >= q
        BY <2>3, <2>4, <4>1
      <4>3. Max(rest) = p
        BY <2>4, <4>2, MaxIs
      <4> QED BY <4>1, <4>2, <4>3
    <3> QED BY <3>1, <3>2
  <2> QED BY <2>1, <2>5 DEF FirstStoreBehindString, rest
<1> QED BY Invariant, <1>1, PTL

(* The trace is a path of the function.                                    *)
PathInv ==
  /\ \A p \in 1 .. Len(trace) - 1 : trace[p + 1] = After(trace[p])
  /\ pc = "scan" /\ Len(trace) > 0 => ip = After(trace[Len(trace)])

LEMMA PathNext == ASSUME IInv, PathInv, [Next]_vars PROVE PathInv'
<1> PICK n : n = Len(trace)
  OBVIOUS
<1>1. ASSUME NEW a, AtInstruction, Goto(a), a = After(ip) PROVE PathInv'
  <2>1. Scanned
    BY <1>1 DEF Goto, Scanned
  <2>2. /\ n \in Nat /\ Len(trace') = n + 1 /\ trace'[n + 1] = ip
        /\ \A p \in 1 .. n : trace'[p] = trace[p]
    BY <2>1, TraceGrows
  <2>3. \A i : After(i)' = After(i)
    BY <1>1 DEF After, Goto, file
  <2>4. pc = "scan" /\ ip' = a
    BY <1>1 DEF Goto, AtInstruction
  <2>5. ASSUME NEW p \in 1 .. n PROVE trace'[p + 1] = After(trace[p])
    <3>1. CASE p = n
      BY <2>2, <2>4, <3>1 DEF PathInv
    <3>2. CASE p # n
      <4>1. p \in 1 .. n - 1 /\ p + 1 \in 1 .. n
        BY <2>2, <3>2
      <4> QED BY <2>2, <4>1 DEF PathInv
    <3> QED BY <3>1, <3>2
  <2> QED BY <1>1, <2>2, <2>3, <2>4, <2>5 DEF PathInv
<1>2. ASSUME AtInstruction, Stop PROVE PathInv'
  <2>1. Scanned /\ pc' = "done" /\ pc = "scan"
    BY <1>2 DEF Stop, Scanned, AtInstruction, file
  <2>2. /\ n \in Nat /\ Len(trace') = n + 1 /\ trace'[n + 1] = ip
        /\ \A p \in 1 .. n : trace'[p] = trace[p]
    BY <2>1, TraceGrows
  <2>3. \A i : After(i)' = After(i)
    BY <1>2 DEF After, Stop, file
  <2>5. \A p \in 1 .. n : trace'[p + 1] = After(trace[p])
    BY <2>1, <2>2 DEF PathInv
  <2> QED BY <2>1, <2>2, <2>3, <2>5 DEF PathInv
<1>3. AtInstruction => ip \in Inside /\ Now.kind # "bad"
  BY DEF AtInstruction
<1>4. CASE StoreAnswer \/ NextString \/ StoreInitializedShort \/ PassOver
  <2>1. AtInstruction /\ Goto(ip + 1) /\ Now.kind \notin {"bad", "jmp", "ret"}
    BY <1>4 DEF StoreAnswer, NextString, StoreInitializedShort, PassOver, IsAnswer, Answers
  <2>2. After(ip) = ip + 1
    BY <2>1 DEF After, Now
  <2> QED BY <1>1, <2>1, <2>2
<1>5. CASE StoreInitialized \/ Return
  BY <1>2, <1>5 DEF StoreInitialized, Return
<1>6. CASE Jump
  <2>1. AtInstruction /\ Goto(Now.to) /\ Now.kind = "jmp" /\ variant = "x64_short"
    BY <1>6 DEF Jump
  <2>2. After(ip) = Now.to
    BY <2>1 DEF After, Now
  <2> QED BY <1>1, <2>1, <2>2
<1>7. CASE Leave \/ UNCHANGED vars
  <2>1. /\ trace' = trace /\ ip' = ip /\ pc' \in {pc, "done"} /\ \A i : After(i)' = After(i)
    BY <1>7 DEF Leave, vars, file, After
  <2> QED BY <2>1 DEF PathInv
<1> QED
  BY <1>4, <1>5, <1>6, <1>7 DEF Next

(* Without a loop of jumps no instruction is scanned twice: the ones from a*)
(* repetition to the next would be a set that is never left.               *)
LEMMA NoneTwice ==
  ASSUME IInv, PathInv, NoLoop, NEW p \in DOMAIN trace, NEW q \in DOMAIN trace, p < q
  PROVE  trace[p] # trace[q]
<1> SUFFICES ASSUME trace[p] = trace[q] PROVE FALSE
  OBVIOUS
<1>1. trace \in Seq(Inside) /\ DOMAIN trace = 1 .. Len(trace) /\ Len(trace) \in Nat
  BY DEF IInv, TypeOK
<1> DEFINE S == {trace[r] : r \in p .. q - 1}
<1>2. S \in SUBSET Inside /\ trace[p] \in S
  BY <1>1
<1>3. ASSUME NEW r \in p .. q - 1 PROVE After(trace[r]) \in S
  <2>1. r \in 1 .. Len(trace) - 1 /\ trace[r + 1] = After(trace[r])
    BY <1>1 DEF PathInv
  <2>2. CASE r = q - 1
    BY <1>1, <1>2, <2>1, <2>2
  <2>3. CASE r # q - 1
    <3>1. r + 1 \in p .. q - 1
      BY <1>1, <2>3
    <3> QED BY <2>1, <3>1
  <2> QED BY <2>2, <2>3
<1>4. \A i \in S : After(i) \in S
  BY <1>3
<1> HIDE DEF S
<1> QED BY <1>2, <1>4 DEF NoLoop

(* No store serves two variables, unless a jump leads the scan over it     *)
(* again.                                                                  *)
THEOREM EachStoreServesOneHolds == Spec => []EachStoreServesOne
<1>1. ASSUME IInv, PathInv PROVE EachStoreServesOne
  <2> SUFFICES ASSUME NoLoop, NEW m \in Names, NEW n \in Names,
                      variables[m] = variables[n], m # n, variables[m] # 0
               PROVE  FALSE
    BY DEF EachStoreServesOne
  <2>1. \A k \in Names \ {"bInitialized"} : variables[k] # 0 =>
          \E p \in DOMAIN trace : FirstStore(k, p) /\ variables[k] = trace[p]
    BY <1>1 DEF IInv, GivenFirst
  <2>2. variables["bInitialized"] # 0 =>
          \E p \in DOMAIN trace : Left(p) /\ variables["bInitialized"] = trace[p]
    BY <1>1 DEF IInv, GivenLast
  <2>3. \A p, q \in DOMAIN trace : trace[p] = trace[q] => p = q
    <3>1. DOMAIN trace \in SUBSET Int
      BY <1>1 DEF IInv, TypeOK
    <3> QED BY <1>1, <3>1, NoneTwice
  <2>4. \A p, j, k : FirstStore(j, p) /\ FirstStore(k, p) => j = k
    BY DEF FirstStore, StoresFor
  <2>5. \A p : Left(p) => ~FirstStore(m, p) /\ ~FirstStore(n, p)
    BY DEF Left
  <2> QED BY <2>1, <2>2, <2>3, <2>4, <2>5
<1>2. Init => PathInv
  BY DEF Init, PathInv
<1> QED BY <1>1, <1>2, Invariant, PathNext, PTL DEF Spec
=============================================================================
