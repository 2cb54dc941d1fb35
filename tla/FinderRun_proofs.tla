--------------------------- MODULE FinderRun_proofs ---------------------------
(***************************************************************************)
(* For all facts about a file and any list of variables: the text a backend*)
(* makes, step by step, is a function of the facts; from it follow that the*)
(* backends agree and that exit code 0 means a whole text.                 *)
(***************************************************************************)
EXTENDS FinderRun, IniText_proofs

(* The lines of each part, and the text so far.                            *)
SingleUserLines(b) ==
  IF ~file.memset THEN <<>>
  ELSE IF b = "symbols" THEN
    IF file.enabled # "absent"
      THEN IF file.enabled = "fit" THEN <<Entry("SingleUser", "enabled")>> ELSE <<>>
    ELSE IF file.perUser # "absent" THEN Matched(file.perUser, Entry("SingleUser", "perUser"))
    ELSE <<>>
  ELSE
    IF file.enabled = "fit" THEN <<Entry("SingleUser", "enabled")>>
    ELSE IF file.enabled = "absent" /\ file.perUser = "fit"
      THEN <<Entry("SingleUser", "perUser")>>
    ELSE IF file.perUser # "absent" THEN <<Error>>
    ELSE <<>>
PolicyLines(b) ==
  IF b = "symbols" THEN DefPolicyLines
  ELSE DefPolicyLines \o (IF ~Windows7 /\ ~file.initialize THEN <<Error>> ELSE <<>>)

UpToSingleUser(b) == <<Section(VersionName)>> \o SingleUserLines(b)
UpToDefPolicy(b)  == UpToSingleUser(b) \o PolicyLines(b)
UpToLocalOnly(b)  == UpToDefPolicy(b) \o LocalOnlyLines
UpToSLInit(b)     == UpToLocalOnly(b) \o SLInitLines
TextOf(b) ==
  IF Windows7 \/ (b = "nosymbol" /\ ~file.initialize) THEN UpToDefPolicy(b)
  ELSE IF Windows8 THEN UpToDefPolicy(b) \o SLPolicyLines
  ELSE IF ~file.initialize THEN UpToLocalOnly(b) \o <<Error>>
  ELSE UpToSLInit(b) \o VariableLines

(* What has been emitted when the run stands at pc.                        *)
LinesSoFar ==
  /\ pc \in {"idle", "choose", "open"} => lines = <<>>
  /\ pc = "single_user" => lines = <<Section(VersionName)>>
  /\ pc = "def_policy" => lines = UpToSingleUser(backend)
  /\ pc \in {"win8", "local_only", "sl_init", "variables"} =>
       ~Windows7 /\ (backend = "nosymbol" => file.initialize)
  /\ pc = "win8" => Windows8 /\ lines = UpToDefPolicy(backend)
  /\ pc \in {"local_only", "sl_init", "variables"} => ~Windows8
  /\ pc = "local_only" => lines = UpToDefPolicy(backend)
  /\ pc = "sl_init" => lines = UpToLocalOnly(backend)
  /\ pc = "variables" => file.initialize /\ lines = UpToSLInit(backend)
  /\ pc = "print" => lines = TextOf(backend)

Control ==
  /\ file \in Files /\ os \in {"nt", "posix"}
  /\ pc \in {"idle", "choose", "open", "single_user", "def_policy", "win8", "local_only",
             "sl_init", "variables", "print"}
  /\ backend \in Backends \cup {"auto", "none"}
  /\ backend = "none" <=> pc = "idle"
  /\ backend = "auto" => pc = "choose"
  /\ allow \in BOOLEAN /\ exit \in {-1, 0, 1, 2}

IInv ==
  /\ Control /\ LinesSoFar
  /\ DOMAIN texts = Backends /\ \A b \in Backends : texts[b] \in {<<>>, TextOf(b)}

(* What the lines are made of.                                             *)
Line ==
  {Error, Blank, Section(VersionName), Section(SLInitName),
   Entry("SingleUser", "enabled"), Entry("SingleUser", "perUser"), Entry("DefPolicy", "query"),
   Entry("SLPolicy", "wrapper"), Entry("LocalOnly", "license"), Entry("SLInit", "initialize")}
  \cup {Entry(n, "rva") : n \in Names}

(* An ERROR line is in one of the parts.                                   *)
LEMMA ErrorInParts ==
  ASSUME NEW S, NEW a \in Seq(S), NEW b \in Seq(S)
  PROVE  a \o b \in Seq(S) /\ (HasError(a \o b) <=> HasError(a) \/ HasError(b))
<1>1. /\ a \o b \in Seq(S) /\ Len(a \o b) = Len(a) + Len(b) /\ Len(a) \in Nat /\ Len(b) \in Nat
      /\ DOMAIN (a \o b) = 1 .. Len(a) + Len(b) /\ DOMAIN a = 1 .. Len(a) /\ DOMAIN b = 1 .. Len(b)
      /\ \A i \in 1 .. Len(a) : (a \o b)[i] = a[i]
      /\ \A i \in 1 .. Len(b) : Len(a) + i \in DOMAIN (a \o b) /\ (a \o b)[Len(a) + i] = b[i]
  OBVIOUS
<1>2. ASSUME NEW i \in DOMAIN (a \o b), i \notin 1 .. Len(a)
      PROVE  i - Len(a) \in 1 .. Len(b) /\ (a \o b)[i] = b[i - Len(a)]
  BY <1>1, <1>2
<1> QED
  BY <1>1, <1>2 DEF HasError

LEMMA PartsOfText ==
  ASSUME IInv, NEW b \in Backends
  PROVE  /\ SingleUserLines(b) \in Seq(Line) /\ Len(SingleUserLines(b)) \in 0 .. 1
         /\ PolicyLines(b) \in Seq(Line)
         /\ Len(PolicyLines(b)) = IF b = "nosymbol" /\ ~Windows7 /\ ~file.initialize THEN 2 ELSE 1
         /\ LocalOnlyLines \in Seq(Line) /\ Len(LocalOnlyLines) = 1
         /\ SLPolicyLines \in Seq(Line) /\ Len(SLPolicyLines) = 1
         /\ SLInitLines \in Seq(Line) /\ Len(SLInitLines) = 3
         /\ VariableLines \in Seq(Line) /\ Len(VariableLines) = Len(VariableNames)
         /\ <<Section(VersionName)>> \in Seq(Line) /\ <<Error>> \in Seq(Line)
         /\ <<>> \in Seq(Line)
<1>1. <<>> \in Seq(Line) /\ Len(<<>>) = 0
  OBVIOUS
<1>2. ASSUME NEW l \in Line PROVE <<l>> \in Seq(Line) /\ Len(<<l>>) = 1
  BY <1>2
<1>3. {Error, Blank, Section(VersionName), Section(SLInitName),
       Entry("SingleUser", "enabled"), Entry("SingleUser", "perUser"),
       Entry("DefPolicy", "query"), Entry("SLPolicy", "wrapper"),
       Entry("LocalOnly", "license"), Entry("SLInit", "initialize")} \subseteq Line
  BY DEF Line
<1>4. \A o, e : e \in Line => Matched(o, e) \in Seq(Line) /\ Len(Matched(o, e)) = 1
  BY <1>2, <1>3 DEF Matched
<1>5. SingleUserLines(b) \in Seq(Line) /\ Len(SingleUserLines(b)) \in 0 .. 1
  BY <1>1, <1>2, <1>3, <1>4 DEF SingleUserLines
<1>6. DefPolicyLines \in Seq(Line) /\ Len(DefPolicyLines) = 1
  BY <1>3, <1>4 DEF DefPolicyLines
<1>7. /\ PolicyLines(b) \in Seq(Line)
      /\ Len(PolicyLines(b)) = IF b = "nosymbol" /\ ~Windows7 /\ ~file.initialize THEN 2 ELSE 1
  <2>1. CASE b = "symbols"
    BY <1>6, <2>1 DEF PolicyLines
  <2>2. CASE b # "symbols" /\ ~Windows7 /\ ~file.initialize
    <3>1. PolicyLines(b) = DefPolicyLines \o <<Error>>
      BY <2>2 DEF PolicyLines
    <3>2. <<Error>> \in Seq(Line) /\ Len(<<Error>>) = 1
      BY <1>2, <1>3
    <3>3. /\ DefPolicyLines \o <<Error>> \in Seq(Line)
          /\ Len(DefPolicyLines \o <<Error>>) = Len(DefPolicyLines) + Len(<<Error>>)
      <4> HIDE DEF DefPolicyLines, Error
      <4>1. ASSUME NEW x \in Seq(Line), NEW y \in Seq(Line)
            PROVE  x \o y \in Seq(Line) /\ Len(x \o y) = Len(x) + Len(y)
        OBVIOUS
      <4> QED BY <1>6, <3>2, <4>1
    <3>4. Len(DefPolicyLines \o <<Error>>) = 2
      BY <1>6, <3>2, <3>3
    <3>5. b = "nosymbol"
      BY <2>2 DEF Backends
    <3> QED BY <2>2, <3>1, <3>3, <3>4, <3>5
  <2>3. CASE b # "symbols" /\ ~(~Windows7 /\ ~file.initialize)
    <3>1. PolicyLines(b) = DefPolicyLines \o <<>>
      BY <2>3 DEF PolicyLines
    <3> QED BY <1>1, <1>6, <2>3, <3>1
  <2> QED BY <2>1, <2>2, <2>3
<1>8. LocalOnlyLines \in Seq(Line) /\ Len(LocalOnlyLines) = 1
  BY <1>2, <1>3, <1>4 DEF LocalOnlyLines
<1>9. SLPolicyLines \in Seq(Line) /\ Len(SLPolicyLines) = 1
  BY <1>2, <1>3 DEF SLPolicyLines
<1>10. SLInitLines \in Seq(Line) /\ Len(SLInitLines) = 3
  BY <1>3 DEF SLInitLines
<1>11. VariableLines \in Seq(Line) /\ Len(VariableLines) = Len(VariableNames)
  <2>1. /\ Len(VariableNames) \in Nat /\ DOMAIN VariableNames = 1 .. Len(VariableNames)
        /\ \A i \in DOMAIN VariableNames : VariableNames[i] \in Names
    BY VariableNamesAssumption DEF Names, ToSet
  <2>2. \A i \in DOMAIN VariableNames : Entry(VariableNames[i], "rva") \in Line
    BY <2>1 DEF Line
  <2> QED BY <1>3, <2>1, <2>2 DEF VariableLines
<1> QED
  BY <1>1, <1>2, <1>3, <1>5, <1>7, <1>8, <1>9, <1>10, <1>11

LEMMA NoMorePolicyLines ==
  ASSUME IInv, NEW b \in Backends, b = "nosymbol" => Windows7 \/ file.initialize
  PROVE  PolicyLines(b) = DefPolicyLines
<1>1. DefPolicyLines \in Seq(Line)
  BY PartsOfText DEF PolicyLines, Backends
<1>2. DefPolicyLines \o <<>> = DefPolicyLines
  BY <1>1
<1> QED BY <1>2 DEF PolicyLines, Backends

(* The file stays, and so does what each backend makes of it.              *)
LEMMA SameFile ==
  ASSUME file' = file, NEW b
  PROVE  /\ Windows7' = Windows7 /\ Windows8' = Windows8
         /\ SingleUserLines(b)' = SingleUserLines(b) /\ PolicyLines(b)' = PolicyLines(b)
         /\ UpToSingleUser(b)' = UpToSingleUser(b) /\ UpToDefPolicy(b)' = UpToDefPolicy(b)
         /\ UpToLocalOnly(b)' = UpToLocalOnly(b) /\ UpToSLInit(b)' = UpToSLInit(b)
         /\ TextOf(b)' = TextOf(b) /\ VersionName' = VersionName
<1>1. Version' = Version
  BY DEF Version
<1>2. Windows7' = Windows7 /\ Windows8' = Windows8 /\ VersionName' = VersionName
      /\ SLInitName' = SLInitName
  BY <1>1 DEF Windows7, Windows8, Ms, VersionName, SLInitName
<1>3. /\ SingleUserLines(b)' = SingleUserLines(b) /\ DefPolicyLines' = DefPolicyLines
      /\ SLPolicyLines' = SLPolicyLines /\ LocalOnlyLines' = LocalOnlyLines
      /\ VariableLines' = VariableLines /\ SLInitLines' = SLInitLines
  BY <1>2 DEF SingleUserLines, DefPolicyLines, SLPolicyLines, LocalOnlyLines, VariableLines,
       SLInitLines
<1>4. PolicyLines(b)' = PolicyLines(b) /\ UpToSingleUser(b)' = UpToSingleUser(b)
  BY <1>2, <1>3 DEF PolicyLines, UpToSingleUser
<1>5. UpToDefPolicy(b)' = UpToDefPolicy(b)
  BY <1>4 DEF UpToDefPolicy
<1>6. UpToLocalOnly(b)' = UpToLocalOnly(b)
  BY <1>3, <1>5 DEF UpToLocalOnly
<1>7. UpToSLInit(b)' = UpToSLInit(b)
  BY <1>3, <1>6 DEF UpToSLInit
<1>8. TextOf(b)' = TextOf(b)
  BY <1>2, <1>3, <1>5, <1>6, <1>7 DEF TextOf
<1> QED BY <1>2, <1>3, <1>4, <1>5, <1>6, <1>7, <1>8

LEMMA InitIInv == Init => IInv
BY DEF Init, IInv, Control, LinesSoFar, Backends

LEMMA NextControl == ASSUME IInv, [Next]_vars PROVE Control'
<1> USE DEF IInv, Control
<1>1. ASSUME NEW more, NEW p \in {"def_policy", "win8", "local_only", "sl_init", "variables",
                                  "print"},
             pc \notin {"idle", "choose"}, Emit(more, p)
      PROVE  Control'
  BY <1>1 DEF Emit
<1>2. CASE SymbolFinderRun
  BY <1>1, <1>2 DEF SymbolFinderRun, SymbolsSingleUser, SymbolsDefPolicy, SymbolsWin8,
       SymbolsLocalOnly, SymbolsSLInit, SymbolsVariables
<1>3. CASE NoSymbolFinderRun
  BY <1>1, <1>3 DEF NoSymbolFinderRun, NosymbolSingleUser, NosymbolDefPolicy, NosymbolWin8,
       NosymbolLocalOnly, NosymbolSLInit, NosymbolVariables
<1>4. CASE Start
  BY <1>4 DEF Start, Backends
<1>5. CASE Choose
  BY <1>5 DEF Choose, Backends, AutoBackendName
<1>6. CASE Raise
  BY <1>6 DEF Raise, End
<1>7. CASE Open
  BY <1>7 DEF Open
<1>8. CASE WriteText
  BY <1>8 DEF WriteText, End
<1>9. CASE UNCHANGED vars
  BY <1>9 DEF vars
<1> QED
  BY <1>2, <1>3, <1>4, <1>5, <1>6, <1>7, <1>8, <1>9 DEF Next

LEMMA FileStays == ASSUME [Next]_vars PROVE file' = file
BY DEF Next, vars, SymbolFinderRun, SymbolsSingleUser, SymbolsDefPolicy, SymbolsWin8,
     SymbolsLocalOnly, SymbolsSLInit, SymbolsVariables, NoSymbolFinderRun, NosymbolSingleUser,
     NosymbolDefPolicy, NosymbolWin8, NosymbolLocalOnly, NosymbolSLInit, NosymbolVariables,
     Emit, Start, Choose, Raise, Open, WriteText

LEMMA NextLines == ASSUME IInv, [Next]_vars PROVE LinesSoFar'
<1>1. /\ file' = file /\ Windows7' = Windows7 /\ Windows8' = Windows8 /\ VersionName' = VersionName
      /\ \A b : /\ UpToSingleUser(b)' = UpToSingleUser(b) /\ UpToDefPolicy(b)' = UpToDefPolicy(b)
                 /\ UpToLocalOnly(b)' = UpToLocalOnly(b) /\ UpToSLInit(b)' = UpToSLInit(b)
                 /\ TextOf(b)' = TextOf(b)
  BY FileStays, SameFile
<1>2. LinesSoFar /\ Control
  BY DEF IInv
<1>3. CASE SymbolsSingleUser \/ NosymbolSingleUser
  <2>1. pc = "single_user" /\ backend \in Backends /\ Emit(SingleUserLines(backend), "def_policy")
    BY <1>3 DEF SymbolsSingleUser, NosymbolSingleUser, SingleUserLines, Backends
  <2>2. pc' = "def_policy" /\ backend' = backend /\ lines' = UpToSingleUser(backend)
    BY <1>2, <2>1 DEF Emit, LinesSoFar, UpToSingleUser
  <2>3. lines' = UpToSingleUser(backend)'
    BY <1>1, <2>2
  <2> QED BY <2>2, <2>3 DEF LinesSoFar
<1>4. CASE SymbolsDefPolicy \/ NosymbolDefPolicy
  <2>1. /\ pc = "def_policy" /\ backend \in Backends
        /\ Emit(PolicyLines(backend),
                IF Windows7 \/ (backend = "nosymbol" /\ ~file.initialize) THEN "print"
                ELSE IF Windows8 THEN "win8" ELSE "local_only")
    BY <1>4 DEF SymbolsDefPolicy, NosymbolDefPolicy, PolicyLines, Backends
  <2>2. /\ backend' = backend /\ lines' = UpToDefPolicy(backend)
        /\ pc' = IF Windows7 \/ (backend = "nosymbol" /\ ~file.initialize) THEN "print"
                 ELSE IF Windows8 THEN "win8" ELSE "local_only"
    BY <1>2, <2>1 DEF Emit, LinesSoFar, UpToDefPolicy
  <2>3. lines' = UpToDefPolicy(backend)'
    BY <1>1, <2>2
  <2>4. pc' = "print" => lines' = TextOf(backend)'
    <3>1. pc' = "print" => TextOf(backend) = UpToDefPolicy(backend)
      BY <2>2 DEF TextOf
    <3> QED BY <1>1, <2>2, <3>1
  <2> QED BY <1>1, <2>2, <2>3, <2>4 DEF LinesSoFar
<1>5. CASE SymbolsWin8 \/ NosymbolWin8
  <2>1. pc = "win8" /\ Emit(SLPolicyLines, "print")
    BY <1>5 DEF SymbolsWin8, NosymbolWin8
  <2>2. /\ pc' = "print" /\ backend' = backend
        /\ lines' = UpToDefPolicy(backend) \o SLPolicyLines
    BY <1>2, <2>1 DEF Emit, LinesSoFar
  <2>3. lines' = TextOf(backend)
    BY <1>2, <2>1, <2>2 DEF LinesSoFar, TextOf
  <2> QED BY <1>1, <2>2, <2>3 DEF LinesSoFar
<1>6. CASE SymbolsLocalOnly \/ NosymbolLocalOnly
  <2>1. pc = "local_only" /\ Emit(LocalOnlyLines, "sl_init")
    BY <1>6 DEF SymbolsLocalOnly, NosymbolLocalOnly
  <2>2. /\ pc' = "sl_init" /\ backend' = backend
        /\ lines' = UpToLocalOnly(backend)
        /\ ~Windows7 /\ ~Windows8 /\ (backend = "nosymbol" => file.initialize)
    BY <1>2, <2>1 DEF Emit, LinesSoFar, UpToLocalOnly
  <2> QED BY <1>1, <2>2 DEF LinesSoFar
<1>7. CASE SymbolsSLInit \/ NosymbolSLInit
  <2>1. /\ pc = "sl_init" /\ backend \in Backends
        /\ IF file.initialize THEN Emit(SLInitLines, "variables") ELSE Emit(<<Error>>, "print")
    BY <1>2, <1>7 DEF SymbolsSLInit, NosymbolSLInit, LinesSoFar, Backends
  <2>2. ~Windows7 /\ ~Windows8 /\ (backend = "nosymbol" => file.initialize)
        /\ lines = UpToLocalOnly(backend)
    BY <1>2, <2>1 DEF LinesSoFar
  <2>3. CASE file.initialize
    <3>1. pc' = "variables" /\ backend' = backend /\ lines' = UpToSLInit(backend)
      BY <2>1, <2>2, <2>3 DEF Emit, UpToSLInit
    <3> QED BY <1>1, <2>2, <2>3, <3>1 DEF LinesSoFar
  <2>4. CASE ~file.initialize
    <3>1. pc' = "print" /\ backend' = backend /\ lines' = UpToLocalOnly(backend) \o <<Error>>
      BY <2>1, <2>2, <2>4 DEF Emit
    <3>2. lines' = TextOf(backend)
      BY <2>2, <2>4, <3>1 DEF TextOf
    <3> QED BY <1>1, <3>1, <3>2 DEF LinesSoFar
  <2> QED BY <2>3, <2>4
<1>8. CASE SymbolsVariables \/ NosymbolVariables
  <2>1. pc = "variables" /\ Emit(VariableLines, "print")
    BY <1>8 DEF SymbolsVariables, NosymbolVariables
  <2>2. /\ pc' = "print" /\ backend' = backend
        /\ lines' = UpToSLInit(backend) \o VariableLines
    BY <1>2, <2>1 DEF Emit, LinesSoFar
  <2>3. lines' = TextOf(backend)
    BY <1>2, <2>1, <2>2 DEF LinesSoFar, TextOf
  <2> QED BY <1>1, <2>2, <2>3 DEF LinesSoFar
<1>9. CASE Start \/ Choose \/ Raise \/ WriteText
  <2>1. pc' \in {"idle", "choose", "open"} /\ lines' = <<>>
    BY <1>2, <1>9 DEF Start, Choose, Raise, WriteText, End, LinesSoFar
  <2> QED BY <2>1 DEF LinesSoFar
<1>10. CASE Open
  <2>1. pc' = "single_user" /\ lines' = <<Section(VersionName)>>'
    BY <1>1, <1>10 DEF Open
  <2> QED BY <2>1 DEF LinesSoFar
<1>11. CASE UNCHANGED vars
  BY <1>1, <1>2, <1>11 DEF vars, LinesSoFar
<1> QED
  BY <1>3, <1>4, <1>5, <1>6, <1>7, <1>8, <1>9, <1>10, <1>11
     DEF Next, SymbolFinderRun, NoSymbolFinderRun

LEMMA NextIInv == ASSUME IInv, [Next]_vars PROVE IInv'
<1>1. \A b : TextOf(b)' = TextOf(b)
  BY FileStays, SameFile
<1>2. DOMAIN texts' = Backends /\ \A b \in Backends : texts'[b] \in {<<>>, TextOf(b)}
  <2>1. CASE WriteText
    <3>1. lines = TextOf(backend) /\ texts' = [texts EXCEPT ![backend] = lines]
      BY <2>1 DEF WriteText, IInv, LinesSoFar
    <3> QED BY <3>1 DEF IInv
  <2>2. CASE ~WriteText
    <3>1. texts' = texts
      BY <2>2 DEF Next, vars, SymbolFinderRun, SymbolsSingleUser, SymbolsDefPolicy, SymbolsWin8,
           SymbolsLocalOnly, SymbolsSLInit, SymbolsVariables, NoSymbolFinderRun,
           NosymbolSingleUser, NosymbolDefPolicy, NosymbolWin8, NosymbolLocalOnly,
           NosymbolSLInit, NosymbolVariables, Emit, Start, Choose, Raise, Open
    <3> QED BY <3>1 DEF IInv
  <2> QED BY <2>1, <2>2
<1> QED BY <1>1, <1>2, NextControl, NextLines DEF IInv

LEMMA Invariant == Spec => []IInv
BY InitIInv, NextIInv, PTL DEF Spec

LEMMA ErrorLine == HasError(<<Error>>)
<1>1. 1 \in DOMAIN <<Error>> /\ <<Error>>[1] = Error
  OBVIOUS
<1>2. Error.kind = "text" /\ Error.name = "ERROR"
  BY DEF Error, Text
<1> QED BY <1>1, <1>2 DEF HasError

(* What a part may say without an ERROR line, the symbols backend says too.*)
LEMMA SameParts ==
  ASSUME IInv, ~HasError(SingleUserLines("nosymbol")), ~HasError(PolicyLines("nosymbol"))
  PROVE  /\ SingleUserLines("nosymbol") = SingleUserLines("symbols")
         /\ PolicyLines("nosymbol") = PolicyLines("symbols")
         /\ Windows7 \/ file.initialize
<1>1. HasError(<<Error>>)
  BY ErrorLine
<1>2. file \in Files
  BY DEF IInv, Control
<1>3. file.enabled \in Outcome /\ file.perUser \in Outcome
  BY <1>2 DEF Files
<1>4. SingleUserLines("nosymbol") = SingleUserLines("symbols")
  BY <1>1, <1>3 DEF SingleUserLines, Outcome, Matched
<1>5. Windows7 \/ file.initialize
  <2>1. SUFFICES ASSUME ~Windows7, ~file.initialize PROVE FALSE
    OBVIOUS
  <2>2. PolicyLines("nosymbol") = DefPolicyLines \o <<Error>>
    BY <2>1 DEF PolicyLines
  <2>3. DefPolicyLines \in Seq(Line) /\ <<Error>> \in Seq(Line)
    BY PartsOfText DEF Backends, PolicyLines
  <2>4. HasError(DefPolicyLines \o <<Error>>)
    BY <1>1, <2>3, ErrorInParts
  <2> QED BY <2>2, <2>4
<1>6. PolicyLines("nosymbol") = PolicyLines("symbols")
  BY <1>5, NoMorePolicyLines DEF Backends
<1> QED BY <1>4, <1>5, <1>6

(* The symbols backend and the nosymbol backend give the same text for the *)
(* same facts, whenever nosymbol's has no ERROR line.                      *)
THEOREM BackendsAgreeHolds == Spec => []BackendsAgree
<1>1. ASSUME IInv, ~HasError(TextOf("nosymbol"))
      PROVE  TextOf("nosymbol") = TextOf("symbols")
  <2> DEFINE u == UpToDefPolicy("nosymbol")
  <2>1. "nosymbol" \in Backends
    BY DEF Backends
  <2>2. /\ UpToSingleUser("nosymbol") \in Seq(Line)
        /\ HasError(SingleUserLines("nosymbol")) => HasError(UpToSingleUser("nosymbol"))
    BY <1>1, <2>1, PartsOfText, ErrorInParts DEF UpToSingleUser
  <2>3. /\ u \in Seq(Line)
        /\ HasError(UpToSingleUser("nosymbol")) \/ HasError(PolicyLines("nosymbol")) => HasError(u)
    BY <1>1, <2>1, <2>2, PartsOfText, ErrorInParts DEF UpToDefPolicy
  <2>4. /\ UpToLocalOnly("nosymbol") \in Seq(Line)
        /\ HasError(u) => HasError(UpToLocalOnly("nosymbol"))
    BY <1>1, <2>1, <2>3, PartsOfText, ErrorInParts DEF UpToLocalOnly
  <2>5. /\ UpToSLInit("nosymbol") \in Seq(Line)
        /\ HasError(u) => HasError(UpToSLInit("nosymbol"))
    BY <1>1, <2>1, <2>4, PartsOfText, ErrorInParts DEF UpToSLInit
  <2>6. HasError(u) => /\ HasError(u \o SLPolicyLines)
                       /\ HasError(UpToLocalOnly("nosymbol") \o <<Error>>)
                       /\ HasError(UpToSLInit("nosymbol") \o VariableLines)
    BY <1>1, <2>1, <2>3, <2>4, <2>5, PartsOfText, ErrorInParts
  <2>7. HasError(u) => HasError(TextOf("nosymbol"))
    BY <2>6 DEF TextOf
  <2>8. ~HasError(SingleUserLines("nosymbol")) /\ ~HasError(PolicyLines("nosymbol"))
    BY <1>1, <2>2, <2>3, <2>7
  <2>9. /\ SingleUserLines("nosymbol") = SingleUserLines("symbols")
        /\ PolicyLines("nosymbol") = PolicyLines("symbols")
        /\ Windows7 \/ file.initialize
    BY <1>1, <2>8, SameParts
  <2>10. u = UpToDefPolicy("symbols")
    BY <2>9 DEF UpToDefPolicy, UpToSingleUser
  <2> QED BY <2>9, <2>10 DEF TextOf, UpToLocalOnly, UpToSLInit
<1>2. IInv => BackendsAgree
  BY <1>1 DEF IInv, BackendsAgree, Backends
<1> QED BY <1>2, Invariant, PTL

(* How long a text can be, on the way and in the end.                      *)
Long(x, n) == x \in Seq(Line) /\ Len(x) = n

LEMMA LongSum ==
  ASSUME NEW x, NEW y, NEW m \in Nat, NEW n \in Nat, Long(x, m), Long(y, n)
  PROVE  Long(x \o y, m + n)
BY DEF Long

LEMMA Lengths ==
  ASSUME IInv, NEW b \in Backends
  PROVE  \E s \in 0 .. 1, p \in 1 .. 2 :
           /\ p = 2 => b = "nosymbol" /\ ~Windows7 /\ ~file.initialize
           /\ Long(<<Section(VersionName)>>, 1) /\ Long(UpToSingleUser(b), 1 + s)
           /\ Long(UpToDefPolicy(b), 1 + s + p) /\ Long(UpToLocalOnly(b), 1 + s + p + 1)
           /\ Long(UpToSLInit(b), 1 + s + p + 1 + 3)
           /\ \E n \in 0 .. 7 + Len(VariableNames) : Long(TextOf(b), n)
<1> DEFINE v == Len(VariableNames)
<1>1. v \in Nat
  BY VariableNamesAssumption
<1>2. PICK s \in 0 .. 1 : Len(SingleUserLines(b)) = s
  BY PartsOfText
<1>3. PICK p \in 1 .. 2 : /\ Len(PolicyLines(b)) = p
                          /\ p = 2 => b = "nosymbol" /\ ~Windows7 /\ ~file.initialize
  <2>1. CASE b = "nosymbol" /\ ~Windows7 /\ ~file.initialize
    BY <2>1, PartsOfText
  <2>2. CASE ~(b = "nosymbol" /\ ~Windows7 /\ ~file.initialize)
    <3>1. Len(PolicyLines(b)) = 1
      BY <2>2, PartsOfText
    <3> QED BY <3>1
  <2> QED BY <2>1, <2>2
<1>4. Len(<<Section(VersionName)>>) = 1 /\ Len(<<Error>>) = 1
  OBVIOUS
<1>5. /\ Long(<<Section(VersionName)>>, 1) /\ Long(<<Error>>, 1) /\ Long(SingleUserLines(b), s)
      /\ Long(PolicyLines(b), p) /\ Long(LocalOnlyLines, 1) /\ Long(SLPolicyLines, 1)
      /\ Long(SLInitLines, 3) /\ Long(VariableLines, v)
  BY <1>2, <1>3, <1>4, PartsOfText, Zenon DEF Long
<1> HIDE DEF v
<1>6. Long(UpToSingleUser(b), 1 + s)
  BY <1>5, LongSum DEF UpToSingleUser
<1>7. Long(UpToDefPolicy(b), 1 + s + p)
  BY <1>5, <1>6, LongSum DEF UpToDefPolicy
<1>8. Long(UpToLocalOnly(b), 1 + s + p + 1)
  BY <1>5, <1>7, LongSum DEF UpToLocalOnly
<1>9. Long(UpToSLInit(b), 1 + s + p + 1 + 3)
  BY <1>5, <1>8, LongSum DEF UpToSLInit
<1>10. /\ Long(UpToDefPolicy(b) \o SLPolicyLines, 1 + s + p + 1)
       /\ Long(UpToLocalOnly(b) \o <<Error>>, 1 + s + p + 1 + 1)
       /\ Long(UpToSLInit(b) \o VariableLines, 1 + s + p + 1 + 3 + v)
  BY <1>1, <1>5, <1>7, <1>8, <1>9, LongSum
<1>11. \E n \in 0 .. 7 + v : Long(TextOf(b), n)
  <2>1. CASE ~Windows7 /\ ~Windows8 /\ file.initialize
    <3>1. TextOf(b) = UpToSLInit(b) \o VariableLines /\ p = 1
      BY <1>3, <2>1 DEF TextOf
    <3>2. 1 + s + p + 1 + 3 + v \in 0 .. 7 + v
      BY <1>1, <3>1
    <3> QED BY <1>10, <3>1, <3>2
  <2>2. CASE ~(~Windows7 /\ ~Windows8 /\ file.initialize)
    <3>1. TextOf(b) \in {UpToDefPolicy(b), UpToDefPolicy(b) \o SLPolicyLines,
                         UpToLocalOnly(b) \o <<Error>>}
      BY <2>2 DEF TextOf
    <3>2. 1 + s + p \in 0 .. 7 + v /\ 1 + s + p + 1 \in 0 .. 7 + v /\ 1 + s + p + 1 + 1 \in 0 .. 7 + v
      BY <1>1
    <3> QED BY <1>7, <1>10, <3>1, <3>2
  <2> QED BY <2>1, <2>2
<1> QED BY <1>3, <1>5, <1>6, <1>7, <1>8, <1>9, <1>11 DEF v

(* Every variable keeps its type, and no text is longer than its longest   *)
(* form.                                                                   *)
THEOREM TypeCorrect == Spec => []TypeOK
<1>1. ASSUME IInv PROVE \E n \in 0 .. 7 + Len(VariableNames) : Long(lines, n)
  <2> DEFINE v == Len(VariableNames)
  <2>1. v \in Nat
    BY VariableNamesAssumption
  <2>2. CASE pc \in {"idle", "choose", "open"}
    <3>1. Long(lines, 0)
      <4>1. lines = <<>>
        BY <1>1, <2>2 DEF IInv, LinesSoFar
      <4>2. <<>> \in Seq(Line) /\ Len(<<>>) = 0
        OBVIOUS
      <4> QED BY <4>1, <4>2 DEF Long
    <3> QED BY <2>1, <3>1
  <2>3. CASE pc \notin {"idle", "choose", "open"}
    <3>1. backend \in Backends
      BY <1>1, <2>3 DEF IInv, Control
    <3>2. PICK s \in 0 .. 1, p \in 1 .. 2 :
            /\ p = 2 => backend = "nosymbol" /\ ~Windows7 /\ ~file.initialize
            /\ Long(<<Section(VersionName)>>, 1) /\ Long(UpToSingleUser(backend), 1 + s)
            /\ Long(UpToDefPolicy(backend), 1 + s + p)
            /\ Long(UpToLocalOnly(backend), 1 + s + p + 1)
            /\ Long(UpToSLInit(backend), 1 + s + p + 1 + 3)
            /\ \E n \in 0 .. 7 + v : Long(TextOf(backend), n)
      BY <1>1, <3>1, Lengths
    <3>3. /\ 1 \in 0 .. 7 + v /\ 1 + s \in 0 .. 7 + v /\ 1 + s + p \in 0 .. 7 + v
          /\ 1 + s + p + 1 \in 0 .. 7 + v /\ (p # 2 => 1 + s + p + 1 + 3 \in 0 .. 7 + v)
      BY <2>1
    <3>4. pc = "variables" => p # 2
      BY <1>1, <3>2 DEF IInv, LinesSoFar
    <3>5. \/ lines \in {<<Section(VersionName)>>, UpToSingleUser(backend), UpToDefPolicy(backend),
                       UpToLocalOnly(backend), TextOf(backend)}
          \/ pc = "variables" /\ lines = UpToSLInit(backend)
      BY <1>1, <2>3 DEF IInv, Control, LinesSoFar
    <3> HIDE DEF v
    <3>6. \E n \in 0 .. 7 + v : Long(lines, n)
      BY <3>2, <3>3, <3>4, <3>5, Zenon
    <3> QED BY <3>6 DEF v
  <2> QED BY <2>2, <2>3
<1>2. ASSUME NEW l \in Line PROVE l.kind \in {"section", "entry", "text", "blank"}
  <2>1. \A n, v : Section(n).kind = "section" /\ Entry(n, v).kind = "entry"
    BY DEF Section, Entry
  <2>2. Error.kind = "text" /\ Blank.kind = "blank"
    BY DEF Error, Text, Blank
  <2> QED BY <1>2, <2>1, <2>2 DEF Line
<1>3. ASSUME IInv PROVE TypeOK
  <2>1. lines \in Seq(Line) /\ Len(lines) <= 7 + Len(VariableNames)
    <3>1. Len(VariableNames) \in Nat
      BY VariableNamesAssumption
    <3> QED BY <1>1, <1>3, <3>1 DEF Long
  <2>2. \A i \in DOMAIN lines : lines[i].kind \in {"section", "entry", "text", "blank"}
    BY <1>2, <2>1
  <2> QED BY <1>3, <2>1, <2>2 DEF IInv, Control, LinesSoFar, TypeOK
<1> QED BY <1>3, Invariant, PTL

(* What the section parser finds in a section: the header at s and what    *)
(* stands before the next one, at e.                                       *)
Spans(doc, n, name, s, e) ==
  /\ n \in Nat /\ DOMAIN doc = 1 .. n /\ Len(doc) = n /\ s \in 1 .. n /\ e \in s + 1 .. n + 1
  /\ doc[s].kind = "section" /\ doc[s].name = name
  /\ \A i \in 1 .. s - 1 : doc[i].kind = "section" => doc[i].name # name
  /\ \A i \in s + 1 .. e - 1 : doc[i].kind # "section"
  /\ e = n + 1 \/ doc[e].kind = "section"

LEMMA KeysBetween ==
  ASSUME NEW doc, NEW n, NEW name, NEW s, NEW e, Spans(doc, n, name, s, e)
  PROVE  KeysIn(doc, name) = {doc[i].name : i \in {j \in s + 1 .. e - 1 : IsEntry(doc[j])}}
<1>1. /\ n \in Nat /\ DOMAIN doc = 1 .. n /\ Len(doc) = n /\ s \in 1 .. n /\ e \in s + 1 .. n + 1
      /\ doc[s].kind = "section" /\ doc[s].name = name
      /\ \A i \in 1 .. s - 1 : doc[i].kind = "section" => doc[i].name # name
      /\ \A i \in s + 1 .. e - 1 : doc[i].kind # "section"
      /\ e = n + 1 \/ doc[e].kind = "section"
  BY DEF Spans
<1>2. SectionStart(doc, name) = s
  <2>1. /\ HeadersOf(doc, name) \in SUBSET Int /\ s \in HeadersOf(doc, name)
        /\ \A x \in HeadersOf(doc, name) : s <= x
    BY <1>1 DEF HeadersOf, Headers
  <2> QED BY <2>1, MinIs DEF SectionStart
<1>3. SectionEnd(doc, name) = e
  <2> DEFINE E == {i \in Headers(doc) : i > s} \cup {n + 1}
  <2>1. E \in SUBSET Int /\ e \in E
    BY <1>1 DEF Headers
  <2>2. ASSUME NEW x \in E PROVE e <= x
    <3>1. x = n + 1 \/ (x \in 1 .. n /\ x > s /\ doc[x].kind = "section")
      <4>1. CASE x \in Headers(doc) /\ x > s
        <5>1. x \in DOMAIN doc /\ doc[x].kind = "section"
          BY <4>1 DEF Headers
        <5> QED BY <1>1, <4>1, <5>1
      <4> QED BY <2>2, <4>1
    <3>2. x \notin s + 1 .. e - 1
      BY <1>1, <3>1
    <3> QED BY <1>1, <3>1, <3>2
  <2> HIDE DEF E
  <2>3. Min(E) = e
    BY <2>1, <2>2, MinIs
  <2> QED BY <1>1, <1>2, <2>3 DEF SectionEnd, E
<1>4. HasSection(doc, name)
  BY <1>1 DEF HasSection, HeadersOf, Headers
<1>5. EntriesIn(doc, name) = {j \in s + 1 .. e - 1 : IsEntry(doc[j])}
  BY <1>2, <1>3, <1>4 DEF EntriesIn
<1> QED BY <1>5 DEF KeysIn

(* A text that begins with the version's header, has no other, and gives   *)
(* the keys K.                                                             *)
Begins(f, K) ==
  /\ f \in Seq(Line) /\ Len(f) >= 1 /\ f[1] = Section(VersionName)
  /\ \A i \in 2 .. Len(f) : f[i].kind # "section"
  /\ \A k \in K : \E i \in 2 .. Len(f) : IsEntry(f[i]) /\ f[i].name = k

LEMMA BeginsMore ==
  ASSUME NEW f, NEW K, Begins(f, K), NEW q \in Seq(Line), NEW M,
         \A i \in DOMAIN q : q[i].kind # "section",
         \A k \in M : \E i \in DOMAIN q : IsEntry(q[i]) /\ q[i].name = k
  PROVE  Begins(f \o q, K \cup M)
<1> DEFINE g == f \o q
<1>1. /\ f \in Seq(Line) /\ Len(f) >= 1 /\ f[1] = Section(VersionName)
      /\ \A i \in 2 .. Len(f) : f[i].kind # "section"
      /\ \A k \in K : \E i \in 2 .. Len(f) : IsEntry(f[i]) /\ f[i].name = k
  BY DEF Begins
<1>2. /\ g \in Seq(Line) /\ Len(g) = Len(f) + Len(q) /\ Len(f) \in Nat /\ Len(q) \in Nat
      /\ DOMAIN q = 1 .. Len(q)
      /\ \A i \in 1 .. Len(f) : g[i] = f[i]
      /\ \A i \in 1 .. Len(q) : g[Len(f) + i] = q[i]
  BY <1>1
<1> HIDE DEF g
<1>3. Len(g) >= 1 /\ g[1] = Section(VersionName)
  BY <1>1, <1>2
<1>4. ASSUME NEW i \in 2 .. Len(g) PROVE g[i].kind # "section"
  <2>1. CASE i <= Len(f)
    <3>1. i \in 2 .. Len(f) /\ i \in 1 .. Len(f)
      BY <1>2, <1>4, <2>1
    <3> QED BY <1>1, <1>2, <3>1
  <2>2. CASE i > Len(f)
    <3>1. PICK j \in 1 .. Len(q) : i = Len(f) + j
      <4>1. i - Len(f) \in 1 .. Len(q) /\ i = Len(f) + (i - Len(f))
        BY <1>2, <1>4, <2>2
      <4> QED BY <4>1
    <3> QED BY <1>2, <3>1
  <2> QED BY <1>2, <1>4, <2>1, <2>2
<1>5. ASSUME NEW k \in K \cup M PROVE \E i \in 2 .. Len(g) : IsEntry(g[i]) /\ g[i].name = k
  <2>1. CASE k \in K
    <3>1. PICK i \in 2 .. Len(f) : IsEntry(f[i]) /\ f[i].name = k
      BY <1>1, <2>1
    <3>2. i \in 2 .. Len(g) /\ g[i] = f[i]
      BY <1>2
    <3> QED BY <3>1, <3>2
  <2>2. CASE k \in M
    <3>1. PICK i \in 1 .. Len(q) : IsEntry(q[i]) /\ q[i].name = k
      BY <1>2, <2>2
    <3>2. Len(f) + i \in 2 .. Len(g) /\ g[Len(f) + i] = q[i]
      BY <1>1, <1>2
    <3> QED BY <3>1, <3>2
  <2> QED BY <1>5, <2>1, <2>2
<1>6. Begins(g, K \cup M)
  BY <1>2, <1>3, <1>4, <1>5 DEF Begins
<1> QED BY <1>6 DEF g

LEMMA KeysOfBeginning ==
  ASSUME NEW f, NEW K, Begins(f, K)
  PROVE  K \subseteq KeysIn(f, VersionName)
<1>1. PICK n \in Nat : n = Len(f) /\ DOMAIN f = 1 .. n /\ n >= 1
  BY DEF Begins
<1>2. PICK e \in 1 + 1 .. n + 1 : e = n + 1
  BY <1>1
<1>3. KeysIn(f, VersionName) = {f[i].name : i \in {j \in 1 + 1 .. e - 1 : IsEntry(f[j])}}
  <2>1. \A w : Section(w).kind = "section" /\ Section(w).name = w
    BY DEF Section
  <2>2. f[1].kind = "section" /\ f[1].name = VersionName /\ 1 \in 1 .. n
    BY <1>1, <2>1 DEF Begins
  <2>3. \A i \in 1 + 1 .. e - 1 : f[i].kind # "section"
    BY <1>1, <1>2 DEF Begins
  <2>4. \A i \in 1 .. 1 - 1 : f[i].kind = "section" => f[i].name # VersionName
    OBVIOUS
  <2> HIDE DEF VersionName
  <2>5. Len(f) = n
    BY <1>1
  <2>6. Spans(f, n, VersionName, 1, e)
    BY <1>1, <1>2, <2>2, <2>3, <2>4, <2>5 DEF Spans
  <2> QED BY <2>6, KeysBetween
<1>4. ASSUME NEW k \in K PROVE k \in KeysIn(f, VersionName)
  <2>1. PICK i \in 2 .. n : IsEntry(f[i]) /\ f[i].name = k
    BY <1>1, <1>4 DEF Begins
  <2>2. i \in 1 + 1 .. e - 1
    BY <1>2, <2>1
  <2> QED BY <1>3, <2>1, <2>2
<1> QED BY <1>4

LEMMA LinesJoined ==
  ASSUME NEW S, NEW x \in Seq(S), NEW y \in Seq(S)
  PROVE  /\ x \o y \in Seq(S) /\ Len(x \o y) = Len(x) + Len(y)
         /\ DOMAIN (x \o y) = 1 .. Len(x) + Len(y)
         /\ \A i \in 1 .. Len(x) : (x \o y)[i] = x[i]
         /\ \A i \in 1 .. Len(y) : (x \o y)[Len(x) + i] = y[i]
OBVIOUS

(* A whole text of a build after Windows 8: behind the opening, the hook's *)
(* entry, a blank line, the header of the -SLInit section, the variables.  *)
Full(doc, f, q, m, n) ==
  /\ m \in Nat /\ n \in Nat /\ m >= 1
  /\ m = Len(f) /\ DOMAIN f = 1 .. m /\ n = Len(q) /\ DOMAIN q = 1 .. n
  /\ doc \in Seq(Line) /\ Len(doc) = m + 3 + n /\ DOMAIN doc = 1 .. m + 3 + n
  /\ \A i \in 1 .. m : doc[i] = f[i]
  /\ doc[m + 1] = Entry("SLInit", "initialize") /\ doc[m + 2] = Blank
  /\ doc[m + 3] = Section(SLInitName)
  /\ \A i \in 1 .. n : doc[m + 3 + i] = q[i]

LEMMA FullTextIs ==
  ASSUME NEW f \in Seq(Line), Len(f) >= 1, NEW q \in Seq(Line)
  PROVE  \E m \in Nat, n \in Nat : Full((f \o SLInitLines) \o q, f, q, m, n)
<1> DEFINE doc == (f \o SLInitLines) \o q
<1>1. PICK m \in Nat : m = Len(f) /\ DOMAIN f = 1 .. m /\ m >= 1
  OBVIOUS
<1>2. PICK n \in Nat : n = Len(q) /\ DOMAIN q = 1 .. n
  OBVIOUS
<1>3. /\ Entry("SLInit", "initialize") \in Line /\ Blank \in Line /\ Section(SLInitName) \in Line
  BY DEF Line
<1>4. /\ SLInitLines \in Seq(Line) /\ Len(SLInitLines) = 3
      /\ SLInitLines[1] = Entry("SLInit", "initialize") /\ SLInitLines[2] = Blank
      /\ SLInitLines[3] = Section(SLInitName)
  BY <1>3 DEF SLInitLines
<1>5. PICK g \in Seq(Line) : g = f \o SLInitLines
  <2>1. f \o SLInitLines \in Seq(Line)
    BY <1>1, <1>4, LinesJoined
  <2> QED BY <2>1
<1>6. /\ Len(g) = m + 3 /\ \A i \in 1 .. m : g[i] = f[i]
      /\ \A i \in 1 .. 3 : g[m + i] = SLInitLines[i]
  <2>1. ASSUME NEW x \in Seq(Line), NEW y \in Seq(Line), g = x \o y
        PROVE  /\ Len(g) = Len(x) + Len(y) /\ \A i \in 1 .. Len(x) : g[i] = x[i]
               /\ \A i \in 1 .. Len(y) : g[Len(x) + i] = y[i]
    BY <2>1, LinesJoined
  <2>2. /\ Len(g) = Len(f) + Len(SLInitLines) /\ \A i \in 1 .. Len(f) : g[i] = f[i]
        /\ \A i \in 1 .. Len(SLInitLines) : g[Len(f) + i] = SLInitLines[i]
    BY <1>1, <1>4, <1>5, <2>1, Zenon
  <2> QED BY <1>1, <1>4, <2>2, Zenon
<1>7. /\ doc \in Seq(Line) /\ Len(doc) = m + 3 + n /\ DOMAIN doc = 1 .. m + 3 + n
      /\ \A i \in 1 .. m + 3 : doc[i] = g[i]
      /\ \A i \in 1 .. n : doc[m + 3 + i] = q[i]
  <2>1. doc = g \o q
    BY <1>5
  <2> HIDE DEF doc
  <2>2. /\ doc \in Seq(Line) /\ Len(doc) = Len(g) + Len(q) /\ DOMAIN doc = 1 .. Len(g) + Len(q)
        /\ \A i \in 1 .. Len(g) : doc[i] = g[i]
        /\ \A i \in 1 .. Len(q) : doc[Len(g) + i] = q[i]
    BY <2>1, LinesJoined
  <2> QED BY <1>2, <1>6, <2>2, Zenon
<1> HIDE DEF doc
<1>8. \A i \in 1 .. m : doc[i] = f[i]
  BY <1>6, <1>7
<1>9. /\ doc[m + 1] = Entry("SLInit", "initialize") /\ doc[m + 2] = Blank
      /\ doc[m + 3] = Section(SLInitName)
  <2>1. \A i \in 1 .. 3 : m + i \in 1 .. m + 3 /\ g[m + i] = SLInitLines[i]
    BY <1>6
  <2> QED BY <1>4, <1>7, <2>1
<1> QED BY <1>1, <1>2, <1>7, <1>8, <1>9, Zenon DEF Full, doc

LEMMA KeysOfFullText ==
  ASSUME NEW f, NEW K, Begins(f, K), NEW q \in Seq(Line),
         \A i \in DOMAIN q : IsEntry(q[i])
  PROVE  /\ K \cup {"SLInit"} \subseteq KeysIn((f \o SLInitLines) \o q, VersionName)
         /\ KeysIn((f \o SLInitLines) \o q, SLInitName) = {q[i].name : i \in DOMAIN q}
<1> DEFINE doc == (f \o SLInitLines) \o q
<1>1. f \in Seq(Line) /\ Len(f) >= 1
  BY DEF Begins
<1>2. PICK m \in Nat, n \in Nat : Full(doc, f, q, m, n)
  BY <1>1, FullTextIs
<1> HIDE DEF doc
<1>3. /\ m >= 1 /\ m = Len(f)
      /\ DOMAIN q = 1 .. n /\ DOMAIN doc = 1 .. m + 3 + n /\ Len(doc) = m + 3 + n
      /\ \A i \in 1 .. n : doc[m + 3 + i] = q[i]
  BY <1>2 DEF Full
<1>4. \A i \in 1 .. m : doc[i] = f[i]
  BY <1>2 DEF Full
<1>5. /\ doc[m + 1] = Entry("SLInit", "initialize") /\ doc[m + 2] = Blank
      /\ doc[m + 3] = Section(SLInitName)
  BY <1>2 DEF Full
<1>6. /\ \A w : Section(w).kind = "section" /\ Section(w).name = w
       /\ Blank.kind = "blank" /\ Entry("SLInit", "initialize").kind = "entry"
       /\ Entry("SLInit", "initialize").name = "SLInit"
  BY DEF Section, Entry, Blank
<1>7. VersionName # SLInitName
  BY DEF VersionName, SLInitName
<1>8. doc[1].kind = "section" /\ doc[1].name = VersionName
  BY <1>1, <1>3, <1>4, <1>6 DEF Begins
<1>9. doc[m + 3].kind = "section" /\ doc[m + 3].name = SLInitName
  BY <1>5, <1>6
<1>10. ASSUME NEW i \in 2 .. m + 2 PROVE doc[i].kind # "section"
  <2>1. CASE i \in 2 .. m
    BY <1>1, <1>3, <1>4, <2>1 DEF Begins
  <2>2. CASE i = m + 1 \/ i = m + 2
    BY <1>5, <1>6, <2>2
  <2> QED BY <1>10, <2>1, <2>2
<1>11. ASSUME NEW i \in m + 4 .. m + 3 + n
       PROVE  doc[i].kind = "entry" /\ i - (m + 3) \in 1 .. n /\ doc[i] = q[i - (m + 3)]
  <2>1. i - (m + 3) \in 1 .. n /\ i = m + 3 + (i - (m + 3))
    BY <1>11
  <2>2. doc[i] = q[i - (m + 3)]
    BY <1>3, <2>1
  <2> QED BY <1>3, <2>1, <2>2 DEF IsEntry
<1>12. PICK e : e = m + 3
  OBVIOUS
<1>13. PICK l : l = m + 3 + n
  OBVIOUS
<1>14. KeysIn(doc, VersionName) = {doc[i].name : i \in {j \in 1 + 1 .. e - 1 : IsEntry(doc[j])}}
  <2>1. /\ e \in 1 + 1 .. l + 1 /\ 1 \in 1 .. l /\ l \in Nat
        /\ \A i \in 1 + 1 .. e - 1 : i \in 2 .. m + 2
    BY <1>12, <1>13
  <2>2. \A i \in 1 + 1 .. e - 1 : doc[i].kind # "section"
    BY <1>10, <2>1
  <2>3. doc[e].kind = "section" /\ DOMAIN doc = 1 .. l /\ Len(doc) = l
    BY <1>3, <1>9, <1>12, <1>13
  <2>4. \A i \in 1 .. 1 - 1 : doc[i].kind = "section" => doc[i].name # VersionName
    OBVIOUS
  <2> HIDE DEF VersionName
  <2>5. Spans(doc, l, VersionName, 1, e)
    BY <1>8, <2>1, <2>2, <2>3, <2>4 DEF Spans
  <2> QED BY <2>5, KeysBetween
<1>15. KeysIn(doc, SLInitName) = {doc[i].name : i \in {j \in e + 1 .. (l + 1) - 1 : IsEntry(doc[j])}}
  <2>1. PICK t : t = l + 1
    OBVIOUS
  <2>2. /\ e \in 1 .. l /\ l \in Nat /\ t \in e + 1 .. l + 1
        /\ \A i \in e + 1 .. t - 1 : i \in m + 4 .. m + 3 + n
    BY <1>12, <1>13, <2>1
  <2>3. \A i \in e + 1 .. t - 1 : doc[i].kind # "section"
    BY <1>11, <2>2
  <2>4. doc[e].kind = "section" /\ doc[e].name = SLInitName /\ DOMAIN doc = 1 .. l /\ Len(doc) = l
    BY <1>3, <1>9, <1>12, <1>13
  <2>5. ASSUME NEW i \in 1 .. e - 1, doc[i].kind = "section" PROVE doc[i].name # SLInitName
    <3>1. i = 1 \/ i \in 2 .. m + 2
      BY <1>12
    <3> QED BY <1>7, <1>8, <1>10, <2>5, <3>1
  <2> HIDE DEF SLInitName
  <2>6. KeysIn(doc, SLInitName) = {doc[i].name : i \in {j \in e + 1 .. t - 1 : IsEntry(doc[j])}}
    <3>1. Spans(doc, l, SLInitName, e, t)
      BY <2>1, <2>2, <2>3, <2>4, <2>5 DEF Spans
    <3> QED BY <3>1, KeysBetween
  <2> QED BY <2>1, <2>6
<1>16. ASSUME NEW k \in K \cup {"SLInit"} PROVE k \in KeysIn(doc, VersionName)
  <2>1. CASE k \in K
    <3>1. PICK i \in 2 .. m : IsEntry(f[i]) /\ f[i].name = k
      BY <1>1, <1>3, <2>1 DEF Begins
    <3>2. i \in 1 + 1 .. e - 1 /\ doc[i] = f[i]
      BY <1>4, <1>12
    <3> QED BY <1>14, <3>1, <3>2
  <2>2. CASE k = "SLInit"
    <3>1. m + 1 \in 1 + 1 .. e - 1 /\ IsEntry(doc[m + 1]) /\ doc[m + 1].name = k
      BY <1>1, <1>3, <1>5, <1>6, <1>12, <2>2 DEF IsEntry
    <3> QED BY <1>14, <3>1
  <2> QED BY <1>16, <2>1, <2>2
<1>17. KeysIn(doc, SLInitName) = {q[i].name : i \in DOMAIN q}
  <2>1. ASSUME NEW i \in 1 .. n
        PROVE  m + 3 + i \in e + 1 .. (l + 1) - 1 /\ IsEntry(doc[m + 3 + i])
               /\ doc[m + 3 + i].name = q[i].name
    <3>1. m + 3 + i \in e + 1 .. (l + 1) - 1 /\ i \in DOMAIN q
      BY <1>3, <1>12, <1>13
    <3> QED BY <1>3, <3>1
  <2>2. ASSUME NEW j \in e + 1 .. (l + 1) - 1
        PROVE  j - (m + 3) \in 1 .. n /\ doc[j].name = q[j - (m + 3)].name
    <3>1. j \in m + 4 .. m + 3 + n
      BY <1>12, <1>13
    <3> QED BY <1>11, <3>1
  <2>3. ASSUME NEW x \in KeysIn(doc, SLInitName) PROVE x \in {q[i].name : i \in DOMAIN q}
    <3>1. PICK j \in e + 1 .. (l + 1) - 1 : x = doc[j].name
      BY <1>15, <2>3
    <3> QED BY <1>3, <2>2, <3>1
  <2>4. ASSUME NEW i \in 1 .. n PROVE q[i].name \in KeysIn(doc, SLInitName)
    BY <1>15, <2>1
  <2> QED BY <1>3, <2>3, <2>4
<1> QED BY <1>16, <1>17 DEF doc

(* A part without an ERROR line is the entry it is for.                    *)
LEMMA WholeParts ==
  /\ ~HasError(DefPolicyLines) => DefPolicyLines = <<Entry("DefPolicy", "query")>>
  /\ ~HasError(SLPolicyLines) => SLPolicyLines = <<Entry("SLPolicy", "wrapper")>>
  /\ ~HasError(LocalOnlyLines) => LocalOnlyLines = <<Entry("LocalOnly", "license")>>
BY ErrorLine DEF DefPolicyLines, SLPolicyLines, LocalOnlyLines, Matched

LEMMA WholeVariables ==
  ASSUME ~HasError(VariableLines)
  PROVE  /\ \A i \in DOMAIN VariableLines : IsEntry(VariableLines[i])
         /\ {VariableLines[i].name : i \in DOMAIN VariableLines} = Names
<1>1. Error.kind = "text" /\ Error.name = "ERROR"
  BY DEF Error, Text
<1>2. \A n : Entry(n, "rva").kind = "entry" /\ Entry(n, "rva").name = n
  BY DEF Entry
<1>3. DOMAIN VariableLines = DOMAIN VariableNames
  BY DEF VariableLines
<1>4. ASSUME NEW i \in DOMAIN VariableNames PROVE VariableLines[i] = Entry(VariableNames[i], "rva")
  <2>1. VariableLines[i] \in {Entry(VariableNames[i], "rva"), Error}
    BY DEF VariableLines
  <2>2. VariableLines[i] # Error
    BY <1>1, <1>3 DEF HasError
  <2> QED BY <2>1, <2>2
<1>5. Names = {VariableNames[i] : i \in DOMAIN VariableNames}
  BY DEF Names, ToSet
<1> QED BY <1>2, <1>3, <1>4, <1>5 DEF IsEntry

LEMMA OneMore ==
  ASSUME NEW f, NEW K, Begins(f, K), NEW k, NEW v, NEW q \in Seq(Line), q = <<Entry(k, v)>>
  PROVE  Begins(f \o q, K \cup {k})
<1>1. Entry(k, v).kind = "entry" /\ Entry(k, v).name = k
  BY DEF Entry
<1>2. DOMAIN q = {1} /\ q[1] = Entry(k, v)
  OBVIOUS
<1>3. /\ \A i \in DOMAIN q : q[i].kind # "section"
      /\ \A x \in {k} : \E i \in DOMAIN q : IsEntry(q[i]) /\ q[i].name = x
  BY <1>1, <1>2 DEF IsEntry
<1> QED BY <1>3, BeginsMore

(* A text without an ERROR line is whole.                                  *)
LEMMA NoErrorMeansWhole ==
  ASSUME IInv, NEW b \in Backends, ~HasError(TextOf(b))
  PROVE  Whole(TextOf(b))
<1>1. PICK s \in 0 .. 1, p \in 1 .. 2 :
        /\ Long(<<Section(VersionName)>>, 1) /\ Long(UpToSingleUser(b), 1 + s)
        /\ Long(UpToDefPolicy(b), 1 + s + p) /\ Long(UpToLocalOnly(b), 1 + s + p + 1)
        /\ Long(UpToSLInit(b), 1 + s + p + 1 + 3)
  BY Lengths, Zenon
<1>2. /\ <<Section(VersionName)>> \in Seq(Line) /\ Len(<<Section(VersionName)>>) = 1
      /\ UpToSingleUser(b) \in Seq(Line) /\ UpToDefPolicy(b) \in Seq(Line)
      /\ UpToLocalOnly(b) \in Seq(Line) /\ UpToSLInit(b) \in Seq(Line)
  BY <1>1, Zenon DEF Long
<1>3. /\ SingleUserLines(b) \in Seq(Line) /\ PolicyLines(b) \in Seq(Line)
      /\ LocalOnlyLines \in Seq(Line) /\ SLPolicyLines \in Seq(Line)
      /\ SLInitLines \in Seq(Line) /\ VariableLines \in Seq(Line) /\ <<Error>> \in Seq(Line)
  BY PartsOfText, Zenon
<1>4. /\ HasError(PolicyLines(b)) => HasError(UpToDefPolicy(b))
      /\ HasError(UpToDefPolicy(b)) => HasError(UpToLocalOnly(b))
      /\ HasError(LocalOnlyLines) => HasError(UpToLocalOnly(b))
      /\ HasError(UpToLocalOnly(b)) => HasError(UpToSLInit(b))
  BY <1>2, <1>3, ErrorInParts DEF UpToDefPolicy, UpToLocalOnly, UpToSLInit
<1>5. /\ HasError(UpToDefPolicy(b)) \/ HasError(SLPolicyLines)
           => HasError(UpToDefPolicy(b) \o SLPolicyLines)
      /\ HasError(UpToLocalOnly(b) \o <<Error>>)
      /\ HasError(UpToSLInit(b)) \/ HasError(VariableLines)
           => HasError(UpToSLInit(b) \o VariableLines)
  BY <1>2, <1>3, ErrorInParts, ErrorLine
<1>6. ~HasError(PolicyLines(b)) /\ ~HasError(UpToDefPolicy(b))
  BY <1>4, <1>5 DEF TextOf
<1>7. b = "nosymbol" => Windows7 \/ file.initialize
  <2>1. SUFFICES ASSUME b = "nosymbol", ~Windows7, ~file.initialize PROVE FALSE
    OBVIOUS
  <2>2. PolicyLines(b) = DefPolicyLines \o <<Error>>
    BY <2>1 DEF PolicyLines
  <2>3. DefPolicyLines \in Seq(Line)
    BY PartsOfText DEF Backends, PolicyLines
  <2>4. HasError(DefPolicyLines \o <<Error>>)
    BY <1>3, <2>3, ErrorInParts, ErrorLine
  <2> QED BY <1>6, <2>2, <2>4
<1>8. Begins(UpToDefPolicy(b), {"DefPolicy"})
  <2>1. Begins(<<Section(VersionName)>>, {})
    BY <1>2 DEF Begins
  <2>2. Begins(UpToSingleUser(b), {})
    <3>1. /\ Error.kind = "text"
          /\ \A k, v : <<Entry(k, v)>>[1].kind = "entry"
      BY DEF Error, Text, Entry
    <3>2. \A i \in DOMAIN SingleUserLines(b) : SingleUserLines(b)[i].kind # "section"
      BY <3>1 DEF SingleUserLines, Matched
    <3>3. Begins(UpToSingleUser(b), {} \cup {})
      BY <1>3, <2>1, <3>2, BeginsMore DEF UpToSingleUser
    <3> QED BY <3>3
  <2>3. PolicyLines(b) = <<Entry("DefPolicy", "query")>>
    BY <1>6, <1>7, NoMorePolicyLines, WholeParts
  <2>4. Begins(UpToDefPolicy(b), {} \cup {"DefPolicy"})
    BY <1>3, <2>2, <2>3, OneMore, Zenon DEF UpToDefPolicy
  <2> QED BY <2>4
<1>9. CASE Windows7
  <2>1. TextOf(b) = UpToDefPolicy(b) /\ NeededKeys = {"DefPolicy"}
    BY <1>9 DEF TextOf, NeededKeys
  <2> QED BY <1>8, <2>1, KeysOfBeginning DEF Whole
<1>10. CASE ~Windows7 /\ Windows8
  <2>1. /\ TextOf(b) = UpToDefPolicy(b) \o SLPolicyLines
        /\ NeededKeys = {"DefPolicy"} \cup {"SLPolicy"}
    BY <1>7, <1>10 DEF TextOf, NeededKeys
  <2>2. SLPolicyLines = <<Entry("SLPolicy", "wrapper")>>
    BY <1>5, <2>1, WholeParts
  <2>3. Begins(UpToDefPolicy(b) \o SLPolicyLines, {"DefPolicy"} \cup {"SLPolicy"})
    BY <1>3, <1>8, <2>2, OneMore, Zenon
  <2> QED BY <2>1, <2>3, KeysOfBeginning DEF Whole
<1>11. CASE ~Windows7 /\ ~Windows8
  <2>1. /\ file.initialize /\ TextOf(b) = UpToSLInit(b) \o VariableLines
        /\ NeededKeys = {"DefPolicy", "LocalOnly", "SLInit"}
    BY <1>5, <1>7, <1>11 DEF TextOf, NeededKeys
  <2>2. ~HasError(LocalOnlyLines) /\ ~HasError(VariableLines)
    BY <1>4, <1>5, <2>1
  <2>3. LocalOnlyLines = <<Entry("LocalOnly", "license")>>
    BY <2>2, WholeParts
  <2>4. Begins(UpToLocalOnly(b), {"DefPolicy"} \cup {"LocalOnly"})
    BY <1>3, <1>8, <2>3, OneMore, Zenon DEF UpToLocalOnly
  <2>5. TextOf(b) = (UpToLocalOnly(b) \o SLInitLines) \o VariableLines
    BY <2>1 DEF UpToSLInit
  <2>6. /\ {"DefPolicy"} \cup {"LocalOnly"} \cup {"SLInit"} \subseteq KeysIn(TextOf(b), VersionName)
        /\ KeysIn(TextOf(b), SLInitName) = {VariableLines[i].name : i \in DOMAIN VariableLines}
    <3>1. \A i \in DOMAIN VariableLines : IsEntry(VariableLines[i])
      BY <2>2, WholeVariables
    <3>2. PICK K : K = {"DefPolicy"} \cup {"LocalOnly"}
      OBVIOUS
    <3>3. PICK f : f = UpToLocalOnly(b) /\ Begins(f, K)
      BY <2>4, <3>2
    <3>4. PICK q \in Seq(Line) : q = VariableLines /\ \A i \in DOMAIN q : IsEntry(q[i])
      BY <1>3, <3>1
    <3>5. /\ K \cup {"SLInit"} \subseteq KeysIn((f \o SLInitLines) \o q, VersionName)
          /\ KeysIn((f \o SLInitLines) \o q, SLInitName) = {q[i].name : i \in DOMAIN q}
      BY <3>3, <3>4, KeysOfFullText
    <3> QED BY <2>5, <3>2, <3>3, <3>4, <3>5, Zenon
  <2>7. KeysIn(TextOf(b), SLInitName) = Names
    BY <2>2, <2>6, WholeVariables
  <2> QED BY <2>1, <2>6, <2>7 DEF Whole
<1> QED BY <1>9, <1>10, <1>11

(* Exit code 0 without --allow-errors: nothing the version needs is        *)
(* missing from the text, for all facts a backend may learn, and whichever *)
(* early return its run takes.                                             *)
THEOREM ExitZeroMeansWholeHolds == Spec => ExitZeroMeansWhole
<1> DEFINE Exits == pc = "print" /\ exit' = 0 /\ ~allow => Whole(lines)
<1>1. ASSUME IInv, [Next]_vars PROVE [Exits]_vars
  <2>1. SUFFICES ASSUME Next, pc = "print", exit' = 0, ~allow PROVE Whole(lines)
    BY <1>1
  <2>2. ~HasError(lines)
    <3>1. WriteText
      BY <2>1 DEF Next, SymbolFinderRun, SymbolsSingleUser, SymbolsDefPolicy, SymbolsWin8,
           SymbolsLocalOnly, SymbolsSLInit, SymbolsVariables, NoSymbolFinderRun,
           NosymbolSingleUser, NosymbolDefPolicy, NosymbolWin8, NosymbolLocalOnly,
           NosymbolSLInit, NosymbolVariables, Start, Choose, Raise, Open
    <3> QED BY <2>1, <3>1 DEF WriteText, End
  <2>3. backend \in Backends /\ lines = TextOf(backend)
    BY <1>1, <2>1 DEF IInv, Control, LinesSoFar
  <2>4. Whole(TextOf(backend))
    BY <1>1, <2>2, <2>3, NoErrorMeansWhole
  <2> QED BY <2>3, <2>4
<1> QED BY <1>1, Invariant, PTL DEF Spec, ExitZeroMeansWhole

-----------------------------------------------------------------------------
(* The text as the updater's section parser reads it.                      *)

(* Lines without a header whose entries have names in K, each its own.     *)
Bare(q, K) ==
  /\ q \in Seq(Line)
  /\ \A i \in DOMAIN q : q[i].kind # "section" /\ (IsEntry(q[i]) => q[i].name \in K)
  /\ \A i, j \in DOMAIN q : IsEntry(q[i]) /\ IsEntry(q[j]) /\ q[i].name = q[j].name => i = j

(* The header of the version's section, then bare lines.                   *)
Opening(f, K) ==
  /\ f \in Seq(Line) /\ Len(f) >= 1 /\ f[1] = Section(VersionName)
  /\ \A i \in DOMAIN f : i # 1 => f[i].kind # "section"
  /\ \A i \in DOMAIN f : IsEntry(f[i]) => f[i].name \in K
  /\ \A i, j \in DOMAIN f : IsEntry(f[i]) /\ IsEntry(f[j]) /\ f[i].name = f[j].name => i = j

LEMMA OpeningMore ==
  ASSUME NEW f, NEW K, Opening(f, K), NEW q, NEW M, Bare(q, M), K \cap M = {}
  PROVE  Opening(f \o q, K \cup M)
<1>1. PICK m \in Nat, n \in Nat : m = Len(f) /\ n = Len(q) /\ DOMAIN f = 1 .. m
                                  /\ DOMAIN q = 1 .. n /\ m >= 1
  BY DEF Opening, Bare
<1>2. PICK g : g = f \o q
  OBVIOUS
<1>3. /\ g \in Seq(Line) /\ Len(g) = m + n /\ DOMAIN g = 1 .. m + n
      /\ \A i \in 1 .. m : g[i] = f[i]
      /\ \A i \in 1 .. n : g[m + i] = q[i]
  <2>1. /\ g \in Seq(Line) /\ Len(g) = Len(f) + Len(q) /\ DOMAIN g = 1 .. Len(f) + Len(q)
        /\ \A i \in 1 .. Len(f) : g[i] = f[i]
        /\ \A i \in 1 .. Len(q) : g[Len(f) + i] = q[i]
    BY <1>2, LinesJoined DEF Opening, Bare
  <2> QED BY <1>1, <2>1
<1>4. ASSUME NEW i \in 1 .. m + n, ~(i \in 1 .. m)
      PROVE  i - m \in 1 .. n /\ g[i] = q[i - m] /\ i # 1
  <2>1. i - m \in 1 .. n /\ i = m + (i - m) /\ i # 1
    BY <1>1, <1>4
  <2> QED BY <1>3, <2>1
<1>5. ASSUME NEW i \in 1 .. m + n
      PROVE  /\ i # 1 => g[i].kind # "section"
             /\ IsEntry(g[i]) => g[i].name \in K \cup M
             /\ IsEntry(g[i]) => (i \in 1 .. m <=> g[i].name \in K)
  <2>1. CASE i \in 1 .. m
    BY <1>1, <1>3, <2>1 DEF Opening
  <2>2. CASE ~(i \in 1 .. m)
    <3>1. PICK h \in 1 .. n : h = i - m /\ g[i] = q[h] /\ i # 1
      BY <1>4, <2>2
    <3>2. q[h].kind # "section" /\ (IsEntry(q[h]) => q[h].name \in M)
      BY <1>1 DEF Bare
    <3> QED BY <2>2, <3>1, <3>2
  <2> QED BY <2>1, <2>2
<1>6. ASSUME NEW i \in 1 .. m + n, NEW j \in 1 .. m + n,
             IsEntry(g[i]), IsEntry(g[j]), g[i].name = g[j].name
      PROVE  i = j
  <2>1. i \in 1 .. m <=> j \in 1 .. m
    BY <1>5, <1>6
  <2>2. CASE i \in 1 .. m
    BY <1>1, <1>3, <1>6, <2>1, <2>2 DEF Opening
  <2>3. CASE ~(i \in 1 .. m)
    <3>1. /\ i - m \in 1 .. n /\ g[i] = q[i - m]
          /\ j - m \in 1 .. n /\ g[j] = q[j - m]
      BY <1>4, <2>1, <2>3
    <3>2. i - m = j - m
      BY <1>1, <1>6, <3>1 DEF Bare
    <3> QED BY <3>2
  <2> QED BY <2>2, <2>3
<1>7. g[1] = Section(VersionName) /\ Len(g) >= 1
  BY <1>1, <1>3 DEF Opening
<1> QED BY <1>2, <1>3, <1>5, <1>6, <1>7 DEF Opening

(* What Ascending gives for one number and for two.                        *)
LEMMA AscendingOne ==
  ASSUME NEW a, a = Ascending({1}) PROVE DOMAIN a = 1 .. 1 /\ a[1] = 1
<1>1. Lists(a, {1})
  BY AscendingLists
<1>2. PICK n \in Nat : DOMAIN a = 1 .. n
  BY <1>1 DEF Lists
<1>3. /\ \A i \in 1 .. n : a[i] = 1
      /\ \E i \in 1 .. n : a[i] = 1
      /\ \A i, j \in 1 .. n : i < j => a[i] < a[j]
  BY <1>1, <1>2 DEF Lists
<1>4. n = 1
  <2>1. n # 0
    BY <1>3
  <2>2. ~(n >= 2)
    BY <1>3
  <2> QED BY <2>1, <2>2
<1> QED BY <1>2, <1>3, <1>4

LEMMA AscendingTwo ==
  ASSUME NEW k \in Nat, k > 1, NEW a, a = Ascending({1, k})
  PROVE  DOMAIN a = 1 .. 2 /\ a[1] = 1 /\ a[2] = k
<1>1. Lists(a, {1, k})
  <2>1. {1, k} \in SUBSET (1 .. k)
    OBVIOUS
  <2> QED BY <2>1, AscendingLists
<1>2. PICK n \in Nat : DOMAIN a = 1 .. n
  BY <1>1 DEF Lists
<1>3. /\ \A i \in 1 .. n : a[i] \in {1, k}
      /\ \E i \in 1 .. n : a[i] = 1
      /\ \E i \in 1 .. n : a[i] = k
      /\ \A i, j \in 1 .. n : i < j => a[i] < a[j]
  BY <1>1, <1>2 DEF Lists
<1>4. ASSUME n >= 3 PROVE FALSE
  <2>1. a[1] < a[2] /\ a[2] < a[3] /\ a[1] \in {1, k} /\ a[2] \in {1, k} /\ a[3] \in {1, k}
    BY <1>3, <1>4
  <2> QED BY <2>1
<1>5. n = 2
  <2>1. PICK i \in 1 .. n, j \in 1 .. n : a[i] = 1 /\ a[j] = k
    BY <1>3
  <2>2. i # j
    BY <2>1
  <2> QED BY <1>4, <2>1, <2>2
<1>6. a[1] = 1 /\ a[2] = k
  BY <1>3, <1>5
<1> QED BY <1>2, <1>5, <1>6

(* The names of the generated sections are those of the headers, in order. *)
NamesOf(doc) == [i \in DOMAIN GeneratedSections(doc) |-> GeneratedSections(doc)[i].name]

LEMMA NamesAre ==
  ASSUME NEW doc, NEW heads, heads = Ascending(Headers(doc))
  PROVE  NamesOf(doc) = [i \in DOMAIN heads |-> doc[heads[i]].name]
BY DEF NamesOf, GeneratedSections

(* A snippet, whatever its version's keys and variables are called.        *)
Snippet(doc) ==
  /\ Head(doc) = Section(VersionName)
  /\ NamesOf(doc) = IF "SLInit" \in KeysIn(doc, VersionName)
                      THEN <<VersionName, SLInitName>> ELSE <<VersionName>>
  /\ KeysIn(doc, SLInitName) \subseteq Names
  /\ KeysIn(doc, VersionName) \cap Names = {}
  /\ \A i, j \in {k \in DOMAIN doc : IsEntry(doc[k])} : doc[i].name = doc[j].name => i = j

(* A text of the version's section alone.                                  *)
LEMMA OpeningIsSnippet ==
  ASSUME NEW f, NEW K, Opening(f, K), K \cap Names = {}, "SLInit" \notin K
  PROVE  Snippet(f)
<1>1. PICK n \in Nat : n = Len(f) /\ DOMAIN f = 1 .. n /\ n >= 1
  BY DEF Opening
<1>2. \A w : Section(w).kind = "section" /\ Section(w).name = w
  BY DEF Section
<1>3. f[1].kind = "section" /\ f[1].name = VersionName /\ f \in Seq(Line)
      /\ \A i \in 1 .. n : i # 1 => f[i].kind # "section"
  BY <1>1, <1>2 DEF Opening
<1>4. PICK v : v = VersionName
  OBVIOUS
<1>5. KeysIn(f, v) = {f[i].name : i \in {j \in 1 + 1 .. (n + 1) - 1 : IsEntry(f[j])}}
  <2>1. /\ \A i \in 1 .. 1 - 1 : f[i].kind = "section" => f[i].name # v
        /\ \A i \in 1 + 1 .. (n + 1) - 1 : i \in 1 .. n /\ i # 1
    BY <1>1
  <2>2. Spans(f, n, v, 1, n + 1)
    BY <1>1, <1>3, <1>4, <2>1 DEF Spans
  <2> QED BY <2>2, KeysBetween
<1>6. KeysIn(f, v) \subseteq K
  <2>1. \A i \in 1 + 1 .. (n + 1) - 1 : IsEntry(f[i]) => f[i].name \in K
    BY <1>1 DEF Opening
  <2> QED BY <1>5, <2>1
<1>7. KeysIn(f, SLInitName) = {}
  <2>1. VersionName # SLInitName
    BY DEF VersionName, SLInitName
  <2>2. ~HasSection(f, SLInitName)
    BY <1>1, <1>3, <2>1 DEF HasSection, HeadersOf, Headers
  <2> QED BY <2>2 DEF KeysIn, EntriesIn
<1>8. NamesOf(f) = <<v>>
  <2>1. Headers(f) = {1}
    BY <1>1, <1>3 DEF Headers
  <2>2. PICK heads : heads = Ascending(Headers(f))
    OBVIOUS
  <2>3. DOMAIN heads = 1 .. 1 /\ heads[1] = 1
    BY <2>1, <2>2, AscendingOne
  <2>4. NamesOf(f) = [i \in 1 .. 1 |-> f[heads[i]].name]
    BY <2>2, <2>3, NamesAre
  <2>5. \A i \in 1 .. 1 : f[heads[i]].name = v
    BY <1>3, <1>4, <2>3
  <2> QED BY <2>4, <2>5
<1>9. Head(f) = Section(v)
  BY <1>1, <1>4 DEF Opening
<1>10. \A i, j \in {k \in DOMAIN f : IsEntry(f[k])} : f[i].name = f[j].name => i = j
  BY DEF Opening
<1> QED BY <1>4, <1>6, <1>7, <1>8, <1>9, <1>10 DEF Snippet

(* A text with the -SLInit section.                                        *)
LEMMA FullReadsAsSnippet ==
  ASSUME NEW f, NEW K, Opening(f, K), K \cap Names = {}, "SLInit" \notin K, "SLInit" \notin Names,
         NEW q, Bare(q, Names), NEW m \in Nat, NEW n \in Nat, NEW doc, Full(doc, f, q, m, n)
  PROVE  Snippet(doc)
<1>1. Full(doc, f, q, m, n)
  OBVIOUS
<1>2. /\ m >= 1 /\ DOMAIN f = 1 .. m /\ DOMAIN q = 1 .. n
      /\ doc \in Seq(Line) /\ Len(doc) = m + 3 + n /\ DOMAIN doc = 1 .. m + 3 + n
      /\ \A i \in 1 .. m : doc[i] = f[i]
      /\ \A i \in 1 .. n : doc[m + 3 + i] = q[i]
  BY <1>1 DEF Full
<1>3. /\ \A w : Section(w).kind = "section" /\ Section(w).name = w
      /\ Blank.kind = "blank" /\ Entry("SLInit", "initialize").kind = "entry"
      /\ Entry("SLInit", "initialize").name = "SLInit"
  BY DEF Section, Entry, Blank
<1>4. PICK v, w : v = VersionName /\ w = SLInitName
  OBVIOUS
<1>5. v # w
  BY <1>4 DEF VersionName, SLInitName
<1>6. /\ doc[m + 1].kind = "entry" /\ doc[m + 1].name = "SLInit" /\ doc[m + 2].kind = "blank"
      /\ doc[m + 3].kind = "section" /\ doc[m + 3].name = w
      /\ doc[1] = Section(v) /\ doc[1].kind = "section" /\ doc[1].name = v
  <2>1. /\ doc[m + 1] = Entry("SLInit", "initialize") /\ doc[m + 2] = Blank
        /\ doc[m + 3] = Section(w)
    BY <1>1, <1>4 DEF Full
  <2>2. doc[1] = Section(v)
    BY <1>2, <1>4 DEF Opening
  <2> QED BY <1>3, <2>1, <2>2
<1>7. ASSUME NEW i \in 1 .. m
      PROVE  /\ i # 1 => doc[i].kind # "section"
             /\ IsEntry(doc[i]) => doc[i].name \in K
  BY <1>2, <1>7 DEF Opening
<1>8. ASSUME NEW i \in m + 4 .. m + 3 + n
      PROVE  /\ i - (m + 3) \in 1 .. n /\ doc[i] = q[i - (m + 3)]
             /\ doc[i].kind # "section" /\ (IsEntry(doc[i]) => doc[i].name \in Names)
  <2>1. i - (m + 3) \in 1 .. n /\ i = m + 3 + (i - (m + 3))
    BY <1>8
  <2>2. doc[i] = q[i - (m + 3)]
    BY <1>2, <2>1
  <2> QED BY <1>2, <2>1, <2>2 DEF Bare
<1>9. \A i \in 1 .. m + 3 + n : i \in 1 .. m \/ i = m + 1 \/ i = m + 2 \/ i = m + 3
                                \/ i \in m + 4 .. m + 3 + n
  OBVIOUS
<1>10. PICK e, l, t : e = m + 3 /\ l = m + 3 + n /\ t = l + 1
  OBVIOUS
<1>11. KeysIn(doc, v) = {doc[i].name : i \in {j \in 1 + 1 .. e - 1 : IsEntry(doc[j])}}
  <2>1. /\ \A i \in 1 .. 1 - 1 : doc[i].kind = "section" => doc[i].name # v
        /\ \A i \in 1 + 1 .. (m + 3) - 1 : (i \in 1 .. m /\ i # 1) \/ i = m + 1 \/ i = m + 2
        /\ m + 3 \in 1 + 1 .. (m + 3 + n) + 1 /\ 1 \in 1 .. m + 3 + n /\ m + 3 + n \in Nat
    BY <1>2
  <2>2. \A i \in 1 + 1 .. (m + 3) - 1 : doc[i].kind # "section"
    BY <1>6, <1>7, <2>1
  <2>3. Spans(doc, l, v, 1, e)
    BY <1>2, <1>6, <1>10, <2>1, <2>2 DEF Spans
  <2> QED BY <2>3, KeysBetween
<1>12. KeysIn(doc, w) =
         {doc[i].name : i \in {j \in e + 1 .. t - 1 : IsEntry(doc[j])}}
  <2>1. /\ \A i \in 1 .. (m + 3) - 1 : i \in 1 .. m \/ i = m + 1 \/ i = m + 2
        /\ \A i \in (m + 3) + 1 .. (m + 3 + n + 1) - 1 : i \in m + 4 .. m + 3 + n
        /\ m + 3 + n + 1 \in (m + 3) + 1 .. (m + 3 + n) + 1
        /\ m + 3 \in 1 .. m + 3 + n /\ m + 3 + n \in Nat
        /\ m + 3 + n + 1 = (m + 3 + n) + 1
    OBVIOUS
  <2>2. \A i \in 1 .. (m + 3) - 1 : doc[i].kind = "section" => doc[i].name # w
    BY <1>5, <1>6, <1>7, <2>1
  <2>3. \A i \in (m + 3) + 1 .. (m + 3 + n + 1) - 1 : doc[i].kind # "section"
    BY <1>8, <2>1
  <2>4. Spans(doc, l, w, e, t)
    BY <1>2, <1>6, <1>10, <2>1, <2>2, <2>3 DEF Spans
  <2> QED BY <2>4, KeysBetween
<1>13. KeysIn(doc, v) \subseteq K \cup {"SLInit"} /\ "SLInit" \in KeysIn(doc, v)
  <2>1. \A i \in 1 + 1 .. (m + 3) - 1 : i \in 1 .. m \/ i = m + 1 \/ i = m + 2
    OBVIOUS
  <2>2. \A i \in 1 + 1 .. (m + 3) - 1 : IsEntry(doc[i]) => doc[i].name \in K \cup {"SLInit"}
    BY <1>6, <1>7, <2>1 DEF IsEntry
  <2>3. m + 1 \in 1 + 1 .. (m + 3) - 1 /\ IsEntry(doc[m + 1])
    BY <1>2, <1>6 DEF IsEntry
  <2> QED BY <1>6, <1>11, <1>10, <2>2, <2>3
<1>14. KeysIn(doc, w) \subseteq Names
  <2>1. \A i \in (m + 3) + 1 .. (m + 3 + n + 1) - 1 : i \in m + 4 .. m + 3 + n
    OBVIOUS
  <2> QED BY <1>8, <1>12, <1>10, <2>1
<1>15. NamesOf(doc) = <<v, w>>
  <2>1. Headers(doc) = {1, m + 3}
    <3>1. 1 \in Headers(doc) /\ m + 3 \in Headers(doc)
      BY <1>2, <1>6 DEF Headers
    <3>2. ASSUME NEW h \in Headers(doc) PROVE h = 1 \/ h = m + 3
      <4>1. h \in 1 .. m + 3 + n /\ doc[h].kind = "section"
        BY <1>2, <3>2 DEF Headers
      <4> QED BY <1>6, <1>7, <1>8, <1>9, <4>1
    <3> QED BY <3>1, <3>2
  <2>2. PICK k \in Nat : k = m + 3 /\ k > 1
    BY <1>2
  <2>3. PICK heads : heads = Ascending(Headers(doc))
    OBVIOUS
  <2>4. DOMAIN heads = 1 .. 2 /\ heads[1] = 1 /\ heads[2] = k
    BY <2>1, <2>2, <2>3, AscendingTwo
  <2>5. NamesOf(doc) = [i \in DOMAIN heads |-> doc[heads[i]].name]
    BY <2>3, NamesAre
  <2>6. NamesOf(doc) = [i \in 1 .. 2 |-> doc[heads[i]].name]
    BY <2>4, <2>5
  <2>7. doc[heads[1]].name = v /\ doc[heads[2]].name = w
    BY <1>6, <2>2, <2>4
  <2> QED BY <2>6, <2>7
<1>16. Head(doc) = Section(v)
  BY <1>2, <1>6
<1>17. ASSUME NEW i \in 1 .. m + 3 + n, NEW j \in 1 .. m + 3 + n,
              IsEntry(doc[i]), IsEntry(doc[j]), doc[i].name = doc[j].name
       PROVE  i = j
  <2>1. ASSUME NEW x \in 1 .. m + 3 + n, IsEntry(doc[x])
        PROVE  /\ (x \in 1 .. m /\ doc[x].name \in K) \/ (x = m + 1 /\ doc[x].name = "SLInit")
                  \/ (x \in m + 4 .. m + 3 + n /\ doc[x].name \in Names)
    BY <1>6, <1>7, <1>8, <1>9, <2>1 DEF IsEntry
  <2>2. CASE i \in 1 .. m /\ j \in 1 .. m
    BY <1>2, <1>17, <2>2 DEF Opening
  <2>3. CASE i \in m + 4 .. m + 3 + n /\ j \in m + 4 .. m + 3 + n
    <3>1. /\ i - (m + 3) \in 1 .. n /\ doc[i] = q[i - (m + 3)]
          /\ j - (m + 3) \in 1 .. n /\ doc[j] = q[j - (m + 3)]
      BY <1>8, <2>3
    <3>2. PICK x, y : x = i - (m + 3) /\ y = j - (m + 3)
      OBVIOUS
    <3>3. /\ x \in DOMAIN q /\ y \in DOMAIN q /\ IsEntry(q[x]) /\ IsEntry(q[y])
          /\ q[x].name = q[y].name
      BY <1>2, <1>17, <3>1, <3>2
    <3>4. x = y
      BY <3>3 DEF Bare
    <3> QED BY <3>2, <3>4
  <2>4. CASE i = m + 1 /\ j = m + 1
    BY <2>4
  <2>5. \/ i \in 1 .. m /\ j \in 1 .. m
        \/ i \in m + 4 .. m + 3 + n /\ j \in m + 4 .. m + 3 + n
        \/ i = m + 1 /\ j = m + 1
    BY <1>17, <2>1
  <2> QED BY <2>2, <2>3, <2>4, <2>5
<1>18. \A i, j \in {k \in DOMAIN doc : IsEntry(doc[k])} : doc[i].name = doc[j].name => i = j
  BY <1>2, <1>17
<1> QED BY <1>4, <1>13, <1>14, <1>15, <1>16, <1>18 DEF Snippet

LEMMA FullIsSnippet ==
  ASSUME NEW f, NEW K, Opening(f, K), K \cap Names = {}, "SLInit" \notin K, "SLInit" \notin Names,
         NEW q, Bare(q, Names)
  PROVE  Snippet((f \o SLInitLines) \o q)
<1>1. PICK doc : doc = (f \o SLInitLines) \o q
  OBVIOUS
<1>2. PICK m \in Nat, n \in Nat : Full(doc, f, q, m, n)
  BY <1>1, FullTextIs DEF Opening, Bare
<1>3. Snippet(doc)
  BY <1>2, FullReadsAsSnippet
<1> QED BY <1>1, <1>3

(* The parts are bare: each gives at most the entry it is named after.     *)
LEMMA OneBare ==
  ASSUME NEW k, NEW l \in Line, l.kind # "section", IsEntry(l) => l.name = k
  PROVE  Bare(<<l>>, {k})
<1>1. <<l>> \in Seq(Line) /\ DOMAIN <<l>> = {1} /\ <<l>>[1] = l
  OBVIOUS
<1> QED BY <1>1 DEF Bare

LEMMA PartsAreBare ==
  ASSUME IInv, NEW b \in Backends
  PROVE  /\ Bare(SingleUserLines(b), {"SingleUser"}) /\ Bare(DefPolicyLines, {"DefPolicy"})
         /\ Bare(LocalOnlyLines, {"LocalOnly"}) /\ Bare(SLPolicyLines, {"SLPolicy"})
         /\ Bare(<<Error>>, {}) /\ Bare(VariableLines, Names)
<1>1. /\ Error.kind = "text" /\ \A k, v : Entry(k, v).kind = "entry" /\ Entry(k, v).name = k
      /\ Error \in Line /\ Entry("SingleUser", "enabled") \in Line
      /\ Entry("SingleUser", "perUser") \in Line /\ Entry("DefPolicy", "query") \in Line
      /\ Entry("SLPolicy", "wrapper") \in Line /\ Entry("LocalOnly", "license") \in Line
  BY DEF Error, Text, Entry, Line
<1>2. Bare(<<>>, {"SingleUser"})
  BY DEF Bare
<1>3. \A k : Bare(<<Error>>, {k})
  BY <1>1, OneBare DEF IsEntry
<1>4. /\ Bare(<<Entry("SingleUser", "enabled")>>, {"SingleUser"})
      /\ Bare(<<Entry("SingleUser", "perUser")>>, {"SingleUser"})
      /\ Bare(<<Entry("DefPolicy", "query")>>, {"DefPolicy"})
      /\ Bare(<<Entry("SLPolicy", "wrapper")>>, {"SLPolicy"})
      /\ Bare(<<Entry("LocalOnly", "license")>>, {"LocalOnly"})
  BY <1>1, OneBare DEF IsEntry
<1>5. Bare(SingleUserLines(b), {"SingleUser"})
  BY <1>2, <1>3, <1>4 DEF SingleUserLines, Matched
<1>6. Bare(DefPolicyLines, {"DefPolicy"}) /\ Bare(LocalOnlyLines, {"LocalOnly"})
      /\ Bare(SLPolicyLines, {"SLPolicy"})
  BY <1>3, <1>4 DEF DefPolicyLines, LocalOnlyLines, SLPolicyLines, Matched
<1>7. Bare(<<Error>>, {})
  <2>1. <<Error>> \in Seq(Line) /\ DOMAIN <<Error>> = {1} /\ <<Error>>[1] = Error
    BY <1>1
  <2> QED BY <1>1, <2>1 DEF Bare, IsEntry
<1>8. Bare(VariableLines, Names)
  <2>1. VariableLines \in Seq(Line)
    BY PartsOfText
  <2>2. DOMAIN VariableLines = DOMAIN VariableNames
    BY DEF VariableLines
  <2>3. ASSUME NEW i \in DOMAIN VariableNames
        PROVE  VariableLines[i] \in {Entry(VariableNames[i], "rva"), Error}
    BY DEF VariableLines
  <2>4. ASSUME NEW i \in DOMAIN VariableNames
        PROVE  /\ VariableLines[i].kind # "section" /\ VariableNames[i] \in Names
               /\ IsEntry(VariableLines[i]) => VariableLines[i].name = VariableNames[i]
    BY <1>1, <2>3 DEF IsEntry, Names, ToSet
  <2>5. \A i, j \in DOMAIN VariableNames : VariableNames[i] = VariableNames[j] => i = j
    BY KeysAssumption
  <2> QED BY <2>1, <2>2, <2>4, <2>5 DEF Bare
<1> QED BY <1>5, <1>6, <1>7, <1>8

(* Every text a backend makes is a snippet.                                *)
LEMMA TextsAreSnippets ==
  ASSUME IInv, NEW b \in Backends
  PROVE  TextOf(b) # <<>> /\ Snippet(TextOf(b))
<1> DEFINE Known == {"SingleUser", "DefPolicy", "SLPolicy", "LocalOnly"}
<1>1. Opening(<<Section(VersionName)>>, {})
  <2>1. Section(VersionName).kind = "section" /\ Section(VersionName) \in Line
    BY DEF Section, Line
  <2>2. /\ <<Section(VersionName)>> \in Seq(Line) /\ Len(<<Section(VersionName)>>) = 1
        /\ DOMAIN <<Section(VersionName)>> = {1}
        /\ <<Section(VersionName)>>[1] = Section(VersionName)
    BY <2>1
  <2> QED BY <2>1, <2>2 DEF Opening, IsEntry
<1>2. Opening(UpToSingleUser(b), {"SingleUser"})
  <2>1. Opening(UpToSingleUser(b), {} \cup {"SingleUser"})
    BY <1>1, PartsAreBare, OpeningMore DEF UpToSingleUser
  <2> QED BY <2>1
<1>3. Opening(UpToSingleUser(b) \o DefPolicyLines, {"SingleUser"} \cup {"DefPolicy"})
  BY <1>2, PartsAreBare, OpeningMore
<1>4. Opening(UpToDefPolicy(b), {"SingleUser", "DefPolicy"})
  <2>1. {"SingleUser"} \cup {"DefPolicy"} = {"SingleUser", "DefPolicy"}
    OBVIOUS
  <2>2. CASE PolicyLines(b) = DefPolicyLines
    BY <1>3, <2>1, <2>2 DEF UpToDefPolicy
  <2>3. CASE PolicyLines(b) = DefPolicyLines \o <<Error>>
    <3>1. Opening((UpToSingleUser(b) \o DefPolicyLines) \o <<Error>>,
                  ({"SingleUser"} \cup {"DefPolicy"}) \cup {})
      BY <1>3, PartsAreBare, OpeningMore
    <3>2. (UpToSingleUser(b) \o DefPolicyLines) \o <<Error>> = UpToDefPolicy(b)
      <4>1. ASSUME NEW x \in Seq(Line), NEW y \in Seq(Line), NEW z \in Seq(Line)
            PROVE  (x \o y) \o z = x \o (y \o z)
        OBVIOUS
      <4>2. UpToSingleUser(b) \in Seq(Line) /\ DefPolicyLines \in Seq(Line) /\ <<Error>> \in Seq(Line)
        BY <1>2, PartsAreBare DEF Opening, Bare
      <4> QED BY <2>3, <4>1, <4>2 DEF UpToDefPolicy
    <3>3. ({"SingleUser"} \cup {"DefPolicy"}) \cup {} = {"SingleUser", "DefPolicy"}
      OBVIOUS
    <3> QED BY <3>1, <3>2, <3>3
  <2>4. PolicyLines(b) = DefPolicyLines \/ PolicyLines(b) = DefPolicyLines \o <<Error>>
    <3>1. DefPolicyLines \in Seq(Line)
      BY PartsAreBare DEF Bare
    <3>2. DefPolicyLines \o <<>> = DefPolicyLines
      BY <3>1
    <3> QED BY <3>2 DEF PolicyLines
  <2> QED BY <2>2, <2>3, <2>4
<1>5. Opening(UpToDefPolicy(b) \o SLPolicyLines, {"SingleUser", "DefPolicy"} \cup {"SLPolicy"})
  BY <1>4, PartsAreBare, OpeningMore
<1>6. Opening(UpToLocalOnly(b), {"SingleUser", "DefPolicy"} \cup {"LocalOnly"})
  BY <1>4, PartsAreBare, OpeningMore DEF UpToLocalOnly
<1>7. Opening(UpToLocalOnly(b) \o <<Error>>, ({"SingleUser", "DefPolicy"} \cup {"LocalOnly"}) \cup {})
  BY <1>6, PartsAreBare, OpeningMore
<1>8. Known \cap Names = {} /\ "SLInit" \notin Known /\ "SLInit" \notin Names
  BY KeysAssumption
<1>9. ASSUME NEW x, NEW K, K \subseteq Known, Opening(x, K) PROVE x # <<>> /\ Snippet(x)
  <2>1. Snippet(x)
    BY <1>8, <1>9, OpeningIsSnippet
  <2> QED BY <1>9, <2>1 DEF Opening
<1>10. CASE TextOf(b) = UpToDefPolicy(b)
  BY <1>4, <1>9, <1>10
<1>11. CASE TextOf(b) = UpToDefPolicy(b) \o SLPolicyLines
  BY <1>5, <1>9, <1>11
<1>12. CASE TextOf(b) = UpToLocalOnly(b) \o <<Error>>
  BY <1>7, <1>9, <1>12
<1>13. CASE TextOf(b) = UpToSLInit(b) \o VariableLines
  <2>1. PICK K : K = {"SingleUser", "DefPolicy"} \cup {"LocalOnly"}
    OBVIOUS
  <2>2. PICK doc : doc = (UpToLocalOnly(b) \o SLInitLines) \o VariableLines
    OBVIOUS
  <2>3. Opening(UpToLocalOnly(b), K) /\ Bare(VariableLines, Names)
        /\ K \cap Names = {} /\ "SLInit" \notin K
    BY <1>6, <1>8, <2>1, PartsAreBare
  <2>4. Snippet(doc)
    BY <1>8, <2>2, <2>3, FullIsSnippet
  <2>5. doc # <<>>
    <3>1. PICK m \in Nat, n \in Nat : Full(doc, UpToLocalOnly(b), VariableLines, m, n)
      BY <2>2, <2>3, FullTextIs DEF Opening, Bare
    <3> QED BY <3>1 DEF Full
  <2> QED BY <1>13, <2>2, <2>4, <2>5 DEF UpToSLInit
<1> QED BY <1>10, <1>11, <1>12, <1>13 DEF TextOf

(* Every text printed is a snippet the updater's section parser can merge, *)
(* for all facts about a file, with or without ERROR lines.                *)
THEOREM TextIsASnippetHolds == Spec => []TextIsASnippet
<1>1. ASSUME IInv PROVE TextIsASnippet
  <2>1. ASSUME NEW b \in Backends, texts[b] # <<>> PROVE Snippet(texts[b])
    BY <1>1, <2>1, TextsAreSnippets DEF IInv
  <2> QED BY <2>1 DEF TextIsASnippet, Snippet, NamesOf
<1> QED BY <1>1, Invariant, PTL
=============================================================================
