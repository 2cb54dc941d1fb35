----------------------------- MODULE FinderRun -----------------------------
(***************************************************************************)
(* rdpwrap-offset-finder (cli.py) run again and again on one termsrv.dll,  *)
(* with either backend: SymbolFinder.run and NoSymbolFinder.run turn what  *)
(* the symbols, or the scans of the image, give them into the lines of the *)
(* snippet, an ERROR line for what they miss, and main() into an exit code.*)
(*                                                                         *)
(* Both backends are taken to learn the same facts about the file.  A group*)
(* of lines XPatch, XOffset, XCode that is always emitted as one is one    *)
(* Entry(X, where it was matched).                                         *)
(***************************************************************************)
EXTENDS IniText

CONSTANTS
  VariableNames, \* the names of the -SLInit section, in output order
  FileVersions   \* <<FileVersionMS, FileVersionLS>> of a version resource

Half == 65536
ASSUME FileVersionsAssumption == FileVersions \subseteq Nat \X Nat
ASSUME VariableNamesAssumption == VariableNames \in Seq(STRING)

Names    == ToSet(VariableNames)

(* No variable is listed twice or has the name of a key of the version's   *)
(* section.                                                                *)
ASSUME KeysAssumption ==
  /\ \A i, j \in DOMAIN VariableNames : VariableNames[i] = VariableNames[j] => i = j
  /\ Names \cap {"SingleUser", "DefPolicy", "SLPolicy", "LocalOnly", "SLInit"} = {}

Backends == {"symbols", "nosymbol"}

(* A function that is not there, or whose code its patch matcher does or   *)
(* does not fit.                                                           *)
Outcome == {"absent", "misfit", "fit"}
Files   == [version: FileVersions, readable: BOOLEAN, memset: BOOLEAN,
            enabled: Outcome, perUser: Outcome, query: Outcome,
            license: BOOLEAN, localOnly: Outcome, initialize: BOOLEAN,
            wrapper: BOOLEAN, variables: SUBSET Names]

VARIABLES
  file,    \* what there is to learn about termsrv.dll
  os,      \* os.name
  pc,      \* the next step of the run, "idle" between two runs
  backend, \* args.backend, then the backend of this run
  allow,   \* args.allow_errors
  lines,   \* the lines so far
  exit,    \* exit code of the last run, -1 before the first and during a run
  texts    \* history: the last text of each backend, <<>> before the first

vars == <<file, os, pc, backend, allow, lines, exit, texts>>

Init ==
  /\ file \in Files
  /\ ~file.readable => file = [file EXCEPT !.memset = FALSE, !.enabled = "absent",
       !.perUser = "absent", !.query = "absent", !.license = FALSE,
       !.localOnly = "absent", !.initialize = FALSE, !.wrapper = FALSE,
       !.variables = {}]
  /\ os \in {"nt", "posix"}
  /\ pc = "idle" /\ backend = "none" /\ allow = FALSE /\ lines = <<>>
  /\ exit = -1
  /\ texts = [b \in Backends |-> <<>>]

(* VersionInfo.from_fixed_file_info: four numbers of 16 bits; its ms.      *)
Version == [major |-> (file.version[1] \div Half) % Half, minor |-> file.version[1] % Half,
            build |-> (file.version[2] \div Half) % Half, revision |-> file.version[2] % Half]
Ms == Version.major * Half + Version.minor

Error       == Text("ERROR")
VersionName == <<Version, "">>
SLInitName  == <<Version, "-SLInit">>

(* version.ms <= 0x00060001 and version.ms == 0x00060002.                  *)
Windows7 == Ms <= 6 * Half + 1
Windows8 == Ms = 6 * Half + 2
-----------------------------------------------------------------------------
(* main(): parse the arguments.                                            *)
Start ==
  /\ pc = "idle"
  /\ allow' \in BOOLEAN
  /\ backend' \in Backends \cup {"auto"}
  /\ pc' = "choose" /\ exit' = -1
  /\ UNCHANGED <<file, os, lines, texts>>

PrefersNosymbolAuto ==
  /\ Version.major = 10 /\ Version.minor = 0
  /\ Version.build >= 26100 /\ Version.revision >= 8376
AutoBackendName ==
  IF os # "nt" \/ (file.readable /\ PrefersNosymbolAuto) THEN "nosymbol" ELSE "symbols"

(* run_backend                                                             *)
Choose ==
  /\ pc = "choose"
  /\ backend' = IF backend = "auto" THEN AutoBackendName ELSE backend
  /\ pc' = "open"
  /\ UNCHANGED <<file, os, allow, lines, exit, texts>>

End(code) ==
  /\ pc' = "idle" /\ backend' = "none" /\ allow' = FALSE /\ lines' = <<>>
  /\ exit' = code

(* The choice raises: no file, no version resource; or the backend does: no*)
(* PE file, symbols asked for outside Windows, no symbol session, no       *)
(* runtime function table or no marker string.                             *)
Raise ==
  /\ pc \in {"choose", "open"}
  /\ End(2)
  /\ UNCHANGED <<file, os, texts>>

(* run() begins with the version's header.                                 *)
Open ==
  /\ pc = "open"
  /\ file.readable /\ (backend = "symbols" => os = "nt")
  /\ pc' = "single_user"
  /\ lines' = <<Section(VersionName)>>
  /\ UNCHANGED <<file, os, backend, allow, exit, texts>>

(* lines.extend(more), then on to the step p.                              *)
Emit(more, p) ==
  /\ lines' = lines \o more
  /\ pc' = p
  /\ UNCHANGED <<file, os, backend, allow, exit, texts>>

Matched(outcome, entry) == IF outcome = "fit" THEN <<entry>> ELSE <<Error>>

(* SymbolFinder: a misfit of IsSingleSessionPerUserEnabled adds no line.   *)
SymbolsSingleUser ==
  /\ backend = "symbols" /\ pc = "single_user"
  /\ Emit(IF ~file.memset THEN <<>>
          ELSE IF file.enabled # "absent"
            THEN IF file.enabled = "fit" THEN <<Entry("SingleUser", "enabled")>> ELSE <<>>
          ELSE IF file.perUser # "absent"
            THEN Matched(file.perUser, Entry("SingleUser", "perUser"))
          ELSE <<>>, "def_policy")

(* Fault: a misfit adds no line, as in the symbols backend.                *)
NosymbolSingleUserSilent ==
  /\ backend = "nosymbol" /\ pc = "single_user"
  /\ Emit(IF ~file.memset THEN <<>>
          ELSE IF file.enabled = "fit" THEN <<Entry("SingleUser", "enabled")>>
          ELSE IF file.enabled = "absent" /\ file.perUser = "fit"
            THEN <<Entry("SingleUser", "perUser")>>
          ELSE <<>>, "def_policy")

(* NoSymbolFinder: a misfit is an error if IsSingleSessionPerUser is known,*)
(* though it is IsSingleSessionPerUserEnabled that did not fit.            *)
NosymbolSingleUser ==
  /\ backend = "nosymbol" /\ pc = "single_user"
  /\ Emit(IF ~file.memset THEN <<>>
          ELSE IF file.enabled = "fit" THEN <<Entry("SingleUser", "enabled")>>
          ELSE IF file.enabled = "absent" /\ file.perUser = "fit"
            THEN <<Entry("SingleUser", "perUser")>>
          ELSE IF file.perUser # "absent" THEN <<Error>>
          ELSE <<>>, "def_policy")

(* CDefPolicy::Query, the same in both backends; where each goes from here.*)
DefPolicyLines == Matched(file.query, Entry("DefPolicy", "query"))
(* Fault: no early return for Windows 7.                                   *)
SymbolsDefPolicyRunsOn ==
  /\ backend = "symbols" /\ pc = "def_policy"
  /\ Emit(DefPolicyLines, IF Windows8 THEN "win8" ELSE "local_only")
SymbolsDefPolicy ==
  /\ backend = "symbols" /\ pc = "def_policy"
  /\ Emit(DefPolicyLines,
          IF Windows7 THEN "print" ELSE IF Windows8 THEN "win8" ELSE "local_only")
NosymbolDefPolicy ==
  /\ backend = "nosymbol" /\ pc = "def_policy"
  /\ Emit(DefPolicyLines \o (IF ~Windows7 /\ ~file.initialize THEN <<Error>> ELSE <<>>),
          IF Windows7 \/ ~file.initialize THEN "print"
          ELSE IF Windows8 THEN "win8" ELSE "local_only")

(* SLGetWindowsInformationDWORDWrapper, by its symbol or as the target of  *)
(* the first call behind the reference to the AllowRemoteConnections string*)
SLPolicyLines == IF file.wrapper THEN <<Entry("SLPolicy", "wrapper")>> ELSE <<Error>>
SymbolsWin8  == backend = "symbols" /\ pc = "win8" /\ Emit(SLPolicyLines, "print")
NosymbolWin8 == backend = "nosymbol" /\ pc = "win8" /\ Emit(SLPolicyLines, "print")

LocalOnlyLines ==
  IF file.license THEN Matched(file.localOnly, Entry("LocalOnly", "license")) ELSE <<Error>>
SymbolsLocalOnly ==
  backend = "symbols" /\ pc = "local_only" /\ Emit(LocalOnlyLines, "sl_init")
NosymbolLocalOnly ==
  backend = "nosymbol" /\ pc = "local_only" /\ Emit(LocalOnlyLines, "sl_init")

(* The hook's lines and the header of the -SLInit section.                 *)
SLInitLines == <<Entry("SLInit", "initialize"), Blank, Section(SLInitName)>>

(* Faults: a missing CSLQuery::Initialize is not reported; the header of   *)
(* the -SLInit section is left out.                                        *)
SymbolsSLInitSilent ==
  /\ backend = "symbols" /\ pc = "sl_init"
  /\ IF file.initialize THEN Emit(SLInitLines, "variables") ELSE Emit(<<>>, "print")
SymbolsSLInitNoHeader ==
  /\ backend = "symbols" /\ pc = "sl_init"
  /\ IF file.initialize THEN Emit(<<Entry("SLInit", "initialize")>>, "variables")
                        ELSE Emit(<<Error>>, "print")

SymbolsSLInit ==
  /\ backend = "symbols" /\ pc = "sl_init"
  /\ IF file.initialize THEN Emit(SLInitLines, "variables") ELSE Emit(<<Error>>, "print")
NosymbolSLInit == backend = "nosymbol" /\ pc = "sl_init" /\ Emit(SLInitLines, "variables")

VariableLines ==
  [i \in DOMAIN VariableNames |->
     IF VariableNames[i] \in file.variables THEN Entry(VariableNames[i], "rva") ELSE Error]
SymbolsVariables ==
  backend = "symbols" /\ pc = "variables" /\ Emit(VariableLines, "print")
NosymbolVariables ==
  backend = "nosymbol" /\ pc = "variables" /\ Emit(VariableLines, "print")

(* main(): the text goes to stdout; result.has_errors decides the exit code*)
WriteText ==
  /\ pc = "print"
  /\ texts' = [texts EXCEPT ![backend] = lines]
  /\ End(IF HasError(lines) /\ ~allow THEN 1 ELSE 0)
  /\ UNCHANGED <<file, os>>

SymbolFinderRun ==
  \/ SymbolsSingleUser \/ SymbolsDefPolicy \/ SymbolsWin8 \/ SymbolsLocalOnly
  \/ SymbolsSLInit \/ SymbolsVariables
NoSymbolFinderRun ==
  \/ NosymbolSingleUser \/ NosymbolDefPolicy \/ NosymbolWin8 \/ NosymbolLocalOnly
  \/ NosymbolSLInit \/ NosymbolVariables

Next == Start \/ Choose \/ Raise \/ Open \/ SymbolFinderRun \/ NoSymbolFinderRun \/ WriteText

Spec == Init /\ [][Next]_vars
-----------------------------------------------------------------------------
(* The run stands at a step of one of the two backends, and its result is  *)
(* made of lines only these backends emit.                                 *)
TypeOK ==
  /\ file \in Files
  /\ os \in {"nt", "posix"}
  /\ pc \in {"idle", "choose", "open", "single_user", "def_policy", "win8", "local_only",
             "sl_init", "variables", "print"}
  /\ backend \in Backends \cup {"auto", "none"}
  /\ backend = "none" <=> pc = "idle"
  /\ backend = "auto" => pc = "choose"
  /\ pc = "win8" => Windows8
  /\ pc \in {"local_only", "sl_init", "variables"} => ~Windows7 /\ ~Windows8
  /\ allow \in BOOLEAN /\ exit \in {-1, 0, 1, 2}
  /\ \A i \in DOMAIN lines : lines[i].kind \in {"section", "entry", "text", "blank"}
  /\ Len(lines) <= 7 + Len(VariableNames)
  /\ DOMAIN texts = Backends

(* The entries rdpwrap needs for the file's version.                       *)
NeededKeys ==
  {"DefPolicy"} \cup (IF Windows7 THEN {} ELSE IF Windows8 THEN {"SLPolicy"}
                      ELSE {"LocalOnly", "SLInit"})
Whole(doc) ==
  /\ NeededKeys \subseteq KeysIn(doc, VersionName)
  /\ "SLInit" \in NeededKeys => KeysIn(doc, SLInitName) = Names

(* Exit code 0 without --allow-errors means that every entry the version   *)
(* needs is in the text, and that the hook's section is complete: whatever *)
(* either backend misses on the way, through every early return, leaves an *)
(* ERROR line.  Only the SingleUser entries may be missing without one.    *)
ExitZeroMeansWhole == [][pc = "print" /\ exit' = 0 /\ ~allow => Whole(lines)]_vars

(* Every text is a snippet the updater's section parser can merge: the     *)
(* version's section first, the -SLInit section, behind it, if and only if *)
(* the hook is enabled, the variables in that section only, no key twice.  *)
TextIsASnippet ==
  \A b \in Backends : texts[b] # <<>> =>
    LET doc   == texts[b]
        names == [i \in DOMAIN GeneratedSections(doc) |-> GeneratedSections(doc)[i].name]
    IN  /\ Head(doc) = Section(VersionName)
        /\ names = IF "SLInit" \in KeysIn(doc, VersionName)
                     THEN <<VersionName, SLInitName>> ELSE <<VersionName>>
        /\ KeysIn(doc, SLInitName) \subseteq Names
        /\ KeysIn(doc, VersionName) \cap Names = {}
        /\ \A i, j \in {k \in DOMAIN doc : IsEntry(doc[k])} : doc[i].name = doc[j].name => i = j

(* The backends agree: an error-free text of the nosymbol backend is the   *)
(* text the symbols backend gives for the same facts.  (The converse does  *)
(* not hold: nosymbol also reports a misfit of single_user_patch that      *)
(* symbols passes over.)                                                   *)
BackendsAgree ==
  LET s == texts["symbols"]  n == texts["nosymbol"]
  IN  s # <<>> /\ n # <<>> /\ ~HasError(n) => s = n

(* Older than 10.0.26100.8376, number by number.                           *)
Older ==
  \/ Version.major < 10
  \/ /\ Version.major = 10 /\ Version.minor = 0
     /\ \/ Version.build < 26100
        \/ Version.build = 26100 /\ Version.revision < 8376

(* README.md:47, cli.py:47: on Windows, auto uses symbols for older builds *)
(* than 10.0.26100.8376 only.                                              *)
SymbolsForOlderBuilds ==
  [][pc = "choose" /\ backend = "auto" /\ file.readable /\ backend' = "symbols" => Older]_vars
=============================================================================
