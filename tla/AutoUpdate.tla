----------------------------- MODULE AutoUpdate -----------------------------
(***************************************************************************)
(* rdpwrap-offset-update (autoupdate.py): one run after the other of the   *)
(* updater, on a machine whose termsrv.dll Windows replaces, whose Terminal*)
(* Service loads rdpwrap.ini whenever it starts, and where the commands of *)
(* apply_update fail, or the updater is killed, at any point.              *)
(*                                                                         *)
(* One action per file operation, per backend call and per external command*)
(* of a run, because anything may happen between two of them.  The effects *)
(* of sc, net, taskkill and shutil.move are external: they are modelled    *)
(* from how the code uses them.                                            *)
(***************************************************************************)
EXTENDS IniText

CONSTANTS
  Versions,     \* the versions termsrv.dll may have: names of ini sections
  BackendText,  \* BackendText[v]: what run_backend returns for version v
  Template,     \* resources/rdpwrap_template.ini
  InitialInis,  \* the texts of an rdpwrap.ini installed before the first run
  Platforms,    \* the values of os.name considered, a subset of {"nt","posix"}
  MayFail,      \* the steps of a run that may fail
  MaxFaults,    \* bound: failed steps and crashes in a behaviour
  MaxUpdates    \* bound: replacements of termsrv.dll in a behaviour

Steps == {"version", "read", "backend", "write", "net_stop", "sc_stop", "sc_disable", "taskkill",
          "move", "icacls", "sc_demand", "sc_start"}

ASSUME ConstantsAssumption == "" \notin Versions /\ MayFail \subseteq Steps
ASSUME BoundsAssumption == MaxFaults \in Nat /\ MaxUpdates \in Nat
ASSUME TextsAssumption == IsText(Template) /\ \A v \in Versions : IsSnippet(BackendText[v], Template)
ASSUME InitialAssumption == \A doc \in InitialInis : IsText(doc) /\ ~HasError(doc)

VARIABLES
  os,         \* os.name
  dll,        \* the version of the installed termsrv.dll
  ini,        \* the text of the installed rdpwrap.ini ...
  iniExists,  \* ... if the file exists
  partial,    \* history: "no", or ini is what a copy has left that began when
              \* sc config start=disabled had worked ("guarded") or failed
              \* in this run ("exposed")
  um,         \* UmRdpService, which depends on TermService, is running
  svc,        \* TermService: "running", "stopping" or "stopped"
  start,      \* its start type: "demand" or "disabled"
  loaded,     \* what the running service read when it started: the "current"
              \* text of the ini, one since replaced ("outdated"), or a partial
              \* one, "guarded" or "exposed"
  pc,         \* the next step of the run, "idle" between two runs
  apply,      \* args.apply
  version,    \* the version main() has read
  text,       \* result.text
  new,        \* new_ini
  failed,     \* history: the unchecked commands that failed in this run
  verdict,    \* how the last run ended
  faults, updates  \* counters for the bounds

files   == <<ini, iniExists, partial>>
service == <<um, svc, start, loaded>>
inputs  == <<apply, version, text, new>>
bounds  == <<faults, updates>>
vars    == <<os, dll, files, service, pc, inputs, failed, verdict, bounds>>

Applying == {"net_stop", "sc_stop", "sc_disable", "taskkill", "move", "copying",
             "unlink", "icacls", "sc_demand", "sc_start"}
Acting   == {"write"} \cup Applying
Moving   == {"move", "copying", "unlink"}
ProgramCounters ==
  {"idle", "version", "look", "verify", "merge", "generate", "render", "write"} \cup Applying

Init ==
  /\ os \in Platforms
  /\ dll \in Versions
  /\ \/ iniExists = TRUE /\ ini \in InitialInis
     \/ iniExists = FALSE /\ ini = <<>>
  /\ partial = "no"
  /\ um \in BOOLEAN
  /\ svc = "running"
  /\ start = "demand"
  /\ loaded = "current"
  /\ pc = "idle" /\ apply = FALSE /\ version = "" /\ text = <<>> /\ new = <<>>
  /\ failed = {} /\ verdict = "none"
  /\ faults = 0 /\ updates = 0

-----------------------------------------------------------------------------
(* The run is over: "uptodate", "dryrun", "applied" (exit code 0), "failed"*)
(* (1: the text holds ERROR), "error" (2: an exception) or "killed".       *)
End(v) ==
  /\ pc' = "idle"
  /\ verdict' = v
  /\ apply' = FALSE /\ version' = "" /\ text' = <<>> /\ new' = <<>>
  /\ failed' = {}

Goto(p) == pc' = p /\ UNCHANGED verdict

(* A step fails, within the bound.                                         *)
Fails(step) ==
  /\ step \in MayFail
  /\ faults < MaxFaults
  /\ faults' = faults + 1
  /\ UNCHANGED updates

(* main(): parse the arguments.                                            *)
Start(a) ==
  /\ pc = "idle"
  /\ apply' = a
  /\ Goto("version")
  /\ UNCHANGED <<os, dll, files, service, version, text, new, failed, bounds>>

(* version = PEImage(termsrv_path).version, or PEFormatError or OSError.   *)
ReadVersion ==
  /\ pc = "version"
  /\ UNCHANGED <<os, dll, files, service>>
  /\ \/ version' = dll
        /\ Goto("look")
        /\ UNCHANGED <<apply, text, new, failed, bounds>>
     \/ Fails("version") /\ End("error")

(* Fault: a file with the version's section is taken to be up to date.     *)
LookForVersionOnly ==
  /\ pc = "look"
  /\ IF iniExists /\ ContainsVersionEntry(ini, version)
       THEN End("uptodate")
       ELSE Goto("generate") /\ UNCHANGED <<inputs, failed>>
  /\ UNCHANGED <<os, dll, files, service, bounds>>

(* rdpwrap_ini.exists() and contains_version_entry choose the way; an ini  *)
(* that is there may be unreadable.                                        *)
LookForVersion ==
  /\ pc = "look"
  /\ UNCHANGED <<os, dll, files, service>>
  /\ \/ /\ Goto(IF iniExists /\ ContainsVersionEntry(ini, version) THEN "verify" ELSE "generate")
        /\ UNCHANGED <<inputs, failed, bounds>>
     \/ iniExists /\ Fails("read") /\ End("error")

(* run_backend opens termsrv.dll AGAIN, whatever its version is by now.    *)
(* One reading makes the text, that of the backend's PEImage: what the     *)
(* automatic choice read before it only picks the backend, and texts are   *)
(* those of a version, whichever backend made them.                        *)
RunBackend(here, next) ==
  /\ pc = here
  /\ UNCHANGED <<os, dll, files, service>>
  /\ \/ /\ text' = BackendText[dll]
        /\ Goto(next)
        /\ UNCHANGED <<apply, version, new, failed, bounds>>
     \/ Fails("backend") /\ End("error")

VerifyInstalled     == RunBackend("verify", "merge")
GenerateFromScratch == RunBackend("generate", "render")

(* Fault: the return behind the dry run's message is forgotten.            *)
CandidateRunsOn(doc) ==
  \/ os # "nt" /\ End("error")
  \/ /\ os = "nt"
     /\ new' = doc
     /\ Goto("write")
     /\ UNCHANGED <<apply, version, text, failed>>

(* The candidate text is ready: a dry run ends here, and so does --apply   *)
(* on a platform other than Windows.                                       *)
Candidate(doc) ==
  \/ ~apply /\ End("dryrun")
  \/ apply /\ os # "nt" /\ End("error")
  \/ /\ apply /\ os = "nt"
     /\ new' = doc
     /\ Goto("write")
     /\ UNCHANGED <<apply, version, text, failed>>

(* Fault: a file that has all generated keys is not asked for patch codes. *)
MergeWithoutCodes ==
  /\ pc = "merge"
  /\ UNCHANGED <<os, dll, files, service, bounds>>
  /\ LET repaired == EnsureGeneratedOffsetSections(ini, text)
     IN  \/ HasError(text) /\ End("failed")
         \/ ~HasError(text) /\ repaired = ini /\ End("uptodate")
         \/ ~HasError(text) /\ repaired # ini /\ Candidate(repaired)

(* The version's section is there: read the file once more and repair it.  *)
Merge ==
  /\ pc = "merge"
  /\ UNCHANGED <<os, dll, files, service>>
  /\ \/ HasError(text) /\ End("failed") /\ UNCHANGED bounds
     \/ ~HasError(text) /\ Fails("read") /\ End("error")
     \/ ~HasError(text) /\ ~TemplateHasCodes(text, Template) /\ End("error") /\ UNCHANGED bounds
     \/ /\ ~HasError(text)
        /\ TemplateHasCodes(text, Template)
        /\ UNCHANGED bounds
        /\ LET repaired == Repair(ini, text, Template)
           IN  \/ repaired = ini /\ End("uptodate")
               \/ repaired # ini /\ Candidate(repaired)

(* Fault: the generated file is not searched for ERROR.                    *)
RenderUnchecked ==
  /\ pc = "render"
  /\ UNCHANGED <<os, dll, files, service, bounds>>
  /\ TemplateHasCodes(text, Template)
  /\ Candidate(Render(text, Template))

(* It is not there: the whole file is made from the template.              *)
RenderNew ==
  /\ pc = "render"
  /\ UNCHANGED <<os, dll, files, service, bounds>>
  /\ \/ ~TemplateHasCodes(text, Template) /\ End("error")
     \/ /\ TemplateHasCodes(text, Template)
        /\ LET rendered == Render(text, Template)
           IN  \/ HasError(rendered) /\ End("failed")
               \/ ~HasError(rendered) /\ Candidate(rendered)

-----------------------------------------------------------------------------
(* Fault: the service is killed before it is disabled.                     *)
FollowingKillFirst ==
  [write |-> "net_stop", net_stop |-> "sc_stop", sc_stop |-> "taskkill",
   taskkill |-> "sc_disable", sc_disable |-> "move", move |-> "icacls",
   icacls |-> "sc_demand", sc_demand |-> "sc_start"]

(* Fault: the service is not disabled at all.                              *)
FollowingNoDisable ==
  [write |-> "net_stop", net_stop |-> "sc_stop", sc_stop |-> "taskkill",
   taskkill |-> "move", move |-> "icacls", icacls |-> "sc_demand",
   sc_demand |-> "sc_start"]

(* The order of apply_update: the commands run with check=False, the move, *)
(* the commands run with check=True.                                       *)
Following ==
  [write |-> "net_stop", net_stop |-> "sc_stop", sc_stop |-> "sc_disable",
   sc_disable |-> "taskkill", taskkill |-> "move", move |-> "icacls",
   icacls |-> "sc_demand", sc_demand |-> "sc_start"]

(* apply_update: mkdir and write_text of the temporary file.               *)
WriteOutput ==
  /\ pc = "write"
  /\ UNCHANGED <<os, dll, files, service>>
  /\ \/ Goto(Following.write) /\ UNCHANGED <<inputs, failed, bounds>>
     \/ Fails("write") /\ End("error")

(* A command run with check=False fails: the run goes on.                  *)
FailsUnchecked(step) ==
  /\ Fails(step)
  /\ failed' = failed \cup {step}
  /\ UNCHANGED service

(* net stop UmRdpService                                                   *)
NetStop ==
  /\ pc = "net_stop"
  /\ Goto(Following.net_stop)
  /\ UNCHANGED <<os, dll, files, inputs>>
  /\ \/ um' = FALSE /\ UNCHANGED <<svc, start, loaded, failed, bounds>>
     \/ FailsUnchecked("net_stop")

(* sc stop termservice: refused while UmRdpService depends on the service, *)
(* and returns before the service has stopped.                             *)
ScStop ==
  /\ pc = "sc_stop"
  /\ Goto(Following.sc_stop)
  /\ UNCHANGED <<os, dll, files, inputs>>
  /\ \/ /\ svc' = IF svc = "running" /\ ~um THEN "stopping" ELSE svc
        /\ UNCHANGED <<um, start, loaded, failed, bounds>>
     \/ FailsUnchecked("sc_stop")

(* sc config termservice start=disabled                                    *)
ScDisable ==
  /\ pc = "sc_disable"
  /\ Goto(Following.sc_disable)
  /\ UNCHANGED <<os, dll, files, inputs>>
  /\ \/ start' = "disabled" /\ UNCHANGED <<um, svc, loaded, failed, bounds>>
     \/ FailsUnchecked("sc_disable")

(* taskkill /F /FI "MODULES eq termsrv.dll"                                *)
TaskKill ==
  /\ pc = "taskkill"
  /\ Goto(Following.taskkill)
  /\ UNCHANGED <<os, dll, files, inputs>>
  /\ \/ /\ svc' = "stopped" /\ loaded' = "none"
        /\ UNCHANGED <<um, start, failed, bounds>>
     \/ FailsUnchecked("taskkill")

(* What an entry's value is when the copy stops inside it.                 *)
CutShort == "cut"

(* What is left of a text whose copy stops: some whole lines, then perhaps *)
(* a line cut before its ending, inside its value or earlier.              *)
Cuts(line) ==
  {[line EXCEPT !.eol = FALSE]} \cup
  (IF line.kind = "blank" THEN {} ELSE {[Text("cut") EXCEPT !.eol = FALSE]}) \cup
  (IF IsEntry(line) THEN {[Entry(line.name, CutShort) EXCEPT !.eol = FALSE]} ELSE {})
TornForms(doc) ==
  {SubSeq(doc, 1, n) : n \in 0 .. Len(doc) - 1} \cup
  UNION {{Append(SubSeq(doc, 1, n - 1), c) : c \in Cuts(doc[n])} : n \in DOMAIN doc}

(* What the service read is no longer what the file holds.                 *)
Outdate == loaded' = IF loaded = "current" THEN "outdated" ELSE loaded

(* shutil.move tries os.rename, which on Windows fails when the target     *)
(* exists (or lies on another volume).                                     *)
MoveByRename ==
  /\ pc = "move"
  /\ ~iniExists
  /\ ini' = new /\ iniExists' = TRUE /\ partial' = "no"
  /\ Outdate
  /\ Goto(Following.move)
  /\ UNCHANGED <<os, dll, um, svc, start, inputs, failed, bounds>>

(* It then copies, into a target it truncates first, ...                   *)
CopyBegins ==
  /\ pc = "move"
  /\ iniExists' = TRUE
  /\ ini' \in TornForms(new)
  /\ partial' = IF "sc_disable" \in failed THEN "exposed" ELSE "guarded"
  /\ Outdate
  /\ Goto("copying")
  /\ UNCHANGED <<os, dll, um, svc, start, inputs, failed, bounds>>

CopyEnds ==
  /\ pc = "copying"
  /\ ini' = new
  /\ partial' = "no"
  /\ Goto("unlink")
  /\ UNCHANGED <<os, dll, iniExists, service, inputs, failed, bounds>>

(* ... and removes the source.                                             *)
UnlinkOutput ==
  /\ pc = "unlink"
  /\ Goto(Following.move)
  /\ UNCHANGED <<os, dll, files, service, inputs, failed, bounds>>

(* OSError out of any part of the move.                                    *)
MoveFails ==
  /\ pc \in Moving
  /\ Fails("move")
  /\ End("error")
  /\ UNCHANGED <<os, dll, files, service>>

(* A command run with check=True fails: CalledProcessError ends the run.   *)
FailsChecked(step) == Fails(step) /\ End("error") /\ UNCHANGED service

(* icacls /inheritance:e                                                   *)
Icacls ==
  /\ pc = "icacls"
  /\ UNCHANGED <<os, dll, files>>
  /\ \/ Goto(Following.icacls) /\ UNCHANGED <<service, inputs, failed, bounds>>
     \/ FailsChecked("icacls")

(* sc config termservice start=demand                                      *)
ScDemand ==
  /\ pc = "sc_demand"
  /\ UNCHANGED <<os, dll, files>>
  /\ \/ start' = "demand" /\ Goto(Following.sc_demand)
        /\ UNCHANGED <<um, svc, loaded, inputs, failed, bounds>>
     \/ FailsChecked("sc_demand")

(* TermService starts and reads the ini.                                   *)
ServiceStarts ==
  /\ svc = "stopped" /\ start = "demand"
  /\ svc' = "running"
  /\ loaded' = IF partial = "no" THEN "current" ELSE partial
  /\ UNCHANGED <<um, start>>

(* Fault: sc start is run with check=False like the commands before.       *)
ScStartUnchecked ==
  /\ pc = "sc_start"
  /\ UNCHANGED <<os, dll, files, bounds>>
  /\ \/ ServiceStarts /\ End("applied")
     \/ svc # "stopped" /\ UNCHANGED service /\ End("applied")

(* sc start termservice: an error when the service is not stopped.         *)
ScStart ==
  /\ pc = "sc_start"
  /\ UNCHANGED <<os, dll, files>>
  /\ \/ ServiceStarts /\ End("applied") /\ UNCHANGED bounds
     \/ svc # "stopped" /\ UNCHANGED service /\ End("error") /\ UNCHANGED bounds
     \/ FailsChecked("sc_start")

Update ==
  \/ ReadVersion \/ LookForVersion
  \/ VerifyInstalled \/ Merge \/ GenerateFromScratch \/ RenderNew
  \/ WriteOutput \/ NetStop \/ ScStop \/ ScDisable \/ TaskKill
  \/ MoveByRename \/ CopyBegins \/ CopyEnds \/ UnlinkOutput \/ MoveFails
  \/ Icacls \/ ScDemand \/ ScStart

-----------------------------------------------------------------------------
(* The updater is killed; with it, if the machine goes down, the services. *)
Killed ==
  /\ pc # "idle"
  /\ faults < MaxFaults /\ faults' = faults + 1
  /\ End("killed")
  /\ \/ UNCHANGED service
     \/ svc' = "stopped" /\ loaded' = "none" /\ um' = FALSE /\ UNCHANGED start
  /\ UNCHANGED <<os, dll, files, updates>>

(* Windows Update replaces termsrv.dll.                                    *)
WindowsUpdate ==
  /\ updates < MaxUpdates /\ updates' = updates + 1
  /\ dll' \in Versions \ {dll}
  /\ UNCHANGED <<os, files, service, pc, inputs, failed, verdict, faults>>

(* Somebody connects: the service control manager starts TermService.      *)
DemandStart ==
  /\ ServiceStarts
  /\ UNCHANGED <<os, dll, files, pc, inputs, failed, verdict, bounds>>

(* UmRdpService starts with a running TermService.                         *)
UmStarts ==
  /\ svc = "running" /\ ~um /\ um' = TRUE
  /\ UNCHANGED <<os, dll, files, svc, start, loaded, pc, inputs, failed, verdict, bounds>>

(* The stop that sc stop has asked for completes.                          *)
StopCompletes ==
  /\ svc = "stopping" /\ svc' = "stopped" /\ loaded' = "none"
  /\ UNCHANGED <<os, dll, files, um, start, pc, inputs, failed, verdict, bounds>>

Environment == Killed \/ WindowsUpdate \/ DemandStart \/ UmStarts \/ StopCompletes

Next == (\E a \in BOOLEAN : Start(a)) \/ Update \/ Environment

Spec == Init /\ [][Next]_vars

(* A started run goes on: outside of "idle" some disjunct of Update is     *)
(* always enabled, and each of them moves pc.                              *)
RunMovesOn == pc # "idle" /\ pc' \in ProgramCounters \ {pc}

(* ... and runs with --apply are started again and again: the fairness of  *)
(* an updater run from a scheduled task.                                   *)
FairSpec == Spec /\ WF_pc(RunMovesOn) /\ SF_vars(Start(TRUE))

-----------------------------------------------------------------------------
MachineTypes ==
  /\ os \in Platforms
  /\ dll \in Versions
  /\ iniExists \in BOOLEAN /\ partial \in {"no", "guarded", "exposed"}
  /\ um \in BOOLEAN
  /\ svc \in {"running", "stopping", "stopped"}
  /\ start \in {"demand", "disabled"}
  /\ loaded \in {"current", "outdated", "guarded", "exposed", "none"}
  /\ svc = "stopped" <=> loaded = "none"
RunTypes ==
  /\ pc \in ProgramCounters
  /\ apply \in BOOLEAN
  /\ version \in Versions \cup {""}
  /\ failed \subseteq Steps
  /\ verdict \in {"none", "uptodate", "dryrun", "applied", "failed", "error", "killed"}
  /\ pc \in Acting => apply /\ os = "nt"
TextType == text \in {BackendText[v] : v \in Versions} \cup {<<>>}
BoundsTypes ==
  /\ faults \in 0 .. MaxFaults
  /\ updates \in 0 .. MaxUpdates

(* Every variable holds a value of its type; a stopped service, and no     *)
(* other, has nothing loaded; and only a run with --apply, on Windows, gets*)
(* to the steps that write a file or run a command.                        *)
TypeOK == MachineTypes /\ RunTypes /\ TextType /\ BoundsTypes

(* The file is moved behind the back of nobody: while apply_update moves   *)
(* the new ini, the service is down and cannot come up, if the two commands*)
(* that see to it did not fail - whatever became of the two stop commands. *)
QuietWhileMoving ==
  pc \in Moving /\ {"sc_disable", "taskkill"} \cap failed = {} =>
    svc = "stopped" /\ start = "disabled"

(* If "sc config start=disabled" has worked, the service never reads what  *)
(* the copy of this run has left half written: not while it is copied, and *)
(* not after the copy failed or was killed, whatever later runs do.        *)
NeverServesPartial == loaded # "guarded"

(* A text with an ERROR line in it is never installed.                     *)
NeverInstallsError == ~HasError(ini)

EndsAs(v) == pc # "idle" /\ pc' = "idle" /\ verdict' = v

(* "Successfully ...": the service is up, can be started again, and runs   *)
(* on the very text this run made, which is the file's.                    *)
AppliedIsLive ==
  [][EndsAs("applied") =>
       /\ svc' = "running" /\ start' = "demand" /\ loaded' = "current"
       /\ iniExists' /\ ini' = new /\ partial' = "no"]_vars

(* Exit code 0 of a run that is not a dry run: the installed file has every*)
(* key and patch code of the text the backend returned, and the text was   *)
(* free of ERROR.                                                          *)
SuccessMeansCovered ==
  [][EndsAs("applied") \/ EndsAs("uptodate") =>
       ~HasError(text) /\ Covers(ini', text)]_vars

(* Whatever fails, is killed or is replaced on the way, a bounded number of*)
(* times: the updater run again and again brings the installed file to     *)
(* cover the installed termsrv.dll, and then leaves it covered.            *)
Converges == <>[](iniExists /\ Covers(ini, BackendText[dll]))

(* autoupdate.py:51, "RDP Wrapper seems to be up-to-date and working...",  *)
(* said of a service that can be started.                                  *)
UpToDateMeansWorking == [][EndsAs("uptodate") => start = "demand"]_vars

(* autoupdate.py:51, said of a file no value of which has been cut short by*)
(* a copy that stopped.                                                    *)
UpToDateMeansWhole ==
  [][EndsAs("uptodate") => \A i \in DOMAIN ini : IsEntry(ini[i]) => ini[i].val # CutShort]_vars
=============================================================================
