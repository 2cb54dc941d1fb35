# A TLA+ verification of rdpwrap-offset-finder

The repository finds, in a given `termsrv.dll`, the offsets that RDP Wrapper
needs (`rdpwrap-offset-finder`), and keeps an installed `rdpwrap.ini` up to date
with them (`rdpwrap-offset-update`). This directory models what of it has state,
order or failure, checks the models with TLC and proves part of the results with
TLAPS. Paths below are relative to `src/src/rdpwrap_offset_finder/`.

## 1. Inventory

| Component | Code | State it keeps | Operations | What makes it correct |
|---|---|---|---|---|
| Ini text and its repair | `autoupdate.py:106-214, 257-400`, the template | a text, reparsed before every insertion | parse sections and keys, insert missing keys, insert referenced patch codes, render from the template | nothing installed is lost, overwritten, hidden or run together; the result has everything that was generated; a second repair changes nothing |
| Updater run | `autoupdate.py:23-103, 216-250` | the ini, the temporary file, TermService (state, start type), UmRdpService | read the version, run a backend, repair or render, stop and disable the service, move the file, restore | the service never sees half a file; success means a running service on a complete file; repeated runs converge |
| DbgHelp session | `symbols.py:31-65, 102-217` | one set of options and one symbol session per PROCESS, a lock | initialise, load the module, look names up, clean up | a caller's answers come from its own file and options; no exception leaves a lock, session or module behind |
| Symbols backend | `symbols.py:288-396` | the lines so far | the lookups and matchers, early returns per Windows generation | what is missed leaves an ERROR line |
| Nosymbol backend | `nosymbol.py:70-166, 168-253, 342-360` | the lines so far, the symbols discovered | discovery by string references, the same matchers | as above, and it agrees with the symbols backend |
| SLInit scans | `nosymbol.py:362-571` | the variable whose string came last, the variables found | three scans, one of which follows `jmp` | each global is given to the policy whose answer it holds; the scan ends |
| x86 discovery, RangeSet | `nosymbol.py:255-340`, `pe_image.py:270-314` | a worklist of blocks, the ranges visited | decode blocks, push jump targets, merge ranges | ends; every reference is attributed to its function |
| Patch matchers | `patches.py` | a window over decoded instructions, the part of the pattern that comes next | `local_only_patch`, `def_policy_patch`, `single_user_patch`, `sl_policy_cp` | the offset is an instruction of the function, the one the pattern means; nothing behind the window is read; no search ends early |
| PE image | `pe_image.py` | none once opened | sections, strings, imports, runtime functions, unwind data, version resource | plain reads |
| Command line | `cli.py`, `models.py` | none | choose a backend by the version, map errors to exit codes | the documented backend is chosen; exit code 0 means a text without ERROR |
| Disassembler | `disasm.py` | none | decode an instruction, rename Capstone's operands, relative targets | - |
| Errors, package files | `errors.py`, `__init__.py` | none | exception classes | - |

**How they interact.** `cli.main` and `autoupdate.main` both call
`cli.run_backend`, which calls one of the two `find_offsets`. The updater parses
the text that comes back with its own section parser, so the backends' output
format is an interface between the two programs (`IniText` is used by both
sides of it here). The updater shares the ini with TermService, which reads it
whenever it starts, and the DLL with Windows Update, which replaces it. Callers of
`symbols.find_offsets` share DbgHelp.

**Which behaviours are hard.** The steps of `apply_update` interleave with the
service control manager: a connection may start the service between any two.
Four commands of it are run unchecked, three checked, and the file move is not
atomic, so that a run can stop after any prefix of its effects, and the NEXT run
starts from there. `termsrv.dll` is opened several times in a run (for its version, for
the choice of the backend, by the backend and, in `symbols`, by SymSrv). DbgHelp is one
process-wide session behind a lock, with some twenty places that raise. The
discovery and scan loops follow data from the file (unwind chains, `jmp`
targets), so that their end is not obvious, and what they find depends on an
order. The patch matchers carry lengths and registers from one instruction to a
later one, and follow a branch out of their window. `PROJECT.json` lists each of these hazards at its line, with the properties
that would catch it going wrong.

## 2. Modules

| Module | Models | EXTENDS |
|---|---|---|
| `IniText` | the pure functions of `autoupdate.py` on an ini text, and what the texts are assumed to be (`IsText`, `IsSnippet`) | community modules |
| `KeyStore` | abstract: a store of settings that is only ever added to | - |
| `IniRepair` | the repair loop, one step per generated section; refines `KeyStore` | `IniText` |
| `AutoUpdate` | runs of the updater with the machine around it | `IniText` |
| `DbgHelp` | concurrent `symbols.find_offsets` calls | - |
| `FinderRun` | `cli.main` with both backends' `run()` | `IniText` |
| `X64Discovery` | `_discover_x64_symbols`, `search_xref`, `_backtrace` | - |
| `RangeSet` | the pure functions of `pe_image.RangeSet` | community modules |
| `X86Discovery` | `_discover_x86_symbols` | `RangeSet` |
| `SLInitScan` | the three SLInit scans | - |
| `PatchMatchers` | the four matchers of `patches.py` | - |
| `IniText_proofs` | lemmas about the functions of `IniText`, for any text | `IniText`, `TLAPS` |
| `AutoUpdate_proofs` | theorems about `AutoUpdate` and about `IniRepair` | both, `IniText_proofs` |
| `FinderRun_proofs` | theorems | `FinderRun`, `IniText_proofs` |
| `X86Discovery_proofs` | theorems, and the lemmas about `RangeSet` | `X86Discovery`, `TLAPS` |
| `DbgHelp_proofs`, `X64Discovery_proofs`, `PatchMatchers_proofs`, `SLInitScan_proofs` | theorems | the module and `TLAPS` |
| `MC...` | constants for TLC | the module |

Operators commented "Fault:" are not part of any specification. Each is a
plausible bug of the definition it precedes; substituting it makes TLC report one
of the properties, which shows that the property depends on the code.

Two things are written with the proofs in mind. A loop of the code is a recursive
function over the positions of its list (`EnsureGeneratedOffsetSections`, `AddRange`), which
the provers can unfold at a position, and never a RECURSIVE operator. And
the headers of a text are put in order by `Ascending`, which counts for each place the
positions before it: the community module's `SetToSortSeq` rests on `SortSeq` of `TLC`, which has no definition to
prove with.

### IniText, IniRepair, KeyStore

A line (`TextLine`) is a record of its kind (section header, entry, blank, other text),
its name, its value and whether it has a line ending; only the last line of a file
may lack one (`IsText`, what `splitlines(keepends=True)` can return). That is all `_section_name`, `_parse_ini_key_value` and the inserting
functions look at. Keys carry no `.x86`/`.x64` suffix (all generated ones carry
the same). `read_text` translates line endings, hence one kind of ending.
The parsing functions are translated one for one: only the first section of a
name counts, it ends before the next header of any name, only the first of
several equal keys counts, an insertion goes behind the last line of the section
that is not blank, a new `[PatchCodes]` behind `[Main]`.

`IniRepair` steps through `ensure_generated_offset_sections`, because each
iteration parses the text that the last one left, and then
`ensure_referenced_patch_codes`, which raises when the TEMPLATE lacks a code.
Its definitions begin with `Repair` (`RepairSpec`, `RepairTypeOK`), so that one proof
module can extend it together with `AutoUpdate`.
`KeyStore` says what a caller may rely on, without lines: settings are added from
the wanted ones, under keys not yet taken, and all wanted keys are there in the
end. The refinement mapping is `View`, what a reader of the ini sees, which is
defined without the code's own functions. That matters: an insertion could
keep every line and still hide a setting or add it to the wrong section.

### AutoUpdate

One action per effect of `main` and `apply_update`; `pc` is the place in them,
`verdict` how the last run ended, `failed` which unchecked commands failed.
`version`, `text` and `new` are main's locals. `partial` remembers whether the copy
that is under way, or was cut off, began with the service disabled (`guarded`) or not
(`exposed`), and `loaded` what the service last read. `Following` is the order of
`apply_update`'s commands. Around it: `Killed` (also with the whole machine),
`WindowsUpdate`, `DemandStart`, `UmStarts`, `StopCompletes`. The commands' effects
are external and modelled from their use: `sc stop` is refused while UmRdpService
depends on the service and returns before the service has stopped, `taskkill`
ends the process that has `termsrv.dll` loaded, `sc start` fails on a service that is
not stopped. `shutil.move` is what the library does with an existing target on
Windows, or a target on another volume: truncate it, copy, remove the source;
otherwise rename. An interrupted copy leaves any of `TornForms`: whole lines, or
a line cut somewhere. Every step may fail, also the two readings of the DLL
and of the ini (`PEImage` and `read_text` raise; exit code 2).

The DLL is opened at `:32`, by the automatic choice (`cli.py:89`), by the backend
(`symbols.py:52`, `nosymbol.py`) and by SymSrv (`symbols.py:164`). `ReadVersion` and `RunBackend` are two
readings with any number of replacements between them. `RunBackend` is one step with
its text of one version: what the automatic choice read only picks the backend, and a text
does not depend on which backend made it. What SymSrv reads is left out (section 5).

### DbgHelp

Any number of threads; each step of the two `with` blocks, with an exception
possible at each. The lookups of `run()` are of two kinds, the imports (decorated
public names) and the rest (undecorated names), each recorded with the module and
options it was answered under.

### FinderRun

`file` holds the facts about a `termsrv.dll` (which functions are found, whether
their patch matcher fits, which variables are known) and is arbitrary; the steps
turn it into lines in each backend's own control flow: the early returns for
Windows 7 and 8, the fall-through from one SingleUser function to the other (which
differs between the backends), the lines that are left out silently. Both
backends are assumed to learn the same facts, which is what `BackendsAgree` is
relative to. Triples `XPatch`, `XOffset`, `XCode` are one entry.
The version is the pair of 32-bit words of the version resource, unpacked into four
16-bit numbers as `from_fixed_file_info` does; the early returns compare its `ms`,
the automatic choice (`Choose`) its four numbers.

### X64Discovery

The file is a table of entries, the markers each refers to, where each entry's
unwind data lead, and which marker strings exist. One marker is asked for at an
entry: the first of the `elif` chain still missing. `_backtrace` walks one hop at
a step.

### X86Discovery, RangeSet

The file is a code section, one instruction at an address: a prologue, an
immediate that is a marker's address, a conditional jump, `ret` or `jmp`, bytes
that do not decode, or another one. The heap is a bag, since an address may wait in it
more than once. `RangeSet`'s functions are translated with their loops and the
binary search, over a list of ranges (`Absorb` is one pass of `add`'s loop); `covered` is a history variable, the set of
addresses the list stands for. The detail that matters most is in `EndBlock` and
`LeaveBlock`: only a block that ends in `ret` or `jmp` counts as visited.

### SLInitScan

The file is a sequence of instructions, each reduced to the part it plays in the
variant's scan; a `jmp` may lead anywhere in the window. `trace` is the path
scanned, a history variable the properties are stated over.

### PatchMatchers

What the bytes at an address decode to is chosen when a matcher first decodes there
and stays (`code`), so that every code is met without being enumerated beforehand,
and a jump into the middle of an instruction finds another one. An instruction is
its role for the matcher, its size and, where the matcher looks at them, target and
registers; the module's comment says which mnemonics and operand forms play a role.
`DecodeOne` and `DecodeNone` are `decode_one` with the bytes `read_rva` gives it: those
of the window that lie in the image. One action is one instruction a matcher goes
through, in the part of the pattern `pc` says; `GiveUp` is every `break`. `path`, the
addresses gone through, is a history variable.

## 3. What the runs check

| Run | Properties | What they say |
|---|---|---|
| `IniRepair` | `NoRunOnLines` | no two lines are run together, even when the file has no final newline |
| | `InstalledLinesKept` | every installed line is still there, in its order |
| | `RepairIsIdempotent` | a repaired file is left alone by the next run (no service restart) |
| | `RenderNeedsNoRepair` | a rendered file is one that a repair leaves alone |
| | `ImplementsKeyStore` | the refinement of `KeyStore` |
| `AutoUpdate` | `QuietWhileMoving` | the service is stopped and disabled while the file moves, unless disabling or killing itself failed |
| | `NeverInstallsError` | no ERROR line is ever in the installed file |
| | `NeverServesPartial` | no half-copied file is loaded, in this run or any time after it, if `sc config start=disabled` had not failed in the run that left it |
| | `AppliedIsLive` | "Successfully updated" leaves a running, startable service that has read exactly the text this run made |
| | `SuccessMeansCovered` | exit code 0 (no dry run): the installed file has every key and patch code the backend returned |
| `AutoUpdateLive` | `Converges` | reruns reach, and keep, a file that covers the installed DLL |
| `F1`, `F2`, `F3` | findings, section 6 | |
| `DbgHelp` | `AnswersAreOwn` | each lookup is answered from the caller's file, under the options it was written for |
| | `CleanWhenUnlocked`, `NeverRefused` | nothing is left behind; no caller is refused for another's session |
| | `LockIsReleased` | whatever raises, the lock is free again |
| `X64Discovery` | `NothingInOrderIsMissed` | the greedy pass finds a marker whenever entries in ascending order refer to the present markers up to it |
| | `FoundIsReferenced` | what is found came from such a sequence, and the primary entry of its chain is recorded |
| | `Ends` | on acyclic unwind data the discovery ends |
| `X86Discovery` | `FoundIsReached` | a marker is attributed to a function whose own code refers to it |
| | `EachFunctionGivesOne` | no function is skipped: each that is not part of another has given a marker itself, or functions before it have given all the markers it refers to |
| | `RangesAreTheSet` | the list of ranges answers `contains` and `next_value` as the set of addresses added would |
| | `Ends` | the worklist ends unless blocks that run into undecodable bytes jump to each other in a circle |
| `FinderRun` | `TextIsASnippet` | every text is something the updater can merge: sections, no key twice, SLInit section iff the hook |
| | `BackendsAgree` | an error-free nosymbol text is the symbols text |
| | `ExitZeroMeansWhole` | exit code 0 without `--allow-errors`: all entries the version needs, SingleUser excepted |
| `SLInitScan` | `FirstStoreBehindString` | each variable is the first store behind its own string along the path scanned; bInitialized the store of 1, or the last store that is no answer |
| | `EachStoreServesOne` | unless a `jmp` leads over it again no store serves two variables |
| | `Ends` | the scan ends unless a `jmp` closes a loop |
| `PatchMatchers` | `LocalOnlySameExit` | the jump made unconditional leads where the code goes on a negative result, for `jns` and `js`, and follows the compare made otherwise |
| | `DefPolicyFits` | the patch begins at an instruction gone through, the right one of the two, with the registers of the last 63Ch load's pair or of the compare |
| | `SingleUserFits` | the patch is the first instruction that can be patched behind the first call of memset |
| | `WindowIsRead` | "not found" is said of a pattern begun and broken, or when all of the window has been looked at |

Every module has one type invariant besides (`RepairTypeOK` in `IniRepair`). Some say more than
types: `RepairTypeOK`, that a repair which returns has visited every section and left no key and no code
out; `AutoUpdate!TypeOK`, that only a run with `--apply`, on Windows, gets to a step that writes a file
or runs a command. Where two
modules use a property name, as `TypeOK` or `Ends`, each means its own.

### Bounds, and why they are enough

- `IniRepair`: every file of up to `MaxLines = 4` lines over seven kinds of lines,
  with and without a final newline, that has the version's section. Four lines are
  enough for two sections of the same name with an entry in each, a section between
  blanks, and `[PatchCodes]` before, behind or without `[Main]`. The backend
  texts have two sections, a code the file may have, one it lacks, one the
  template lacks, and a version other than the one looked for.
- `AutoUpdate`: `MaxFaults = 3` failed steps or kills and `MaxUpdates = 2`
  replacements of the DLL in a behaviour, with any number of runs. The known
  hazards need two faults (a failed unchecked command, then a failed copy) and
  one replacement between the readings of the DLL; three and two leave room for a fault
  during the recovery. Three versions: one whose text is fine, one whose
  patch code the template lacks, one whose text has an ERROR. `v4` of the live
  run is a second fine one.
- `AutoUpdateLive`: two faults, one update, only versions whose texts can be
  installed: for the others the updater rightly never succeeds.
- `DbgHelp`: three threads, two files: a holder, a waiter and a third that comes
  in between; no symmetry, because of the liveness property.
- `X64Discovery`: tables of up to three entries, three markers. An elif chain of
  three has a first, a middle and a last; the proofs cover every other size.
- `X86Discovery`: every section of five instructions that begins with a prologue (a
  section that does not is a shorter one): two functions with a jump between or
  back, three ranges that merge, a block with several jumps. Two markers, so that the first
  is found while the second is missing. `MaxPending = 8` entries of an address in the
  heap; without a circle of open blocks TLC finds no behaviour stopped by it (with
  a bound of 4 it does), which `Ends` would report.
- `FinderRun`: two variable names (all found, some found, none found), five
  versions: one per early return, the two sides of the revision the choice of the
  backend asks for, and a later build with a lower revision; every combination of
  the other facts. All fit TLC's 31-bit integers; the packing is by 65536 as in the code.
- `PatchMatchers`: a window of five bytes in an image of nine, instructions of one or
  two bytes. The shortest complete LocalOnly pattern is five instructions (call, test,
  jump, compare, jz); a DefPolicy pair with its loads, compare and branch is four,
  which leaves room for an instruction before, between or cut off by the window's end.
  Jumps lead before the function, inside and just behind the window. `TypeOK` of this module
  is more than types: it says that no matcher reads behind the window.
- `SLInitScan`: functions of four instructions, two policies: string, store,
  string, store is the pattern, and each shuffle, repetition or detour of it
  occurs. `MaxSteps = 6` bounds what is scanned once a `jmp` closes a loop; a scan
  without a loop takes at most four steps, so the bound never cuts one.

`CHECK_DEADLOCK FALSE` stands where a model ends: a repaired file, a discovery or
a scan that is over, or a loop at `MaxSteps`.

### Fairness, and why the code justifies it

- `AutoUpdate!FairSpec`: a run that has started goes on (`WF_pc(RunMovesOn)`):
  `main` is sequential and every command it runs returns. Stated with the program
  counter, since in every state of a run some step of it is enabled and every step
  moves `pc`. And `SF_vars(Start(TRUE))`: the updater is run with `--apply` again
  and again, as from a scheduled task. Nothing is assumed of the environment.
  Without reruns nothing would converge, and the code does not promise it.
- `DbgHelp!FairSpec`: a thread that has the lock goes on; DbgHelp's calls return
  (the symbol server's timeouts are DbgHelp's). Nothing is assumed about who gets
  the lock; that a waiting thread is served is therefore not claimed.
- `X64Discovery`, `X86Discovery`, `SLInitScan`: a sequential loop goes on (`WF_vars(Next)`).

## 4. What is proved

TLC shows each property on an instance; the theorems hold for every value of the
constants: any ini texts, versions, sets of threads and files, sizes of tables and of code,
and any number of faults. Every invariant and every action property of the passing runs
is a theorem, and so is the refinement of `KeyStore`.

The argument is always `Init => IInv`, `IInv /\ [Next]_vars => IInv'` (one step
per action) and `IInv => property`, put together with PTL. Where a loop or a recursive
function needs induction, it is over the positions of one list: the set of positions at
which the claim fails is a set of naturals, and if it were not empty it would have a
least element (`LeastIn`), which the step of the loop excludes.

The assumptions on constants are named where the constants are declared, and TLC
evaluates them in every run.

**`IniText_proofs`**, about any text. The heart is `Inserted(doc, new, at, lines)`, "`new` is `doc` with
`lines` before its place `at`" (`SpliceInserts`: that is what an insertion makes,
and the line in front of it gets its ending), and `ExtendsOld`, `ExtendsNew`: how the headers,
the first section of a name and its entries move when that happens. From them follow
`InsertKeyLinesAdds` (the section has its old keys and the new ones, no other
section has changed), `ExtendsView` (what a reader of the ini sees grows by the
inserted settings whose key was free, and loses none), and `Supplied`, which bundles
both for `EnsureSection` and `EnsureReferencedPatchCodes`. `Mended` adds that the installed
lines stay in their order, no lines run together and no ERROR line comes in; it
is transitive (`MendedFurther`), hence holds of the whole loop (`EnsureGeneratedMends`).
`RepairMends`, `RepairOfCovered` (a file that covers the text is left alone) and
`RenderCovers` are what the theorems cite.

**`AutoUpdate_proofs` about `IniRepair`**, from `InstalledAssumption`, `BackendAssumption`
and `TemplateAssumption`: `RepairTypeCorrect`, `LinesNeverRunTogether`, `InstalledLinesStay`,
`RepairedIsStable`, `RenderedIsComplete`, and `RepairIsAStore`, the refinement of
`KeyStore`. That a repaired file covers the text needs that no later insertion takes
away what an earlier one has brought: `VisitedIsCovered` (a generated section still to be
visited, or with all its keys in the text) with `Mended(installed, updated)`. A step of the
loop maps to a step of the store or to a stutter (`StepRefines`): when it supplies a
section all of whose keys were there, the store does not move.
`RenderNeedsNoRepair` and `RepairIsIdempotent` are `RenderCovers` and `DoneIsCovered`
with `RepairOfCovered`. `IsSnippet` says of a backend's text that none of its section names
occurs twice or is one of the template's. The backends write `[version]` and
`[version-SLInit]` (`symbols.py:289, 376`), the template has `[Main]`, `[PatchCodes]`, `[SLInit]`
and `[SLPolicy]`; without it a rendered section could be hidden behind one of the
template's, and `RenderNeedsNoRepair` would be false.

**`AutoUpdate_proofs` about `AutoUpdate`**, from `ConstantsAssumption` (no version is the empty
string, `MayFail` names steps) and `BoundsAssumption` (bounds are naturals):
`TypeCorrect` (with what it says of `--apply` and Windows), `QuietWhileMovingHolds`, `NeverServesPartialHolds`, `AppliedIsLiveHolds`. None of the
safety properties is inductive. Whether the service can come up while the file
moves depends on what was done three commands earlier, hence `DisabledWhileApplying` and
`DownWhileApplying`: from the command on that disables (kills), and unless it is in
`failed`, the service is disabled (down). That a guarded
partial file is not loaded long AFTER the run that left it needs that the service is
disabled whenever one is there, in `idle` and through the next runs too
(`PartialIsDisabled`). `AppliedIsLive` needs that past the move the file is `new`
and whole (`MovedIsWhole`) and that before `sc start` the service is enabled.
From `TextsAssumption` and `InitialAssumption` (texts are texts, the backend's are snippets,
no ini has an ERROR line before the first run) follow `NeverInstallsErrorHolds` and
`SuccessMeansCoveredHolds`. Their invariant adds three parts about texts, `InstalledIsClean`,
`NewIsClean` and `NewCovers` (from the write of the temporary file on, the run's text has no ERROR and
`new` has all its keys); the steps rest on `RepairMends`, `RenderCovers` and
`TornIsClean` (whatever a copy leaves of a clean text is clean, also the cut line).

**`DbgHelp_proofs`** from `NoneAssumption`: `TypeCorrect`, `AnswersAreOwnHolds`,
`CleanWhenUnlockedHolds`, `NeverRefusedHolds`. The invariant: a thread past
`acquire` is the holder of the lock (mutual exclusion); the session is open
exactly in the holder's body and at its exit; and, step by step of the body, which
module and options are in force and which answers have been given.

**`X64Discovery_proofs`** from `EntriesAssumption` and `MarkersAssumption`:
`TypeCorrect`, `NothingInOrderIsMissedHolds`, `FoundIsReferencedHolds`. The
completeness theorem is the exchange argument for a greedy scan: the invariant
`Complete` says that a sequence of ascending entries which ends before `at`
cannot go further along the chain of markers than the scan has; a step keeps it
because the last entry of a longer sequence would have had to be `at`, and there
the scan asks for exactly that marker. `Prefix` says that the found markers are the
first of those present; `Sound` carries the witnessing sequence and the walk.

**`X86Discovery_proofs`** from `TextsAssumption` (sections are sequences of
instructions) and `PendingAssumption`: `TypeCorrect`, `RangesAreTheSetHolds`, `FoundIsReachedHolds`,
`EachFunctionGivesOneHolds`. First the RangeSet, for any list that is sorted with its ranges
apart (`Sorted`): `AddRangeIs` (by induction over the passes of `add`'s loop, each of
which keeps the copied part in front of the new range or behind it, `AbsorbAdds`): `add`
gives such a list again, for the old numbers and the new ones; `ContainsIs` and
`NextValueIs`: `contains` and `next_value` then answer for that set. The invariant has, besides types,
`Scans` (the list is sorted and stands for `covered`),
`Belongs` (every address in the heap, in the block or covered is reached from
`function_start`) and `Searched`. The last is the argument for a worklist: the functions behind the
outer loop are served, and the one it is at has given a marker, or there is a set `D`
of addresses, all decoded and without a marker still missing, that holds all that is covered and is
closed under going on but for what is still ahead (`Ahead`, the heap and the next address of
the block). When nothing is ahead `D` is all the function reaches, so each marker it refers to
was found before. That it was found by a function BEFORE this one is `Upwards`: the outer loop
only goes up, and no marker has been given by a function behind the one it is at.
It must be SOME `D` and not `covered`: a block that runs into bytes that do not
decode has been looked at and is not in the ranges.

**`PatchMatchers_proofs`** from `LayoutAssumption`, `MatchersAssumption` and
`InstructionsAssumption`: `TypeCorrect`, `LocalOnlySameExitHolds`,
`DefPolicyFitsHolds`, `SingleUserFitsHolds`, `WindowIsReadHolds`, for code of every kind and windows of every size. What a
property says of the end of `path` is, part by part of the pattern, an invariant of
the part the matcher is in (the call behind the loads, the two exits of the branch,
the last load and `last`). `PathKept` is the lemma they rest on: decoding one more
instruction changes nothing of those gone through, since what is decoded stays. That
the call `single_user_patch` settles on is the FIRST of memset needs more: an earlier call
must not become one by what is read later, hence `Settled` (its target has been decoded,
and is no thunk, or never can be). `WindowIsRead` rests on the other invariants: behind
the begin of a pattern the path holds the instruction it began with (`PatternBegan`).

**`SLInitScan_proofs`** from `LengthAssumption` and `PoliciesAssumption`:
`TypeCorrect`, `FirstStoreBehindStringHolds`, `EachStoreServesOneHolds`. The scan
keeps only a variable to assign and what has been assigned; the properties speak of
the whole path. The invariants tie one to the other: `WaitsRight` (what the scan
waits for is the last string on the path not yet answered), `GivenFirst` (a variable
is the first of its stores, or none exists) and `GivenLast` (`bInitialized` is the last
store that answers no string). `EachStoreServesOne` follows from these and `PathInv`: an
instruction scanned twice closes a set of instructions the scan never leaves.

**`FinderRun_proofs`** from `FileVersionsAssumption`, `VariableNamesAssumption` and
`KeysAssumption` (no variable is listed twice or named like a key of the version's
section, as is so of the eight at `symbols.py:381` and `nosymbol.py:152`): `TypeCorrect`, `BackendsAgreeHolds`,
`ExitZeroMeansWholeHolds`, `TextIsASnippetHolds`. `LinesSoFar` says, step by
step, which parts of the text a run has emitted, so that what is printed is
`TextOf(backend)`, a function of the facts alone. A part without an ERROR line
can only be the entry it is for; from that follow both that the two backends say the
same and, with what `KeysIn` finds between two headers (`KeysBetween`), that nothing
the version needs is missing. `TextIsASnippet` needs what the section parser reads:
each part is `Bare` (no header, at most the entry it is named after, or none where
an ERROR line stands), so that what comes before the hook is an `Opening` (one header, each key once)
and a text with the hook has exactly two headers, whose order `AscendingTwo` gives;
`FullReadsAsSnippet` then finds the keys on either side.

**Only model-checked.** Liveness (`Converges`, `LockIsReleased`, the three `Ends`):
fairness and ENABLED are beyond the prover.

## 5. What is assumed or left out

- `SymCleanup` succeeds; the executables `apply_update` calls exist; commands return.
- A backend's text is of one reading of the DLL. SymSrv opens the file by its path once more
  (`symbols.py:164`); if it is replaced between that and `symbols.py:52`, the offsets of one build are
  looked up in the symbols of another. Listed as a hazard without a property: what such a text
  holds is a matter of the two files, and nothing in the repository says what to expect of it.
- An updater is alone: two at once would share `rdpwrap_new.ini`; nobody edits the ini
  during a run. The code takes no lock and no doc says that it may be run twice, or
  that an edit survives, so there is no claim to check.
- Both backends learn the same facts about a file (`FinderRun`). Whether discovery
  finds what the symbols say is a matter of the particular DLL.
- Whether a patch matcher fits is a fact of the file in `FinderRun`; that it answers
  rightly is what `PatchMatchers` shows.
- `PatchMatchers` does not look at the names of patch codes: that `single_user_patch`
  can name one the template lacks (`nop_5`, say) is `AutoUpdate`'s version whose text
  the updater refuses. x86 and x64 forms of an operand are one role.
- `X64Discovery` and `SLInitScan` are not composed: which window the scan gets when the
  reference lies in a chained fragment is a fact; a variable missed leaves an ERROR line.
- In `X86Discovery` instructions do not overlap (a jump into the middle of one is not
  modelled), and a jump leads into the section or just behind it.
- In the short x64 scan the window is 0x11000 bytes from the function's begin and
  has no lower end, so that code behind and before the function is scanned too; in
  the model it may run into `jmp`s that lead anywhere in the window.
- Not modelled: building the mapped image, the search for strings (`find_bytes`), the
  import table and the renaming of Capstone's operands (reads without state; what they
  return are the other modules' facts); the errors and package files, which have no
  state; the wording of messages, logging.

## 6. Findings

- **F1** (`UpToDateMeansWorking`). After a failure behind `sc config termservice
  start=disabled` TermService stays disabled. The next run finds the ini complete
  and reports that RDP Wrapper "seems to be up-to-date and working"
  (`autoupdate.py:51`), exit code 0, and so does every later one: nothing in it looks
  at the service. TLC's trace is the shortest way there: an incomplete ini is
  installed, so that the move is a copy; the copy stops in a form that already has every
  key, and the run ends in an error; the next run has nothing to add. The same
  follows two steps later, when the copy is finished and `icacls` (`:238`) or `sc config
  start=demand` (`:239`) fails. `Converges` holds all the same, since it is about the file.
- **F2** (`UpToDateMeansWhole`). A copy cut inside a value leaves a line with the
  right key. Keys are all the next run compares (`autoupdate.py:202`), so it reports the same of
  a file whose last value is damaged, for good. The property asks only that no entry's value is
  cut (`CutShort`): that the copy lost a line's ending or blank lines at the end is harmless.
- **F3** (`SymbolsForOlderBuilds`). `--backend auto` is documented to use `nosymbol` for
  `10.0.26100.8376+` and `symbols` for older builds (`README.md:47-50` of the
  repository, `cli.py:47-48`). `_prefers_nosymbol_auto` compares build and revision
  separately (`cli.py:102-103`), so that a newer build with a revision below 8376, as
  10.0.28000.1575, gets the symbols backend.
- Not findings, since nothing in the repository says otherwise, but worth knowing: three
  loops end only on well-formed input, and each `Ends` states the exact condition it was
  checked under (a circle of chained unwind data, of open x86 blocks, of `jmp`s in the
  short SLInit scan goes on for ever).
- Without a run of its own: `UmRdpService` is stopped by `apply_update` and never
  started by it again.

## 7. Plan

Done: `IniText`, `KeyStore`, `IniRepair`; `AutoUpdate`; `DbgHelp`; `X64Discovery`;
`X86Discovery` with `RangeSet`; `FinderRun`; `SLInitScan`; `PatchMatchers`; proofs
for all of them, so that every safety property a passing run checks is a theorem.

Worth doing next: lemmas about the walk of `_backtrace` and about the scans' ends that
bring the conditions of the three `Ends` closer to a proof (a bound that goes down with each
step, without the fairness); `X64Discovery` composed with `SLInitScan`, if the repository
comes to say which fragments it means to scan.
