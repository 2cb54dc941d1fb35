-------------------------- MODULE AutoUpdate_proofs --------------------------
(***************************************************************************)
(* Proofs about autoupdate.py: about AutoUpdate, for all texts, versions,  *)
(* bounds and sets of steps that may fail, and about IniRepair, for every  *)
(* set of installed files, of generated texts and every template.  The     *)
(* order of the steps, and what the environment may do between them, makes *)
(* the invariant about the service; what a repair does to a text           *)
(* (IniText_proofs) makes the others.                                      *)
(***************************************************************************)
EXTENDS AutoUpdate, IniRepair, IniText_proofs

(* The new ini is in place, whole, from the end of the move to the end of  *)
(* the run.                                                                *)
MovedIsWhole ==
  /\ pc \in {"unlink", "icacls", "sc_demand", "sc_start"} =>
       iniExists /\ ini = new /\ partial = "no"
  /\ pc = "copying" => iniExists

(* From the command that disables the service to the one that enables it   *)
(* again the service cannot start; from the one that kills it, it is down. *)
DisabledWhileApplying ==
  pc \in {"taskkill", "icacls", "sc_demand"} \cup Moving /\ "sc_disable" \notin
       failed =>
    start = "disabled"
DownWhileApplying ==
  pc \in {"icacls", "sc_demand"} \cup Moving /\ {"sc_disable", "taskkill"} \cap
       failed = {} =>
    svc = "stopped"
EnabledAtTheEnd == pc = "sc_start" => start = "demand"

(* Where a copy has begun behind a disabled service, the service stays     *)
(* disabled, in this run and behind it: only a run that has replaced the   *)
(* file enables it.                                                        *)
PartialIsDisabled  == partial = "guarded" => start = "disabled"
PartialIsNotLoaded == loaded # "guarded"

IInv ==
  /\ TypeOK
  /\ MovedIsWhole
  /\ DisabledWhileApplying
  /\ DownWhileApplying
  /\ EnabledAtTheEnd
  /\ PartialIsDisabled
  /\ PartialIsNotLoaded

(* The initial states satisfy the invariant: the service runs, no run is   *)
(* under way.                                                              *)
LEMMA InitIInv == Init => IInv
<1> SUFFICES ASSUME Init PROVE IInv
  OBVIOUS
<1>1. MachineTypes
  BY DEF Init, MachineTypes
<1>2. RunTypes /\ TextType
  BY DEF Init, RunTypes, TextType, ProgramCounters, Acting, Applying
<1>3. BoundsTypes
  <2>1. faults = 0 /\ updates = 0
    BY DEF Init
  <2> QED
    BY <2>1, BoundsAssumption DEF BoundsTypes
<1> QED
  BY <1>1, <1>2, <1>3 DEF Init, IInv, TypeOK, MovedIsWhole, DisabledWhileApplying,
       DownWhileApplying, EnabledAtTheEnd, PartialIsDisabled,
       PartialIsNotLoaded, Applying, Moving

(* A failure is counted only within the bound.                             *)
LEMMA FailsCounts ==
  ASSUME BoundsTypes, NEW step, Fails(step) PROVE BoundsTypes'
BY BoundsAssumption DEF BoundsTypes, Fails

(* Every step keeps the types of the machine: the files and the service.   *)
LEMMA NextMachineTypes == TypeOK /\ [Next]_vars => MachineTypes'
<1> SUFFICES ASSUME TypeOK, [Next]_vars PROVE MachineTypes'
  OBVIOUS
<1> USE DEF TypeOK, MachineTypes, vars, files, service, inputs, bounds
<1>1. CASE \E a \in BOOLEAN : Start(a)
  BY <1>1 DEF Start, Goto
<1>2. CASE ReadVersion
  BY <1>2 DEF ReadVersion, Fails, End, Goto
<1>3. CASE LookForVersion
  BY <1>3 DEF LookForVersion, Fails, End, Goto
<1>4. CASE VerifyInstalled
  BY <1>4 DEF VerifyInstalled, RunBackend, Goto, Fails, End
<1>5. CASE Merge
  BY <1>5 DEF Merge, Candidate, Fails, End, Goto
<1>6. CASE GenerateFromScratch
  BY <1>6 DEF GenerateFromScratch, RunBackend, Goto, Fails, End
<1>7. CASE RenderNew
  BY <1>7 DEF RenderNew, Candidate, Goto, End
<1>8. CASE WriteOutput
  BY <1>8 DEF WriteOutput, Goto, Following, Fails, End
<1>9. CASE NetStop
  BY <1>9 DEF NetStop, Fails, FailsUnchecked, Goto, Following
<1>10. CASE ScStop
  BY <1>10 DEF ScStop, Fails, FailsUnchecked, Goto, Following
<1>11. CASE ScDisable
  BY <1>11 DEF ScDisable, Fails, FailsUnchecked, Goto, Following
<1>12. CASE TaskKill
  BY <1>12 DEF TaskKill, Fails, FailsUnchecked, Goto, Following
<1>13. CASE MoveByRename
  BY <1>13 DEF MoveByRename, Outdate, Goto, Following
<1>14. CASE CopyBegins
  BY <1>14 DEF CopyBegins, Outdate, Goto
<1>15. CASE CopyEnds
  BY <1>15 DEF CopyEnds, Goto
<1>16. CASE UnlinkOutput
  BY <1>16 DEF UnlinkOutput, Goto, Following
<1>17. CASE MoveFails
  BY <1>17 DEF MoveFails, Fails, End
<1>18. CASE Icacls
  BY <1>18 DEF Icacls, Fails, FailsChecked, End, Goto, Following
<1>19. CASE ScDemand
  BY <1>19 DEF ScDemand, Fails, FailsChecked, End, Goto, Following
<1>20. CASE ScStart
  BY <1>20 DEF ScStart, ServiceStarts, Fails, FailsChecked, End
<1>21. CASE Killed
  BY <1>21 DEF Killed, End
<1>22. CASE WindowsUpdate
  BY <1>22 DEF WindowsUpdate
<1>23. CASE DemandStart
  BY <1>23 DEF DemandStart, ServiceStarts
<1>24. CASE UmStarts
  BY <1>24 DEF UmStarts
<1>25. CASE StopCompletes
  BY <1>25 DEF StopCompletes
<1>26. CASE UNCHANGED vars
  BY <1>26
<1> QED
  BY <1>1, <1>2, <1>3, <1>4, <1>5, <1>6, <1>7, <1>8, <1>9, <1>10, <1>11, <1>12,
       <1>13, <1>14, <1>15, <1>16, <1>17, <1>18, <1>19, <1>20, <1>21, <1>22,
       <1>23, <1>24, <1>25, <1>26 DEF Next, Update, Environment

(* Every step keeps the types of the run: its counter, arguments and       *)
(* verdict.                                                                *)
LEMMA NextRunTypes == TypeOK /\ [Next]_vars => RunTypes'
<1> SUFFICES ASSUME TypeOK, [Next]_vars PROVE RunTypes'
  OBVIOUS
<1> USE ConstantsAssumption DEF TypeOK, RunTypes, MachineTypes, vars, files,
     service, inputs, bounds, Acting, Applying, Moving, ProgramCounters, Steps
<1>1. CASE \E a \in BOOLEAN : Start(a)
  BY <1>1 DEF Start, Goto
<1>2. CASE ReadVersion
  BY <1>2 DEF ReadVersion, Fails, End, Goto
<1>3. CASE LookForVersion
  BY <1>3 DEF LookForVersion, Fails, End, Goto
<1>4. CASE VerifyInstalled
  BY <1>4 DEF VerifyInstalled, RunBackend, Goto, Fails, End
<1>5. CASE Merge
  BY <1>5 DEF Merge, Candidate, Fails, End, Goto
<1>6. CASE GenerateFromScratch
  BY <1>6 DEF GenerateFromScratch, RunBackend, Goto, Fails, End
<1>7. CASE RenderNew
  BY <1>7 DEF RenderNew, Candidate, Goto, End
<1>8. CASE WriteOutput
  BY <1>8 DEF WriteOutput, Goto, Following, Fails, End
<1>9. CASE NetStop
  BY <1>9 DEF NetStop, Fails, FailsUnchecked, Goto, Following
<1>10. CASE ScStop
  BY <1>10 DEF ScStop, Fails, FailsUnchecked, Goto, Following
<1>11. CASE ScDisable
  BY <1>11 DEF ScDisable, Fails, FailsUnchecked, Goto, Following
<1>12. CASE TaskKill
  BY <1>12 DEF TaskKill, Fails, FailsUnchecked, Goto, Following
<1>13. CASE MoveByRename
  BY <1>13 DEF MoveByRename, Outdate, Goto, Following
<1>14. CASE CopyBegins
  BY <1>14 DEF CopyBegins, Outdate, Goto
<1>15. CASE CopyEnds
  BY <1>15 DEF CopyEnds, Goto
<1>16. CASE UnlinkOutput
  BY <1>16 DEF UnlinkOutput, Goto, Following
<1>17. CASE MoveFails
  BY <1>17 DEF MoveFails, Fails, End
<1>18. CASE Icacls
  BY <1>18 DEF Icacls, Fails, FailsChecked, End, Goto, Following
<1>19. CASE ScDemand
  BY <1>19 DEF ScDemand, Fails, FailsChecked, End, Goto, Following
<1>20. CASE ScStart
  BY <1>20 DEF ScStart, ServiceStarts, Fails, FailsChecked, End
<1>21. CASE Killed
  BY <1>21 DEF Killed, End
<1>22. CASE WindowsUpdate
  BY <1>22 DEF WindowsUpdate
<1>23. CASE DemandStart
  BY <1>23 DEF DemandStart, ServiceStarts
<1>24. CASE UmStarts
  BY <1>24 DEF UmStarts
<1>25. CASE StopCompletes
  BY <1>25 DEF StopCompletes
<1>26. CASE UNCHANGED vars
  BY <1>26
<1> QED
  BY <1>1, <1>2, <1>3, <1>4, <1>5, <1>6, <1>7, <1>8, <1>9, <1>10, <1>11, <1>12,
       <1>13, <1>14, <1>15, <1>16, <1>17, <1>18, <1>19, <1>20, <1>21, <1>22,
       <1>23, <1>24, <1>25, <1>26 DEF Next, Update, Environment

(* Every step keeps result.text a text that run_backend returned.          *)
LEMMA NextTextType == TypeOK /\ [Next]_vars => TextType'
<1> SUFFICES ASSUME TypeOK, [Next]_vars PROVE TextType'
  OBVIOUS
<1> USE DEF TypeOK, TextType, MachineTypes, vars, files, service, inputs, bounds
<1>1. CASE \E a \in BOOLEAN : Start(a)
  BY <1>1 DEF Start, Goto
<1>2. CASE ReadVersion
  BY <1>2 DEF ReadVersion, Fails, End, Goto
<1>3. CASE LookForVersion
  BY <1>3 DEF LookForVersion, Fails, End, Goto
<1>4. CASE VerifyInstalled
  BY <1>4 DEF VerifyInstalled, RunBackend, Goto, Fails, End
<1>5. CASE Merge
  BY <1>5 DEF Merge, Candidate, Fails, End, Goto
<1>6. CASE GenerateFromScratch
  BY <1>6 DEF GenerateFromScratch, RunBackend, Goto, Fails, End
<1>7. CASE RenderNew
  BY <1>7 DEF RenderNew, Candidate, Goto, End
<1>8. CASE WriteOutput
  BY <1>8 DEF WriteOutput, Goto, Following, Fails, End
<1>9. CASE NetStop
  BY <1>9 DEF NetStop, Fails, FailsUnchecked, Goto, Following
<1>10. CASE ScStop
  BY <1>10 DEF ScStop, Fails, FailsUnchecked, Goto, Following
<1>11. CASE ScDisable
  BY <1>11 DEF ScDisable, Fails, FailsUnchecked, Goto, Following
<1>12. CASE TaskKill
  BY <1>12 DEF TaskKill, Fails, FailsUnchecked, Goto, Following
<1>13. CASE MoveByRename
  BY <1>13 DEF MoveByRename, Outdate, Goto, Following
<1>14. CASE CopyBegins
  BY <1>14 DEF CopyBegins, Outdate, Goto
<1>15. CASE CopyEnds
  BY <1>15 DEF CopyEnds, Goto
<1>16. CASE UnlinkOutput
  BY <1>16 DEF UnlinkOutput, Goto, Following
<1>17. CASE MoveFails
  BY <1>17 DEF MoveFails, Fails, End
<1>18. CASE Icacls
  BY <1>18 DEF Icacls, Fails, FailsChecked, End, Goto, Following
<1>19. CASE ScDemand
  BY <1>19 DEF ScDemand, Fails, FailsChecked, End, Goto, Following
<1>20. CASE ScStart
  BY <1>20 DEF ScStart, ServiceStarts, Fails, FailsChecked, End
<1>21. CASE Killed
  BY <1>21 DEF Killed, End
<1>22. CASE WindowsUpdate
  BY <1>22 DEF WindowsUpdate
<1>23. CASE DemandStart
  BY <1>23 DEF DemandStart, ServiceStarts
<1>24. CASE UmStarts
  BY <1>24 DEF UmStarts
<1>25. CASE StopCompletes
  BY <1>25 DEF StopCompletes
<1>26. CASE UNCHANGED vars
  BY <1>26
<1> QED
  BY <1>1, <1>2, <1>3, <1>4, <1>5, <1>6, <1>7, <1>8, <1>9, <1>10, <1>11, <1>12,
       <1>13, <1>14, <1>15, <1>16, <1>17, <1>18, <1>19, <1>20, <1>21, <1>22,
       <1>23, <1>24, <1>25, <1>26 DEF Next, Update, Environment

(* No step exceeds the bounds on faults and on replacements of the DLL.    *)
LEMMA NextBoundsTypes == TypeOK /\ [Next]_vars => BoundsTypes'
<1> SUFFICES ASSUME TypeOK, [Next]_vars PROVE BoundsTypes'
  OBVIOUS
<1> USE BoundsAssumption, FailsCounts DEF TypeOK, BoundsTypes, vars, files,
     service, inputs, bounds
<1>1. CASE \E a \in BOOLEAN : Start(a)
  BY <1>1 DEF Start, Goto
<1>2. CASE ReadVersion
  BY <1>2 DEF ReadVersion, End, Goto
<1>3. CASE LookForVersion
  BY <1>3 DEF LookForVersion, End, Goto
<1>4. CASE VerifyInstalled
  BY <1>4 DEF VerifyInstalled, RunBackend, Goto, End
<1>5. CASE Merge
  BY <1>5 DEF Merge, Candidate, End, Goto
<1>6. CASE GenerateFromScratch
  BY <1>6 DEF GenerateFromScratch, RunBackend, Goto, End
<1>7. CASE RenderNew
  BY <1>7 DEF RenderNew, Candidate, Goto, End
<1>8. CASE WriteOutput
  BY <1>8 DEF WriteOutput, Goto, Following, End
<1>9. CASE NetStop
  BY <1>9 DEF NetStop, FailsUnchecked, Goto, Following
<1>10. CASE ScStop
  BY <1>10 DEF ScStop, FailsUnchecked, Goto, Following
<1>11. CASE ScDisable
  BY <1>11 DEF ScDisable, FailsUnchecked, Goto, Following
<1>12. CASE TaskKill
  BY <1>12 DEF TaskKill, FailsUnchecked, Goto, Following
<1>13. CASE MoveByRename
  BY <1>13 DEF MoveByRename, Outdate, Goto, Following
<1>14. CASE CopyBegins
  BY <1>14 DEF CopyBegins, Outdate, Goto
<1>15. CASE CopyEnds
  BY <1>15 DEF CopyEnds, Goto
<1>16. CASE UnlinkOutput
  BY <1>16 DEF UnlinkOutput, Goto, Following
<1>17. CASE MoveFails
  BY <1>17 DEF MoveFails, End
<1>18. CASE Icacls
  BY <1>18 DEF Icacls, FailsChecked, End, Goto, Following
<1>19. CASE ScDemand
  BY <1>19 DEF ScDemand, FailsChecked, End, Goto, Following
<1>20. CASE ScStart
  BY <1>20 DEF ScStart, ServiceStarts, FailsChecked, End
<1>21. CASE Killed
  <2>1. faults < MaxFaults /\ faults' = faults + 1 /\ updates' = updates
    BY <1>21 DEF Killed
  <2> QED
    BY <2>1
<1>22. CASE WindowsUpdate
  BY <1>22 DEF WindowsUpdate
<1>23. CASE DemandStart
  BY <1>23 DEF DemandStart, ServiceStarts
<1>24. CASE UmStarts
  BY <1>24 DEF UmStarts
<1>25. CASE StopCompletes
  BY <1>25 DEF StopCompletes
<1>26. CASE UNCHANGED vars
  BY <1>26
<1> QED
  BY <1>1, <1>2, <1>3, <1>4, <1>5, <1>6, <1>7, <1>8, <1>9, <1>10, <1>11, <1>12,
       <1>13, <1>14, <1>15, <1>16, <1>17, <1>18, <1>19, <1>20, <1>21, <1>22,
       <1>23, <1>24, <1>25, <1>26 DEF Next, Update, Environment

(* Every step keeps the inductive invariant.                               *)
LEMMA NextIInv == IInv /\ [Next]_vars => IInv'
<1> SUFFICES ASSUME IInv, [Next]_vars PROVE IInv'
  OBVIOUS
<1>0. TypeOK'
  BY NextMachineTypes, NextRunTypes, NextTextType, NextBoundsTypes DEF IInv, TypeOK
<1> USE ConstantsAssumption, <1>0 DEF IInv, MovedIsWhole, DisabledWhileApplying,
     DownWhileApplying, EnabledAtTheEnd, PartialIsDisabled,
     PartialIsNotLoaded, vars, files, service, inputs, bounds, Applying, Moving,
     ProgramCounters, Steps
<1>1. ASSUME NEW a \in BOOLEAN, Start(a) PROVE IInv'
  BY <1>1 DEF Start, Goto
<1>2. CASE ReadVersion
  BY <1>2 DEF ReadVersion, Fails, End, Goto
<1>3. CASE LookForVersion
  BY <1>3 DEF LookForVersion, Fails, End, Goto
<1>4. CASE VerifyInstalled
  BY <1>4 DEF VerifyInstalled, RunBackend, Goto, Fails, End
<1>5. CASE Merge
  BY <1>5 DEF Merge, Candidate, Fails, End, Goto
<1>6. CASE GenerateFromScratch
  BY <1>6 DEF GenerateFromScratch, RunBackend, Goto, Fails, End
<1>7. CASE RenderNew
  BY <1>7 DEF RenderNew, Candidate, Goto, End
<1>8. CASE WriteOutput
  BY <1>8 DEF WriteOutput, Goto, Following, Fails, End
<1>9. CASE NetStop
  BY <1>9 DEF NetStop, Fails, FailsUnchecked, Goto, Following
<1>10. CASE ScStop
  BY <1>10 DEF ScStop, Fails, FailsUnchecked, Goto, Following
<1>11. CASE ScDisable
  BY <1>11 DEF ScDisable, Fails, FailsUnchecked, Goto, Following
<1>12. CASE TaskKill
  BY <1>12 DEF TaskKill, Fails, FailsUnchecked, Goto, Following
<1>13. CASE MoveByRename
  BY <1>13 DEF MoveByRename, Outdate, Goto, Following
<1>14. CASE CopyBegins
  BY <1>14 DEF CopyBegins, Outdate, Goto
<1>15. CASE CopyEnds
  BY <1>15 DEF CopyEnds, Goto
<1>16. CASE UnlinkOutput
  BY <1>16 DEF UnlinkOutput, Goto, Following
<1>17. CASE MoveFails
  BY <1>17 DEF MoveFails, Fails, End
<1>18. CASE Icacls
  BY <1>18 DEF Icacls, Fails, FailsChecked, End, Goto, Following
<1>19. CASE ScDemand
  BY <1>19 DEF ScDemand, Fails, FailsChecked, End, Goto, Following
<1>20. CASE ScStart
  BY <1>20 DEF ScStart, ServiceStarts, Fails, FailsChecked, End
<1>21. CASE Killed
  BY <1>21 DEF Killed, End
<1>22. CASE WindowsUpdate
  BY <1>22 DEF WindowsUpdate
<1>23. CASE DemandStart
  BY <1>23 DEF DemandStart, ServiceStarts
<1>24. CASE UmStarts
  BY <1>24 DEF UmStarts
<1>25. CASE StopCompletes
  BY <1>25 DEF StopCompletes
<1>26. CASE UNCHANGED vars
  BY <1>26
<1> QED
  BY <1>1, <1>2, <1>3, <1>4, <1>5, <1>6, <1>7, <1>8, <1>9, <1>10, <1>11, <1>12,
       <1>13, <1>14, <1>15, <1>16, <1>17, <1>18, <1>19, <1>20, <1>21, <1>22,
       <1>23, <1>24, <1>25, <1>26 DEF Next, Update, Environment

(* The inductive invariant holds in every reachable state.                 *)
LEMMA IInvHolds == Spec => []IInv
BY InitIInv, NextIInv, PTL DEF Spec

(* Type correctness; only a run with --apply, on Windows, gets to the steps*)
(* that write a file or run a command.                                     *)
THEOREM TypeCorrect == Spec => []TypeOK
<1>1. IInv => TypeOK
  BY DEF IInv
<1> QED
  BY <1>1, IInvHolds, PTL

(* Whatever the stop commands do: the service is down and stays down while *)
(* the file is moved, unless disabling or killing it failed.               *)
THEOREM QuietWhileMovingHolds == Spec => []QuietWhileMoving
<1>1. IInv => QuietWhileMoving
  BY DEF IInv, QuietWhileMoving, DisabledWhileApplying, DownWhileApplying, Moving
<1> QED
  BY <1>1, IInvHolds, PTL

(* No service loads an ini a run has left half written behind a service it *)
(* had disabled.                                                           *)
THEOREM NeverServesPartialHolds == Spec => []NeverServesPartial
<1>1. IInv => NeverServesPartial
  BY DEF IInv, PartialIsNotLoaded, NeverServesPartial
<1> QED
  BY <1>1, IInvHolds, PTL

(* Only sc start ends a run as "applied", and only the merge as "uptodate".*)
LEMMA SuccessSteps ==
  ASSUME [Next]_vars
  PROVE  (EndsAs("applied") => ScStart) /\ (EndsAs("uptodate") => Merge)
<1> USE DEF EndsAs, End, Goto, Following
<1>1. CASE \E a \in BOOLEAN : Start(a)
  BY <1>1 DEF Start
<1>2. CASE ReadVersion
  BY <1>2 DEF ReadVersion
<1>3. CASE LookForVersion
  BY <1>3 DEF LookForVersion
<1>4. CASE VerifyInstalled
  BY <1>4 DEF VerifyInstalled, RunBackend
<1>5. CASE Merge
  BY <1>5 DEF Merge, Candidate
<1>6. CASE GenerateFromScratch
  BY <1>6 DEF GenerateFromScratch, RunBackend
<1>7. CASE RenderNew
  BY <1>7 DEF RenderNew, Candidate
<1>8. CASE WriteOutput
  BY <1>8 DEF WriteOutput
<1>9. CASE NetStop
  BY <1>9 DEF NetStop, FailsUnchecked
<1>10. CASE ScStop
  BY <1>10 DEF ScStop, FailsUnchecked
<1>11. CASE ScDisable
  BY <1>11 DEF ScDisable, FailsUnchecked
<1>12. CASE TaskKill
  BY <1>12 DEF TaskKill, FailsUnchecked
<1>13. CASE MoveByRename
  BY <1>13 DEF MoveByRename
<1>14. CASE CopyBegins
  BY <1>14 DEF CopyBegins
<1>15. CASE CopyEnds
  BY <1>15 DEF CopyEnds
<1>16. CASE UnlinkOutput
  BY <1>16 DEF UnlinkOutput
<1>17. CASE MoveFails
  BY <1>17 DEF MoveFails
<1>18. CASE Icacls
  BY <1>18 DEF Icacls, FailsChecked
<1>19. CASE ScDemand
  BY <1>19 DEF ScDemand, FailsChecked
<1>20. CASE ScStart
  BY <1>20 DEF ScStart, FailsChecked
<1>21. CASE Killed
  BY <1>21 DEF Killed
<1>22. CASE WindowsUpdate
  BY <1>22 DEF WindowsUpdate
<1>23. CASE DemandStart
  BY <1>23 DEF DemandStart, ServiceStarts
<1>24. CASE UmStarts
  BY <1>24 DEF UmStarts
<1>25. CASE StopCompletes
  BY <1>25 DEF StopCompletes
<1>26. CASE UNCHANGED vars
  BY <1>26 DEF vars
<1> QED
  BY <1>1, <1>2, <1>3, <1>4, <1>5, <1>6, <1>7, <1>8, <1>9, <1>10, <1>11, <1>12,
       <1>13, <1>14, <1>15, <1>16, <1>17, <1>18, <1>19, <1>20, <1>21, <1>22,
       <1>23, <1>24, <1>25, <1>26 DEF Next, Update, Environment

(* A run that reports success leaves the service running, startable, and   *)
(* with the new text loaded, whatever failed or interfered before.         *)
THEOREM AppliedIsLiveHolds == Spec => AppliedIsLive
<1> DEFINE Live == /\ svc' = "running" /\ start' = "demand" /\ loaded' = "current"
                   /\ iniExists' /\ ini' = new /\ partial' = "no"
<1>1. ASSUME IInv, [Next]_vars, EndsAs("applied") PROVE Live
  <2>1. ScStart
    BY <1>1, SuccessSteps
  <2>2. ServiceStarts /\ UNCHANGED <<ini, iniExists, partial>>
    BY <1>1, <2>1 DEF ScStart, FailsChecked, EndsAs, End, files
  <2>3. start = "demand" /\ iniExists /\ ini = new /\ partial = "no"
    BY <1>1, <2>1 DEF IInv, MovedIsWhole, EnabledAtTheEnd, ScStart
  <2> QED
    BY <2>2, <2>3 DEF ServiceStarts
<1>2. IInv /\ [Next]_vars => [EndsAs("applied") => Live]_vars
  BY <1>1
<1> QED
  BY <1>2, IInvHolds, PTL DEF Spec, AppliedIsLive

-----------------------------------------------------------------------------
(* The texts.  From the write of the temporary file on, a run has a new ini*)
(* for a text without ERROR and with all its keys; what a copy has left of *)
(* it, whatever run it was, is a text without ERROR too.                   *)
InstalledIsClean == ini \in Texts /\ ~HasError(ini)
NewIsClean       == new \in Texts /\ ~HasError(new)
NewCovers        == pc \in Acting => ~HasError(text) /\ Covers(new, text)

TextsInv == IInv /\ InstalledIsClean /\ NewIsClean /\ NewCovers

(* What the assumptions say of the texts; result.text is one of them.      *)
LEMMA TextsAre ==
  ASSUME TypeOK
  PROVE  Template \in Texts /\ text \in Texts /\ Apart(text, Template)
<1>1. Template \in Texts
  BY TextsAssumption DEF IsText, Texts
<1>2. CASE text = <<>>
  <2>1. text \in Texts /\ Headers(text) = {}
    BY <1>2 DEF Texts, Headers
  <2> QED BY <1>1, <2>1 DEF Apart, OneHeaderEach
<1>3. CASE \E v \in Versions : text = BackendText[v]
  <2>1. IsSnippet(text, Template)
    BY <1>3, TextsAssumption
  <2> QED BY <1>1, <2>1 DEF IsSnippet, IsText, Texts, Apart, OneHeaderEach
<1> QED BY <1>2, <1>3 DEF TypeOK, TextType

(* The empty text of a run that has none.                                  *)
LEMMA NoTextIsClean == <<>> \in Texts /\ ~HasError(<<>>)
BY DEF Texts, HasError

(* What is left of a clean text whose copy stops is clean.                 *)
LEMMA TornIsClean ==
  ASSUME NEW doc \in Texts, ~HasError(doc), NEW torn \in TornForms(doc)
  PROVE  torn \in Texts /\ ~HasError(torn)
<1>1. Len(doc) \in Nat /\ DOMAIN doc = 1 .. Len(doc) /\ \A i \in 1 .. Len(doc) : doc[i] \in TextLine
  BY DEF Texts
<1>2. ASSUME NEW n \in 0 .. Len(doc) PROVE
           /\ SubSeq(doc, 1, n) \in Texts /\ Len(SubSeq(doc, 1, n)) = n
           /\ \A i \in 1 .. n : SubSeq(doc, 1, n)[i] = doc[i]
  BY <1>1 DEF Texts
<1>3. ASSUME NEW n \in 0 .. Len(doc) PROVE ~HasError(SubSeq(doc, 1, n))
  <2>1. DOMAIN SubSeq(doc, 1, n) = 1 .. n
    BY <1>2 DEF Texts
  <2> QED BY <1>1, <1>2, <2>1 DEF HasError
<1>4. CASE \E n \in 0 .. Len(doc) - 1 : torn = SubSeq(doc, 1, n)
  BY <1>1, <1>2, <1>3, <1>4
<1>5. CASE \E n \in DOMAIN doc : \E c \in Cuts(doc[n]) : torn = Append(SubSeq(doc, 1, n - 1), c)
  <2>0. PICK n \in 1 .. Len(doc) : \E c \in Cuts(doc[n]) : torn = Append(SubSeq(doc, 1, n - 1), c)
    BY <1>1, <1>5
  <2>1. PICK c \in Cuts(doc[n]) : torn = Append(SubSeq(doc, 1, n - 1), c)
    BY <2>0
  <2>2. n - 1 \in 0 .. Len(doc) /\ (n - 1) + 1 = n
    BY <1>1
  <2>3. c \in TextLine /\ ~(c.kind = "text" /\ c.name = "ERROR")
    <3>1. doc[n] \in TextLine /\ ~(doc[n].kind = "text" /\ doc[n].name = "ERROR")
      BY <1>1 DEF HasError
    <3>2. CASE c = [doc[n] EXCEPT !.eol = FALSE]
      BY <3>1, <3>2 DEF TextLine
    <3>3. CASE c = [Text("cut") EXCEPT !.eol = FALSE]
      BY <3>3 DEF TextLine, Text, Word
    <3>4. CASE c = [Entry(doc[n].name, CutShort) EXCEPT !.eol = FALSE]
      BY <3>1, <3>4 DEF TextLine, Entry, Word, CutShort
    <3> QED BY <3>2, <3>3, <3>4 DEF Cuts
  <2>4. PICK before : before = SubSeq(doc, 1, n - 1)
    OBVIOUS
  <2>5. before \in Texts /\ ~HasError(before) /\ Len(before) = n - 1
    BY <1>2, <1>3, <2>2, <2>4
  <2>6. /\ torn = Append(before, c) /\ torn \in Texts /\ Len(torn) = n /\ DOMAIN torn = 1 .. n
        /\ torn[n] = c /\ \A i \in 1 .. n - 1 : torn[i] = before[i]
    BY <2>1, <2>2, <2>3, <2>4, <2>5 DEF Texts
  <2>7. DOMAIN before = 1 .. n - 1
    BY <2>5 DEF Texts
  <2>8. ASSUME NEW i \in 1 .. n, i # n PROVE i \in 1 .. n - 1
    BY <2>8
  <2> QED BY <2>3, <2>5, <2>6, <2>7, <2>8 DEF HasError
<1> QED BY <1>4, <1>5 DEF TornForms

(* What a step does to the texts: nothing; the run ends; the backend gives *)
(* a text; the merge or the template gives a new ini; a copy begins; the   *)
(* new ini is in place.                                                    *)
KeepsTexts == /\ ini' = ini /\ new' = new /\ text' = text
              /\ pc' \in Acting => pc \in Acting
EndsRun    == ini' = ini /\ new' = <<>> /\ pc' = "idle"
GetsText   == ini' = ini /\ new' = new /\ pc' \in {"merge", "render"}
PutsNew    == ini' = new /\ new' = new /\ text' = text /\ pc \in Moving

LEMMA TextSteps ==
  ASSUME [Next]_vars
  PROVE  KeepsTexts \/ EndsRun \/ GetsText \/ Merge \/ RenderNew \/ CopyBegins \/ PutsNew
<1> USE DEF KeepsTexts, EndsRun, GetsText, PutsNew, Acting, Applying, Moving, Goto, Following,
     vars, files, service, inputs, bounds
<1>1. CASE \E a \in BOOLEAN : Start(a)
  BY <1>1 DEF Start
<1>2. CASE ReadVersion
  BY <1>2 DEF ReadVersion, Fails, End
<1>3. CASE LookForVersion
  BY <1>3 DEF LookForVersion, Fails, End
<1>4. CASE VerifyInstalled
  BY <1>4 DEF VerifyInstalled, RunBackend, Fails, End
<1>5. CASE Merge
  BY <1>5
<1>6. CASE GenerateFromScratch
  BY <1>6 DEF GenerateFromScratch, RunBackend, Fails, End
<1>7. CASE RenderNew
  BY <1>7
<1>8. CASE WriteOutput
  BY <1>8 DEF WriteOutput, Fails, End
<1>9. CASE NetStop
  BY <1>9 DEF NetStop
<1>10. CASE ScStop
  BY <1>10 DEF ScStop
<1>11. CASE ScDisable
  BY <1>11 DEF ScDisable
<1>12. CASE TaskKill
  BY <1>12 DEF TaskKill
<1>13. CASE MoveByRename
  BY <1>13 DEF MoveByRename
<1>14. CASE CopyBegins
  BY <1>14 DEF CopyBegins
<1>15. CASE CopyEnds
  BY <1>15 DEF CopyEnds
<1>16. CASE UnlinkOutput
  BY <1>16 DEF UnlinkOutput
<1>17. CASE MoveFails
  BY <1>17 DEF MoveFails, End
<1>18. CASE Icacls
  BY <1>18 DEF Icacls, FailsChecked, End
<1>19. CASE ScDemand
  BY <1>19 DEF ScDemand, FailsChecked, End
<1>20. CASE ScStart
  BY <1>20 DEF ScStart, FailsChecked, End
<1>21. CASE Killed
  BY <1>21 DEF Killed, End
<1>22. CASE WindowsUpdate
  BY <1>22 DEF WindowsUpdate
<1>23. CASE DemandStart
  BY <1>23 DEF DemandStart
<1>24. CASE UmStarts
  BY <1>24 DEF UmStarts
<1>25. CASE StopCompletes
  BY <1>25 DEF StopCompletes
<1>26. CASE UNCHANGED vars
  BY <1>26
<1> QED
  BY <1>1, <1>2, <1>3, <1>4, <1>5, <1>6, <1>7, <1>8, <1>9, <1>10, <1>11, <1>12,
       <1>13, <1>14, <1>15, <1>16, <1>17, <1>18, <1>19, <1>20, <1>21, <1>22,
       <1>23, <1>24, <1>25, <1>26 DEF Next, Update, Environment

(* A candidate is installed only as it is.                                 *)
LEMMA CandidateIs ==
  ASSUME NEW doc, Candidate(doc)
  PROVE  \/ new' = <<>> /\ pc' = "idle"
         \/ new' = doc /\ text' = text
BY DEF Candidate, End

(* The initial texts are clean.                                            *)
LEMMA InitTexts == Init => TextsInv
<1> SUFFICES ASSUME Init PROVE TextsInv
  OBVIOUS
<1>1. ini = <<>> \/ ini \in InitialInis
  BY DEF Init
<1>2. InstalledIsClean
  BY <1>1, NoTextIsClean, InitialAssumption DEF InstalledIsClean, IsText, Texts
<1>3. NewIsClean /\ NewCovers
  BY NoTextIsClean DEF Init, NewIsClean, NewCovers, Acting, Applying
<1> QED BY <1>2, <1>3, InitIInv DEF TextsInv

(* Every step keeps them clean, and gives a run only a new ini that covers *)
(* its text.                                                               *)
LEMMA NextTexts == TextsInv /\ [Next]_vars => TextsInv'
<1> SUFFICES ASSUME TextsInv, [Next]_vars PROVE TextsInv'
  OBVIOUS
<1>1. IInv' /\ TypeOK
  BY NextIInv DEF TextsInv, IInv
<1>2. ini \in Texts /\ ~HasError(ini) /\ new \in Texts /\ ~HasError(new)
  BY DEF TextsInv, InstalledIsClean, NewIsClean
<1>3. CASE KeepsTexts
  BY <1>1, <1>2, <1>3 DEF KeepsTexts, TextsInv, InstalledIsClean, NewIsClean, NewCovers
<1>4. CASE EndsRun
  BY <1>1, <1>2, <1>4, NoTextIsClean DEF EndsRun, TextsInv, InstalledIsClean, NewIsClean,
       NewCovers, Acting, Applying
<1>5. CASE GetsText
  BY <1>1, <1>2, <1>5 DEF GetsText, TextsInv, InstalledIsClean, NewIsClean, NewCovers, Acting,
       Applying
<1>6. CASE Merge
  <2>1. ini' = ini
    BY <1>6 DEF Merge, files
  <2>2. PICK repaired : repaired = Repair(ini, text, Template)
    OBVIOUS
  <2>3. \/ \E v : End(v)
        \/ ~HasError(text) /\ TemplateHasCodes(text, Template) /\ Candidate(repaired)
    BY <1>6, <2>2 DEF Merge
  <2>4. CASE \E v : End(v)
    BY <1>1, <1>2, <2>1, <2>4, NoTextIsClean DEF End, TextsInv, InstalledIsClean, NewIsClean,
         NewCovers, Acting, Applying
  <2>5. CASE ~HasError(text) /\ TemplateHasCodes(text, Template) /\ Candidate(repaired)
    <3>1. Mended(ini, repaired) /\ Covers(repaired, text)
      BY <1>1, <1>2, <2>2, <2>5, TextsAre, RepairMends
    <3>2. repaired \in Texts /\ ~HasError(repaired)
      BY <1>2, <3>1 DEF Mended
    <3>3. \/ new' = <<>> /\ pc' = "idle"
          \/ new' = repaired /\ text' = text
      BY <2>5, CandidateIs
    <3> QED
      BY <1>1, <1>2, <2>1, <2>5, <3>1, <3>2, <3>3, NoTextIsClean DEF TextsInv, InstalledIsClean,
         NewIsClean, NewCovers, Acting, Applying
  <2> QED BY <2>3, <2>4, <2>5
<1>7. CASE RenderNew
  <2>1. ini' = ini
    BY <1>7 DEF RenderNew, files
  <2>2. PICK rendered : rendered = Render(text, Template)
    OBVIOUS
  <2>3. \/ \E v : End(v)
        \/ TemplateHasCodes(text, Template) /\ ~HasError(rendered) /\ Candidate(rendered)
    BY <1>7, <2>2 DEF RenderNew
  <2>4. CASE \E v : End(v)
    BY <1>1, <1>2, <2>1, <2>4, NoTextIsClean DEF End, TextsInv, InstalledIsClean, NewIsClean,
         NewCovers, Acting, Applying
  <2>5. CASE TemplateHasCodes(text, Template) /\ ~HasError(rendered) /\ Candidate(rendered)
    <3>1. rendered \in Texts /\ Covers(rendered, text) /\ ~HasError(text)
      BY <1>1, <2>2, <2>5, TextsAre, RenderCovers
    <3>2. \/ new' = <<>> /\ pc' = "idle"
          \/ new' = rendered /\ text' = text
      BY <2>5, CandidateIs
    <3> QED
      BY <1>1, <1>2, <2>1, <2>5, <3>1, <3>2, NoTextIsClean DEF TextsInv, InstalledIsClean,
         NewIsClean, NewCovers, Acting, Applying
  <2> QED BY <2>3, <2>4, <2>5
<1>8. CASE CopyBegins
  <2>1. ini' \in TornForms(new) /\ new' = new /\ text' = text /\ pc \in Acting
    BY <1>8 DEF CopyBegins, inputs, Acting, Applying
  <2>2. ini' \in Texts /\ ~HasError(ini')
    BY <1>2, <2>1, TornIsClean
  <2> QED
    BY <1>1, <1>2, <2>1, <2>2 DEF TextsInv, InstalledIsClean, NewIsClean, NewCovers
<1>9. CASE PutsNew
  BY <1>1, <1>2, <1>9 DEF PutsNew, TextsInv, InstalledIsClean, NewIsClean, NewCovers, Acting,
       Applying, Moving
<1> QED BY <1>3, <1>4, <1>5, <1>6, <1>7, <1>8, <1>9, TextSteps

(* No run installs an ERROR line, whatever it finds installed, and whatever*)
(* an earlier run has left of its copy (the two searches for ERROR).       *)
THEOREM NeverInstallsErrorHolds == Spec => []NeverInstallsError
<1>1. TextsInv => NeverInstallsError
  BY DEF TextsInv, InstalledIsClean, NeverInstallsError
<1> QED BY <1>1, InitTexts, NextTexts, PTL DEF Spec

(* Exit code 0 of a run that was to write: the installed file has all keys *)
(* and patch codes of the text, which was free of ERROR, although the file *)
(* is replaced by a rename or a copy and the DLL may be replaced meanwhile.*)
THEOREM SuccessMeansCoveredHolds == Spec => SuccessMeansCovered
<1> DEFINE Covered == ~HasError(text) /\ Covers(ini', text)
<1>1. ASSUME TextsInv, [Next]_vars, EndsAs("applied") PROVE Covered
  <2>1. ScStart
    BY <1>1, SuccessSteps
  <2>2. pc = "sc_start" /\ ini' = ini
    BY <2>1 DEF ScStart, files
  <2>3. ini = new
    BY <1>1, <2>2 DEF TextsInv, IInv, MovedIsWhole
  <2> QED BY <1>1, <2>2, <2>3 DEF TextsInv, NewCovers, Acting, Applying
<1>2. ASSUME TextsInv, [Next]_vars, EndsAs("uptodate") PROVE Covered
  <2>1. Merge
    BY <1>2, SuccessSteps
  <2>2. /\ ini' = ini /\ ~HasError(text) /\ TemplateHasCodes(text, Template)
        /\ Repair(ini, text, Template) = ini
    BY <1>2, <2>1 DEF Merge, files, EndsAs, End, Candidate, Goto
  <2>3. TypeOK /\ ini \in Texts
    BY <1>2 DEF TextsInv, IInv, InstalledIsClean
  <2>4. Covers(ini, text)
    BY <2>2, <2>3, TextsAre, RepairMends
  <2> QED BY <2>2, <2>4
<1>3. TextsInv /\ [Next]_vars => [EndsAs("applied") \/ EndsAs("uptodate") => Covered]_vars
  BY <1>1, <1>2
<1> QED BY <1>3, InitTexts, NextTexts, PTL DEF Spec, SuccessMeansCovered

-----------------------------------------------------------------------------
(* IniRepair: the repair step by step.                                     *)

(* What the assumptions say of the texts.                                  *)
LEMMA InputsAre ==
  /\ TemplateText \in Texts
  /\ \A doc \in InstalledTexts : doc \in Texts /\ LinesEnded(doc)
  /\ \A doc \in BackendTexts :
       doc \in Texts /\ LinesEnded(doc) /\ OneHeaderEach(doc) /\ Apart(doc, TemplateText)
BY InstalledAssumption, BackendAssumption, TemplateAssumption
   DEF IsText, IsSnippet, Texts, OneHeaderEach, Apart

(* The sections the loop has still to visit are generated ones, and all    *)
(* keys of the others are in the text.                                     *)
TodoIsGenerated ==
  \A i \in 1 .. Len(todo) : \E n \in 1 .. Len(GeneratedSections(offset_text)) :
    todo[i] = GeneratedSections(offset_text)[n]
VisitedIsCovered ==
  \A n \in 1 .. Len(GeneratedSections(offset_text)) :
    \/ \E i \in 1 .. Len(todo) : todo[i] = GeneratedSections(offset_text)[n]
    \/ KeysOfSection(GeneratedSections(offset_text)[n])
         \subseteq KeysIn(updated, GeneratedSections(offset_text)[n].name)
DoneIsCovered == phase = "done" => TemplateHasCodes(offset_text, TemplateText) /\ Covers(updated, offset_text)

RepairInv ==
  /\ RepairTypeOK
  /\ installed \in InstalledTexts /\ offset_text \in BackendTexts
  /\ Mended(installed, updated)
  /\ TodoIsGenerated
  /\ VisitedIsCovered
  /\ DoneIsCovered

(* The initial text is the installed one, and every section is to visit.   *)
LEMMA InitRepair == RepairInit => RepairInv
<1> SUFFICES ASSUME RepairInit PROVE RepairInv
  OBVIOUS
<1>1. /\ installed \in InstalledTexts /\ offset_text \in BackendTexts /\ updated = installed
      /\ todo = GeneratedSections(offset_text) /\ phase = "sections"
  BY DEF RepairInit
<1>2. installed \in Texts /\ offset_text \in Texts
  BY <1>1, InputsAre
<1>3. Sections(offset_text, todo)
  BY <1>1, <1>2, GeneratedSectionsAre
<1>4. todo \in Seq(GeneratedSection) /\ Len(todo) \in Nat
  BY <1>3 DEF Sections
<1>5. RepairTypeOK
  BY <1>1, <1>2, <1>4 DEF RepairTypeOK, Texts, GeneratedSection
<1>6. Mended(installed, updated)
  BY <1>1, <1>2, MendedItself
<1> QED BY <1>1, <1>5, <1>6 DEF RepairInv, TodoIsGenerated, VisitedIsCovered, DoneIsCovered

(* What the loop has before it: the next section is a generated one.       *)
LEMMA NextSectionIs ==
  ASSUME RepairInv, todo # <<>>
  PROVE  /\ \E h : SectionOf(offset_text, Head(todo), h)
         /\ Head(todo) = todo[1] /\ 1 \in 1 .. Len(todo)
         /\ Len(todo) \in Nat /\ Len(Tail(todo)) = Len(todo) - 1
         /\ \A i \in 1 .. Len(todo) - 1 : Tail(todo)[i] = todo[i + 1]
         /\ Tail(todo) \in Seq(GeneratedSection)
<1>1. todo \in Seq(GeneratedSection)
  BY DEF RepairInv, RepairTypeOK, GeneratedSection, Texts
<1>2. /\ Head(todo) = todo[1] /\ 1 \in 1 .. Len(todo)
      /\ Len(todo) \in Nat /\ Len(Tail(todo)) = Len(todo) - 1
      /\ \A i \in 1 .. Len(todo) - 1 : Tail(todo)[i] = todo[i + 1]
      /\ Tail(todo) \in Seq(GeneratedSection)
  BY <1>1
<1>3. PICK n \in 1 .. Len(GeneratedSections(offset_text)) : Head(todo) = GeneratedSections(offset_text)[n]
  BY <1>2 DEF RepairInv, TodoIsGenerated
<1>4. offset_text \in Texts
  BY InputsAre DEF RepairInv
<1>5. \E h : SectionOf(offset_text, Head(todo), h)
  BY <1>3, <1>4, GeneratedSectionsAre DEF Sections
<1> QED BY <1>2, <1>5

(* Every step keeps the invariant.                                         *)
LEMMA NextRepair == RepairInv /\ [RepairNext]_repairVars => RepairInv'
<1> SUFFICES ASSUME RepairInv, [RepairNext]_repairVars PROVE RepairInv'
  OBVIOUS
<1>0. installed \in Texts /\ offset_text \in Texts /\ updated \in Texts /\ Mended(installed, updated)
  BY InputsAre DEF RepairInv, Mended
<1>1. CASE RepairNextSection
  <2>1. /\ todo # <<>> /\ phase = "sections" /\ updated' = EnsureSection(updated, Head(todo))
        /\ todo' = Tail(todo) /\ installed' = installed /\ offset_text' = offset_text /\ phase' = phase
    BY <1>1 DEF RepairNextSection
  <2>2. PICK section : section = Head(todo)
    OBVIOUS
  <2>3. /\ \E h : SectionOf(offset_text, section, h)
        /\ section = todo[1] /\ 1 \in 1 .. Len(todo)
        /\ Len(todo) \in Nat /\ Len(todo') = Len(todo) - 1
        /\ \A i \in 1 .. Len(todo) - 1 : todo'[i] = todo[i + 1]
        /\ todo' \in Seq(GeneratedSection)
    BY <2>1, <2>2, NextSectionIs
  <2>4. IsGenerated(section)
    BY <1>0, <2>3, SectionIsGenerated
  <2>5. /\ Mended(updated, updated')
        /\ KeysOfSection(section) \subseteq KeysIn(updated', section.name)
    BY <1>0, <2>1, <2>2, <2>4, EnsureSectionMends
  <2>6. Mended(installed, updated')
    BY <1>0, <2>5, MendedFurther
  <2>7. updated' \in Texts
    BY <2>5 DEF Mended
  <2>8. Len(GeneratedSections(offset_text)) \in Nat
    BY <1>0, GeneratedSectionsAre DEF Sections
  <2>9. RepairTypeOK'
    <3>1. Len(todo) <= Len(GeneratedSections(offset_text))
      BY DEF RepairInv, RepairTypeOK
    <3>2. Len(todo') <= Len(GeneratedSections(offset_text))
      BY <2>3, <2>8, <3>1
    <3>3. {installed', offset_text', updated'} \subseteq Seq(TextLine)
      BY <1>0, <2>1, <2>7 DEF Texts
    <3> QED BY <2>1, <2>3, <3>2, <3>3 DEF RepairInv, RepairTypeOK, GeneratedSection, Texts
  <2>10. \A i \in 1 .. Len(todo') : i + 1 \in 1 .. Len(todo) /\ todo'[i] = todo[i + 1]
    BY <2>3
  <2>11. TodoIsGenerated'
    BY <2>1, <2>10 DEF RepairInv, TodoIsGenerated
  <2>12. VisitedIsCovered'
    <3> SUFFICES ASSUME NEW n \in 1 .. Len(GeneratedSections(offset_text))
                 PROVE  \/ \E i \in 1 .. Len(todo') : todo'[i] = GeneratedSections(offset_text)[n]
                        \/ KeysOfSection(GeneratedSections(offset_text)[n])
                             \subseteq KeysIn(updated', GeneratedSections(offset_text)[n].name)
      BY <2>1 DEF VisitedIsCovered
    <3>1. PICK s : s = GeneratedSections(offset_text)[n]
      OBVIOUS
    <3>2. CASE s = section
      BY <2>5, <3>1, <3>2
    <3>3. CASE \E i \in 1 .. Len(todo) : todo[i] = s /\ s # section
      <4>1. PICK i \in 1 .. Len(todo) : todo[i] = s /\ i # 1
        BY <2>3, <3>3
      <4>2. i - 1 \in 1 .. Len(todo') /\ (i - 1) + 1 = i /\ i - 1 \in 1 .. Len(todo) - 1
        BY <2>3, <4>1
      <4>3. todo'[i - 1] = s
        BY <2>3, <4>1, <4>2
      <4> QED BY <3>1, <4>2, <4>3
    <3>4. CASE KeysOfSection(s) \subseteq KeysIn(updated, s.name)
      BY <2>5, <3>1, <3>4 DEF Mended
    <3> QED BY <3>1, <3>2, <3>3, <3>4 DEF RepairInv, VisitedIsCovered
  <2> QED BY <2>1, <2>6, <2>9, <2>11, <2>12 DEF RepairInv, DoneIsCovered
<1>2. CASE RepairPatchCodes
  <2>1. /\ todo = <<>> /\ TemplateHasCodes(offset_text, TemplateText)
        /\ updated' = EnsureReferencedPatchCodes(updated, offset_text, TemplateText)
        /\ phase' = "done" /\ installed' = installed /\ offset_text' = offset_text /\ todo' = todo
    BY <1>2 DEF RepairPatchCodes
  <2>2. TemplateText \in Texts
    BY InputsAre
  <2>3. /\ Mended(updated, updated')
        /\ ReferencedPatchCodeNames(offset_text) \subseteq KeysIn(updated', "PatchCodes")
    BY <1>0, <2>1, <2>2, EnsureCodesMends
  <2>4. Mended(installed, updated')
    BY <1>0, <2>3, MendedFurther
  <2>5. updated' \in Texts
    BY <2>3 DEF Mended
  <2>6. TodoIsGenerated'
    BY <2>1 DEF RepairInv, TodoIsGenerated
  <2>7. \A n \in 1 .. Len(GeneratedSections(offset_text)) :
          KeysOfSection(GeneratedSections(offset_text)[n])
            \subseteq KeysIn(updated', GeneratedSections(offset_text)[n].name)
    BY <2>1, <2>3 DEF RepairInv, VisitedIsCovered, Mended
  <2>8. VisitedIsCovered'
    BY <2>1, <2>7 DEF VisitedIsCovered
  <2>9. Covers(updated', offset_text)
    BY <1>0, <2>3, <2>7, CoversIs
  <2>10. DoneIsCovered'
    BY <2>1, <2>9 DEF DoneIsCovered
  <2>11. RepairTypeOK'
    BY <2>1, <2>5, <2>9 DEF RepairInv, RepairTypeOK, Texts
  <2> QED BY <2>1, <2>4, <2>6, <2>8, <2>10, <2>11 DEF RepairInv
<1>3. CASE TemplateLacksCode
  BY <1>3 DEF TemplateLacksCode, RepairInv, RepairTypeOK, TodoIsGenerated, VisitedIsCovered, DoneIsCovered
<1>4. CASE UNCHANGED repairVars
  BY <1>4 DEF repairVars, RepairInv, RepairTypeOK, TodoIsGenerated, VisitedIsCovered, DoneIsCovered
<1> QED BY <1>1, <1>2, <1>3, <1>4 DEF RepairNext

(* The repair keeps its variables well typed: what it makes of a text is   *)
(* again a text, and every section it visits is one of entries; and where  *)
(* it returns, it has visited all sections and left no key out.            *)
THEOREM RepairTypeCorrect == RepairSpec => []RepairTypeOK
<1>1. RepairInv => RepairTypeOK
  BY DEF RepairInv
<1> QED BY <1>1, InitRepair, NextRepair, PTL DEF RepairSpec

(* However the file ends and however often it is added to, no line is left *)
(* without its ending in front of another (_ensure_previous_line_ends).    *)
THEOREM LinesNeverRunTogether == RepairSpec => []NoRunOnLines
<1>1. RepairInv => NoRunOnLines
  BY InputsAre DEF RepairInv, Mended, NoRunOnLines
<1> QED BY <1>1, InitRepair, NextRepair, PTL DEF RepairSpec

(* A repaired file needs no repair.                                        *)
THEOREM RepairedIsStable == RepairSpec => []RepairIsIdempotent
<1>1. RepairInv => RepairIsIdempotent
  BY InputsAre, RepairOfCovered DEF RepairInv, Mended, DoneIsCovered, RepairIsIdempotent
<1> QED BY <1>1, InitRepair, NextRepair, PTL DEF RepairSpec

(* A file made from the template is complete, and no repair changes it.    *)
THEOREM RenderedIsComplete == RepairSpec => []RenderNeedsNoRepair
<1>1. RepairInv => RenderNeedsNoRepair
  <2> SUFFICES ASSUME RepairInv, phase = "done",
                      NEW rendered, rendered = Render(offset_text, TemplateText)
               PROVE  /\ LinesEnded(rendered) /\ Covers(rendered, offset_text)
                      /\ Repair(rendered, offset_text, TemplateText) = rendered
    BY DEF RenderNeedsNoRepair
  <2>1. /\ offset_text \in Texts /\ TemplateText \in Texts /\ LinesEnded(offset_text) /\ Apart(offset_text, TemplateText)
        /\ TemplateHasCodes(offset_text, TemplateText)
    BY InputsAre DEF RepairInv, DoneIsCovered
  <2>2. rendered \in Texts /\ Covers(rendered, offset_text) /\ LinesEnded(rendered)
    BY <2>1, RenderCovers
  <2> QED BY <2>1, <2>2, RepairOfCovered
<1> QED BY <1>1, InitRepair, NextRepair, PTL DEF RepairSpec

(* The places InstalledLinesKept looks for: the next line like the next of *)
(* the installed ones, or a place behind the text.                         *)
Found(doc, result, i, previous) ==
  Min({j \in DOMAIN result : j > previous /\ Ended(result[j]) = Ended(doc[i])} \cup {Len(result) + i})
Places(f, doc, result, n) ==
  f = [i \in 0 .. n |-> IF i = 0 THEN 0 ELSE Found(doc, result, i, f[i - 1])]

LEMMA PlacesExist ==
  ASSUME NEW doc, NEW result, NEW n \in Nat PROVE \E f : Places(f, doc, result, n)
<1> DEFINE Lacks == {m \in Nat : ~\E f : Places(f, doc, result, m)}
<1> SUFFICES ASSUME Lacks # {} PROVE FALSE
  OBVIOUS
<1>1. PICK m \in Lacks : \A k \in Lacks : m <= k
  BY LeastIn
<1>2. CASE m = 0
  <2> DEFINE f == [i \in 0 .. 0 |-> 0]
  <2>1. f = [i \in 0 .. 0 |-> IF i = 0 THEN 0 ELSE Found(doc, result, i, f[i - 1])]
    OBVIOUS
  <2>2. Places(f, doc, result, 0)
    BY <2>1 DEF Places
  <2> QED BY <1>1, <1>2, <2>2
<1>3. CASE m # 0
  <2>1. m - 1 \in Nat /\ m - 1 \notin Lacks
    BY <1>1, <1>3
  <2>2. PICK g : Places(g, doc, result, m - 1)
    BY <2>1
  <2> DEFINE f == [i \in 0 .. m |-> IF i = m THEN Found(doc, result, m, g[m - 1]) ELSE g[i]]
  <2>3. ASSUME NEW i \in 0 .. m
        PROVE  f[i] = IF i = 0 THEN 0 ELSE Found(doc, result, i, f[i - 1])
    <3>1. CASE i = m
      <4>1. i # 0 /\ i - 1 \in 0 .. m /\ i - 1 # m
        BY <1>1, <1>3, <3>1
      <4>2. f[i - 1] = g[m - 1] /\ f[i] = Found(doc, result, m, g[m - 1])
        BY <3>1, <4>1
      <4> HIDE DEF f
      <4> QED BY <3>1, <4>1, <4>2
    <3>2. CASE i # m
      <4>1. i \in 0 .. m - 1 /\ f[i] = g[i]
        BY <1>1, <2>1, <3>2
      <4>2. g[i] = IF i = 0 THEN 0 ELSE Found(doc, result, i, g[i - 1])
        BY <2>2, <4>1, Zenon DEF Places
      <4>3. i # 0 => f[i - 1] = g[i - 1]
        BY <1>1, <2>1, <3>2, <4>1
      <4> HIDE DEF f
      <4> QED BY <4>1, <4>2, <4>3
    <3> QED BY <3>1, <3>2
  <2>4. f = [i \in 0 .. m |-> f[i]]
    OBVIOUS
  <2>5. Places(f, doc, result, m)
    <3> HIDE DEF f
    <3> QED BY <2>3, <2>4, Zenon DEF Places
  <2> QED BY <1>1, <2>5
<1> QED BY <1>2, <1>3

(* The search succeeds where the lines have been kept.                     *)
LEMMA PlacesFound ==
  ASSUME NEW doc \in Texts, NEW result \in Texts, Kept(doc, result),
         NEW f, Places(f, doc, result, Len(doc))
  PROVE  f[Len(doc)] <= Len(result)
<1>1. PICK n, l : n = Len(doc) /\ l = Len(result)
  OBVIOUS
<1>2. n \in Nat /\ l \in Nat /\ DOMAIN result = 1 .. l
  BY <1>1, TextIs
<1>3. PICK g \in [1 .. n -> 1 .. l] :
        /\ \A i \in 1 .. n : Ended(result[g[i]]) = Ended(doc[i])
        /\ \A i, j \in 1 .. n : i < j => g[i] < g[j]
  BY <1>1 DEF Kept
<1>4. ASSUME NEW i \in 0 .. n PROVE f[i] = IF i = 0 THEN 0 ELSE Found(doc, result, i, f[i - 1])
  <2>1. f = [k \in 0 .. n |-> IF k = 0 THEN 0 ELSE Found(doc, result, k, f[k - 1])]
    BY <1>1, Zenon DEF Places
  <2> QED BY <2>1, Zenon
<1> DEFINE Good(i) == f[i] \in Nat /\ f[i] <= IF i = 0 THEN 0 ELSE g[i]
           Bad == {i \in 0 .. n : ~Good(i)}
<1>5. Good(0)
  BY <1>2, <1>4
<1>6. ASSUME NEW i \in 1 .. n, Good(i - 1) PROVE Good(i)
  <2>1. PICK p : p = f[i - 1]
    OBVIOUS
  <2>2. PICK S : S = {j \in 1 .. l : j > p /\ Ended(result[j]) = Ended(doc[i])} \cup {l + i}
    OBVIOUS
  <2>3. f[i] = Min(S)
    <3>1. f[i] = Found(doc, result, i, p)
      BY <1>2, <1>4, <2>1
    <3>2. S = {j \in DOMAIN result : j > p /\ Ended(result[j]) = Ended(doc[i])} \cup {Len(result) + i}
      BY <1>1, <1>2, <2>2
    <3> QED BY <3>1, <3>2, Zenon DEF Found
  <2>4. p \in Nat /\ p < g[i] /\ g[i] \in 1 .. l
    <3>1. CASE i = 1
      BY <1>2, <1>3, <1>6, <2>1, <3>1
    <3>2. CASE i # 1
      <4>1. i - 1 \in 1 .. n /\ i - 1 < i /\ i - 1 # 0
        BY <1>2, <3>2
      <4>2. g[i - 1] < g[i] /\ g[i - 1] \in 1 .. l /\ g[i] \in 1 .. l
        BY <1>3, <4>1
      <4>3. p \in Nat /\ p <= g[i - 1]
        BY <1>6, <2>1, <4>1
      <4> QED BY <1>2, <4>2, <4>3
    <3> QED BY <3>1, <3>2
  <2>5. g[i] \in S
    BY <1>3, <2>2, <2>4
  <2>6. S \in SUBSET Nat /\ S # {}
    BY <1>2, <2>2
  <2>7. Min(S) \in Nat /\ Min(S) <= g[i]
    BY <2>5, <2>6, LeastIsMin
  <2> QED BY <1>2, <2>3, <2>7
<1>7. \A i \in 0 .. n : Good(i)
  <2> HIDE DEF Good
  <2> SUFFICES ASSUME Bad # {} PROVE FALSE
    OBVIOUS
  <2>0. Bad \in SUBSET Nat
    BY <1>2
  <2>1. PICK m \in Bad : \A k \in Bad : m <= k
    BY <2>0, LeastIn
  <2>2. m # 0 /\ m \in 1 .. n
    BY <1>2, <1>5, <2>1
  <2>3. m - 1 \in 0 .. n /\ m - 1 \notin Bad
    BY <1>2, <2>1, <2>2
  <2> QED BY <1>6, <2>1, <2>2, <2>3
<1>8. f[n] \in Nat /\ f[n] <= IF n = 0 THEN 0 ELSE g[n]
  BY <1>2, <1>7
<1>9. n # 0 => g[n] \in 1 .. l
  BY <1>2, <1>3
<1> QED BY <1>1, <1>2, <1>8, <1>9

(* The repair deletes and reorders nothing.                                *)
THEOREM InstalledLinesStay == RepairSpec => []InstalledLinesKept
<1>1. RepairInv => InstalledLinesKept
  <2> SUFFICES ASSUME RepairInv PROVE InstalledLinesKept
    OBVIOUS
  <2>1. installed \in Texts /\ updated \in Texts /\ Kept(installed, updated) /\ Len(installed) \in Nat
    BY TextIs DEF RepairInv, Mended
  <2> DEFINE place[i \in 0 .. Len(installed)] ==
               IF i = 0 THEN 0
               ELSE LET previous == place[i - 1]
                    IN  Min({j \in DOMAIN updated : j > previous
                               /\ Ended(updated[j]) = Ended(installed[i])}
                           \cup {Len(updated) + i})
  <2>2. InstalledLinesKept <=> place[Len(installed)] <= Len(updated)
    BY DEF InstalledLinesKept
  <2>3. place = CHOOSE f : Places(f, installed, updated, Len(installed))
    BY Zenon DEF place, Places, Found
  <2>4. \E f : Places(f, installed, updated, Len(installed))
    BY <2>1, PlacesExist
  <2>5. Places(place, installed, updated, Len(installed))
    <3> HIDE DEF place
    <3> QED BY <2>3, <2>4, Zenon
  <2> HIDE DEF place
  <2> QED BY <2>1, <2>2, <2>5, PlacesFound
<1> QED BY <1>1, InitRepair, NextRepair, PTL DEF RepairSpec

-----------------------------------------------------------------------------
(* The line-wise repair implements the store that is only added to.        *)

(* What one step of the loop adds is wanted.                               *)
LEMMA SectionStepAdds ==
  ASSUME RepairInv, phase = "sections", todo # <<>>, NEW result, result = EnsureSection(updated, Head(todo))
  PROVE  result \in Texts /\ View(updated) \subseteq View(result) /\ View(result) \ View(updated) \subseteq View(offset_text)
<1>1. updated \in Texts /\ offset_text \in Texts /\ OneHeaderEach(offset_text)
  BY InputsAre DEF RepairInv, Mended
<1>2. PICK section, h : section = Head(todo) /\ SectionOf(offset_text, section, h)
  BY NextSectionIs
<1>3. /\ IsGenerated(section)
      /\ \A i : FirstLine(section.lines, i) =>
                  Setting(section.name, section.lines[i]) \in View(offset_text)
  BY <1>1, <1>2, SectionSeen
<1>4. PICK lines : Ensured(updated, result, section, lines)
  BY <1>1, <1>2, <1>3, EnsureSectionSupplies
<1>5. /\ Supplied(updated, result, section.name, lines)
      /\ \A i : FirstLine(lines, i) =>
           \E j : FirstLine(section.lines, j) /\ Says(lines[i], section.lines[j])
  BY <1>4 DEF Ensured
<1>6. ASSUME NEW i, FirstLine(lines, i) PROVE Setting(section.name, lines[i]) \in View(offset_text)
  <2>1. PICK j : FirstLine(section.lines, j) /\ Says(lines[i], section.lines[j])
    BY <1>5, <1>6
  <2>2. Setting(section.name, lines[i]) = Setting(section.name, section.lines[j])
    BY <2>1 DEF Says, Setting
  <2> QED BY <1>3, <2>1, <2>2
<1>7. \A s : s \in View(result) <=>
        \/ s \in View(updated)
        \/ \E i : FirstLine(lines, i) /\ s = Setting(section.name, lines[i])
  BY <1>5, SuppliedView
<1>8. result \in Texts
  BY <1>5 DEF Supplied
<1> QED BY <1>6, <1>7, <1>8

(* So is what the last step adds.                                          *)
LEMMA CodesStepAdds ==
  ASSUME RepairInv, NEW result, result = EnsureReferencedPatchCodes(updated, offset_text, TemplateText)
  PROVE  result \in Texts /\ View(updated) \subseteq View(result) /\ View(result) \ View(updated) \subseteq Wanted
<1>1. updated \in Texts /\ TemplateText \in Texts
  BY InputsAre DEF RepairInv, Mended
<1>2. PICK lines : Coded(updated, result, offset_text, TemplateText, lines)
  BY <1>1, EnsureReferencedPatchCodesSupplies
<1>3. /\ Supplied(updated, result, "PatchCodes", lines)
      /\ {lines[i].name : i \in 1 .. Len(lines)}
           = (ReferencedPatchCodeNames(offset_text) \cap KeysIn(TemplateText, "PatchCodes"))
               \ KeysIn(updated, "PatchCodes")
      /\ \A i : FirstLine(lines, i) =>
           \E j \in 1 .. Len(TemplateText) :
             FirstOf(TemplateText, "PatchCodes", j) /\ Says(lines[i], TemplateText[j])
  BY <1>2 DEF Coded
<1>4. ASSUME NEW i, FirstLine(lines, i) PROVE Setting("PatchCodes", lines[i]) \in Wanted
  <2>1. PICK j \in 1 .. Len(TemplateText) :
          FirstOf(TemplateText, "PatchCodes", j) /\ Says(lines[i], TemplateText[j])
    BY <1>3, <1>4
  <2>2. Setting("PatchCodes", TemplateText[j]) \in View(TemplateText)
    BY <1>1, <2>1, ViewIs
  <2>3. Setting("PatchCodes", lines[i]) = Setting("PatchCodes", TemplateText[j])
    BY <2>1 DEF Says, Setting
  <2>4. i \in 1 .. Len(lines)
    BY <1>4 DEF FirstLine
  <2>5. lines[i].name \in ReferencedPatchCodeNames(offset_text)
    BY <1>3, <2>4
  <2>6. /\ Setting("PatchCodes", lines[i]).section = "PatchCodes"
        /\ Setting("PatchCodes", lines[i]).key = lines[i].name
    BY DEF Setting
  <2> QED BY <2>2, <2>3, <2>5, <2>6 DEF Wanted
<1>5. \A s : s \in View(result) <=>
        \/ s \in View(updated)
        \/ \E i : FirstLine(lines, i) /\ s = Setting("PatchCodes", lines[i])
  BY <1>3, SuppliedView
<1>6. result \in Texts
  BY <1>3 DEF Supplied
<1> QED BY <1>4, <1>5, <1>6

(* A text that covers the generated one holds every key that is wanted.    *)
LEMMA CoveredHasWanted ==
  ASSUME RepairInv, NEW result \in Texts, Covers(result, offset_text)
  PROVE  \A s \in Wanted : s.key \in KeysIn(result, s.section)
<1>1. offset_text \in Texts /\ OneHeaderEach(offset_text)
  BY InputsAre DEF RepairInv
<1>2. PICK all, n : all = GeneratedSections(offset_text) /\ n = Len(all)
  OBVIOUS
<1>3. /\ \A i \in 1 .. n : KeysOfSection(all[i]) \subseteq KeysIn(result, all[i].name)
      /\ ReferencedPatchCodeNames(offset_text) \subseteq KeysIn(result, "PatchCodes")
  BY <1>1, <1>2, CoversIs
<1>4. ASSUME NEW s \in View(offset_text) PROVE s.key \in KeysIn(result, s.section)
  <2>1. PICK m : m = s.section
    OBVIOUS
  <2>2. s.key \in KeysIn(offset_text, m)
    BY <1>1, <2>1, ViewKeys
  <2>3. PICK i \in 1 .. Len(offset_text) : InSection(offset_text, m, i)
    BY <1>1, <2>2, KeysAre
  <2>4. PICK t \in 1 .. Len(offset_text) : Opens(offset_text, m, t)
    BY <2>3 DEF InSection
  <2>5. t \in Headers(offset_text) /\ offset_text[t].name = m
    BY <2>4 DEF Opens, HeadersOf
  <2>6. PICK k \in 1 .. n : SectionOf(offset_text, all[k], t)
    BY <1>1, <1>2, <2>5, GeneratedSectionsAre DEF Sections
  <2>7. all[k].name = m /\ KeysOfSection(all[k]) = KeysIn(offset_text, m)
    BY <1>1, <2>5, <2>6, SectionSeen DEF SectionOf
  <2> QED BY <1>3, <2>1, <2>2, <2>6, <2>7
<1>5. ASSUME NEW s, s.section = "PatchCodes", s.key \in ReferencedPatchCodeNames(offset_text)
      PROVE  s.key \in KeysIn(result, s.section)
  BY <1>3, <1>5
<1> QED BY <1>4, <1>5 DEF Wanted

LEMMA KeysHeld ==
  ASSUME NEW result \in Texts, \A s \in Wanted : s.key \in KeysIn(result, s.section)
  PROVE  Abstract!KeysOf(Wanted) \subseteq Abstract!KeysOf(View(result))
<1>1. ASSUME NEW s \in Wanted PROVE \E t \in View(result) : t.section = s.section /\ t.key = s.key
  BY ViewKeys
<1> QED BY <1>1 DEF Abstract!KeysOf

LEMMA ViewIsFunctional == ASSUME NEW doc \in Texts PROVE Abstract!IsFunctional(View(doc))
BY ViewFunctional DEF Abstract!IsFunctional

(* Every step of the repair is an addition to the store, the giving up, or *)
(* no step of it.                                                          *)
LEMMA StepRefines ==
  ASSUME RepairInv, RepairInv', [RepairNext]_repairVars
  PROVE  [Abstract!Add \/ Abstract!GiveUp]_<<View(updated), Wanted,
                                            IF phase = "sections" THEN "open" ELSE phase>>
<1>1. updated \in Texts /\ updated' \in Texts
  BY DEF RepairInv, Mended
<1>2. Abstract!IsFunctional(View(updated'))
  BY <1>1, ViewIsFunctional
<1>3. CASE RepairNextSection
  <2>1. /\ todo # <<>> /\ phase = "sections" /\ phase' = "sections" /\ offset_text' = offset_text
        /\ updated' = EnsureSection(updated, Head(todo))
    BY <1>3 DEF RepairNextSection
  <2>2. View(updated) \subseteq View(updated') /\ View(updated') \ View(updated) \subseteq View(offset_text)
    BY <2>1, SectionStepAdds
  <2>3. View(offset_text) \subseteq Wanted /\ Wanted' = Wanted
    BY <2>1 DEF Wanted
  <2>4. Abstract!Add
    BY <1>2, <2>1, <2>2, <2>3 DEF Abstract!Add
  <2> QED BY <2>4
<1>4. CASE RepairPatchCodes
  <2>1. /\ phase = "sections" /\ phase' = "done" /\ offset_text' = offset_text
        /\ updated' = EnsureReferencedPatchCodes(updated, offset_text, TemplateText)
    BY <1>4 DEF RepairPatchCodes
  <2>2. View(updated) \subseteq View(updated') /\ View(updated') \ View(updated) \subseteq Wanted
    BY <2>1, CodesStepAdds
  <2>3. Covers(updated', offset_text)
    BY <2>1 DEF RepairInv, DoneIsCovered
  <2>4. Abstract!KeysOf(Wanted) \subseteq Abstract!KeysOf(View(updated'))
    BY <1>1, <2>3, CoveredHasWanted, KeysHeld
  <2>5. Wanted' = Wanted
    BY <2>1 DEF Wanted
  <2>6. Abstract!Add
    BY <1>2, <2>1, <2>2, <2>4, <2>5 DEF Abstract!Add
  <2> QED BY <2>6
<1>5. CASE TemplateLacksCode
  <2>1. phase = "sections" /\ phase' = "raised" /\ offset_text' = offset_text /\ updated' = updated
    BY <1>5 DEF TemplateLacksCode
  <2>2. Abstract!GiveUp
    BY <2>1 DEF Abstract!GiveUp, Wanted
  <2> QED BY <2>2
<1>6. CASE UNCHANGED repairVars
  BY <1>6 DEF repairVars, Wanted
<1> QED BY <1>3, <1>4, <1>5, <1>6 DEF RepairNext

(* The repair overwrites and hides no setting of the installed file, adds  *)
(* only wanted ones, and ends with all of them readable.                   *)
THEOREM RepairIsAStore == RepairSpec => ImplementsKeyStore
<1>1. RepairInit => Abstract!Init
  <2> SUFFICES ASSUME RepairInit PROVE Abstract!Init
    OBVIOUS
  <2>1. updated \in Texts /\ phase = "sections"
    BY InputsAre DEF RepairInit
  <2>2. Abstract!IsFunctional(View(updated))
    BY <2>1, ViewIsFunctional
  <2> QED BY <2>1, <2>2 DEF Abstract!Init
<1>2. RepairInv /\ RepairInv' /\ [RepairNext]_repairVars
        => [Abstract!Add \/ Abstract!GiveUp]_<<View(updated), Wanted,
                                              IF phase = "sections" THEN "open" ELSE phase>>
  BY StepRefines
<1> QED BY <1>1, <1>2, InitRepair, NextRepair, PTL DEF RepairSpec, ImplementsKeyStore, Abstract!Spec
=============================================================================
