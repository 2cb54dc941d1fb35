------------------------------ MODULE DbgHelp ------------------------------
(***************************************************************************)
(* symbols.find_offsets called by several threads of one process.  DbgHelp *)
(* keeps ONE set of options and, for the handle of the current process, ONE*)
(* symbol session; every symbol lookup answers from whatever module and    *)
(* options are in force at that moment.  _DBGHELP_LOCK and the two with    *)
(* blocks have to keep the callers apart, through failures of every call.  *)
(***************************************************************************)
CONSTANTS Threads,  \* callers of find_offsets
          Images,   \* termsrv.dll files
          None      \* no thread, no image

ASSUME NoneAssumption == None \notin Threads /\ None \notin Images

VARIABLES
  pc,       \* pc[t]: the next step of thread t in find_offsets
  image,    \* image[t]: the file of t's call
  answers,  \* answers[t]: the <<step, module, options>> t's lookups were answered in
  outcome,  \* outcome[t]: "none" yet, "lines" returned or exception "raised"
  lock,     \* _DBGHELP_LOCK: the thread that holds it, or None
  session,  \* DbgHelp: the thread whose SymInitializeW is in force, or None
  options,  \* DbgHelp: "other", "publics" (PUBLICS_ONLY) or "undname" (UNDNAME)
  loaded    \* DbgHelp: the image whose symbols are loaded, or None

caller  == <<image, answers, outcome>>
dbghelp == <<session, options, loaded>>
vars    == <<pc, caller, lock, dbghelp>>

InBody == {"index", "find", "load", "imports", "set_options", "lookups"}
Locked == {"construct", "enter", "initialize", "exit", "release"} \cup InBody
ProgramCounters == {"idle", "acquire"} \cup Locked

Init ==
  /\ pc = [t \in Threads |-> "idle"]
  /\ image = [t \in Threads |-> None]
  /\ answers = [t \in Threads |-> {}]
  /\ outcome = [t \in Threads |-> "none"]
  /\ lock = None
  /\ session = None /\ options = "other" /\ loaded = None

Goto(t, p)    == pc' = [pc EXCEPT ![t] = p]
Outcome(t, o) == outcome' = [outcome EXCEPT ![t] = o]

(* A call: image = PEImage(path), which may raise before anything is taken.*)
Call(t) ==
  /\ pc[t] = "idle"
  /\ \E i \in Images : image' = [image EXCEPT ![t] = i]
  /\ answers' = [answers EXCEPT ![t] = {}]
  /\ \/ Goto(t, "acquire") /\ Outcome(t, "none")
     \/ Outcome(t, "raised") /\ UNCHANGED pc
  /\ UNCHANGED <<lock, dbghelp>>

(* Fault: find_offsets does not take the lock.                             *)
AcquireNothing(t) ==
  /\ pc[t] = "acquire"
  /\ Goto(t, "construct")
  /\ UNCHANGED <<caller, lock, dbghelp>>

(* with _DBGHELP_LOCK                                                      *)
Acquire(t) ==
  /\ pc[t] = "acquire" /\ lock = None
  /\ lock' = t
  /\ Goto(t, "construct")
  /\ UNCHANGED <<caller, dbghelp>>

(* DbgHelpSession(): BackendUnavailable when the DLL or an export is       *)
(* missing.  Only the lock is held.                                        *)
Construct(t) ==
  /\ pc[t] = "construct"
  /\ \/ Goto(t, "enter") /\ UNCHANGED outcome
     \/ Goto(t, "release") /\ Outcome(t, "raised")
  /\ UNCHANGED <<image, answers, lock, dbghelp>>

(* __enter__, SymSetOptions(SYMOPT_DEBUG | SYMOPT_PUBLICS_ONLY)            *)
Enter(t) ==
  /\ pc[t] = "enter"
  /\ options' = "publics"
  /\ Goto(t, "initialize")
  /\ UNCHANGED <<caller, lock, session, loaded>>

(* Fault: the failure of SymInitializeW is not raised.                     *)
InitializeSilently(t) ==
  /\ pc[t] = "initialize"
  /\ \/ session = None /\ session' = t /\ Goto(t, "index")
     \/ Goto(t, "release") /\ UNCHANGED session
  /\ UNCHANGED <<caller, lock, options, loaded>>

(* __enter__, SymInitializeW: DbgHelp refuses a second session.  When it   *)
(* fails __enter__ raises, and __exit__ is not called.                     *)
Initialize(t) ==
  /\ pc[t] = "initialize"
  /\ \/ /\ session = None
        /\ session' = t
        /\ Goto(t, "index") /\ UNCHANGED outcome
     \/ Goto(t, "release") /\ Outcome(t, "raised") /\ UNCHANGED session
  /\ UNCHANGED <<image, answers, lock, options, loaded>>

(* An exception in the body of the with block leads to __exit__.           *)
RaiseInBody(t) ==
  /\ pc[t] \in InBody
  /\ Goto(t, "exit")
  /\ Outcome(t, "raised")
  /\ UNCHANGED <<image, answers, lock, dbghelp>>

(* load_module_symbols: SymSrvGetFileIndexInfoW, SymFindFileInPathW, ...   *)
FindPdb(t) ==
  /\ \/ pc[t] = "index" /\ Goto(t, "find")
     \/ pc[t] = "find" /\ Goto(t, "load")
  /\ UNCHANGED <<caller, lock, dbghelp>>

(* ... SymLoadModuleExW.                                                   *)
LoadModule(t) ==
  /\ pc[t] = "load"
  /\ loaded' = image[t]
  /\ Goto(t, "imports")
  /\ UNCHANGED <<caller, lock, session, options>>

(* SymFromNameW, whether it finds the name or not.                         *)
Lookup(t) ==
  /\ answers' = [answers EXCEPT ![t] = @ \cup {<<pc[t], loaded, options>>}]
  /\ UNCHANGED <<image, lock, dbghelp>>

(* SymbolFinder.run: the __imp_ names are looked up while the decorated    *)
(* public names are in force.                                              *)
LookupImports(t) ==
  /\ pc[t] = "imports"
  /\ Lookup(t)
  /\ Goto(t, "set_options")
  /\ UNCHANGED outcome

(* self.session.set_options(SYMOPT_DEBUG | SYMOPT_UNDNAME)                 *)
SetOptions(t) ==
  /\ pc[t] = "set_options"
  /\ options' = "undname"
  /\ Goto(t, "lookups")
  /\ UNCHANGED <<caller, lock, session, loaded>>

(* Every other name is looked up undecorated.                              *)
LookupName(t) ==
  /\ pc[t] = "lookups"
  /\ Lookup(t)
  /\ UNCHANGED <<pc, outcome>>

(* run() returns its lines; it looks up CDefPolicy::Query on every path.   *)
Finish(t) ==
  /\ pc[t] = "lookups" /\ \E a \in answers[t] : a[1] = "lookups"
  /\ Goto(t, "exit")
  /\ Outcome(t, "lines")
  /\ UNCHANGED <<image, answers, lock, dbghelp>>

(* Fault: only a body that has raised nothing is cleaned up.               *)
ExitOnSuccess(t) ==
  /\ pc[t] = "exit"
  /\ IF outcome[t] = "lines" THEN session' = None /\ loaded' = None
                             ELSE UNCHANGED <<session, loaded>>
  /\ Goto(t, "release")
  /\ UNCHANGED <<caller, lock, options>>

(* __exit__, SymCleanup; self._initialized holds in every body.            *)
Exit(t) ==
  /\ pc[t] = "exit"
  /\ session' = None /\ loaded' = None
  /\ Goto(t, "release")
  /\ UNCHANGED <<caller, lock, options>>

(* Fault: an exception passes the lock without releasing it.               *)
ReleaseOnSuccess(t) ==
  /\ pc[t] = "release"
  /\ lock' = IF outcome[t] = "lines" THEN None ELSE lock
  /\ Goto(t, "idle")
  /\ UNCHANGED <<caller, dbghelp>>

(* The end of with _DBGHELP_LOCK, for a result and for an exception.       *)
Release(t) ==
  /\ pc[t] = "release"
  /\ lock' = None
  /\ Goto(t, "idle")
  /\ UNCHANGED <<caller, dbghelp>>

Step(t) ==
  \/ Construct(t) \/ Enter(t) \/ Initialize(t) \/ RaiseInBody(t)
  \/ FindPdb(t) \/ LoadModule(t) \/ LookupImports(t) \/ SetOptions(t)
  \/ LookupName(t) \/ Finish(t) \/ Exit(t) \/ Release(t)

Next == \E t \in Threads : Call(t) \/ Acquire(t) \/ Step(t)

Spec == Init /\ [][Next]_vars

(* A thread that holds the lock goes on: the DbgHelp calls return, the     *)
(* lookups come to an end.  Nothing is assumed of who gets the lock.       *)
FairSpec == Spec /\ \A t \in Threads : WF_vars(Step(t))

-----------------------------------------------------------------------------
(* Every variable holds a value of its type, and a call is left with a     *)
(* result or an exception.                                                 *)
TypeOK ==
  /\ pc \in [Threads -> ProgramCounters]
  /\ image \in [Threads -> Images \cup {None}]
  /\ answers \in [Threads -> 
       SUBSET ({"imports", "lookups"} \X (Images \cup {None}) \X {"other", "publics", "undname"})]
  /\ outcome \in [Threads -> {"none", "lines", "raised"}]
  /\ lock \in Threads \cup {None}
  /\ session \in Threads \cup {None}
  /\ options \in {"other", "publics", "undname"}
  /\ loaded \in Images \cup {None}
  /\ \A t \in Threads : pc[t] \in {"exit", "release"} => outcome[t] # "none"

(* Every lookup is answered from the symbols of the caller's own file and  *)
(* under the options it was written for - the imports among the decorated  *)
(* public names, the rest undecorated - whatever other callers do between  *)
(* the step that sets the options and the one that relies on them.         *)
OwnAnswers(t) == {<<"imports", image[t], "publics">>, <<"lookups", image[t], "undname">>}
AnswersAreOwn ==
  \A t \in Threads :
    /\ answers[t] \subseteq OwnAnswers(t)
    /\ outcome[t] = "lines" => answers[t] = OwnAnswers(t)

(* Whatever raises, and where: when no thread holds the lock no session is *)
(* left behind, so the next SymInitializeW is not refused for it, and no   *)
(* module is left for the next caller's lookups to be answered from.       *)
CleanWhenUnlocked == lock = None => session = None /\ loaded = None

(* A session is refused only for what DbgHelp itself finds wrong: no caller*)
(* comes to SymInitializeW while a session of another is open.             *)
NeverRefused == \A t \in Threads : pc[t] = "initialize" => session = None

(* No exception leaves the lock taken: it is always free again.            *)
LockIsReleased == (lock # None) ~> (lock = None)
=============================================================================
