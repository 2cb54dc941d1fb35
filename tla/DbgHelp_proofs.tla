---------------------------- MODULE DbgHelp_proofs ----------------------------
(***************************************************************************)
(* Proofs about DbgHelp, for any set of threads and files.                 *)
(***************************************************************************)
EXTENDS DbgHelp, TLAPS

(* The lock is held by exactly the threads between Acquire and Release.    *)
LockInv == \A t \in Threads : pc[t] \in Locked <=> lock = t

(* The session is open from a thread's Initialize to its Exit.             *)
HasSession == InBody \cup {"exit"}
SessionInv ==
  /\ \A t \in Threads : pc[t] \in HasSession <=> session = t
  /\ session = None => loaded = None

(* What is in force when the thread that holds the lock looks names up.    *)
InForce(t) ==
  /\ pc[t] \in {"imports", "set_options", "lookups"} => loaded = image[t]
  /\ pc[t] \in InBody \cup {"initialize"} =>
       options = IF pc[t] = "lookups" THEN "undname" ELSE "publics"
ForceInv == \A t \in Threads : InForce(t)

(* The answers a thread has had so far, and what its outcome says of them. *)
Import(t) == <<"imports", image[t], "publics">>
Answered(t) ==
  /\ answers[t] \subseteq OwnAnswers(t)
  /\ pc[t] \in {"set_options", "lookups"} => Import(t) \in answers[t]
  /\ outcome[t] = "lines" => answers[t] = OwnAnswers(t)
  /\ pc[t] \in ProgramCounters \ {"idle", "exit", "release"} => outcome[t] = "none"
AnsweredInv == \A t \in Threads : Answered(t)

IInv == TypeOK /\ LockInv /\ SessionInv /\ ForceInv /\ AnsweredInv

(* The initial states satisfy the invariant: no caller, no session.        *)
LEMMA InitIInv == Init => IInv
BY NoneAssumption
   DEF Init, IInv, TypeOK, LockInv, SessionInv, HasSession, ForceInv, InForce,
        AnsweredInv,
       Answered, Import, OwnAnswers, ProgramCounters, Locked, InBody

(* Every step keeps the types.                                             *)
LEMMA NextTypeOK == IInv /\ [Next]_vars => TypeOK'
<1> SUFFICES ASSUME IInv, NEW t \in Threads, Call(t) \/ Acquire(t) \/ Step(t) PROVE
     TypeOK'
  <2>1. CASE UNCHANGED vars
    BY <2>1 DEF IInv, TypeOK, ProgramCounters, Locked, InBody, vars, caller, dbghelp
  <2> QED
    BY <2>1 DEF Next
<1> USE NoneAssumption DEF IInv, TypeOK, ProgramCounters, Locked, InBody, caller,
     dbghelp
<1>1. CASE Call(t)
  BY <1>1 DEF Call, Goto, Outcome
<1>2. CASE Acquire(t)
  BY <1>2 DEF Acquire, Goto
<1>3. CASE Construct(t)
  BY <1>3 DEF Construct, Goto, Outcome
<1>4. CASE Enter(t)
  BY <1>4 DEF Enter, Goto
<1>5. CASE Initialize(t)
  BY <1>5 DEF Initialize, Goto, Outcome
<1>6. CASE RaiseInBody(t)
  BY <1>6 DEF RaiseInBody, Goto, Outcome
<1>7. CASE FindPdb(t)
  BY <1>7 DEF FindPdb, Goto
<1>8. CASE LoadModule(t)
  BY <1>8 DEF LoadModule, Goto
<1>9. CASE LookupImports(t)
  BY <1>9 DEF LookupImports, Lookup, Goto
<1>10. CASE SetOptions(t)
  BY <1>10 DEF SetOptions, Goto
<1>11. CASE LookupName(t)
  BY <1>11 DEF LookupName, Lookup
<1>12. CASE Finish(t)
  BY <1>12 DEF Finish, Goto, Outcome
<1>13. CASE Exit(t)
  BY <1>13 DEF Exit, Goto
<1>14. CASE Release(t)
  BY <1>14 DEF Release, Goto
<1> QED
  BY <1>1, <1>2, <1>3, <1>4, <1>5, <1>6, <1>7, <1>8, <1>9, <1>10, <1>11, <1>12, <1>13,
       <1>14 DEF Step

(* Every step keeps the lock with the one thread inside the with block.    *)
LEMMA NextLockInv == IInv /\ [Next]_vars => LockInv'
<1> SUFFICES ASSUME IInv, NEW t \in Threads, Call(t) \/ Acquire(t) \/ Step(t) PROVE
     LockInv'
  <2>1. CASE UNCHANGED vars
    BY <2>1 DEF IInv, TypeOK, LockInv, Locked, InBody, vars, caller, dbghelp
  <2> QED
    BY <2>1 DEF Next
<1> USE NoneAssumption DEF IInv, TypeOK, LockInv, Locked, InBody, caller, dbghelp
<1>1. CASE Call(t)
  BY <1>1 DEF Call, Goto, Outcome
<1>2. CASE Acquire(t)
  BY <1>2 DEF Acquire, Goto
<1>3. CASE Construct(t)
  BY <1>3 DEF Construct, Goto, Outcome
<1>4. CASE Enter(t)
  BY <1>4 DEF Enter, Goto
<1>5. CASE Initialize(t)
  BY <1>5 DEF Initialize, Goto, Outcome
<1>6. CASE RaiseInBody(t)
  BY <1>6 DEF RaiseInBody, Goto, Outcome
<1>7. CASE FindPdb(t)
  BY <1>7 DEF FindPdb, Goto
<1>8. CASE LoadModule(t)
  BY <1>8 DEF LoadModule, Goto
<1>9. CASE LookupImports(t)
  BY <1>9 DEF LookupImports, Lookup, Goto
<1>10. CASE SetOptions(t)
  BY <1>10 DEF SetOptions, Goto
<1>11. CASE LookupName(t)
  BY <1>11 DEF LookupName, Lookup
<1>12. CASE Finish(t)
  BY <1>12 DEF Finish, Goto, Outcome
<1>13. CASE Exit(t)
  BY <1>13 DEF Exit, Goto
<1>14. CASE Release(t)
  BY <1>14 DEF Release, Goto
<1> QED
  BY <1>1, <1>2, <1>3, <1>4, <1>5, <1>6, <1>7, <1>8, <1>9, <1>10, <1>11, <1>12, <1>13,
       <1>14 DEF Step

(* Every step keeps the session with the thread in the body, and no other. *)
LEMMA NextSessionInv == IInv /\ [Next]_vars => SessionInv'
<1> SUFFICES ASSUME IInv, NEW t \in Threads, Call(t) \/ Acquire(t) \/ Step(t) PROVE
     SessionInv'
  <2>1. CASE UNCHANGED vars
    BY <2>1 DEF IInv, TypeOK, LockInv, SessionInv, HasSession, Locked, InBody, vars,
         caller, dbghelp
  <2> QED
    BY <2>1 DEF Next
<1> USE NoneAssumption DEF IInv, TypeOK, LockInv, SessionInv, HasSession, Locked,
     InBody, caller, dbghelp
<1>1. CASE Call(t)
  BY <1>1 DEF Call, Goto, Outcome
<1>2. CASE Acquire(t)
  BY <1>2 DEF Acquire, Goto
<1>3. CASE Construct(t)
  BY <1>3 DEF Construct, Goto, Outcome
<1>4. CASE Enter(t)
  BY <1>4 DEF Enter, Goto
<1>5. CASE Initialize(t)
  BY <1>5 DEF Initialize, Goto, Outcome
<1>6. CASE RaiseInBody(t)
  BY <1>6 DEF RaiseInBody, Goto, Outcome
<1>7. CASE FindPdb(t)
  BY <1>7 DEF FindPdb, Goto
<1>8. CASE LoadModule(t)
  BY <1>8 DEF LoadModule, Goto
<1>9. CASE LookupImports(t)
  BY <1>9 DEF LookupImports, Lookup, Goto
<1>10. CASE SetOptions(t)
  BY <1>10 DEF SetOptions, Goto
<1>11. CASE LookupName(t)
  BY <1>11 DEF LookupName, Lookup
<1>12. CASE Finish(t)
  BY <1>12 DEF Finish, Goto, Outcome
<1>13. CASE Exit(t)
  BY <1>13 DEF Exit, Goto
<1>14. CASE Release(t)
  BY <1>14 DEF Release, Goto
<1> QED
  BY <1>1, <1>2, <1>3, <1>4, <1>5, <1>6, <1>7, <1>8, <1>9, <1>10, <1>11, <1>12, <1>13,
       <1>14 DEF Step

(* Every step keeps in force the module and options the holder's place     *)
(* calls for.                                                              *)
LEMMA NextForceInv == IInv /\ [Next]_vars => ForceInv'
<1> SUFFICES ASSUME IInv, NEW t \in Threads, Call(t) \/ Acquire(t) \/ Step(t) PROVE
     ForceInv'
  <2>1. CASE UNCHANGED vars
    BY <2>1 DEF IInv, TypeOK, LockInv, SessionInv, HasSession, ForceInv, InForce,
         Locked, InBody, vars, caller, dbghelp
  <2> QED
    BY <2>1 DEF Next
<1> USE NoneAssumption DEF IInv, TypeOK, LockInv, SessionInv, HasSession, ForceInv,
     InForce, Locked, InBody, caller, dbghelp
<1>1. CASE Call(t)
  BY <1>1 DEF Call, Goto, Outcome
<1>2. CASE Acquire(t)
  BY <1>2 DEF Acquire, Goto
<1>3. CASE Construct(t)
  BY <1>3 DEF Construct, Goto, Outcome
<1>4. CASE Enter(t)
  BY <1>4 DEF Enter, Goto
<1>5. CASE Initialize(t)
  BY <1>5 DEF Initialize, Goto, Outcome
<1>6. CASE RaiseInBody(t)
  BY <1>6 DEF RaiseInBody, Goto, Outcome
<1>7. CASE FindPdb(t)
  BY <1>7 DEF FindPdb, Goto
<1>8. CASE LoadModule(t)
  BY <1>8 DEF LoadModule, Goto
<1>9. CASE LookupImports(t)
  BY <1>9 DEF LookupImports, Lookup, Goto
<1>10. CASE SetOptions(t)
  BY <1>10 DEF SetOptions, Goto
<1>11. CASE LookupName(t)
  BY <1>11 DEF LookupName, Lookup
<1>12. CASE Finish(t)
  BY <1>12 DEF Finish, Goto, Outcome
<1>13. CASE Exit(t)
  BY <1>13 DEF Exit, Goto
<1>14. CASE Release(t)
  BY <1>14 DEF Release, Goto
<1> QED
  BY <1>1, <1>2, <1>3, <1>4, <1>5, <1>6, <1>7, <1>8, <1>9, <1>10, <1>11, <1>12, <1>13,
       <1>14 DEF Step

(* Every step keeps the answers of each thread its own.                    *)
LEMMA NextAnsweredInv == IInv /\ [Next]_vars => AnsweredInv'
<1> SUFFICES ASSUME IInv, NEW t \in Threads, Call(t) \/ Acquire(t) \/ Step(t) PROVE
     AnsweredInv'
  <2>1. CASE UNCHANGED vars
    BY <2>1 DEF IInv, TypeOK, LockInv, ForceInv, InForce, AnsweredInv, Answered,
         Import, OwnAnswers, ProgramCounters, Locked, InBody, vars, caller, dbghelp
  <2> QED
    BY <2>1 DEF Next
<1> USE NoneAssumption DEF IInv, TypeOK, LockInv, ForceInv, InForce, AnsweredInv,
     Answered, Import, OwnAnswers, ProgramCounters, Locked, InBody, caller, dbghelp
<1>1. CASE Call(t)
  BY <1>1 DEF Call, Goto, Outcome
<1>2. CASE Acquire(t)
  BY <1>2 DEF Acquire, Goto
<1>3. CASE Construct(t)
  BY <1>3 DEF Construct, Goto, Outcome
<1>4. CASE Enter(t)
  BY <1>4 DEF Enter, Goto
<1>5. CASE Initialize(t)
  BY <1>5 DEF Initialize, Goto, Outcome
<1>6. CASE RaiseInBody(t)
  BY <1>6 DEF RaiseInBody, Goto, Outcome
<1>7. CASE FindPdb(t)
  BY <1>7 DEF FindPdb, Goto
<1>8. CASE LoadModule(t)
  BY <1>8 DEF LoadModule, Goto
<1>9. CASE LookupImports(t)
  BY <1>9 DEF LookupImports, Lookup, Goto
<1>10. CASE SetOptions(t)
  BY <1>10 DEF SetOptions, Goto
<1>11. CASE LookupName(t)
  BY <1>11 DEF LookupName, Lookup
<1>12. CASE Finish(t)
  BY <1>12 DEF Finish, Goto, Outcome
<1>13. CASE Exit(t)
  BY <1>13 DEF Exit, Goto
<1>14. CASE Release(t)
  BY <1>14 DEF Release, Goto
<1> QED
  BY <1>1, <1>2, <1>3, <1>4, <1>5, <1>6, <1>7, <1>8, <1>9, <1>10, <1>11, <1>12, <1>13,
       <1>14 DEF Step

(* The inductive invariant holds in every reachable state.                 *)
LEMMA IInvHolds == Spec => []IInv
<1>1. IInv /\ [Next]_vars => IInv'
  BY NextTypeOK, NextLockInv, NextSessionInv, NextForceInv, NextAnsweredInv DEF IInv
<1> QED
  BY <1>1, InitIInv, PTL DEF Spec

(* Type correctness.                                                       *)
THEOREM TypeCorrect == Spec => []TypeOK
<1>1. IInv => TypeOK
  BY DEF IInv
<1> QED
  BY <1>1, IInvHolds, PTL

(* Every lookup of every caller is answered from its own file and under    *)
(* its own options.                                                        *)
THEOREM AnswersAreOwnHolds == Spec => []AnswersAreOwn
<1>1. IInv => AnswersAreOwn
  BY DEF IInv, AnsweredInv, Answered, AnswersAreOwn
<1> QED
  BY <1>1, IInvHolds, PTL

(* No failure leaves a session or a module behind.                         *)
THEOREM CleanWhenUnlockedHolds == Spec => []CleanWhenUnlocked
<1>1. IInv => CleanWhenUnlocked
  <2> SUFFICES ASSUME IInv, lock = None PROVE session = None
    BY DEF IInv, SessionInv, CleanWhenUnlocked
  <2> SUFFICES ASSUME session \in Threads PROVE FALSE
    BY DEF IInv, TypeOK
  <2> QED
    BY NoneAssumption DEF IInv, LockInv, SessionInv, HasSession, Locked
<1> QED
  BY <1>1, IInvHolds, PTL

(* SymInitializeW never meets the session of another call.                 *)
THEOREM NeverRefusedHolds == Spec => []NeverRefused
<1>1. IInv => NeverRefused
  <2> SUFFICES ASSUME IInv, NEW t \in Threads, pc[t] = "initialize", session \in Threads
               PROVE FALSE
    BY DEF IInv, TypeOK, NeverRefused
  <2>1. lock = t /\ lock = session
    BY DEF IInv, LockInv, SessionInv, HasSession, Locked
  <2> QED
    BY <2>1 DEF IInv, SessionInv, HasSession, InBody
<1> QED
  BY <1>1, IInvHolds, PTL
=============================================================================
