------------------------------ MODULE KeyStore ------------------------------
(***************************************************************************)
(* What the repair of an installed rdpwrap.ini promises, without texts or  *)
(* lines: a store of settings that is only ever added to, from a set of    *)
(* wanted settings, and never under a (section, key) it already holds; when*)
(* it is finished it holds every wanted key.  It may give up instead.      *)
(***************************************************************************)
VARIABLES store,   \* set of [section, key, val], at most one per section and key
          wanted,  \* the settings that must be there in the end
          status   \* "open", "done" or "raised"

KeysOf(settings) == {<<s.section, s.key>> : s \in settings}

IsFunctional(settings) ==
  \A s, t \in settings : s.section = t.section /\ s.key = t.key => s = t

Init == IsFunctional(store) /\ status = "open"

Add ==
  /\ status = "open"
  /\ store \subseteq store'
  /\ store' \ store \subseteq wanted
  /\ IsFunctional(store')
  /\ status' \in {"open", "done"}
  /\ status' = "done" => KeysOf(wanted) \subseteq KeysOf(store')
  /\ UNCHANGED wanted

GiveUp == status = "open" /\ status' = "raised" /\ UNCHANGED <<store, wanted>>

Spec == Init /\ [][Add \/ GiveUp]_<<store, wanted, status>>
=============================================================================
