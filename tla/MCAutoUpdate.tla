---------------------------- MODULE MCAutoUpdate ----------------------------
(* Small texts for AutoUpdate: two patch codes, one or two supported       *)
(* versions, one whose patch code the template lacks, one whose text holds *)
(* an ERROR line.                                                          *)
EXTENDS AutoUpdate

MCTemplate == <<Section("Main"), Section("PatchCodes"), Entry("mov", "B8"), Blank>>

Snippet(v, code) ==
  <<Section(v), Entry("SingleUserCode", code), Section(v \o "-SLInit"), Entry("bInit", "1")>>

MCBackendText ==
  [v \in Versions |->
     CASE v = "v2" -> Snippet(v, "nop_5")
       [] v = "v3" -> Append(Snippet(v, "mov"), Text("ERROR"))
       [] OTHER    -> Snippet(v, "mov")]

(* An older release's ini: the version's section, with a value of its own, *)
(* without the patch code and without the last ending; and one that is     *)
(* already complete.                                                       *)
MCInitialInis ==
  {<<Section("Main"), Section("v1"), [Entry("SingleUserCode", "own") EXCEPT !.eol = FALSE]>>,
   Render(MCBackendText["v1"], MCTemplate)}
=============================================================================
