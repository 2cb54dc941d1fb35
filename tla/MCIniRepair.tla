---------------------------- MODULE MCIniRepair ----------------------------
(* Every installed file of up to MaxLines lines over a small alphabet that *)
(* has the version's section, with and without an ending on the last line. *)
EXTENDS IniRepair

CONSTANT MaxLines

Lines == {Section("Main"), Section("PatchCodes"), Section("v1"),
          Entry("SingleUserCode", "OWN"), Entry("mov", "OWN"), Blank, Text(";")}

Unended(doc) == [doc EXCEPT ![Len(doc)].eol = FALSE]

MCInstalled ==
  LET docs == {d \in BoundedSeq(Lines, MaxLines) : ContainsVersionEntry(d, "v1")}
  IN  docs \cup {Unended(d) : d \in docs}

MCTemplate ==
  <<Section("Main"), Text("x"), Blank,
    Section("PatchCodes"), Entry("nop", "90"), Entry("jmp", "EB"),
    Entry("mov", "B8"), Blank>>

(* A backend text of version v that patches with code.                     *)
Snippet(v, init, code) ==
  <<Section(v), Entry("SingleUserOffset", "1"), Entry("SingleUserCode", code),
    Entry("DefPolicyCode", "jmp"), Blank, Section(init), Entry("bInit", "1")>>

(* The last one names a code the template does not have, as a generated    *)
(* nop_5 does; the third is of another version than the one looked for.    *)
MCTexts == {Snippet("v1", "v1-SLInit", "mov"), Snippet("v1", "v1-SLInit", "jmp"),
            Snippet("v2", "v2-SLInit", "mov"), Snippet("v1", "v1-SLInit", "nop_5")}
=============================================================================
