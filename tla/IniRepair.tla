------------------------------ MODULE IniRepair ------------------------------
(***************************************************************************)
(* The repair of an installed rdpwrap.ini (autoupdate.py:47-49), one step  *)
(* per iteration of the loop over the generated sections, then the patch   *)
(* codes.  The text in between is what the next step parses again, so the  *)
(* steps meet every text an earlier insertion can leave behind.            *)
(***************************************************************************)
EXTENDS IniText

CONSTANTS InstalledTexts,  \* the ini files the updater may find
          BackendTexts,    \* the texts run_backend may return
          TemplateText     \* resources/rdpwrap_template.ini

ASSUME InstalledAssumption == \A doc \in InstalledTexts : IsText(doc)
ASSUME BackendAssumption == \A doc \in BackendTexts : IsSnippet(doc, TemplateText)
ASSUME TemplateAssumption == IsText(TemplateText)

VARIABLES installed,   \* installed_ini
          offset_text, \* result.text
          updated,     \* the text repaired so far
          todo,        \* generated sections the loop has still to visit
          phase        \* "sections", "done" or "raised"

repairVars == <<installed, offset_text, updated, todo, phase>>

RepairInit ==
  /\ installed \in InstalledTexts
  /\ offset_text \in BackendTexts
  /\ updated = installed
  /\ todo = GeneratedSections(offset_text)
  /\ phase = "sections"

(* One iteration of ensure_generated_offset_sections.                      *)
RepairNextSection ==
  /\ phase = "sections"
  /\ todo # <<>>
  /\ updated' = EnsureSection(updated, Head(todo))
  /\ todo' = Tail(todo)
  /\ UNCHANGED <<installed, offset_text, phase>>

(* Fault: the codes the template lacks are passed over.                    *)
RepairPatchCodesThere ==
  /\ phase = "sections"
  /\ todo = <<>>
  /\ updated' = EnsureReferencedPatchCodes(updated, offset_text, TemplateText)
  /\ phase' = "done"
  /\ UNCHANGED <<installed, offset_text, todo>>

(* ensure_referenced_patch_codes returns the repaired text.                *)
RepairPatchCodes ==
  /\ phase = "sections"
  /\ todo = <<>>
  /\ TemplateHasCodes(offset_text, TemplateText)
  /\ updated' = EnsureReferencedPatchCodes(updated, offset_text, TemplateText)
  /\ phase' = "done"
  /\ UNCHANGED <<installed, offset_text, todo>>

(* ensure_referenced_patch_codes raises: nothing of the repair is used.    *)
TemplateLacksCode ==
  /\ phase = "sections"
  /\ todo = <<>>
  /\ ~TemplateHasCodes(offset_text, TemplateText)
  /\ phase' = "raised"
  /\ UNCHANGED <<installed, offset_text, updated, todo>>

RepairNext == RepairNextSection \/ RepairPatchCodes \/ TemplateLacksCode

RepairSpec == RepairInit /\ [][RepairNext]_repairVars

-----------------------------------------------------------------------------
(* Every variable holds a value of its type, and the phase says how far the*)
(* repair is: done means that all sections have been visited and that every*)
(* generated key and every code the text names is in the file.             *)
RepairTypeOK ==
  /\ {installed, offset_text, updated} \subseteq Seq(TextLine)
  /\ todo \in Seq([name: Word, lines: Seq(TextLine)])
  /\ Len(todo) <= Len(GeneratedSections(offset_text))
  /\ phase \in {"sections", "done", "raised"}
  /\ phase = "done" => todo = <<>> /\ Covers(updated, offset_text)

(* No two lines are ever run together, in any file, with or without an     *)
(* ending on its last line, however many insertions are made into it.      *)
NoRunOnLines == LinesEnded(updated)

(* The repair deletes and reorders nothing: the installed lines are all    *)
(* there, in their order, among the lines of the repaired text.            *)
InstalledLinesKept ==
  LET place[i \in 0 .. Len(installed)] ==
        IF i = 0 THEN 0
        ELSE LET previous == place[i - 1]
             IN  Min({j \in DOMAIN updated : j > previous
                         /\ Ended(updated[j]) = Ended(installed[i])}
                     \cup {Len(updated) + i})
  IN  place[Len(installed)] <= Len(updated)

(* A repaired file needs no repair: a second run of the updater finds      *)
(* new_ini == installed_ini and does not restart the service again.        *)
RepairIsIdempotent ==
  phase = "done" => Repair(updated, offset_text, TemplateText) = updated

(* The other route to an ini, render_updated_ini, hands over a text that   *)
(* is already complete, so that the run after it has nothing to repair.    *)
RenderNeedsNoRepair ==
  phase = "done" =>
    LET rendered == Render(offset_text, TemplateText)
    IN  /\ LinesEnded(rendered) /\ Covers(rendered, offset_text)
        /\ Repair(rendered, offset_text, TemplateText) = rendered

(* The settings wanted of the repaired file: the generated ones, and the   *)
(* template's patch codes that they name.                                  *)
Wanted ==
  View(offset_text) \cup
  {s \in View(TemplateText) : s.section = "PatchCodes"
                            /\ s.key \in ReferencedPatchCodeNames(offset_text)}

Abstract == INSTANCE KeyStore
  WITH store <- View(updated), wanted <- Wanted,
       status <- IF phase = "sections" THEN "open" ELSE phase

(* The line-wise repair implements the store that is only added to: it     *)
(* overwrites and hides no setting of the installed file, adds only wanted *)
(* ones, and ends with all of them readable in the right section.          *)
ImplementsKeyStore == Abstract!Spec
=============================================================================
