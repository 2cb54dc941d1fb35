------------------------------ MODULE IniText ------------------------------
(***************************************************************************)
(* The text of an rdpwrap.ini and the pure functions autoupdate.py uses to *)
(* read it and to repair it.  A text is the sequence of lines that         *)
(* splitlines(keepends=True) returns.  A line is abstracted to what the    *)
(* repair looks at: its kind ("section" header, key=value "entry", "blank" *)
(* or other "text", which covers comments and ERROR lines), its name (the  *)
(* section or the key), its value, and whether it ends in a line ending    *)
(* (only the last line of a file may lack one).                            *)
(*                                                                         *)
(* Keys carry no architecture suffix: "LocalOnlyCode" stands for           *)
(* LocalOnlyCode.x64.  Line endings are one constant: read_text translates *)
(* every ending to \n before any of these functions runs.                  *)
(***************************************************************************)
EXTENDS SequencesExt, Integers

Section(n)  == [kind |-> "section", name |-> n, val |-> "", eol |-> TRUE]
Entry(k, v) == [kind |-> "entry", name |-> k, val |-> v, eol |-> TRUE]
Text(t)     == [kind |-> "text", name |-> t, val |-> "", eol |-> TRUE]
Blank       == [kind |-> "blank", name |-> "", val |-> "", eol |-> TRUE]

(* What a line is made of.  (The provers do not know that a literal is a   *)
(* string; the literals of this module are therefore named.)               *)
Word == STRING \cup {"", "PatchCodes", "cut"}
TextLine == [kind: {"section", "entry", "text", "blank"}, name: Word, val: Word, eol: BOOLEAN]

(* _strip_line_ending(line).strip(), then an ending appended again.        *)
Ended(line) == [line EXCEPT !.eol = TRUE]

(* The elements of a finite set of integers, the least one first.  (What   *)
(* SetToSortSeq(S, <) gives; its SortSeq has no definition to prove with.) *)
Ascending(S) ==
  [n \in 1 .. Cardinality(S) |-> CHOOSE x \in S : Cardinality({y \in S : y <= x}) = n]

(* The lines at these places, in the order of the text, each with an ending.*)
LinesAt(doc, places) ==
  LET at == Ascending(places) IN [n \in DOMAIN at |-> Ended(doc[at[n]])]

(* The keys whose value names a patch code.                                *)
PatchCodeReferenceKeys == {"LocalOnlyCode", "SingleUserCode", "DefPolicyCode"}

IsEntry(line) == line.kind = "entry"

(* _find_section_bounds: only the FIRST section of that name is looked at; *)
(* it ends before the next header of any name, or after the last line.     *)
Headers(doc)          == {i \in DOMAIN doc : doc[i].kind = "section"}
HeadersOf(doc, name)  == {i \in Headers(doc) : doc[i].name = name}
HasSection(doc, name) == HeadersOf(doc, name) # {}
SectionStart(doc, name) == Min(HeadersOf(doc, name))
(* Fault: the next header does not end the section.                        *)
SectionEndAtTextEnd(doc, name) == Len(doc) + 1

SectionEnd(doc, name) ==
  LET start == SectionStart(doc, name)
  IN  Min({i \in Headers(doc) : i > start} \cup {Len(doc) + 1})

(* _parse_key_lines_in_section: a map from the keys of the section to the  *)
(* first line that holds the key.                                          *)
EntriesIn(doc, name) ==
  IF HasSection(doc, name)
    THEN LET start == SectionStart(doc, name)
             end   == SectionEnd(doc, name)
         IN  {i \in start + 1 .. end - 1 : IsEntry(doc[i])}
    ELSE {}
KeysIn(doc, name) == {doc[i].name : i \in EntriesIn(doc, name)}
KeyLines(doc, name) ==
  LET entries == EntriesIn(doc, name)
  IN  [key \in {doc[i].name : i \in entries} |->
         Ended(doc[Min({i \in entries : doc[i].name = key})])]

(* Fault: the line before the insertion is left without its ending.        *)
EnsurePreviousLineEndsNot(doc, at) == doc

(* _ensure_previous_line_ends, for an insertion before line at.            *)
EnsurePreviousLineEnds(doc, at) ==
  IF at = 1 THEN doc ELSE [doc EXCEPT ![at - 1].eol = TRUE]

(* Fault: the insertion overwrites the line it should push down.           *)
SpliceOverwrites(doc, at, lines) ==
  SubSeq(doc, 1, at - 1) \o lines \o SubSeq(doc, at + 1, Len(doc))

Splice(doc, at, lines) ==
  SubSeq(doc, 1, at - 1) \o lines \o SubSeq(doc, at, Len(doc))

(* Where _insert_key_lines_into_section puts the lines of an existing      *)
(* section: behind its last line that is not blank.                        *)
InsertionPoint(doc, name) ==
  LET start == SectionStart(doc, name)
  IN  1 + Max({i \in start .. SectionEnd(doc, name) - 1 :
                 i = start \/ doc[i].kind # "blank"})

(* _insert_key_lines_into_section.  The section is created, when it is not *)
(* there, behind the section named by after if that one exists, else at    *)
(* the end of the text.                                                    *)
InsertKeyLines(doc, name, lines, after) ==
  LET created == <<Section(name)>> \o lines \o <<Blank>>
      behind  == SectionEnd(doc, after)
      closed  == EnsurePreviousLineEnds(doc, Len(doc) + 1)
      point   == InsertionPoint(doc, name)
  IN  CASE lines = <<>> -> doc
        [] lines # <<>> /\ HasSection(doc, name) ->
             Splice(EnsurePreviousLineEnds(doc, point), point, lines)
        [] lines # <<>> /\ ~HasSection(doc, name) /\ HasSection(doc, after) ->
             Splice(EnsurePreviousLineEnds(doc, behind), behind,
                    <<Blank>> \o created)
        [] OTHER ->
             closed \o (IF doc # <<>> /\ Last(doc).kind # "blank"
                          THEN <<Blank>> ELSE <<>>)
                    \o created

(* No section has this name: the value of create_after_section=None.       *)
Nowhere == "(none)"

(* _parse_generated_section_key_lines: the sections of the generated text  *)
(* in order, each with its entries; lines before the first header are      *)
(* dropped.                                                                *)
GeneratedSections(text) ==
  LET heads   == Ascending(Headers(text))
      end(n)  == IF n = Len(heads) THEN Len(text) ELSE heads[n + 1] - 1
      body(n) == {i \in heads[n] + 1 .. end(n) : IsEntry(text[i])}
  IN  [n \in DOMAIN heads |->
         [name |-> text[heads[n]].name, lines |-> LinesAt(text, body(n))]]

(* Fault: a generated line counts as missing when its value differs.       *)
EnsureSectionByLine(doc, section) ==
  LET existing == KeyLines(doc, section.name)
      missing  == {i \in DOMAIN section.lines :
                     LET line == section.lines[i]
                     IN  ~(line.name \in DOMAIN existing /\ existing[line.name] = line)}
  IN  InsertKeyLines(doc, section.name, LinesAt(section.lines, missing), Nowhere)

(* One iteration of ensure_generated_offset_sections.                      *)
EnsureSection(doc, section) ==
  LET existing == KeysIn(doc, section.name)
      missing  == {i \in DOMAIN section.lines : section.lines[i].name \notin existing}
  IN  InsertKeyLines(doc, section.name, LinesAt(section.lines, missing), Nowhere)

(* The text after the first n iterations, for every n.                     *)
EnsureGeneratedOffsetSections(doc, text) ==
  LET sections == GeneratedSections(text)
      updated[n \in 0 .. Len(sections)] ==
        IF n = 0 THEN doc ELSE EnsureSection(updated[n - 1], sections[n])
  IN  updated[Len(sections)]

(* extract_referenced_patch_code_names: every entry of the text counts,    *)
(* also before the first header.                                           *)
ReferencedPatchCodeNames(text) ==
  {text[i].val : i \in {j \in DOMAIN text :
      /\ IsEntry(text[j])
      /\ text[j].name \in PatchCodeReferenceKeys
      /\ text[j].val # ""}}

(* ensure_referenced_patch_codes.  It raises when the TEMPLATE lacks a     *)
(* code, before it looks whether the target has it; the lines added are    *)
(* the template's, in the template's order.                                *)
TemplateHasCodes(text, template) ==
  ReferencedPatchCodeNames(text) \subseteq KeysIn(template, "PatchCodes")

EnsureReferencedPatchCodes(doc, text, template) ==
  LET missing  == ReferencedPatchCodeNames(text) \ KeysIn(doc, "PatchCodes")
      codes    == EntriesIn(template, "PatchCodes")
      First(i) == \A j \in codes : template[j].name = template[i].name => i <= j
      added    == {i \in codes : template[i].name \in missing /\ First(i)}
  IN  InsertKeyLines(doc, "PatchCodes", LinesAt(template, added), "Main")

(* The two calls main() makes to repair an installed ini that already has  *)
(* the version's section (defined when TemplateHasCodes).                  *)
Repair(doc, text, template) ==
  EnsureReferencedPatchCodes(EnsureGeneratedOffsetSections(doc, text),
                             text, template)

(* render_updated_ini: rstrip("\r\n") drops the template's trailing blank  *)
(* lines and its last ending, "\n" puts the ending back.                   *)
StripTrailingBlanks(doc) ==
  LET last == Max({0} \cup {i \in DOMAIN doc : doc[i].kind # "blank"})
  IN  [i \in 1 .. last |-> [doc[i] EXCEPT !.eol = (i # last)]]
Render(text, template) ==
  LET stripped == StripTrailingBlanks(template)
  IN  EnsureReferencedPatchCodes(
        (IF stripped = <<>> THEN <<Blank>>
         ELSE EnsurePreviousLineEnds(stripped, Len(stripped) + 1)) \o text,
        text, template)

(* contains_version_entry: a line that is exactly [version].               *)
ContainsVersionEntry(doc, name) == HasSection(doc, name)

(* '"ERROR" in text'.                                                      *)
HasError(doc) == \E i \in DOMAIN doc : doc[i].kind = "text" /\ doc[i].name = "ERROR"

(* What a reader of the ini sees, stated without the functions above: an   *)
(* entry belongs to the nearest header before it; of several sections of a *)
(* name, and of several entries of a key, the first counts.                *)
View(doc) ==
  LET owner == [i \in DOMAIN doc |-> Max({0} \cup {h \in Headers(doc) : h < i})]
      Counts(i) ==
        /\ IsEntry(doc[i]) /\ owner[i] # 0
        /\ \A h \in Headers(doc) : doc[h].name = doc[owner[i]].name => owner[i] <= h
        /\ \A j \in owner[i] + 1 .. i - 1 : ~(IsEntry(doc[j]) /\ doc[j].name = doc[i].name)
  IN  {[section |-> doc[owner[i]].name, key |-> doc[i].name, val |-> doc[i].val] :
         i \in {j \in DOMAIN doc : Counts(j)}}

(* The repair has nothing left to add.                                     *)
Covers(doc, text) ==
  /\ \A section \in ToSet(GeneratedSections(text)) :
       {line.name : line \in ToSet(section.lines)} \subseteq KeysIn(doc, section.name)
  /\ ReferencedPatchCodeNames(text) \subseteq KeysIn(doc, "PatchCodes")

(* Only the last line may lack its ending: nothing else has been run       *)
(* together with the line behind it.                                       *)
LinesEnded(doc) == \A i \in 1 .. Len(doc) - 1 : doc[i].eol

(* The texts that splitlines(keepends=True) can return.                    *)
IsText(doc) == doc \in Seq(TextLine) /\ LinesEnded(doc)

(* The texts of the backends: no section name occurs twice, and none is    *)
(* one of the template's (the sections are [version], [version-SLInit]).   *)
IsSnippet(text, template) ==
  /\ IsText(text)
  /\ \A h, k \in Headers(text) : text[h].name = text[k].name => h = k
  /\ \A h \in Headers(text) : ~HasSection(template, text[h].name)
=============================================================================
