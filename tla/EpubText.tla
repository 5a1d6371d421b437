------------------------------ MODULE EpubText ------------------------------
(***************************************************************************)
(* document/processors/epub.py: the notes of a book are read from its      *)
(* archive, the references pandoc left in the text are matched to them,    *)
(* and the images pandoc extracted are stored and their references         *)
(* rewritten.                                                              *)
(*                                                                         *)
(* An identifier is the sequence of its "_"-separated parts; pandoc puts   *)
(* the name of its file before it in a target.  A text file of the archive *)
(* has a name and the identifiers noted in each of the four styles.        *)
(* The text is a sequence of items: [type |-> "word"],                     *)
(* [type |-> "heading", notes], a reference [type |-> "ref", form, target] *)
(* in one of four forms, and an image [type |-> "img", form, path].        *)
(***************************************************************************)
EXTENDS Integers, Sequences, SequencesExt, FiniteSetsExt

\* A dict in insertion order: writing an existing key keeps its place.
Put(notes, id, text) ==
  LET at == SelectInSeq(notes, LAMBDA n : n.id = id)
  IN  IF at = 0 THEN Append(notes, [id |-> id, text |-> text])
      ELSE ReplaceAt(notes, at, [id |-> id, text |-> text])

\* The note text of identifier id in file f.
NoteText(f, id) == [file |-> f, id |-> id]

PutAll(notes, f, ids) == FoldLeft(LAMBDA acc, id : Put(acc, id, NoteText(f, id)), notes, ids)

\* extract_footnotes_from_zip: the old style is looked for only while no note
\* was found, in this file or an earlier one; a file that does not parse is
\* passed over.
ExtractFootnotes(files) ==
  LET scan(acc, f) ==
        LET found == PutAll(PutAll(PutAll(acc, f, files[f].epub3), f, files[f].div),
                            f, files[f].springer)
        IN  CASE ~ files[f].parses -> acc
              [] files[f].parses /\ found = << >> -> PutAll(found, f, files[f].old)
              [] OTHER -> found
  IN  FoldLeftDomain(scan, << >>, files)

\* find_note: an exact match, else the first note the target ends with; 0 for
\* none.
FindNote(notes, target) ==
  LET exact == SelectInSeq(notes, LAMBDA n : n.id = target)
  IN  IF exact # 0 THEN exact
      ELSE SelectInSeq(notes, LAMBDA n : IsStrictSuffix(n.id, target))

Resolves(item, notes) == item.type = "ref" /\ FindNote(notes, item.target) # 0

\* The targets in the order the four passes meet them; the n-th new one is
\* labelled n.
Targets(text, notes) ==
  LET pass(form) == SelectSeq(text, LAMBDA t : Resolves(t, notes) /\ t.form = form)
      met == pass(1) \o pass(2) \o pass(3) \o pass(4)
  IN  FoldLeft(LAMBDA acc, t : IF Contains(acc, t.target) THEN acc ELSE Append(acc, t.target),
               << >>, met)

LabelOf(targets, target) == SelectInSeq(targets, LAMBDA t : t = target)

\* A notes section reaches from its heading to the next heading.
InNotesSection(text, i) ==
  LET headings == {k \in 1 .. i : text[k].type = "heading"}
  IN  headings # {} /\ text[Max(headings)].notes

\* convert_footnotes: references become labels, notes sections go (when any
\* reference was converted), and the definitions are appended.
Relabelled(text, notes, targets) ==
  LET converted(t) == IF Resolves(t, notes)
                      THEN [type |-> "label", label |-> LabelOf(targets, t.target), target |-> t.target]
                      ELSE t
      kept == SelectSeq([i \in DOMAIN text |-> i], LAMBDA i : ~ InNotesSection(text, i))
  IN  IF targets = << >> THEN [text |-> text, definitions |-> << >>]
      ELSE [text |-> [k \in DOMAIN kept |-> converted(text[kept[k]])],
            definitions |-> [k \in DOMAIN targets |-> notes[FindNote(notes, targets[k])].text]]

ConvertFootnotes(text, notes) == Relabelled(text, notes, Targets(text, notes))

-----------------------------------------------------------------------------
\* _dedup_images: an <img> whose image the text also shows in markdown goes;
\* before the first heading an image shown twice goes as well.
DedupImages(text) ==
  LET markdown == {text[i].path : i \in {k \in DOMAIN text : text[k].type = "img" /\ text[k].form = "md"}}
      tags == SelectSeq(text, LAMBDA t : ~ (t.type = "img" /\ t.form = "tag" /\ t.path \in markdown))
      front(i) == \A k \in 1 .. i : tags[k].type # "heading"
      seen(i) == \E k \in 1 .. i - 1 : tags[k] = tags[i]
      kept == SelectSeq([i \in DOMAIN tags |-> i],
                        LAMBDA i : ~ (tags[i].type = "img" /\ tags[i].form = "md" /\ front(i) /\ seen(i)))
  IN  [k \in DOMAIN kept |-> tags[kept[k]]]

\* _store_images_and_rewrite: stored images get the next number as their name,
\* and both forms of reference become markdown references to it; other paths
\* stay as they are.
StoreImages(text, images) ==
  [i \in DOMAIN text |->
     IF text[i].type = "img" /\ Contains(images, text[i].path)
     THEN [type |-> "img", form |-> "md", url |-> SelectInSeq(images, LAMBDA p : p = text[i].path)]
     ELSE text[i]]

Converted(text, notes) ==
  IF notes = << >> THEN [text |-> text, definitions |-> << >>] ELSE ConvertFootnotes(text, notes)

\* extract, for an archive within the limits of _validate_epub_zip.
ExtractEpub(files, text, images) ==
  [Converted(DedupImages(text), ExtractFootnotes(files)) EXCEPT !.text = StoreImages(@, images)]
=============================================================================
