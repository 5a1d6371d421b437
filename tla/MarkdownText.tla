---------------------------- MODULE MarkdownText ----------------------------
(***************************************************************************)
(* What the text pipeline promises its readers, over every input an author *)
(* can write with a small vocabulary.  A state is one input; a step        *)
(* appends one character, one inline node or one block to it.              *)
(*                                                                         *)
(* The listener hears audio chunks one by one and sees, for each of them,  *)
(* a slice of the displayed text: the properties relate what is heard,     *)
(* what is shown and what was written.                                     *)
(***************************************************************************)
EXTENDS MarkdownBlocks, PageText, EpubText, FigureBoxes

CONSTANTS Characters,        \* for texts: see TextSplitting
          InlineNodes,       \* for paragraphs with every kind of tag
          FlowNodes,         \* for paragraphs long enough to be split
          BlockNodes,        \* for documents
          Pages,             \* for extracted documents, page by page
          BookItems,         \* for the text pandoc makes of a book
          Books,             \* archives: sequences of text files
          Images,            \* the images pandoc extracts of a book
          Boxes,             \* what a page's figures are detected as
          MaxText, MaxInline, MaxFlow, MaxBlocks, MaxPages, MaxBook, MaxBoxes  \* bounds on the inputs

VARIABLE input      \* [kind, items, book]

Vocabulary == [text |-> Characters, tags |-> InlineNodes, flow |-> FlowNodes, doc |-> BlockNodes,
               pages |-> Pages, epub |-> BookItems, figures |-> Boxes]
Bound == [text |-> MaxText, tags |-> MaxInline, flow |-> MaxFlow, doc |-> MaxBlocks,
          pages |-> MaxPages, epub |-> MaxBook, figures |-> MaxBoxes]

Init == \E kind \in DOMAIN Vocabulary, book \in Books :
          input = [kind |-> kind, items |-> << >>, book |-> IF kind = "epub" THEN book ELSE << >>]

Write(kind) ==
  /\ input.kind = kind /\ Len(input.items) < Bound[kind]
  /\ \E item \in Vocabulary[kind] : input' = [input EXCEPT !.items = Append(@, item)]

Next == \E kind \in DOMAIN Vocabulary : Write(kind)

Spec == Init /\ [][Next]_input

-----------------------------------------------------------------------------
\* Text without its spaces.
Letters(text) == SelectSeq(text, LAMBDA c : c # " ")

\* The text a tree speaks.
RECURSIVE Spoken(_)
Spoken(ast) ==
  FlattenSeq([i \in DOMAIN ast |->
    CASE ast[i].type \in {"text", "code", "speak", "image"} -> ast[i].content
      [] ast[i].type \in Wrappers -> Spoken(ast[i].children)
      [] ast[i].type = "hardbreak" -> <<" ">>
      [] OTHER -> << >>])

\* The leaves a tree shows that must not be torn apart.
RECURSIVE Atoms(_)
Atoms(ast) ==
  FlattenSeq([i \in DOMAIN ast |->
    CASE ast[i].type \in {"image", "math", "fnref", "hardbreak"} -> <<ast[i]>>
      [] ast[i].type \in Wrappers \cup {"show"} -> Atoms(ast[i].children)
      [] OTHER -> << >>])

\* Tags are closed in the order they were opened, and a speak tag holds text.
WellTagged(nodes) ==
  LET scan(acc, n) ==
        LET top == IF acc.open = << >> THEN "" ELSE Last(acc.open)
        IN  CASE n.type = "html" /\ n.content \in {"show", "speak", "cap"} ->
                   [open |-> Append(acc.open, n.content),
                    ok |-> acc.ok /\ top # "speak" /\ ~ (n.content = "cap" /\ Contains(acc.open, "cap"))]
              [] n.type = "html" /\ acc.open # << >> ->
                   [open |-> Front(acc.open), ok |-> acc.ok /\ n.content = "/" \o top]
              [] n.type \notin {"html", "text"} -> [acc EXCEPT !.ok = @ /\ top # "speak"]
              [] OTHER -> acc
      end == FoldLeft(scan, [open |-> << >>, ok |-> TRUE], nodes)
  IN  end.ok /\ end.open = << >>

-----------------------------------------------------------------------------
(***************************************************************************)
(* What a document is meant to say: a reference without counters, splits   *)
(* and skip positions.                                                     *)
(***************************************************************************)

ImageText(nodes) ==
  LET image == SelectInSeq(nodes, LAMBDA n : n.type = "image")
      caption == ExtractCaptionNodes(nodes, image + 1)
  IN  IF caption = << >> THEN InformativeAlt(nodes[image].content) ELSE Process(caption)

\* Block i stands between an opening html block and the next closing tag.
Hidden(children, i) ==
  LET opening(j) == children[j].type = "html_block" /\ children[j].opens /\ ~ children[j].closes
      closing(j) == \/ children[j].type = "html_block" /\ children[j].closes
                    \/ BlockCloses(children[j])
  IN  \E j \in 1 .. i - 1 : opening(j) /\ ~ \E k \in j + 1 .. i - 1 : closing(k)

RECURSIVE Meant(_, _)
MeantNode(node, annotation) ==
  CASE node.type \in {"paragraph", "heading"} ->
         IF node.type = "paragraph" /\ IsStandaloneImage(node.inline)
         THEN ImageText(node.inline) ELSE Process(node.inline)
    [] node.type = "math_block" -> annotation
    [] node.type = "list" -> RenderNestedList(node)
    [] node.type = "footnote_block" ->
         FlattenSeq([k \in DOMAIN node.notes |-> Meant(node.notes[k].children, FALSE)])
    [] node.type = "blockquote" ->
         IF ~ IsCallout(node) THEN Meant(node.children, FALSE)
         ELSE CalloutTitle(node.children[1].inline)
                \o Process(From(node.children[1].inline, LineEnd(node.children[1].inline) + 1))
                \o Meant(Tail(node.children), FALSE)
    [] OTHER -> << >>

\* The annotation of a display math is heard with it, and only at the root.
Meant(children, root) ==
  LET annotates(i) == /\ root /\ i > 1 /\ children[i - 1].type = "math_block"
                      /\ IsSpeakOnly(children[i])
  IN  FlattenSeq([i \in DOMAIN children |->
        IF Hidden(children, i) \/ annotates(i) THEN << >>
        ELSE MeantNode(children[i], IF i < Len(children) /\ annotates(i + 1)
                                    THEN ExtractSpeak(children[i + 1]) ELSE << >>)])

\* The positions marked at the root reach into a quote or a re-parsed block: it
\* has a child there, or display math just before the place.
MarksClash(children) ==
  LET reaches(p, inner) == p < Len(inner) \/ (p = Len(inner) /\ inner[p].type = "math_block")
  IN  \E i \in DOMAIN children : \E p \in FindMathAnnotations(children) :
        CASE children[i].type = "blockquote" ->
               ~ IsCallout(children[i]) /\ reaches(p, children[i].children)
          [] children[i].type = "html_block" ->
               p = 1 /\ Len(children[i].inner) = 1 /\ reaches(p, children[i].inner)
          [] OTHER -> FALSE

-----------------------------------------------------------------------------
Doc == Transform(input.items)
Book == ExtractEpub(input.book, input.items, Images)

\* get_audio_blocks: the chunks in the order of their indices.
Heard(chunks) ==
  FoldLeft(LAMBDA acc, c : acc \o c.text, << >>, SortSeq(chunks, LAMBDA a, b : a.idx < b.idx))

WellFormed(blocks, chunks) ==
  /\ \A i \in DOMAIN blocks :
       blocks[i].type \in {"heading", "paragraph", "image", "math", "list", "blockquote",
                          "footnotes", "table", "code", "hr"}
  /\ \A i \in DOMAIN chunks : chunks[i].idx \in Nat /\ chunks[i].text # << >>

DocumentWellFormed(blocks) == WellFormed(blocks, AudioChunks(blocks))

\* A document is made of the content blocks of models.py, and an audio chunk has
\* an index and something to say.
TypeOK ==
  /\ input.kind \in DOMAIN Vocabulary
  /\ Len(input.items) <= Bound[input.kind]
  /\ input.kind = "doc" => DocumentWellFormed(Doc.blocks)

\* TextSplitter.get_chunk_ranges: whatever mix of sentences, pauses, closing
\* marks and white space a text is, its chunks tile it.
ChunksTile == input.kind = "text" => Tiles(Strip(input.items))

\* TextSplitter: no chunk is longer than the soft limit or a full chunk with its
\* short rest, and none is blank in a text without doubled spaces.
ChunksBounded == input.kind = "text" => Bounded(Strip(input.items))

\* InlineProcessor and transform_inline_to_ast walk the nodes separately and
\* must agree on every character: the positions a text is split at are used to
\* slice the tree.  They agree on tags that are nested properly.
SpokenIsShown ==
  input.kind \in {"tags", "flow"} /\ WellTagged(input.items) =>
    LET ast == TransformInlineToAst(input.items)
    IN  /\ Spoken(ast) = Process(input.items)
        /\ AstLength(ast) = Len(Process(input.items))

SpeaksChunks(chunks, tts) ==
  /\ \A i \in DOMAIN chunks : Strip(Spoken(chunks[i].ast)) = chunks[i].text
  /\ Len(chunks) > 0 =>
       Strip(Spoken(FlattenSeq([i \in DOMAIN chunks |-> chunks[i].ast]))) = Strip(tts)
SlicedRight(ast, tts) ==
  /\ tts # << >> => tts[1] # " "
  /\ \A a \in ToSet(Atoms(ast)) : a.type = "image" => Len(a.content) = 0
  => SpeaksChunks(SplitWithSpans(tts, ast), tts)

\* split_with_spans: the slice shown for a chunk speaks that chunk's words, and
\* the slices together say the block once (where the text has no leading space
\* and no image, which is never cut, straddles a chunk).
SliceSpeaksItsChunk ==
  input.kind = "flow" /\ WellTagged(input.items) =>
    SlicedRight(TransformInlineToAst(input.items), Process(input.items))

AtomsKept(ast, chunks) ==
  chunks # << >> =>
    ToSet(Atoms(ast)) \subseteq UNION {ToSet(Atoms(chunks[i].ast)) : i \in DOMAIN chunks}
EdgesKept(ast, tts) == AtomsKept(ast, SplitWithSpans(tts, ast))

\* split_with_spans: no formula, footnote reference, line break or image that
\* stands at a chunk's edge is lost from the display.
NothingLostAtEdges ==
  input.kind = "flow" => EdgesKept(TransformInlineToAst(input.items), Process(input.items))

Dense(chunks) == {chunks[i].idx : i \in DOMAIN chunks} = 0 .. Len(chunks) - 1
SaysAll(chunks, text) == Letters(Heard(chunks)) = Letters(text)
PlaysThrough(ok, chunks, text) == ok /\ Dense(chunks) /\ SaysAll(chunks, text)
DocumentPlays(doc, text) == PlaysThrough(doc.ok, AudioChunks(doc.blocks), text)

\* _audio_idx_counter: whatever is re-parsed, hidden and stripped, the chunks of
\* a document are numbered 0, 1, ... without a gap or a duplicate (a block's
\* index is its key in the playback engine and in the synthesis requests);
\* played in that order, the document says what was written outside yap-show,
\* once, each formula by its annotation.
HeardAsWritten ==
  input.kind = "doc" /\ ~ MarksClash(input.items) => DocumentPlays(Doc, Meant(input.items, TRUE))

Paired(refs, notes, shown) ==
  LET count(label) == Quantify(DOMAIN refs, LAMBDA k : refs[k] = label)
  IN  /\ \A i, j \in DOMAIN shown.notes : shown.notes[i].label = shown.notes[j].label => i = j
      /\ \A i \in DOMAIN shown.notes :
           shown.notes[i].hasRef <=> Before(notes, i) < count(notes[i])
      /\ \A i \in DOMAIN refs : shown.refs[i].hasContent <=> refs[i] \in ToSet(notes)
DocumentPaired(doc) == Paired(BlockRefs(doc.blocks), BlockNotes(doc.blocks), doc.footnotes)

\* _process_footnotes: a label is shown by one footnote; the k-th footnote of a
\* label is linked exactly when the label is referenced k times; and a reference
\* is marked as leading somewhere exactly when its label is defined.
FootnotesPaired == input.kind = "doc" => DocumentPaired(Doc)

\* deduplicate_footnotes: however pages reuse a label, a reference still leads to
\* the footnote of its own page, or else to that of the only page defining it.
PageNotesKept ==
  input.kind = "pages" =>
    LET after == DeduplicateFootnotes(input.items)
        definers(pages, l) == {p \in DOMAIN pages : l \in Labels(pages[p], "def")}
    IN  \A p \in DOMAIN after : \A i \in DOMAIN after[p] :
          after[p][i].type = "ref" =>
            LET before == definers(input.items, input.items[p][i].label)
                now == definers(after, after[p][i].label)
            IN  /\ p \in before => now = {p}
                /\ p \notin before /\ Cardinality(before) = 1 => now = before

\* substitute_image_placeholders: whether the model left too many placeholders or
\* too few, each detected figure is shown once, in order, and no placeholder stays.
FiguresPlaced ==
  input.kind = "pages" =>
    \A p \in DOMAIN input.items : \A n \in 0 .. 3 :
      LET urls == [k \in 1 .. n |-> k]
          page == SubstituteImages(input.items[p], urls)
          figures == SelectSeq(page, LAMBDA t : t.type = "figure")
      IN  /\ [k \in DOMAIN figures |-> figures[k].url] = urls
          /\ SelectSeq(page, LAMBDA t : t.type # "figure")
               = SelectSeq(input.items[p], LAMBDA t : t.type # "hole")

\* detect_figures: in whichever order boxes are compared, no figure is shown twice
\* (as itself and as part of another), and only a box that is mostly inside one of
\* at least its size goes.
FiguresKeptOnce ==
  input.kind = "figures" =>
    LET found == Nms(input.items)
        kept == DropSmaller(found)
    IN  /\ \A i, j \in DOMAIN kept : i # j => ~ MostlyInside(kept[i], kept[j])
        /\ \A b \in ToSet(found) \ ToSet(kept) :
             \E c \in ToSet(found) \ {b} : Area(c) >= Area(b) /\ MostlyInside(b, c)
        /\ found # << >> => kept # << >>

\* assign_row_groups: the reader shows consecutive images with one row number side
\* by side, so a row has several figures and they stand together in the order the
\* extraction is given (where no row has a figure taller than its first).
RowsShownTogether ==
  input.kind = "figures" =>
    LET figures == DetectFigures(input.items)
        row(r) == {k \in DOMAIN figures : figures[k].row = r}
        box(k) == figures[k].box
        level == \A k, l \in DOMAIN figures :
                   figures[k].row = figures[l].row /\ figures[k].row > 0
                     /\ (\A m \in row(figures[k].row) : Center(box(k)) <= Center(box(m)))
                     => Height(box(l)) <= Height(box(k))
    IN  \A k \in DOMAIN figures : figures[k].row > 0 =>
          LET mine == row(figures[k].row)
          IN  /\ Cardinality(mine) > 1
              /\ level => mine = Min(mine) .. Max(mine)

\* _strip_yap_tags: a downloaded document shows what the reader shows, and
\* nothing that is only spoken (where no tag is nested in one of its kind).
DownloadShowsTheSame ==
  LET nodes == input.items
      tag(i, k) == nodes[i].type = "html" /\ nodes[i].content = k
      open(i, k) == Quantify(1 .. i, LAMBDA j : tag(j, k)) - Quantify(1 .. i, LAMBDA j : tag(j, "/" \o k))
      plain == /\ \A i \in DOMAIN nodes : nodes[i].type \notin Wrappers
               /\ \A i \in DOMAIN nodes, k \in {"show", "speak", "cap"} : open(i, k) \in {0, 1}
      shown == SelectSeq([i \in DOMAIN nodes |-> i],
                         LAMBDA i : nodes[i].type # "html" /\ open(i, "speak") = 0)
  IN  input.kind = "tags" /\ WellTagged(nodes) /\ plain =>
        StripYapTags(nodes) = [k \in DOMAIN shown |-> nodes[shown[k]]]

\* The notes of the archive, read or not: those a target could be taken for, since it
\* ends with their identifier, and those it names, with or without their file's name.
BookNotes ==
  UNION {{NoteText(f, id) : id \in ToSet(input.book[f].epub3 \o input.book[f].div
                                         \o input.book[f].springer \o input.book[f].old)}
         : f \in DOMAIN input.book}
Fitting(target) == {n \in BookNotes : IsSuffix(n.id, target)}
Named(target) == {n \in BookNotes : target = n.id \/ target = input.book[n.file].name \o n.id}

Resolved(labels, definitions, notes) ==
  \A i \in DOMAIN labels :
    LET target == labels[i].target
        n      == definitions[labels[i].label]
    IN  /\ labels[i].label \in DOMAIN definitions
        /\ n \in Fitting(target) /\ input.book[n.file].parses
        /\ Named(target) # {} => n \in Named(target) \/ ~ (Fitting(target) \subseteq Named(target))
        /\ (\E k \in DOMAIN notes : notes[k].id = target) => n.id = target
        /\ \A j \in DOMAIN labels : labels[i].label = labels[j].label <=> target = labels[j].target

NoneLeft(text, notes) ==
  \A i \in DOMAIN text : text[i].type = "ref" =>
    \A k \in DOMAIN notes : notes[k].text \notin Named(text[i].target)

BookResolved(book, notes) ==
  /\ Resolved(SelectSeq(book.text, LAMBDA t : t.type = "label"), book.definitions, notes)
  /\ NoneLeft(book.text, notes)

\* convert_footnotes: whatever forms its references have and wherever its notes are
\* kept, a reference that names a note that was read is converted, to a label of its
\* own target, whose definition is a note the target names, with or without its file,
\* and the one of exactly that identifier if there is one. Matching by suffix cannot do
\* better than this: where a note of another file, or a shorter identifier, ends the
\* target as well, its text may be given instead.
EpubNotesResolve == input.kind = "epub" => BookResolved(Book, ExtractFootnotes(input.book))

Words(text) == SelectSeq(text, LAMBDA x : x.type = "word")
WordsKept(text, book) ==
  LET outside == SelectSeq([i \in DOMAIN text |-> i], LAMBDA i : ~ InNotesSection(text, i))
  IN  Words(book.text) = IF book.definitions = << >> THEN Words(text)
                         ELSE Words([k \in DOMAIN outside |-> text[outside[k]]])

\* convert_footnotes: the words of a book outside its notes sections are kept in
\* order, and a book none of whose references resolves keeps every one.
EpubWordsKept == input.kind = "epub" => WordsKept(input.items, Book)

ImagesOf(text) == {i \in DOMAIN text : text[i].type = "img"}
ImagesKept(book) ==
  /\ \A i \in ImagesOf(book.text) :
       "path" \in DOMAIN book.text[i] => ~ Contains(Images, book.text[i].path)
  /\ \A k \in DOMAIN Images :
       /\ \E i \in ImagesOf(input.items) : input.items[i].path = Images[k]
       /\ \/ book.definitions = << >>
          \/ \A j \in DOMAIN input.items : input.items[j].type # "heading"
       => \E i \in ImagesOf(book.text) : "url" \in DOMAIN book.text[i] /\ book.text[i].url = k

\* _dedup_images, _store_images_and_rewrite: in whichever of the two forms pandoc
\* left it, an extracted image of the kept text is shown, by its stored name.
EpubImagesShown == input.kind = "epub" => ImagesKept(Book)

\* What is highlighted is what is heard: chunks tile the text within their bounds,
\* and each is shown by a slice of the tree that says it, with nothing lost between.
ChunksFaithful ==
  TypeOK /\ ChunksTile /\ ChunksBounded /\ SpokenIsShown /\ SliceSpeaksItsChunk /\ NothingLostAtEdges

\* A document is heard, shown and downloaded as it was written, by gapless indices.
HeardInOrder == HeardAsWritten /\ DownloadShowsTheSame /\ EpubWordsKept

\* A reference leads to its own note, in one page, across pages, and in a book.
NotesResolve == FootnotesPaired /\ PageNotesKept /\ EpubNotesResolve

\* A figure is found once, placed once, and stands where its page had it.
FiguresShown == FiguresKeptOnce /\ RowsShownTogether /\ FiguresPlaced /\ EpubImagesShown
=============================================================================
