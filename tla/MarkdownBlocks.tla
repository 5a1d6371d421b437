--------------------------- MODULE MarkdownBlocks ---------------------------
(***************************************************************************)
(* DocumentTransformer of yapit/gateway/markdown/transformer.py: the block *)
(* nodes of a parsed document become content blocks, and the text each     *)
(* block speaks becomes audio chunks numbered through the document.        *)
(*                                                                         *)
(* A block node has a type and                                             *)
(*   inline    of a paragraph or heading: its inline nodes (InlineText)    *)
(*   children  of a blockquote: its block nodes                            *)
(*   items     of a list: per item, its paragraphs and nested lists        *)
(*   cells     of a table: the inline nodes of each cell                   *)
(*   notes     of a footnote block: records [label, children]              *)
(*   opens, closes, inner  of an html_block: does it start with a yap-show *)
(*             tag, does it hold the closing tag, and the nodes the text   *)
(*             between them parses to                                      *)
(* A text that starts with the character "!" carries a callout marker.     *)
(***************************************************************************)
EXTENDS InlineText

Block(type) == [type |-> type, ast |-> << >>, chunks |-> << >>, blocks |-> << >>,
                items |-> << >>, asts |-> << >>]

\* audio_chunks, numbered from idx.
Numbered(c, idx) == [i \in DOMAIN c |-> [text |-> c[i].text, ast |-> c[i].ast, idx |-> idx + i - 1]]
Chunks(text, ast, idx) == Numbered(SplitWithSpans(text, ast), idx)

\* What a handler returns: its blocks, the next audio index, and whether it
\* ran to its end (it may index past the end of a list of children).
Done(blocks, idx) == [blocks |-> blocks, idx |-> idx, ok |-> TRUE]

WithChunks(block, chunks, idx) == Done(<<[block EXCEPT !.chunks = chunks]>>, idx + Len(chunks))
WithText(block, text, ast, idx) == WithChunks(block, Chunks(text, ast, idx), idx)

-----------------------------------------------------------------------------
\* _is_speak_only_paragraph, _extract_speak_from_paragraph
IsSpeakOnly(node) ==
  /\ node.type = "paragraph" /\ Len(node.inline) >= 2
  /\ Opens(node.inline[1], "speak")
  /\ LET close == SelectInSeq(node.inline, LAMBDA n : Closes(n, "speak"))
     IN  /\ close # 0
         /\ \A i \in close + 1 .. Len(node.inline) :
              node.inline[i].type = "text" /\ IsBlank(node.inline[i].content)

ExtractSpeak(node) ==
  LET nodes == IF node.type = "paragraph" THEN node.inline ELSE << >>
  IN  FlattenSeq([i \in DOMAIN nodes |->
        LET tags == {k \in 1 .. i : Opens(nodes[k], "speak") \/ Closes(nodes[k], "speak")}
        IN  IF nodes[i].type = "text" /\ tags # {} /\ Opens(nodes[Max(tags)], "speak")
            THEN nodes[i].content ELSE << >>])

\* _find_math_annotations: the (0-based) positions among the root's children of
\* the paragraphs that only annotate the display math before them.
FindMathAnnotations(children) ==
  {i \in 1 .. Len(children) - 1 :
     children[i].type = "math_block" /\ IsSpeakOnly(children[i + 1])}

\* _node_contains_inline_tag, for the closing yap-show tag
RECURSIVE InlineCloses(_), BlockCloses(_)
InlineCloses(nodes) ==
  \E i \in DOMAIN nodes : \/ Closes(nodes[i], "show")
                          \/ nodes[i].type \in Wrappers /\ InlineCloses(nodes[i].children)
BlockCloses(node) ==
  CASE node.type \in {"paragraph", "heading"} -> InlineCloses(node.inline)
    [] node.type = "blockquote" ->
         \E i \in DOMAIN node.children : BlockCloses(node.children[i])
    [] node.type = "list" ->
         \E k \in DOMAIN node.items : \E i \in DOMAIN node.items[k] : BlockCloses(node.items[k][i])
    [] node.type = "table" -> \E k \in DOMAIN node.cells : InlineCloses(node.cells[k])
    [] node.type = "footnote_block" ->
         \E k \in DOMAIN node.notes :
            \E i \in DOMAIN node.notes[k].children : BlockCloses(node.notes[k].children[i])
    [] OTHER -> FALSE

\* _strip_audio_recursive
RECURSIVE StripAudio(_)
StripAudio(blocks) ==
  [i \in DOMAIN blocks |->
     [blocks[i] EXCEPT
        !.chunks = << >>,
        !.blocks = StripAudio(@),
        !.items = [k \in DOMAIN @ |-> IF blocks[i].type = "list"
                                      THEN [@[k] EXCEPT !.chunks = << >>]
                                      ELSE [@[k] EXCEPT !.blocks = StripAudio(@)]]]]

-----------------------------------------------------------------------------
(***************************************************************************)
(* Handlers of the leaves.                                                 *)
(***************************************************************************)

\* _is_standalone_image: an image is all that stands outside the yap tags.
IsStandaloneImage(nodes) ==
  LET tagDepth[i \in 0 .. Len(nodes)] ==
        IF i = 0 THEN 0
        ELSE CASE nodes[i].type = "html" /\ nodes[i].content \in {"show", "speak", "cap"} ->
                    tagDepth[i - 1] + 1
               [] nodes[i].type = "html" /\ nodes[i].content \in {"/show", "/speak", "/cap"} ->
                    Max({0, tagDepth[i - 1] - 1})
               [] OTHER -> tagDepth[i - 1]
      meaningful == {i \in DOMAIN nodes :
                       /\ nodes[i].type \notin {"html", "softbreak", "hardbreak"}
                       /\ tagDepth[i] = 0
                       /\ ~ (nodes[i].type = "text" /\ IsBlank(nodes[i].content))}
  IN  \E i \in DOMAIN nodes : nodes[i].type = "image" /\ meaningful = {i}

\* extract_caption_nodes: what a closed yap-cap right behind the image holds.
ExtractCaptionNodes(nodes, at) ==
  LET close == SelectInSubSeq(nodes, at + 1, Len(nodes), LAMBDA n : Closes(n, "cap"))
  IN  IF at > Len(nodes) \/ ~ Opens(nodes[at], "cap") \/ close = 0
      THEN << >> ELSE SubSeq(nodes, at + 1, close - 1)

CreateImageBlock(nodes, idx) ==
  LET image == SelectInSeq(nodes, LAMBDA n : n.type = "image")
      alt == InformativeAlt(nodes[image].content)
      caption == ExtractCaptionNodes(nodes, image + 1)
      altAst == IF alt = << >> THEN << >> ELSE << [type |-> "text", content |-> alt] >>
  IN  IF caption = << >>
      THEN WithText(Block("image"), alt, altAst, idx)
      ELSE WithText(Block("image"), Process(caption), TransformInlineToAst(caption), idx)

ShownAndSpoken(block, text, ast, idx) == WithText([block EXCEPT !.ast = ast], text, ast, idx)
InlineBlock(type, nodes, idx) ==
  ShownAndSpoken(Block(type), Process(nodes), TransformInlineToAst(nodes), idx)

\* _transform_paragraph and _transform_heading
TransformInline(type, nodes, idx) ==
  IF type = "paragraph" /\ IsStandaloneImage(nodes) THEN CreateImageBlock(nodes, idx)
  ELSE InlineBlock(type, nodes, idx)

\* _transform_math: the annotation is looked up by the root's skip positions.
\* siblings is << >> where the caller passes no parent.
TransformMath(siblings, index, skip, idx) ==
  LET text == ExtractSpeak(siblings[index + 2])
  IN  CASE siblings = << >> \/ index + 1 \notin skip -> Done(<<Block("math")>>, idx)
        [] siblings # << >> /\ index + 1 \in skip /\ index + 2 > Len(siblings) ->
             [blocks |-> << >>, idx |-> idx, ok |-> FALSE]       \* IndexError
        [] OTHER ->
             WithText(Block("math"), text, << [type |-> "text", content |-> Strip(text)] >>, idx)

TransformTable(cells, idx) ==
  Done(<<[Block("table") EXCEPT !.asts =
            [k \in DOMAIN cells |-> TransformInlineToAst(cells[k])]]>>, idx)

-----------------------------------------------------------------------------
(***************************************************************************)
(* Lists.                                                                  *)
(***************************************************************************)

Joined(texts) ==
  FlattenSeq([i \in DOMAIN texts |-> IF i = 1 THEN texts[i] ELSE <<" ">> \o texts[i]])

\* _render_nested_list
RECURSIVE RenderNestedList(_)
RenderNestedList(list) ==
  Joined([k \in DOMAIN list.items |->
    Joined([i \in DOMAIN list.items[k] |->
      LET child == list.items[k][i]
      IN  IF child.type = "list" THEN RenderNestedList(child) ELSE Process(child.inline)])])

\* Asts put one behind the other with a space node between them.
Spaced(asts) ==
  FoldLeft(LAMBDA acc, a : (IF acc = << >> THEN << >>
                            ELSE acc \o << [type |-> "text", content |-> <<" ">>] >>) \o a,
           << >>, asts)

\* _build_nested_list_ast
RECURSIVE BuildNestedListAst(_)
BuildNestedListAst(list) ==
  [type |-> "list",
   items |-> [k \in DOMAIN list.items |->
     Spaced([i \in DOMAIN list.items[k] |->
       LET child == list.items[k][i]
       IN  IF child.type = "list" THEN <<BuildNestedListAst(child)>>
           ELSE TransformInlineToAst(child.inline)])]]

\* The segments of an item, in document order.
Segment(child) ==
  IF child.type = "list"
  THEN [nested |-> TRUE, tts |-> RenderNestedList(child), ast |-> <<BuildNestedListAst(child)>>]
  ELSE [nested |-> FALSE, tts |-> Process(child.inline), ast |-> TransformInlineToAst(child.inline)]

\* One item: split as one text, or per segment when it holds a list.  Only a
\* nested list is set off by a space in the item's own tree.
SegmentAsts(segments) ==
  FoldLeft(LAMBDA acc, s : (IF s.nested THEN Spaced(<<acc, s.ast>>) ELSE acc \o s.ast), << >>, segments)

SegmentChunks(segments, ast, idx) ==
  IF \E i \in DOMAIN segments : segments[i].nested
  THEN FoldLeft(LAMBDA acc, s : acc \o Chunks(s.tts, s.ast, idx + Len(acc)), << >>, segments)
  ELSE Chunks(Joined([i \in DOMAIN segments |-> segments[i].tts]), ast, idx)

ItemOf(segments, ast, idx) == [ast |-> ast, chunks |-> SegmentChunks(segments, ast, idx)]

TransformItem(item, idx) ==
  LET segments == [i \in DOMAIN item |-> Segment(item[i])]
  IN  ItemOf(segments, SegmentAsts(segments), idx)

ItemAdded(acc, item) == [items |-> Append(acc.items, item), idx |-> acc.idx + Len(item.chunks)]
ListOf(all) == Done(<<[Block("list") EXCEPT !.items = all.items]>>, all.idx)

TransformList(node, idx) ==
  ListOf(FoldLeft(LAMBDA acc, item : ItemAdded(acc, TransformItem(item, acc.idx)),
                  [items |-> << >>, idx |-> idx], node.items))

-----------------------------------------------------------------------------
(***************************************************************************)
(* Callouts: the title line of a marked blockquote.                        *)
(***************************************************************************)

\* _extract_callout_info
IsCallout(node) ==
  /\ node.children # << >> /\ node.children[1].type = "paragraph"
  /\ node.children[1].inline # << >>
  /\ LET first == node.children[1].inline[1]
     IN  first.type = "text" /\ first.content # << >> /\ first.content[1] = "!"

RECURSIVE PlainText(_)
PlainText(node) ==
  CASE node.type \in {"text", "code"} -> node.content
    [] node.type \in Wrappers ->
         FlattenSeq([i \in DOMAIN node.children |-> PlainText(node.children[i])])
    [] OTHER -> << >>

LineEnd(nodes) ==
  LET break == SelectInSeq(nodes, LAMBDA n : n.type \in {"softbreak", "hardbreak"})
  IN  IF break = 0 THEN Len(nodes) + 1 ELSE break

CalloutTitle(nodes) ==
  LET marked == Tail(nodes[1].content)
      rest == [i \in 1 .. LineEnd(nodes) - 2 |-> PlainText(nodes[i + 1])]
  IN  Strip(Joined((IF marked = << >> THEN << >> ELSE <<marked>>) \o rest))

-----------------------------------------------------------------------------
(***************************************************************************)
(* The walk over the children.                                             *)
(***************************************************************************)

\* Items of a footnote block are shown by label, whatever order they were
\* transformed (and their audio numbered) in.
SortedByLabel(items) ==
  LET order == SortSeq([k \in DOMAIN items |-> k],
                 LAMBDA i, j : \/ items[i].label[1] < items[j].label[1]
                               \/ items[i].label = items[j].label /\ i < j)
  IN  [k \in DOMAIN order |-> items[order[k]]]

\* Mutant: the indices of hidden chunks are not given back.
MKeepIndices(acc) ==
  [acc EXCEPT !.blocks = @ \o StripAudio(acc.held), !.show = FALSE, !.held = << >>]

\* The end of an accumulation: what was shown is silent, and its audio indices
\* are given to what comes next.
CloseShow(acc) ==
  [acc EXCEPT !.blocks = @ \o StripAudio(acc.held), !.idx = acc.saved,
              !.show = FALSE, !.held = << >>]

\* What a handler returned, behind what there is: shown, or held in an open yap-show.
Appended(acc, r) == [acc EXCEPT !.blocks = @ \o r.blocks, !.idx = r.idx, !.ok = @ /\ r.ok]
Held(acc, r) == [acc EXCEPT !.held = @ \o r.blocks, !.idx = r.idx, !.ok = @ /\ r.ok]

Quoted(r, audio) ==
  [r EXCEPT !.blocks = <<[Block("blockquote") EXCEPT !.blocks = r.blocks, !.chunks = audio]>>]

NoteAdded(acc, label, r) ==
  [items |-> Append(acc.items, [label |-> label, blocks |-> r.blocks]),
   idx |-> r.idx, ok |-> acc.ok /\ r.ok]
FootnoteBlock(all) ==
  [blocks |-> <<[Block("footnotes") EXCEPT !.items = SortedByLabel(all.items)]>>,
   idx |-> all.idx, ok |-> all.ok]

Silent(r, idx) == [r EXCEPT !.blocks = StripAudio(@), !.idx = idx]

-----------------------------------------------------------------------------
RECURSIVE TransformNode(_, _, _, _, _), TransformAll(_, _, _, _), TransformChildren(_, _, _)

\* Nodes one after the other, each told which siblings it has (or none): the
\* content of a re-parsed html_block, a callout or a footnote.
TransformAll(nodes, siblings, skip, idx) ==
  FoldLeft(LAMBDA acc, node : Appended(acc, TransformNode(node, siblings, 0, skip, acc.idx)),
           Done(<< >>, idx), nodes)

TransformCallout(children, skip, idx) ==
  LET line == children[1].inline
      title == CalloutTitle(line)
      titleAudio == IF title = << >> THEN << >>
                    ELSE << [text |-> title, ast |-> << [type |-> "text", content |-> title] >>,
                             idx |-> idx] >>
      body == From(line, LineEnd(line) + 1)
      first == IF body = << >> THEN Done(<< >>, idx + Len(titleAudio))
               ELSE InlineBlock("paragraph", body, idx + Len(titleAudio))
      rest(from) == Appended(from, TransformAll(Tail(children), << >>, skip, from.idx))
  IN  Quoted(rest(first), titleAudio)

TransformBlockquote(node, skip, idx) ==
  IF IsCallout(node) THEN TransformCallout(node.children, skip, idx)
  ELSE Quoted(TransformChildren(node.children, skip, idx), << >>)

TransformFootnotes(node, skip, idx) ==
  IF node.notes = << >> THEN Done(<< >>, idx)
  ELSE FootnoteBlock(
         FoldLeft(LAMBDA acc, note :
                    NoteAdded(acc, note.label, TransformAll(note.children, << >>, skip, acc.idx)),
                  [items |-> << >>, idx |-> idx, ok |-> TRUE], node.notes))

\* _transform_html_block: a complete yap-show is shown and silent, any other
\* tag is dropped.
TransformHtmlBlock(node, skip, idx) ==
  IF node.opens /\ node.closes THEN Silent(TransformAll(node.inner, node.inner, skip, idx), idx)
  ELSE Done(<< >>, idx)

TransformNode(node, siblings, index, skip, idx) ==
  CASE node.type \in {"paragraph", "heading"} -> TransformInline(node.type, node.inline, idx)
    [] node.type \in {"code", "hr"} -> Done(<<Block(node.type)>>, idx)
    [] node.type = "list" -> TransformList(node, idx)
    [] node.type = "blockquote" -> TransformBlockquote(node, skip, idx)
    [] node.type = "table" -> TransformTable(node.cells, idx)
    [] node.type = "math_block" -> TransformMath(siblings, index, skip, idx)
    [] node.type = "footnote_block" -> TransformFootnotes(node, skip, idx)
    [] node.type = "html_block" -> TransformHtmlBlock(node, skip, idx)

\* A yap-show opens: what it starts with is held back, and the index to return to
\* remembered.
OpenShow(acc, inner) ==
  [acc EXCEPT !.show = TRUE, !.saved = acc.idx, !.held = inner.blocks, !.idx = inner.idx,
              !.ok = @ /\ inner.ok]

Placed(acc, node, r) ==
  IF ~ acc.show THEN Appended(acc, r)
  ELSE IF BlockCloses(node) THEN CloseShow(Held(acc, r)) ELSE Held(acc, r)

\* One turn of the loop of _transform_children.  An html_block inside an open
\* yap-show adds nothing: re-parsed, its text is an html_block again.
Visit(acc, children, i, skip) ==
  LET node == children[i]
      html == node.type = "html_block"
  IN  CASE i - 1 \in skip -> acc
        [] i - 1 \notin skip /\ html /\ ~ acc.show /\ node.opens /\ ~ node.closes ->
             OpenShow(acc, TransformAll(node.inner, node.inner, skip, acc.idx))
        [] i - 1 \notin skip /\ html /\ acc.show ->
             IF node.closes THEN CloseShow(acc) ELSE acc
        [] OTHER -> Placed(acc, node, TransformNode(node, children, i - 1, skip, acc.idx))

Closed(all) == IF all.held # << >> THEN CloseShow(all) ELSE all
Result(end) == [blocks |-> end.blocks, idx |-> end.idx, ok |-> end.ok]

TransformChildren(children, skip, idx) ==
  Result(Closed(FoldLeftDomain(LAMBDA acc, i : Visit(acc, children, i, skip),
                               [blocks |-> << >>, idx |-> idx, ok |-> TRUE,
                                show |-> FALSE, held |-> << >>, saved |-> 0], children)))

-----------------------------------------------------------------------------
(***************************************************************************)
(* _process_footnotes: footnotes that share a label are told apart, and    *)
(* references paired with them in order of appearance.                     *)
(***************************************************************************)

RECURSIVE AstRefs(_), BlockRefs(_), BlockNotes(_)
AstRefs(ast) ==
  FlattenSeq([i \in DOMAIN ast |->
    CASE ast[i].type = "fnref" -> <<ast[i].label>>
      [] ast[i].type \in {"strong", "em", "link", "show"} -> AstRefs(ast[i].children)
      [] OTHER -> << >>])
BlockRefs(blocks) ==
  FlattenSeq([i \in DOMAIN blocks |->
    AstRefs(blocks[i].ast)
      \o FlattenSeq([k \in DOMAIN blocks[i].asts |-> AstRefs(blocks[i].asts[k])])
      \o (IF blocks[i].type = "list"
          THEN FlattenSeq([k \in DOMAIN blocks[i].items |-> AstRefs(blocks[i].items[k].ast)])
          ELSE << >>)
      \o BlockRefs(blocks[i].blocks)])
BlockNotes(blocks) ==
  FlattenSeq([i \in DOMAIN blocks |->
    (IF blocks[i].type = "footnotes"
     THEN [k \in DOMAIN blocks[i].items |-> blocks[i].items[k].label] ELSE << >>)
      \o BlockNotes(blocks[i].blocks)])

\* How often a label occurs before position i.
Before(labels, i) == Quantify(1 .. i - 1, LAMBDA k : labels[k] = labels[i])

NoteLabels(notes) ==
  [i \in DOMAIN notes |->
     IF Before(notes, i) = 0 THEN notes[i] ELSE Append(notes[i], Before(notes, i) + 1)]

ProcessFootnotes(refs, notes) ==
  LET labels == NoteLabels(notes)
      ref(i) ==
        LET same == {k \in DOMAIN notes : notes[k] = refs[i] /\ Before(notes, k) = Before(refs, i)}
        IN  IF same = {} THEN refs[i] ELSE labels[Min(same)]
      refLabels == [i \in DOMAIN refs |-> ref(i)]
  IN  [refs |-> [i \in DOMAIN refs |->
                   [label |-> refLabels[i], hasContent |-> refLabels[i] \in ToSet(labels)]],
       notes |-> [i \in DOMAIN notes |->
                   [label |-> labels[i], hasRef |-> labels[i] \in ToSet(refLabels)]]]

\* DocumentTransformer.transform
WithFootnotes(r) ==
  [ok |-> r.ok, blocks |-> r.blocks,
   footnotes |-> ProcessFootnotes(BlockRefs(r.blocks), BlockNotes(r.blocks))]

Transform(children) ==
  WithFootnotes(TransformChildren(children, FindMathAnnotations(children), 0))

\* StructuredDocument.get_audio_blocks, before the sort: every chunk in the
\* order the document shows it.
RECURSIVE AudioChunks(_)
AudioChunks(blocks) ==
  FlattenSeq([i \in DOMAIN blocks |->
    blocks[i].chunks
      \o (IF blocks[i].type = "list"
          THEN FlattenSeq([k \in DOMAIN blocks[i].items |-> blocks[i].items[k].chunks])
          ELSE FlattenSeq([k \in DOMAIN blocks[i].items |-> AudioChunks(blocks[i].items[k].blocks)]))
      \o AudioChunks(blocks[i].blocks)])
=============================================================================
