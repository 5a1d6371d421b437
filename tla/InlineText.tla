----------------------------- MODULE InlineText -----------------------------
(***************************************************************************)
(* The inline half of yapit/gateway/markdown/transformer.py: a block's     *)
(* inline nodes become a text to speak (InlineProcessor) and, separately,  *)
(* a tree to display (transform_inline_to_ast); the tree is then sliced at *)
(* the character positions the text was split at.                          *)
(*                                                                         *)
(* A node is a record with a type and a content (a text), children or a    *)
(* label.  A yap tag is an "html" node whose content is "show", "/show",   *)
(* "speak", "/speak", "cap" or "/cap".  The four wrappers (strong, em, s,  *)
(* link) differ in a footnote pass only.                                   *)
(***************************************************************************)
EXTENDS TextSplitting

Wrappers == {"strong", "em", "s", "link"}
Placeholder == <<"P">>           \* an alt text such as "Image 3"

IsTag(node, tag) == node.type = "html" /\ node.content = tag
Opens(node, tag) == IsTag(node, tag)
Closes(node, tag) == IsTag(node, "/" \o tag)

InformativeAlt(alt) == IF alt = Placeholder THEN << >> ELSE alt

From(nodes, i) == SubSeq(nodes, i, Len(nodes))

-----------------------------------------------------------------------------
(***************************************************************************)
(* InlineProcessor: the text to speak.                                     *)
(***************************************************************************)

RECURSIVE NodeToTTS(_)
NodeToTTS(node) ==
  CASE node.type \in {"text", "code"} -> node.content
    [] node.type \in Wrappers ->
         FlattenSeq([i \in DOMAIN node.children |-> NodeToTTS(node.children[i])])
    [] node.type = "image" -> InformativeAlt(node.content)
    [] node.type \in {"softbreak", "hardbreak"} -> <<" ">>
    [] OTHER -> << >>          \* math, tags and footnote references are silent

\* _extract_tag_content: what stands before the first closing tag, and how many
\* nodes are consumed; everything and nothing when the tag is not closed.
ExtractTagContent(nodes, tag) ==
  LET close == SelectInSubSeq(nodes, 2, Len(nodes), LAMBDA n : Closes(n, tag))
  IN  IF close = 0
      THEN [text |-> << >>, consumed |-> Len(nodes)]
      ELSE [text |-> FlattenSeq([i \in 1 .. close - 2 |-> NodeToTTS(nodes[i + 1])]),
            consumed |-> close]

RECURSIVE ProcessNodes(_, _)
ProcessNodes(nodes, inShow) ==
  IF nodes = << >> THEN << >>
  ELSE LET node == Head(nodes)
           speak == ExtractTagContent(nodes, "speak")
           cap == ExtractTagContent(nodes, "cap")
           heard(text) == IF inShow = 0 THEN text ELSE << >>
       IN  CASE Opens(node, "show") -> ProcessNodes(Tail(nodes), inShow + 1)
             [] Closes(node, "show") ->
                  ProcessNodes(Tail(nodes), IF inShow = 0 THEN 0 ELSE inShow - 1)
             [] Opens(node, "speak") ->
                  heard(speak.text) \o ProcessNodes(From(nodes, speak.consumed + 1), inShow)
             [] Opens(node, "cap") -> ProcessNodes(From(nodes, cap.consumed + 1), inShow)
             [] OTHER -> heard(NodeToTTS(node)) \o ProcessNodes(Tail(nodes), inShow)

Process(nodes) == ProcessNodes(nodes, 0)

-----------------------------------------------------------------------------
(***************************************************************************)
(* transform_inline_to_ast: the tree to display.                           *)
(***************************************************************************)

\* The node that closes the tag nodes[1] opens, counting nested ones; one past
\* the end when there is none.
Closing(nodes, tag) ==
  Min({Len(nodes) + 1} \cup
      {i \in 2 .. Len(nodes) : Closes(nodes[i], tag)
         /\ Quantify(1 .. i, LAMBDA k : Opens(nodes[k], tag))
              = Quantify(1 .. i, LAMBDA k : Closes(nodes[k], tag))})

\* The text nodes that stand directly between a speak tag and its close.
SpokenBetween(inner) ==
  FlattenSeq([i \in DOMAIN inner |->
    IF inner[i].type = "text"
         /\ Quantify(1 .. i, LAMBDA k : Opens(inner[k], "speak"))
              = Quantify(1 .. i, LAMBDA k : Closes(inner[k], "speak"))
    THEN inner[i].content ELSE << >>])

RECURSIVE TransformInlineNode(_)
TransformInlineNode(node) ==
  CASE node.type \in {"text", "code", "math", "fnref", "hardbreak"} -> <<node>>
    [] node.type = "softbreak" -> << [type |-> "text", content |-> <<" ">>] >>
    [] node.type = "image" ->
         << [type |-> "image", content |-> InformativeAlt(node.content)] >>
    [] node.type \in Wrappers ->
         << [type |-> node.type,
             children |-> FlattenSeq([i \in DOMAIN node.children |->
                            TransformInlineNode(node.children[i])])] >>
    [] OTHER -> << >>

RECURSIVE TransformInlineToAst(_)
TransformInlineToAst(nodes) ==
  IF nodes = << >> THEN << >>
  ELSE LET node == Head(nodes)
           tag == IF node.type = "html" THEN node.content ELSE ""
           close == Closing(nodes, tag)
           inner == SubSeq(nodes, 2, close - 1)
           shown == TransformInlineToAst(inner)
           text == SpokenBetween(inner)
       IN  CASE tag = "show" ->
                  (IF shown = << >> THEN << >> ELSE << [type |-> "show", children |-> shown] >>)
                    \o TransformInlineToAst(From(nodes, close + 1))
             [] tag = "speak" ->
                  (IF text = << >> THEN << >> ELSE << [type |-> "speak", content |-> text] >>)
                    \o TransformInlineToAst(From(nodes, close + 1))
             [] tag = "cap" -> TransformInlineToAst(From(nodes, close + 1))
             [] OTHER -> TransformInlineNode(node) \o TransformInlineToAst(Tail(nodes))

-----------------------------------------------------------------------------
(***************************************************************************)
(* Slicing.                                                                *)
(***************************************************************************)

Sum(lengths) == FoldLeft(LAMBDA a, b : a + b, 0, lengths)

RECURSIVE GetInlineLength(_)
GetInlineLength(node) ==
  CASE node.type \in {"text", "code", "speak", "image"} -> Len(node.content)
    [] node.type \in Wrappers ->
         Sum([i \in DOMAIN node.children |-> GetInlineLength(node.children[i])])
    [] node.type = "hardbreak" -> 1
    [] node.type = "list" ->      \* the items are joined by a space
         Sum([k \in DOMAIN node.items |->
                Sum([i \in DOMAIN node.items[k] |-> GetInlineLength(node.items[k][i])])])
           + (IF node.items = << >> THEN 0 ELSE Len(node.items) - 1)
    [] OTHER -> 0                 \* math, footnote references and yap-show

AstLength(ast) == Sum([i \in DOMAIN ast |-> GetInlineLength(ast[i])])

\* The part of a node between two character positions; SliceAst puts the
\* parts of a sequence of nodes together.  A node of length 0 belongs to every
\* slice it touches, any other one to the slices it overlaps.
RECURSIVE SliceInlineNode(_, _, _), SliceAst(_, _, _)
SliceInlineNode(node, start, end) ==
  LET content == SubSeq(node.content, start + 1, end)
      inner == SliceAst(node.children, start, end)
  IN  CASE node.type \in {"text", "code", "speak"} ->
             IF content = << >> THEN << >> ELSE << [node EXCEPT !.content = content] >>
        [] node.type \in Wrappers ->
             IF inner = << >> THEN << >> ELSE << [node EXCEPT !.children = inner] >>
        [] node.type \in {"image", "math", "fnref", "show"} ->
             IF start = 0 THEN <<node>> ELSE << >>
        [] node.type \in {"hardbreak", "list"} ->
             IF start = 0 /\ end > 0 THEN <<node>> ELSE << >>

SliceAst(ast, start, end) ==
  FlattenSeq([i \in DOMAIN ast |->
    LET pos == AstLength(SubSeq(ast, 1, i - 1))
        length == GetInlineLength(ast[i])
        before == pos + length < start \/ (pos + length = start /\ length > 0)
    IN  IF before \/ pos > end THEN << >>
        ELSE SliceInlineNode(ast[i], Max({0, start - pos}) , Min({length, end - pos}))])

Chunk(text, ast, range, end) ==
  [text |-> Strip(Cut(text, range)), ast |-> SliceAst(ast, range[1], end)]

\* Mutant of Sliced: the last slice ends with the stripped text.
MNoTail(text, ast, ranges) ==
  [i \in DOMAIN ranges |-> Chunk(text, ast, ranges[i], ranges[i][2])]

Sliced(text, ast, ranges) ==
  [i \in DOMAIN ranges |->
     Chunk(text, ast, ranges[i],
           IF i = Len(ranges) THEN Max({ranges[i][2], AstLength(ast)}) ELSE ranges[i][2])]

ChunksOf(text, ast, ranges) ==
  CASE text = << >> -> << >>
    [] text # << >> /\ Len(ranges) <= 1 -> << [text |-> text, ast |-> ast] >>
    [] OTHER -> Sliced(text, ast, ranges)

\* split_with_spans: a chunk's text and the slice of the tree shown with it.
SplitStripped(text, ast) == ChunksOf(text, ast, GetChunkRanges(text))
SplitWithSpans(tts, ast) == SplitStripped(Strip(tts), ast)
=============================================================================
