--------------------------- MODULE MCMarkdownText ---------------------------
(***************************************************************************)
(* The vocabulary of the inputs TLC enumerates.                            *)
(***************************************************************************)
EXTENDS MarkdownText

T(text) == [type |-> "text", content |-> text]
Tag(name) == [type |-> "html", content |-> name]
Leaf(type) == [type |-> type]
Image(alt) == [type |-> "image", content |-> alt]
Strong(children) == [type |-> "strong", children |-> children]
Ref(label) == [type |-> "fnref", label |-> <<label>>]

MCCharacters == {"a", " ", ".", ",", ")"}

MCInlineNodes ==
  {T(<<"a">>), Strong(<<T(<<"b">>), Tag("show"), Leaf("math")>>), Image(<<"P">>), Leaf("hardbreak"),
   Tag("show"), Tag("/show"), Tag("speak"), Tag("/speak"), Tag("cap"), Tag("/cap")}

MCFlowNodes ==
  {T(<<"a", "b", ".">>), T(<<" ", "c">>), Strong(<<T(<<"d", "e">>), Leaf("math"), T(<<",">>)>>),
   Leaf("softbreak"), Leaf("hardbreak"), Leaf("math"), Image(<<"i", "j">>), Ref(1)}

Para(nodes) == [type |-> "paragraph", inline |-> nodes]
Html(opens, closes, inner) ==
  [type |-> "html_block", opens |-> opens, closes |-> closes, inner |-> inner]
Quote(children) == [type |-> "blockquote", children |-> children]
Formula == [type |-> "math_block"]
Annotation == Para(<<Tag("speak"), T(<<"s">>), Tag("/speak")>>)
Note(label, text) == [label |-> <<label>>, children |-> <<Para(<<T(text)>>)>>]
Notes(notes) == [type |-> "footnote_block", notes |-> notes]
Table(cells) == [type |-> "table", cells |-> cells]
List(items) == [type |-> "list", items |-> items]

MCBlockNodes ==
  {Para(<<T(<<"a", ",", "b", " ", "c", ".">>), Ref(1)>>),
   Para(<<T(<<"d">>), Tag("/show"), T(<<"e">>)>>),
   Para(<<Image(<<"P">>), Tag("cap"), T(<<"f">>), Tag("/cap")>>),
   Formula, Annotation,
   Html(TRUE, FALSE, <<Para(<<T(<<"g">>), Ref(1)>>)>>),
   Html(FALSE, TRUE, << >>),
   Html(TRUE, TRUE, <<Formula, Para(<<T(<<"h">>)>>), Table(<< <<Ref(1)>> >>), Notes(<<Note(1, <<"n">>)>>)>>),
   Quote(<<Para(<<T(<<"i">>)>>)>>),
   Quote(<<Para(<<T(<<"!", "t">>), Leaf("softbreak"), T(<<"j">>), Ref(1)>>), Para(<<T(<<"k">>)>>)>>),
   List(<< <<Para(<<T(<<"l">>)>>), List(<< <<Para(<<T(<<"m">>)>>)>> >>)>>, <<Para(<<T(<<"o">>), Ref(2)>>)>>,
          <<Para(<<Image(<<"P">>)>>)>> >>),
   Notes(<<Note(2, <<"p">>), Note(1, <<"q">>)>>)}

Word == [type |-> "word"]
Hole == [type |-> "hole"]
Cite(label) == [type |-> "ref", label |-> <<label>>]
Def(label) == [type |-> "def", label |-> <<label>>]

MCPages ==
  {<<Word, Cite(1)>>, <<Cite(1), Hole, Def(1)>>, <<Cite(2), Def(1), Hole, Hole>>, <<Cite(1), Cite(2), Def(2), Def(1)>>,
   << >>, <<Def(2)>>}

RefTo(form, target) == [type |-> "ref", form |-> form, target |-> target]
Img(form, path) == [type |-> "img", form |-> form, path |-> path]
MCImages == <<"x", "y">>

MCBookItems ==
  {[type |-> "word", text |-> "a"], [type |-> "word", text |-> "b"],
   [type |-> "heading", notes |-> TRUE], [type |-> "heading", notes |-> FALSE],
   RefTo(1, <<"f", "n">>), RefTo(2, <<"n">>), RefTo(4, <<"m", "n">>), RefTo(3, <<"q">>),
   Img("md", "x"), Img("tag", "x"), Img("tag", "y")}

File(name, parses, epub3, div, springer, old) ==
  [name |-> <<name>>, parses |-> parses, epub3 |-> epub3, div |-> div, springer |-> springer, old |-> old]
MCBooks ==
  {<<File("f", TRUE, << <<"n">>, <<"m", "n">> >>, << >>, << >>, << >>)>>,
   <<File("m", FALSE, << <<"q">> >>, << >>, << >>, << >>), File("f", TRUE, << >>, << >>, << >>, << <<"m", "n">>, <<"n">> >>)>>,
   <<File("f", TRUE, << >>, << <<"n">> >>, << >>, << <<"q">> >>), File("m", TRUE, << >>, << >>, << <<"n">>, <<"q">> >>, << >>)>>,
   << >>}

Box(x1, y1, x2, y2) == [x1 |-> x1, y1 |-> y1, x2 |-> x2, y2 |-> y2]

\* Side by side, one above the other, nested, a chain of overlaps, a tall one.
MCBoxes ==
  {Box(0, 0, 2, 2), Box(2, 0, 4, 2), Box(0, 2, 2, 4), Box(2, 1, 4, 4), Box(2, 0, 4, 6),
   Box(0, 0, 4, 2), Box(0, 0, 4, 4), Box(1, 0, 2, 3), Box(1, 1, 4, 5), Box(0, 4, 2, 6), Box(2, 4, 3, 5)}
=============================================================================
