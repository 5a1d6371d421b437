------------------------------ MODULE PageText ------------------------------
(***************************************************************************)
(* What happens to the markdown of extracted pages before it is one        *)
(* document: figures are put where the model left placeholders             *)
(* (document/figures.py), footnote labels that several pages define are    *)
(* told apart, and the pages joined (document/orchestration.py); and what  *)
(* is taken out again for a reader who downloads it (api/v1/documents.py). *)
(*                                                                         *)
(* A page is a sequence of items: [type |-> "word"], [type |-> "hole"] for *)
(* a placeholder, [type |-> "ref" or "def", label], [type |-> "figure",    *)
(* url].  A label is a sequence of parts, which the code joins by "-".     *)
(***************************************************************************)
EXTENDS InlineText

Labels(page, type) == {page[i].label : i \in {k \in DOMAIN page : page[k].type = type}}

\* Mutant: a label collides when another page so much as refers to it.
MAnyMention(pages) ==
  {l \in UNION {Labels(pages[p], "def") : p \in DOMAIN pages} :
     \E p, q \in DOMAIN pages :
       p # q /\ l \in Labels(pages[p], "def") /\ l \in Labels(pages[q], "def") \cup Labels(pages[q], "ref")}

\* deduplicate_footnotes: a label that more than one page defines gets the page
\* number in front, on the pages that define it.
CollidingLabels(pages) ==
  {l \in UNION {Labels(pages[p], "def") : p \in DOMAIN pages} :
     \E p, q \in DOMAIN pages : p # q /\ l \in Labels(pages[p], "def") \cap Labels(pages[q], "def")}

DeduplicateFootnotes(pages) ==
  [p \in DOMAIN pages |->
     LET rename == Labels(pages[p], "def") \cap CollidingLabels(pages)
     IN  [i \in DOMAIN pages[p] |->
            IF pages[p][i].type \in {"ref", "def"} /\ pages[p][i].label \in rename
            THEN [pages[p][i] EXCEPT !.label = <<p>> \o @]
            ELSE pages[p][i]]]

\* process_pages_to_document joins the pages in order.
JoinPages(pages) == FlattenSeq(DeduplicateFootnotes(pages))

\* Mutant: figures without a placeholder are dropped.
MNoExtra(page, urls) ==
  LET rank(i) == Quantify(1 .. i, LAMBDA k : page[k].type = "hole")
  IN  FlattenSeq([i \in DOMAIN page |->
        CASE page[i].type # "hole" -> <<page[i]>>
          [] page[i].type = "hole" /\ rank(i) <= Len(urls) ->
               << [type |-> "figure", url |-> urls[rank(i)]] >>
          [] OTHER -> << >>])

\* substitute_image_placeholders: the figures of a page, in order, in place of
\* its placeholders; those left over go to its end, placeholders left over go.
SubstituteImages(page, urls) ==
  LET figure(k) == [type |-> "figure", url |-> urls[k]]
      rank(i) == Quantify(1 .. i, LAMBDA k : page[k].type = "hole")
      holes == rank(Len(page))
      filled == FlattenSeq([i \in DOMAIN page |->
                  CASE page[i].type # "hole" -> <<page[i]>>
                    [] page[i].type = "hole" /\ rank(i) <= Len(urls) -> <<figure(rank(i))>>
                    [] OTHER -> << >>])
  IN  filled \o [k \in 1 .. Max({0, Len(urls) - holes}) |-> figure(holes + k)]

-----------------------------------------------------------------------------
\* _strip_yap_tags: every speak region goes with its text; of the others only
\* the tags go.  A region ends at the first closing tag.
FirstClose(nodes, tag) == SelectInSubSeq(nodes, 2, Len(nodes), LAMBDA n : Closes(n, tag))

RECURSIVE StripTag(_, _)
StripTag(nodes, tag) ==
  LET close == IF nodes = << >> THEN 0 ELSE FirstClose(nodes, tag)
      inner == IF tag = "speak" THEN << >> ELSE SubSeq(nodes, 2, close - 1)
  IN  CASE nodes = << >> -> << >>
        [] nodes # << >> /\ Opens(Head(nodes), tag) /\ close # 0 ->
             inner \o StripTag(From(nodes, close + 1), tag)
        [] OTHER -> <<Head(nodes)>> \o StripTag(Tail(nodes), tag)

StripYapTags(nodes) == StripTag(StripTag(StripTag(nodes, "speak"), "show"), "cap")
=============================================================================
