---------------------------- MODULE TextSplitting ----------------------------
(***************************************************************************)
(* TextSplitter of yapit/gateway/markdown/transformer.py: the character    *)
(* ranges a block's spoken text is cut into before synthesis.              *)
(*                                                                         *)
(* A text is a sequence of characters.  The splitter tells apart a         *)
(* sentence end ".", a pause ",", a closing quote or bracket ")", a space  *)
(* and everything else.  A range <<a, b>> is the code's (start, end): the  *)
(* characters a+1 .. b.                                                    *)
(***************************************************************************)
EXTENDS Integers, Sequences, SequencesExt, FiniteSetsExt

CONSTANTS MaxChars,     \* max_chars
          SoftMax,      \* soft_max = int(max_chars * soft_limit_mult)
          MinChunk      \* min_chunk_size

ASSUME SplitterAssumption ==
  /\ MaxChars \in Nat \ {0} /\ SoftMax \in Nat /\ MinChunk \in Nat
  /\ MaxChars <= SoftMax

Cut(text, r) == SubSeq(text, r[1] + 1, r[2])

IsBlank(text) == \A i \in DOMAIN text : text[i] = " "

\* str.strip()
Strip(text) ==
  LET solid == {i \in DOMAIN text : text[i] # " "}
  IN  IF solid = {} THEN << >> ELSE SubSeq(text, Min(solid), Max(solid))

\* The first offset at or after a, up to b, whose character is not a space.
SkipSpaces(text, a, b) ==
  Min({b} \cup {i \in a .. b : i < b /\ text[i + 1] # " "})

-----------------------------------------------------------------------------
\* SENTENCE_END.split: the pieces between the runs of space that follow a ".".
Sentences(text) ==
  LET stops == {i \in 1 .. Len(text) - 1 : text[i] = "." /\ text[i + 1] = " "}
      ends == SelectSeq([i \in DOMAIN text |-> i], LAMBDA i : i \in stops \cup {Len(text)})
  IN  [k \in DOMAIN ends |->
         << IF k = 1 THEN 0 ELSE SkipSpaces(text, ends[k - 1], Len(text)), ends[k] >>]

\* PAUSE_PATTERN: the offset behind each pause and the closing mark after it.
PauseEnds(text) ==
  {IF i < Len(text) /\ text[i + 1] = ")" THEN i + 1 ELSE i :
     i \in {j \in DOMAIN text : text[j] = ","}}

\* _find_pause_split: the latest pause in reach that leaves enough behind it,
\* else the first one in reach; 0 when there is none.
FindPauseSplit(text, pos, end) ==
  LET reach == {p \in PauseEnds(text) : pos < p /\ p <= end /\ p - pos <= MaxChars}
      good == {p \in reach : end - p >= MinChunk \/ p = end}
  IN  CASE good # {} -> Max(good)
        [] good = {} /\ reach # {} -> Min(reach)
        [] OTHER -> 0

\* The word boundary fall back of _split_long_sentence.
WordSplit(text, pos, end) ==
  LET target == pos + MaxChars
      spaces == {b \in pos + 1 .. target - 1 : text[b + 1] = " "}
  IN  CASE spaces = {} -> target
        [] spaces # {} /\ end - (Max(spaces) + 1) < MinChunk -> end
        [] OTHER -> Max(spaces) + 1

RECURSIVE SplitLongSentence(_, _, _)
SplitLongSentence(text, pos, end) ==
  LET pause == FindPauseSplit(text, pos, end)
      word == WordSplit(text, pos, end)
  IN  CASE pos >= end -> << >>
        [] pos < end /\ end - pos <= MaxChars -> << <<pos, end>> >>
        [] end - pos > MaxChars /\ pause # 0 ->
             << <<pos, pause>> >> \o SplitLongSentence(text, SkipSpaces(text, pause, end), end)
        [] OTHER -> << <<pos, word>> >> \o SplitLongSentence(text, word, end)

-----------------------------------------------------------------------------
Flushed(acc) ==
  IF acc.end > acc.start THEN Append(acc.ranges, <<acc.start, acc.end>>) ELSE acc.ranges

\* The body of get_chunk_ranges' loop over the sentences.
AddSentence(text, acc, s) ==
  CASE s[2] - s[1] > SoftMax ->
         [ranges |-> Flushed(acc) \o SplitLongSentence(text, s[1], s[2]),
          start |-> s[2], end |-> s[2]]
    [] s[2] - s[1] <= SoftMax /\ s[2] - acc.start <= MaxChars -> [acc EXCEPT !.end = s[2]]
    [] OTHER -> [ranges |-> Flushed(acc), start |-> s[1], end |-> s[2]]

\* Every range but the last is extended over the white space behind it.
OverGaps(text, ranges) ==
  [i \in DOMAIN ranges |->
     IF i < Len(ranges) /\ ranges[i][2] < ranges[i + 1][1]
          /\ IsBlank(Cut(text, <<ranges[i][2], ranges[i + 1][1]>>))
     THEN <<ranges[i][1], ranges[i + 1][1]>>
     ELSE ranges[i]]

GetChunkRanges(text) ==
  CASE text = << >> -> << >>
    [] text # << >> /\ Len(text) <= MaxChars -> << <<0, Len(text)>> >>
    [] OTHER ->
         OverGaps(text, Flushed(FoldLeft(LAMBDA acc, s : AddSentence(text, acc, s),
                                         [ranges |-> << >>, start |-> 0, end |-> 0],
                                         Sentences(text))))

-----------------------------------------------------------------------------
(***************************************************************************)
(* What the callers rely on, for a stripped text.                          *)
(***************************************************************************)

\* The chunks tile the text: each begins where the one before it ends, the
\* first at its start and the last at its end, so no character is spoken twice
\* or left unspoken and the slices of the displayed text meet.
Tiles(text) ==
  LET r == GetChunkRanges(text)
  IN  text # << >> =>
        /\ r # << >> /\ r[1][1] = 0 /\ r[Len(r)][2] = Len(text)
        /\ \A i \in 1 .. Len(r) - 1 : r[i][2] = r[i + 1][1]

\* A chunk is never longer than the soft limit or a full chunk with the short
\* rest it takes along; and it is never blank (the synthesiser would be sent an
\* empty text) unless a word is cut right where two spaces follow it.
Bounded(text) ==
  LET limit == Max({SoftMax, MaxChars + MinChunk - 1})
      r == GetChunkRanges(text)
      doubled == \E i \in 1 .. Len(text) - 1 : text[i] = " " /\ text[i + 1] = " "
  IN  \A i \in DOMAIN r : LET length == Len(Strip(Cut(text, r[i])))
                         IN  length <= limit /\ (length > 0 \/ doubled)
=============================================================================
