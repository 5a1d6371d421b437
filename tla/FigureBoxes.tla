---------------------------- MODULE FigureBoxes ----------------------------
(***************************************************************************)
(* The geometry of the YOLO worker (yapit/workers/yolo/__main__.py): which *)
(* of the detected boxes of a page are kept, which of those stand side by  *)
(* side, and in which order they are given to the extraction.              *)
(*                                                                         *)
(* A box is [x1, y1, x2, y2]; the detections come by falling confidence.   *)
(***************************************************************************)
EXTENDS Integers, Sequences, SequencesExt

Area(b) == (b.x2 - b.x1) * (b.y2 - b.y1)
Common(from1, to1, from2, to2) == Max({0, Min({to1, to2}) - Max({from1, from2})})
Shared(a, b) == Common(a.x1, a.x2, b.x1, b.x2) * Common(a.y1, a.y2, b.y1, b.y2)

\* torchvision.ops.nms with IOU_THRESHOLD 0.45: a box goes when a kept one of
\* higher confidence has too much in common with it.
Nms(boxes) ==
  FoldLeft(LAMBDA kept, b :
             IF \E i \in DOMAIN kept :
                  100 * Shared(kept[i], b) > 45 * (Area(kept[i]) + Area(b) - Shared(kept[i], b))
             THEN kept ELSE Append(kept, b),
           << >>, boxes)

\* "smaller is mostly contained"
MostlyInside(a, b) == 10 * Shared(a, b) > 7 * Min({Area(a), Area(b)})

\* detect_figures: box i is compared with those after it that are left.  It drops
\* those no larger than itself, until it meets a larger one and goes instead.
DropSmaller(boxes) ==
  LET step(dropped, i) ==
        LET met == {j \in i + 1 .. Len(boxes) : j \notin dropped /\ MostlyInside(boxes[i], boxes[j])}
            larger == {j \in met : Area(boxes[i]) < Area(boxes[j])}
            stop == IF larger = {} THEN Len(boxes) + 1 ELSE Min(larger)
        IN  IF i \in dropped THEN dropped
            ELSE dropped \cup {j \in met : j < stop} \cup (IF larger = {} THEN {} ELSE {i})
      dropped == FoldLeft(step, {}, [i \in DOMAIN boxes |-> i])
      kept == SelectSeq([i \in DOMAIN boxes |-> i], LAMBDA i : i \notin dropped)
  IN  [k \in DOMAIN kept |-> boxes[kept[k]]]

\* Twice the height of a box's centre
Center(b) == b.y1 + b.y2
Height(b) == b.y2 - b.y1

SideBySide(a, b) ==
  2 * Common(a.y1, a.y2, b.y1, b.y2) > Min({Height(a), Height(b)})

\* assign_row_groups: a figure joins the first row whose first member it overlaps,
\* or opens one; rows of one figure stay without a number (0).
RowLabels(boxes) ==
  LET leader[j \in DOMAIN boxes] ==
        LET ahead == {i \in 1 .. j - 1 : leader[i] = i /\ SideBySide(boxes[i], boxes[j])}
        IN  IF ahead = {} THEN j ELSE Min(ahead)
      members(i) == {j \in DOMAIN boxes : leader[j] = i}
  IN  [j \in DOMAIN boxes |->
         IF Cardinality(members(leader[j])) = 1 THEN 0
         ELSE Cardinality({i \in 1 .. leader[j] : Cardinality(members(i)) > 1})]

AssignRowGroups(boxes) ==
  LET sorted == SortSeq(boxes, LAMBDA a, b : Center(a) < Center(b))
      labels == RowLabels(sorted)
  IN  SortSeq([k \in DOMAIN sorted |-> [box |-> sorted[k], row |-> labels[k]]],
              LAMBDA f, g : \/ Center(f.box) < Center(g.box)
                            \/ Center(f.box) = Center(g.box) /\ f.box.x1 < g.box.x1)

DetectFigures(detections) == AssignRowGroups(DropSmaller(Nms(detections)))
=============================================================================
