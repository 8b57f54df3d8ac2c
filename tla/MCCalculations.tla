-------------------------- MODULE MCCalculations --------------------------
(* Images of a few pixels and of a few badges' size; boxes on a grid of 16. *)
EXTENDS Calculations
MCWeights == [metadata |-> 10, warning |-> 50, text |-> 35, transform |-> 15, detection |-> 25]

Spans == {<<a, b>> \in {0, 4, 8, 12, 16} \X {0, 4, 8, 12, 16} : a < b}
MCCrops ==
  {[call |-> "crop", box |-> Box(x[1], y[1], x[2], y[2]), size |-> size,
    padding |-> padding, drift |-> drift] :
      x \in Spans, y \in {<<0, 16>>, <<4, 8>>, <<12, 16>>},
      size \in {<<3, 5>>, <<7, 1>>, <<16, 4>>}, padding \in 0..2, drift \in 0..1}
MCTilings ==
  {[call |-> "tile", size |-> <<w, h>>, rows |-> rows, columns |-> columns, overlap |-> overlap] :
      w \in 1..7, h \in {2, 5}, rows \in 1..3, columns \in 1..4, overlap \in 0..2}

Corner == Box(0, 0, 8, 8)
Nearly == Box(0, 0, 8, 7)
Middle == Box(4, 4, 12, 12)
Whole == Box(0, 0, 16, 16)
Candidate(region, observation, label, priority) ==
  [region |-> region, observation |-> observation, label |-> label, priority |-> priority]
Seen(id) == {Candidate(r, id, id, p) : r \in {Corner, Nearly, Middle, Whole}, p \in 0..1}
DrawnBoxes == {Candidate(r, 0, l, 0) : r \in {Corner, Nearly, Middle}, l \in 1..2}
Crowd(step) == [k \in 1..11 |->
  LET x == (step * k) % 12
      y == (5 * k) % 9
  IN  Candidate(Box(x, y, x + 4, y + 4), k, k, k % 3)]
Marking(size, candidates, threshold) ==
  [call |-> "mark", size |-> size, candidates |-> candidates, threshold |-> threshold]
MCMarkings ==
  {Marking(size, <<a, b, c>>, t) :
      size \in {<<20, 14>>}, t \in {<<>>, <<98, 100>>, <<1, 4>>},
      a \in Seen(1), b \in Seen(2), c \in Seen(3)}
  \cup {Marking(<<16, 24>>, <<a, b, a>>, t) : t \in {<<>>, <<98, 100>>}, a \in Seen(1), b \in Seen(2)}
  \cup {Marking(<<16, 24>>, <<a, b>>, <<>>) : a \in Seen(1), b \in Seen(1)}
  \cup {Marking(<<22, 18>>, <<a, b, c>>, t) :
      t \in {<<>>, <<98, 100>>}, a \in DrawnBoxes, b \in DrawnBoxes, c \in DrawnBoxes}
  \cup {Marking(size, Crowd(step), t) :
      size \in {<<40, 40>>, <<64, 48>>}, step \in {3, 5, 7}, t \in {<<>>, <<98, 100>>, <<1, 4>>}}

Word(line, place, left, width, confidence) ==
  [line |-> line, place |-> place, chars |-> place, confidence |-> confidence,
   left |-> left, top |-> line - 1, width |-> width, height |-> 2]
Words(place) == {Word(line, place, left, width, confidence) :
  line \in 1..2, left \in {-1, 1, 2}, width \in {0, 2}, confidence \in {-1, 40}}
Reading(region, minimum) ==
  [capability |-> "ocr", marks |-> {}, max_results |-> 0, count |-> 0,
   region |-> region, min_confidence |-> minimum]
MCReadings ==
  {[call |-> "read", words |-> <<a, b, Word(1, 3, 1, 1, 90)>>,
    request |-> Reading(region, minimum), asset |-> <<4, 4>>] :
      a \in Words(2), b \in Words(1),
      region \in {NoBox, Box(3, 0, 13, 16), Box(4, 4, 12, 12), Box(7, 2, 9, 5)},
      minimum \in {0, 60}}

Label(key, trail) == [key |-> key, trail |-> trail]
Report(score, label, box) == [score |-> score, label |-> label, box |-> box]
ReportedBoxes == {PixelBox(-1, 0, 2, 3), PixelBox(0, 0, 2, 2), PixelBox(0, -1, 5, 9),
  PixelBox(2, 1, 2, 3), PixelBox(3, 0, 4, 1)}
Spellings == {Label(1, 0), Label(1, 1), Label(2, 0), Label(3, 0)}
Reports == {Report(score, label, box) : score \in {50, 90}, label \in Spellings, box \in ReportedBoxes}
OddReports == {Report(101, Label(1, 0), PixelBox(0, 0, 2, 2)), Report(10, NoLabel, PixelBox(0, 0, 2, 2)),
  Report(60, NoLabel, PixelBox(0, 0, 2, 2)), Report(60, Label(1, 0), NoReportedBox),
  Report(60, Label(3, 0), NoReportedBox)}
Detecting(labels, region, most) ==
  [capability |-> "detection", marks |-> {}, max_results |-> most, count |-> 0, labels |-> labels,
   region |-> region, min_confidence |-> 25]
Sighting(reports, request) ==
  [call |-> "detect", reports |-> reports, request |-> request, asset |-> <<4, 8>>]
TwoLabels == <<Label(2, 0), Label(1, 1), Label(1, 0)>>
MCSightings ==
  {Sighting(<<a, b>>, Detecting(TwoLabels, region, 3)) :
      a \in {r \in Reports : r.label \in {Label(1, 0), Label(3, 0)}}, b \in Reports \cup OddReports,
      region \in {NoBox, Box(3, 2, 13, 16)}}
  \cup {Sighting(<<a, b, c>>, Detecting(<<Label(1, 0)>>, region, most)) :
      a \in {r \in Reports : r.label = Label(1, 0)}, b \in {r \in Reports : r.label = Label(1, 1)},
      c \in {Report(70, Label(1, 0), box) : box \in {PixelBox(0, 0, 5, 9), PixelBox(0, 0, 4, 7)}},
      region \in {NoBox, Box(5, 2, 11, 7)}, most \in 1..2}

Requested == Box(4, 4, 12, 12)
Places == {NoBox, Box(4, 4, 8, 8), Box(3, 4, 8, 13), Box(3, 4, 4, 8), Box(0, 4, 8, 8)}
Draft(payload, text, controls, parts, region) ==
  [payload |-> payload, text |-> text, controls |-> controls, parts |-> parts,
   region |-> region, confidence |-> NoConfidence, warnings |-> {}]
TextDrafts == {Draft("text", t, c, {}, r) : t \in {0, 2}, c \in 0..1, r \in Places}
OtherDrafts ==
  {Draft(p, t, 0, parts, r) : p \in {"caption", "detection", "colors", "mark_description"},
      t \in {0, 3}, parts \in {{}, {1}, {1, 2}}, r \in Places \cup {Box(-1, 4, 8, 8), Box(-2, 4, 8, 8)}}
Request(capability, marks, region) ==
  [capability |-> capability, marks |-> marks, max_results |-> 2, count |-> 1,
   region |-> region, min_confidence |-> 0]
Response(drafts, request) ==
  [call |-> "normalize", result |-> [drafts |-> drafts, warnings |-> {}], request |-> request]
MCResponses ==
  {Response(<<a, b>>, Request("ocr", {}, Requested)) : a \in TextDrafts, b \in TextDrafts}
  \cup {Response(<<a, b, a>>, Request("ocr", {}, NoBox)) : a \in TextDrafts, b \in TextDrafts}
  \cup {Response(<<a>>, Request(c, marks, r)) : a \in OtherDrafts,
      c \in {"caption", "detection", "colors"}, marks \in {{}, {1}}, r \in {NoBox, Requested}}
  \cup {Response(<<a, b>>, Request("detection", {}, Requested)) :
      a \in {d \in OtherDrafts : d.payload = "detection"},
      b \in {d \in OtherDrafts : d.payload = "detection"}}

Shape(kind, asset, base, body, breaks, relevance, contradicts) ==
  [id |-> 0, kind |-> kind, asset |-> asset, base |-> base, body |-> body, breaks |-> breaks,
   relevance |-> relevance, contradicts |-> contradicts,
   derived |-> IF kind = "transform" THEN asset ELSE 0,
   parent |-> IF kind = "transform" THEN 1 ELSE 0]
Shapes ==
  {Shape("metadata", 1, 5, 0, {}, 0, {}), Shape("warning", 2, 3, 0, {}, 0, {}),
   Shape("text", 1, 3, 5, {2}, 0, {}), Shape("text", 2, 2, 6, {3, 4}, 40, {}),
   Shape("transform", 2, 4, 0, {}, 0, {}), Shape("detection", 2, 6, 0, {}, 20, {}),
   Shape("detection", 3, 3, 0, {}, 0, {1})}
Numbered(shapes) == [k \in DOMAIN shapes |-> [shapes[k] EXCEPT !.id = k]]
Call(limit, relevant, action_ids, answer_ids, everything) ==
  [root |-> 1, limit |-> limit, everything |-> everything, relevant |-> relevant,
   lineage |-> relevant, action_ids |-> action_ids, answer_ids |-> answer_ids, pinned_ids |-> {}]
Calls == {Call(limit, {2}, {}, {2}, FALSE) : limit \in {9, 14, 19, 26}}
         \cup {Call(limit, {}, {3}, {}, everything) : limit \in {12, 17, 22}, everything \in BOOLEAN}
Compilation(shapes, call) ==
  [call |-> "compile", observations |-> Numbered(shapes), request |-> call]
MCCompilations ==
  {Compilation(<<a, b, c>>, call) : a \in Shapes, b \in Shapes, c \in Shapes, call \in Calls}
  \cup {Compilation(<<a, b, c, d>>, Call(24, {2}, {}, {2}, FALSE)) :
      a \in Shapes, b \in Shapes, c \in Shapes, d \in Shapes}
=============================================================================
