----------------------- MODULE TransformersDetections -----------------------
(***************************************************************************)
(* backends/transformers.py: the objects an open-vocabulary detector       *)
(* reports in an image, or in the pixels of a requested region, become     *)
(* detections of the labels asked for.                                     *)
(*                                                                         *)
(* A label is a key and the characters of punctuation that trail it, which *)
(* the detector may drop or add.  A report has a score in hundredths, a    *)
(* spelling of a label and a box in working pixels; a score out of range,  *)
(* NoLabel and NoReportedBox are what the detector got wrong.              *)
(***************************************************************************)
EXTENDS Transforms

NoLabel == [none |-> TRUE]

NoReportedBox == [none |-> TRUE]

NMS_IOU == <<4, 5>>

\* The requested label that answers to a key: of several, the last.
LabelFor(key, labels) ==
    LET Answering == {k \in DOMAIN labels : labels[k].key = key}
    IN  IF Answering = {}
        THEN NoLabel
        ELSE labels[CHOOSE k \in Answering : \A j \in Answering : j <= k]

Ignored(report, request) == report.score < request.min_confidence

RequestedLabel(report, request) == LabelFor(report.label.key, request.labels)

\* A detector is wrong about a label it spells badly, about a box of one that was requested.
Malformed(report, request) ==
    \/ report.score \notin 0..100
    \/ /\ ~Ignored(report, request)
       /\ \/ report.label = NoLabel
          \/ /\ RequestedLabel(report, request) # NoLabel
             /\ report.box = NoReportedBox

\* The part of the working image that was cut out for the request.
WorkingPixels(request, asset) ==
    IF request.region = NoBox
    THEN PixelBox(0, 0, asset[1], asset[2])
    ELSE box_to_pixels(request.region, asset[1], asset[2], 0)

\* A box in working pixels, clipped to the working image.
ClampedTo(working, p) ==
    PixelBox(Within(0, p.left, working.right - working.left),
             Within(0, p.top, working.bottom - working.top),
             Within(0, p.right, working.right - working.left),
             Within(0, p.bottom, working.bottom - working.top))

\* That box in coordinates of the whole image; none if nothing of it is left.
PlacedBack(p, working, request, asset) ==
    IF ~IsPixelBox(p) THEN NoBox
    ELSE BoxesIntersection(pixels_to_box(remap_pixel_box(p, working), asset[1], asset[2]),
                           IF request.region = NoBox THEN Box(0, 0, GRID, GRID)
                           ELSE request.region)

DetectedBox(report, request, asset, working) ==
    PlacedBack(ClampedTo(working, report.box), working, request, asset)

Wanted(report, request) == ~Ignored(report, request) /\ RequestedLabel(report, request) # NoLabel

Detection(report, label, box) ==
    [label |-> label, attributes |-> IF report.label = label THEN {} ELSE {report.label},
     score |-> report.score, box |-> box]

\* Every wanted report as a detection, those without a box included.
Detections(reports, request, asset) ==
    LET wanted == SelectSeq(reports, LAMBDA r : Wanted(r, request))
    IN  [k \in DOMAIN wanted |->
            Detection(wanted[k], RequestedLabel(wanted[k], request),
                      DetectedBox(wanted[k], request, asset, WorkingPixels(request, asset)))]

Located(detection) == detection.box # NoBox

\* What is told of the reports that were left out.
LeftOut(reports, request, detections) ==
    LET Unmatched(r) == ~Ignored(r, request) /\ ~Wanted(r, request)
    IN  (IF \E k \in DOMAIN detections : ~Located(detections[k])
         THEN {"zero_area_detection_discarded"} ELSE {})
        \cup (IF \E k \in DOMAIN reports : Unmatched(reports[k])
              THEN {"unmatched_detection_label"} ELSE {})

\* Greedy suppression: surest first, one of the detections of a label that nearly coincide.
Nms(detections) ==
    LET ScoreKey(d) == <<-d.score, d.box.x_min, d.box.y_min, d.box.x_max, d.box.y_max,
                         d.label.key, d.label.trail>>
        Suppressed(d, retained) ==
            \E k \in DOMAIN retained : /\ retained[k].label = d.label
                                       /\ NearDuplicate(d.box, retained[k].box, NMS_IOU)
    IN  FoldLeft(LAMBDA retained, d : IF Suppressed(d, retained) THEN retained
                                      ELSE Append(retained, d),
                 <<>>, SortedBy(detections, ScoreKey))

Spelt(label) == 1 + label.trail

DetectionDraft(d) ==
    [payload |-> "detection", label |-> d.label, parts |-> d.attributes,
     text |-> Spelt(d.label) + FoldSet(LAMBDA a, total : total + Spelt(a), 0, d.attributes),
     controls |-> 0, region |-> d.box, confidence |-> d.score, warnings |-> {}]

FirstOf(items, most) == SubSeq(items, 1, Smaller(Len(items), most))

Drafts(detections) == [k \in DOMAIN detections |-> DetectionDraft(detections[k])]

DetectionResult(detections, left_out, request) ==
    [refused |-> FALSE, warnings |-> left_out,
     drafts |-> Drafts(FirstOf(Nms(SelectSeq(detections, Located)), request.max_results))]

ResultOf(detections, reports, request) ==
    DetectionResult(detections, LeftOut(reports, request, detections), request)

\* What the backend answers to the request for reports in that image.
Detect(reports, request, asset) ==
    IF \E k \in DOMAIN reports : Malformed(reports[k], request)
    THEN [refused |-> TRUE]
    ELSE ResultOf(Detections(reports, request, asset), reports, request)

=============================================================================
