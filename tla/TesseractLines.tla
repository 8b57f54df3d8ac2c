--------------------------- MODULE TesseractLines ---------------------------
(***************************************************************************)
(* backends/tesseract.py: the engine's words, read from the whole image or *)
(* from the pixels of a requested region, become one observation per line. *)
(*                                                                         *)
(* A word has its line and place in it, its length, the engine's           *)
(* confidence, and the rectangle the engine reports in working pixels.     *)
(***************************************************************************)
EXTENDS Geometry, Ordering, SequencesExt

NoConfidence == -1

NoWordBox == PixelBox(0, 0, 0, 0)

\* The reported rectangle clipped to the working image; none if nothing is left.
WordBox(word, width, height) ==
    LET clipped == PixelBox(Within(0, word.left, width), Within(0, word.top, height),
                            Within(0, word.left + word.width, width),
                            Within(0, word.top + word.height, height))
    IN  IF /\ word.width > 0 /\ word.height > 0
           /\ IsPixelBox(clipped)
        THEN clipped
        ELSE NoWordBox

ReportedConfidence(word) ==
    IF word.confidence \in 0..100 THEN word.confidence ELSE NoConfidence

Parsed(words, width, height) ==
    LET Read(word) == [line |-> word.line, place |-> word.place, chars |-> word.chars,
                       confidence |-> ReportedConfidence(word),
                       box |-> WordBox(word, width, height)]
        spelled == SelectSeq(words, LAMBDA word : word.chars > 0)
    IN  [k \in DOMAIN spelled |-> Read(spelled[k])]

\* Words of each line in reading order, the lines in the order they are read.
Lines(words) ==
    LET ReadingKey(word) == <<word.line, word.place>>
        ordered == SortedBy(words, ReadingKey)
        numbers == Ascending({words[k].line : k \in DOMAIN words})
    IN  [n \in DOMAIN numbers |->
            SelectSeq(ordered, LAMBDA word : word.line = numbers[n])]

SumOver(items, Value(_)) == FoldLeft(LAMBDA total, item : total + Value(item), 0, items)

\* Mean confidence weighted by length, kept as a fraction: <<sum, characters>>.
LineConfidence(words) ==
    LET sure == SelectSeq(words, LAMBDA word : word.confidence # NoConfidence)
        Weighted(word) == word.confidence * word.chars
        Characters(word) == word.chars
    IN  <<SumOver(sure, Weighted), SumOver(sure, Characters)>>

\* A minimum of 0 stands for a request without one.
ConfidentEnough(confidence, minimum) ==
    minimum = 0 \/ (confidence[2] > 0 /\ confidence[1] >= minimum * confidence[2])

LineBox(words) ==
    LET boxes == {words[k].box : k \in DOMAIN words} \ {NoWordBox}
        least(S) == CHOOSE a \in S : \A b \in S : a <= b
        most(S) == CHOOSE a \in S : \A b \in S : a >= b
    IN  IF boxes = {}
        THEN NoWordBox
        ELSE PixelBox(least({b.left : b \in boxes}), least({b.top : b \in boxes}),
                      most({b.right : b \in boxes}), most({b.bottom : b \in boxes}))

FullAssetBox(local, region, region_pixels, asset, working) ==
    IF local = NoWordBox
    THEN NoBox
    ELSE IF region = NoBox
    THEN pixels_to_box(local, working[1], working[2])
    ELSE BoxesIntersection(pixels_to_box(remap_pixel_box(local, region_pixels),
                                         asset[1], asset[2]),
                           region)

LineText(words) ==
    LET Characters(word) == word.chars
    IN  SumOver(words, Characters) + Len(words) - 1

\* What the backend reports for the engine's words.
BuildResult(words, request, asset) ==
    LET region_pixels == box_to_pixels(request.region, asset[1], asset[2], 0)
        working == IF request.region = NoBox
                   THEN asset
                   ELSE <<region_pixels.right - region_pixels.left,
                          region_pixels.bottom - region_pixels.top>>
        lines == Lines(Parsed(words, working[1], working[2]))
        kept == SelectSeq(lines, LAMBDA line :
                    ConfidentEnough(LineConfidence(line), request.min_confidence))
        Draft(line) ==
            [payload |-> "text", text |-> LineText(line), controls |-> 0, parts |-> {},
             region |-> FullAssetBox(LineBox(line), request.region, region_pixels,
                                     asset, working),
             confidence |-> LineConfidence(line), warnings |-> {}]
    IN  [drafts |-> [k \in DOMAIN kept |-> Draft(kept[k])],
         warnings |-> IF lines = <<>> THEN {"no_text_detected"}
                      ELSE IF kept = <<>> THEN {"no_text_above_threshold"}
                      ELSE {}]

=============================================================================
