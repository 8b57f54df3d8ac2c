---------------------------- MODULE Calculations ----------------------------
(***************************************************************************)
(* The library's pure calculations, each as one step from a call to its    *)
(* answer: crops, tiles and marks of an image, a backend's answer made     *)
(* into observations, and the observations shown to the policy.            *)
(***************************************************************************)
EXTENDS Transforms, Normalize, TesseractLines, TransformersDetections, ContextCompiler

CONSTANTS
    OneWhole,                   \* padding and overlap are numerators over this
    Crops, Tilings, Markings,   \* calls of the transforms
    Readings,                   \* words of the engine, and the request they answer
    Sightings,                  \* reports of the detector, and the request they answer
    Responses,                  \* answers of any backend, and their request
    Compilations                \* observations of a session, and the policy call

Sizes == (Nat \ {0}) \X (Nat \ {0})

\* What the calls of the transforms carry: boxes that the Box model accepts, sides of
\* images, and rows and columns as the tools bound them; floats drift by less than a pixel.
ASSUME CallAssumption ==
    /\ OneWhole \in Nat \ {0}
    /\ \A t \in Crops :
          /\ t.call = "crop" /\ t.size \in Sizes /\ t.padding \in Nat /\ t.drift \in 0..1
          /\ t.box \in [x_min : Nat, y_min : Nat, x_max : Nat, y_max : Nat] /\ IsBox(t.box)
    /\ \A t \in Tilings :
          /\ t.call = "tile" /\ t.size \in Sizes /\ t.overlap \in Nat
          /\ t.rows \in 1..8 /\ t.columns \in 1..8
    /\ \A t \in UNION {Markings, Readings, Sightings, Responses, Compilations} :
          t.call \notin {"crop", "tile"}

VARIABLES
    task,    \* the call
    answer   \* what it returned

vars == <<task, answer>>

Unanswered == [done |-> FALSE]

Answered(value) == [done |-> TRUE, value |-> value]

Init ==
    /\ \E calls \in {Crops, Tilings, Markings, Readings, Sightings, Responses, Compilations} :
          task \in calls
    /\ answer = Unanswered

Called(name) == task.call = name /\ ~answer.done

Return(value) == answer' = Answered(value) /\ UNCHANGED task

CropImage ==
    /\ Called("crop")
    /\ Return(build_crop_geometry(task.box, task.size[1], task.size[2],
                                  task.padding, OneWhole, task.drift))

TileImage ==
    /\ Called("tile")
    /\ Return(IF TileRefused(task.size[1], task.size[2], task.rows, task.columns)
              THEN <<>>
              ELSE Tile(task.size[1], task.size[2], task.rows, task.columns,
                        task.overlap, OneWhole))

MarkImage ==
    /\ Called("mark")
    /\ Return(RenderMarks(task.size[1], task.size[2], task.candidates, task.threshold))

ReadText ==
    /\ Called("read")
    /\ LET built == BuildResult(task.words, task.request, task.asset)
       IN  Return([built |-> built, normalized |-> NormalizeResult(built, task.request)])

DetectObjects ==
    /\ Called("detect")
    /\ LET built == Detect(task.reports, task.request, task.asset)
       IN  Return([built |-> built,
                   normalized |-> IF built.refused THEN Refused
                                  ELSE NormalizeResult(built, task.request)])

NormalizeAnswer ==
    /\ Called("normalize")
    /\ Return(NormalizeResult(task.result, task.request))

CompileContext ==
    /\ Called("compile")
    /\ Return(Compile(task.observations, task.request))

Next ==
    \/ CropImage
    \/ TileImage
    \/ MarkImage
    \/ ReadText
    \/ DetectObjects
    \/ NormalizeAnswer
    \/ CompileContext

Spec == Init /\ [][Next]_vars

(***************************************************************************)
(* Properties.                                                             *)
(***************************************************************************)

Done(name) == task.call = name /\ answer.done

\* The pixels of a crop are a non-empty part of the image, cover all of the padded box and
\* of the box asked for, and leave it by no more than one pixel, floats or not.
CropCoversRequest ==
    Done("crop") =>
        LET crop == answer.value
            p == crop.pixels
            w == task.size[1]
            h == task.size[2]
        IN  /\ IsPixelBox(p) /\ p.right <= w /\ p.bottom <= h
            /\ PixelsCover(p, crop.expanded, w, h)
            /\ PixelsCover(p, crop.requested, w, h)
            /\ crop.expanded.x_min * w - p.left * GRID <= GRID
            /\ crop.expanded.y_min * h - p.top * GRID <= GRID
            /\ p.right * GRID - crop.expanded.x_max * w <= GRID
            /\ p.bottom * GRID - crop.expanded.y_max * h <= GRID

\* The tiles lie in the image and leave no pixel out; without overlap no two share one,
\* and each is below or right of the one before it, so that they read in row-major order.
TilesCoverImage ==
    Done("tile") =>
        LET tiles == answer.value
            Holds(p, x, y) == p.left <= x /\ x < p.right /\ p.top <= y /\ y < p.bottom
            Holders(x, y) == {n \in DOMAIN tiles : Holds(tiles[n], x, y)}
        IN  tiles # <<>> =>
               /\ \A n \in DOMAIN tiles :
                     /\ IsPixelBox(tiles[n])
                     /\ tiles[n].right <= task.size[1] /\ tiles[n].bottom <= task.size[2]
               /\ \A x \in 0..(task.size[1] - 1), y \in 0..(task.size[2] - 1) :
                     /\ Holders(x, y) # {}
                     /\ task.overlap = 0 => Cardinality(Holders(x, y)) = 1
               /\ \A n \in 2..Len(tiles) :
                     \/ task.overlap # 0
                     \/ tiles[n].right > tiles[n - 1].right
                     \/ tiles[n].bottom > tiles[n - 1].bottom

\* Cropping and tiling lose nothing of what was asked for (image/geometry.py:142-157,
\* image/transforms.py:446-514).
PixelsAreCovered == CropCoversRequest /\ TilesCoverImage

Rendered == Done("mark") /\ ~answer.value.refused

\* The caller drew one box twice and asked that near duplicates be kept.
RepeatedBoxes ==
    /\ task.threshold = NoThreshold
    /\ \E j, k \in DOMAIN task.candidates :
          /\ j # k
          /\ MarkSortKey(task.candidates[j]) = MarkSortKey(task.candidates[k])

Claims(a, b) ==
    LexBefore(<<-a.priority>> \o MarkSortKey(a), <<-b.priority>> \o MarkSortKey(b))

\* As long as no box is kept twice: badges lie in the image and never share a pixel; marks are
\* numbered in spatial order; a candidate that was dropped for room had every one of its
\* places taken by badges with a better claim; and the counts reported add up.
BadgesGoByClaim ==
    Rendered /\ ~RepeatedBoxes =>
        LET marked == answer.value
            w == task.size[1]
            h == task.size[2]
            distinct == DistinctMarks(OrderedMarks(task.candidates), task.threshold)
            Places(k) == BadgeCandidates(PixelRegion(distinct[k].region, w, h),
                                         BadgeSize(k, w, h), w, h)
        IN  /\ \A k \in DOMAIN marked.badges :
                  LET badge == marked.badges[k]
                  IN  badge[1] >= 0 /\ badge[2] >= 0 /\ badge[3] < w /\ badge[4] < h
            /\ \A j, k \in DOMAIN marked.badges :
                  j # k => ~Intersects(marked.badges[j], marked.badges[k])
            /\ \A k \in 2..Len(marked.marks) :
                  ~LexBefore(MarkSortKey(marked.marks[k]), MarkSortKey(marked.marks[k - 1]))
            /\ \A k \in DOMAIN distinct :
                  distinct[k] \notin Holding(marked.marks) =>
                      \A p \in DOMAIN Places(k) :
                          \E m \in DOMAIN marked.marks :
                              /\ Intersects(Places(k)[p], marked.badges[m])
                              /\ ~Claims(distinct[k], marked.marks[m])
            /\ Len(task.candidates)
                  = Len(marked.marks) + marked.duplicates + marked.crowded

\* The order in which the caller lists regions does not change where badges go or what they
\* are numbered (docs/contracts.md:149), as long as no box is kept twice.
MarksIgnoreCallerOrder ==
    Rendered /\ ~RepeatedBoxes =>
        LET other == RenderMarks(task.size[1], task.size[2], Reverse(task.candidates),
                                 task.threshold)
            Drawn(marked) == [k \in DOMAIN marked.marks |->
                                 <<MarkSortKey(marked.marks[k]), marked.badges[k]>>]
        IN  ~other.refused /\ Drawn(other) = Drawn(answer.value)

\* Which regions are marked, how they are numbered and where their badges go is decided by the
\* regions alone.
MarksAreFair == BadgesGoByClaim /\ MarksIgnoreCallerOrder

\* A mark that cannot receive a badge of its own is dropped "rather than producing ambiguous
\* overlap" (docs/runtime.md:57-58): no two badges of one image share a pixel, whatever the
\* caller asks for.
NoAmbiguousOverlap ==
    Rendered =>
        \A j, k \in DOMAIN answer.value.badges :
            j # k => ~Intersects(answer.value.badges[j], answer.value.badges[k])

SoundDrafts(result, normalized, request) ==
    LET drafts == normalized.drafts
        requested == RequestedRegion(request)
    IN  /\ \A k \in DOMAIN drafts :
              /\ drafts[k].payload = AnswerPayload(request)
              /\ drafts[k].region # NoBox => IsBox(drafts[k].region)
              /\ drafts[k].region # NoBox /\ requested # NoBox =>
                    BoxesIntersection(requested, drafts[k].region) = drafts[k].region
              /\ drafts[k].region = NoBox /\ drafts[k].payload \in {"text", "detection"} =>
                    "location_unavailable" \in drafts[k].warnings
              /\ ~Discarded(drafts[k])
        /\ \A j, k \in DOMAIN drafts : drafts[j] = drafts[k] => j = k
        /\ \A k \in 2..Len(drafts) :
              ~LexBefore(DraftSortKey(drafts[k]), DraftSortKey(drafts[k - 1]))
        /\ Len(result.drafts) = Len(drafts) + normalized.empties + normalized.duplicates

\* What is kept of a backend's answer is of the payload asked for, lies in the requested
\* region, is sorted and holds nothing twice; what is left out was empty or a duplicate and
\* is counted; and an observation without a place says so (perception/normalize.py).
NormalizedIsSound ==
    Done("normalize") /\ ~answer.value.refused =>
        SoundDrafts(task.result, answer.value, task.request)

\* Text read from the pixels of a region, which stick out of the region, comes back in
\* coordinates of the whole image and within the region: normalization refuses it for its
\* length alone, and no line whose confidence suffices is lost but for an exact duplicate.
ReadingsStayInRegion ==
    Done("read") =>
        LET built == answer.value.built
            normalized == answer.value.normalized
        IN  /\ normalized.refused => ~WithinLimits(built.drafts, task.request)
            /\ ~normalized.refused =>
                  /\ SoundDrafts(built, normalized, task.request)
                  /\ normalized.empties = 0

\* Columns or rows of the grid whose first edge lies in the pixels from first to last.
Cells(side, first, last) == {c \in 0..(GRID - 1) : first * GRID <= c * side /\ c * side < last * GRID}

\* The columns and rows that the box of a report covers, in the working image and the region.
CellsSeen(report) ==
    LET working == WorkingPixels(task.request, task.asset)
        region == IF task.request.region = NoBox THEN Box(0, 0, GRID, GRID)
                  ELSE task.request.region
    IN  [x |-> Cells(task.asset[1], Larger(working.left, working.left + report.box.left),
                     Smaller(working.right, working.left + report.box.right))
               \cap (region.x_min..(region.x_max - 1)),
         y |-> Cells(task.asset[2], Larger(working.top, working.top + report.box.top),
                     Smaller(working.bottom, working.top + report.box.bottom))
               \cap (region.y_min..(region.y_max - 1))]

BoxCells(b) == [x |-> b.x_min..(b.x_max - 1), y |-> b.y_min..(b.y_max - 1)]

CellCount(A) == Cardinality(A.x) * Cardinality(A.y)

Coincide(A, B) ==
    LET shared == CellCount([x |-> A.x \cap B.x, y |-> A.y \cap B.y])
    IN  5 * shared >= 4 * (CellCount(A) + CellCount(B) - shared)

\* A report that asks to be kept: sure enough, of a requested label, and somewhere to be seen.
Kept(report) == Wanted(report, task.request) /\ CellCount(CellsSeen(report)) > 0

\* Every detection is where some report of its label and score saw it; two of a label do not
\* nearly coincide; a report is left out only for a surer one in its place or because the
\* request's number is reached by surer ones; the surest come first; normalization neither
\* refuses the answer but for its size nor drops any of it; and the detector's order of
\* reports decides nothing but the spelling that is noted.
DetectionsAreSound ==
    Done("detect") /\ ~answer.value.built.refused =>
        LET drafts == answer.value.built.drafts
            normalized == answer.value.normalized
            reports == Holding(task.reports)
            Named(r) == RequestedLabel(r, task.request)
            Bare(result) == [k \in DOMAIN result.drafts |->
                                [result.drafts[k] EXCEPT !.parts = {}, !.text = 0]]
        IN  /\ \A k \in DOMAIN drafts :
                  \E r \in reports :
                      /\ Kept(r)
                      /\ drafts[k].label = Named(r) /\ drafts[k].confidence = r.score
                      /\ BoxCells(drafts[k].region) = CellsSeen(r)
            /\ \A j, k \in DOMAIN drafts :
                  /\ j < k => drafts[j].confidence >= drafts[k].confidence
                  /\ j # k /\ drafts[j].label = drafts[k].label =>
                        ~Coincide(BoxCells(drafts[j].region), BoxCells(drafts[k].region))
            /\ \A r \in {r \in reports : Kept(r)} :
                  \/ \E k \in DOMAIN drafts :
                        /\ drafts[k].label = Named(r) /\ drafts[k].confidence >= r.score
                        /\ Coincide(BoxCells(drafts[k].region), CellsSeen(r))
                  \/ /\ Len(drafts) = task.request.max_results
                     /\ \A k \in DOMAIN drafts : drafts[k].confidence >= r.score
            /\ IF normalized.refused
               THEN ~WithinLimits(drafts, task.request)
               ELSE /\ SoundDrafts(answer.value.built, normalized, task.request)
                    /\ normalized.empties = 0 /\ normalized.duplicates = 0
            /\ Bare(Detect(Reverse(task.reports), task.request, task.asset))
                  = Bare(answer.value.built)

\* What a backend answers is kept only where the request asked for it, whole or not at all:
\* neither normalization nor the assembly of lines and detections moves, loses or widens an
\* answer (perception/normalize.py, backends/tesseract.py, backends/transformers.py).
AnswersAreScoped == NormalizedIsSound /\ ReadingsStayInRegion /\ DetectionsAreSound

Compiled == Done("compile") /\ ~answer.value.refused

\* The text keeps the limit; every observation of the session is either shown once or listed
\* as omitted; the root's metadata is shown; and the lines stand in rank order
\* (reasoning/context.py:131-220).
ContextAccountsForAll ==
    Compiled =>
        LET lines == answer.value.lines
            ids == {o.id : o \in Holding(task.observations)}
            Key(k) == RankKey(lines[k].of, task.observations, task.request)
        IN  /\ answer.value.chars <= task.request.limit
            /\ Shown(lines) \cup answer.value.omitted = ids
            /\ Shown(lines) \cap answer.value.omitted = {}
            /\ Cardinality(Shown(lines)) = Len(lines)
            /\ \A k \in 2..Len(lines) : LexBefore(Key(k - 1), Key(k))
            /\ \A k \in DOMAIN lines : lines[k].chars <= FullLine(lines[k].of)
            /\ LET mandatory == Mandatory(Ranked(task.observations, task.request), task.request)
               IN  mandatory # <<>> => mandatory[1].id \in Shown(lines)

\* The shortest line the code can make of an observation.
ShortestLine(o) ==
    IF o.kind \in {"caption", "text"}
    THEN Smaller(FullLine(o), o.base + TruncationNote + LineSafePrefix(o, 0))
    ELSE FullLine(o)

\* The binary search for a cut finds the longest cut there is room for.
CutsAreLongest ==
    Done("compile") =>
        \A k \in DOMAIN task.observations :
            LET o == task.observations[k]
            IN  \A room \in 0..task.request.limit :
                    LET cuts == {TruncatedAt(o, m) : m \in 0..o.body}
                        fitting == {c \in cuts : c <= room}
                    IN  o.kind \in {"caption", "text"} =>
                            IF fitting = {}
                            THEN TruncatedLine(o, room) = NoLine
                            ELSE /\ TruncatedLine(o, room) \in fitting
                                 /\ \A c \in fitting : c <= TruncatedLine(o, room)

RankDecides ==
    Done("compile") =>
        LET ranked == Ranked(task.observations, task.request)
            mandatory == Mandatory(ranked, task.request)
            Ids == {o.id : o \in Holding(task.observations)}
            Alone == [k \in DOMAIN mandatory |->
                         [of |-> mandatory[k], chars |-> FullLine(mandatory[k])]]
        IN  IF answer.value.refused
            THEN \/ TextLength(Alone, {}) + OmissionReserve - OmissionFrame
                        > task.request.limit
                 \/ TextLength(Alone, Ids \ Shown(Alone)) > task.request.limit
            ELSE \A i, j \in DOMAIN ranked :
                    (/\ i < j
                     /\ ranked[i].id \in answer.value.omitted
                     /\ ranked[j].id \in Shown(answer.value.lines)
                     /\ ~Contains(mandatory, ranked[j]))
                    => \E k \in DOMAIN answer.value.lines :
                          /\ answer.value.lines[k].of = ranked[j]
                          /\ answer.value.lines[k].chars < ShortestLine(ranked[i])

\* An eligible observation is left out for a lower ranked one only if its own line, however
\* far it is cut, is longer than that one's; a cut is no shorter than it must be; and the
\* policy call is refused only when the lines that must be there leave no room.
RoomGoesByRank == CutsAreLongest /\ RankDecides

\* What the policy is told, and told of, does not depend on which line happened to fit.
ContextIsFair == ContextAccountsForAll /\ RoomGoesByRank

\* What is left out for want of room, a badge on an image or a line of the policy's text, is
\* left out for something with a better claim, and counted (image/transforms.py:269-443,
\* reasoning/context.py:131-220).
RoomIsSharedFairly == MarksAreFair /\ ContextIsFair

=============================================================================
